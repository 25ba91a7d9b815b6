---------------------------- MODULE WalkForward ----------------------------
(***************************************************************************)
(* Studies made of many backtests: the walk-forward sweep                  *)
(* (src/src/bot/backtest/walkforward.py, metrics.py) and the comparison of *)
(* presets (_run_breakout_strategy_comparison of src/src/bot/main.py),     *)
(* with the commands that run them.                                        *)
(*                                                                         *)
(* A sweep lays folds over the days of a market, a train window and the    *)
(* test window after it; runs every parameter set on both; chooses one per *)
(* fold by its train run; and ranks all of them by their test runs.        *)
(* Returns and drawdowns are hundredths of a percent.  The Sharpe ratio    *)
(* and the yearly growth rate are left out of the objectives.              *)
(***************************************************************************)
EXTENDS Backtest

CONSTANT
  Plans   \* [command, market, costs, base, train, test, expanding, objective, top,
          \*  lookbacks, volumes, stops, trails, risks, names, configured, force]

\* generate_walkforward_folds refuses other windows.
ASSUME PlansAssumption ==
  \A p \in Plans :
    /\ IsMarket(p.market) /\ IsSetup(p.costs)
    /\ p.train \in Nat \ {0} /\ p.test \in Nat \ {0}
    /\ p.expanding \in BOOLEAN

VARIABLES plan, study

studyVars == <<plan, study>>

Objectives ==
  { "starting", "ending", "return", "drawdown", "trades", "winRate", "averageWin",
    "averageLoss", "expectancy" }

-----------------------------------------------------------------------------
(* Metrics of one run                                                      *)

EmptyMetrics == [o \in Objectives |-> 0]

Share(amount, whole) == (10000 * amount) \div whole

DeepestFall(curve) ==
  LET PeakAt(i) == Max({curve[j].equity : j \in 1 .. i})
  IN Max({Share(PeakAt(i) - curve[i].equity, PeakAt(i)) : i \in DOMAIN curve})

\* The mean of what some trades earned, 0 of none.
MeanNet(trades) ==
  IF trades = <<>> THEN 0
  ELSE FoldLeft(LAMBDA sum, t : sum + t.net, 0, trades) \div Len(trades)

\* calculate_summary_metrics: the return is relative to the first day's close.
Metrics(e) ==
  LET first  == Head(e.curve).equity
      ending == Last(e.curve).equity
      count  == Len(e.trades)
      wins   == SelectSeq(e.trades, LAMBDA t : t.net > 0)
      losses == SelectSeq(e.trades, LAMBDA t : t.net < 0)
  IN IF e.curve = <<>> THEN EmptyMetrics
     ELSE [ starting    |-> first,
            ending      |-> ending,
            return      |-> Share(ending - first, first),
            drawdown    |-> DeepestFall(e.curve),
            trades      |-> count,
            winRate     |-> IF count = 0 THEN 0 ELSE Share(Len(wins), count),
            averageWin  |-> MeanNet(wins),
            averageLoss |-> MeanNet(losses),
            expectancy  |-> MeanNet(e.trades) ]

\* The metrics of a run over some of a market's days.
RunMetrics(market, costs, from, to) ==
  Metrics(Run([market EXCEPT !.from = from, !.to = to], costs))

-----------------------------------------------------------------------------
(* Rankings                                                                *)

\* The larger the better; a drawdown the smaller the better.
Score(row, objective) == IF objective = "drawdown" THEN 0 - row.drawdown ELSE row[objective]

\* select_top_metric_rows: by the objective, then by the drawdown, the return and
\* the number of trades, then by the parameters.
RankOf(row, objective) ==
  <<0 - Score(row, objective), row.drawdown, 0 - row.return, 0 - row.trades>>

\* A number of hundredths written with as few decimals as it takes and ended by a
\* bar: its characters by their places among the characters, of which the point
\* comes before the digits and the bar after them.
Written(n) ==
  LET Digit(x, place) == (x \div (10 ^ place)) % 10
      whole  == n \div 100
      length == CHOOSE k \in 1 .. whole + 1 : 10 ^ (k - 1) <= Max({whole, 1}) /\ whole < 10 ^ k
      decimals == IF n % 100 = 0 THEN <<>>
                  ELSE IF n % 10 = 0 THEN <<-1, Digit(n, 1)>>
                  ELSE <<-1, Digit(n, 1), Digit(n, 0)>>
  IN [i \in 1 .. length |-> Digit(whole, length - i)] \o decimals \o <<10>>

\* SweepParameterSet.parameter_id, which sorts as text.
IdOf(p) ==
  Written(100 * p.lookback) \o Written(p.volumePct) \o Written(p.stopAtr)
    \o Written(p.trailingAtr) \o Written(p.risk)

Precedes(x, y) ==
  \E i \in DOMAIN x \cap DOMAIN y : x[i] < y[i] /\ \A j \in 1 .. i - 1 : x[j] = y[j]

Ranked(rows, objective) ==
  SetToSortSeq(DOMAIN rows,
               LAMBDA p, q : Precedes(RankOf(rows[p], objective) \o IdOf(p),
                                      RankOf(rows[q], objective) \o IdOf(q)))

TopOf(rows, objective, n) ==
  LET ranked == Ranked(rows, objective)
  IN SubSeq(ranked, 1, Min({n, Len(ranked)}))

-----------------------------------------------------------------------------
(* Folds                                                                   *)

FirstTrain(p) == [from |-> p.market.from, to |-> p.market.from + p.train - 1]

TestOf(p, train) ==
  [from |-> train.to + 1, to |-> Min({train.to + p.test, p.market.to})]

\* generate_walkforward_folds: an expanding window grows by the test window, a
\* rolling one moves on by it.
NextTrain(p, fold) ==
  IF p.expanding THEN [from |-> fold.train.from, to |-> fold.test.to]
  ELSE [from |-> fold.train.from + p.test, to |-> fold.train.to + p.test]

TrainAfter(p, folds) == IF folds = <<>> THEN FirstTrain(p) ELSE NextTrain(p, Last(folds))

-----------------------------------------------------------------------------
(* A sweep                                                                 *)

\* build_parameter_grid
Grid(p) ==
  [ lookback : p.lookbacks, volumePct : p.volumes, stopAtr : p.stops,
    trailingAtr : p.trails, risk : p.risks ]

\* The engine of one parameter set (run_breakout_walkforward).
CostsOf(p, parameters) ==
  [p.costs EXCEPT !.risk = parameters.risk,
                  !.strategy = [p.costs.strategy EXCEPT
                     !.lookback = parameters.lookback,
                     !.volumeWindow = parameters.lookback,
                     !.volumePct = parameters.volumePct,
                     !.stopAtr = parameters.stopAtr,
                     !.trailingAtr = parameters.trailingAtr]]

RowsOf(p, market, window) ==
  [g \in Grid(p) |-> RunMetrics(market, CostsOf(p, g), window.from, window.to)]

\* The choice looks at the window it is meant for.
ChoosePeeking(p, train, test) == Head(Ranked(test, p.objective))

\* The parameter set with the best train run.
Choose(p, train, test) == Head(Ranked(train, p.objective))

\* evaluate_walkforward for one fold.
Evaluate(p, market, fold) ==
  LET train == RowsOf(p, market, fold.train)
      test  == RowsOf(p, market, fold.test)
  IN [train |-> train, test |-> test, chosen |-> Choose(p, train, test)]

\* aggregate_metric_frame over the test rows.  Every parameter set has a row for
\* every fold, so that sums rank as means do.
Aggregate(p, evaluated) ==
  [g \in Grid(p) |->
     [o \in Objectives |->
        FoldLeft(LAMBDA sum, fold : sum + fold.test[g][o], 0, evaluated)]]

-----------------------------------------------------------------------------
(* A comparison of presets                                                 *)

PresetsOf(p) == Catalogue(p.base, p.configured, NoPositions)

CostsOfPreset(p, preset) ==
  [p.costs EXCEPT !.risk = preset.risk, !.closeOut = TRUE,
                  !.strategy = ApplyPreset(preset, p.costs.strategy, p.force)]

\* _run_breakout_strategy_comparison
Comparison(p) ==
  LET catalogue == PresetsOf(p)
      chosen    == {catalogue[name] : name \in SelectedNames(catalogue, p.names)}
  IN [preset \in chosen |->
        RunMetrics(p.market, CostsOfPreset(p, preset), p.market.from, p.market.to)]

-----------------------------------------------------------------------------
(* The commands                                                            *)

Unstarted(p) ==
  [ stage |-> IF p.command = "compare" THEN "comparing" ELSE "folding",
    folds |-> <<>>, evaluated |-> <<>>, best |-> <<>> ]

StudyInit ==
  /\ plan \in Plans
  /\ study = Unstarted(plan)

AddFold ==
  /\ study.stage = "folding"
  /\ LET train == TrainAfter(plan, study.folds)
     IN /\ train.to < plan.market.to
        /\ study' = [study EXCEPT !.folds = Append(@, [train |-> train,
                                                       test |-> TestOf(plan, train)])]
  /\ UNCHANGED plan

\* A range that has no room for a fold is an error.
FoldsDone ==
  /\ study.stage = "folding"
  /\ TrainAfter(plan, study.folds).to >= plan.market.to
  /\ study' = [study EXCEPT !.stage = IF study.folds = <<>> THEN "failed" ELSE "evaluating"]
  /\ UNCHANGED plan

EvaluateFold ==
  /\ study.stage = "evaluating"
  /\ Len(study.evaluated) < Len(study.folds)
  /\ LET fold == study.folds[Len(study.evaluated) + 1]
     IN study' = [study EXCEPT !.evaluated = Append(@, Evaluate(plan, plan.market, fold))]
  /\ UNCHANGED plan

\* select_top_parameter_sets
RankSets ==
  /\ study.stage = "evaluating"
  /\ Len(study.evaluated) = Len(study.folds)
  /\ study' = [study EXCEPT !.stage = "done",
                            !.best = TopOf(Aggregate(plan, study.evaluated),
                                           plan.objective, plan.top)]
  /\ UNCHANGED plan

\* A name that is in no catalogue is an error.
ComparePresets ==
  /\ study.stage = "comparing"
  /\ study' = IF NamesKnown(PresetsOf(plan), plan.names)
              THEN [study EXCEPT !.stage = "done",
                                 !.best = TopOf(Comparison(plan), plan.objective, plan.top)]
              ELSE [study EXCEPT !.stage = "failed"]
  /\ UNCHANGED plan

StudyNext == AddFold \/ FoldsDone \/ EvaluateFold \/ RankSets \/ ComparePresets

StudySpec == StudyInit /\ [][StudyNext]_studyVars

-----------------------------------------------------------------------------
(* Properties                                                              *)

StudyTypeOK ==
  /\ study.stage \in {"folding", "evaluating", "comparing", "done", "failed"}
  /\ Len(study.evaluated) <= Len(study.folds)
  /\ Len(study.best) <= plan.top
  /\ \A i \in DOMAIN study.evaluated : study.evaluated[i].chosen \in Grid(plan)

Days(window) == window.from .. window.to

\* Every day after the first train window is tested once and only once, and no
\* parameter set is tested on a day it was trained on: the train window of a
\* fold ends on the day before its test window, with rolling and with expanding
\* windows and however short the last fold is.
TestDaysOnce ==
  study.stage \in {"evaluating", "done"} /\ study.folds # <<>> =>
    /\ UNION {Days(study.folds[i].test) : i \in DOMAIN study.folds}
         = FirstTrain(plan).to + 1 .. plan.market.to
    /\ \A i, j \in DOMAIN study.folds :
         i < j => Days(study.folds[i].test) \cap Days(study.folds[j].test) = {}
    /\ \A i \in DOMAIN study.folds :
         /\ study.folds[i].train.to + 1 = study.folds[i].test.from
         /\ study.folds[i].train.from >= plan.market.from

\* A market whose bars end with a day.
Cut(market, day) ==
  [market EXCEPT
     !.tapes = [s \in DOMAIN @ |-> [d \in {e \in DOMAIN @[s] : e <= day} |-> @[s][d]]],
     !.benchmark = [d \in {e \in DOMAIN @ : e <= day} |-> @[d]]]

\* A sweep does not look ahead, though each of its runs is given the bars of the
\* whole range: the parameter set a fold chooses is the one it would have chosen
\* had the bars ended with its train window, and its test rows are those of a
\* market that ends with the test window.
BlindToTests ==
  \A i \in DOMAIN study.evaluated :
    LET fold  == study.folds[i]
        known == Evaluate(plan, Cut(plan.market, fold.train.to), fold)
        later == RowsOf(plan, Cut(plan.market, fold.test.to), fold.test)
    IN /\ study.evaluated[i].train = known.train
       /\ study.evaluated[i].chosen = known.chosen
       /\ study.evaluated[i].test = later

\* A study tests what it says: each day once, and blind to it
\* (generate_walkforward_folds, _evaluate_fold).
FoldsAreBlind == TestDaysOnce /\ BlindToTests
=============================================================================
