-------------------------- MODULE BreakoutMomentum --------------------------
(***************************************************************************)
(* The long breakout strategy (src/src/bot/strategy/breakout_momentum.py), *)
(* the benchmark filter it asks (strategy/regime_filter.py), the           *)
(* indicators both read (src/src/bot/indicators/) and the catalogue of     *)
(* named presets.                                                          *)
(*                                                                         *)
(* A tape is a function from the days on which a symbol traded to its      *)
(* bars: what is left of a price frame once it is sorted and rid of        *)
(* duplicates and of bars without prices.  Prices are whole cents,         *)
(* multiples and rates percentages.                                        *)
(***************************************************************************)
EXTENDS CandidateRisk, SequencesExt

Price == Nat \ {0}

Bars == [open : Price, high : Price, low : Price, close : Price, volume : Nat]

IsTape(tape) == \A d \in DOMAIN tape : d \in Nat \ {0} /\ tape[d] \in Bars

\* The n latest days of the whole tape.
LatestOfAll(tape, day, n) ==
  {d \in DOMAIN tape : Cardinality({e \in DOMAIN tape : d < e}) < n}

\* The n latest days of a tape up to a day, fewer when it is younger.
Latest(tape, day, n) ==
  {d \in DOMAIN tape :
     d <= day /\ Cardinality({e \in DOMAIN tape : d < e /\ e <= day}) < n}

Before(tape, day) == {d \in DOMAIN tape : d < day}

\* What a function of the numbers from 1 to last, or of some of them, adds up to.
SumUpTo(f, last) ==
  LET upTo[n \in 0 .. last] ==
        IF n = 0 THEN 0 ELSE upTo[n - 1] + (IF n \in DOMAIN f THEN f[n] ELSE 0)
  IN upTo[last]

\* The same for all the numbers that a function is defined on.
Total(f) == SumUpTo(f, Max(DOMAIN f \cup {0}))

Distance(x, y) == IF x < y THEN y - x ELSE x - y

-----------------------------------------------------------------------------
(* Indicators                                                              *)

\* rolling_high(...).shift(1): the highest high of the n bars before the
\* latest, unknown while there are fewer.
PriorHigh(tape, day, n) ==
  LET earlier == Latest(tape, day - 1, n)
  IN IF Cardinality(earlier) < n THEN NoValue
     ELSE Max({tape[d].high : d \in earlier})

\* The same over the n latest bars, the latest among them.
PriorHighUnshifted(tape, day, n) ==
  LET bars == Latest(tape, day, n)
  IN IF Cardinality(bars) < n THEN NoValue
     ELSE Max({tape[d].high : d \in bars})

\* true_range: the first bar has no close before it.
TrueRange(tape, day) ==
  LET bar   == tape[day]
      range == bar.high - bar.low
  IN IF Before(tape, day) = {} THEN range
     ELSE LET previous == tape[Max(Before(tape, day))].close
          IN Max({range, Distance(bar.high, previous), Distance(bar.low, previous)})

\* average_true_range
Atr(tape, day, n) ==
  LET bars == Latest(tape, day, n)
  IN IF Cardinality(bars) < n THEN NoValue
     ELSE Total([d \in bars |-> TrueRange(tape, d)]) \div n

\* relative_volume(lag_average=1) against its threshold: the volume over the
\* average of the n bars before it, unknown where that average is zero.
PassesRelativeVolume(tape, day, n, threshold) ==
  LET earlier == Latest(tape, day - 1, n)
      total   == Total([d \in earlier |-> tape[d].volume])
  IN /\ Cardinality(earlier) = n
     /\ total > 0
     /\ tape[day].volume * 100 * n >= threshold * total

\* regime_is_bullish: the benchmark's latest bar against its slow average.
RegimeModes == {"close_above_slow", "fast_above_slow", "either"}

RegimeIsBullish(benchmark, day, settings) ==
  LET slow    == Latest(benchmark, day, settings.slow)
      fast    == Latest(benchmark, day, settings.fast)
      total   == Total([d \in slow |-> benchmark[d].close])
      byClose == benchmark[Max(slow)].close * settings.slow > total
      byFast  == Total([d \in fast |-> benchmark[d].close]) * settings.slow
                   > total * settings.fast
  IN \/ ~settings.regime
     \/ /\ Cardinality(slow) = settings.slow
        /\ \/ settings.mode # "fast_above_slow" /\ byClose
           \/ settings.mode # "close_above_slow" /\ byFast

-----------------------------------------------------------------------------
(* The signal                                                              *)

\* compute_breakout_features, the column "breakout".
Breakout(tape, day, settings) ==
  LET high == PriorHigh(tape, day, settings.lookback)
  IN Known(high) /\ tape[day].close > high

\* generate_breakout_signal: whether the latest bar is one to buy.
Signals(tape, benchmark, day, settings) ==
  /\ Breakout(tape, day, settings)
  /\ settings.confirm =>
       PassesRelativeVolume(tape, day, settings.volumeWindow, settings.volumePct)
  /\ RegimeIsBullish(benchmark, day, settings)

\* A price less so many hundredths of an ATR.
Below(price, atr, multiple) == price - (atr * multiple) \div 100

\* The StrategySignal as a candidate without the optional context.
Candidate(symbol, tape, day, settings) ==
  LET close == tape[day].close
      range == Atr(tape, day, settings.atrWindow)
  IN [ symbol |-> symbol, entry |-> close,
       stop |-> IF Known(range) THEN Below(close, range, settings.stopAtr) ELSE NoValue,
       sector |-> NoValue, industry |-> NoValue, sectorPassed |-> TRUE,
       sectorLead |-> NoValue, earningsIn |-> NoValue, earnings |-> "unavailable" ]

-----------------------------------------------------------------------------
(* Presets                                                                 *)

Preset(lookback, volumePct, stopAtr, trailingAtr, risk, confirm, mode) ==
  [ lookback |-> lookback, volumePct |-> volumePct, stopAtr |-> stopAtr,
    trailingAtr |-> trailingAtr, risk |-> risk, confirm |-> confirm, mode |-> mode ]

\* int(round(1.5 * n)): halves are rounded to the even neighbour.
OneAndAHalf(n) ==
  LET below == (3 * n) \div 2
  IN IF n % 2 = 1 /\ below % 2 = 1 THEN below + 1 ELSE below

\* build_default_breakout_presets.  A halved risk is cut to whole percentages.
DefaultPresets(base) ==
  LET wide  == Max({base.lookback + 10, OneAndAHalf(base.lookback)})
      tight == Max({5, base.lookback - 10})
      Wide(confirm) ==
        Preset(wide, base.volumePct + 50, base.stopAtr + 50, base.trailingAtr + 50,
               Max({base.risk \div 2, 1}), confirm, "either")
      Plain(confirm) ==
        Preset(base.lookback, base.volumePct, base.stopAtr, base.trailingAtr,
               base.risk, confirm, "either")
  IN [ conservative_breakout           |-> Wide(FALSE),
       confirmed_conservative_breakout |-> Wide(TRUE),
       standard_breakout               |-> Plain(FALSE),
       confirmed_breakout              |-> Plain(TRUE),
       aggressive_breakout |->
         Preset(tight, Max({100, base.volumePct - 50}), Max({100, base.stopAtr - 50}),
                Max({100, base.trailingAtr - 50}), Min({5, (base.risk * 3) \div 2}),
                FALSE, "fast_above_slow") ]

\* resolve_breakout_strategy_presets: the command line's definitions hide the
\* configured ones, which hide the defaults.
Catalogue(base, configured, inline) == inline @@ configured @@ DefaultPresets(base)

\* The presets a command names, all of them where it names none.
SelectedNames(catalogue, names) == IF names = {} THEN DOMAIN catalogue ELSE names

NamesKnown(catalogue, names) == names \subseteq DOMAIN catalogue

\* apply_to_settings; a command that requires the volume to confirm says so for
\* every preset.
ApplyPreset(preset, settings, force) ==
  [settings EXCEPT !.lookback = preset.lookback,
                   !.volumeWindow = preset.lookback,
                   !.volumePct = preset.volumePct,
                   !.stopAtr = preset.stopAtr,
                   !.trailingAtr = preset.trailingAtr,
                   !.confirm = force \/ preset.confirm,
                   !.mode = preset.mode]
=============================================================================
