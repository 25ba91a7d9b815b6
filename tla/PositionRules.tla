--------------------------- MODULE PositionRules ---------------------------
(***************************************************************************)
(* The pure rules of position reviews: what is derived from a position and *)
(* a reading of its market (src/src/bot/features.py), what the journals of *)
(* earlier reviews add to it (src/src/bot/data/position_trajectory.py and  *)
(* intraday_state_journal.py), and the action it leads to                  *)
(* (src/src/bot/risk/portfolio_rules.py).                                  *)
(*                                                                         *)
(* Prices are whole numbers; ratios are compared in percent.  Rationales   *)
(* are left out.  The time of an observation is the date of a daily        *)
(* review, or that of the latest bar of an intraday one.                   *)
(***************************************************************************)
EXTENDS CandidateRisk, SequencesExt

CONSTANT Rules   \* the thresholds of the review settings

Actions == {"EXIT CANDIDATE", "RAISE STOP", "WATCH CLOSELY", "HOLD"}

Unresolved == "unresolved"   \* suggested_action is None

\* a falls at least pct per cent short of b.
FallsShort(a, b, pct) == 100 * (b - a) >= pct * b
Exceeds(a, b, pct)    == 100 * (a - b) > pct * b

\* What both reviews know of earnings and of the sector.
EarningsRisk(c) == Known(c.earningsIn) /\ c.earningsIn <= Rules.earningsDays
WeakSector(c)   == c.sectorPassed = FALSE
LaggingSector(c) == Known(c.sectorLead) /\ c.sectorLead <= Rules.sectorLag

Caution(r) ==
  EarningsRisk(r.context) \/ WeakSector(r.context) \/ LaggingSector(r.context)

-----------------------------------------------------------------------------
(* Journals.  The journal of a symbol maps the time of each observation,   *)
(* one of a time, to what was observed.                                    *)

NoObservations == [t \in {} |-> Unresolved]

\* One observation of the same time takes the place of the one before it.
Merge(journal, time, obs) ==
  [ t \in DOMAIN journal \cup {time} |-> IF t = time THEN obs ELSE journal[t] ]

\* Which observations have a property.
Flags(journal, Has(_)) == [t \in DOMAIN journal |-> Has(journal[t])]

\* _count_trailing: how many flags up to the last are set.
Trailing(flags) ==
  Cardinality({t \in DOMAIN flags : \A u \in DOMAIN flags : u >= t => flags[u]})

Latest(journal) == Max(DOMAIN journal)

\* The observations whose actions were settled: an unresolved last one is not
\* counted among the actions.
Settled(journal) ==
  Restrict(journal,
    {t \in DOMAIN journal : t = Latest(journal) => journal[t].action # Unresolved})

\* A form that counts every advice to act.
Advised(o) == o.action # "HOLD"

Watched(o) == o.action = "WATCH CLOSELY"

-----------------------------------------------------------------------------
(* Daily reviews.  A position is a record [entry, stop, reference, ...]; a *)
(* history is a record [closes, benchmark, atr, context], its context what *)
(* is known of [regime, earningsIn, sectorPassed, sectorLead].             *)

\* _portfolio_review_history_since_entry: the closes of the days up to the
\* review's, one a day, from the day of the entry if any is.
SinceEntry(closes, entered, day) ==
  LET first == Len(closes) - (day - entered)
  IN IF first \in DOMAIN closes THEN SubSeq(closes, first, Len(closes)) ELSE closes

\* The percentage gained from one price to another.
Return(from, to) == (100 * (to - from)) \div from

\* _portfolio_review_relative_strength_metrics
RelativeStrength(closes, benchmark) ==
  LET n == Min({Len(closes), Len(benchmark)})
      gain(prices) == Return(prices[Len(prices) - Rules.strengthDays], Last(prices))
  IN IF n > Rules.strengthDays THEN gain(closes) - gain(benchmark) ELSE NoValue

\* The reading a daily review takes from a price history.
DailyReading(entered, h, day) ==
  LET closes == SinceEntry(h.closes, entered, day)
      high   == Max(Range(closes))
  IN [ close     |-> Last(h.closes),
       trailing  |-> IF Known(h.atr) THEN AtrStop(high, h.atr, Rules.trailingAtr) ELSE NoValue,
       highWater |-> high,
       sinceHigh |-> Len(closes) - Max({i \in DOMAIN closes : closes[i] = high}),
       strength  |-> RelativeStrength(h.closes, h.benchmark),
       context   |-> h.context ]

\* build_position_features, where no later field is derived from it alone.
PositionFeatures(p, r) ==
  [ aboveEntry   |-> r.close >= p.entry,
    nearStop     |-> Known(p.stop) /\ 100 * (r.close - p.stop) <= Rules.watchDistance * r.close,
    failed       |-> Known(p.reference) /\ r.close < p.reference,
    stale        |-> Known(r.sinceHigh) /\ r.sinceHigh >= Rules.staleDays,
    weakStrength |-> Known(r.strength) /\ r.strength <= Rules.strengthWatch,
    gaveBack     |-> /\ Known(r.highWater)
                     /\ Exceeds(r.close, p.entry, Rules.minProfit)
                     /\ 100 * (r.highWater - r.close) > Rules.giveback * r.highWater ]

\* _build_position_trajectory_observation
DailyObservation(f, action) ==
  [ aboveEntry |-> f.aboveEntry, stale |-> f.stale, weakStrength |-> f.weakStrength,
    action |-> action ]

\* _observation_has_weakness
HasWeakness(o) == ~o.aboveEntry \/ o.stale \/ o.weakStrength

\* build_position_trajectory_features
PositionTrajectory(journal) ==
  LET belowEntry == Trailing(Flags(journal, LAMBDA o : ~o.aboveEntry))
      stale      == Trailing(Flags(journal, LAMBDA o : o.stale))
      lagging    == Trailing(Flags(journal, LAMBDA o : o.weakStrength))
      weak       == Trailing(Flags(journal, HasWeakness))
  IN [ watchDays       |-> Trailing(Flags(Settled(journal), Watched)),
       persistent      |-> Max({belowEntry, stale, lagging}) >= Rules.weakDays,
       repeatedWeak    |-> weak >= 2,
       underperforming |-> Max({belowEntry, stale, lagging, weak}) >= Rules.weakDays ]

\* A form that adds the review to one of the same day.
PreviewAppended(journal, day, obs) ==
  PositionTrajectory(
    Merge(journal, IF day \in DOMAIN journal THEN Latest(journal) + 1 ELSE day, obs))

\* preview_position_trajectory_features
PreviewTrajectory(journal, day, obs) == PositionTrajectory(Merge(journal, day, obs))

\* A form that also suggests a stop the close has fallen through.
SuggestedAnywhere(p, r) ==
  IF Known(r.trailing) /\ (~Known(p.stop) \/ r.trailing > p.stop) THEN r.trailing ELSE NoValue

\* suggest_long_stop_update, and the check against the close.
SuggestedStop(p, r) ==
  IF /\ Known(r.trailing)
     /\ ~Known(p.stop) \/ r.trailing > p.stop
     /\ r.trailing < r.close
  THEN r.trailing
  ELSE NoValue

\* The reasons to exit that need no earlier review.
ExitsAtOnce(p, r) ==
  LET f == PositionFeatures(p, r) IN
  \/ Known(p.stop) /\ r.close <= p.stop
  \/ r.context.regime = FALSE /\ ~f.aboveEntry
  \/ f.gaveBack
  \/ f.failed

\* The reason that needs them.
WearsOut(t) == t.watchDays >= Rules.watchExit /\ t.underperforming

NeedsWatching(f, r, t) ==
  \/ f.nearStop
  \/ r.context.regime = FALSE
  \/ ~f.aboveEntry
  \/ f.stale
  \/ f.weakStrength
  \/ t.persistent
  \/ t.repeatedWeak

\* review_existing_long_position
ReviewDecision(p, r, t) ==
  LET f == PositionFeatures(p, r)
      exit  == ExitsAtOnce(p, r) \/ WearsOut(t)
      raise == Known(SuggestedStop(p, r))
  IN [ action |-> CASE exit -> "EXIT CANDIDATE"
                    [] ~exit /\ raise -> "RAISE STOP"
                    [] ~exit /\ ~raise /\ (NeedsWatching(f, r, t) \/ Caution(r)) -> "WATCH CLOSELY"
                    [] OTHER -> "HOLD",
       stop   |-> IF exit THEN NoValue ELSE SuggestedStop(p, r) ]

-----------------------------------------------------------------------------
(* Intraday reviews read the bars of one session up to the latest: records *)
(* [open, high, low, close, volume, vwap].                                 *)

\* _intraday_session_vwap: bars without volume weigh nothing.
Vwap(bars) ==
  LET volume == FoldLeft(LAMBDA total, b : total + b.volume, 0, bars)
      traded == FoldLeft(LAMBDA total, b : total + b.volume * b.vwap, 0, bars)
  IN IF volume > 0 THEN traded \div volume ELSE NoValue

\* _intraday_session_metrics and _intraday_relative_strength_diff
SessionReading(bars, benchmarkReturn, context) ==
  [ open  |-> Head(bars).open,
    high  |-> Max({bars[i].high : i \in DOMAIN bars}),
    low   |-> Min({bars[i].low : i \in DOMAIN bars}),
    close |-> Last(bars).close,
    vwap  |-> Vwap(bars),
    lead  |-> IF Known(benchmarkReturn)
              THEN Return(Head(bars).open, Last(bars).close) - benchmarkReturn
              ELSE NoValue,
    context |-> context ]

BelowVwap(r) == Known(r.vwap) /\ r.close < r.vwap

\* build_intraday_position_features
IntradayFeatures(p, r) ==
  LET weak == Known(r.lead) /\ r.lead <= Rules.leadWatch IN
  [ belowVwap    |-> BelowVwap(r),
    weakStrength |-> weak,
    giveback     |-> (100 * (r.high - r.close)) \div r.high,
    breached     |-> Known(p.stop) /\ r.low <= p.stop,
    failed       |-> /\ 100 * (r.high - r.open) >= Rules.earlyStrength * r.open
                     /\ BelowVwap(r) \/ r.close <= r.open,
    faded        |-> /\ 100 * (r.high - p.entry) >= Rules.profit * p.entry
                     /\ FallsShort(r.close, r.high, Rules.watchGiveback)
                     /\ BelowVwap(r) \/ r.close < r.open,
    stacked      |-> BelowVwap(r) /\ weak /\ FallsShort(r.close, r.high, Rules.profit) ]

\* _build_intraday_state_observation
IntradayObservation(f, action) ==
  [ belowVwap |-> f.belowVwap, weakStrength |-> f.weakStrength, giveback |-> f.giveback,
    breached |-> f.breached, failed |-> f.failed, faded |-> f.faded, stacked |-> f.stacked,
    action |-> action ]

\* _observation_has_pressure
HasPressure(o) ==
  o.breached \/ o.failed \/ o.faded \/ o.weakStrength \/ o.stacked \/ o.belowVwap

\* _giveback_worsening_streak: each reading gave back more than the one before.
WorseningPolls(journal) ==
  LET later     == DOMAIN journal \ {Min(DOMAIN journal)}
      before(t) == Max({u \in DOMAIN journal : u < t})
      worse(t)  == journal[t].giveback - journal[before(t)].giveback >= Rules.worsening
  IN 1 + Cardinality({t \in later : \A u \in later : u >= t => worse(u)})

\* build_intraday_trajectory_features
IntradayTrajectory(journal) ==
  [ watches    |-> Trailing(Flags(Settled(journal), Watched)),
    pressure   |-> Trailing(Flags(journal, HasPressure)),
    belowVwap  |-> Trailing(Flags(journal, LAMBDA o : o.belowVwap)),
    lagging    |-> Trailing(Flags(journal, LAMBDA o : o.weakStrength)),
    worsening  |-> WorseningPolls(journal) >= 2,
    allSession |-> /\ Cardinality(DOMAIN journal) >= Rules.allSession
                   /\ \A t \in DOMAIN journal : HasPressure(journal[t]) ]

\* preview_intraday_trajectory_features
PreviewSession(journal, time, obs) == IntradayTrajectory(Merge(journal, time, obs))

\* The reasons to exit that need no earlier poll.
IntradayExitsAtOnce(p, r) ==
  LET f == IntradayFeatures(p, r)
      profitable(pct) == 100 * (r.high - p.entry) >= pct * p.entry
  IN \/ f.breached
     \/ profitable(Rules.profit) /\ FallsShort(r.close, r.high, Rules.giveback)
     \/ f.stacked
     \/ profitable(Rules.highProfit) /\ FallsShort(r.close, r.high, Rules.highGiveback)
     \/ f.failed /\ FallsShort(r.close, r.high, Rules.watchGiveback)

IntradayWearsOut(f, r, t) ==
  /\ t.watches >= Rules.watchExit
  /\ t.pressure >= Rules.weakPolls
  /\ FallsShort(r.close, r.high, Rules.watchGiveback) \/ f.failed \/ f.faded

IntradayNeedsWatching(f, t) ==
  \/ f.faded
  \/ f.weakStrength
  \/ f.failed
  \/ t.belowVwap >= Rules.weakPolls
  \/ t.lagging >= Rules.weakPolls
  \/ t.worsening
  \/ t.allSession

\* review_existing_long_position_intraday: it never has a stop to suggest.
IntradayDecision(p, r, t) ==
  LET f == IntradayFeatures(p, r)
      exit == IntradayExitsAtOnce(p, r) \/ IntradayWearsOut(f, r, t)
  IN [ action |-> CASE exit -> "EXIT CANDIDATE"
                    [] ~exit /\ (IntradayNeedsWatching(f, t) \/ Caution(r)) -> "WATCH CLOSELY"
                    [] OTHER -> "HOLD",
       stop   |-> NoValue ]
=============================================================================
