--------------------------- MODULE BacktestProofs ---------------------------
(***************************************************************************)
(* What a backtest and a sweep promise, proved for any tickers, markets    *)
(* and setups (Backtest, WalkForward).                                     *)
(*                                                                         *)
(* A day of the engine reads nothing of the days to come: every indicator  *)
(* is a function of the bars up to the day (SamePast), so a day works on   *)
(* the same session in two markets that agree so far (SameSession).        *)
(*                                                                         *)
(* The books of the engine are kept (EngineOK): each of its loops runs     *)
(* through the symbols, and every turn keeps what was sold, bought and     *)
(* ordered in line with cash, slots and types.  The stops of a day are     *)
(* honoured by how far the loops have come (Reached).                      *)
(*                                                                         *)
(* The folds of a sweep test each day once: the tests so far lie side by   *)
(* side (StudyInv).  And each fold chooses on its train window and its     *)
(* result reads no bar after its test (EvalInv).                           *)
(***************************************************************************)
EXTENDS WalkForward, SequenceTheorems, FiniteSetTheorems, FunctionTheorems,
        WellFoundedInduction, TLAPS
-----------------------------------------------------------------------------
(* Looking back                                                            *)

\* Some number is the least of those in a set.
LEMMA LeastNumber ==
  ASSUME NEW T \in SUBSET Nat, T # {}
  PROVE  \E m \in T : \A k \in T : m <= k
<1> DEFINE R == {ss \in Nat \X Nat : ss[1] < ss[2]}
<1>1. OpToRel(<, Nat) = R
  BY DEF OpToRel
<1>2. IsWellFoundedOn(R, Nat)
  BY <1>1, NatLessThanWellFounded
<1>3. PICK m \in T : \A k \in T : ~ (<<k, m>> \in R)
  <2> HIDE DEF R
  <2> QED BY <1>2, WFMin
<1>4. \A k \in T : m <= k
  <2> TAKE k \in T
  <2>1. <<k, m>> \in Nat \X Nat /\ ~(k < m)
    BY <1>3
  <2> QED BY <2>1
<1> QED
  BY <1>4

\* The last of days that end.
LEMMA MaxOfDays ==
  ASSUME NEW S \in SUBSET Nat, S # {}, NEW bound \in Nat, \A d \in S : d <= bound
  PROVE  Max(S) \in S /\ \A d \in S : d <= Max(S)
<1> DEFINE gaps == {bound - d : d \in S}
<1>1. gaps \in SUBSET Nat /\ gaps # {}
  <2>1. \A d \in S : bound - d \in Nat
    OBVIOUS
  <2> QED BY <2>1
<1>2. PICK g \in gaps : \A h \in gaps : g <= h
  BY <1>1, LeastNumber
<1>3. PICK m \in S : g = bound - m
  OBVIOUS
<1>4. \A d \in S : m >= d
  <2> TAKE d \in S
  <2>1. g <= bound - d
    BY <1>2
  <2> QED BY <1>3, <2>1
<1> QED
  BY <1>4 DEF Max

\* The first of days.
LEMMA MinOfDays ==
  ASSUME NEW S \in SUBSET Nat, S # {}
  PROVE  Min(S) \in S
BY LeastNumber DEF Min

\* Two tapes say the same of the days up to one.
SamePast(t, u, day) ==
  /\ IsTape(t) /\ IsTape(u) /\ day \in Nat
  /\ \A d \in DOMAIN t : d <= day => d \in DOMAIN u /\ u[d] = t[d]
  /\ \A d \in DOMAIN u : d <= day => d \in DOMAIN t

\* What the indicators (src/src/bot/indicators) read of the past is the same,
\* whatever is to come: the days of a window,
LEMMA LatestOfPast ==
  ASSUME NEW t, NEW u, NEW day, SamePast(t, u, day), NEW k \in Int, k <= day, NEW n
  PROVE  Latest(t, k, n) = Latest(u, k, n)
<1>1. \A d : {e \in DOMAIN t : d < e /\ e <= k} = {e \in DOMAIN u : d < e /\ e <= k}
  BY DEF SamePast, IsTape
<1>2. \A d : d \in DOMAIN t /\ d <= k <=> d \in DOMAIN u /\ d <= k
  BY DEF SamePast, IsTape
<1> QED
  BY <1>1, <1>2 DEF Latest

\* which lie in the past,
LEMMA LatestArePast ==
  ASSUME NEW t, NEW u, NEW day, SamePast(t, u, day), NEW k \in Int, k <= day, NEW n,
         NEW d \in Latest(t, k, n)
  PROVE  d \in DOMAIN t /\ d \in Nat \ {0} /\ d <= day /\ d <= k /\ t[d] = u[d] /\ d \in DOMAIN u
<1>1. d \in DOMAIN t /\ d <= k
  BY DEF Latest
<1> QED
  BY <1>1 DEF SamePast, IsTape

\* the true range of a day (atr.py),
LEMMA TrueRangeOfPast ==
  ASSUME NEW t, NEW u, NEW day, SamePast(t, u, day), NEW d \in DOMAIN t, d <= day
  PROVE  TrueRange(t, d) = TrueRange(u, d)
<1>1. Before(t, d) = Before(u, d)
  BY DEF SamePast, IsTape, Before
<1>2. t[d] = u[d]
  BY DEF SamePast
<1>3. ASSUME Before(t, d) # {} PROVE t[Max(Before(t, d))] = u[Max(Before(t, d))]
  <2> DEFINE S == Before(t, d)
  <2>1. S \in SUBSET Nat /\ d \in Nat /\ \A x \in S : x <= d
    BY DEF SamePast, IsTape, Before
  <2>2. \A x \in S : t[x] = u[x]
    BY DEF SamePast, IsTape, Before
  <2>3. S # {}
    BY <1>3
  <2> HIDE DEF S
  <2>4. Max(S) \in S
    BY <2>1, <2>3, MaxOfDays
  <2>5. t[Max(S)] = u[Max(S)]
    BY <2>2, <2>4
  <2> QED BY <2>5 DEF S
<1> QED
  BY <1>1, <1>2, <1>3 DEF TrueRange

\* its average (calculate_atr),
LEMMA AtrOfPast ==
  ASSUME NEW t, NEW u, NEW day, SamePast(t, u, day), NEW n
  PROVE  Atr(t, day, n) = Atr(u, day, n)
<1> DEFINE bars == Latest(t, day, n)
<1>1. day \in Int /\ day <= day
  BY DEF SamePast
<1>2. bars = Latest(u, day, n)
  BY <1>1, LatestOfPast
<1>3. \A d \in bars : TrueRange(t, d) = TrueRange(u, d)
  BY <1>1, LatestArePast, TrueRangeOfPast
<1> HIDE DEF bars
<1>4. [d \in bars |-> TrueRange(t, d)] = [d \in bars |-> TrueRange(u, d)]
  BY <1>3
<1> QED
  BY <1>2, <1>4 DEF Atr, bars

\* the high of the days before (breakout_momentum.py),
LEMMA PriorHighOfPast ==
  ASSUME NEW t, NEW u, NEW day, SamePast(t, u, day), NEW n
  PROVE  PriorHigh(t, day, n) = PriorHigh(u, day, n)
<1> DEFINE earlier == Latest(t, day - 1, n)
<1>1. day - 1 \in Int /\ day - 1 <= day
  BY DEF SamePast
<1>2. earlier = Latest(u, day - 1, n)
  BY <1>1, LatestOfPast
<1>3. \A d \in earlier : t[d] = u[d]
  BY <1>1, LatestArePast
<1> HIDE DEF earlier
<1>4. {t[d].high : d \in earlier} = {u[d].high : d \in earlier}
  BY <1>3
<1> QED
  BY <1>2, <1>4 DEF PriorHigh, earlier

\* the rank of a volume (volume.py),
LEMMA VolumeOfPast ==
  ASSUME NEW t, NEW u, NEW day, SamePast(t, u, day), day \in DOMAIN t, NEW n, NEW threshold
  PROVE  PassesRelativeVolume(t, day, n, threshold)
           <=> PassesRelativeVolume(u, day, n, threshold)
<1> DEFINE earlier == Latest(t, day - 1, n)
<1>1. day - 1 \in Int /\ day - 1 <= day
  BY DEF SamePast
<1>2. earlier = Latest(u, day - 1, n)
  BY <1>1, LatestOfPast
<1>3. \A d \in earlier : t[d] = u[d]
  BY <1>1, LatestArePast
<1>4. t[day] = u[day]
  BY DEF SamePast
<1> HIDE DEF earlier
<1>5. [d \in earlier |-> t[d].volume] = [d \in earlier |-> u[d].volume]
  BY <1>3
<1> QED
  BY <1>2, <1>4, <1>5 DEF PassesRelativeVolume, earlier

\* and the regime of the benchmark (trend.py).
LEMMA RegimeOfPast ==
  ASSUME NEW t, NEW u, NEW day, SamePast(t, u, day), NEW settings,
         settings.slow \in Nat \ {0}
  PROVE  RegimeIsBullish(t, day, settings) <=> RegimeIsBullish(u, day, settings)
<1> DEFINE slow == Latest(t, day, settings.slow)
           fast == Latest(t, day, settings.fast)
<1>1. day \in Int /\ day <= day
  BY DEF SamePast
<1>2. slow = Latest(u, day, settings.slow) /\ fast = Latest(u, day, settings.fast)
  BY <1>1, LatestOfPast
<1>3. \A d \in slow : t[d] = u[d]
  BY <1>1, LatestArePast
<1>4. \A d \in fast : t[d] = u[d]
  BY <1>1, LatestArePast
<1>5. slow \in SUBSET Nat /\ \A d \in slow : d <= day
  BY <1>1, LatestArePast
<1> HIDE DEF slow, fast
<1>6. [d \in slow |-> t[d].close] = [d \in slow |-> u[d].close]
  BY <1>3
<1>7. [d \in fast |-> t[d].close] = [d \in fast |-> u[d].close]
  BY <1>4
<1>8. ASSUME Cardinality(slow) = settings.slow
      PROVE  t[Max(slow)] = u[Max(slow)]
  <2>1. slow # {}
    BY <1>8, FS_EmptySet
  <2>2. Max(slow) \in slow
    BY <1>1, <1>5, <2>1, MaxOfDays DEF SamePast
  <2> QED BY <1>3, <2>2
<1> QED
  BY <1>2, <1>6, <1>7, <1>8 DEF RegimeIsBullish, slow, fast

\* So is what the strategy signals (generate_signals),
LEMMA SignalsOfPast ==
  ASSUME NEW t, NEW u, NEW day, SamePast(t, u, day), day \in DOMAIN t,
         NEW b, NEW c, SamePast(b, c, day), NEW settings, settings.slow \in Nat \ {0}
  PROVE  Signals(t, b, day, settings) = Signals(u, c, day, settings)
<1>1. PriorHigh(t, day, settings.lookback) = PriorHigh(u, day, settings.lookback)
  BY PriorHighOfPast
<1>2. t[day] = u[day]
  BY DEF SamePast
<1>3. Breakout(t, day, settings) <=> Breakout(u, day, settings)
  BY <1>1, <1>2 DEF Breakout
<1>4. PassesRelativeVolume(t, day, settings.volumeWindow, settings.volumePct)
        <=> PassesRelativeVolume(u, day, settings.volumeWindow, settings.volumePct)
  BY VolumeOfPast
<1>5. RegimeIsBullish(b, day, settings) <=> RegimeIsBullish(c, day, settings)
  BY RegimeOfPast
<1> QED
  BY <1>3, <1>4, <1>5 DEF Signals

\* and the stop and the ranking of a candidate.
LEMMA CandidateOfPast ==
  ASSUME NEW t, NEW u, NEW day, SamePast(t, u, day), day \in DOMAIN t, NEW s, NEW settings
  PROVE  Candidate(s, t, day, settings) = Candidate(s, u, day, settings)
<1>1. Atr(t, day, settings.atrWindow) = Atr(u, day, settings.atrWindow)
  BY AtrOfPast
<1>2. t[day] = u[day]
  BY DEF SamePast
<1> QED
  BY <1>1, <1>2 DEF Candidate

\* Two markets tell an engine the same on a day.
SameSession(m, k, day) ==
  /\ \A s : s \in DOMAIN m.tapes /\ day \in DOMAIN m.tapes[s]
              <=> s \in DOMAIN k.tapes /\ day \in DOMAIN k.tapes[s]
  /\ \A s \in DOMAIN m.tapes :
       day \in DOMAIN m.tapes[s] =>
         /\ SamePast(m.tapes[s], k.tapes[s], day)
         /\ Later(m.tapes[s], day, m.to) = Later(k.tapes[s], day, k.to)
  /\ SamePast(m.benchmark, k.benchmark, day)

\* Then it is told the same in everything.
LEMMA SessionsAgree ==
  ASSUME NEW m, NEW k, NEW day, SameSession(m, k, day), NEW settings,
         settings.slow \in Nat \ {0}
  PROVE  Session(m, day, settings) = Session(k, day, settings)
<1> DEFINE traded == Traded(m, day)
<1>1. traded = Traded(k, day)
  BY DEF SameSession, Traded
<1>2. \A s \in traded :
        /\ SamePast(m.tapes[s], k.tapes[s], day) /\ day \in DOMAIN m.tapes[s]
        /\ Later(m.tapes[s], day, m.to) = Later(k.tapes[s], day, k.to)
  BY DEF SameSession, Traded
<1>3. SamePast(m.benchmark, k.benchmark, day)
  BY DEF SameSession
<1> HIDE DEF traded
<1>4. \A s \in traded : m.tapes[s][day] = k.tapes[s][day]
  BY <1>2 DEF SamePast
<1>5. \A s \in traded : NextBar(m.tapes[s], day, m.to) = NextBar(k.tapes[s], day, k.to)
  BY <1>2 DEF NextBar
<1>6. \A s \in traded : Signals(m.tapes[s], m.benchmark, day, settings)
                          = Signals(k.tapes[s], k.benchmark, day, settings)
  <2> TAKE s \in traded
  <2> DEFINE t == m.tapes[s]
             u == k.tapes[s]
             b == m.benchmark
             c == k.benchmark
  <2>1. SamePast(t, u, day) /\ day \in DOMAIN t /\ SamePast(b, c, day)
    BY <1>2, <1>3
  <2> HIDE DEF t, u, b, c
  <2>2. Signals(t, b, day, settings) = Signals(u, c, day, settings)
    BY <2>1, SignalsOfPast
  <2> QED BY <2>2 DEF t, u, b, c
<1>7. \A s \in traded : Candidate(s, m.tapes[s], day, settings)
                          = Candidate(s, k.tapes[s], day, settings)
  BY <1>2, CandidateOfPast
<1>8. \A s \in traded : Atr(m.tapes[s], day, settings.atrWindow)
                          = Atr(k.tapes[s], day, settings.atrWindow)
  BY <1>2, AtrOfPast
<1>a. [s \in traded |-> m.tapes[s][day]] = [s \in traded |-> k.tapes[s][day]]
  BY <1>4
<1>b. [s \in traded |-> NextBar(m.tapes[s], day, m.to)]
        = [s \in traded |-> NextBar(k.tapes[s], day, k.to)]
  BY <1>5
<1>c. [s \in traded |-> Signals(m.tapes[s], m.benchmark, day, settings)]
        = [s \in traded |-> Signals(k.tapes[s], k.benchmark, day, settings)]
  BY <1>6
<1>d. [s \in traded |-> Candidate(s, m.tapes[s], day, settings)]
        = [s \in traded |-> Candidate(s, k.tapes[s], day, settings)]
  BY <1>7
<1>e. [s \in traded |-> Atr(m.tapes[s], day, settings.atrWindow)]
        = [s \in traded |-> Atr(k.tapes[s], day, settings.atrWindow)]
  BY <1>8
<1> QED
  BY <1>1, <1>a, <1>b, <1>c, <1>d, <1>e DEF Session, traded

\* What stands after a day does not tell on it.
LEMMA BlankingIsUnseen ==
  ASSUME NEW m, IsMarket(m), NEW day \in Nat, NEW settings, settings.slow \in Nat \ {0}
  PROVE  Session(BlankedMarket(m, day), day, settings) = Session(m, day, settings)
<1> DEFINE k == BlankedMarket(m, day)
<1>1. /\ k.tapes = [s \in DOMAIN m.tapes |-> Blanked(m.tapes[s], day)]
      /\ k.benchmark = Blanked(m.benchmark, day)
      /\ k.to = m.to
  BY DEF BlankedMarket, IsMarket
<1> HIDE DEF k
<1>2. ASSUME NEW t, IsTape(t)
      PROVE  SamePast(t, Blanked(t, day), day) /\ DOMAIN Blanked(t, day) = DOMAIN t
  <2>1. Blank \in Bars
    BY DEF Blank, Bars, Price
  <2> QED BY <1>2, <2>1 DEF SamePast, Blanked, IsTape
<1>3. SameSession(m, k, day)
  BY <1>1, <1>2 DEF SameSession, IsMarket, Later
<1>4. Session(m, day, settings) = Session(k, day, settings)
  BY <1>3, SessionsAgree
<1> QED
  BY <1>4 DEF k

\* The engine works on a day of its calendar.
DaysInv ==
  /\ data \in Markets /\ setup \in Setups
  /\ today \in Calendar(data) \cup {NoDay}

\* A day of the calendar is one on which something trades.
LEMMA OnCalendar ==
  ASSUME NEW m, NEW d
  PROVE  d \in Calendar(m)
           <=> /\ \/ \E s \in DOMAIN m.tapes : d \in DOMAIN m.tapes[s]
                  \/ d \in DOMAIN m.benchmark
               /\ m.from <= d /\ d <= m.to
<1> DEFINE all == UNION {DOMAIN m.tapes[s] : s \in Tested(m)}
<1>1. d \in all <=> \E s \in Tested(m) : d \in DOMAIN m.tapes[s]
  OBVIOUS
<1>2. d \in all <=> \E s \in DOMAIN m.tapes : d \in DOMAIN m.tapes[s]
  BY <1>1 DEF Tested
<1>3. Calendar(m) = {x \in all \cup DOMAIN m.benchmark : m.from <= x /\ x <= m.to}
  BY DEF Calendar
<1> HIDE DEF all
<1> QED
  BY <1>2, <1>3

\* Days are numbered from one on.
LEMMA CalendarDays ==
  ASSUME NEW m, IsMarket(m)
  PROVE  Calendar(m) \subseteq Nat \ {0}
BY OnCalendar DEF IsMarket, IsTape

\* The first day is one of the calendar.
LEMMA DaysInitHolds == BacktestInit => DaysInv
<1> SUFFICES ASSUME BacktestInit PROVE DaysInv
  OBVIOUS
<1>1. data \in Markets /\ setup \in Setups /\ Calendar(data) # {} /\ today = Min(Calendar(data))
  BY DEF BacktestInit
<1>2. Calendar(data) \in SUBSET Nat
  BY <1>1, MarketsAssumption, CalendarDays
<1>3. Min(Calendar(data)) \in Calendar(data)
  BY <1>1, <1>2, MinOfDays
<1> QED
  BY <1>1, <1>3 DEF DaysInv

\* And so is each that follows.
LEMMA DaysStepHolds == DaysInv /\ [BacktestNext]_backtestVars => DaysInv'
<1> SUFFICES ASSUME DaysInv, [BacktestNext]_backtestVars PROVE DaysInv'
  OBVIOUS
<1>1. CASE TradeDay
  <2>1. Ahead \subseteq Calendar(data) /\ Calendar(data) \in SUBSET Nat
    BY MarketsAssumption, CalendarDays DEF DaysInv, Ahead
  <2>2. Ahead # {} => Min(Ahead) \in Ahead
    BY <2>1, MinOfDays
  <2> QED BY <1>1, <2>1, <2>2 DEF TradeDay, DaysInv
<1>2. CASE CloseOut
  BY <1>2 DEF CloseOut, DaysInv
<1>3. CASE UNCHANGED backtestVars
  BY <1>3 DEF backtestVars, DaysInv
<1> QED
  BY <1>1, <1>2, <1>3 DEF BacktestNext

\* No day of a run depends on a bar that is still to come: what the engine of
\* engine.py does on a day it would do as well if every later bar were blank.
THEOREM DaysLookBack == BacktestSpec => LooksBackOnly
<1>1. ASSUME DaysInv, [BacktestNext]_backtestVars, today # NoDay, today' # today
      PROVE  engine' = Day(engine, BlankedMarket(data, today), today, setup)
  <2>1. TradeDay
    BY <1>1 DEF BacktestNext, CloseOut, backtestVars
  <2>2. data \in Markets /\ IsMarket(data) /\ setup \in Setups /\ today \in Nat
    BY <1>1, MarketsAssumption, CalendarDays DEF DaysInv
  <2>3. setup.strategy.slow \in Nat \ {0}
    BY <2>2, SetupsAssumption DEF IsSetup, IsStrategy
  <2>4. Session(BlankedMarket(data, today), today, setup.strategy)
          = Session(data, today, setup.strategy)
    <3> DEFINE st == setup.strategy
    <3>1. st.slow \in Nat \ {0}
      BY <2>3
    <3> HIDE DEF st
    <3>2. Session(BlankedMarket(data, today), today, st) = Session(data, today, st)
      BY <2>2, <3>1, BlankingIsUnseen
    <3> QED BY <3>2 DEF st
  <2> QED BY <2>1, <2>4 DEF TradeDay, Day
<1>2. DaysInv /\ [BacktestNext]_backtestVars =>
        (today # NoDay /\ today' # today =>
           engine' = Day(engine, BlankedMarket(data, today), today, setup))
  BY <1>1
<1>3. BacktestSpec => []DaysInv
  BY DaysInitHolds, DaysStepHolds, PTL DEF BacktestSpec
<1> QED
  BY <1>2, <1>3, PTL DEF BacktestSpec, LooksBackOnly

-----------------------------------------------------------------------------
\* A market over some of its days.
Within(m, from, to) == [m EXCEPT !.from = from, !.to = to]

\* What a market over some of its days holds.
LEMMA WithinFields ==
  ASSUME NEW m, IsMarket(m), NEW from, NEW to
  PROVE  /\ Within(m, from, to).tapes = m.tapes
         /\ Within(m, from, to).benchmark = m.benchmark
         /\ Within(m, from, to).from = from
         /\ Within(m, from, to).to = to
BY DEF Within, IsMarket

\* A tape cut off after a day.
UpTo(t, day) == [d \in {e \in DOMAIN t : e <= day} |-> t[d]]

\* What a market cut off after a day holds.
LEMMA CutFields ==
  ASSUME NEW m, IsMarket(m), NEW day
  PROVE  /\ Cut(m, day).tapes = [s \in DOMAIN m.tapes |-> UpTo(m.tapes[s], day)]
         /\ Cut(m, day).benchmark = UpTo(m.benchmark, day)
         /\ DOMAIN Cut(m, day) = {"tapes", "benchmark", "from", "to"}
BY DEF Cut, UpTo, IsMarket

\* A run does not tell whether bars stand after its last day.
LEMMA CuttingIsUnseen ==
  ASSUME NEW m, IsMarket(m), NEW from \in Int, NEW to \in Int,
         NEW last \in Int, to <= last,
         NEW costs, costs.strategy.slow \in Nat \ {0}
  PROVE  Run(Within(Cut(m, last), from, to), costs) = Run(Within(m, from, to), costs)
<1> DEFINE k == Within(m, from, to)
           c == Within(Cut(m, last), from, to)
<1>1. k.tapes = m.tapes /\ k.benchmark = m.benchmark /\ k.from = from /\ k.to = to
  BY WithinFields
<1>2. /\ c.tapes = [s \in DOMAIN m.tapes |-> UpTo(m.tapes[s], last)]
      /\ c.benchmark = UpTo(m.benchmark, last)
      /\ c.from = from /\ c.to = to
  BY CutFields DEF Within
<1> HIDE DEF k, c
<1>3. \A s \in DOMAIN m.tapes : IsTape(m.tapes[s])
  BY DEF IsMarket
<1>4. IsTape(m.benchmark)
  BY DEF IsMarket
<1>5. ASSUME NEW t, IsTape(t), NEW day \in Nat, day <= to
      PROVE  /\ SamePast(t, UpTo(t, last), day)
             /\ Later(t, day, to) = Later(UpTo(t, last), day, to)
             /\ day \in DOMAIN t <=> day \in DOMAIN UpTo(t, last)
  BY <1>5 DEF SamePast, UpTo, IsTape, Later
<1>6. Calendar(c) = Calendar(k)
  <2>1. ASSUME NEW d
        PROVE  d \in Calendar(c) <=> d \in Calendar(k)
    <3>1. d \in Calendar(c)
            <=> /\ \/ \E s \in DOMAIN m.tapes : d \in DOMAIN UpTo(m.tapes[s], last)
                   \/ d \in DOMAIN UpTo(m.benchmark, last)
                /\ from <= d /\ d <= to
      BY <1>2, OnCalendar
    <3>2. d \in Calendar(k)
            <=> /\ \/ \E s \in DOMAIN m.tapes : d \in DOMAIN m.tapes[s]
                   \/ d \in DOMAIN m.benchmark
                /\ from <= d /\ d <= to
      BY <1>1, OnCalendar
    <3>3. ASSUME NEW t, IsTape(t), d <= to
          PROVE  d \in DOMAIN UpTo(t, last) <=> d \in DOMAIN t
      BY <3>3 DEF UpTo, IsTape
    <3> QED BY <1>3, <1>4, <3>1, <3>2, <3>3
  <2> QED BY <2>1
<1>7. \A day \in Calendar(k) : day \in Nat /\ day <= to
  BY <1>1, <1>3, <1>4, OnCalendar DEF IsTape
<1>8. \A day \in Calendar(k) : Session(c, day, costs.strategy) = Session(k, day, costs.strategy)
  <2> TAKE day \in Calendar(k)
  <2> DEFINE settings == costs.strategy
  <2>1. settings.slow \in Nat \ {0}
    OBVIOUS
  <2>2. day \in Nat /\ day <= to
    BY <1>7
  <2>3. SameSession(k, c, day)
    BY <1>1, <1>2, <1>3, <1>4, <1>5, <2>2 DEF SameSession
  <2> HIDE DEF settings
  <2>4. Session(k, day, settings) = Session(c, day, settings)
    BY <2>1, <2>3, SessionsAgree
  <2> QED BY <2>4 DEF settings
<1>9. [day \in Calendar(c) |-> Session(c, day, costs.strategy)]
        = [day \in Calendar(k) |-> Session(k, day, costs.strategy)]
  BY <1>6, <1>8
<1> QED
  BY <1>9 DEF Run, k, c

-----------------------------------------------------------------------------
(* Sums and loops                                                          *)

\* What a function says of a number, nothing where it is not defined.
At0(f, n) == IF n \in DOMAIN f THEN f[n] ELSE 0

\* The sums that SumUpTo runs through.
LEMMA SumRuns ==
  ASSUME NEW f, NEW last \in Nat
  PROVE  \E g : /\ g[0] = 0
                /\ \A n \in 1 .. last : g[n] = g[n - 1] + At0(f, n)
                /\ SumUpTo(f, last) = g[last]
<1> DEFINE Sums(g, k) ==
             g = [n \in 0 .. k |-> IF n = 0 THEN 0 ELSE g[n - 1] + At0(f, n)]
           Broken == {k \in 0 .. last : ~\E g : Sums(g, k)}
<1>1. Broken = {}
  <2> SUFFICES ASSUME Broken # {} PROVE FALSE
    OBVIOUS
  <2>1. PICK k \in Broken : \A j \in Broken : k <= j
    <3>1. Broken \in SUBSET Nat
      OBVIOUS
    <3> HIDE DEF Broken
    <3> QED BY <3>1, LeastNumber
  <2>2. k # 0
    <3> DEFINE g == [n \in 0 .. 0 |-> 0]
    <3>1. Sums(g, 0)
      OBVIOUS
    <3> HIDE DEF g, Sums
    <3> QED BY <3>1
  <2>3. PICK g : Sums(g, k - 1)
    <3>1. k - 1 \in 0 .. last /\ ~(k <= k - 1)
      BY <2>2
    <3>2. k - 1 \notin Broken
      <4> HIDE DEF Broken
      <4> QED BY <2>1, <3>1
    <3> HIDE DEF Sums
    <3> QED BY <3>1, <3>2
  <2> DEFINE h == [n \in 0 .. k |-> IF n = k THEN g[k - 1] + At0(f, k) ELSE g[n]]
  <2>4. Sums(h, k)
    <3>1. k \in Nat \ {0}
      BY <2>2
    <3>2. \A n \in 0 .. k : h[n] = IF n = 0 THEN 0 ELSE h[n - 1] + At0(f, n)
      <4> TAKE n \in 0 .. k
      <4>1. CASE n = k
        <5>1. h[n] = g[k - 1] + At0(f, k) /\ h[k - 1] = g[k - 1]
          BY <3>1, <4>1
        <5> QED BY <3>1, <4>1, <5>1
      <4>2. CASE n # k
        <5>1. n \in 0 .. k - 1 /\ h[n] = g[n]
          BY <3>1, <4>2
        <5>2. n # 0 => n - 1 \in 0 .. k /\ n - 1 # k /\ h[n - 1] = g[n - 1]
          BY <3>1, <5>1
        <5>3. g[n] = IF n = 0 THEN 0 ELSE g[n - 1] + At0(f, n)
          BY <2>3, <5>1
        <5> QED BY <5>1, <5>2, <5>3
      <4> QED BY <4>1, <4>2
    <3>3. [n \in 0 .. k |-> IF n = 0 THEN 0 ELSE h[n - 1] + At0(f, n)] = [n \in 0 .. k |-> h[n]]
      BY <3>2
    <3>4. h = [n \in 0 .. k |-> h[n]]
      OBVIOUS
    <3> HIDE DEF h
    <3> QED BY <3>3, <3>4
  <2> HIDE DEF Sums, h
  <2> QED BY <2>4
<1>2. PICK g : Sums(g, last)
  <2> HIDE DEF Sums
  <2> QED BY <1>1
<1>3. SumUpTo(f, last) = (CHOOSE h : Sums(h, last))[last]
  BY DEF SumUpTo, At0
<1>4. Sums(CHOOSE h : Sums(h, last), last)
  <2> HIDE DEF Sums
  <2> QED BY <1>2
<1> DEFINE s == CHOOSE h : Sums(h, last)
<1>5. s = [n \in 0 .. last |-> IF n = 0 THEN 0 ELSE s[n - 1] + At0(f, n)]
  BY <1>4
<1> HIDE DEF s
<1>6. s[0] = 0 /\ \A n \in 1 .. last : s[n] = s[n - 1] + At0(f, n)
  BY <1>5
<1>7. SumUpTo(f, last) = s[last]
  BY <1>3 DEF s
<1> QED
  BY <1>6, <1>7

\* Sums of whole numbers are whole.
LEMMA SumsAreWhole ==
  ASSUME NEW f, NEW last \in Nat, \A n \in DOMAIN f : f[n] \in Int
  PROVE  SumUpTo(f, last) \in Int
<1>1. PICK g : /\ g[0] = 0
               /\ \A n \in 1 .. last : g[n] = g[n - 1] + At0(f, n)
               /\ SumUpTo(f, last) = g[last]
  BY SumRuns
<1> DEFINE Broken == {k \in 0 .. last : g[k] \notin Int}
<1>2. Broken = {}
  <2> SUFFICES ASSUME Broken # {} PROVE FALSE
    OBVIOUS
  <2>1. PICK k \in Broken : \A j \in Broken : k <= j
    <3>1. Broken \in SUBSET Nat
      OBVIOUS
    <3> HIDE DEF Broken
    <3> QED BY <3>1, LeastNumber
  <2>2. k # 0
    BY <1>1
  <2>3. k - 1 \in 0 .. last /\ k - 1 \notin Broken
    BY <2>1, <2>2
  <2>4. g[k] = g[k - 1] + At0(f, k) /\ At0(f, k) \in Int
    BY <1>1, <2>2 DEF At0
  <2> QED BY <2>3, <2>4
<1> QED
  BY <1>1, <1>2

\* Where one number changes, the sum changes by as much.
LEMMA SumChanges ==
  ASSUME NEW f, NEW h, NEW last \in Nat, NEW k \in 1 .. last,
         \A n \in DOMAIN f : f[n] \in Int, \A n \in DOMAIN h : h[n] \in Int,
         \A n \in 1 .. last : n # k => At0(h, n) = At0(f, n)
  PROVE  SumUpTo(h, last) = SumUpTo(f, last) - At0(f, k) + At0(h, k)
<1>1. PICK g : /\ g[0] = 0
               /\ \A n \in 1 .. last : g[n] = g[n - 1] + At0(f, n)
               /\ SumUpTo(f, last) = g[last]
  BY SumRuns
<1>2. PICK c : /\ c[0] = 0
               /\ \A n \in 1 .. last : c[n] = c[n - 1] + At0(h, n)
               /\ SumUpTo(h, last) = c[last]
  BY SumRuns
<1> DEFINE Right(n) == /\ g[n] \in Int /\ c[n] \in Int
                       /\ c[n] = IF n < k THEN g[n] ELSE g[n] - At0(f, k) + At0(h, k)
           Broken == {n \in 0 .. last : ~Right(n)}
<1>3. \A n : At0(f, n) \in Int /\ At0(h, n) \in Int
  BY DEF At0
<1>4. Broken = {}
  <2> SUFFICES ASSUME Broken # {} PROVE FALSE
    OBVIOUS
  <2>1. PICK m \in Broken : \A j \in Broken : m <= j
    <3>1. Broken \in SUBSET Nat
      OBVIOUS
    <3> HIDE DEF Broken
    <3> QED BY <3>1, LeastNumber
  <2>2. m # 0
    BY <1>1, <1>2
  <2>3. m - 1 \in 0 .. last /\ Right(m - 1)
    <3>1. m - 1 \in 0 .. last /\ ~(m <= m - 1)
      BY <2>2
    <3>2. m - 1 \notin Broken
      <4> HIDE DEF Broken
      <4> QED BY <2>1, <3>1
    <3> HIDE DEF Right
    <3> QED BY <3>1, <3>2
  <2>4. m \in 1 .. last
    BY <2>2
  <2>5. g[m] = g[m - 1] + At0(f, m) /\ c[m] = c[m - 1] + At0(h, m)
    BY <1>1, <1>2, <2>4
  <2>6. m # k => At0(h, m) = At0(f, m)
    BY <2>4
  <2>7. Right(m)
    BY <1>3, <2>3, <2>4, <2>5, <2>6
  <2> HIDE DEF Right
  <2> QED BY <2>7
<1>5. Right(last)
  <2> HIDE DEF Right
  <2> QED BY <1>4
<1> QED
  BY <1>1, <1>2, <1>5

\* Whole numbers of symbols add up to a whole number.
LEMMA SumOfWhole ==
  ASSUME NEW f, \A s \in DOMAIN f : f[s] \in Int
  PROVE  SumOf(f) \in Int
<1> DEFINE g == [n \in {i \in DOMAIN Tickers : Tickers[i] \in DOMAIN f} |-> f[Tickers[n]]]
<1>1. \A n \in DOMAIN g : g[n] \in Int
  OBVIOUS
<1> HIDE DEF g
<1>2. SumUpTo(g, Len(Tickers)) \in Int
  BY <1>1, SumsAreWhole, TickersAssumption
<1> QED
  BY <1>2 DEF SumOf, g

\* Where a function changes for one symbol, so does the sum.
LEMMA SumOfChanges ==
  ASSUME NEW f, NEW h, NEW s \in Range(Tickers),
         \A x \in DOMAIN f : f[x] \in Int, \A x \in DOMAIN h : h[x] \in Int,
         \A x : x # s => At0(h, x) = At0(f, x)
  PROVE  SumOf(h) = SumOf(f) - At0(f, s) + At0(h, s)
<1> DEFINE F(w) == [n \in {i \in DOMAIN Tickers : Tickers[i] \in DOMAIN w} |-> w[Tickers[n]]]
           p == F(f)
           q == F(h)
<1>1. PICK k \in 1 .. Len(Tickers) : Tickers[k] = s
  BY TickersAssumption DEF Range
<1>2. /\ \A n \in DOMAIN p : p[n] \in Int
      /\ \A n \in DOMAIN q : q[n] \in Int
  OBVIOUS
<1>3. \A n \in 1 .. Len(Tickers) : At0(p, n) = At0(f, Tickers[n]) /\ At0(q, n) = At0(h, Tickers[n])
  BY TickersAssumption DEF At0
<1>4. \A n \in 1 .. Len(Tickers) : n # k => Tickers[n] # s
  BY <1>1, TickersAssumption
<1>5. \A n \in 1 .. Len(Tickers) : n # k => At0(q, n) = At0(p, n)
  <2> HIDE DEF p, q
  <2> QED BY <1>3, <1>4
<1>6. SumOf(f) = SumUpTo(p, Len(Tickers)) /\ SumOf(h) = SumUpTo(q, Len(Tickers))
  BY DEF SumOf
<1> HIDE DEF p, q
<1>7. SumUpTo(q, Len(Tickers)) = SumUpTo(p, Len(Tickers)) - At0(p, k) + At0(q, k)
  BY <1>1, <1>2, <1>5, SumChanges, TickersAssumption
<1> QED
  BY <1>1, <1>3, <1>6, <1>7

-----------------------------------------------------------------------------
\* The engines that a loop runs through.
LEMMA EachRuns ==
  ASSUME NEW loop, NEW e, NEW session, NEW costs
  PROVE  \E after :
           /\ after[0] = e
           /\ \A n \in 1 .. Len(Tickers) :
                after[n] = Turn(loop, after[n - 1], Tickers[n], session, costs)
           /\ Each(loop, e, session, costs) = after[Len(Tickers)]
<1> DEFINE last == Len(Tickers)
           Runs(g, k) ==
             g = [n \in 0 .. k |-> IF n = 0 THEN e
                                   ELSE Turn(loop, g[n - 1], Tickers[n], session, costs)]
           Broken == {k \in 0 .. last : ~\E g : Runs(g, k)}
<1>0. last \in Nat
  BY TickersAssumption
<1>1. Broken = {}
  <2> SUFFICES ASSUME Broken # {} PROVE FALSE
    OBVIOUS
  <2>1. PICK k \in Broken : \A j \in Broken : k <= j
    <3>1. Broken \in SUBSET Nat
      BY <1>0
    <3> HIDE DEF Broken
    <3> QED BY <3>1, LeastNumber
  <2>2. k # 0
    <3> DEFINE g == [n \in 0 .. 0 |-> e]
    <3>1. Runs(g, 0)
      OBVIOUS
    <3> HIDE DEF g, Runs
    <3> QED BY <3>1
  <2>3. PICK g : Runs(g, k - 1)
    <3>1. k - 1 \in 0 .. last /\ ~(k <= k - 1)
      BY <1>0, <2>2
    <3>2. k - 1 \notin Broken
      <4> HIDE DEF Broken
      <4> QED BY <2>1, <3>1
    <3> HIDE DEF Runs
    <3> QED BY <3>1, <3>2
  <2> DEFINE h == [n \in 0 .. k |-> IF n = k
                                    THEN Turn(loop, g[k - 1], Tickers[k], session, costs)
                                    ELSE g[n]]
  <2>4. Runs(h, k)
    <3>1. k \in Nat \ {0}
      BY <1>0, <2>2
    <3>2. \A n \in 0 .. k :
            h[n] = IF n = 0 THEN e ELSE Turn(loop, h[n - 1], Tickers[n], session, costs)
      <4> TAKE n \in 0 .. k
      <4>1. CASE n = k
        <5>1. h[n] = Turn(loop, g[k - 1], Tickers[k], session, costs) /\ h[k - 1] = g[k - 1]
          BY <3>1, <4>1
        <5> QED BY <3>1, <4>1, <5>1
      <4>2. CASE n # k
        <5>1. n \in 0 .. k - 1 /\ h[n] = g[n]
          BY <3>1, <4>2
        <5>2. n # 0 => n - 1 \in 0 .. k /\ n - 1 # k /\ h[n - 1] = g[n - 1]
          BY <3>1, <5>1
        <5>3. g[n] = IF n = 0 THEN e ELSE Turn(loop, g[n - 1], Tickers[n], session, costs)
          BY <2>3, <5>1
        <5> QED BY <5>1, <5>2, <5>3
      <4> QED BY <4>1, <4>2
    <3>3. [n \in 0 .. k |-> IF n = 0 THEN e
                            ELSE Turn(loop, h[n - 1], Tickers[n], session, costs)]
            = [n \in 0 .. k |-> h[n]]
      BY <3>2
    <3>4. h = [n \in 0 .. k |-> h[n]]
      OBVIOUS
    <3> HIDE DEF h
    <3> QED BY <3>3, <3>4
  <2> HIDE DEF Runs, h
  <2> QED BY <2>4
<1>2. PICK g : Runs(g, last)
  <2> HIDE DEF Runs
  <2> QED BY <1>0, <1>1
<1>3. Each(loop, e, session, costs) = (CHOOSE h : Runs(h, last))[last]
  BY DEF Each
<1>4. Runs(CHOOSE h : Runs(h, last), last)
  <2> HIDE DEF Runs
  <2> QED BY <1>2
<1> DEFINE after == CHOOSE h : Runs(h, last)
<1>5. after = [n \in 0 .. last |-> IF n = 0 THEN e
                                   ELSE Turn(loop, after[n - 1], Tickers[n], session, costs)]
  BY <1>4
<1> HIDE DEF after
<1>6. after[0] = e /\ \A n \in 1 .. last :
                        after[n] = Turn(loop, after[n - 1], Tickers[n], session, costs)
  BY <1>0, <1>5
<1>7. Each(loop, e, session, costs) = after[last]
  BY <1>3 DEF after
<1> QED
  BY <1>6, <1>7

\* The greater of two numbers.
LEMMA GreaterOfTwo ==
  ASSUME NEW x \in Int, NEW y \in Int
  PROVE  Max({x, y}) = IF x >= y THEN x ELSE y
<1> DEFINE most == IF x >= y THEN x ELSE y
<1>1. most \in {x, y} /\ \A u \in {x, y} : most >= u /\ u \in Int
  OBVIOUS
<1>2. Max({x, y}) \in {x, y} /\ \A u \in {x, y} : Max({x, y}) >= u
  BY <1>1 DEF Max
<1> QED
  BY <1>1, <1>2

\* The lesser of two numbers.
LEMMA LesserOfTwo ==
  ASSUME NEW x \in Int, NEW y \in Int
  PROVE  Min({x, y}) = IF x <= y THEN x ELSE y
<1> DEFINE least == IF x <= y THEN x ELSE y
<1>1. least \in {x, y} /\ \A u \in {x, y} : least <= u /\ u \in Int
  OBVIOUS
<1>2. Min({x, y}) \in {x, y} /\ \A u \in {x, y} : Min({x, y}) <= u
  BY <1>1 DEF Min
<1> QED
  BY <1>1, <1>2

\* The greatest of three numbers.
LEMMA GreatestOfThree ==
  ASSUME NEW x \in Int, NEW y \in Int, NEW z \in Int
  PROVE  Max({x, y, z}) \in Int
<1> DEFINE xy == IF x >= y THEN x ELSE y
           most == IF xy >= z THEN xy ELSE z
<1>1. most \in {x, y, z} /\ \A u \in {x, y, z} : most >= u /\ u \in Int
  OBVIOUS
<1>2. Max({x, y, z}) \in {x, y, z}
  BY <1>1 DEF Max
<1> QED
  BY <1>1, <1>2

-----------------------------------------------------------------------------
(* What a session tells *)

\* An average true range is a number, once there are days enough (calculate_atr).
LEMMA AtrIsWhole ==
  ASSUME NEW t, IsTape(t), NEW day \in Nat, NEW n \in Nat \ {0}
  PROVE  Atr(t, day, n) \in Int \cup {NoValue}
<1> DEFINE bars == Latest(t, day, n)
           f == [d \in bars |-> TrueRange(t, d)]
<1>1. ASSUME NEW d \in DOMAIN t
      PROVE  TrueRange(t, d) \in Int
  <2> DEFINE S == Before(t, d)
  <2>1. t[d].high \in Int /\ t[d].low \in Int /\ d \in Nat
    BY DEF IsTape, Bars, Price
  <2>2. S \in SUBSET Nat /\ S \subseteq DOMAIN t /\ \A x \in S : x <= d
    BY DEF Before, IsTape
  <2>3. ASSUME S # {}
        PROVE  t[Max(S)].close \in Int
    <3> HIDE DEF S
    <3> DEFINE x == Max(S)
    <3>1. x \in DOMAIN t
      BY <2>1, <2>2, <2>3, MaxOfDays
    <3> HIDE DEF x
    <3>2. t[x] \in Bars
      BY <3>1 DEF IsTape
    <3>3. t[x].close \in Int
      BY <3>2 DEF Bars, Price
    <3> QED BY <3>3 DEF x
  <2> DEFINE range == t[d].high - t[d].low
             high == Distance(t[d].high, t[Max(S)].close)
             low == Distance(t[d].low, t[Max(S)].close)
  <2>4. TrueRange(t, d) = IF S = {} THEN range ELSE Max({range, high, low})
    BY DEF TrueRange
  <2>5. range \in Int
    BY <2>1
  <2>6. CASE S # {}
    <3>1. high \in Int /\ low \in Int
      BY <2>1, <2>3, <2>6 DEF Distance
    <3> HIDE DEF range, high, low
    <3>2. Max({range, high, low}) \in Int
      BY <2>5, <3>1, GreatestOfThree
    <3> QED BY <2>4, <2>6, <3>2
  <2> QED BY <2>4, <2>5, <2>6
<1>2. bars \subseteq DOMAIN t /\ bars \in SUBSET Nat /\ \A d \in bars : d <= day
  BY DEF Latest, IsTape
<1>3. Max(bars \cup {0}) \in Nat
  <2> DEFINE S == bars \cup {0}
  <2>1. S \in SUBSET Nat /\ S # {} /\ \A d \in S : d <= day
    BY <1>2
  <2> HIDE DEF S
  <2>2. Max(S) \in S
    BY <2>1, MaxOfDays
  <2> QED BY <2>1, <2>2 DEF S
<1>4. DOMAIN f = bars /\ \A d \in DOMAIN f : f[d] \in Int
  BY <1>1, <1>2
<1> HIDE DEF f, bars
<1>5. Total(f) \in Int
  <2>1. Max(DOMAIN f \cup {0}) \in Nat
    BY <1>3, <1>4
  <2> QED BY <1>4, <2>1, SumsAreWhole DEF Total
<1>6. Atr(t, day, n) = IF Cardinality(bars) < n THEN NoValue ELSE Total(f) \div n
  BY DEF Atr, bars, f
<1> QED
  BY <1>5, <1>6

\* What an engine may be told: nothing but prices of symbols that are tested.
SessionOK(session, tested) ==
  /\ session.date \in Nat
  /\ session.traded \subseteq tested
  /\ \A s \in session.traded :
       /\ session.bar[s] \in Bars
       /\ session.next[s] \in Nat
       /\ session.candidate[s].symbol = s
       /\ session.candidate[s].entry \in Price
       /\ session.candidate[s].stop \in Int \cup {NoValue}
       /\ session.range[s] \in Int \cup {NoValue}

\* And nothing else is told: the session of a day in a market.
LEMMA SessionIsOK ==
  ASSUME NEW m, IsMarket(m), NEW day \in Nat, NEW settings, IsStrategy(settings)
  PROVE  /\ SessionOK(Session(m, day, settings), Tested(m))
         /\ Session(m, day, settings).date = day
         /\ Session(m, day, settings).traded = Traded(m, day)
         /\ \A s \in Traded(m, day) : Session(m, day, settings).bar[s] = m.tapes[s][day]
<1> DEFINE k == Session(m, day, settings)
           traded == Traded(m, day)
<1>1. /\ k.date = day /\ k.traded = traded
      /\ k.bar = [s \in traded |-> m.tapes[s][day]]
      /\ k.next = [s \in traded |-> NextBar(m.tapes[s], day, m.to)]
      /\ k.candidate = [s \in traded |-> Candidate(s, m.tapes[s], day, settings)]
      /\ k.range = [s \in traded |-> Atr(m.tapes[s], day, settings.atrWindow)]
  BY DEF Session
<1> HIDE DEF k
<1>2. traded \subseteq Tested(m)
  BY DEF Traded, Tested
<1>3. \A s \in traded : IsTape(m.tapes[s]) /\ day \in DOMAIN m.tapes[s]
  BY DEF Traded, IsMarket
<1> HIDE DEF traded
<1>4. ASSUME NEW t, IsTape(t), day \in DOMAIN t, NEW s
      PROVE  /\ t[day] \in Bars
             /\ NextBar(t, day, m.to) \in Nat
             /\ Atr(t, day, settings.atrWindow) \in Int \cup {NoValue}
             /\ Candidate(s, t, day, settings).symbol = s
             /\ Candidate(s, t, day, settings).entry \in Price
             /\ Candidate(s, t, day, settings).stop \in Int \cup {NoValue}
  <2>1. t[day] \in Bars
    BY <1>4 DEF IsTape
  <2>2. NextBar(t, day, m.to) \in Nat
    <3> DEFINE S == Later(t, day, m.to)
    <3>1. S \in SUBSET Nat
      BY <1>4 DEF Later, IsTape
    <3> HIDE DEF S
    <3>2. S # {} => Min(S) \in Nat
      BY <3>1, MinOfDays
    <3> QED BY <3>2 DEF NextBar, NoDay, S
  <2>3. Atr(t, day, settings.atrWindow) \in Int \cup {NoValue}
    <3> DEFINE n == settings.atrWindow
    <3>1. n \in Nat \ {0}
      BY DEF IsStrategy
    <3> HIDE DEF n
    <3>2. Atr(t, day, n) \in Int \cup {NoValue}
      BY <1>4, <3>1, AtrIsWhole
    <3> QED BY <3>2 DEF n
  <2>4. t[day].close \in Price /\ t[day].close \in Int
    BY <2>1 DEF Bars, Price
  <2>5. Candidate(s, t, day, settings).stop \in Int \cup {NoValue}
    BY <2>3, <2>4 DEF Candidate, Known, Below, IsStrategy
  <2>6. Candidate(s, t, day, settings).symbol = s
        /\ Candidate(s, t, day, settings).entry = t[day].close
    BY DEF Candidate
  <2> QED BY <2>1, <2>2, <2>3, <2>4, <2>5, <2>6
<1>5. \A s \in traded : k.bar[s] = m.tapes[s][day]
  BY <1>1
<1>6. \A s \in traded :
       /\ k.bar[s] \in Bars
       /\ k.next[s] \in Nat
       /\ k.candidate[s].symbol = s
       /\ k.candidate[s].entry \in Price
       /\ k.candidate[s].stop \in Int \cup {NoValue}
       /\ k.range[s] \in Int \cup {NoValue}
  BY <1>1, <1>3, <1>4
<1> QED
  BY <1>1, <1>2, <1>5, <1>6 DEF SessionOK, k, traded

-----------------------------------------------------------------------------
(* Sizes and slots *)

\* A size that is valid is a number of shares.
LEMMA ValidSize ==
  ASSUME NEW equity \in Int, NEW risk \in Int, NEW entry \in Price,
         NEW stop \in Int \cup {NoValue}, NEW cap \in Nat \cup {NoValue},
         SizePosition(equity, risk, entry, stop, cap).valid
  PROVE  /\ SizePosition(equity, risk, entry, stop, cap).shares \in Nat \ {0}
         /\ stop \in Int
<1> DEFINE byRisk == (equity * risk) \div (100 * (entry - stop))
           byCap  == (equity * cap) \div (100 * entry)
           shares == IF Known(cap) THEN Min({byRisk, byCap}) ELSE byRisk
           size == SizePosition(equity, risk, entry, stop, cap)
<1>1. size = IF ~Known(stop) \/ stop >= entry THEN Unsized
             ELSE IF shares <= 0 THEN Unsized
                  ELSE [valid |-> TRUE, shares |-> shares, notional |-> shares * entry]
  BY DEF SizePosition
<1>2. Known(stop) /\ ~(stop >= entry) /\ ~(shares <= 0)
      /\ size = [valid |-> TRUE, shares |-> shares, notional |-> shares * entry]
  BY <1>1 DEF Unsized
<1>3. stop \in Int /\ entry \in Int /\ entry > 0
  BY <1>2 DEF Known, Price
<1>4. byRisk \in Int
  <2>1. 100 * (entry - stop) \in Nat \ {0}
    BY <1>2, <1>3
  <2>2. equity * risk \in Int
    OBVIOUS
  <2> QED BY <2>1, <2>2
<1>5. Known(cap) => byCap \in Int
  <2>1. 100 * entry \in Nat \ {0}
    BY <1>3
  <2>2. Known(cap) => equity * cap \in Int
    BY DEF Known
  <2> QED BY <2>1, <2>2
<1> HIDE DEF byRisk, byCap
<1>6. shares \in Int
  <2>1. CASE Known(cap)
    <3>1. Min({byRisk, byCap}) \in Int
      BY <1>4, <1>5, <2>1, LesserOfTwo
    <3> QED BY <2>1, <3>1
  <2>2. CASE ~Known(cap)
    BY <1>4, <2>2
  <2> QED BY <2>1, <2>2
<1> HIDE DEF shares
<1>7. shares \in Nat \ {0}
  BY <1>2, <1>6
<1> QED
  BY <1>2, <1>3, <1>7

\* What is ordered is sized, and finds a free slot.
LEMMA ActionableFits ==
  ASSUME NEW c, NEW risk \in Nat, NEW account, account.equity \in Int, NEW held, NEW limits,
         c.entry \in Price, c.stop \in Int \cup {NoValue},
         limits.reduction \in Nat \ {0}, limits.positionPct \in Nat \cup {NoValue},
         c.symbol \notin held,
         Assess(c, risk, account, NoContext, held, {}, limits).disposition \in Actionable
  PROVE  /\ Assess(c, risk, account, NoContext, held, {}, limits).sizing.shares \in Nat \ {0}
         /\ c.stop \in Int
         /\ ~(Cardinality(held) >= limits.positions)
<1> DEFINE adjusted == AdjustedRisk(risk, account.drawdown, limits)
           sizing == SizePosition(account.equity, adjusted, c.entry, c.stop, limits.positionPct)
           blockers == Blockers(c, sizing, NoContext, held, {}, limits)
           missing == MissingContexts(c, NoContext)
           a == Assess(c, risk, account, NoContext, held, {}, limits)
<1>1. a.sizing = sizing /\ a.disposition = Disposition(blockers, missing)
  BY DEF Assess
<1> HIDE DEF a
<1>2. \A b \in blockers : b.severity \in {"soft", "hard"}
  BY DEF Blockers, PortfolioRules, SymbolBlockers, MarketBlockers, HeatBlockers, When,
         Soft, Hard
<1>3. blockers = {}
  <2> HIDE DEF blockers, missing
  <2>1. Disposition(blockers, missing) \in Actionable
    BY <1>1 DEF a
  <2> QED BY <1>2, <2>1 DEF Disposition, Actionable
<1>4. sizing.valid
  <2> HIDE DEF sizing
  <2>1. ~sizing.valid => Hard("sizing") \in blockers
    BY DEF Blockers
  <2> QED BY <1>3, <2>1
<1>5. ~(Cardinality(held) >= limits.positions)
  <2> HIDE DEF sizing
  <2>1. PortfolioRules(c, held, limits) \subseteq blockers
    BY <1>4 DEF Blockers
  <2>2. Cardinality(held) >= limits.positions => Soft("capacity") \in blockers
    BY <2>1 DEF PortfolioRules, When
  <2> QED BY <1>3, <2>2
<1>6. adjusted \in Int
  BY DEF AdjustedRisk
<1>7. sizing.shares \in Nat \ {0} /\ c.stop \in Int
  <2> DEFINE equity == account.equity
             entry == c.entry
             stop == c.stop
             cap == limits.positionPct
  <2>1. equity \in Int /\ entry \in Price /\ stop \in Int \cup {NoValue}
        /\ cap \in Nat \cup {NoValue}
    OBVIOUS
  <2>2. SizePosition(equity, adjusted, entry, stop, cap).valid
    BY <1>4
  <2> HIDE DEF equity, entry, stop, cap, adjusted
  <2>3. SizePosition(equity, adjusted, entry, stop, cap).shares \in Nat \ {0} /\ stop \in Int
    BY <1>6, <2>1, <2>2, ValidSize
  <2> QED BY <2>3 DEF equity, entry, stop, cap
<1> QED
  BY <1>1, <1>5, <1>7 DEF a

-----------------------------------------------------------------------------
(* The books of an engine                                                  *)

\* Why a position is sold.
Reasons == {"trailing_stop", "initial_stop", "end_of_data"}

\* A sale, as it is kept among the trades.
Trade ==
  [ symbol : Range(Tickers), since : Nat, day : Nat, reason : Reasons, price : Int, stop : Int,
    net : Int ]

\* The fields of an engine.
IsEngine(e) ==
  DOMAIN e = {"cash", "realized", "peak", "equity", "open", "pending", "trades", "curve"}

\* What an engine holds: positions and orders of symbols that are tested.
EngineTyped(e, tested) ==
  /\ IsEngine(e)
  /\ e.cash \in Int /\ e.realized \in Int /\ e.peak \in Nat \ {0} /\ e.equity \in Int
  /\ e.open \in [DOMAIN e.open -> Position] /\ DOMAIN e.open \subseteq tested
  /\ e.pending \subseteq Entry
  /\ e.trades \in Seq(Trade)

\* What is held and what waits for its bar take the slots, each its own.
SlotsKept(e, tested, costs) ==
  /\ \A p \in e.pending : p.symbol \in tested \ DOMAIN e.open
  /\ \A p, q \in e.pending : p.symbol = q.symbol => p = q
  /\ IsFiniteSet(Taken(e)) /\ Cardinality(Taken(e)) <= costs.limits.positions

\* What was paid for the open positions.
Paid(e) == [s \in DOMAIN e.open |-> e.open[s].shares * e.open[s].entry + e.open[s].fee]

\* Some sale did not bring its own commission.
Worthless(e, costs) ==
  \E i \in DOMAIN e.trades : e.trades[i].price < Max({costs.marketFee, costs.stopFee})

\* The cash is what the trades and the open positions say it is.
BooksKept(e, costs) ==
  /\ e.cash = costs.cash + e.realized - SumOf(Paid(e))
  /\ e.cash < 0 => Worthless(e, costs)

\* The inductive invariant of a run.
EngineOK(e, tested, costs) ==
  /\ tested \subseteq Range(Tickers)
  /\ EngineTyped(e, tested)
  /\ SlotsKept(e, tested, costs)
  /\ BooksKept(e, costs)

-----------------------------------------------------------------------------
(* Sales *)

\* A sale brings what the trade earned and takes the position off the books.
LEMMA CloseKeeps ==
  ASSUME NEW e, NEW tested, NEW costs, IsSetup(costs), EngineOK(e, tested, costs),
         NEW s \in DOMAIN e.open, NEW day \in Nat, NEW price \in Int, NEW reason \in Reasons,
         NEW fee \in {costs.marketFee, costs.stopFee}
  PROVE  EngineOK(Close(e, s, day, price, reason, fee), tested, costs)
<1> DEFINE r == Close(e, s, day, price, reason, fee)
           p == e.open[s]
           net == NetPnl(p, price, fee)
           trade == [symbol |-> s, since |-> p.since, day |-> day, reason |-> reason,
                     price |-> price, stop |-> p.stop, net |-> net]
<1>1. IsEngine(e) /\ e.open \in [DOMAIN e.open -> Position] /\ e.trades \in Seq(Trade)
      /\ e.cash \in Int /\ e.realized \in Int
  BY DEF EngineOK, EngineTyped
<1>2. /\ r.cash = e.cash + p.shares * price - fee /\ r.realized = e.realized + net
      /\ r.peak = e.peak /\ r.equity = e.equity /\ r.pending = e.pending
      /\ r.open = [other \in DOMAIN e.open \ {s} |-> e.open[other]]
      /\ r.trades = Append(e.trades, trade)
      /\ IsEngine(r)
  <2> DEFINE cash == e.cash + p.shares * price - fee
             realized == e.realized + net
             open == [other \in DOMAIN e.open \ {s} |-> e.open[other]]
             trades == Append(e.trades, trade)
  <2>1. r = [e EXCEPT !.cash = cash, !.realized = realized, !.open = open, !.trades = trades]
    BY Zenon DEF Close
  <2> HIDE DEF r, p, net, trade, cash, realized, open, trades
  <2>2. /\ r.cash = cash /\ r.realized = realized /\ r.open = open /\ r.trades = trades
        /\ r.peak = e.peak /\ r.equity = e.equity /\ r.pending = e.pending
        /\ IsEngine(r)
    BY <1>1, <2>1 DEF IsEngine
  <2> QED BY <2>2 DEF cash, realized, open, trades
<1>3. /\ p.shares \in Nat \ {0} /\ p.entry \in Nat /\ p.fee \in Nat /\ p.since \in Nat
      /\ p.stop \in Int
  BY <1>1 DEF Position
<1>4. fee \in Nat /\ costs.marketFee \in Nat /\ costs.stopFee \in Nat /\ costs.cash \in Nat
  BY DEF IsSetup
<1> HIDE DEF r, p
<1>5. net \in Int /\ p.shares * price \in Int /\ p.shares * p.entry \in Int
      /\ net = p.shares * price - p.shares * p.entry - p.fee - fee
  BY <1>3, <1>4 DEF NetPnl
<1> HIDE DEF net
<1>6. trade \in Trade
  <2>1. s \in Range(Tickers)
    BY DEF EngineOK, EngineTyped
  <2> QED BY <1>3, <1>5, <2>1 DEF Trade
<1> HIDE DEF trade
<1>7. EngineTyped(r, tested)
  <2>1. r.open \in [DOMAIN r.open -> Position] /\ DOMAIN r.open \subseteq DOMAIN e.open
    BY <1>1, <1>2
  <2>2. r.trades \in Seq(Trade)
    BY <1>1, <1>2, <1>6
  <2>3. r.cash \in Int /\ r.realized \in Int
    <3> DEFINE sale == p.shares * price
    <3>1. sale \in Int /\ fee \in Int /\ r.cash = e.cash + sale - fee
      BY <1>2, <1>4, <1>5
    <3> HIDE DEF sale
    <3> QED BY <1>1, <1>2, <1>5, <3>1
  <2> QED BY <1>2, <2>1, <2>2, <2>3 DEF EngineOK, EngineTyped
<1>8. SlotsKept(r, tested, costs)
  <2>1. Taken(r) \subseteq Taken(e)
    BY <1>2 DEF Taken, Waiting
  <2>2. IsFiniteSet(Taken(e)) /\ Cardinality(Taken(e)) <= costs.limits.positions
        /\ costs.limits.positions \in Nat
    BY DEF EngineOK, SlotsKept, IsSetup
  <2>3. IsFiniteSet(Taken(r)) /\ Cardinality(Taken(r)) <= Cardinality(Taken(e))
        /\ Cardinality(Taken(r)) \in Nat /\ Cardinality(Taken(e)) \in Nat
    BY <2>1, <2>2, FS_Subset, FS_CardinalityType
  <2>4. Cardinality(Taken(r)) <= costs.limits.positions
    BY <2>2, <2>3
  <2> QED BY <1>2, <2>3, <2>4 DEF EngineOK, SlotsKept
<1>9. BooksKept(r, costs)
  <2>1. SumOf(Paid(r)) = SumOf(Paid(e)) - (p.shares * p.entry + p.fee)
        /\ SumOf(Paid(e)) \in Int
    <3> DEFINE f == Paid(e)
               h == Paid(r)
    <3>1. DOMAIN f = DOMAIN e.open /\ DOMAIN h = DOMAIN e.open \ {s}
          /\ f[s] = p.shares * p.entry + p.fee
          /\ \A x \in DOMAIN h : h[x] = f[x]
      BY <1>2 DEF Paid, p
    <3>2. \A x \in DOMAIN f : f[x] \in Int
      <4> SUFFICES ASSUME NEW x \in DOMAIN e.open
                   PROVE  e.open[x].shares * e.open[x].entry + e.open[x].fee \in Int
        BY DEF Paid
      <4>1. e.open[x].shares \in Nat /\ e.open[x].entry \in Nat /\ e.open[x].fee \in Nat
        BY <1>1 DEF Position
      <4> QED BY <4>1
    <3> HIDE DEF f, h
    <3>3. \A x \in DOMAIN h : h[x] \in Int
      BY <3>1, <3>2
    <3>4. \A x : x # s => At0(h, x) = At0(f, x)
      BY <3>1 DEF At0
    <3>5. s \in Range(Tickers)
      BY DEF EngineOK, EngineTyped
    <3>6. SumOf(h) = SumOf(f) - At0(f, s) + At0(h, s)
      BY <3>2, <3>3, <3>4, <3>5, SumOfChanges
    <3>7. At0(f, s) = p.shares * p.entry + p.fee /\ At0(h, s) = 0
      BY <3>1 DEF At0
    <3>8. SumOf(f) \in Int
      BY <3>2, SumOfWhole
    <3>9. SumOf(h) = SumOf(f) - (p.shares * p.entry + p.fee)
      BY <1>3, <1>5, <3>6, <3>7, <3>8
    <3> QED BY <3>8, <3>9 DEF f, h
  <2>2. e.cash = costs.cash + e.realized - SumOf(Paid(e))
    BY DEF EngineOK, BooksKept
  <2>3. r.cash = costs.cash + r.realized - SumOf(Paid(r))
    <3> DEFINE sale == p.shares * price
               cost == p.shares * p.entry
               paid == SumOf(Paid(e))
    <3>1. /\ sale \in Int /\ cost \in Int /\ paid \in Int /\ fee \in Int /\ p.fee \in Int
          /\ costs.cash \in Int /\ e.realized \in Int
          /\ r.cash = e.cash + sale - fee /\ r.realized = e.realized + net
          /\ net = sale - cost - p.fee - fee /\ e.cash = costs.cash + e.realized - paid
          /\ SumOf(Paid(r)) = paid - (cost + p.fee)
      <4>1. sale \in Int /\ cost \in Int /\ net = sale - cost - p.fee - fee
        BY <1>5
      <4>2. /\ paid \in Int /\ e.cash = costs.cash + e.realized - paid
            /\ SumOf(Paid(r)) = paid - (cost + p.fee)
        BY <2>1, <2>2
      <4>3. r.cash = e.cash + sale - fee /\ r.realized = e.realized + net
        BY <1>2
      <4> HIDE DEF sale, cost, paid
      <4> QED BY <1>1, <1>3, <1>4, <4>1, <4>2, <4>3
    <3> HIDE DEF sale, cost, paid
    <3> QED BY <3>1
  <2>4. ASSUME r.cash < 0
        PROVE  Worthless(r, costs)
    <3> DEFINE n == Len(e.trades)
               least == Max({costs.marketFee, costs.stopFee})
    <3>1. n \in Nat /\ DOMAIN e.trades = 1 .. n /\ DOMAIN r.trades = 1 .. n + 1
          /\ r.trades[n + 1] = trade /\ \A i \in 1 .. n : r.trades[i] = e.trades[i]
      BY <1>1, <1>2, <1>6
    <3>2. least \in Nat /\ fee <= least
      BY <1>4, GreaterOfTwo
    <3> HIDE DEF n, least
    <3>3. CASE e.cash < 0
      <4>1. \E i \in 1 .. n : e.trades[i].price < least
        BY <3>1, <3>3 DEF EngineOK, BooksKept, Worthless, least
      <4>2. \E i \in 1 .. n + 1 : r.trades[i].price < least
        BY <3>1, <4>1
      <4> QED BY <3>1, <4>2 DEF Worthless, least
    <3>4. CASE e.cash >= 0
      <4>1. p.shares * price < fee
        BY <1>1, <1>2, <1>4, <1>5, <2>4, <3>4
      <4>2. price < fee
        <5> SUFFICES ASSUME price >= fee PROVE FALSE
          BY <1>4
        <5>1. price \in Nat /\ p.shares >= 1
          BY <1>3, <1>4
        <5>2. p.shares * price >= price
          BY <1>3, <5>1
        <5> QED BY <1>4, <1>5, <4>1, <5>2
      <4>3. price < least
        BY <1>4, <3>2, <4>2
      <4>4. n + 1 \in DOMAIN r.trades /\ r.trades[n + 1].price = price
        BY <3>1 DEF trade
      <4> QED BY <4>3, <4>4 DEF Worthless, least
    <3> QED BY <1>1, <3>3, <3>4
  <2> QED BY <2>3, <2>4 DEF BooksKept
<1> QED
  BY <1>7, <1>8, <1>9 DEF EngineOK, r

\* What is bought or sold is filled at a whole number of cents.
LEMMA FillsAreWhole ==
  ASSUME NEW costs, IsSetup(costs), NEW price \in Int
  PROVE  /\ SellFill(price, costs) \in Int
         /\ price \in Nat => BuyFill(price, costs) \in Nat
<1> DEFINE less == 10000 - costs.bps
           more == 10000 + costs.bps
<1>1. less \in Int /\ more \in Nat
  BY DEF IsSetup
<1> HIDE DEF less, more
<1>2. price * less \in Int /\ (price \in Nat => price * more \in Nat)
  BY <1>1
<1>3. SellFill(price, costs) = (price * less) \div 10000
      /\ BuyFill(price, costs) = (price * more) \div 10000
  BY DEF SellFill, BuyFill, less, more
<1> DEFINE low == price * less
           high == price * more
<1> HIDE DEF low, high
<1>4. low \in Int => low \div 10000 \in Int
  OBVIOUS
<1>5. high \in Nat => high \div 10000 \in Nat
  OBVIOUS
<1> QED
  BY <1>2, <1>3, <1>4, <1>5 DEF low, high

\* A stop is a sale.
LEMMA StopOutKeeps ==
  ASSUME NEW e, NEW tested, NEW costs, IsSetup(costs), EngineOK(e, tested, costs),
         NEW s \in DOMAIN e.open, NEW day \in Nat, NEW price \in Int
  PROVE  EngineOK(StopOut(e, s, day, price, costs), tested, costs)
<1> DEFINE sold == SellFill(price, costs)
           reason == StopReason(e.open[s])
           fee == costs.stopFee
<1>1. sold \in Int
  BY FillsAreWhole
<1>2. reason \in Reasons
  BY DEF StopReason, Reasons
<1>3. StopOut(e, s, day, price, costs) = Close(e, s, day, sold, reason, fee)
  BY DEF StopOut
<1>4. fee \in {costs.marketFee, costs.stopFee}
  OBVIOUS
<1> HIDE DEF sold, reason, fee
<1>5. EngineOK(Close(e, s, day, sold, reason, fee), tested, costs)
  BY <1>1, <1>2, <1>4, CloseKeeps
<1> QED
  BY <1>3, <1>5

\* So are the exits of the engine's loops.
LEMMA ExitsKeep ==
  ASSUME NEW e, NEW tested, NEW costs, IsSetup(costs), EngineOK(e, tested, costs),
         NEW s, NEW session, session.date \in Nat
  PROVE  /\ SessionOK(session, tested) => EngineOK(GapExit(e, s, session, costs), tested, costs)
         /\ SessionOK(session, tested) =>
              EngineOK(IntradayExit(e, s, session, costs), tested, costs)
         /\ EngineOK(FinalExit(e, s, session, costs), tested, costs)
<1> DEFINE day == session.date
<1>1. day \in Nat
  OBVIOUS
<1>2. e.open \in [DOMAIN e.open -> Position]
  BY DEF EngineOK, EngineTyped
<1>3. ASSUME SessionOK(session, tested), s \in DOMAIN e.open, s \in session.traded
      PROVE  EngineOK(StopOut(e, s, day, session.bar[s].open, costs), tested, costs)
  <2> DEFINE price == session.bar[s].open
  <2>1. price \in Int
    BY <1>3 DEF SessionOK, Bars, Price
  <2> HIDE DEF price, day
  <2>2. EngineOK(StopOut(e, s, day, price, costs), tested, costs)
    BY <1>1, <1>3, <2>1, StopOutKeeps
  <2> QED BY <2>2 DEF price
<1>4. ASSUME s \in DOMAIN e.open
      PROVE  EngineOK(StopOut(e, s, day, e.open[s].stop, costs), tested, costs)
  <2> DEFINE price == e.open[s].stop
  <2>1. price \in Int
    BY <1>2, <1>4 DEF Position
  <2> HIDE DEF price, day
  <2>2. EngineOK(StopOut(e, s, day, price, costs), tested, costs)
    BY <1>1, <1>4, <2>1, StopOutKeeps
  <2> QED BY <2>2 DEF price
<1>5. ASSUME s \in DOMAIN e.open
      PROVE  EngineOK(Close(e, s, day, SellFill(e.open[s].last, costs), "end_of_data",
                            costs.marketFee), tested, costs)
  <2> DEFINE last == e.open[s].last
             price == SellFill(last, costs)
             reason == "end_of_data"
             fee == costs.marketFee
  <2>1. last \in Int
    BY <1>2, <1>5 DEF Position
  <2>2. price \in Int
    <3> HIDE DEF last
    <3> QED BY <2>1, FillsAreWhole
  <2>3. reason \in Reasons /\ fee \in {costs.marketFee, costs.stopFee}
    BY DEF Reasons
  <2> HIDE DEF price, reason, fee, day
  <2>4. EngineOK(Close(e, s, day, price, reason, fee), tested, costs)
    BY <1>1, <1>5, <2>2, <2>3, CloseKeeps
  <2> QED BY <2>4 DEF price, reason, fee
<1>6. SessionOK(session, tested) => EngineOK(GapExit(e, s, session, costs), tested, costs)
  BY <1>3 DEF GapExit, GapsThrough
<1>7. SessionOK(session, tested) => EngineOK(IntradayExit(e, s, session, costs), tested, costs)
  BY <1>4 DEF IntradayExit, TradesThrough
<1>8. EngineOK(FinalExit(e, s, session, costs), tested, costs)
  BY <1>5 DEF FinalExit
<1> QED
  BY <1>6, <1>7, <1>8

\* No more is bought than the cash that is left pays for.
LEMMA WholeParts ==
  ASSUME NEW x \in Nat, NEW y \in Nat \ {0}, NEW k \in Nat, k <= x \div y
  PROVE  k * y <= x
<1> DEFINE q == x \div y
<1>1. q \in Nat /\ q * y <= x
  OBVIOUS
<1> HIDE DEF q
<1>2. k <= q
  BY DEF q
<1>3. k * y <= q * y
  BY <1>1, <1>2
<1> QED
  BY <1>1, <1>3

\* An order leaves the book of what waits, and nothing else changes.
LEMMA FreeingKeeps ==
  ASSUME NEW e, NEW tested, NEW costs, IsSetup(costs), EngineOK(e, tested, costs),
         NEW due \in SUBSET e.pending, NEW r, r = [e EXCEPT !.pending = @ \ due]
  PROVE  EngineOK(r, tested, costs)
<1>1. IsEngine(e)
  BY DEF EngineOK, EngineTyped
<1>2. /\ r.cash = e.cash /\ r.realized = e.realized /\ r.open = e.open /\ r.trades = e.trades
      /\ r.peak = e.peak /\ r.equity = e.equity /\ r.pending = e.pending \ due
      /\ IsEngine(r)
  BY <1>1 DEF IsEngine
<1>3. EngineTyped(r, tested)
  BY <1>2 DEF EngineOK, EngineTyped
<1>4. BooksKept(r, costs)
  BY <1>2 DEF EngineOK, BooksKept, Paid, Worthless
<1>5. SlotsKept(r, tested, costs)
  <2>1. Taken(r) \subseteq Taken(e)
    BY <1>2 DEF Taken, Waiting
  <2>2. IsFiniteSet(Taken(e)) /\ Cardinality(Taken(e)) <= costs.limits.positions
        /\ costs.limits.positions \in Nat
    BY DEF EngineOK, SlotsKept, IsSetup
  <2>3. IsFiniteSet(Taken(r)) /\ Cardinality(Taken(r)) <= Cardinality(Taken(e))
        /\ Cardinality(Taken(r)) \in Nat /\ Cardinality(Taken(e)) \in Nat
    BY <2>1, <2>2, FS_Subset, FS_CardinalityType
  <2>4. Cardinality(Taken(r)) <= costs.limits.positions
    BY <2>2, <2>3
  <2> QED BY <1>2, <2>3, <2>4 DEF EngineOK, SlotsKept
<1> QED
  BY <1>3, <1>4, <1>5 DEF EngineOK

\* An order that is filled is paid from the cash there is, and keeps its slot.
LEMMA FillEntryKeeps ==
  ASSUME NEW e, NEW tested, NEW costs, IsSetup(costs), EngineOK(e, tested, costs),
         NEW s, NEW session, SessionOK(session, tested)
  PROVE  EngineOK(FillEntry(e, s, session, costs), tested, costs)
<1> DEFINE due    == Due(e, s, session.date)
           entry  == CHOOSE p \in due : TRUE
           bar    == session.bar[s]
           fill   == BuyFill(bar.open, costs)
           fee    == costs.marketFee
           shares == Min({entry.shares, Affordable(e.cash, fill, fee)})
           freed  == [e EXCEPT !.pending = @ \ due]
           pos    == [ shares |-> shares, entry |-> fill, initial |-> entry.stop,
                       stop |-> entry.stop, high |-> entry.close,
                       fee |-> fee, last |-> bar.close, since |-> session.date ]
           open   == [other \in DOMAIN e.open \cup {s} |-> IF other # s THEN e.open[other]
                                                           ELSE pos]
           paid   == shares * fill + fee
           lapses == \/ due = {} \/ s \in DOMAIN e.open \/ s \notin session.traded
                     \/ fill <= entry.stop
                     \/ shares <= 0
           r      == FillEntry(e, s, session, costs)
<1>1. due \in SUBSET e.pending
  BY DEF Due
<1>2. EngineOK(freed, tested, costs)
  <2> HIDE DEF due, freed
  <2>1. freed = [e EXCEPT !.pending = @ \ due]
    BY DEF freed
  <2> QED BY <1>1, <2>1, FreeingKeeps
<1>3. r = IF lapses THEN freed
          ELSE [freed EXCEPT !.cash = @ - paid,
                             !.open = [other \in DOMAIN @ \cup {s} |->
                                         IF other # s THEN @[other] ELSE pos]]
  BY Zenon DEF FillEntry
<1>4. CASE lapses
  BY <1>2, <1>3, <1>4, Zenon
<1>5. CASE ~lapses
  <2>1. IsEngine(e) /\ e.open \in [DOMAIN e.open -> Position]
        /\ e.cash \in Int /\ e.realized \in Int /\ e.pending \subseteq Entry
    BY DEF EngineOK, EngineTyped
  <2>2. /\ freed.cash = e.cash /\ freed.open = e.open
        /\ r.cash = freed.cash - paid
        /\ r.open = [other \in DOMAIN freed.open \cup {s} |->
                       IF other # s THEN freed.open[other] ELSE pos]
        /\ r.realized = e.realized /\ r.peak = e.peak /\ r.equity = e.equity
        /\ r.pending = e.pending \ due /\ r.trades = e.trades
        /\ IsEngine(r)
    <3>1. /\ freed.cash = e.cash /\ freed.open = e.open /\ freed.realized = e.realized
          /\ freed.peak = e.peak /\ freed.equity = e.equity /\ freed.trades = e.trades
          /\ freed.pending = e.pending \ due /\ IsEngine(freed)
      <4> HIDE DEF due
      <4> QED BY <2>1 DEF IsEngine
    <3> DEFINE cash == freed.cash - paid
               held == [other \in DOMAIN freed.open \cup {s} |->
                          IF other # s THEN freed.open[other] ELSE pos]
    <3>2. r = [freed EXCEPT !.cash = cash, !.open = held]
      BY <1>3, <1>5, Zenon
    <3> HIDE DEF freed, cash, held, r, due, lapses
    <3>3. /\ r.cash = cash /\ r.open = held /\ r.realized = freed.realized
          /\ r.peak = freed.peak /\ r.equity = freed.equity /\ r.trades = freed.trades
          /\ r.pending = freed.pending /\ IsEngine(r)
      BY <3>1, <3>2 DEF IsEngine
    <3> QED BY <3>1, <3>3 DEF cash, held
  <2>3. r.cash = e.cash - paid /\ r.open = open
    <3> HIDE DEF r, freed, paid, pos
    <3> QED BY <2>2
  <2>4. /\ due # {} /\ s \notin DOMAIN e.open /\ s \in session.traded
        /\ ~(fill <= entry.stop) /\ ~(shares <= 0)
    BY <1>5, Zenon
  <2>5. entry \in due /\ entry \in e.pending /\ entry.symbol = s /\ entry \in Entry
        /\ \A p \in due : p.symbol = s
    <3>1. entry \in due
      <4> HIDE DEF due
      <4> QED BY <2>4
    <3> HIDE DEF entry
    <3> QED BY <1>1, <2>1, <3>1 DEF Due
  <2> HIDE DEF entry, due
  <2>6. entry.shares \in Nat \ {0} /\ entry.stop \in Int /\ entry.close \in Nat
    BY <2>5 DEF Entry
  <2>7. bar \in Bars /\ session.date \in Nat /\ s \in tested /\ tested \subseteq Range(Tickers)
    BY <2>4 DEF SessionOK, EngineOK
  <2> HIDE DEF bar
  <2>8. bar.open \in Nat /\ bar.close \in Nat
    BY <2>7 DEF Bars, Price
  <2>9. fill \in Nat /\ fee \in Nat
    BY <2>8, FillsAreWhole DEF IsSetup
  <2> HIDE DEF fill, fee
  <2> DEFINE most == Affordable(e.cash, fill, fee)
  <2>10. /\ most \in Nat
         /\ most # 0 => e.cash > fee /\ fill > 0 /\ most = (e.cash - fee) \div fill
    <3>1. e.cash > fee /\ fill > 0 => (e.cash - fee) \div fill \in Nat
      <4> SUFFICES ASSUME e.cash > fee, fill > 0 PROVE (e.cash - fee) \div fill \in Nat
        OBVIOUS
      <4> DEFINE x == e.cash - fee
      <4>1. x \in Nat /\ fill \in Nat \ {0}
        BY <2>1, <2>9
      <4> HIDE DEF x
      <4>2. x \div fill \in Nat
        BY <4>1
      <4> QED BY <4>2 DEF x
    <3> QED BY <2>1, <2>9, <3>1 DEF Affordable
  <2> HIDE DEF most
  <2>11. shares = IF entry.shares <= most THEN entry.shares ELSE most
    <3>1. shares = Min({entry.shares, most})
      BY DEF most
    <3> DEFINE wanted == entry.shares
    <3>2. wanted \in Int /\ most \in Int
      BY <2>6, <2>10
    <3> HIDE DEF shares, wanted
    <3>3. Min({wanted, most}) = IF wanted <= most THEN wanted ELSE most
      BY <3>2, LesserOfTwo
    <3> QED BY <3>1, <3>3 DEF wanted
  <2> HIDE DEF shares
  <2>12. shares \in Nat \ {0} /\ shares <= most /\ most # 0
    BY <2>4, <2>6, <2>10, <2>11
  <2>13. shares * fill <= e.cash - fee /\ shares * fill \in Nat
    <3> DEFINE x == e.cash - fee
    <3>1. x \in Nat /\ fill \in Nat \ {0} /\ shares <= x \div fill
      BY <2>1, <2>9, <2>10, <2>12
    <3> HIDE DEF x
    <3>2. shares * fill <= x
      BY <2>12, <3>1, WholeParts
    <3>3. shares * fill \in Nat
      BY <2>9, <2>12
    <3> QED BY <3>2, <3>3 DEF x
  <2>14. paid \in Nat /\ r.cash \in Nat
    <3> DEFINE cost == shares * fill
    <3> HIDE DEF cost
    <3>1. cost \in Nat /\ cost <= e.cash - fee
      BY <2>13 DEF cost
    <3>2. paid = cost + fee
      BY DEF cost
    <3> QED BY <2>1, <2>3, <2>9, <3>1, <3>2
  <2>15. pos \in Position
    BY <2>6, <2>7, <2>8, <2>9, <2>12 DEF Position
  <2>16. /\ pos.shares = shares /\ pos.entry = fill /\ pos.fee = fee
    OBVIOUS
  <2> HIDE DEF r, pos, paid, freed, lapses
  <2>17. DOMAIN open = DOMAIN e.open \cup {s} /\ open[s] = pos
         /\ \A x \in DOMAIN e.open : open[x] = e.open[x]
    BY <2>4
  <2>18. open \in [DOMAIN open -> Position]
    BY <2>1, <2>15
  <2> HIDE DEF open
  <2>19. EngineTyped(r, tested)
    <3>1. r.pending \subseteq Entry
      BY <2>1, <2>2
    <3>2. DOMAIN r.open \subseteq tested
      BY <2>3, <2>7, <2>17 DEF EngineOK, EngineTyped
    <3> QED BY <2>2, <2>3, <2>14, <2>18, <3>1, <3>2 DEF EngineOK, EngineTyped
  <2>20. SlotsKept(r, tested, costs)
    <3>1. \A p, q \in e.pending : p.symbol = q.symbol => p = q
      BY DEF EngineOK, SlotsKept
    <3>2. \A p \in e.pending \ due : p.symbol # s
      BY <2>5, <3>1
    <3>3. \A p \in r.pending : p.symbol \in tested \ DOMAIN r.open
      BY <2>2, <2>3, <2>17, <3>2 DEF EngineOK, SlotsKept
    <3>4. s \in Waiting(e)
      BY <2>5 DEF Waiting
    <3>5. Taken(r) \subseteq Taken(e)
      BY <2>2, <2>3, <2>17, <3>4 DEF Taken, Waiting
    <3>6. IsFiniteSet(Taken(e)) /\ Cardinality(Taken(e)) <= costs.limits.positions
          /\ costs.limits.positions \in Nat
      BY DEF EngineOK, SlotsKept, IsSetup
    <3>7. IsFiniteSet(Taken(r)) /\ Cardinality(Taken(r)) <= Cardinality(Taken(e))
          /\ Cardinality(Taken(r)) \in Nat /\ Cardinality(Taken(e)) \in Nat
      BY <3>5, <3>6, FS_Subset, FS_CardinalityType
    <3>8. Cardinality(Taken(r)) <= costs.limits.positions
      BY <3>6, <3>7
    <3> QED BY <2>2, <3>1, <3>3, <3>7, <3>8 DEF SlotsKept
  <2>21. SumOf(Paid(r)) = SumOf(Paid(e)) + paid /\ SumOf(Paid(e)) \in Int
    <3> DEFINE f == Paid(e)
               h == Paid(r)
    <3>1. DOMAIN f = DOMAIN e.open /\ DOMAIN h = DOMAIN e.open \cup {s}
          /\ h[s] = paid
          /\ \A x \in DOMAIN f : h[x] = f[x]
      BY <2>3, <2>16, <2>17 DEF Paid, paid
    <3>2. \A x \in DOMAIN f : f[x] \in Int
      <4> SUFFICES ASSUME NEW x \in DOMAIN e.open
                   PROVE  e.open[x].shares * e.open[x].entry + e.open[x].fee \in Int
        BY DEF Paid
      <4>1. e.open[x].shares \in Nat /\ e.open[x].entry \in Nat /\ e.open[x].fee \in Nat
        BY <2>1 DEF Position
      <4> QED BY <4>1
    <3> HIDE DEF f, h
    <3>3. \A x \in DOMAIN h : h[x] \in Int
      BY <2>14, <3>1, <3>2
    <3>4. \A x : x # s => At0(h, x) = At0(f, x)
      BY <3>1 DEF At0
    <3>5. s \in Range(Tickers)
      BY <2>7
    <3>6. SumOf(h) = SumOf(f) - At0(f, s) + At0(h, s)
      BY <3>2, <3>3, <3>4, <3>5, SumOfChanges
    <3>7. At0(f, s) = 0 /\ At0(h, s) = paid
      BY <2>4, <3>1 DEF At0
    <3>8. SumOf(f) \in Int
      BY <3>2, SumOfWhole
    <3>9. SumOf(h) = SumOf(f) + paid
      BY <2>14, <3>6, <3>7, <3>8
    <3> QED BY <3>8, <3>9 DEF f, h
  <2>22. BooksKept(r, costs)
    <3>1. e.cash = costs.cash + e.realized - SumOf(Paid(e)) /\ costs.cash \in Nat
      BY DEF EngineOK, BooksKept, IsSetup
    <3>2. r.cash = costs.cash + r.realized - SumOf(Paid(r))
      BY <2>1, <2>2, <2>3, <2>14, <2>21, <3>1
    <3>3. ~(r.cash < 0)
      BY <2>14
    <3> QED BY <3>2, <3>3 DEF BooksKept
  <2>23. EngineOK(r, tested, costs)
    BY <2>7, <2>19, <2>20, <2>22 DEF EngineOK
  <2> QED BY <2>23 DEF r
<1> QED
  BY <1>4, <1>5

\* An order is sized, waits for a day to come, and finds a free slot.
LEMMA OrderSignalKeeps ==
  ASSUME NEW e, NEW tested, NEW costs, IsSetup(costs), EngineOK(e, tested, costs),
         NEW s, NEW session, SessionOK(session, tested)
  PROVE  EngineOK(OrderSignal(e, s, session, costs), tested, costs)
<1> DEFINE c        == session.candidate[s]
           account  == [equity |-> e.equity, drawdown |-> Drawdown(e)]
           held     == Taken(e)
           limits   == costs.limits
           risk     == costs.risk
           assessed == Assess(c, risk, account, NoContext, held, {}, limits)
           wanted   == /\ s \in session.traded \ held
                       /\ session.next[s] # NoDay
                       /\ session.signals[s]
                       /\ assessed.disposition \in Actionable
           order    == [ symbol |-> s, shares |-> assessed.sizing.shares, stop |-> c.stop,
                         close |-> c.entry, fill |-> session.next[s] ]
           r        == OrderSignal(e, s, session, costs)
<1>1. r = IF wanted THEN [e EXCEPT !.pending = @ \cup {order}] ELSE e
  BY Zenon DEF OrderSignal, OrderNext
<1>2. CASE ~wanted
  BY <1>1, <1>2, Zenon
<1>3. CASE wanted
  <2>1. IsEngine(e) /\ e.equity \in Int /\ e.pending \subseteq Entry
    BY DEF EngineOK, EngineTyped
  <2>2. /\ s \in session.traded /\ s \notin held /\ assessed.disposition \in Actionable
    BY <1>3, Zenon
  <2>3. /\ c.symbol = s /\ c.entry \in Price /\ c.stop \in Int \cup {NoValue}
        /\ session.next[s] \in Nat /\ s \in tested /\ tested \subseteq Range(Tickers)
    BY <2>2 DEF SessionOK, EngineOK
  <2>4. /\ limits.reduction \in Nat \ {0} /\ limits.positionPct \in Nat \cup {NoValue}
        /\ limits.positions \in Nat /\ risk \in Nat
    BY DEF IsSetup
  <2>5. account.equity = e.equity
    OBVIOUS
  <2> HIDE DEF account, c, held, limits, risk
  <2>6. /\ assessed.sizing.shares \in Nat \ {0} /\ c.stop \in Int
        /\ ~(Cardinality(held) >= limits.positions)
    <3>1. account.equity \in Int /\ c.symbol \notin held
      BY <2>1, <2>2, <2>3, <2>5
    <3> QED BY <2>2, <2>3, <2>4, <3>1, ActionableFits
  <2> DEFINE shares == assessed.sizing.shares
  <2>7. shares \in Nat \ {0}
    BY <2>6
  <2> HIDE DEF assessed, shares
  <2>8. order \in Entry /\ order.symbol = s
    <3>1. order = [ symbol |-> s, shares |-> shares, stop |-> c.stop, close |-> c.entry,
                    fill |-> session.next[s] ]
      BY DEF shares
    <3> HIDE DEF order
    <3> QED BY <2>3, <2>6, <2>7, <3>1 DEF Entry, Price
  <2> HIDE DEF order
  <2>9. r = [e EXCEPT !.pending = @ \cup {order}]
    BY <1>1, <1>3, Zenon
  <2> HIDE DEF r, wanted
  <2>10. /\ r.cash = e.cash /\ r.realized = e.realized /\ r.open = e.open /\ r.trades = e.trades
         /\ r.peak = e.peak /\ r.equity = e.equity /\ r.pending = e.pending \cup {order}
         /\ IsEngine(r)
    BY <2>1, <2>9 DEF IsEngine
  <2>11. EngineTyped(r, tested)
    BY <2>1, <2>8, <2>10 DEF EngineOK, EngineTyped
  <2>12. BooksKept(r, costs)
    BY <2>10 DEF EngineOK, BooksKept, Paid, Worthless
  <2>13. SlotsKept(r, tested, costs)
    <3>1. held = DOMAIN e.open \cup Waiting(e)
      BY DEF held, Taken
    <3>2. Taken(r) = held \cup {s}
      BY <2>8, <2>10, <3>1 DEF Taken, Waiting
    <3>3. IsFiniteSet(held) /\ Cardinality(held) \in Nat
      BY FS_CardinalityType DEF EngineOK, SlotsKept, held
    <3>4. IsFiniteSet(Taken(r)) /\ Cardinality(Taken(r)) = Cardinality(held) + 1
      BY <2>2, <3>2, <3>3, FS_AddElement
    <3>5. Cardinality(Taken(r)) <= limits.positions
      BY <2>4, <2>6, <3>3, <3>4
    <3>6. s \notin DOMAIN e.open /\ \A p \in e.pending : p.symbol # s
      BY <2>2, <3>1 DEF Waiting
    <3>7. \A p \in r.pending : p.symbol \in tested \ DOMAIN r.open
      BY <2>3, <2>8, <2>10, <3>6 DEF EngineOK, SlotsKept
    <3>8. \A p, q \in r.pending : p.symbol = q.symbol => p = q
      BY <2>8, <2>10, <3>6 DEF EngineOK, SlotsKept
    <3> QED BY <3>4, <3>5, <3>7, <3>8 DEF SlotsKept, limits
  <2>14. EngineOK(r, tested, costs)
    BY <2>3, <2>11, <2>12, <2>13 DEF EngineOK
  <2> QED BY <2>14 DEF r
<1> QED
  BY <1>2, <1>3

\* What a loop may be told.
Told(loop, session, tested) ==
  /\ loop \in {"gap", "entries", "intraday", "signals", "final"}
  /\ session.date \in Nat
  /\ loop # "final" => SessionOK(session, tested)

\* Whatever a loop does with a symbol, the invariant holds after it.
LEMMA TurnKeeps ==
  ASSUME NEW loop, NEW e, NEW tested, NEW costs, IsSetup(costs), EngineOK(e, tested, costs),
         NEW s, NEW session, Told(loop, session, tested)
  PROVE  EngineOK(Turn(loop, e, s, session, costs), tested, costs)
<1>1. session.date \in Nat
  BY DEF Told
<1>2. CASE loop = "gap"
  <2>1. Turn(loop, e, s, session, costs) = GapExit(e, s, session, costs)
    BY <1>2 DEF Turn
  <2>2. SessionOK(session, tested)
    BY <1>2 DEF Told
  <2> QED BY <1>1, <2>1, <2>2, ExitsKeep
<1>3. CASE loop = "entries"
  <2>1. Turn(loop, e, s, session, costs) = FillEntry(e, s, session, costs)
    BY <1>3 DEF Turn
  <2>2. SessionOK(session, tested)
    BY <1>3 DEF Told
  <2> QED BY <2>1, <2>2, FillEntryKeeps
<1>4. CASE loop = "intraday"
  <2>1. Turn(loop, e, s, session, costs) = IntradayExit(e, s, session, costs)
    BY <1>4 DEF Turn
  <2>2. SessionOK(session, tested)
    BY <1>4 DEF Told
  <2> QED BY <1>1, <2>1, <2>2, ExitsKeep
<1>5. CASE loop = "signals"
  <2>1. Turn(loop, e, s, session, costs) = OrderSignal(e, s, session, costs)
    BY <1>5 DEF Turn
  <2>2. SessionOK(session, tested)
    BY <1>5 DEF Told
  <2> QED BY <2>1, <2>2, OrderSignalKeeps
<1>6. CASE loop = "final"
  <2>1. Turn(loop, e, s, session, costs) = FinalExit(e, s, session, costs)
    BY <1>6 DEF Turn
  <2> QED BY <1>1, <2>1, ExitsKeep
<1> QED
  BY <1>2, <1>3, <1>4, <1>5, <1>6 DEF Told

\* A loop over the symbols keeps what each turn of it keeps.
LEMMA EachKeeps ==
  ASSUME NEW loop, NEW e, NEW tested, NEW costs, IsSetup(costs), EngineOK(e, tested, costs),
         NEW session, Told(loop, session, tested)
  PROVE  EngineOK(Each(loop, e, session, costs), tested, costs)
<1>1. PICK after :
        /\ after[0] = e
        /\ \A n \in 1 .. Len(Tickers) :
             after[n] = Turn(loop, after[n - 1], Tickers[n], session, costs)
        /\ Each(loop, e, session, costs) = after[Len(Tickers)]
  BY EachRuns
<1> DEFINE last == Len(Tickers)
           Broken == {k \in 0 .. last : ~EngineOK(after[k], tested, costs)}
<1>2. last \in Nat
  BY TickersAssumption
<1>3. Broken = {}
  <2> SUFFICES ASSUME Broken # {} PROVE FALSE
    OBVIOUS
  <2>1. PICK k \in Broken : \A j \in Broken : k <= j
    <3>1. Broken \in SUBSET Nat
      BY <1>2
    <3> HIDE DEF Broken
    <3> QED BY <3>1, LeastNumber
  <2>2. k # 0
    BY <1>1
  <2>3. k - 1 \in 0 .. last /\ k - 1 \notin Broken
    BY <1>2, <2>1, <2>2
  <2> DEFINE a == after[k - 1]
             s == Tickers[k]
  <2>4. after[k] = Turn(loop, a, s, session, costs)
    BY <1>1, <1>2, <2>2
  <2>5. EngineOK(a, tested, costs)
    BY <2>3
  <2> HIDE DEF a, s
  <2>6. EngineOK(Turn(loop, a, s, session, costs), tested, costs)
    BY <2>5, TurnKeeps
  <2> QED BY <2>4, <2>6
<1> QED
  BY <1>1, <1>2, <1>3

\* What is held may be valued anew: nothing is bought, sold or ordered by that.
LEMMA RevaluingKeeps ==
  ASSUME NEW e, NEW tested, NEW costs, EngineOK(e, tested, costs),
         NEW r, IsEngine(r),
         r.cash = e.cash, r.realized = e.realized, r.trades = e.trades,
         r.pending = e.pending, r.peak \in Nat \ {0}, r.equity \in Int,
         r.open \in [DOMAIN e.open -> Position],
         \A s \in DOMAIN e.open : /\ r.open[s].shares = e.open[s].shares
                                  /\ r.open[s].entry = e.open[s].entry
                                  /\ r.open[s].fee = e.open[s].fee
  PROVE  EngineOK(r, tested, costs)
<1>1. DOMAIN r.open = DOMAIN e.open
  OBVIOUS
<1>2. EngineTyped(r, tested)
  BY <1>1 DEF EngineOK, EngineTyped
<1>3. Paid(r) = Paid(e)
  BY <1>1 DEF Paid
<1>4. BooksKept(r, costs)
  BY <1>3 DEF EngineOK, BooksKept, Worthless
<1>5. SlotsKept(r, tested, costs)
  BY <1>1 DEF EngineOK, SlotsKept, Taken, Waiting
<1> QED
  BY <1>2, <1>4, <1>5 DEF EngineOK

\* The marks of the day value positions at their closes.
LEMMA MarkKeeps ==
  ASSUME NEW e, NEW tested, NEW costs, EngineOK(e, tested, costs),
         NEW session, SessionOK(session, tested)
  PROVE  /\ EngineOK(Mark(e, session), tested, costs)
         /\ DOMAIN Mark(e, session).open = DOMAIN e.open
         /\ Mark(e, session).trades = e.trades
         /\ \A s \in DOMAIN e.open :
              /\ Mark(e, session).open[s].initial = e.open[s].initial
              /\ Mark(e, session).open[s].since = e.open[s].since
<1> DEFINE open   == [s \in DOMAIN e.open |->
                        IF s \in session.traded
                        THEN [e.open[s] EXCEPT !.last = session.bar[s].close]
                        ELSE e.open[s]]
           marked == [e EXCEPT !.open = [s \in DOMAIN @ |->
                        IF s \in session.traded
                        THEN [@[s] EXCEPT !.last = session.bar[s].close]
                        ELSE @[s]]]
           worth  == marked.cash + MarketValue(marked)
           valued == [marked EXCEPT !.equity = worth, !.peak = Max({@, worth})]
           row    == Row(valued, session.date)
           r      == Mark(e, session)
<1>1. r = [valued EXCEPT !.curve = Append(@, row)]
  BY Zenon DEF Mark
<1>2. marked = [e EXCEPT !.open = open]
  BY Zenon
<1>3. IsEngine(e) /\ e.open \in [DOMAIN e.open -> Position] /\ e.cash \in Int
      /\ e.peak \in Nat \ {0}
  BY DEF EngineOK, EngineTyped
<1>4. ASSUME NEW s \in DOMAIN e.open
      PROVE  /\ open[s] \in Position /\ open[s].shares = e.open[s].shares
             /\ open[s].entry = e.open[s].entry /\ open[s].fee = e.open[s].fee
             /\ open[s].initial = e.open[s].initial /\ open[s].since = e.open[s].since
  <2> DEFINE p == e.open[s]
             close == session.bar[s].close
             q == [p EXCEPT !.last = close]
  <2>1. p \in Position
    BY <1>3
  <2>2. s \in session.traded => close \in Nat
    BY DEF SessionOK, Bars, Price
  <2>3. open[s] = IF s \in session.traded THEN q ELSE p
    OBVIOUS
  <2> HIDE DEF p, close, open
  <2>4. close \in Nat => /\ q \in Position /\ q.shares = p.shares /\ q.entry = p.entry
                         /\ q.fee = p.fee /\ q.initial = p.initial /\ q.since = p.since
    BY <2>1 DEF Position
  <2> HIDE DEF q
  <2>5. /\ open[s] \in Position /\ open[s].shares = p.shares
        /\ open[s].entry = p.entry /\ open[s].fee = p.fee
        /\ open[s].initial = p.initial /\ open[s].since = p.since
    BY <2>1, <2>2, <2>3, <2>4
  <2> QED BY <2>5 DEF p
<1>5. DOMAIN open = DOMAIN e.open
  OBVIOUS
<1>6. \A s \in DOMAIN e.open :
        /\ open[s] \in Position /\ open[s].shares = e.open[s].shares
        /\ open[s].entry = e.open[s].entry /\ open[s].fee = e.open[s].fee
        /\ open[s].initial = e.open[s].initial /\ open[s].since = e.open[s].since
  BY <1>4
<1>7. open \in [DOMAIN e.open -> Position]
  <2>1. open = [s \in DOMAIN e.open |-> open[s]]
    BY <1>5
  <2> HIDE DEF open
  <2> QED BY <1>6, <2>1
<1> HIDE DEF open, marked
<1>8. /\ IsEngine(marked) /\ marked.open = open /\ marked.cash = e.cash
      /\ marked.realized = e.realized /\ marked.trades = e.trades
      /\ marked.pending = e.pending /\ marked.peak = e.peak
  BY <1>2, <1>3 DEF IsEngine
<1>9. worth \in Int
  <2> DEFINE f == [s \in DOMAIN marked.open |-> marked.open[s].shares * marked.open[s].last]
  <2>1. \A s \in DOMAIN f : f[s] \in Int
    <3> SUFFICES ASSUME NEW s \in DOMAIN open
                 PROVE  open[s].shares * open[s].last \in Int
      BY <1>8
    <3>1. open[s].shares \in Nat /\ open[s].last \in Nat
      BY <1>5, <1>6 DEF Position
    <3> QED BY <3>1
  <2>2. MarketValue(marked) = SumOf(f)
    BY DEF MarketValue
  <2> HIDE DEF f
  <2>3. SumOf(f) \in Int
    BY <2>1, SumOfWhole
  <2> QED BY <1>3, <1>8, <2>2, <2>3
<1> DEFINE peak == Max({marked.peak, worth})
<1>10. valued = [marked EXCEPT !.equity = worth, !.peak = peak]
  BY Zenon
<1> HIDE DEF worth
<1>11. peak \in Nat \ {0}
  <2> DEFINE top == marked.peak
  <2>1. top \in Nat \ {0} /\ top \in Int
    BY <1>3, <1>8
  <2> HIDE DEF top
  <2>2. Max({top, worth}) = IF top >= worth THEN top ELSE worth
    BY <1>9, <2>1, GreaterOfTwo
  <2>3. Max({top, worth}) \in Nat \ {0}
    BY <1>9, <2>1, <2>2
  <2> QED BY <2>3 DEF top
<1> HIDE DEF peak, valued, row, r
<1>12. /\ IsEngine(valued) /\ valued.open = open /\ valued.cash = e.cash
       /\ valued.realized = e.realized /\ valued.trades = e.trades
       /\ valued.pending = e.pending /\ valued.peak = peak /\ valued.equity = worth
  BY <1>8, <1>10 DEF IsEngine
<1>13. /\ IsEngine(r) /\ r.open = open /\ r.cash = e.cash
       /\ r.realized = e.realized /\ r.trades = e.trades
       /\ r.pending = e.pending /\ r.peak = peak /\ r.equity = worth
  BY <1>1, <1>12 DEF IsEngine
<1>14. \A s \in DOMAIN e.open :
         /\ r.open[s].shares = e.open[s].shares /\ r.open[s].entry = e.open[s].entry
         /\ r.open[s].fee = e.open[s].fee
  BY <1>6, <1>13
<1>15. EngineOK(r, tested, costs)
  <2>1. r.peak \in Nat \ {0} /\ r.equity \in Int /\ r.open \in [DOMAIN e.open -> Position]
    BY <1>7, <1>9, <1>11, <1>13
  <2> QED BY <1>13, <1>14, <2>1, RevaluingKeeps
<1> QED
  BY <1>5, <1>6, <1>13, <1>15 DEF r

\* A trailed stop is still a position's, and nothing else of it changes but its
\* highest close.
LEMMA TrailIs ==
  ASSUME NEW p \in Position, NEW close \in Nat, NEW range \in Int \cup {NoValue},
         NEW settings, IsStrategy(settings)
  PROVE  /\ Trail(p, close, range, settings) \in Position
         /\ Trail(p, close, range, settings).shares = p.shares
         /\ Trail(p, close, range, settings).entry = p.entry
         /\ Trail(p, close, range, settings).fee = p.fee
         /\ Trail(p, close, range, settings).initial = p.initial
         /\ Trail(p, close, range, settings).since = p.since
<1> DEFINE high  == Max({p.high, close})
           lower == Below(high, range, settings.trailingAtr)
           stop  == IF Known(range) THEN Max({p.stop, lower}) ELSE p.stop
           r     == Trail(p, close, range, settings)
<1>1. r = [p EXCEPT !.high = high, !.stop = stop]
  BY Zenon DEF Trail
<1>2. high \in Nat
  <2> DEFINE x == p.high
  <2>1. x \in Nat
    BY DEF Position
  <2> HIDE DEF x
  <2>2. Max({x, close}) \in Nat
    BY <2>1, GreaterOfTwo
  <2> QED BY <2>2 DEF x
<1> HIDE DEF high
<1>3. Known(range) => lower \in Int
  BY <1>2 DEF Known, Below, IsStrategy
<1> HIDE DEF lower
<1>4. stop \in Int
  <2> DEFINE x == p.stop
  <2>1. x \in Int
    BY DEF Position
  <2> HIDE DEF x
  <2>2. Known(range) => Max({x, lower}) \in Int
    BY <1>3, <2>1, GreaterOfTwo
  <2> QED BY <2>1, <2>2 DEF x
<1> HIDE DEF stop, r
<1>5. /\ r \in Position /\ r.shares = p.shares /\ r.entry = p.entry /\ r.fee = p.fee
      /\ r.initial = p.initial /\ r.since = p.since
  BY <1>1, <1>2, <1>4 DEF Position
<1> QED
  BY <1>5 DEF r

\* The raised stops change nothing else.
LEMMA UpdateStopsKeeps ==
  ASSUME NEW e, NEW tested, NEW costs, IsSetup(costs), EngineOK(e, tested, costs),
         NEW session, SessionOK(session, tested)
  PROVE  /\ EngineOK(UpdateStops(e, session, costs), tested, costs)
         /\ DOMAIN UpdateStops(e, session, costs).open = DOMAIN e.open
         /\ UpdateStops(e, session, costs).trades = e.trades
         /\ \A s \in DOMAIN e.open :
              /\ UpdateStops(e, session, costs).open[s].initial = e.open[s].initial
              /\ UpdateStops(e, session, costs).open[s].since = e.open[s].since
<1> DEFINE settings == costs.strategy
           open == [s \in DOMAIN e.open |->
                      IF s \in session.traded
                      THEN Trail(e.open[s], session.bar[s].close, session.range[s], settings)
                      ELSE e.open[s]]
           r    == UpdateStops(e, session, costs)
<1>1. r = [e EXCEPT !.open = open]
  BY Zenon DEF UpdateStops
<1>2. IsEngine(e) /\ e.open \in [DOMAIN e.open -> Position]
      /\ e.peak \in Nat \ {0} /\ e.equity \in Int
  BY DEF EngineOK, EngineTyped
<1>3. ASSUME NEW s \in DOMAIN e.open
      PROVE  /\ open[s] \in Position /\ open[s].shares = e.open[s].shares
             /\ open[s].entry = e.open[s].entry /\ open[s].fee = e.open[s].fee
             /\ open[s].initial = e.open[s].initial /\ open[s].since = e.open[s].since
  <2> DEFINE p == e.open[s]
             close == session.bar[s].close
             range == session.range[s]
             q == Trail(p, close, range, settings)
  <2>1. p \in Position
    BY <1>2
  <2>2. s \in session.traded => close \in Nat /\ range \in Int \cup {NoValue}
    BY DEF SessionOK, Bars, Price
  <2>3. open[s] = IF s \in session.traded THEN q ELSE p
    OBVIOUS
  <2>4. IsStrategy(settings)
    BY DEF IsSetup
  <2> HIDE DEF p, close, range, open, settings
  <2>5. s \in session.traded =>
          /\ q \in Position /\ q.shares = p.shares /\ q.entry = p.entry
          /\ q.fee = p.fee /\ q.initial = p.initial /\ q.since = p.since
    BY <2>1, <2>2, <2>4, TrailIs
  <2> HIDE DEF q
  <2>6. /\ open[s] \in Position /\ open[s].shares = p.shares
        /\ open[s].entry = p.entry /\ open[s].fee = p.fee
        /\ open[s].initial = p.initial /\ open[s].since = p.since
    BY <2>1, <2>3, <2>5
  <2> QED BY <2>6 DEF p
<1>4. DOMAIN open = DOMAIN e.open
  OBVIOUS
<1>5. \A s \in DOMAIN e.open :
        /\ open[s] \in Position /\ open[s].shares = e.open[s].shares
        /\ open[s].entry = e.open[s].entry /\ open[s].fee = e.open[s].fee
        /\ open[s].initial = e.open[s].initial /\ open[s].since = e.open[s].since
  BY <1>3
<1>6. open \in [DOMAIN e.open -> Position]
  <2>1. open = [s \in DOMAIN e.open |-> open[s]]
    BY <1>4
  <2> HIDE DEF open
  <2> QED BY <1>5, <2>1
<1> HIDE DEF open, r
<1>7. /\ IsEngine(r) /\ r.open = open /\ r.cash = e.cash
      /\ r.realized = e.realized /\ r.trades = e.trades
      /\ r.pending = e.pending /\ r.peak = e.peak /\ r.equity = e.equity
  BY <1>1, <1>2 DEF IsEngine
<1>8. \A s \in DOMAIN e.open :
        /\ r.open[s].shares = e.open[s].shares /\ r.open[s].entry = e.open[s].entry
        /\ r.open[s].fee = e.open[s].fee
  BY <1>5, <1>7
<1>9. EngineOK(r, tested, costs)
  <2>1. r.peak \in Nat \ {0} /\ r.equity \in Int /\ r.open \in [DOMAIN e.open -> Position]
    BY <1>2, <1>6, <1>7
  <2> QED BY <1>7, <1>8, <2>1, RevaluingKeeps
<1> QED
  BY <1>4, <1>5, <1>7, <1>9 DEF r

\* A day of the engine keeps the invariant.
LEMMA WorkKeeps ==
  ASSUME NEW e, NEW tested, NEW costs, IsSetup(costs), EngineOK(e, tested, costs),
         NEW session, SessionOK(session, tested)
  PROVE  EngineOK(Work(e, session, costs), tested, costs)
<1> DEFINE opened  == Each("gap", e, session, costs)
           filled  == Each("entries", opened, session, costs)
           stopped == Each("intraday", filled, session, costs)
           marked  == Mark(stopped, session)
           ordered == Each("signals", marked, session, costs)
<1>1. Work(e, session, costs) = UpdateStops(ordered, session, costs)
  BY DEF Work, AtClose, TradeBars
<1>2. \A loop \in {"gap", "entries", "intraday", "signals"} : Told(loop, session, tested)
  BY DEF Told, SessionOK
<1>3. EngineOK(opened, tested, costs)
  BY <1>2, EachKeeps
<1> HIDE DEF opened
<1>4. EngineOK(filled, tested, costs)
  BY <1>2, <1>3, EachKeeps
<1> HIDE DEF filled
<1>5. EngineOK(stopped, tested, costs)
  BY <1>2, <1>4, EachKeeps
<1> HIDE DEF stopped
<1>6. EngineOK(marked, tested, costs)
  BY <1>5, MarkKeeps
<1> HIDE DEF marked
<1>7. EngineOK(ordered, tested, costs)
  BY <1>2, <1>6, EachKeeps
<1> HIDE DEF ordered
<1>8. EngineOK(UpdateStops(ordered, session, costs), tested, costs)
  BY <1>7, UpdateStopsKeeps
<1> QED
  BY <1>1, <1>8

\* So does the sale of what is left at the end.
LEMMA FinishKeeps ==
  ASSUME NEW e, NEW tested, NEW costs, IsSetup(costs), EngineOK(e, tested, costs),
         NEW last \in Nat
  PROVE  EngineOK(Finish(e, last, costs), tested, costs)
<1> DEFINE session == [date |-> last]
           sold    == Each("final", e, session, costs)
           peak    == Max({sold.peak, sold.cash})
           final   == [sold EXCEPT !.equity = sold.cash, !.peak = peak]
           row     == Row(final, last)
           r       == CloseAll(e, last, costs)
<1>1. r = [final EXCEPT !.curve = Append(Front(@), row)]
  BY Zenon DEF CloseAll, Valued, Rewritten
<1>2. Told("final", session, tested)
  BY DEF Told
<1> HIDE DEF session
<1>3. EngineOK(sold, tested, costs)
  BY <1>2, EachKeeps
<1> HIDE DEF sold
<1>4. /\ IsEngine(sold) /\ sold.open \in [DOMAIN sold.open -> Position]
      /\ sold.peak \in Nat \ {0} /\ sold.cash \in Int
  BY <1>3 DEF EngineOK, EngineTyped
<1>5. peak \in Nat \ {0}
  <2> DEFINE top == sold.peak
             cash == sold.cash
  <2>1. top \in Nat \ {0} /\ top \in Int /\ cash \in Int
    BY <1>4
  <2> HIDE DEF top, cash
  <2>2. Max({top, cash}) = IF top >= cash THEN top ELSE cash
    BY <2>1, GreaterOfTwo
  <2>3. Max({top, cash}) \in Nat \ {0}
    BY <2>1, <2>2
  <2> QED BY <2>3 DEF top, cash
<1> HIDE DEF peak
<1>6. /\ IsEngine(final) /\ final.open = sold.open /\ final.cash = sold.cash
      /\ final.realized = sold.realized /\ final.trades = sold.trades
      /\ final.pending = sold.pending /\ final.peak = peak /\ final.equity = sold.cash
  BY <1>4 DEF IsEngine
<1> HIDE DEF final, row, r
<1>7. /\ IsEngine(r) /\ r.open = sold.open /\ r.cash = sold.cash
      /\ r.realized = sold.realized /\ r.trades = sold.trades
      /\ r.pending = sold.pending /\ r.peak = peak /\ r.equity = sold.cash
  BY <1>1, <1>6 DEF IsEngine
<1>8. EngineOK(r, tested, costs)
  <2>1. r.peak \in Nat \ {0} /\ r.equity \in Int /\ r.open \in [DOMAIN sold.open -> Position]
    BY <1>4, <1>5, <1>7
  <2>2. \A s \in DOMAIN sold.open :
          /\ r.open[s].shares = sold.open[s].shares /\ r.open[s].entry = sold.open[s].entry
          /\ r.open[s].fee = sold.open[s].fee
    BY <1>7
  <2> QED BY <1>3, <1>7, <2>1, <2>2, RevaluingKeeps
<1> QED
  BY <1>8 DEF Finish, r

-----------------------------------------------------------------------------
\* The inductive invariant of runs.
EngineInv ==
  /\ DaysInv /\ Calendar(data) # {}
  /\ EngineOK(engine, Tested(data), setup)

\* An engine that has done nothing keeps its books.
LEMMA NewEngineOK ==
  ASSUME NEW costs, IsSetup(costs), NEW tested, tested \subseteq Range(Tickers)
  PROVE  EngineOK(NewEngine(costs), tested, costs)
<1> DEFINE e == NewEngine(costs)
<1>1. /\ IsEngine(e) /\ e.cash = costs.cash /\ e.realized = 0 /\ e.peak = costs.cash
      /\ e.equity = costs.cash /\ e.open = NoPositions /\ e.pending = {}
      /\ e.trades = << >>
  BY DEF NewEngine, IsEngine, NoTrades
<1>2. DOMAIN NoPositions = {}
  BY DEF NoPositions
<1> HIDE DEF e
<1>3. costs.cash \in Nat \ {0} /\ costs.limits.positions \in Nat
  BY DEF IsSetup
<1>4. EngineTyped(e, tested)
  <2>1. e.open \in [DOMAIN e.open -> Position]
    BY <1>1 DEF NoPositions
  <2>2. e.trades \in Seq(Trade)
    BY <1>1
  <2> QED BY <1>1, <1>2, <1>3, <2>1, <2>2 DEF EngineTyped
<1>5. SlotsKept(e, tested, costs)
  <2>1. Taken(e) = {}
    BY <1>1, <1>2 DEF Taken, Waiting
  <2>2. IsFiniteSet({}) /\ Cardinality({}) = 0
    BY FS_EmptySet
  <2> QED BY <1>1, <1>3, <2>1, <2>2 DEF SlotsKept
<1>6. BooksKept(e, costs)
  <2> DEFINE f == Paid(e)
             g == [n \in {i \in DOMAIN Tickers : Tickers[i] \in DOMAIN f} |-> f[Tickers[n]]]
             last == Len(Tickers)
  <2>1. DOMAIN f = {}
    BY <1>1, <1>2 DEF Paid
  <2>2. DOMAIN g = {}
    BY <2>1
  <2>3. last \in Nat
    BY TickersAssumption
  <2> HIDE DEF g, last
  <2>4. SumUpTo(g, last) = 0
    <3>1. PICK a : /\ a[0] = 0
                   /\ \A n \in 1 .. last : a[n] = a[n - 1] + At0(g, n)
                   /\ SumUpTo(g, last) = a[last]
      BY <2>3, SumRuns
    <3>2. \A n : At0(g, n) = 0
      BY <2>2 DEF At0
    <3> DEFINE Broken == {k \in 0 .. last : a[k] # 0}
    <3>3. Broken = {}
      <4> SUFFICES ASSUME Broken # {} PROVE FALSE
        OBVIOUS
      <4>1. PICK k \in Broken : \A j \in Broken : k <= j
        <5>1. Broken \in SUBSET Nat
          BY <2>3
        <5> HIDE DEF Broken
        <5> QED BY <5>1, LeastNumber
      <4>2. k # 0
        BY <3>1
      <4>3. k - 1 \in 0 .. last /\ k - 1 \notin Broken
        BY <2>3, <4>1, <4>2
      <4>4. a[k] = a[k - 1] + 0
        BY <2>3, <3>1, <3>2, <4>2
      <4> QED BY <4>3, <4>4
    <3> QED BY <2>3, <3>1, <3>3
  <2>5. SumOf(f) = SumUpTo(g, last)
    BY DEF SumOf, g, last
  <2> QED BY <1>1, <1>3, <2>4, <2>5 DEF BooksKept
<1> QED
  BY <1>4, <1>5, <1>6 DEF EngineOK, e

\* The invariant holds at first,
LEMMA EngineInitHolds == BacktestInit => EngineInv
<1> SUFFICES ASSUME BacktestInit PROVE EngineInv
  OBVIOUS
<1>1. DaysInv
  BY DaysInitHolds
<1>2. engine = NewEngine(setup) /\ IsSetup(setup) /\ IsMarket(data) /\ Calendar(data) # {}
  BY <1>1, SetupsAssumption, MarketsAssumption DEF BacktestInit, DaysInv
<1> DEFINE tested == Tested(data)
<1>3. tested \subseteq Range(Tickers)
  BY <1>2 DEF IsMarket, Tested
<1> HIDE DEF tested
<1>4. EngineOK(NewEngine(setup), tested, setup)
  BY <1>2, <1>3, NewEngineOK
<1> QED
  BY <1>1, <1>2, <1>4 DEF EngineInv, tested

\* and through every day.
LEMMA EngineStepHolds == EngineInv /\ [BacktestNext]_backtestVars => EngineInv'
<1> SUFFICES ASSUME EngineInv, [BacktestNext]_backtestVars PROVE EngineInv'
  OBVIOUS
<1>1. DaysInv' /\ Calendar(data') # {}
  BY DaysStepHolds DEF EngineInv, BacktestNext, TradeDay, CloseOut, backtestVars
<1>2. /\ data \in Markets /\ setup \in Setups /\ IsSetup(setup) /\ IsMarket(data)
      /\ today \in Calendar(data) \cup {NoDay}
      /\ EngineOK(engine, Tested(data), setup)
  BY SetupsAssumption, MarketsAssumption DEF EngineInv, DaysInv
<1> DEFINE tested == Tested(data)
           m == data
           c == setup
           d == today
           st == setup.strategy
           e == engine
           last == Max(Calendar(data))
<1>3. CASE TradeDay
  <2>1. engine' = Day(engine, data, today, setup) /\ UNCHANGED <<data, setup>>
    BY <1>3 DEF TradeDay
  <2>2. d \in Nat
    BY <1>2, CalendarDays DEF NoDay
  <2>3. IsStrategy(st)
    BY <1>2 DEF IsSetup
  <2> DEFINE session == Session(m, d, st)
  <2>4. SessionOK(session, tested)
    <3>1. IsMarket(m)
      BY <1>2
    <3> HIDE DEF m, d, st, session
    <3>2. SessionOK(session, Tested(m))
      BY <2>2, <2>3, <3>1, SessionIsOK DEF session
    <3> QED BY <3>2 DEF m
  <2>5. IsSetup(c) /\ EngineOK(e, tested, c)
    BY <1>2
  <2>6. engine' = Work(e, session, c)
    BY <2>1 DEF Day
  <2> HIDE DEF m, d, st, e, c, tested, session
  <2>7. EngineOK(Work(e, session, c), tested, c)
    BY <2>4, <2>5, WorkKeeps
  <2>8. EngineOK(engine', tested, c)
    BY <2>6, <2>7
  <2>9. EngineOK(engine', Tested(data'), setup')
    BY <2>1, <2>8 DEF tested, c
  <2> QED BY <1>1, <2>9 DEF EngineInv
<1>4. CASE CloseOut
  <2>1. engine' = Finish(engine, last, setup) /\ UNCHANGED <<data, setup>>
    BY <1>4 DEF CloseOut
  <2>2. last \in Nat
    <3> DEFINE days == Calendar(m)
    <3>1. days \in SUBSET Nat /\ IsMarket(m)
      BY <1>2, CalendarDays
    <3>2. \A x \in days : x <= m.to
      BY OnCalendar
    <3>3. m.to \in Nat
      BY <1>2 DEF IsMarket
    <3>4. days # {}
      BY <1>2 DEF EngineInv
    <3> HIDE DEF days, m
    <3>5. Max(days) \in days
      BY <3>1, <3>2, <3>3, <3>4, MaxOfDays
    <3> QED BY <3>1, <3>5 DEF days, m
  <2>3. IsSetup(c) /\ EngineOK(e, tested, c)
    BY <1>2
  <2>4. engine' = Finish(e, last, c)
    BY <2>1
  <2> HIDE DEF e, c, tested, last
  <2>5. EngineOK(Finish(e, last, c), tested, c)
    BY <2>2, <2>3, FinishKeeps
  <2>6. EngineOK(engine', tested, c)
    BY <2>4, <2>5
  <2>7. EngineOK(engine', Tested(data'), setup')
    BY <2>1, <2>6 DEF tested, c
  <2> QED BY <1>1, <2>7 DEF EngineInv
<1>5. CASE UNCHANGED backtestVars
  <2>1. EngineOK(engine', Tested(data'), setup')
    BY <1>2, <1>5 DEF backtestVars
  <2> QED BY <1>1, <2>1 DEF EngineInv
<1> QED
  BY <1>3, <1>4, <1>5 DEF BacktestNext

\* So it holds in every run.
THEOREM EngineInvariant == BacktestSpec => []EngineInv
BY EngineInitHolds, EngineStepHolds, PTL DEF BacktestSpec

\* The engine holds whole shares and cents of symbols that are tested, on a day
\* of the calendar.
THEOREM BacktestTyped == BacktestSpec => []BacktestTypeOK
<1>1. EngineInv => BacktestTypeOK
  BY DEF EngineInv, DaysInv, EngineOK, EngineTyped, BacktestTypeOK
<1> QED
  BY <1>1, EngineInvariant, PTL

\* The cash of a run reconciles with its trades and positions every day, and is
\* never overdrawn but by a sale that does not bring its own commission
\* (_close_position and the entries of engine.py).
THEOREM CashAddsUp == BacktestSpec => []CashReconciles
<1>1. EngineInv => CashReconciles
  BY DEF EngineInv, EngineOK, BooksKept, Paid, Worthless, CashReconciles
<1> QED
  BY <1>1, EngineInvariant, PTL

\* What is held and what waits never exceed the limit on positions, and no symbol
\* is ordered twice or while it is held (_positions_snapshot).
THEOREM SlotsSuffice == BacktestSpec => []SlotsRespected
<1>1. ASSUME EngineInv PROVE SlotsRespected
  <2> DEFINE pending == engine.pending
             waiting == Waiting(engine)
             f == [p \in pending |-> p.symbol]
  <2>1. /\ \A p \in pending : p.symbol \notin DOMAIN engine.open
        /\ \A p, q \in pending : p.symbol = q.symbol => p = q
        /\ IsFiniteSet(Taken(engine)) /\ Cardinality(Taken(engine)) <= setup.limits.positions
    BY <1>1 DEF EngineInv, EngineOK, SlotsKept
  <2>2. waiting = {p.symbol : p \in pending} /\ waiting \subseteq Taken(engine)
    BY DEF Waiting, Taken
  <2>3. IsFiniteSet(waiting)
    BY <2>1, <2>2, FS_Subset
  <2>4. f \in Bijection(pending, waiting)
    <3> HIDE DEF pending
    <3>1. f \in [pending -> waiting]
      BY <2>2
    <3>2. \A p, q \in pending : f[p] = f[q] => p = q
      BY <2>1
    <3>3. \A t \in waiting : \E p \in pending : f[p] = t
      BY <2>2
    <3> HIDE DEF f, waiting
    <3> QED BY <3>1, <3>2, <3>3 DEF Bijection, Injection, Surjection, IsInjective
  <2> HIDE DEF f, pending, waiting
  <2>5. ExistsBijection(waiting, pending)
    BY <2>4, Fun_ExistsBijSymmetric DEF ExistsBijection
  <2>6. Cardinality(waiting) = Cardinality(pending)
    BY <2>3, <2>5, FS_Bijection
  <2>7. Waiting(engine) \cap DOMAIN engine.open = {}
    BY <2>1 DEF Waiting, pending
  <2>8. Waiting(engine) \cup DOMAIN engine.open = Taken(engine)
    BY DEF Taken
  <2> QED BY <2>1, <2>6, <2>7, <2>8 DEF SlotsRespected, pending, waiting
<1> QED
  BY <1>1, EngineInvariant, PTL

-----------------------------------------------------------------------------
(* The stops of a day                                                      *)

\* What is sold at a lower price brings no more.
LEMMA SellingLower ==
  ASSUME NEW costs, IsSetup(costs), costs.bps <= 10000,
         NEW x \in Int, NEW y \in Int, x <= y
  PROVE  SellFill(x, costs) <= SellFill(y, costs)
<1> DEFINE less == 10000 - costs.bps
           a == x * less
           b == y * less
<1>1. less \in Nat
  BY DEF IsSetup
<1> HIDE DEF less
<1>2. a \in Int /\ b \in Int /\ a <= b
  BY <1>1
<1>3. SellFill(x, costs) = a \div 10000 /\ SellFill(y, costs) = b \div 10000
  BY DEF SellFill, less
<1> HIDE DEF a, b
<1>4. a \div 10000 <= b \div 10000
  BY <1>2
<1> QED
  BY <1>3, <1>4

\* A stopped position is off the books, and its trade tells its stop.
LEMMA StopOutIs ==
  ASSUME NEW e, NEW tested, NEW costs, EngineOK(e, tested, costs),
         NEW s \in DOMAIN e.open, NEW day, NEW price,
         NEW r, r = StopOut(e, s, day, price, costs)
  PROVE  /\ DOMAIN r.open = DOMAIN e.open \ {s}
         /\ \A x \in DOMAIN r.open : r.open[x] = e.open[x]
         /\ r.pending = e.pending
         /\ \E t : /\ r.trades = Append(e.trades, t)
                   /\ t.price = SellFill(price, costs) /\ t.stop = e.open[s].stop
<1> DEFINE p        == e.open[s]
           sold     == SellFill(price, costs)
           reason   == StopReason(p)
           fee      == costs.stopFee
           net      == NetPnl(p, sold, fee)
           t        == [symbol |-> s, since |-> p.since, day |-> day, reason |-> reason,
                        price |-> sold, stop |-> p.stop, net |-> net]
           cash     == e.cash + p.shares * sold - fee
           realized == e.realized + net
           open     == [other \in DOMAIN e.open \ {s} |-> e.open[other]]
           trades   == Append(e.trades, t)
<1>1. r = [e EXCEPT !.cash = cash, !.realized = realized, !.open = open, !.trades = trades]
  BY Zenon DEF StopOut, Close
<1>2. IsEngine(e)
  BY DEF EngineOK, EngineTyped
<1>3. t.price = sold /\ t.stop = p.stop
  OBVIOUS
<1>4. DOMAIN open = DOMAIN e.open \ {s} /\ \A x \in DOMAIN open : open[x] = e.open[x]
  OBVIOUS
<1> HIDE DEF p, sold, t, cash, realized, open
<1>5. r.open = open /\ r.pending = e.pending /\ r.trades = trades
  <2> HIDE DEF trades
  <2> QED BY <1>1, <1>2 DEF IsEngine
<1>6. r.trades = Append(e.trades, t)
  BY <1>5
<1> HIDE DEF trades
<1> QED
  BY <1>3, <1>4, <1>5, <1>6 DEF p, sold

\* A filled entry opens at its own stop.
LEMMA FillEntryIs ==
  ASSUME NEW e, NEW tested, NEW costs, EngineOK(e, tested, costs),
         NEW s, NEW session, NEW r, r = FillEntry(e, s, session, costs)
  PROVE  /\ r.trades = e.trades /\ r.pending \subseteq e.pending
         /\ \/ r.open = e.open
            \/ /\ s \in Waiting(e) /\ s \notin DOMAIN e.open
               /\ DOMAIN r.open = DOMAIN e.open \cup {s}
               /\ \A x \in DOMAIN e.open : r.open[x] = e.open[x]
               /\ r.open[s].since = session.date /\ r.open[s].initial = r.open[s].stop
<1> DEFINE due    == Due(e, s, session.date)
           entry  == CHOOSE p \in due : TRUE
           bar    == session.bar[s]
           fill   == BuyFill(bar.open, costs)
           fee    == costs.marketFee
           shares == Min({entry.shares, Affordable(e.cash, fill, fee)})
           freed  == [e EXCEPT !.pending = @ \ due]
           pos    == [ shares |-> shares, entry |-> fill, initial |-> entry.stop,
                       stop |-> entry.stop, high |-> entry.close,
                       fee |-> fee, last |-> bar.close, since |-> session.date ]
           paid   == shares * fill + fee
           lapses == \/ due = {} \/ s \in DOMAIN e.open \/ s \notin session.traded
                     \/ fill <= entry.stop
                     \/ shares <= 0
<1>1. r = IF lapses THEN freed
          ELSE [freed EXCEPT !.cash = @ - paid,
                             !.open = [other \in DOMAIN @ \cup {s} |->
                                         IF other # s THEN @[other] ELSE pos]]
  BY Zenon DEF FillEntry
<1>2. IsEngine(e)
  BY DEF EngineOK, EngineTyped
<1>3. /\ freed.open = e.open /\ freed.trades = e.trades
      /\ freed.pending = e.pending \ due /\ IsEngine(freed)
  <2> HIDE DEF due
  <2> QED BY <1>2 DEF IsEngine
<1>4. CASE lapses
  <2>1. r = freed
    BY <1>1, <1>4, Zenon
  <2> HIDE DEF freed, due, lapses
  <2> QED BY <1>3, <2>1
<1>5. CASE ~lapses
  <2> DEFINE cash == freed.cash - paid
             held == [other \in DOMAIN freed.open \cup {s} |->
                        IF other # s THEN freed.open[other] ELSE pos]
  <2>1. r = [freed EXCEPT !.cash = cash, !.open = held]
    BY <1>1, <1>5, Zenon
  <2>2. due # {} /\ s \notin DOMAIN e.open
    BY <1>5, Zenon
  <2>3. s \in Waiting(e)
    BY <2>2 DEF Due, Waiting
  <2>4. pos.since = session.date /\ pos.initial = pos.stop
    OBVIOUS
  <2> HIDE DEF freed, due, lapses, cash, pos
  <2>5. DOMAIN held = DOMAIN e.open \cup {s} /\ held[s] = pos
        /\ \A x \in DOMAIN e.open : held[x] = e.open[x]
    BY <1>3, <2>2
  <2> HIDE DEF held
  <2>6. r.open = held /\ r.trades = freed.trades /\ r.pending = freed.pending
    BY <1>3, <2>1 DEF IsEngine
  <2> QED BY <1>3, <2>2, <2>3, <2>4, <2>5, <2>6
<1> QED
  BY <1>4, <1>5

-----------------------------------------------------------------------------
\* What became of the morning's positions: they are as they were, or sold at
\* their stops or under them; what is new came in at its own stop.
Since(e0, e, session, costs) ==
  /\ e.pending \subseteq e0.pending
  /\ \A s \in DOMAIN e.open :
       \/ s \in DOMAIN e0.open /\ e.open[s] = e0.open[s]
       \/ /\ s \notin DOMAIN e0.open
          /\ e.open[s].since = session.date /\ e.open[s].initial = e.open[s].stop
  /\ Len(e0.trades) <= Len(e.trades)
  /\ \A i \in Len(e0.trades) + 1 .. Len(e.trades) :
       e.trades[i].price <= SellFill(e.trades[i].stop, costs)

\* What is left of the morning's positions opened above its stop.
OpensAbove(e0, e, session) ==
  \A s \in DOMAIN e.open \cap DOMAIN e0.open \cap session.traded :
    session.bar[s].open > e0.open[s].stop

\* How far a loop over the stops or the entries has come.
Reached(loop, n, e0, e, tested, session, costs) ==
  /\ EngineOK(e, tested, costs)
  /\ Since(e0, e, session, costs)
  /\ loop = "gap" => \A j \in 1 .. n : ~GapsThrough(e, Tickers[j], session)
  /\ loop \in {"entries", "intraday"} => OpensAbove(e0, e, session)
  /\ loop = "intraday" => \A j \in 1 .. n : ~TradesThrough(e, Tickers[j], session)

\* A position sold at its stop undoes nothing of this.
GoesOn(e0, e, r, s, session, costs) ==
  /\ Since(e0, r, session, costs)
  /\ OpensAbove(e0, e, session) => OpensAbove(e0, r, session)
  /\ \A x : GapsThrough(r, x, session) => x # s /\ GapsThrough(e, x, session)
  /\ \A x : TradesThrough(r, x, session) => x # s /\ TradesThrough(e, x, session)

\* A stop that is carried out keeps what is said of the day.
LEMMA StopOutGoesOn ==
  ASSUME NEW costs, IsSetup(costs), costs.bps <= 10000, NEW tested, NEW session,
         NEW e0, NEW e, EngineOK(e, tested, costs), Since(e0, e, session, costs),
         e0.trades \in Seq(Trade),
         NEW s \in DOMAIN e.open, NEW day, NEW price \in Int, price <= e.open[s].stop,
         NEW r, r = StopOut(e, s, day, price, costs)
  PROVE  GoesOn(e0, e, r, s, session, costs)
<1>1. /\ DOMAIN r.open = DOMAIN e.open \ {s}
      /\ \A x \in DOMAIN r.open : r.open[x] = e.open[x]
      /\ r.pending = e.pending
      /\ \E t : /\ r.trades = Append(e.trades, t)
                /\ t.price = SellFill(price, costs) /\ t.stop = e.open[s].stop
  BY StopOutIs
<1>2. PICK t : /\ r.trades = Append(e.trades, t)
               /\ t.price = SellFill(price, costs) /\ t.stop = e.open[s].stop
  BY <1>1
<1>3. t.price <= SellFill(t.stop, costs)
  <2> DEFINE stop == e.open[s].stop
  <2>1. stop \in Int /\ price <= stop
    BY DEF EngineOK, EngineTyped, Position
  <2> HIDE DEF stop
  <2>2. SellFill(price, costs) <= SellFill(stop, costs)
    BY <2>1, SellingLower
  <2> QED BY <1>2, <2>2 DEF stop
<1>4. /\ e.trades \in Seq(Trade) /\ Len(e.trades) \in Nat /\ Len(e0.trades) \in Nat
      /\ Len(e0.trades) <= Len(e.trades)
  BY DEF EngineOK, EngineTyped, Since
<1>5. /\ Len(r.trades) = Len(e.trades) + 1 /\ r.trades[Len(e.trades) + 1] = t
      /\ \A i \in 1 .. Len(e.trades) : r.trades[i] = e.trades[i]
  BY <1>2, <1>4
<1>6. \A i \in Len(e0.trades) + 1 .. Len(r.trades) :
        r.trades[i].price <= SellFill(r.trades[i].stop, costs)
  <2> TAKE i \in Len(e0.trades) + 1 .. Len(r.trades)
  <2>1. CASE i = Len(e.trades) + 1
    BY <1>3, <1>5, <2>1
  <2>2. CASE i # Len(e.trades) + 1
    <3>1. i \in Len(e0.trades) + 1 .. Len(e.trades) /\ i \in 1 .. Len(e.trades)
      BY <1>4, <1>5, <2>2
    <3> QED BY <1>5, <3>1 DEF Since
  <2> QED BY <2>1, <2>2
<1>7. Since(e0, r, session, costs)
  BY <1>1, <1>4, <1>5, <1>6 DEF Since
<1>8. OpensAbove(e0, e, session) => OpensAbove(e0, r, session)
  BY <1>1 DEF OpensAbove
<1>9. \A x : GapsThrough(r, x, session) => x # s /\ GapsThrough(e, x, session)
  BY <1>1 DEF GapsThrough
<1>10. \A x : TradesThrough(r, x, session) => x # s /\ TradesThrough(e, x, session)
  BY <1>1 DEF TradesThrough
<1> QED
  BY <1>7, <1>8, <1>9, <1>10 DEF GoesOn

\* A turn of a loop gets one symbol further.
LEMMA TurnGoesOn ==
  ASSUME NEW costs, IsSetup(costs), costs.bps <= 10000, NEW tested,
         NEW session, SessionOK(session, tested), NEW e0, EngineOK(e0, tested, costs),
         NEW loop \in {"gap", "entries", "intraday"}, NEW n \in Nat \ {0},
         NEW e, Reached(loop, n - 1, e0, e, tested, session, costs),
         NEW r, r = Turn(loop, e, Tickers[n], session, costs)
  PROVE  Reached(loop, n, e0, r, tested, session, costs)
<1> DEFINE s == Tickers[n]
           day == session.date
<1>1. EngineOK(e, tested, costs) /\ Since(e0, e, session, costs)
  BY DEF Reached
<1>2. EngineOK(r, tested, costs)
  <2>1. Told(loop, session, tested)
    BY DEF Told, SessionOK
  <2> HIDE DEF s
  <2>2. EngineOK(Turn(loop, e, s, session, costs), tested, costs)
    BY <1>1, <2>1, TurnKeeps
  <2> QED BY <2>2 DEF s
<1>3. e0.trades \in Seq(Trade) /\ e.open \in [DOMAIN e.open -> Position]
  BY <1>1 DEF EngineOK, EngineTyped
<1>4. \A j \in 1 .. n : j \in 1 .. n - 1 \/ j = n
  OBVIOUS
<1>5. CASE loop = "gap"
  <2>1. r = GapExit(e, s, session, costs)
    BY <1>5 DEF Turn
  <2>2. \A j \in 1 .. n - 1 : ~GapsThrough(e, Tickers[j], session)
    BY <1>5 DEF Reached
  <2>3. CASE ~GapsThrough(e, s, session)
    <3>1. r = e
      BY <2>1, <2>3 DEF GapExit
    <3> QED BY <1>1, <1>2, <1>4, <1>5, <2>2, <2>3, <3>1 DEF Reached
  <2>4. CASE GapsThrough(e, s, session)
    <3> DEFINE price == session.bar[s].open
    <3>1. s \in DOMAIN e.open /\ s \in session.traded /\ price <= e.open[s].stop
      BY <2>4 DEF GapsThrough
    <3>2. price \in Int
      BY <3>1 DEF SessionOK, Bars, Price
    <3>3. r = StopOut(e, s, day, price, costs)
      BY <2>1, <2>4 DEF GapExit
    <3> HIDE DEF s, day, price
    <3>4. GoesOn(e0, e, r, s, session, costs)
      BY <1>1, <1>3, <3>1, <3>2, <3>3, StopOutGoesOn
    <3>5. \A j \in 1 .. n : ~GapsThrough(r, Tickers[j], session)
      BY <1>4, <2>2, <3>4 DEF GoesOn, s
    <3> QED BY <1>2, <1>5, <3>4, <3>5 DEF GoesOn, Reached
  <2> QED BY <2>3, <2>4
<1>6. CASE loop = "intraday"
  <2>1. r = IntradayExit(e, s, session, costs)
    BY <1>6 DEF Turn
  <2>2. /\ \A j \in 1 .. n - 1 : ~TradesThrough(e, Tickers[j], session)
        /\ OpensAbove(e0, e, session)
    BY <1>6 DEF Reached
  <2>3. CASE ~TradesThrough(e, s, session)
    <3>1. r = e
      BY <2>1, <2>3 DEF IntradayExit
    <3> QED BY <1>1, <1>2, <1>4, <1>6, <2>2, <2>3, <3>1 DEF Reached
  <2>4. CASE TradesThrough(e, s, session)
    <3> DEFINE price == e.open[s].stop
    <3>1. s \in DOMAIN e.open
      BY <2>4 DEF TradesThrough
    <3>2. price \in Int /\ price <= e.open[s].stop
      BY <1>3, <3>1 DEF Position
    <3>3. r = StopOut(e, s, day, price, costs)
      BY <2>1, <2>4 DEF IntradayExit
    <3> HIDE DEF s, day, price
    <3>4. GoesOn(e0, e, r, s, session, costs)
      BY <1>1, <1>3, <3>1, <3>2, <3>3, StopOutGoesOn
    <3>5. \A j \in 1 .. n : ~TradesThrough(r, Tickers[j], session)
      BY <1>4, <2>2, <3>4 DEF GoesOn, s
    <3> QED BY <1>2, <1>6, <2>2, <3>4, <3>5 DEF GoesOn, Reached
  <2> QED BY <2>3, <2>4
<1>7. CASE loop = "entries"
  <2>1. r = FillEntry(e, s, session, costs)
    BY <1>7 DEF Turn
  <2>2. OpensAbove(e0, e, session)
    BY <1>7 DEF Reached
  <2> HIDE DEF s
  <2>3. /\ r.trades = e.trades /\ r.pending \subseteq e.pending
        /\ \/ r.open = e.open
           \/ /\ s \in Waiting(e) /\ s \notin DOMAIN e.open
              /\ DOMAIN r.open = DOMAIN e.open \cup {s}
              /\ \A x \in DOMAIN e.open : r.open[x] = e.open[x]
              /\ r.open[s].since = session.date /\ r.open[s].initial = r.open[s].stop
    BY <1>1, <2>1, FillEntryIs
  <2>4. s \in Waiting(e) => s \notin DOMAIN e0.open
    BY <1>1 DEF Since, Waiting, EngineOK, SlotsKept
  <2>5. Since(e0, r, session, costs)
    <3>1. r.pending \subseteq e0.pending
      BY <1>1, <2>3 DEF Since
    <3>2. \A x \in DOMAIN r.open :
            \/ x \in DOMAIN e0.open /\ r.open[x] = e0.open[x]
            \/ /\ x \notin DOMAIN e0.open
               /\ r.open[x].since = session.date /\ r.open[x].initial = r.open[x].stop
      BY <1>1, <2>3, <2>4 DEF Since
    <3> QED BY <1>1, <2>3, <3>1, <3>2 DEF Since
  <2>6. OpensAbove(e0, r, session)
    BY <2>2, <2>3, <2>4 DEF OpensAbove
  <2> QED BY <1>2, <1>7, <2>5, <2>6 DEF Reached
<1> QED
  BY <1>5, <1>6, <1>7

\* So a loop gets through all symbols.
LEMMA EachGoesOn ==
  ASSUME NEW costs, IsSetup(costs), costs.bps <= 10000, NEW tested,
         NEW session, SessionOK(session, tested), NEW e0, EngineOK(e0, tested, costs),
         NEW loop \in {"gap", "entries", "intraday"},
         NEW e, Reached(loop, 0, e0, e, tested, session, costs)
  PROVE  Reached(loop, Len(Tickers), e0, Each(loop, e, session, costs), tested, session, costs)
<1>1. PICK after :
        /\ after[0] = e
        /\ \A n \in 1 .. Len(Tickers) :
             after[n] = Turn(loop, after[n - 1], Tickers[n], session, costs)
        /\ Each(loop, e, session, costs) = after[Len(Tickers)]
  BY EachRuns
<1> DEFINE last == Len(Tickers)
           Broken == {k \in 0 .. last :
                        ~Reached(loop, k, e0, after[k], tested, session, costs)}
<1>2. last \in Nat
  BY TickersAssumption
<1>3. Broken = {}
  <2> SUFFICES ASSUME Broken # {} PROVE FALSE
    OBVIOUS
  <2>1. PICK k \in Broken : \A j \in Broken : k <= j
    <3>1. Broken \in SUBSET Nat
      BY <1>2
    <3> HIDE DEF Broken
    <3> QED BY <3>1, LeastNumber
  <2>2. k # 0
    BY <1>1
  <2>3. k - 1 \in 0 .. last /\ k - 1 \notin Broken
    BY <1>2, <2>1, <2>2
  <2> DEFINE a == after[k - 1]
             b == after[k]
  <2>4. b = Turn(loop, a, Tickers[k], session, costs) /\ k \in Nat \ {0}
    BY <1>1, <1>2, <2>2
  <2>5. Reached(loop, k - 1, e0, a, tested, session, costs)
    BY <2>3
  <2> HIDE DEF a, b
  <2>6. Reached(loop, k, e0, b, tested, session, costs)
    BY <2>4, <2>5, TurnGoesOn
  <2> QED BY <2>6 DEF b
<1> QED
  BY <1>1, <1>2, <1>3

\* The loop over the signals sells nothing and touches no stop.
LEMMA SignalsLeave ==
  ASSUME NEW loop, loop = "signals", NEW e, NEW tested, NEW costs, IsSetup(costs), EngineOK(e, tested, costs),
         NEW session, SessionOK(session, tested)
  PROVE  /\ Each(loop, e, session, costs).open = e.open
         /\ Each(loop, e, session, costs).trades = e.trades
<1>1. PICK after :
        /\ after[0] = e
        /\ \A n \in 1 .. Len(Tickers) :
             after[n] = Turn(loop, after[n - 1], Tickers[n], session, costs)
        /\ Each(loop, e, session, costs) = after[Len(Tickers)]
  BY EachRuns
<1> DEFINE last == Len(Tickers)
           Same(k) == IsEngine(after[k]) /\ after[k].open = e.open /\ after[k].trades = e.trades
           Broken == {k \in 0 .. last : ~Same(k)}
<1>2. last \in Nat
  BY TickersAssumption
<1>3. Broken = {}
  <2> SUFFICES ASSUME Broken # {} PROVE FALSE
    OBVIOUS
  <2>1. PICK k \in Broken : \A j \in Broken : k <= j
    <3>1. Broken \in SUBSET Nat
      BY <1>2
    <3> HIDE DEF Broken
    <3> QED BY <3>1, LeastNumber
  <2>2. k # 0
    BY <1>1 DEF EngineOK, EngineTyped
  <2>3. Same(k - 1) /\ k \in 1 .. last
    <3>1. k - 1 \in 0 .. last /\ ~(k <= k - 1) /\ k \in 1 .. last
      BY <1>2, <2>2
    <3>2. k - 1 \notin Broken
      <4> HIDE DEF Broken
      <4> QED BY <2>1, <3>1
    <3> HIDE DEF Same
    <3> QED BY <3>1, <3>2
  <2> DEFINE a == after[k - 1]
             b == after[k]
             s == Tickers[k]
  <2>4. b = OrderSignal(a, s, session, costs)
    BY <1>1, <2>3 DEF Turn
  <2>5. IsEngine(a) /\ a.open = e.open /\ a.trades = e.trades
    BY <2>3
  <2> HIDE DEF a, s
  <2>6. \E p : b = [a EXCEPT !.pending = p] \/ b = a
    BY <2>4 DEF OrderSignal, OrderNext
  <2> HIDE DEF b
  <2>7. IsEngine(b) /\ b.open = e.open /\ b.trades = e.trades
    BY <2>5, <2>6 DEF IsEngine
  <2>8. Same(k)
    BY <2>7 DEF b
  <2> HIDE DEF Same
  <2> QED BY <2>8
<1>4. Same(last)
  <2> HIDE DEF Same
  <2> QED BY <1>2, <1>3
<1> QED
  BY <1>1, <1>4

-----------------------------------------------------------------------------
\* What the day made of the positions and of the trades.
Honoured(e0, r, session, costs) ==
  /\ \A s \in DOMAIN r.open :
       s \in session.traded =>
         LET stop == IF s \in DOMAIN e0.open THEN e0.open[s].stop ELSE r.open[s].initial
         IN \/ session.bar[s].low > stop
            \/ r.open[s].since = session.date /\ session.bar[s].open <= stop
  /\ \A i \in Len(e0.trades) + 1 .. Len(r.trades) :
       r.trades[i].price <= SellFill(r.trades[i].stop, costs)

\* A day of the engine honours the stops.
LEMMA WorkHonours ==
  ASSUME NEW costs, IsSetup(costs), costs.bps <= 10000, NEW tested,
         NEW session, SessionOK(session, tested), NEW e0, EngineOK(e0, tested, costs)
  PROVE  Honoured(e0, Work(e0, session, costs), session, costs)
<1> DEFINE opened  == Each("gap", e0, session, costs)
           filled  == Each("entries", opened, session, costs)
           stopped == Each("intraday", filled, session, costs)
           marked  == Mark(stopped, session)
           ordered == Each("signals", marked, session, costs)
           r       == Work(e0, session, costs)
           last    == Len(Tickers)
<1>1. r = UpdateStops(ordered, session, costs)
  BY DEF Work, AtClose, TradeBars
<1>2. \A s \in tested : \E j \in 1 .. last : Tickers[j] = s
  BY TickersAssumption DEF EngineOK, Range
<1>3. Reached("gap", last, e0, opened, tested, session, costs)
  <2>1. Len(e0.trades) \in Nat
    BY DEF EngineOK, EngineTyped
  <2>2. Since(e0, e0, session, costs)
    BY <2>1 DEF Since
  <2>3. Reached("gap", 0, e0, e0, tested, session, costs)
    BY <2>2 DEF Reached
  <2> QED BY <2>3, EachGoesOn
<1> HIDE DEF opened
<1>4. Reached("entries", last, e0, filled, tested, session, costs)
  <2>1. OpensAbove(e0, opened, session)
    <3> SUFFICES ASSUME NEW s \in DOMAIN opened.open \cap DOMAIN e0.open \cap session.traded
                 PROVE  session.bar[s].open > e0.open[s].stop
      BY DEF OpensAbove
    <3>1. opened.open[s] = e0.open[s]
      BY <1>3 DEF Reached, Since
    <3>2. ~GapsThrough(opened, s, session)
      BY <1>2, <1>3 DEF Reached, SessionOK
    <3>3. session.bar[s].open \in Int /\ e0.open[s].stop \in Int
      BY DEF SessionOK, Bars, Price, EngineOK, EngineTyped, Position
    <3> QED BY <3>1, <3>2, <3>3 DEF GapsThrough
  <2>2. Reached("entries", 0, e0, opened, tested, session, costs)
    BY <1>3, <2>1 DEF Reached
  <2> QED BY <2>2, EachGoesOn
<1> HIDE DEF filled
<1>5. Reached("intraday", last, e0, stopped, tested, session, costs)
  <2>1. Reached("intraday", 0, e0, filled, tested, session, costs)
    BY <1>4 DEF Reached
  <2> QED BY <2>1, EachGoesOn
<1> HIDE DEF stopped
<1>6. EngineOK(stopped, tested, costs) /\ Since(e0, stopped, session, costs)
      /\ OpensAbove(e0, stopped, session)
  BY <1>5 DEF Reached
<1>7. /\ EngineOK(marked, tested, costs)
      /\ DOMAIN marked.open = DOMAIN stopped.open /\ marked.trades = stopped.trades
      /\ \A s \in DOMAIN stopped.open :
           /\ marked.open[s].initial = stopped.open[s].initial
           /\ marked.open[s].since = stopped.open[s].since
  BY <1>6, MarkKeeps
<1> HIDE DEF marked
<1>8. ordered.open = marked.open /\ ordered.trades = marked.trades
  BY <1>7, SignalsLeave
<1>9. EngineOK(ordered, tested, costs)
  <2>1. Told("signals", session, tested)
    BY DEF Told, SessionOK
  <2> QED BY <1>7, <2>1, EachKeeps
<1> HIDE DEF ordered, r
<1>10. /\ DOMAIN r.open = DOMAIN ordered.open /\ r.trades = ordered.trades
       /\ \A s \in DOMAIN ordered.open :
            /\ r.open[s].initial = ordered.open[s].initial
            /\ r.open[s].since = ordered.open[s].since
  BY <1>1, <1>9, UpdateStopsKeeps
<1>11. /\ DOMAIN r.open = DOMAIN stopped.open /\ r.trades = stopped.trades
       /\ \A s \in DOMAIN stopped.open :
            /\ r.open[s].initial = stopped.open[s].initial
            /\ r.open[s].since = stopped.open[s].since
  BY <1>7, <1>8, <1>10
<1>12. ASSUME NEW s \in DOMAIN r.open, s \in session.traded
       PROVE  LET stop == IF s \in DOMAIN e0.open THEN e0.open[s].stop ELSE r.open[s].initial
              IN \/ session.bar[s].low > stop
                 \/ r.open[s].since = session.date /\ session.bar[s].open <= stop
  <2> DEFINE bar == session.bar[s]
             stop == stopped.open[s].stop
  <2>1. s \in DOMAIN stopped.open
    BY <1>11
  <2>2. bar.open \in Int /\ bar.low \in Int /\ stop \in Int
    <3>1. bar \in Bars
      BY <1>12 DEF SessionOK
    <3>2. stopped.open[s] \in Position
      BY <1>6, <2>1 DEF EngineOK, EngineTyped
    <3>3. bar.open \in Int /\ bar.low \in Int
      <4> HIDE DEF bar
      <4> QED BY <3>1 DEF Bars, Price
    <3> QED BY <3>2, <3>3 DEF Position
  <2>3. bar.low > stop \/ bar.open <= stop
    <3>1. ~TradesThrough(stopped, s, session)
      BY <1>2, <1>5, <1>12 DEF Reached, SessionOK
    <3> QED BY <1>12, <2>1, <2>2, <3>1 DEF TradesThrough
  <2>4. CASE s \in DOMAIN e0.open
    <3>1. stopped.open[s] = e0.open[s]
      BY <1>6, <2>1, <2>4 DEF Since
    <3>2. bar.open > stop
      BY <1>6, <1>12, <2>1, <2>4, <3>1 DEF OpensAbove
    <3> QED BY <2>2, <2>3, <2>4, <3>1, <3>2
  <2>5. CASE s \notin DOMAIN e0.open
    <3>1. stopped.open[s].since = session.date /\ stopped.open[s].initial = stop
      BY <1>6, <2>1, <2>5 DEF Since
    <3>2. r.open[s].since = session.date /\ r.open[s].initial = stop
      BY <1>11, <2>1, <3>1
    <3> QED BY <2>3, <2>5, <3>2
  <2> QED BY <2>4, <2>5
<1>13. \A i \in Len(e0.trades) + 1 .. Len(r.trades) :
         r.trades[i].price <= SellFill(r.trades[i].stop, costs)
  BY <1>6, <1>11 DEF Since
<1>14. Honoured(e0, r, session, costs)
  BY <1>12, <1>13 DEF Honoured
<1> QED
  BY <1>14 DEF r

\* No position is held through a day that trades at its stop, and no stop sells
\* for more than itself (_symbols_with_gap_stop_exit and
\* _symbols_with_intraday_stop_exit).
THEOREM StopsKept == BacktestSpec => StopsHonoured
<1>1. ASSUME EngineInv, [BacktestNext]_backtestVars, today # NoDay, today' # today
      PROVE  /\ \A s \in DOMAIN engine'.open :
                  s \in Traded(data, today) =>
                    LET bar == data.tapes[s][today]
                    IN \/ bar.low > StopOfDay(s)
                       \/ engine'.open[s].since = today /\ bar.open <= StopOfDay(s)
             /\ \A i \in Len(engine.trades) + 1 .. Len(engine'.trades) :
                  engine'.trades[i].price <= SellFill(engine'.trades[i].stop, setup)
  <2> DEFINE tested == Tested(data)
             m == data
             c == setup
             d == today
             st == setup.strategy
             e == engine
             session == Session(m, d, st)
  <2>1. TradeDay
    BY <1>1 DEF BacktestNext, CloseOut, backtestVars
  <2>2. /\ data \in Markets /\ setup \in Setups /\ IsSetup(setup) /\ IsMarket(data)
        /\ today \in Calendar(data) /\ setup.bps <= 10000
        /\ EngineOK(engine, Tested(data), setup)
    BY <1>1, SetupsAssumption, MarketsAssumption, SlippageAssumption DEF EngineInv, DaysInv
  <2>3. d \in Nat
    BY <2>2, CalendarDays
  <2>4. IsStrategy(st)
    BY <2>2 DEF IsSetup
  <2>5. /\ SessionOK(session, tested)
        /\ session.date = d /\ session.traded = Traded(m, d)
        /\ \A s \in Traded(m, d) : session.bar[s] = m.tapes[s][d]
    <3>1. IsMarket(m)
      BY <2>2
    <3> HIDE DEF m, d, st
    <3>2. /\ SessionOK(session, Tested(m))
          /\ session.date = d /\ session.traded = Traded(m, d)
          /\ \A s \in Traded(m, d) : session.bar[s] = m.tapes[s][d]
      BY <2>3, <2>4, <3>1, SessionIsOK
    <3> QED BY <3>2 DEF m
  <2>6. IsSetup(c) /\ c.bps <= 10000 /\ EngineOK(e, tested, c)
    BY <2>2
  <2>7. engine' = Work(e, session, c)
    BY <2>1 DEF TradeDay, Day
  <2> DEFINE r == Work(e, session, c)
  <2>8. Honoured(e, r, session, c)
    <3> HIDE DEF e, c, tested, session
    <3> QED BY <2>5, <2>6, WorkHonours
  <2>9. \A s \in DOMAIN r.open :
          s \in session.traded =>
            LET stop == IF s \in DOMAIN e.open THEN e.open[s].stop ELSE r.open[s].initial
            IN \/ session.bar[s].low > stop
               \/ r.open[s].since = session.date /\ session.bar[s].open <= stop
    <3> HIDE DEF r, e, session, c
    <3> QED BY <2>8 DEF Honoured
  <2>10. \A i \in Len(e.trades) + 1 .. Len(r.trades) :
           r.trades[i].price <= SellFill(r.trades[i].stop, c)
    <3> HIDE DEF r, e, session, c
    <3> QED BY <2>8 DEF Honoured
  <2> HIDE DEF r, session
  <2>11. engine' = r
    BY <2>7 DEF r
  <2>12. ASSUME NEW s \in DOMAIN engine'.open, s \in Traded(data, today)
         PROVE  LET bar == data.tapes[s][today]
                IN \/ bar.low > StopOfDay(s)
                   \/ engine'.open[s].since = today /\ bar.open <= StopOfDay(s)
    <3>1. StopOfDay(s) = IF s \in DOMAIN e.open THEN e.open[s].stop ELSE r.open[s].initial
      BY <2>11 DEF StopOfDay
    <3>2. s \in session.traded /\ session.bar[s] = data.tapes[s][today] /\ session.date = today
          /\ s \in DOMAIN r.open
      BY <2>5, <2>11, <2>12
    <3> QED BY <2>9, <2>11, <3>1, <3>2
  <2> QED BY <2>10, <2>11, <2>12
<1>2. EngineInv /\ [BacktestNext]_backtestVars =>
        (today # NoDay /\ today' # today =>
           /\ \A s \in DOMAIN engine'.open :
                s \in Traded(data, today) =>
                  LET bar == data.tapes[s][today]
                  IN \/ bar.low > StopOfDay(s)
                     \/ engine'.open[s].since = today /\ bar.open <= StopOfDay(s)
           /\ \A i \in Len(engine.trades) + 1 .. Len(engine'.trades) :
                engine'.trades[i].price <= SellFill(engine'.trades[i].stop, setup))
  BY <1>1
<1> QED
  BY <1>2, EngineInvariant, PTL DEF BacktestSpec, StopsHonoured

-----------------------------------------------------------------------------
(* The folds of a sweep                                                    *)

\* Windows, and folds of two.
Period == [from : Int, to : Int]
Fold   == [train : Period, test : Period]

\* A test window follows its train window, for as long as a test lasts or the
\* market does.
FoldFits(p, fold) ==
  /\ fold.train.from >= p.market.from /\ fold.train.to < p.market.to
  /\ fold.train.to >= FirstTrain(p).to
  /\ fold.test.from = fold.train.to + 1
  /\ fold.test.to = IF fold.train.to + p.test <= p.market.to
                    THEN fold.train.to + p.test ELSE p.market.to

\* The tests of the folds so far lie one after the other and leave no gap.
FoldsLaid(p, folds) ==
  /\ folds \in Seq(Fold)
  /\ \A i \in 1 .. Len(folds) : FoldFits(p, folds[i])
  /\ \A i, j \in 1 .. Len(folds) : i < j => folds[i].test.to < folds[j].test.from
  /\ \A i \in 1 .. Len(folds) : folds[i].test.to <= folds[Len(folds)].test.to
  /\ folds # <<>> =>
       \A d \in Int :
         FirstTrain(p).to < d /\ d <= folds[Len(folds)].test.to =>
           \E i \in 1 .. Len(folds) : folds[i].test.from <= d /\ d <= folds[i].test.to

\* The inductive invariant of studies.
StudyInv ==
  /\ plan \in Plans
  /\ study = [ stage |-> study.stage, folds |-> study.folds,
               evaluated |-> study.evaluated, best |-> study.best ]
  /\ FoldsLaid(plan, study.folds)
  /\ study.stage = "comparing" => study.folds = <<>>
  /\ study.stage \in {"evaluating", "done"} /\ study.folds # <<>> =>
       study.folds[Len(study.folds)].test.to = plan.market.to

\* What the sweep of a plan is given.
LEMMA PlanIsTyped ==
  ASSUME NEW p \in Plans
  PROVE  /\ p.market.from \in Int /\ p.market.to \in Int
         /\ p.train \in Nat \ {0} /\ p.test \in Nat \ {0} /\ p.expanding \in BOOLEAN
         /\ FirstTrain(p) \in Period
         /\ FirstTrain(p).from = p.market.from /\ FirstTrain(p).to >= p.market.from
<1>1. /\ p.market.from \in Int /\ p.market.to \in Int
      /\ p.train \in Nat \ {0} /\ p.test \in Nat \ {0} /\ p.expanding \in BOOLEAN
  BY PlansAssumption DEF IsMarket
<1>2. FirstTrain(p) = [from |-> p.market.from, to |-> p.market.from + p.train - 1]
  BY DEF FirstTrain
<1> QED
  BY <1>1, <1>2 DEF Period

\* A train window that leaves room makes a fold that fits.
LEMMA RoomMakesAFold ==
  ASSUME NEW p \in Plans, NEW train \in Period,
         train.from >= p.market.from, train.to >= FirstTrain(p).to,
         train.to < p.market.to
  PROVE  LET fold == [train |-> train, test |-> TestOf(p, train)]
         IN fold \in Fold /\ FoldFits(p, fold)
<1> DEFINE fold == [train |-> train, test |-> TestOf(p, train)]
           end == train.to + p.test
<1>1. p.market.to \in Int /\ p.test \in Int /\ train.to \in Int
  BY PlanIsTyped DEF Period
<1>2. Min({end, p.market.to}) = IF end <= p.market.to THEN end ELSE p.market.to
  <2>1. end \in Int
    BY <1>1
  <2> HIDE DEF end
  <2> QED BY <1>1, <2>1, LesserOfTwo
<1>3. fold.test = [from |-> train.to + 1,
                   to   |-> IF end <= p.market.to THEN end ELSE p.market.to]
  BY <1>2 DEF TestOf
<1>4. fold.train = train
  OBVIOUS
<1>5. fold \in Fold
  <2>1. fold.test \in Period
    BY <1>1, <1>3 DEF Period
  <2> QED BY <2>1 DEF Fold
<1>6. FoldFits(p, fold)
  BY <1>3, <1>4 DEF FoldFits
<1> QED
  BY <1>5, <1>6

\* The next fold is trained up to where the tests so far have ended.
LEMMA NextFold ==
  ASSUME NEW p \in Plans, NEW folds, FoldsLaid(p, folds),
         TrainAfter(p, folds).to < p.market.to
  PROVE  LET train == TrainAfter(p, folds)
             fold  == [train |-> train, test |-> TestOf(p, train)]
         IN /\ fold \in Fold /\ FoldFits(p, fold)
            /\ train.to = IF folds = <<>> THEN FirstTrain(p).to
                          ELSE folds[Len(folds)].test.to
<1> DEFINE train == TrainAfter(p, folds)
           last == folds[Len(folds)]
<1>1. /\ p.market.from \in Int /\ p.market.to \in Int
      /\ p.test \in Nat \ {0}
      /\ FirstTrain(p) \in Period /\ FirstTrain(p).to \in Int
      /\ FirstTrain(p).from = p.market.from
  BY PlanIsTyped DEF Period
<1>2. /\ train \in Period
      /\ train.from >= p.market.from /\ train.to >= FirstTrain(p).to
      /\ train.to = IF folds = <<>> THEN FirstTrain(p).to ELSE last.test.to
  <2>1. CASE folds = <<>>
    <3>1. train = FirstTrain(p)
      BY <2>1 DEF TrainAfter
    <3> QED BY <1>1, <2>1, <3>1
  <2>2. CASE folds # <<>>
    <3>1. train = NextTrain(p, last)
      BY <2>2 DEF TrainAfter, Last
    <3>2. Len(folds) \in 1 .. Len(folds) /\ last \in Fold /\ FoldFits(p, last)
      BY <2>2, EmptySeq DEF FoldsLaid
    <3> HIDE DEF last
    <3>3. /\ last.train.from \in Int /\ last.train.to \in Int
          /\ last.test.to \in Int
      BY <3>2 DEF Fold, Period
    <3>4. CASE p.expanding
      <4>1. train = [from |-> last.train.from, to |-> last.test.to]
        BY <3>1, <3>4 DEF NextTrain
      <4> HIDE DEF train
      <4> QED BY <1>1, <2>2, <3>2, <3>3, <4>1 DEF FoldFits, Period
    <3>5. CASE ~p.expanding
      <4>1. train = [from |-> last.train.from + p.test, to |-> last.train.to + p.test]
        BY <3>1, <3>5 DEF NextTrain
      <4>2. train.from = last.train.from + p.test /\ train.to = last.train.to + p.test
        BY <4>1
      <4>3. train.to < p.market.to
        OBVIOUS
      <4>4. /\ last.train.from >= p.market.from /\ last.train.to >= FirstTrain(p).to
            /\ last.test.to = IF last.train.to + p.test <= p.market.to
                              THEN last.train.to + p.test ELSE p.market.to
        BY <3>2 DEF FoldFits
      <4> HIDE DEF train
      <4>5. last.train.to + p.test <= p.market.to
        BY <1>1, <3>3, <4>2, <4>3
      <4>6. train.to = last.test.to
        BY <4>2, <4>4, <4>5
      <4>7. train \in Period
        BY <1>1, <3>3, <4>1 DEF Period
      <4>8. train.from >= p.market.from /\ train.to >= FirstTrain(p).to
        BY <1>1, <3>3, <4>2, <4>4
      <4> QED BY <2>2, <4>6, <4>7, <4>8
    <3> QED BY <3>4, <3>5
  <2> QED BY <2>1, <2>2
<1>3. train.to < p.market.to
  OBVIOUS
<1> HIDE DEF train
<1>4. [train |-> train, test |-> TestOf(p, train)] \in Fold
  BY <1>2, <1>3, RoomMakesAFold
<1>5. FoldFits(p, [train |-> train, test |-> TestOf(p, train)])
  BY <1>2, <1>3, RoomMakesAFold
<1> QED
  BY <1>2, <1>4, <1>5 DEF train

\* One more fold, trained up to where the tests so far have ended, lies next to them.
LEMMA OneMoreFold ==
  ASSUME NEW p \in Plans, NEW folds, FoldsLaid(p, folds),
         NEW fold \in Fold, FoldFits(p, fold),
         fold.train.to = IF folds = <<>> THEN FirstTrain(p).to
                         ELSE folds[Len(folds)].test.to
  PROVE  FoldsLaid(p, Append(folds, fold))
<1> DEFINE more == Append(folds, fold)
           n == Len(folds)
<1>1. /\ p.market.to \in Int /\ p.test \in Nat \ {0} /\ FirstTrain(p).to \in Int
  BY PlanIsTyped DEF Period
<1>2. /\ folds \in Seq(Fold) /\ n \in Nat
      /\ more \in Seq(Fold) /\ Len(more) = n + 1 /\ more # <<>>
      /\ more[n + 1] = fold
      /\ \A i \in 1 .. n : more[i] = folds[i]
  BY DEF FoldsLaid
<1>3. \A i \in 1 .. n + 1 :
        /\ more[i].train.to \in Int /\ more[i].test.from \in Int /\ more[i].test.to \in Int
  <2> TAKE i \in 1 .. n + 1
  <2>1. more[i] \in Fold
    BY <1>2
  <2> QED BY <2>1 DEF Fold, Period
<1>4. /\ fold.test.from = fold.train.to + 1
      /\ fold.test.from <= fold.test.to
      /\ fold.train.to \in Int /\ fold.test.to \in Int
  <2>1. fold.train.to \in Int /\ fold.test.from \in Int /\ fold.test.to \in Int
    BY DEF Fold, Period
  <2> QED BY <1>1, <2>1 DEF FoldFits
<1> HIDE DEF more
<1>5. \A i \in 1 .. n + 1 : FoldFits(p, more[i])
  <2> TAKE i \in 1 .. n + 1
  <2>1. i = n + 1 \/ i \in 1 .. n
    BY <1>2
  <2> QED BY <1>2, <2>1 DEF FoldsLaid
<1>6. \A i \in 1 .. n : more[i].test.to <= fold.train.to
  <2> TAKE i \in 1 .. n
  <2>1. folds # <<>>
    BY <1>2
  <2>2. folds[i].test.to <= folds[n].test.to
    BY DEF FoldsLaid
  <2> QED BY <1>2, <2>1, <2>2
<1>7. \A i, j \in 1 .. n + 1 : i < j => more[i].test.to < more[j].test.from
  <2> SUFFICES ASSUME NEW i \in 1 .. n + 1, NEW j \in 1 .. n + 1, i < j
               PROVE  more[i].test.to < more[j].test.from
    OBVIOUS
  <2>1. i \in 1 .. n /\ (j = n + 1 \/ j \in 1 .. n)
    BY <1>2
  <2>2. CASE j = n + 1
    BY <1>2, <1>3, <1>4, <1>6, <2>1, <2>2
  <2>3. CASE j \in 1 .. n
    BY <1>2, <2>1, <2>3 DEF FoldsLaid
  <2> QED BY <2>1, <2>2, <2>3
<1>8. \A i \in 1 .. n + 1 : more[i].test.to <= fold.test.to
  <2> TAKE i \in 1 .. n + 1
  <2>1. i = n + 1 \/ i \in 1 .. n
    BY <1>2
  <2>2. more[i].test.to \in Int
    BY <1>3
  <2> QED BY <1>2, <1>4, <1>6, <2>1, <2>2
<1>9. ASSUME NEW d \in Int, FirstTrain(p).to < d, d <= fold.test.to
      PROVE  \E i \in 1 .. n + 1 : more[i].test.from <= d /\ d <= more[i].test.to
  <2>1. CASE fold.test.from <= d
    <3>1. n + 1 \in 1 .. n + 1
      BY <1>2
    <3> QED BY <1>2, <1>9, <2>1, <3>1
  <2>2. CASE ~(fold.test.from <= d)
    <3>1. d <= fold.train.to
      BY <1>4, <2>2
    <3>2. folds # <<>>
      BY <1>1, <1>9, <3>1
    <3>3. d <= folds[n].test.to
      BY <3>1, <3>2
    <3>4. PICK i \in 1 .. n : folds[i].test.from <= d /\ d <= folds[i].test.to
      BY <1>9, <3>2, <3>3 DEF FoldsLaid
    <3>5. i \in 1 .. n + 1 /\ more[i] = folds[i]
      BY <1>2
    <3> QED BY <3>4, <3>5
  <2> QED BY <2>1, <2>2
<1> QED
  BY <1>2, <1>5, <1>7, <1>8, <1>9 DEF FoldsLaid, more

\* No folds leave no gap.
LEMMA NoFoldYet == \A p : FoldsLaid(p, <<>>)
BY DEF FoldsLaid

\* When no train window leaves room any more, the tests have reached the end.
LEMMA FoldsReachTheEnd ==
  ASSUME NEW p \in Plans, NEW folds, FoldsLaid(p, folds), folds # <<>>,
         TrainAfter(p, folds).to >= p.market.to
  PROVE  folds[Len(folds)].test.to = p.market.to
<1> DEFINE last == folds[Len(folds)]
<1>1. /\ p.market.to \in Int /\ p.test \in Nat \ {0} /\ p.expanding \in BOOLEAN
  BY PlanIsTyped
<1>2. Len(folds) \in 1 .. Len(folds) /\ last \in Fold /\ FoldFits(p, last)
  BY EmptySeq DEF FoldsLaid
<1>3. NextTrain(p, last).to >= p.market.to
  BY DEF TrainAfter, Last
<1> HIDE DEF last
<1>4. /\ last.train.to \in Int /\ last.test.to \in Int
  BY <1>2 DEF Fold, Period
<1>5. NextTrain(p, last).to = IF p.expanding THEN last.test.to ELSE last.train.to + p.test
  BY DEF NextTrain
<1>6. last.test.to = p.market.to
  BY <1>1, <1>2, <1>3, <1>4, <1>5 DEF FoldFits
<1> QED
  BY <1>6 DEF last

\* The inductive invariant of studies: the folds are laid side by side
\* (generate_walkforward_folds), whatever is evaluated and ranked after.
THEOREM StudyInvariant == StudySpec => []StudyInv
<1>1. StudyInit => StudyInv
  <2> SUFFICES ASSUME StudyInit PROVE StudyInv
    OBVIOUS
  <2>1. /\ plan \in Plans /\ study = Unstarted(plan)
    BY DEF StudyInit
  <2>2. study.folds = <<>> /\ study.stage \in {"comparing", "folding"}
    BY <2>1 DEF Unstarted
  <2>3. study = [ stage |-> study.stage, folds |-> study.folds,
                  evaluated |-> study.evaluated, best |-> study.best ]
    BY <2>1 DEF Unstarted
  <2> QED BY <2>1, <2>2, <2>3, NoFoldYet DEF StudyInv
<1>2. StudyInv /\ [StudyNext]_studyVars => StudyInv'
  <2> SUFFICES ASSUME StudyInv, [StudyNext]_studyVars
               PROVE  StudyInv'
    OBVIOUS
  <2>1. /\ plan \in Plans
        /\ study = [ stage |-> study.stage, folds |-> study.folds,
                     evaluated |-> study.evaluated, best |-> study.best ]
        /\ FoldsLaid(plan, study.folds)
        /\ study.stage = "comparing" => study.folds = <<>>
        /\ study.stage \in {"evaluating", "done"} /\ study.folds # <<>> =>
             study.folds[Len(study.folds)].test.to = plan.market.to
    BY DEF StudyInv
  <2>2. CASE AddFold
    <3> DEFINE train == TrainAfter(plan, study.folds)
               fold == [train |-> train, test |-> TestOf(plan, train)]
               more == Append(study.folds, fold)
    <3>1. /\ plan' = plan /\ study.stage = "folding" /\ train.to < plan.market.to
          /\ study' = [study EXCEPT !.folds = more]
      BY <2>2 DEF AddFold
    <3>2. FoldsLaid(plan, more)
      <4> DEFINE folds == study.folds
      <4>1. /\ fold \in Fold /\ FoldFits(plan, fold)
            /\ fold.train.to = IF folds = <<>> THEN FirstTrain(plan).to
                               ELSE folds[Len(folds)].test.to
        BY <2>1, <3>1, NextFold
      <4> HIDE DEF fold, folds
      <4>2. FoldsLaid(plan, folds)
        BY <2>1 DEF folds
      <4>3. FoldsLaid(plan, Append(folds, fold))
        BY <2>1, <4>1, <4>2, OneMoreFold
      <4> QED BY <4>3 DEF folds
    <3> HIDE DEF more
    <3>3. study' = [ stage |-> "folding", folds |-> more,
                     evaluated |-> study.evaluated, best |-> study.best ]
      BY <2>1, <3>1
    <3> QED BY <2>1, <3>1, <3>2, <3>3 DEF StudyInv
  <2>3. CASE FoldsDone
    <3>1. /\ plan' = plan /\ study.stage = "folding"
          /\ TrainAfter(plan, study.folds).to >= plan.market.to
          /\ study' = [study EXCEPT !.stage = IF study.folds = <<>> THEN "failed"
                                              ELSE "evaluating"]
      BY <2>3 DEF FoldsDone
    <3>2. study' = [ stage |-> IF study.folds = <<>> THEN "failed" ELSE "evaluating",
                     folds |-> study.folds,
                     evaluated |-> study.evaluated, best |-> study.best ]
      BY <2>1, <3>1
    <3>3. study.folds # <<>> =>
            study.folds[Len(study.folds)].test.to = plan.market.to
      <4> DEFINE folds == study.folds
      <4>1. FoldsLaid(plan, folds) /\ TrainAfter(plan, folds).to >= plan.market.to
        BY <2>1, <3>1
      <4> HIDE DEF folds
      <4>2. folds # <<>> => folds[Len(folds)].test.to = plan.market.to
        BY <2>1, <4>1, FoldsReachTheEnd
      <4> QED BY <4>2 DEF folds
    <3> QED BY <2>1, <3>1, <3>2, <3>3 DEF StudyInv
  <2>4. CASE EvaluateFold
    <3>1. PICK evaluated :
            /\ plan' = plan /\ study.stage = "evaluating"
            /\ study' = [study EXCEPT !.evaluated = evaluated]
      BY <2>4 DEF EvaluateFold
    <3>2. study' = [ stage |-> study.stage, folds |-> study.folds,
                     evaluated |-> evaluated, best |-> study.best ]
      BY <2>1, <3>1
    <3> QED BY <2>1, <3>1, <3>2 DEF StudyInv
  <2>5. CASE RankSets
    <3>1. PICK best :
            /\ plan' = plan /\ study.stage = "evaluating"
            /\ study' = [study EXCEPT !.stage = "done", !.best = best]
      BY <2>5 DEF RankSets
    <3>2. study' = [ stage |-> "done", folds |-> study.folds,
                     evaluated |-> study.evaluated, best |-> best ]
      BY <2>1, <3>1
    <3> QED BY <2>1, <3>1, <3>2 DEF StudyInv
  <2>6. CASE ComparePresets
    <3> DEFINE best == TopOf(Comparison(plan), plan.objective, plan.top)
    <3>1. /\ plan' = plan /\ study.stage = "comparing"
          /\ \/ study' = [study EXCEPT !.stage = "done", !.best = best]
             \/ study' = [study EXCEPT !.stage = "failed"]
      BY <2>6 DEF ComparePresets
    <3> HIDE DEF best
    <3>2. CASE study' = [study EXCEPT !.stage = "done", !.best = best]
      <4>1. study' = [ stage |-> "done", folds |-> study.folds,
                       evaluated |-> study.evaluated, best |-> best ]
        BY <2>1, <3>2
      <4> QED BY <2>1, <3>1, <4>1 DEF StudyInv
    <3>3. CASE study' = [study EXCEPT !.stage = "failed"]
      <4>1. study' = [ stage |-> "failed", folds |-> study.folds,
                       evaluated |-> study.evaluated, best |-> study.best ]
        BY <2>1, <3>3
      <4> QED BY <2>1, <3>1, <4>1 DEF StudyInv
    <3> QED BY <3>1, <3>2, <3>3
  <2>7. CASE UNCHANGED studyVars
    BY <2>1, <2>7 DEF StudyInv, studyVars
  <2> QED BY <2>2, <2>3, <2>4, <2>5, <2>6, <2>7 DEF StudyNext
<1> QED
  BY <1>1, <1>2, PTL DEF StudySpec

\* The folds test every day after the first train window, each once, and train
\* on none of the days they test, whether windows roll or expand and however
\* short the last one is (generate_walkforward_folds).
THEOREM FoldsTestDaysOnce == StudySpec => []TestDaysOnce
<1>1. StudyInv => TestDaysOnce
  <2> SUFFICES ASSUME StudyInv, study.stage \in {"evaluating", "done"},
                      study.folds # <<>>
               PROVE  /\ UNION {Days(study.folds[i].test) : i \in DOMAIN study.folds}
                           = FirstTrain(plan).to + 1 .. plan.market.to
                      /\ \A i, j \in DOMAIN study.folds :
                           i < j => Days(study.folds[i].test)
                                      \cap Days(study.folds[j].test) = {}
                      /\ \A i \in DOMAIN study.folds :
                           /\ study.folds[i].train.to + 1 = study.folds[i].test.from
                           /\ study.folds[i].train.from >= plan.market.from
    BY DEF TestDaysOnce
  <2> DEFINE folds == study.folds
             first == FirstTrain(plan).to
             n == Len(folds)
  <2>1. /\ plan \in Plans /\ FoldsLaid(plan, folds) /\ folds # <<>>
        /\ folds[n].test.to = plan.market.to
    BY DEF StudyInv
  <2>2. first \in Int /\ plan.market.to \in Int
    BY <2>1, PlanIsTyped DEF Period
  <2> HIDE DEF folds, first
  <2>3. folds \in Seq(Fold) /\ DOMAIN folds = 1 .. n /\ n \in Nat
    BY <2>1 DEF FoldsLaid
  <2>4. \A i \in 1 .. n : FoldFits(plan, folds[i])
    BY <2>1 DEF FoldsLaid
  <2>5. \A i \in 1 .. n : /\ folds[i].train.to \in Int
                          /\ folds[i].test.from \in Int /\ folds[i].test.to \in Int
    <3> TAKE i \in 1 .. n
    <3>1. folds[i] \in Fold
      BY <2>3
    <3> QED BY <3>1 DEF Fold, Period
  <2>6. \A i \in 1 .. n :
          /\ folds[i].train.to + 1 = folds[i].test.from
          /\ folds[i].train.from >= plan.market.from
          /\ folds[i].train.to >= first
          /\ folds[i].test.to <= plan.market.to
    <3> TAKE i \in 1 .. n
    <3>1. folds[i].test.to <= folds[n].test.to
      BY <2>1 DEF FoldsLaid
    <3> QED BY <2>1, <2>4, <3>1 DEF FoldFits, first
  <2>7. \A i, j \in 1 .. n : i < j => Days(folds[i].test) \cap Days(folds[j].test) = {}
    <3> SUFFICES ASSUME NEW i \in 1 .. n, NEW j \in 1 .. n, i < j,
                        NEW d \in Days(folds[i].test), d \in Days(folds[j].test)
                 PROVE  FALSE
      OBVIOUS
    <3>1. folds[i].test.to < folds[j].test.from
      BY <2>1 DEF FoldsLaid
    <3>2. d \in Int /\ d <= folds[i].test.to /\ folds[j].test.from <= d
      BY <2>5 DEF Days
    <3> QED BY <2>5, <3>1, <3>2
  <2>8. ASSUME NEW d
        PROVE  d \in UNION {Days(folds[i].test) : i \in 1 .. n}
                 <=> d \in first + 1 .. plan.market.to
    <3>1. ASSUME NEW i \in 1 .. n, d \in Days(folds[i].test)
          PROVE  d \in first + 1 .. plan.market.to
      <4>1. d \in Int /\ folds[i].test.from <= d /\ d <= folds[i].test.to
        BY <2>5, <3>1 DEF Days
      <4>2. first + 1 <= folds[i].test.from /\ folds[i].test.to <= plan.market.to
        BY <2>2, <2>5, <2>6
      <4> QED BY <2>2, <2>5, <4>1, <4>2
    <3>2. ASSUME d \in first + 1 .. plan.market.to
          PROVE  \E i \in 1 .. n : d \in Days(folds[i].test)
      <4>1. d \in Int /\ first < d /\ d <= folds[n].test.to
        BY <2>1, <2>2, <3>2
      <4>2. PICK i \in 1 .. n : folds[i].test.from <= d /\ d <= folds[i].test.to
        BY <2>1, <4>1 DEF FoldsLaid, first
      <4> QED BY <2>5, <4>1, <4>2 DEF Days
    <3> QED BY <3>1, <3>2
  <2>9. UNION {Days(folds[i].test) : i \in 1 .. n} = first + 1 .. plan.market.to
    <3> DEFINE tested == UNION {Days(folds[i].test) : i \in 1 .. n}
               all == first + 1 .. plan.market.to
    <3>1. \A d : d \in tested <=> d \in all
      BY <2>8
    <3> HIDE DEF tested, all
    <3>2. tested = all
      BY <3>1
    <3> QED BY <3>2 DEF tested, all
  <2> QED BY <2>3, <2>6, <2>7, <2>9 DEF folds, first
<1> QED
  BY <1>1, StudyInvariant, PTL

\* What a sweep has evaluated so far.
EvalInv ==
  /\ study.stage \in {"folding", "comparing"} => study.evaluated = <<>>
  /\ study.evaluated \in Seq({Evaluate(plan, plan.market, fold) : fold \in Fold})
  /\ Len(study.evaluated) <= Len(study.folds)
  /\ \A i \in 1 .. Len(study.evaluated) :
       study.evaluated[i] = Evaluate(plan, plan.market, study.folds[i])

\* Nothing is evaluated at first.
LEMMA EvalInitHolds == StudyInit => EvalInv
<1> SUFFICES ASSUME StudyInit PROVE EvalInv
  OBVIOUS
<1>1. study.folds = <<>> /\ study.evaluated = <<>>
  BY DEF StudyInit, Unstarted
<1> QED
  BY <1>1 DEF EvalInv

\* And a fold is evaluated from what it was laid out as.
LEMMA EvalStepHolds == StudyInv /\ EvalInv /\ [StudyNext]_studyVars => EvalInv'
<1> SUFFICES ASSUME StudyInv, EvalInv, [StudyNext]_studyVars
             PROVE  EvalInv'
  OBVIOUS
<1>1. /\ study = [ stage |-> study.stage, folds |-> study.folds,
                   evaluated |-> study.evaluated, best |-> study.best ]
      /\ study.folds \in Seq(Fold)
  BY DEF StudyInv, FoldsLaid
<1>2. CASE AddFold
  <2> DEFINE train == TrainAfter(plan, study.folds)
             fold == [train |-> train, test |-> TestOf(plan, train)]
             more == Append(study.folds, fold)
  <2>1. /\ plan' = plan /\ study.stage = "folding"
        /\ study' = [study EXCEPT !.folds = more]
    BY <1>2 DEF AddFold
  <2>2. study.evaluated = <<>>
    BY <2>1 DEF EvalInv
  <2>3. Len(more) = Len(study.folds) + 1 /\ Len(study.folds) \in Nat
    BY <1>1
  <2> HIDE DEF more
  <2>4. study'.evaluated = <<>> /\ study'.folds = more /\ study'.stage = "folding"
    BY <1>1, <2>1, <2>2
  <2> QED BY <2>1, <2>3, <2>4 DEF EvalInv
<1>3. CASE FoldsDone
  <2>1. /\ plan' = plan /\ study.stage = "folding"
        /\ study' = [study EXCEPT !.stage = IF study.folds = <<>> THEN "failed"
                                            ELSE "evaluating"]
    BY <1>3 DEF FoldsDone
  <2>2. study'.evaluated = study.evaluated /\ study'.folds = study.folds
        /\ study'.stage \in {"failed", "evaluating"}
    BY <1>1, <2>1
  <2> QED BY <2>1, <2>2 DEF EvalInv
<1>4. CASE EvaluateFold
  <2> DEFINE n == Len(study.evaluated)
             fold == study.folds[n + 1]
             row == Evaluate(plan, plan.market, fold)
             rows == {Evaluate(plan, plan.market, f) : f \in Fold}
             more == Append(study.evaluated, row)
  <2>1. /\ plan' = plan /\ study.stage = "evaluating" /\ n < Len(study.folds)
        /\ study' = [study EXCEPT !.evaluated = more]
    BY <1>4 DEF EvaluateFold
  <2>2. /\ study.evaluated \in Seq(rows) /\ n \in Nat
        /\ \A i \in 1 .. n : study.evaluated[i] = Evaluate(plan, plan.market, study.folds[i])
    BY DEF EvalInv
  <2>3. fold \in Fold /\ Len(study.folds) \in Nat
    BY <1>1, <2>1, <2>2
  <2>4. row \in rows
    BY <2>3
  <2>5. study'.evaluated = more /\ study'.folds = study.folds /\ study'.stage = "evaluating"
    <3> HIDE DEF more
    <3> QED BY <1>1, <2>1
  <2> HIDE DEF row, rows, fold
  <2>6. /\ more \in Seq(rows) /\ Len(more) = n + 1 /\ more[n + 1] = row
        /\ \A i \in 1 .. n : more[i] = study.evaluated[i]
    BY <2>2, <2>4
  <2> HIDE DEF more
  <2>7. \A i \in 1 .. n + 1 : more[i] = Evaluate(plan, plan.market, study.folds[i])
    <3> TAKE i \in 1 .. n + 1
    <3>1. CASE i = n + 1
      BY <2>6, <3>1 DEF row, fold
    <3>2. CASE i \in 1 .. n
      BY <2>2, <2>6, <3>2
    <3> QED BY <2>2, <3>1, <3>2
  <2>8. more \in Seq({Evaluate(plan, plan.market, f) : f \in Fold})
    BY <2>6 DEF rows
  <2>9. n + 1 <= Len(study.folds)
    BY <2>1, <2>2, <2>3
  <2> QED BY <2>1, <2>5, <2>6, <2>7, <2>8, <2>9 DEF EvalInv
<1>5. CASE RankSets
  <2>1. PICK best :
          /\ plan' = plan /\ study.stage = "evaluating"
          /\ study' = [study EXCEPT !.stage = "done", !.best = best]
    BY <1>5 DEF RankSets
  <2>2. study'.evaluated = study.evaluated /\ study'.folds = study.folds
        /\ study'.stage = "done"
    BY <1>1, <2>1
  <2> QED BY <2>1, <2>2 DEF EvalInv
<1>6. CASE ComparePresets
  <2>1. PICK best :
          /\ plan' = plan /\ study.stage = "comparing"
          /\ \/ study' = [study EXCEPT !.stage = "done", !.best = best]
             \/ study' = [study EXCEPT !.stage = "failed"]
    BY <1>6 DEF ComparePresets
  <2>2. study'.evaluated = study.evaluated /\ study'.folds = study.folds
        /\ study'.stage \in {"done", "failed"}
    BY <1>1, <2>1
  <2> QED BY <2>1, <2>2 DEF EvalInv
<1>7. CASE UNCHANGED studyVars
  BY <1>7 DEF EvalInv, studyVars
<1> QED
  BY <1>2, <1>3, <1>4, <1>5, <1>6, <1>7 DEF StudyNext

\* The engine that a parameter set makes is one that is accepted.
LEMMA CostsAreASetup ==
  ASSUME NEW p \in Plans, NEW g \in Grid(p)
  PROVE  CostsOf(p, g).strategy.slow \in Nat \ {0}
BY PlansAssumption DEF CostsOf, Grid, IsSetup, IsStrategy

\* Nor do the rows of a window.
LEMMA RowsAreBlind ==
  ASSUME NEW p \in Plans, NEW window \in Period, NEW last \in Int, window.to <= last
  PROVE  RowsOf(p, Cut(p.market, last), window) = RowsOf(p, p.market, window)
<1> DEFINE m == p.market
           known == Cut(m, last)
<1>1. IsMarket(m)
  BY PlansAssumption
<1>2. window.from \in Int /\ window.to \in Int
  BY DEF Period
<1>3. \A g \in Grid(p) :
        RunMetrics(known, CostsOf(p, g), window.from, window.to)
          = RunMetrics(m, CostsOf(p, g), window.from, window.to)
  <2> TAKE g \in Grid(p)
  <2> DEFINE costs == CostsOf(p, g)
  <2>1. costs.strategy.slow \in Nat \ {0}
    BY CostsAreASetup
  <2> HIDE DEF m, costs
  <2>2. Run(Within(Cut(m, last), window.from, window.to), costs)
          = Run(Within(m, window.from, window.to), costs)
    BY <1>1, <1>2, <2>1, CuttingIsUnseen
  <2> QED BY <2>2 DEF RunMetrics, Within, costs
<1> HIDE DEF m, known
<1>4. [g \in Grid(p) |-> RunMetrics(known, CostsOf(p, g), window.from, window.to)]
        = [g \in Grid(p) |-> RunMetrics(m, CostsOf(p, g), window.from, window.to)]
  BY <1>3
<1> QED
  BY <1>4 DEF RowsOf, m, known

\* A sweep does not look ahead: each fold chooses as if the bars had ended with its
\* train window, and tests as if they had ended with its test window; and it tests
\* each day once (evaluate_walkforward, generate_walkforward_folds).
THEOREM FoldsStayBlind == StudySpec => []FoldsAreBlind
<1>1. StudyInv /\ EvalInv => BlindToTests
  <2> SUFFICES ASSUME StudyInv, EvalInv, NEW i \in DOMAIN study.evaluated
               PROVE  LET fold  == study.folds[i]
                          known == Evaluate(plan, Cut(plan.market, fold.train.to), fold)
                          later == RowsOf(plan, Cut(plan.market, fold.test.to), fold.test)
                      IN /\ study.evaluated[i].train = known.train
                         /\ study.evaluated[i].chosen = known.chosen
                         /\ study.evaluated[i].test = later
    BY DEF BlindToTests
  <2> DEFINE fold == study.folds[i]
             m == plan.market
  <2>1. /\ i \in 1 .. Len(study.folds)
        /\ study.evaluated[i] = Evaluate(plan, m, fold)
    <3>1. Len(study.evaluated) \in Nat /\ Len(study.folds) \in Nat
          /\ DOMAIN study.evaluated = 1 .. Len(study.evaluated)
      BY DEF EvalInv, StudyInv, FoldsLaid
    <3> QED BY <3>1 DEF EvalInv
  <2>2. plan \in Plans /\ fold \in Fold
    BY <2>1 DEF StudyInv, FoldsLaid
  <2> HIDE DEF fold
  <2>3. fold.train \in Period /\ fold.test \in Period
        /\ fold.train.to \in Int /\ fold.test.to \in Int
    BY <2>2 DEF Fold, Period
  <2>4. RowsOf(plan, Cut(m, fold.train.to), fold.train) = RowsOf(plan, m, fold.train)
    BY <2>2, <2>3, RowsAreBlind
  <2>5. RowsOf(plan, Cut(m, fold.test.to), fold.test) = RowsOf(plan, m, fold.test)
    BY <2>2, <2>3, RowsAreBlind
  <2> HIDE DEF m
  <2>6. /\ Evaluate(plan, m, fold).train = RowsOf(plan, m, fold.train)
        /\ Evaluate(plan, m, fold).test = RowsOf(plan, m, fold.test)
        /\ Evaluate(plan, m, fold).chosen = Head(Ranked(RowsOf(plan, m, fold.train), plan.objective))
    BY DEF Evaluate, Choose
  <2>7. LET known == Evaluate(plan, Cut(m, fold.train.to), fold)
        IN /\ known.train = RowsOf(plan, Cut(m, fold.train.to), fold.train)
           /\ known.chosen = Head(Ranked(RowsOf(plan, Cut(m, fold.train.to), fold.train),
                                         plan.objective))
    BY DEF Evaluate, Choose
  <2>8. LET known == Evaluate(plan, Cut(m, fold.train.to), fold)
            later == RowsOf(plan, Cut(m, fold.test.to), fold.test)
        IN /\ study.evaluated[i].train = known.train
           /\ study.evaluated[i].chosen = known.chosen
           /\ study.evaluated[i].test = later
    BY <2>1, <2>4, <2>5, <2>6, <2>7
  <2> QED BY <2>8 DEF fold, m
<1>2. StudySpec => []EvalInv
  BY EvalInitHolds, EvalStepHolds, StudyInvariant, PTL DEF StudySpec
<1> QED
  BY <1>1, <1>2, StudyInvariant, FoldsTestDaysOnce, PTL DEF FoldsAreBlind
=============================================================================
