----------------------------- MODULE DeskProofs -----------------------------
(***************************************************************************)
(* Theorems about the operator's desk.  The life of held positions         *)
(* (PositionReviews): what the log says of the holdings, and that reviews  *)
(* only advise what they have seen, however often and in whichever order   *)
(* they are run.  The candidate journal of daily summaries (DailySummary): *)
(* it tells the runs that were made, repeated and back-dated ones included.*)
(***************************************************************************)
EXTENDS PositionReviews, DailySummary,
        FiniteSetTheorems, SequenceTheorems, WellFoundedInduction, TLAPS

\* The journal that a kind of review keeps of a symbol.
Kept(kind, s) == IF kind = "daily" THEN trajectories[s] ELSE session[s]

\* What a review of a kind says of a position and a reading, given the journal
\* in which the observation of its own time, if any, does not matter.
Advice(kind, p, r, journal, time) ==
  IF kind = "daily"
  THEN ReviewDecision(p, r, PreviewTrajectory(journal, time,
         DailyObservation(PositionFeatures(p, r), Unresolved)))
  ELSE IntradayDecision(p, r, PreviewSession(journal, time,
         IntradayObservation(IntradayFeatures(p, r), Unresolved)))

-----------------------------------------------------------------------------
(* The inductive invariant                                                 *)

Kinds == {"daily", "intraday"}

\* The journals hold settled observations of the days and bars there are.
JournalsTyped ==
  /\ trajectories = [s \in Holdings |-> trajectories[s]]
  /\ session = [s \in Holdings |-> session[s]]
  /\ \A s \in Holdings : \A t \in DOMAIN trajectories[s] :
       t \in 1 .. LastDay /\ trajectories[s][t].action \in Actions
  /\ \A s \in Holdings : \A t \in DOMAIN session[s] :
       t \in 1 .. LastBar /\ session[s][t].action \in Actions

BooksTyped ==
  /\ positions \in [Holdings -> ExistingPosition \cup {NoValue}]
  /\ log \in Seq(TradeFeedbackEvent)
  /\ unlogged \in TradeFeedbackEvent \cup {NoValue}
  /\ untold \subseteq Holdings

ReportTyped ==
  /\ report.kind = "none" => report = NoReport
  /\ report.kind # "none" =>
       /\ report.kind \in Kinds
       /\ report.rows = [s \in DOMAIN report.rows |-> report.rows[s]]
       /\ report.positions \in [Holdings -> ExistingPosition \cup {NoValue}]
       /\ DOMAIN report.readings = DOMAIN report.rows
       /\ \A s \in DOMAIN report.rows :
            /\ s \in Holdings
            /\ report.positions[s] # NoValue
            /\ report.kind = "daily" =>
                 /\ report.readings[s].close \in Int
                 /\ report.readings[s].trailing \in Int \cup {NoValue}

\* The log, with the event that is still to be appended, tells the portfolio file.
LogFollows ==
  \A s \in Holdings :
    IF unlogged # NoValue /\ unlogged.symbol = s THEN Tells(unlogged, positions[s])
    ELSE s \in untold \/ LogTells(s)

\* Only portfolio commands have events to append.
OnlyTradesPend == unlogged # NoValue => unlogged.type \notin {"reviewed", "polled"}

\* What was told is what the journals say was told.
ToldIsKept ==
  /\ DOMAIN told = {k \in Kinds \X Holdings \X Int : k[3] \in DOMAIN Kept(k[1], k[2])}
  /\ \A k \in DOMAIN told : told[k] = Kept(k[1], k[2])[k[3]].action

\* The journals, with what the last review itself added, still lead to its rows.
RowsFollow ==
  report.kind # "none" =>
    \A s \in DOMAIN report.rows :
      report.rows[s] = Advice(report.kind, report.positions[s], report.readings[s],
                              Kept(report.kind, s), report.at)

IInv ==
  /\ JournalsTyped
  /\ BooksTyped
  /\ ReportTyped
  /\ OnlyTradesPend
  /\ LogFollows
  /\ ToldIsKept
  /\ RowsFollow

-----------------------------------------------------------------------------
(* Lemmas about the operators of the rules                                 *)

\* A set of natural numbers that is not empty has a least element.
LEMMA LeastNumber ==
  ASSUME NEW T \in SUBSET Nat, T # {}
  PROVE  \E m \in T : \A k \in T : m <= k
<1> DEFINE R == {ss \in Nat \X Nat : ss[1] < ss[2]}
<1>1. OpToRel(<, Nat) = R
  BY DEF OpToRel
<1>2. IsWellFoundedOn(R, Nat)
  BY <1>1, NatLessThanWellFounded
<1>3. PICK m \in T : \A k \in T : ~ (<<k, m>> \in R)
  <2> HIDE DEF R
  <2> QED BY <1>2, WFMin
<1>4. \A k \in T : m <= k
  <2> TAKE k \in T
  <2>1. <<k, m>> \in Nat \X Nat /\ ~(k < m)
    BY <1>3
  <2> QED BY <2>1
<1> QED
  BY <1>4

\* The highest close of a history is one of its closes.
LEMMA HighIsAClose ==
  ASSUME NEW closes \in Seq(Int), closes # <<>>
  PROVE  Max(Range(closes)) \in Int
<1> DEFINE First(n) == \E i \in 1 .. n : \A j \in 1 .. n : closes[j] <= closes[i]
           Broken == {n \in 1 .. Len(closes) : ~First(n)}
<1>1. Len(closes) \in Nat \ {0} /\ DOMAIN closes = 1 .. Len(closes)
  BY EmptySeq
<1>2. \A i \in 1 .. Len(closes) : closes[i] \in Int
  BY ElementOfSeq
<1>3. Broken = {}
  <2> SUFFICES ASSUME Broken # {}
               PROVE  FALSE
    OBVIOUS
  <2>1. PICK m \in Broken : \A k \in Broken : m <= k
    <3>1. Broken \in SUBSET Nat
      BY <1>1
    <3> HIDE DEF Broken
    <3> QED BY <3>1, LeastNumber
  <2>2. m \in 1 .. Len(closes) /\ ~First(m)
    OBVIOUS
  <2>3. m # 1
    <3>1. First(1)
      <4>1. closes[1] <= closes[1]
        BY <1>1, <1>2
      <4> QED BY <4>1
    <3> QED BY <2>2, <3>1
  <2>4. m - 1 \in 1 .. Len(closes) /\ m - 1 \notin Broken
    <3> HIDE DEF First
    <3>1. m \in Int /\ ~(m <= m - 1) /\ m - 1 \in 1 .. Len(closes)
      BY <1>1, <2>2, <2>3
    <3>2. m - 1 \notin Broken
      <4> HIDE DEF Broken
      <4> QED BY <2>1, <3>1
    <3> QED BY <3>1, <3>2
  <2>5. PICK i \in 1 .. (m - 1) : \A j \in 1 .. (m - 1) : closes[j] <= closes[i]
    BY <2>4
  <2>6. First(m)
    <3> HIDE DEF First, Broken
    <3>1. i \in 1 .. m /\ m \in 1 .. m /\ closes[i] \in Int /\ closes[m] \in Int
      BY <1>1, <1>2, <2>2, <2>5
    <3>2. \A j \in 1 .. m : closes[j] \in Int /\ (j = m \/ j \in 1 .. (m - 1))
      <4> TAKE j \in 1 .. m
      <4>1. m \in Int /\ m <= Len(closes) /\ Len(closes) \in Int
        BY <1>1, <2>2
      <4>2. j \in 1 .. Len(closes) /\ (j = m \/ j \in 1 .. (m - 1))
        BY <4>1
      <4> QED BY <1>2, <4>2
    <3>3. CASE closes[m] <= closes[i]
      <4>1. \A j \in 1 .. m : closes[j] <= closes[i]
        BY <2>5, <3>2, <3>3
      <4> QED BY <3>1, <4>1 DEF First
    <3>4. CASE ~(closes[m] <= closes[i])
      <4>1. \A j \in 1 .. (m - 1) : closes[j] <= closes[m]
        <5> TAKE j \in 1 .. (m - 1)
        <5>1. closes[j] <= closes[i]
          BY <2>5
        <5>2. j \in 1 .. m
          BY <2>2, <1>1
        <5>3. closes[j] \in Int
          BY <3>2, <5>2
        <5> QED BY <5>1, <5>3, <3>1, <3>4
      <4>2. \A j \in 1 .. m : closes[j] <= closes[m]
        BY <3>1, <3>2, <4>1
      <4> QED BY <3>1, <4>2 DEF First
    <3> QED BY <3>3, <3>4
  <2> QED BY <2>2, <2>6
<1>4. First(Len(closes))
  <2>1. Len(closes) \in 1 .. Len(closes)
    BY <1>1
  <2> HIDE DEF First
  <2> QED BY <1>3, <2>1
<1>5. PICK i \in 1 .. Len(closes) : \A j \in 1 .. Len(closes) : closes[j] <= closes[i]
  BY <1>4
<1>6. closes[i] \in Range(closes) /\ \A c \in Range(closes) : c \in Int /\ closes[i] >= c
  BY <1>1, <1>2, <1>5 DEF Range
<1>7. Max(Range(closes)) \in Range(closes)
  BY <1>6 DEF Max
<1> QED
  BY <1>6, <1>7

\* The latest of some times is one that none of them is after.
LEMMA LatestTime ==
  ASSUME NEW T \in SUBSET Int, NEW t \in T, \A u \in T : u <= t
  PROVE  Max(T) = t
<1>1. Max(T) \in T /\ \A u \in T : Max(T) >= u
  <2>1. \A u \in T : t >= u
    OBVIOUS
  <2> QED BY <2>1 DEF Max
<1>2. Max(T) \in Int /\ t \in Int /\ Max(T) <= t /\ Max(T) >= t
  BY <1>1
<1> QED
  BY <1>2

\* What is read of a history is a number, where anything is.
LEMMA ReadingIsTyped ==
  ASSUME NEW h, NEW entered \in Int, NEW day \in Int,
         h.closes \in Seq(Nat) \ {<<>>}, h.atr \in Int \cup {NoValue}
  PROVE  /\ DailyReading(entered, h, day).close \in Int
         /\ DailyReading(entered, h, day).trailing \in Int \cup {NoValue}
<1> DEFINE closes == SinceEntry(h.closes, entered, day)
           first == Len(h.closes) - (day - entered)
<1>1. /\ Len(h.closes) \in Nat \ {0}
      /\ DOMAIN h.closes = 1 .. Len(h.closes)
      /\ \A i \in 1 .. Len(h.closes) : h.closes[i] \in Int
  BY EmptySeq, ElementOfSeq
<1>2. h.closes[Len(h.closes)] \in Int
  BY <1>1
<1>3. closes \in Seq(Int) /\ closes # <<>>
  <2>1. CASE first \in DOMAIN h.closes
    <3>1. closes = SubSeq(h.closes, first, Len(h.closes))
      BY <2>1 DEF SinceEntry
    <3>2. first \in 1 .. Len(h.closes)
      BY <1>1, <2>1
    <3>3. \A i \in first .. Len(h.closes) : h.closes[i] \in Int
      BY <1>1, <3>2
    <3>4. first \in Int /\ Len(h.closes) \in Int /\ first <= Len(h.closes)
      BY <1>1, <3>2
    <3> DEFINE m == first  n == Len(h.closes)
    <3>5. SubSeq(h.closes, m, n) \in Seq(Int) /\ Len(SubSeq(h.closes, m, n)) = n - m + 1
      <4> HIDE DEF m, n
      <4>1. m \in Int /\ n \in Int /\ m <= n /\ \A i \in m .. n : h.closes[i] \in Int
        BY <3>3, <3>4 DEF m, n
      <4> QED BY <4>1, SubSeqProperties
    <3>6. n - m + 1 # 0
      BY <3>4
    <3> QED BY <3>1, <3>5, <3>6, EmptySeq
  <2>2. CASE first \notin DOMAIN h.closes
    <3>1. closes = h.closes
      BY <2>2 DEF SinceEntry
    <3> QED BY <3>1
  <2> QED BY <2>1, <2>2
<1>4. Max(Range(closes)) \in Int
  <2> HIDE DEF closes
  <2> QED BY <1>3, HighIsAClose
<1>5. DailyReading(entered, h, day).close \in Int
  BY <1>2 DEF DailyReading, Last
<1>6. DailyReading(entered, h, day).trailing \in Int \cup {NoValue}
  <2> DEFINE high == Max(Range(closes))
  <2>1. DailyReading(entered, h, day).trailing
          = IF Known(h.atr) THEN AtrStop(high, h.atr, Rules.trailingAtr) ELSE NoValue
    BY DEF DailyReading
  <2> HIDE DEF high
  <2>2. Known(h.atr) => AtrStop(high, h.atr, Rules.trailingAtr) \in Int
    <3>1. Known(h.atr) => h.atr \in Int
      BY DEF Known
    <3>2. high \in Int /\ Rules.trailingAtr \in Int
      BY <1>4, RulesAssumption DEF high
    <3> QED BY <3>1, <3>2 DEF AtrStop
  <2> QED BY <2>1, <2>2
<1> QED
  BY <1>5, <1>6

\* The observation that a time had before does not matter to what replaces it.
LEMMA MergeTwice ==
  ASSUME NEW journal, NEW time, NEW x, NEW y
  PROVE  Merge(Merge(journal, time, x), time, y) = Merge(journal, time, y)
BY DEF Merge

\* The sequence of a finite set is a sequence of its elements.
LEMMA SetToSeqType ==
  ASSUME NEW S, IsFiniteSet(S)
  PROVE  SetToSeq(S) \in Seq(S)
<1>1. Cardinality(S) \in Nat /\ ExistsBijection(1 .. Cardinality(S), S)
  BY FS_CardinalityType
<1>2. \E f \in [1 .. Cardinality(S) -> S] : IsInjective(f)
  BY <1>1 DEF ExistsBijection, Bijection, Injection, IsInjective
<1>3. SetToSeq(S) \in [1 .. Cardinality(S) -> S]
  BY <1>2 DEF SetToSeq
<1> QED
  BY <1>1, <1>3, SeqDef

-----------------------------------------------------------------------------
(* What the two reviews have in common                                     *)

Reported == DOMAIN report.rows

\* A review of a kind advises on what it kept of earlier times, and then keeps
\* what it advised in the place of what it had kept of the same time; what is
\* not held any more may be dropped.
Reviews(kind, time, type, dropped) ==
  /\ UNCHANGED <<positions, unlogged, untold>>
  /\ report'.kind = kind /\ report'.at = time /\ report'.positions = positions
  /\ Reported' \subseteq HeldSymbols
  /\ report'.rows = [s \in Reported' |-> report'.rows[s]]
  /\ DOMAIN report'.readings = Reported'
  /\ \A s \in Reported' :
       /\ report'.rows[s] = Advice(kind, positions[s], report'.readings[s], Kept(kind, s), time)
       /\ \E obs : /\ obs.action = report'.rows[s].action
                   /\ Kept(kind, s)' = Merge(Kept(kind, s), time, obs)
       /\ kind = "daily" => /\ report'.readings[s].close \in Int
                            /\ report'.readings[s].trailing \in Int \cup {NoValue}
  /\ \A s \in Holdings \ Reported' :
       Kept(kind, s)' = IF s \in dropped THEN NoObservations ELSE Kept(kind, s)
  /\ \A other \in Kinds \ {kind}, s \in Holdings : Kept(other, s)' = Kept(other, s)
  /\ trajectories' = [s \in Holdings |-> trajectories'[s]]
  /\ session' = [s \in Holdings |-> session'[s]]
  /\ LET now  == {<<kind, s, time>> : s \in Reported'}
         gone == {k \in DOMAIN told : k[1] = kind /\ k[2] \in dropped}
     IN told' = [ k \in (DOMAIN told \ gone) \cup now |->
                    IF k \in now THEN report'.rows[k[2]].action ELSE told[k] ]
  /\ log' = AppendEvents(log, {Decision(type, s, time) : s \in Reported'})

\* The daily review is one.
LEMMA DailyReviews ==
  ASSUME JournalsTyped, BooksTyped,
         NEW histories \in Histories, NEW day \in 1 .. LastDay, ReviewPortfolio(histories, day)
  PROVE  \E dropped \in SUBSET (Holdings \ HeldSymbols) :
           Reviews("daily", day, "reviewed", dropped)
<1> DEFINE reading(s) == DailyReading(Entered(positions[s]), histories[s], day)
           rows == [ s \in Reviewed(histories) |->
                       PortfolioRow(positions[s], trajectories[s], reading(s), day) ]
           dropped == IF HeldSymbols = {} THEN {} ELSE Holdings \ HeldSymbols
<1>1. /\ PortfolioWorkflow(day, rows)
      /\ LogDecisions("reviewed", day, rows)
      /\ UNCHANGED <<positions, unlogged, session, untold>>
  BY DEF ReviewPortfolio
<1>2. DOMAIN rows = Reviewed(histories) /\ DOMAIN rows \subseteq HeldSymbols
  BY DEF Reviewed
<1>3. \A s \in DOMAIN rows :
        /\ rows[s].reading = reading(s)
        /\ rows[s].decision = Advice("daily", positions[s], reading(s), trajectories[s], day)
        /\ rows[s].observation.action = rows[s].decision.action
  <2> TAKE s \in DOMAIN rows
  <2>1. rows[s] = PortfolioRow(positions[s], trajectories[s], reading(s), day)
    OBVIOUS
  <2> HIDE DEF rows, reading
  <2> QED BY <2>1 DEF PortfolioRow, Advice, DailyObservation
<1>4. \A s \in DOMAIN rows : reading(s).close \in Int /\ reading(s).trailing \in Int \cup {NoValue}
  <2> TAKE s \in DOMAIN rows
  <2>1. s \in Holdings /\ positions[s] # NoValue /\ histories[s] # NoValue
    BY <1>2 DEF Reviewed, HeldSymbols
  <2>2. positions[s] \in ExistingPosition
    BY <2>1 DEF BooksTyped
  <2>3. positions[s].trade \in Trades
    BY <2>2 DEF ExistingPosition
  <2>4. Entered(positions[s]) \in Int
    BY <2>3 DEF Trades, Entered
  <2>5. histories[s].closes \in Seq(Nat) \ {<<>>} /\ histories[s].atr \in Int \cup {NoValue}
    BY <2>1, HistoriesAssumption
  <2>6. day \in Int
    OBVIOUS
  <2> QED BY <2>4, <2>5, <2>6, ReadingIsTyped
<1> HIDE DEF rows, reading
<1>5. /\ Report("daily", day, rows, dropped)
      /\ HeldSymbols = {} => UNCHANGED trajectories
      /\ HeldSymbols # {} => UpdateTrajectories(day, rows)
  <2>1. CASE HeldSymbols = {}
    BY <1>1, <2>1 DEF PortfolioWorkflow
  <2>2. CASE HeldSymbols # {}
    BY <1>1, <2>2 DEF PortfolioWorkflow
  <2> QED BY <2>1, <2>2
<1>6. /\ report'.kind = "daily" /\ report'.at = day /\ report'.positions = positions
      /\ report'.readings = [s \in DOMAIN rows |-> rows[s].reading]
      /\ report'.rows = [s \in DOMAIN rows |-> rows[s].decision]
  BY <1>5 DEF Report
<1>7. Reported' = DOMAIN rows /\ DOMAIN report'.readings = Reported'
  BY <1>6 DEF Reported
<1>8. report'.rows = [s \in Reported' |-> report'.rows[s]]
  BY <1>6, <1>7
<1>9. \A s \in Reported' :
        /\ report'.rows[s] = rows[s].decision
        /\ report'.readings[s] = reading(s)
  BY <1>3, <1>6, <1>7
<1>10. \A s \in Reported' :
         /\ report'.rows[s]
              = Advice("daily", positions[s], report'.readings[s], Kept("daily", s), day)
         /\ report'.readings[s].close \in Int
         /\ report'.readings[s].trailing \in Int \cup {NoValue}
  BY <1>3, <1>4, <1>7, <1>9 DEF Kept
<1>11. trajectories' = [s \in Holdings |-> trajectories'[s]]
       /\ \A s \in Holdings :
            trajectories'[s] = IF s \in DOMAIN rows
                               THEN Merge(trajectories[s], day, rows[s].observation)
                               ELSE IF s \in dropped THEN NoObservations ELSE trajectories[s]
  <2>1. CASE HeldSymbols = {}
    <3>1. trajectories' = trajectories /\ DOMAIN rows = {} /\ dropped = {}
      BY <1>2, <1>5, <2>1
    <3> QED BY <3>1 DEF JournalsTyped
  <2>2. CASE HeldSymbols # {}
    <3>1. UpdateTrajectories(day, rows) /\ dropped = Holdings \ HeldSymbols
      BY <1>5, <2>2
    <3> HIDE DEF dropped
    <3>2. \A s \in DOMAIN rows : s \in HeldSymbols
      BY <1>2
    <3> QED BY <3>1, <3>2 DEF UpdateTrajectories
  <2> QED BY <2>1, <2>2
<1>12. \A s \in Reported' :
         \E obs : /\ obs.action = report'.rows[s].action
                  /\ Kept("daily", s)' = Merge(Kept("daily", s), day, obs)
  <2> TAKE s \in Reported'
  <2>1. s \in DOMAIN rows /\ s \in Holdings
    BY <1>2, <1>7 DEF HeldSymbols
  <2>2. rows[s].observation.action = report'.rows[s].action
    BY <1>3, <1>9, <2>1
  <2>3. Kept("daily", s)' = Merge(Kept("daily", s), day, rows[s].observation)
    BY <1>11, <2>1 DEF Kept
  <2> QED BY <2>2, <2>3
<1>13. \A s \in Holdings \ Reported' :
         Kept("daily", s)' = IF s \in dropped THEN NoObservations ELSE Kept("daily", s)
  BY <1>7, <1>11 DEF Kept
<1>14. \A other \in Kinds \ {"daily"}, s \in Holdings : Kept(other, s)' = Kept(other, s)
  BY <1>1 DEF Kept, Kinds
<1>15. session' = [s \in Holdings |-> session'[s]]
  BY <1>1 DEF JournalsTyped
<1>16. LET now  == {<<"daily", s, day>> : s \in Reported'}
           gone == {k \in DOMAIN told : k[1] = "daily" /\ k[2] \in dropped}
       IN told' = [ k \in (DOMAIN told \ gone) \cup now |->
                      IF k \in now THEN report'.rows[k[2]].action ELSE told[k] ]
  <2> HIDE DEF dropped
  <2> DEFINE now == {<<"daily", s, day>> : s \in Reported'}
             gone == {k \in DOMAIN told : k[1] = "daily" /\ k[2] \in dropped}
  <2>1. told' = [ k \in (DOMAIN told \ gone) \cup now |->
                    IF k \in now THEN rows[k[2]].decision.action ELSE told[k] ]
    BY <1>5, <1>7 DEF Report
  <2>2. \A k \in now : rows[k[2]].decision.action = report'.rows[k[2]].action
    BY <1>9
  <2> QED BY <2>1, <2>2
<1>17. log' = AppendEvents(log, {Decision("reviewed", s, day) : s \in Reported'})
  BY <1>1, <1>7 DEF LogDecisions
<1>18. dropped \in SUBSET (Holdings \ HeldSymbols)
  OBVIOUS
<1>19. Reviews("daily", day, "reviewed", dropped)
  <2> HIDE DEF dropped
  <2> QED BY <1>1, <1>2, <1>6, <1>7, <1>8, <1>10, <1>11, <1>12, <1>13, <1>14, <1>15, <1>16, <1>17
          DEF Reviews
<1> QED
  BY <1>18, <1>19

\* So is the intraday review, which drops nothing.
LEMMA IntradayReviews ==
  ASSUME JournalsTyped, BooksTyped,
         NEW tapes \in Tapes, NEW bar \in 1 .. LastBar, ReviewIntraday(tapes, bar)
  PROVE  Reviews("intraday", bar, "polled", {})
<1> DEFINE reading(s) == SessionReading(SubSeq(tapes[s].bars, 1, bar), tapes[s].benchmark,
                                        tapes[s].context)
           rows == [ s \in Reviewed(tapes) |->
                       IntradayRow(positions[s], session[s], reading(s), bar) ]
<1>1. /\ IntradayWorkflow(bar, rows)
      /\ LogDecisions("polled", bar, rows)
      /\ UNCHANGED <<positions, unlogged, trajectories, untold>>
  BY DEF ReviewIntraday
<1>2. DOMAIN rows = Reviewed(tapes) /\ DOMAIN rows \subseteq HeldSymbols
  BY DEF Reviewed
<1>3. \A s \in DOMAIN rows :
        /\ rows[s].reading = reading(s)
        /\ rows[s].decision = Advice("intraday", positions[s], reading(s), session[s], bar)
        /\ rows[s].observation.action = rows[s].decision.action
  <2> TAKE s \in DOMAIN rows
  <2>1. rows[s] = IntradayRow(positions[s], session[s], reading(s), bar)
    OBVIOUS
  <2> HIDE DEF rows, reading
  <2> QED BY <2>1 DEF IntradayRow, Advice, IntradayObservation
<1> HIDE DEF rows, reading
<1>4. Report("intraday", bar, rows, {}) /\ UpdateSession(bar, rows)
  BY <1>1 DEF IntradayWorkflow
<1>5. /\ report'.kind = "intraday" /\ report'.at = bar /\ report'.positions = positions
      /\ report'.readings = [s \in DOMAIN rows |-> rows[s].reading]
      /\ report'.rows = [s \in DOMAIN rows |-> rows[s].decision]
  BY <1>4 DEF Report
<1>6. Reported' = DOMAIN rows /\ DOMAIN report'.readings = Reported'
  BY <1>5 DEF Reported
<1>7. report'.rows = [s \in Reported' |-> report'.rows[s]]
  BY <1>5, <1>6
<1>8. \A s \in Reported' :
        /\ report'.rows[s] = rows[s].decision
        /\ report'.readings[s] = reading(s)
  BY <1>3, <1>5, <1>6
<1>9. \A s \in Reported' :
        report'.rows[s]
          = Advice("intraday", positions[s], report'.readings[s], Kept("intraday", s), bar)
  BY <1>3, <1>6, <1>8 DEF Kept
<1>10. session' = [s \in Holdings |-> session'[s]]
       /\ \A s \in Holdings :
            session'[s] = IF s \in DOMAIN rows
                          THEN Merge(session[s], bar, rows[s].observation) ELSE session[s]
  BY <1>4 DEF UpdateSession
<1>11. \A s \in Reported' :
         \E obs : /\ obs.action = report'.rows[s].action
                  /\ Kept("intraday", s)' = Merge(Kept("intraday", s), bar, obs)
  <2> TAKE s \in Reported'
  <2>1. s \in DOMAIN rows /\ s \in Holdings
    BY <1>2, <1>6 DEF HeldSymbols
  <2>2. rows[s].observation.action = report'.rows[s].action
    BY <1>3, <1>8, <2>1
  <2>3. Kept("intraday", s)' = Merge(Kept("intraday", s), bar, rows[s].observation)
    BY <1>10, <2>1 DEF Kept
  <2> QED BY <2>2, <2>3
<1>12. \A s \in Holdings \ Reported' : Kept("intraday", s)' = Kept("intraday", s)
  BY <1>6, <1>10 DEF Kept
<1>13. \A other \in Kinds \ {"intraday"}, s \in Holdings : Kept(other, s)' = Kept(other, s)
  BY <1>1 DEF Kept, Kinds
<1>14. trajectories' = [s \in Holdings |-> trajectories'[s]]
  BY <1>1 DEF JournalsTyped
<1>15. LET now  == {<<"intraday", s, bar>> : s \in Reported'}
           gone == {k \in DOMAIN told : k[1] = "intraday" /\ k[2] \in {}}
       IN told' = [ k \in (DOMAIN told \ gone) \cup now |->
                      IF k \in now THEN report'.rows[k[2]].action ELSE told[k] ]
  <2> DEFINE now == {<<"intraday", s, bar>> : s \in Reported'}
             gone == {k \in DOMAIN told : k[1] = "intraday" /\ k[2] \in {}}
  <2>1. told' = [ k \in (DOMAIN told \ gone) \cup now |->
                    IF k \in now THEN rows[k[2]].decision.action ELSE told[k] ]
    BY <1>4, <1>6 DEF Report
  <2>2. \A k \in now : rows[k[2]].decision.action = report'.rows[k[2]].action
    BY <1>8
  <2> QED BY <2>1, <2>2
<1>16. log' = AppendEvents(log, {Decision("polled", s, bar) : s \in Reported'})
  BY <1>1, <1>6 DEF LogDecisions
<1> QED
  BY <1>1, <1>2, <1>5, <1>6, <1>7, <1>9, <1>10, <1>11, <1>12, <1>13, <1>14, <1>15, <1>16 DEF Reviews

-----------------------------------------------------------------------------
(* What a review adds to the log                                           *)

\* A review appends events of its own type and changes none.
LEMMA ReviewsAreLogged ==
  ASSUME BooksTyped, NEW kind, NEW time \in Int, NEW type \in {"reviewed", "polled"},
         NEW dropped, Reviews(kind, time, type, dropped)
  PROVE  /\ log' \in Seq(TradeFeedbackEvent)
         /\ DOMAIN log \subseteq DOMAIN log'
         /\ \A i \in DOMAIN log : log'[i] = log[i]
         /\ \A i \in DOMAIN log' \ DOMAIN log : log'[i].type \in {"reviewed", "polled"}
<1> DEFINE D == Reported'
           Event == [s \in D |-> Decision(type, s, time)]
           ids == {Decision(type, s, time) : s \in D}
           fresh == {e \in ids : ~Logged(log, e)}
<1>1. D \subseteq HeldSymbols /\ log' = log \o SetToSeq(fresh)
  BY DEF Reviews, AppendEvents
<1>2. D \subseteq Holdings /\ IsFiniteSet(D)
  <2>1. D \in SUBSET Holdings
    BY <1>1 DEF HeldSymbols
  <2> HIDE DEF D
  <2> QED BY <2>1, HoldingsAssumption, FS_Subset
<1>3. \A s \in D : Decision(type, s, time) \in TradeFeedbackEvent
                   /\ Decision(type, s, time).type \in {"reviewed", "polled"}
  <2> TAKE s \in D
  <2>1. s \in Holdings /\ positions[s] \in ExistingPosition
    BY <1>1 DEF HeldSymbols, BooksTyped
  <2>2. positions[s].trade \in Trades
    BY <2>1 DEF ExistingPosition
  <2>3. Decision(type, s, time)
          = [type |-> type, symbol |-> s, at |-> time, trade |-> positions[s].trade, stop |-> NoValue]
    BY DEF Decision, FeedbackEvent
  <2>4. type \in {"executed", "stop_raised", "stop_updated", "closed", "reviewed", "polled"}
    OBVIOUS
  <2> HIDE DEF D
  <2> QED BY <2>1, <2>2, <2>3, <2>4 DEF TradeFeedbackEvent
<1> HIDE DEF D
<1>4. IsFiniteSet(ids)
  <2>1. Event \in Surjection(D, ids)
    BY DEF Surjection
  <2> HIDE DEF Event, ids
  <2> QED BY <1>2, <2>1, FS_Surjection
<1>5. IsFiniteSet(fresh) /\ fresh \subseteq TradeFeedbackEvent
      /\ \A e \in fresh : e.type \in {"reviewed", "polled"}
  <2>1. fresh \in SUBSET ids
    OBVIOUS
  <2>2. \A e \in ids : e \in TradeFeedbackEvent /\ e.type \in {"reviewed", "polled"}
    BY <1>3
  <2> HIDE DEF fresh, ids
  <2> QED BY <1>4, <2>1, <2>2, FS_Subset
<1> HIDE DEF fresh
<1> DEFINE more == SetToSeq(fresh)
<1>6. more \in Seq(fresh)
  BY <1>5, SetToSeqType
<1> HIDE DEF more
<1>7. more \in Seq(TradeFeedbackEvent) /\ \A i \in 1 .. Len(more) : more[i] \in fresh
  BY <1>5, <1>6, ElementOfSeq, SeqMonotonic
<1>8. log \in Seq(TradeFeedbackEvent) /\ DOMAIN log = 1 .. Len(log) /\ Len(log) \in Nat
      /\ Len(more) \in Nat
  BY <1>7 DEF BooksTyped
<1>9. /\ log' \in Seq(TradeFeedbackEvent)
      /\ Len(log') = Len(log) + Len(more)
      /\ \A i \in 1 .. Len(log) + Len(more) :
           log'[i] = IF i <= Len(log) THEN log[i] ELSE more[i - Len(log)]
  BY <1>1, <1>7, <1>8, ConcatProperties DEF more
<1>10. DOMAIN log' = 1 .. (Len(log) + Len(more))
  BY <1>9
<1>11. \A i \in DOMAIN log' \ DOMAIN log : log'[i] \in fresh
  <2> TAKE i \in DOMAIN log' \ DOMAIN log
  <2>1. i \in 1 .. Len(log) + Len(more) /\ ~(i <= Len(log)) /\ i - Len(log) \in 1 .. Len(more)
    BY <1>8, <1>10
  <2> QED BY <1>7, <1>9, <2>1
<1> QED
  BY <1>5, <1>8, <1>9, <1>10, <1>11

\* The last trade event of a symbol stays the last.
LEMMA ReviewsTellNothing ==
  ASSUME DOMAIN log \subseteq DOMAIN log',
         \A i \in DOMAIN log : log'[i] = log[i],
         \A i \in DOMAIN log' \ DOMAIN log : log'[i].type \in {"reviewed", "polled"},
         positions' = positions,
         NEW s
  PROVE  LogTells(s)' <=> LogTells(s)
<1>1. TradeEvents(s)' = TradeEvents(s)
  BY DEF TradeEvents
<1>2. \A i \in TradeEvents(s) : log'[i] = log[i]
  BY DEF TradeEvents
<1> QED
  BY <1>1, <1>2 DEF LogTells, Tells

-----------------------------------------------------------------------------
(* The invariant is inductive                                              *)

LEMMA AdviceIsAnAction ==
  ASSUME NEW kind, NEW p, NEW r, NEW journal, NEW time
  PROVE  Advice(kind, p, r, journal, time).action \in Actions
<1>1. \A t : ReviewDecision(p, r, t).action \in Actions
  BY DEF ReviewDecision, Actions
<1>2. \A t : IntradayDecision(p, r, t).action \in Actions
  BY DEF IntradayDecision, Actions
<1> QED
  BY <1>1, <1>2 DEF Advice

\* The observation of the time itself does not matter to an advice.
LEMMA AdviceReplaces ==
  ASSUME NEW kind, NEW p, NEW r, NEW journal, NEW time, NEW obs
  PROVE  Advice(kind, p, r, Merge(journal, time, obs), time) = Advice(kind, p, r, journal, time)
BY MergeTwice DEF Advice, PreviewTrajectory, PreviewSession

\* The journals, the books and the report are typed after a review, too.
LEMMA ReviewsKeepTypes ==
  ASSUME JournalsTyped, BooksTyped,
         NEW kind \in Kinds, NEW time \in 1 .. (IF kind = "daily" THEN LastDay ELSE LastBar),
         NEW type \in {"reviewed", "polled"}, NEW dropped, Reviews(kind, time, type, dropped)
  PROVE  JournalsTyped' /\ BooksTyped' /\ ReportTyped'
<1> DEFINE Bound(k) == IF k = "daily" THEN LastDay ELSE LastBar
           Good(k, s, journal) ==
             \A t \in DOMAIN journal : t \in 1 .. Bound(k) /\ journal[t].action \in Actions
<1>1. Reported' \subseteq Holdings
  BY DEF Reviews, HeldSymbols
<1>2. \A s \in Holdings : Good("daily", s, trajectories[s]) /\ Good("intraday", s, session[s])
  BY DEF JournalsTyped
<1>3. \A k \in Kinds, s \in Holdings : Good(k, s, Kept(k, s))
  BY <1>2 DEF Kept, Kinds
<1>4. \A k \in Kinds, s \in Holdings : Good(k, s, Kept(k, s)')
  <2> TAKE k \in Kinds, s \in Holdings
  <2>1. CASE k # kind
    <3>1. Kept(k, s)' = Kept(k, s)
      BY <2>1 DEF Reviews
    <3> HIDE DEF Good
    <3> QED BY <1>3, <3>1
  <2>2. CASE k = kind /\ s \notin Reported'
    <3>1. Kept(k, s)' = NoObservations \/ Kept(k, s)' = Kept(k, s)
      BY <2>2 DEF Reviews
    <3>2. Good(k, s, NoObservations)
      BY DEF NoObservations
    <3> HIDE DEF Good
    <3> QED BY <1>3, <3>1, <3>2
  <2>3. CASE k = kind /\ s \in Reported'
    <3>1. PICK obs : /\ obs.action = report'.rows[s].action
                     /\ Kept(k, s)' = Merge(Kept(k, s), time, obs)
      BY <2>3 DEF Reviews
    <3>2. report'.rows[s] = Advice(kind, positions[s], report'.readings[s], Kept(kind, s), time)
      BY <2>3 DEF Reviews
    <3>3. obs.action \in Actions
      BY <3>1, <3>2, AdviceIsAnAction
    <3> DEFINE journal == Kept(k, s)
    <3>4. Good(k, s, journal) /\ time \in 1 .. Bound(k)
      BY <1>3, <2>3
    <3> HIDE DEF journal
    <3>5. Good(k, s, Merge(journal, time, obs))
      BY <3>3, <3>4 DEF Merge
    <3> QED BY <3>1, <3>5 DEF journal
  <2> QED BY <2>1, <2>2, <2>3
<1>5. JournalsTyped'
  <2>1. \A s \in Holdings : Good("daily", s, trajectories'[s]) /\ Good("intraday", s, session'[s])
    <3>1. "daily" \in Kinds /\ "intraday" \in Kinds
      BY DEF Kinds
    <3>2. \A s \in Holdings : /\ Kept("daily", s)' = trajectories'[s]
                              /\ Kept("intraday", s)' = session'[s]
      BY DEF Kept
    <3> HIDE DEF Good
    <3> QED BY <1>4, <3>1, <3>2
  <2> QED BY <2>1 DEF JournalsTyped, Reviews
<1>6. BooksTyped'
  <2>1. time \in Int
    OBVIOUS
  <2>2. log' \in Seq(TradeFeedbackEvent)
    BY <2>1, ReviewsAreLogged
  <2> QED BY <2>2 DEF BooksTyped, Reviews
<1>7. ReportTyped'
  <2>1. /\ report'.kind = kind /\ report'.positions = positions
        /\ report'.rows = [s \in DOMAIN report'.rows |-> report'.rows[s]]
        /\ DOMAIN report'.readings = DOMAIN report'.rows
    BY DEF Reviews, Reported
  <2>2. \A s \in DOMAIN report'.rows :
          /\ s \in Holdings /\ positions[s] # NoValue
          /\ kind = "daily" => /\ report'.readings[s].close \in Int
                               /\ report'.readings[s].trailing \in Int \cup {NoValue}
    BY DEF Reviews, Reported, HeldSymbols
  <2>3. report'.kind # "none"
    BY <2>1 DEF Kinds
  <2> QED BY <2>1, <2>2, <2>3 DEF ReportTyped, BooksTyped
<1> QED
  BY <1>5, <1>6, <1>7

\* What a review tells is what it keeps.
LEMMA ReviewsKeepTold ==
  ASSUME JournalsTyped, ToldIsKept,
         NEW kind \in Kinds, NEW time \in Int, NEW type, NEW dropped \in SUBSET (Holdings \ HeldSymbols),
         Reviews(kind, time, type, dropped), JournalsTyped'
  PROVE  ToldIsKept'
<1> DEFINE D == Reported'
           now  == {<<kind, s, time>> : s \in D}
           gone == {k \in DOMAIN told : k[1] = kind /\ k[2] \in dropped}
<1>1. D \subseteq Holdings /\ D \cap dropped = {}
  BY DEF Reviews, HeldSymbols
<1>2. told' = [ k \in (DOMAIN told \ gone) \cup now |->
                  IF k \in now THEN report'.rows[k[2]].action ELSE told[k] ]
  BY DEF Reviews
<1>3. \A s \in D : \E obs : /\ obs.action = report'.rows[s].action
                            /\ Kept(kind, s)' = Merge(Kept(kind, s), time, obs)
  BY DEF Reviews
<1>4. \A s \in Holdings \ D :
        Kept(kind, s)' = IF s \in dropped THEN NoObservations ELSE Kept(kind, s)
  BY DEF Reviews
<1>5. \A other \in Kinds \ {kind}, s \in Holdings : Kept(other, s)' = Kept(other, s)
  BY DEF Reviews
<1> HIDE DEF D, now, gone
<1>6. \A k \in Kinds \X Holdings \X Int :
        /\ k \in DOMAIN told' <=> k[3] \in DOMAIN Kept(k[1], k[2])'
        /\ k \in DOMAIN told' => told'[k] = Kept(k[1], k[2])'[k[3]].action
  <2> TAKE k \in Kinds \X Holdings \X Int
  <2>1. k = <<k[1], k[2], k[3]>> /\ k[1] \in Kinds /\ k[2] \in Holdings /\ k[3] \in Int
    OBVIOUS
  <2>2. k \in DOMAIN told <=> k[3] \in DOMAIN Kept(k[1], k[2])
    BY DEF ToldIsKept
  <2>3. k \in DOMAIN told => told[k] = Kept(k[1], k[2])[k[3]].action
    BY DEF ToldIsKept
  <2>4. k \in now <=> k[1] = kind /\ k[2] \in D /\ k[3] = time
    BY <2>1 DEF now
  <2>5. k \in gone <=> k \in DOMAIN told /\ k[1] = kind /\ k[2] \in dropped
    BY DEF gone
  <2>6. CASE k[1] # kind
    <3>1. k \notin now /\ k \notin gone
      BY <2>4, <2>5, <2>6
    <3>2. Kept(k[1], k[2])' = Kept(k[1], k[2])
      BY <1>5, <2>1, <2>6
    <3> QED BY <1>2, <2>2, <2>3, <3>1, <3>2
  <2>7. CASE k[1] = kind /\ k[2] \notin D
    <3>1. k \notin now
      BY <2>4, <2>7
    <3>2. Kept(k[1], k[2])' = IF k[2] \in dropped THEN NoObservations ELSE Kept(k[1], k[2])
      BY <1>4, <2>1, <2>7
    <3>3. DOMAIN NoObservations = {}
      BY DEF NoObservations
    <3>4. CASE k[2] \in dropped
      BY <1>2, <2>5, <2>7, <3>1, <3>2, <3>3, <3>4
    <3>5. CASE k[2] \notin dropped
      BY <1>2, <2>2, <2>3, <2>5, <3>1, <3>2, <3>5
    <3> QED BY <3>4, <3>5
  <2>8. CASE k[1] = kind /\ k[2] \in D
    <3>1. PICK obs : /\ obs.action = report'.rows[k[2]].action
                     /\ Kept(k[1], k[2])' = Merge(Kept(k[1], k[2]), time, obs)
      BY <1>3, <2>8
    <3>2. k \notin gone
      BY <1>1, <2>5, <2>8
    <3> DEFINE journal == Kept(k[1], k[2])
    <3>3. /\ DOMAIN Merge(journal, time, obs) = DOMAIN journal \cup {time}
          /\ k[3] = time => Merge(journal, time, obs)[k[3]] = obs
          /\ k[3] # time /\ k[3] \in DOMAIN journal
               => Merge(journal, time, obs)[k[3]] = journal[k[3]]
      BY DEF Merge
    <3> HIDE DEF journal
    <3>4. CASE k[3] = time
      <4>1. k \in now
        BY <2>4, <2>8, <3>4
      <4> QED BY <1>2, <3>1, <3>3, <3>4, <4>1 DEF journal
    <3>5. CASE k[3] # time
      <4>1. k \notin now
        BY <2>4, <3>5
      <4>2. k \in DOMAIN told' <=> k \in DOMAIN told
        BY <1>2, <3>2, <4>1
      <4>3. k \in DOMAIN told => told'[k] = told[k]
        BY <1>2, <3>2, <4>1
      <4> QED BY <2>2, <2>3, <3>1, <3>3, <3>5, <4>2, <4>3 DEF journal
    <3> QED BY <3>4, <3>5
  <2> QED BY <2>6, <2>7, <2>8
<1>7. DOMAIN told' \subseteq Kinds \X Holdings \X Int
  <2>1. now \subseteq Kinds \X Holdings \X Int
    BY <1>1 DEF now
  <2>2. DOMAIN told \subseteq Kinds \X Holdings \X Int
    BY DEF ToldIsKept
  <2> QED BY <1>2, <2>1, <2>2
<1> QED
  BY <1>6, <1>7 DEF ToldIsKept

LEMMA ReviewsKeepInvariant ==
  ASSUME IInv,
         NEW kind \in Kinds, NEW time \in 1 .. (IF kind = "daily" THEN LastDay ELSE LastBar),
         NEW type \in {"reviewed", "polled"}, NEW dropped \in SUBSET (Holdings \ HeldSymbols),
         Reviews(kind, time, type, dropped)
  PROVE  IInv'
<1> USE DEF IInv
<1>1. time \in Int
  OBVIOUS
<1>2. JournalsTyped' /\ BooksTyped' /\ ReportTyped'
  BY ReviewsKeepTypes
<1>3. ToldIsKept'
  BY <1>1, <1>2, ReviewsKeepTold
<1>4. OnlyTradesPend'
  BY DEF OnlyTradesPend, Reviews
<1>5. LogFollows'
  <2>1. \A s \in Holdings : LogTells(s)' <=> LogTells(s)
    <3> TAKE s \in Holdings
    <3>1. /\ DOMAIN log \subseteq DOMAIN log'
          /\ \A i \in DOMAIN log : log'[i] = log[i]
          /\ \A i \in DOMAIN log' \ DOMAIN log : log'[i].type \in {"reviewed", "polled"}
      BY <1>1, ReviewsAreLogged
    <3>2. positions' = positions
      BY DEF Reviews
    <3> QED BY <3>1, <3>2, ReviewsTellNothing
  <2>2. UNCHANGED <<positions, unlogged, untold>>
    BY DEF Reviews
  <2> QED BY <2>1, <2>2 DEF LogFollows, Tells
<1>6. RowsFollow'
  <2>1. /\ report'.kind = kind /\ report'.at = time /\ report'.positions = positions
        /\ DOMAIN report'.rows = Reported'
    BY DEF Reviews, Reported
  <2>2. \A s \in Reported' :
          report'.rows[s]
            = Advice(kind, positions[s], report'.readings[s], Kept(kind, s)', time)
    <3> TAKE s \in Reported'
    <3>1. report'.rows[s] = Advice(kind, positions[s], report'.readings[s], Kept(kind, s), time)
      BY DEF Reviews
    <3>2. PICK obs : Kept(kind, s)' = Merge(Kept(kind, s), time, obs)
      BY DEF Reviews
    <3> QED BY <3>1, <3>2, AdviceReplaces
  <2>3. \A s \in Holdings : Kept(report.kind, s)' = Kept(kind, s)'
    BY <2>1 DEF Kept
  <2>4. Reported' \subseteq Holdings
    BY DEF Reviews, HeldSymbols
  <2> QED BY <2>1, <2>2, <2>3, <2>4 DEF RowsFollow
<1> QED
  BY <1>2, <1>3, <1>4, <1>5, <1>6

\* A command changes a position and has the event that says so to append.
LEMMA CommandsKeepInvariant ==
  ASSUME IInv, NEW s \in Holdings, NEW position \in ExistingPosition \cup {NoValue},
         NEW event \in TradeFeedbackEvent,
         Write(s, position, event),
         UNCHANGED <<log, trajectories, session, report, untold, told>>,
         event.symbol = s, event.type \notin {"reviewed", "polled"},
         Tells(event, position)
  PROVE  IInv' /\ unlogged' # unlogged
<1> USE DEF IInv
<1>1. /\ unlogged = NoValue /\ unlogged' = event /\ event # NoValue
      /\ positions' = [positions EXCEPT ![s] = position]
  BY NoValueAssumption DEF Write
<1>2. positions' \in [Holdings -> ExistingPosition \cup {NoValue}]
      /\ positions'[s] = position
      /\ \A t \in Holdings \ {s} : positions'[t] = positions[t]
  BY <1>1 DEF BooksTyped
<1>3. JournalsTyped' /\ ReportTyped'
  BY DEF JournalsTyped, ReportTyped
<1>4. BooksTyped'
  BY <1>1, <1>2 DEF BooksTyped
<1>5. OnlyTradesPend'
  BY <1>1 DEF OnlyTradesPend
<1>6. LogFollows'
  <2>1. \A t \in Holdings \ {s} : LogTells(t) => LogTells(t)'
    BY <1>2 DEF LogTells, Tells, TradeEvents
  <2>2. \A t \in Holdings \ {s} : t \in untold' \/ LogTells(t)'
    BY <1>1, <2>1 DEF LogFollows
  <2>3. Tells(unlogged', positions'[s])
    BY <1>1, <1>2
  <2> QED BY <1>1, <2>2, <2>3 DEF LogFollows, Tells
<1>7. \A kind, t : Kept(kind, t)' = Kept(kind, t)
  BY DEF Kept
<1>8. ToldIsKept'
  BY <1>7 DEF ToldIsKept
<1>9. RowsFollow'
  BY <1>7 DEF RowsFollow, Kept
<1> QED
  BY <1>1, <1>3, <1>4, <1>5, <1>6, <1>8, <1>9

LEMMA UpsertsKeepInvariant ==
  ASSUME IInv, NEW s \in Holdings, NEW p \in Entries, NEW day \in 1 .. LastDate,
         UpsertHolding(s, p, day)
  PROVE  IInv' /\ unlogged' # unlogged
<1> DEFINE trade == TradeId(s, p, day)
           kept == MergedReference(s, p)
           position == [entry |-> p.entry, stop |-> p.stop, reference |-> kept,
                        trade |-> trade]
           event == FeedbackEvent("executed", s, day, trade, p.stop)
<1>1. p \in [entry : Nat, stop : Int \cup {NoValue}, reference : Int \cup {NoValue}]
  BY EntriesAssumption
<1>2. trade \in Trades
  <2>1. CASE positions[s] # NoValue
    <3>1. positions[s] \in ExistingPosition
      BY <2>1 DEF IInv, BooksTyped
    <3>2. positions[s].trade \in Trades
      BY <3>1 DEF ExistingPosition
    <3> QED BY <2>1, <3>2 DEF TradeId
  <2>2. CASE positions[s] = NoValue
    <3>1. trade = <<s, day, p.entry>>
      BY <2>2 DEF TradeId
    <3>2. p.entry \in Nat
      BY <1>1
    <3> QED BY <3>1, <3>2 DEF Trades
  <2> QED BY <2>1, <2>2
<1>3. /\ Write(s, position, event)
      /\ UNCHANGED <<log, trajectories, session, report, untold, told>>
  BY DEF UpsertHolding
<1>8. kept \in Int \cup {NoValue}
  <2>1. CASE Known(p.reference) \/ positions[s] = NoValue
    BY <1>1, <2>1 DEF MergedReference
  <2>2. CASE ~(Known(p.reference) \/ positions[s] = NoValue)
    <3>1. positions[s] \in ExistingPosition
      BY <2>2 DEF IInv, BooksTyped
    <3> QED BY <2>2, <3>1 DEF MergedReference, ExistingPosition
  <2> QED BY <2>1, <2>2
<1> HIDE DEF trade, kept
<1>4. position \in ExistingPosition
  BY <1>1, <1>2, <1>8 DEF ExistingPosition
<1>5. event = [type |-> "executed", symbol |-> s, at |-> day, trade |-> trade, stop |-> p.stop]
  BY DEF FeedbackEvent
<1>6. event \in TradeFeedbackEvent /\ event.symbol = s /\ event.type = "executed"
  BY <1>1, <1>2, <1>5 DEF TradeFeedbackEvent
<1>9. position # NoValue
  BY <1>4, NoValueAssumption
<1>7. Tells(event, position)
  BY <1>5, <1>9 DEF Tells
<1> HIDE DEF position, event
<1> QED
  BY <1>3, <1>4, <1>6, <1>7, CommandsKeepInvariant

LEMMA StopsKeepInvariant ==
  ASSUME IInv, NEW s \in Holdings, NEW stop \in Stops, NEW day \in 1 .. LastDate,
         UpdateStop(s, stop, day)
  PROVE  IInv' /\ unlogged' # unlogged
<1> DEFINE p == positions[s]
           type == IF Known(p.stop) /\ stop > p.stop THEN "stop_raised" ELSE "stop_updated"
           position == [p EXCEPT !.stop = stop]
           event == FeedbackEvent(type, s, day, p.trade, stop)
<1>1. p \in ExistingPosition
  BY DEF UpdateStop, HeldSymbols, IInv, BooksTyped
<1>2. stop \in Int
  BY EntriesAssumption
<1>3. p.trade \in Trades /\ position \in ExistingPosition
  BY <1>1, <1>2 DEF ExistingPosition
<1>4. /\ Write(s, position, event)
      /\ UNCHANGED <<log, trajectories, session, report, untold, told>>
  BY DEF UpdateStop
<1>5. type \in {"stop_raised", "stop_updated"}
  OBVIOUS
<1> HIDE DEF p, type
<1>6. event = [type |-> type, symbol |-> s, at |-> day, trade |-> p.trade, stop |-> stop]
  BY DEF FeedbackEvent
<1>7. event \in TradeFeedbackEvent /\ event.symbol = s /\ event.type = type
  BY <1>2, <1>3, <1>5, <1>6 DEF TradeFeedbackEvent
<1>8. Tells(event, position)
  <2>1. position # NoValue
    BY <1>3, NoValueAssumption
  <2>2. position.stop = stop /\ position.trade = p.trade
    BY <1>1 DEF ExistingPosition
  <2> QED BY <1>5, <1>6, <2>1, <2>2 DEF Tells
<1> HIDE DEF position, event
<1>9. type \notin {"reviewed", "polled"} /\ type # "closed"
  BY <1>5
<1> QED
  BY <1>3, <1>4, <1>7, <1>8, <1>9, CommandsKeepInvariant

LEMMA RemovalsKeepInvariant ==
  ASSUME IInv, NEW s \in Holdings, NEW day \in 1 .. LastDate, RemoveHolding(s, day)
  PROVE  IInv' /\ unlogged' # unlogged
<1> DEFINE trade == positions[s].trade
           stop == positions[s].stop
           event == FeedbackEvent("closed", s, day, trade, stop)
<1>1. positions[s] \in ExistingPosition
  BY DEF RemoveHolding, HeldSymbols, IInv, BooksTyped
<1>2. trade \in Trades /\ stop \in Int \cup {NoValue}
  BY <1>1 DEF ExistingPosition
<1>3. /\ Write(s, NoValue, event)
      /\ UNCHANGED <<log, trajectories, session, report, untold, told>>
  BY DEF RemoveHolding
<1> HIDE DEF trade, stop
<1>4. event = [type |-> "closed", symbol |-> s, at |-> day, trade |-> trade, stop |-> stop]
  BY DEF FeedbackEvent
<1>5. event \in TradeFeedbackEvent /\ event.symbol = s /\ event.type = "closed"
  BY <1>2, <1>4 DEF TradeFeedbackEvent
<1>6. Tells(event, NoValue)
  BY <1>4 DEF Tells
<1> HIDE DEF event
<1> QED
  BY <1>3, <1>5, <1>6, CommandsKeepInvariant

\* An event that the log takes for a duplicate repeats one that is there.
LEMMA DuplicatesRepeat ==
  ASSUME BooksTyped, NEW e \in TradeFeedbackEvent, Logged(log, e)
  PROVE  \E i \in DOMAIN log : Repeats(log[i], e)
<1>1. PICK i \in DOMAIN log : EventId(log[i]) = EventId(e)
  BY DEF Logged
<1>2. log[i] \in TradeFeedbackEvent
  BY DEF BooksTyped
<1> DEFINE old == log[i]
           Stop(x) == IF x.type \in AboutStops THEN x.stop ELSE NoValue
<1> HIDE DEF old
<1>3. \A x \in TradeFeedbackEvent :
        /\ EventId(x).type = x.type /\ EventId(x).symbol = x.symbol
        /\ EventId(x).at = x.at /\ EventId(x).trade = x.trade
        /\ EventId(x).stop = Stop(x)
  BY DEF EventId, TradeFeedbackEvent
<1>4. /\ old.type = e.type /\ old.symbol = e.symbol /\ old.at = e.at /\ old.trade = e.trade
      /\ Stop(old) = Stop(e)
  <2>1. old \in TradeFeedbackEvent /\ EventId(old) = EventId(e)
    BY <1>1, <1>2 DEF old
  <2> HIDE DEF Stop
  <2> QED BY <1>3, <2>1
<1>5. Repeats(old, e)
  BY <1>4 DEF Repeats
<1> QED
  BY <1>5 DEF old

\* An event that was not in the log becomes the last of its symbol.
LEMMA AppendsKeepInvariant ==
  ASSUME IInv, LogEvent
  PROVE  IInv' /\ steps' = steps
<1> USE DEF IInv
<1>1. /\ unlogged # NoValue /\ unlogged' = NoValue
      /\ log' = AppendEvent(log, unlogged)
      /\ untold' = IF log' # log THEN untold \ {unlogged.symbol}
                   ELSE IF \E i \in DOMAIN log : Repeats(log[i], unlogged)
                   THEN untold \cup {unlogged.symbol}
                   ELSE untold
      /\ UNCHANGED <<positions, trajectories, session, report, steps, told>>
  BY DEF LogEvent
<1>2. log \in Seq(TradeFeedbackEvent) /\ unlogged \in TradeFeedbackEvent
  BY <1>1 DEF BooksTyped
<1>7. unlogged.symbol \in Holdings
  BY <1>2 DEF TradeFeedbackEvent
<1> DEFINE longer == Append(log, unlogged)
<1>3. /\ longer \in Seq(TradeFeedbackEvent)
      /\ Len(longer) = Len(log) + 1
      /\ \A i \in 1 .. Len(log) : longer[i] = log[i]
      /\ longer[Len(log) + 1] = unlogged
  BY <1>2, AppendProperties
<1>8. JournalsTyped' /\ ReportTyped' /\ OnlyTradesPend'
  BY <1>1 DEF JournalsTyped, ReportTyped, OnlyTradesPend
<1>9. ToldIsKept' /\ RowsFollow'
  BY <1>1 DEF ToldIsKept, RowsFollow, Kept
<1>5. CASE Logged(log, unlogged)
  <2>1. log' = log
    BY <1>1, <1>5 DEF AppendEvent
  <2>2. untold' = untold \cup {unlogged.symbol}
    BY <1>1, <1>2, <1>5, <2>1, DuplicatesRepeat
  <2>3. BooksTyped'
    BY <1>1, <1>7, <2>1, <2>2 DEF BooksTyped
  <2>4. \A s \in Holdings : LogTells(s)' <=> LogTells(s)
    BY <1>1, <2>1 DEF LogTells, Tells, TradeEvents
  <2>5. LogFollows'
    BY <1>1, <2>2, <2>4 DEF LogFollows
  <2> QED BY <1>1, <1>8, <1>9, <2>3, <2>5
<1>6. CASE ~Logged(log, unlogged)
  <2>1. log' = longer
    BY <1>1, <1>6 DEF AppendEvent
  <2>10. Len(log) \in Nat /\ Len(log') # Len(log)
    BY <1>2, <1>3, <2>1
  <2>11. untold' = untold \ {unlogged.symbol}
    <3>1. log' # log
      BY <2>10
    <3> QED BY <1>1, <3>1
  <2> HIDE DEF longer
  <2>2. BooksTyped'
    BY <1>1, <1>3, <2>1, <2>11 DEF BooksTyped
  <2>3. /\ DOMAIN log = 1 .. Len(log) /\ Len(log) \in Nat
        /\ DOMAIN log' = 1 .. (Len(log) + 1)
    BY <1>2, <1>3, <2>1
  <2>4. unlogged.type \notin {"reviewed", "polled"}
    BY <1>1 DEF OnlyTradesPend
  <2>5. ASSUME NEW s \in Holdings, s = unlogged.symbol
        PROVE  LogTells(s)'
    <3>1. Len(log) + 1 \in TradeEvents(s)'
      BY <1>3, <2>1, <2>3, <2>4, <2>5 DEF TradeEvents
    <3>2. \A i \in TradeEvents(s)' : i \in Int /\ i <= Len(log) + 1
      BY <2>3 DEF TradeEvents
    <3>3. log'[Len(log) + 1] = unlogged
      BY <1>3, <2>1
    <3>4. Tells(unlogged, positions[s])
      BY <1>1, <2>5 DEF LogFollows
    <3>5. Tells(log'[Len(log) + 1], positions'[s])
      BY <1>1, <3>3, <3>4
    <3> QED BY <3>1, <3>2, <3>5 DEF LogTells, Tells
  <2>6. ASSUME NEW s \in Holdings, s # unlogged.symbol
        PROVE  LogTells(s)' <=> LogTells(s)
    <3>1. TradeEvents(s)' = TradeEvents(s) /\ \A i \in TradeEvents(s) : log'[i] = log[i]
      BY <1>3, <2>1, <2>3, <2>6 DEF TradeEvents
    <3> QED BY <1>1, <3>1 DEF LogTells, Tells
  <2>7. LogFollows'
    BY <1>1, <2>5, <2>6, <2>11 DEF LogFollows
  <2> QED BY <1>1, <1>8, <1>9, <2>2, <2>7
<1> QED
  BY <1>5, <1>6

LEMMA KillsKeepInvariant ==
  ASSUME IInv, Killed
  PROVE  IInv' /\ steps' = steps
<1> USE DEF IInv
<1>1. /\ unlogged # NoValue /\ unlogged' = NoValue
      /\ untold' = untold \cup {unlogged.symbol}
      /\ UNCHANGED <<positions, log, trajectories, session, report, steps, told>>
  BY DEF Killed
<1>2. unlogged.symbol \in Holdings
  BY <1>1 DEF BooksTyped, TradeFeedbackEvent
<1>3. BooksTyped' /\ JournalsTyped' /\ ReportTyped'
  BY <1>1, <1>2 DEF BooksTyped, JournalsTyped, ReportTyped
<1>4. \A s \in Holdings : LogTells(s)' <=> LogTells(s)
  BY <1>1 DEF LogTells, Tells, TradeEvents
<1>5. LogFollows' /\ OnlyTradesPend'
  BY <1>1, <1>4 DEF LogFollows, OnlyTradesPend
<1>6. ToldIsKept' /\ RowsFollow'
  BY <1>1 DEF ToldIsKept, RowsFollow, Kept
<1> QED
  BY <1>1, <1>3, <1>5, <1>6

LEMMA StuttersKeepInvariant ==
  ASSUME IInv, UNCHANGED positionVars
  PROVE  IInv'
<1> USE DEF IInv, positionVars
<1>1. BooksTyped' /\ JournalsTyped' /\ ReportTyped'
  BY DEF BooksTyped, JournalsTyped, ReportTyped
<1>2. LogFollows' /\ OnlyTradesPend'
  BY DEF LogFollows, OnlyTradesPend, LogTells, Tells, TradeEvents
<1>3. ToldIsKept'
  BY DEF ToldIsKept, Kept
<1>4. RowsFollow'
  BY DEF RowsFollow, Kept
<1> QED
  BY <1>1, <1>2, <1>3, <1>4

\* Every step keeps the invariant, and one that is neither a command nor an
\* append is a review.
LEMMA StepsKeepInvariant ==
  ASSUME IInv, [ReviewNext]_positionVars
  PROVE  /\ IInv'
         /\ IsReview =>
              \E kind \in Kinds, type \in {"reviewed", "polled"},
                 dropped \in SUBSET (Holdings \ HeldSymbols) :
                \E time \in 1 .. (IF kind = "daily" THEN LastDay ELSE LastBar) :
                  Reviews(kind, time, type, dropped)
<1> DEFINE SomeReview ==
             \E kind \in Kinds, type \in {"reviewed", "polled"},
                dropped \in SUBSET (Holdings \ HeldSymbols) :
               \E time \in 1 .. (IF kind = "daily" THEN LastDay ELSE LastBar) :
                 Reviews(kind, time, type, dropped)
<1>1. CASE \E s \in Holdings, p \in Entries, day \in 1 .. LastDate : UpsertHolding(s, p, day)
  BY <1>1, UpsertsKeepInvariant DEF IsReview
<1>2. CASE \E s \in Holdings, stop \in Stops, day \in 1 .. LastDate : UpdateStop(s, stop, day)
  BY <1>2, StopsKeepInvariant DEF IsReview
<1>3. CASE \E s \in Holdings, day \in 1 .. LastDate : RemoveHolding(s, day)
  BY <1>3, RemovalsKeepInvariant DEF IsReview
<1>4. CASE LogEvent
  BY <1>4, AppendsKeepInvariant DEF IsReview
<1>5. CASE Killed
  BY <1>5, KillsKeepInvariant DEF IsReview
<1>6. SomeReview => IInv'
  <2> SUFFICES ASSUME SomeReview
               PROVE  IInv'
    OBVIOUS
  <2>1. PICK kind \in Kinds, type \in {"reviewed", "polled"},
             dropped \in SUBSET (Holdings \ HeldSymbols) :
          \E time \in 1 .. (IF kind = "daily" THEN LastDay ELSE LastBar) :
            Reviews(kind, time, type, dropped)
    OBVIOUS
  <2>2. PICK time \in 1 .. (IF kind = "daily" THEN LastDay ELSE LastBar) :
          Reviews(kind, time, type, dropped)
    BY <2>1
  <2> QED BY <2>2, ReviewsKeepInvariant
<1>7. CASE \E histories \in Histories, day \in 1 .. LastDay : ReviewPortfolio(histories, day)
  <2>1. PICK histories \in Histories, day \in 1 .. LastDay : ReviewPortfolio(histories, day)
    BY <1>7
  <2>2. PICK dropped \in SUBSET (Holdings \ HeldSymbols) :
          Reviews("daily", day, "reviewed", dropped)
    BY <2>1, DailyReviews DEF IInv
  <2>3. SomeReview
    <3>1. "daily" \in Kinds /\ "reviewed" \in {"reviewed", "polled"}
      BY DEF Kinds
    <3>2. day \in 1 .. (IF "daily" = "daily" THEN LastDay ELSE LastBar)
      OBVIOUS
    <3> QED BY <2>2, <3>1, <3>2
  <2> HIDE DEF SomeReview
  <2>4. IInv'
    BY <1>6, <2>3
  <2> QED BY <2>3, <2>4 DEF SomeReview
<1>8. CASE \E tapes \in Tapes, bar \in 1 .. LastBar : ReviewIntraday(tapes, bar)
  <2>1. PICK tapes \in Tapes, bar \in 1 .. LastBar : ReviewIntraday(tapes, bar)
    BY <1>8
  <2>2. Reviews("intraday", bar, "polled", {})
    BY <2>1, IntradayReviews DEF IInv
  <2>3. SomeReview
    <3>1. /\ "intraday" \in Kinds /\ "polled" \in {"reviewed", "polled"}
          /\ {} \in SUBSET (Holdings \ HeldSymbols)
      BY DEF Kinds
    <3>2. bar \in 1 .. (IF "intraday" = "daily" THEN LastDay ELSE LastBar)
      OBVIOUS
    <3> QED BY <2>2, <3>1, <3>2
  <2> HIDE DEF SomeReview
  <2>4. IInv'
    BY <1>6, <2>3
  <2> QED BY <2>3, <2>4 DEF SomeReview
<1>9. CASE UNCHANGED positionVars
  <2>1. ~IsReview
    BY <1>9 DEF IsReview, positionVars
  <2> QED BY <1>9, <2>1, StuttersKeepInvariant
<1> QED
  BY <1>1, <1>2, <1>3, <1>4, <1>5, <1>7, <1>8, <1>9 DEF ReviewNext

LEMMA InitialInvariant ==
  ASSUME ReviewInit
  PROVE  IInv
<1> USE DEF ReviewInit
<1>1. DOMAIN NoObservations = {}
  BY DEF NoObservations
<1>2. JournalsTyped
  BY <1>1 DEF JournalsTyped
<1>3. BooksTyped
  <2>1. log \in Seq(TradeFeedbackEvent)
    BY EmptySeq
  <2>2. positions \in [Holdings -> ExistingPosition \cup {NoValue}]
    OBVIOUS
  <2> QED BY <2>1, <2>2 DEF BooksTyped
<1>4. report.kind = "none"
  BY DEF NoReport
<1>5. ReportTyped /\ RowsFollow
  BY <1>4 DEF ReportTyped, RowsFollow, NoReport
<1>6. OnlyTradesPend
  BY DEF OnlyTradesPend
<1>7. LogFollows
  <2>1. \A s \in Holdings : TradeEvents(s) = {}
    BY DEF TradeEvents
  <2> QED BY <2>1 DEF LogFollows, LogTells
<1>8. ToldIsKept
  <2>1. \A kind \in Kinds, s \in Holdings : DOMAIN Kept(kind, s) = {}
    BY <1>1 DEF Kept
  <2>2. DOMAIN told = {}
    OBVIOUS
  <2>3. {k \in Kinds \X Holdings \X Int : k[3] \in DOMAIN Kept(k[1], k[2])} = {}
    BY <2>1
  <2> QED BY <2>2, <2>3 DEF ToldIsKept
<1> QED
  BY <1>2, <1>3, <1>5, <1>6, <1>7, <1>8 DEF IInv

\* The invariant holds of every behaviour of the reviews and commands.
THEOREM ReviewsInvariant == ReviewSpec => []IInv
<1>1. ReviewInit => IInv
  BY InitialInvariant
<1>2. IInv /\ [ReviewNext]_positionVars => IInv'
  BY StepsKeepInvariant
<1> QED
  BY <1>1, <1>2, PTL DEF ReviewSpec

-----------------------------------------------------------------------------
(* What follows                                                            *)

\* Journals and reports speak of the days and bars there are and of actions.
THEOREM ReviewsAreTyped == ReviewSpec => []ReviewTypeOK
<1>1. IInv => ReviewTypeOK
  <2> SUFFICES ASSUME IInv
               PROVE  ReviewTypeOK
    OBVIOUS
  <2>1. \A s \in HeldSymbols : positions[s].trade \in Trades
    <3> TAKE s \in HeldSymbols
    <3>1. positions[s] \in ExistingPosition
      BY DEF HeldSymbols, IInv, BooksTyped
    <3> QED BY <3>1 DEF ExistingPosition
  <2>2. \A s \in DOMAIN report.rows : report.rows[s].action \in Actions
    <3>1. CASE report.kind = "none"
      BY <3>1 DEF IInv, ReportTyped, NoReport
    <3>2. CASE report.kind # "none"
      BY <3>2, AdviceIsAnAction DEF IInv, RowsFollow
    <3> QED BY <3>1, <3>2
  <2> QED BY <2>1, <2>2 DEF ReviewTypeOK, IInv, JournalsTyped
<1> QED
  BY <1>1, ReviewsInvariant, PTL

\* Reading the log to its end gives the portfolio file, but for the symbols whose
\* last event the log is known to miss: nothing but a repetition of the same day
\* is taken for a duplicate (append_trade_feedback_events).
THEOREM LogTellsWhatIsHeld == ReviewSpec => []LogTellsHoldings
<1>1. IInv => LogTellsHoldings
  BY DEF IInv, LogFollows, LogTellsHoldings
<1> QED
  BY <1>1, ReviewsInvariant, PTL

-----------------------------------------------------------------------------
(* What the reviews advise                                                 *)

\* A review that is run again on the same reading of the same positions has the
\* rows of the first, whatever the first wrote into the journals
\* (preview_position_trajectory_features).
THEOREM RepeatedReviewsAgree == ReviewSpec => ReplayAgrees
<1>1. ASSUME IInv, [ReviewNext]_positionVars
      PROVE  IsReview /\ Repeated /\ report.positions = positions => report'.rows = report.rows
  <2> SUFFICES ASSUME IsReview, Repeated, report.positions = positions
               PROVE  report'.rows = report.rows
    OBVIOUS
  <2>1. PICK kind \in Kinds, type \in {"reviewed", "polled"},
             dropped \in SUBSET (Holdings \ HeldSymbols) :
          \E time \in 1 .. (IF kind = "daily" THEN LastDay ELSE LastBar) :
            Reviews(kind, time, type, dropped)
    BY <1>1, StepsKeepInvariant
  <2>2. PICK time \in 1 .. (IF kind = "daily" THEN LastDay ELSE LastBar) :
          Reviews(kind, time, type, dropped)
    BY <2>1
  <2>3. /\ report'.kind = kind /\ report'.at = time
        /\ DOMAIN report'.readings = Reported'
        /\ report'.rows = [s \in Reported' |-> report'.rows[s]]
        /\ \A s \in Reported' :
             report'.rows[s]
               = Advice(kind, positions[s], report'.readings[s], Kept(kind, s), time)
    BY <2>2 DEF Reviews
  <2>4. report.kind = kind /\ report.at = time /\ report.readings = report'.readings
    BY <2>3 DEF Repeated
  <2>5. report.kind # "none"
    BY <2>4 DEF Kinds
  <2>6. /\ DOMAIN report.readings = DOMAIN report.rows
        /\ report.rows = [s \in DOMAIN report.rows |-> report.rows[s]]
    BY <1>1, <2>5 DEF IInv, ReportTyped
  <2>7. \A s \in DOMAIN report.rows :
          report.rows[s]
            = Advice(kind, positions[s], report.readings[s], Kept(kind, s), time)
    BY <1>1, <2>4, <2>5 DEF IInv, RowsFollow
  <2>8. DOMAIN report.rows = Reported'
    BY <2>3, <2>4, <2>6
  <2>9. \A s \in Reported' : report'.rows[s] = report.rows[s]
    BY <2>3, <2>4, <2>7, <2>8
  <2> QED BY <2>3, <2>6, <2>8, <2>9
<1> QED
  BY <1>1, ReviewsInvariant, PTL DEF ReviewSpec, ReplayAgrees

LEMMA BelowIsNotAbove ==
  ASSUME NEW a \in Int, NEW b \in Int, a < b
  PROVE  ~(b <= a) /\ ~(a > a)
OBVIOUS

\* With the stop a daily review suggested, the same reading gives no reason to
\* exit that it did not give before, and no higher stop.
LEMMA SuggestedStopSettles ==
  ASSUME NEW p \in ExistingPosition, NEW r, NEW journal, NEW day,
         r.close \in Int, r.trailing \in Int \cup {NoValue},
         Advice("daily", p, r, journal, day).action = "RAISE STOP"
  PROVE  LET q == [p EXCEPT !.stop = Advice("daily", p, r, journal, day).stop]
         IN Advice("daily", q, r, journal, day).action \in {"HOLD", "WATCH CLOSELY"}
<1> DEFINE seen == DailyObservation(PositionFeatures(p, r), Unresolved)
           t == PreviewTrajectory(journal, day, seen)
           q == [p EXCEPT !.stop = Advice("daily", p, r, journal, day).stop]
           f == PositionFeatures(p, r)
           g == PositionFeatures(q, r)
<1>1. Advice("daily", p, r, journal, day) = ReviewDecision(p, r, t)
  BY DEF Advice
<1> HIDE DEF t
<1>2. /\ ~ExitsAtOnce(p, r) /\ ~WearsOut(t) /\ Known(SuggestedStop(p, r))
      /\ ReviewDecision(p, r, t).stop = SuggestedStop(p, r)
  <2> DEFINE exit == ExitsAtOnce(p, r) \/ WearsOut(t)
             raise == Known(SuggestedStop(p, r))
             watch == NeedsWatching(PositionFeatures(p, r), r, t) \/ Caution(r)
  <2>1. ReviewDecision(p, r, t).action
          = CASE exit -> "EXIT CANDIDATE"
              [] ~exit /\ raise -> "RAISE STOP"
              [] ~exit /\ ~raise /\ watch -> "WATCH CLOSELY"
              [] OTHER -> "HOLD"
    BY DEF ReviewDecision
  <2>2. ReviewDecision(p, r, t).stop = IF exit THEN NoValue ELSE SuggestedStop(p, r)
    BY DEF ReviewDecision
  <2>3. ReviewDecision(p, r, t).action = "RAISE STOP"
    BY <1>1
  <2>4. exit \in BOOLEAN /\ raise \in BOOLEAN /\ watch \in BOOLEAN
    BY DEF ExitsAtOnce, WearsOut, Known, NeedsWatching, Caution
  <2> HIDE DEF exit, raise, watch
  <2>5. ~exit /\ raise
    BY <2>1, <2>3, <2>4
  <2> QED BY <2>2, <2>5 DEF exit, raise
<1>3. /\ SuggestedStop(p, r) = r.trailing
      /\ r.trailing \in Int /\ r.trailing < r.close /\ r.close \in Int
  BY <1>2, NoValueAssumption DEF SuggestedStop, Known
<1>4. q = [p EXCEPT !.stop = r.trailing]
  BY <1>1, <1>2, <1>3
<1> HIDE DEF q
<1>5. q.stop = r.trailing /\ q.entry = p.entry /\ q.reference = p.reference
  BY <1>4 DEF ExistingPosition
<1>6. /\ f.aboveEntry = g.aboveEntry /\ f.failed = g.failed /\ f.stale = g.stale
      /\ f.weakStrength = g.weakStrength /\ f.gaveBack = g.gaveBack
  BY <1>5 DEF PositionFeatures
<1>7. Advice("daily", q, r, journal, day) = ReviewDecision(q, r, t)
  <2>1. DailyObservation(g, Unresolved) = seen
    <3> HIDE DEF f, g
    <3>1. seen = DailyObservation(f, Unresolved)
      BY DEF f
    <3> QED BY <1>6, <3>1 DEF DailyObservation
  <2> QED BY <2>1 DEF Advice, t
<1>8. ~ExitsAtOnce(q, r)
  <2>1. ~(Known(q.stop) /\ r.close <= q.stop)
    <3> HIDE DEF f, g
    <3>1. ~(r.close <= r.trailing)
      BY <1>3, BelowIsNotAbove
    <3> QED BY <1>5, <3>1
  <2>2. ~(r.context.regime = FALSE /\ ~f.aboveEntry) /\ ~f.gaveBack /\ ~f.failed
    BY <1>2 DEF ExitsAtOnce
  <2> HIDE DEF f, g
  <2> QED BY <1>6, <2>1, <2>2 DEF ExitsAtOnce, g
<1>9. ~Known(SuggestedStop(q, r))
  <2>1. Known(q.stop) /\ ~(r.trailing > q.stop)
    <3> HIDE DEF f, g
    <3>1. r.trailing # NoValue
      BY <1>2, <1>3 DEF Known
    <3>2. ~(r.trailing > r.trailing)
      BY <1>3, BelowIsNotAbove
    <3> QED BY <1>5, <3>1, <3>2 DEF Known
  <2> QED BY <2>1 DEF SuggestedStop, Known
<1>10. ReviewDecision(q, r, t).action \in {"HOLD", "WATCH CLOSELY"}
  <2> DEFINE exit == ExitsAtOnce(q, r) \/ WearsOut(t)
             raise == Known(SuggestedStop(q, r))
             watch == NeedsWatching(PositionFeatures(q, r), r, t) \/ Caution(r)
  <2>1. ReviewDecision(q, r, t).action
          = CASE exit -> "EXIT CANDIDATE"
              [] ~exit /\ raise -> "RAISE STOP"
              [] ~exit /\ ~raise /\ watch -> "WATCH CLOSELY"
              [] OTHER -> "HOLD"
    BY DEF ReviewDecision
  <2>2. ~exit /\ ~raise
    BY <1>2, <1>8, <1>9
  <2> HIDE DEF exit, raise, watch
  <2> QED BY <2>1, <2>2
<1> QED
  BY <1>7, <1>10 DEF q

\* An intraday review has no stop to suggest.
LEMMA IntradayNeverRaises ==
  \A p, r, journal, bar : Advice("intraday", p, r, journal, bar).action # "RAISE STOP"
BY DEF Advice, IntradayDecision

\* An operator who sets the stop that a review suggests, and nothing else, is not
\* told on the same reading to sell or to raise it again
\* (suggest_long_stop_update).
THEOREM SuggestedStopsSettle == ReviewSpec => AdviceSettles
<1>1. ASSUME IInv, [ReviewNext]_positionVars
      PROVE  IsReview /\ Repeated =>
               \A s \in DOMAIN report'.rows \cap DOMAIN report.rows :
                 /\ report.rows[s].action = "RAISE STOP"
                 /\ positions[s] = [report.positions[s] EXCEPT !.stop = report.rows[s].stop]
                 => report'.rows[s].action \in {"HOLD", "WATCH CLOSELY"}
  <2> SUFFICES ASSUME IsReview, Repeated,
                      NEW s \in DOMAIN report'.rows \cap DOMAIN report.rows,
                      report.rows[s].action = "RAISE STOP"
               PROVE  positions[s] = [report.positions[s] EXCEPT !.stop = report.rows[s].stop]
                        => report'.rows[s].action \in {"HOLD", "WATCH CLOSELY"}
    OBVIOUS
  <2>1. PICK kind \in Kinds, type \in {"reviewed", "polled"},
             dropped \in SUBSET (Holdings \ HeldSymbols) :
          \E time \in 1 .. (IF kind = "daily" THEN LastDay ELSE LastBar) :
            Reviews(kind, time, type, dropped)
    BY <1>1, StepsKeepInvariant
  <2>2. PICK time \in 1 .. (IF kind = "daily" THEN LastDay ELSE LastBar) :
          Reviews(kind, time, type, dropped)
    BY <2>1
  <2> DEFINE p == report.positions[s]
             r == report.readings[s]
             journal == Kept(kind, s)
  <2>3. report.kind = kind /\ report.at = time /\ report.readings = report'.readings
    BY <2>2 DEF Reviews, Repeated
  <2>4. report'.rows[s] = Advice(kind, positions[s], r, journal, time)
    BY <2>2, <2>3 DEF Reviews, Reported
  <2>5. report.kind # "none"
    BY <2>3 DEF Kinds
  <2>6. report.rows[s] = Advice(kind, p, r, journal, time)
    BY <1>1, <2>3, <2>5 DEF IInv, RowsFollow
  <2>7. /\ p \in ExistingPosition
        /\ kind = "daily" => r.close \in Int /\ r.trailing \in Int \cup {NoValue}
    BY <1>1, <2>3, <2>5 DEF IInv, ReportTyped
  <2>8. Advice(kind, p, r, journal, time).action = "RAISE STOP"
    BY <2>6
  <2>9. CASE kind = "daily"
    <3> SUFFICES ASSUME positions[s] = [p EXCEPT !.stop = report.rows[s].stop]
                 PROVE  report'.rows[s].action \in {"HOLD", "WATCH CLOSELY"}
      OBVIOUS
    <3> DEFINE q == [p EXCEPT !.stop = Advice("daily", p, r, journal, time).stop]
    <3>1. positions[s] = q
      BY <2>6, <2>9
    <3> HIDE DEF p, r, journal
    <3>2. Advice("daily", q, r, journal, time).action \in {"HOLD", "WATCH CLOSELY"}
      BY <2>7, <2>8, <2>9, SuggestedStopSettles
    <3> HIDE DEF q
    <3> QED BY <2>4, <2>9, <3>1, <3>2
  <2>10. CASE kind = "intraday"
    <3> HIDE DEF p, r, journal
    <3>1. FALSE
      BY <2>8, <2>10, IntradayNeverRaises
    <3> QED BY <3>1
  <2> QED BY <2>9, <2>10 DEF Kinds
<1> QED
  BY <1>1, ReviewsInvariant, PTL DEF ReviewSpec, AdviceSettles

\* The last n of some observations were to watch: there are as many, and each of
\* them was, or as many came after it.
LEMMA TrailingCounts ==
  ASSUME NEW journal, IsFiniteSet(DOMAIN journal), DOMAIN journal \subseteq Int,
         NEW n \in Nat, Trailing(Flags(journal, Watched)) >= n
  PROVE  /\ Cardinality(DOMAIN journal) >= n
         /\ \A t \in DOMAIN journal :
              Watched(journal[t]) \/ Cardinality({u \in DOMAIN journal : u > t}) >= n
<1> DEFINE D == DOMAIN journal
           Last_(t) == \A u \in D : u >= t => Watched(journal[u])
           W == {t \in D : Last_(t)}
<1>1. Cardinality(W) >= n
  BY DEF Trailing, Flags
<1>2. \A T \in SUBSET D : IsFiniteSet(T) /\ Cardinality(T) \in Nat
  BY FS_Subset, FS_CardinalityType
<1>3. \A T \in SUBSET D : W \subseteq T => Cardinality(T) >= n
  <2> TAKE T \in SUBSET D
  <2> SUFFICES ASSUME W \subseteq T
               PROVE  Cardinality(T) >= n
    OBVIOUS
  <2>1. W \in SUBSET D /\ W \in SUBSET T
    OBVIOUS
  <2> HIDE DEF W, D
  <2>2. Cardinality(W) <= Cardinality(T) /\ Cardinality(T) \in Nat /\ Cardinality(W) \in Nat
    BY <1>2, <2>1, FS_Subset
  <2> QED BY <1>1, <2>2
<1>4. Cardinality(D) >= n
  BY <1>3
<1>5. ASSUME NEW t \in D, ~Watched(journal[t])
      PROVE  Cardinality({u \in D : u > t}) >= n
  <2>1. W \subseteq {u \in D : u > t}
    BY <1>5
  <2>2. {u \in D : u > t} \in SUBSET D
    OBVIOUS
  <2> HIDE DEF W, D
  <2> QED BY <1>3, <2>1, <2>2
<1> QED
  BY <1>4, <1>5

\* At the latest time, the settled observations are those of the earlier times.
LEMMA SettledIsEarlier ==
  ASSUME NEW journal, DOMAIN journal \subseteq Int, NEW time \in Int,
         \A u \in DOMAIN journal : u <= time /\ journal[u].action \in Actions,
         NEW obs, obs.action = Unresolved
  PROVE  Settled(Merge(journal, time, obs))
           = [u \in DOMAIN journal \ {time} |-> journal[u]]
<1> DEFINE merged == Merge(journal, time, obs)
           settled == {u \in DOMAIN merged :
                         u = Latest(merged) => merged[u].action # Unresolved}
<1>1. /\ DOMAIN merged = DOMAIN journal \cup {time}
      /\ merged[time] = obs
      /\ \A u \in DOMAIN journal \ {time} : merged[u] = journal[u]
  BY DEF Merge
<1> HIDE DEF merged
<1>2. Latest(merged) = time
  <2> DEFINE T == DOMAIN merged
  <2>1. T \in SUBSET Int /\ time \in T /\ \A u \in T : u <= time
    BY <1>1
  <2> HIDE DEF T
  <2>2. Max(T) = time
    BY <2>1, LatestTime
  <2> QED BY <2>2 DEF Latest, T
<1>3. settled = DOMAIN journal \ {time}
  BY <1>1, <1>2
<1> HIDE DEF settled
<1>4. Settled(merged) = [u \in settled |-> merged[u]]
  BY DEF Settled, Restrict, settled
<1> QED
  BY <1>1, <1>3, <1>4 DEF merged

\* A review that exits for no reason of its own reading counts watches.
LEMMA ExitCountsWatches ==
  ASSUME NEW kind \in Kinds, NEW p, NEW r, NEW journal, NEW time,
         Advice(kind, p, r, journal, time).action = "EXIT CANDIDATE", ~AtOnce(kind, p, r)
  PROVE  \E obs : /\ obs.action = Unresolved
                  /\ Trailing(Flags(Settled(Merge(journal, time, obs)), Watched)) >= Rules.watchExit
<1>1. CASE kind = "daily"
  <2> DEFINE obs == DailyObservation(PositionFeatures(p, r), Unresolved)
             t == PositionTrajectory(Merge(journal, time, obs))
  <2>1. Advice(kind, p, r, journal, time) = ReviewDecision(p, r, t)
    BY <1>1 DEF Advice, PreviewTrajectory
  <2>2. ~ExitsAtOnce(p, r)
    BY <1>1 DEF AtOnce
  <2>3. obs.action = Unresolved
    BY DEF DailyObservation
  <2>4. t.watchDays = Trailing(Flags(Settled(Merge(journal, time, obs)), Watched))
    BY DEF PositionTrajectory
  <2> HIDE DEF t
  <2>5. ExitsAtOnce(p, r) \/ WearsOut(t)
    <3>1. ReviewDecision(p, r, t).action = "EXIT CANDIDATE"
      BY <2>1
    <3> QED BY <3>1 DEF ReviewDecision
  <2>6. t.watchDays >= Rules.watchExit
    BY <2>2, <2>5 DEF WearsOut
  <2> HIDE DEF obs
  <2> QED BY <2>3, <2>4, <2>6
<1>2. CASE kind = "intraday"
  <2> DEFINE obs == IntradayObservation(IntradayFeatures(p, r), Unresolved)
             t == IntradayTrajectory(Merge(journal, time, obs))
             f == IntradayFeatures(p, r)
  <2>1. Advice(kind, p, r, journal, time) = IntradayDecision(p, r, t)
    BY <1>2 DEF Advice, PreviewSession
  <2>2. ~IntradayExitsAtOnce(p, r)
    BY <1>2 DEF AtOnce
  <2>3. obs.action = Unresolved
    BY DEF IntradayObservation
  <2>4. t.watches = Trailing(Flags(Settled(Merge(journal, time, obs)), Watched))
    BY DEF IntradayTrajectory
  <2> HIDE DEF t
  <2>5. IntradayExitsAtOnce(p, r) \/ IntradayWearsOut(IntradayFeatures(p, r), r, t)
    <3>1. IntradayDecision(p, r, t).action = "EXIT CANDIDATE"
      BY <2>1
    <3> QED BY <3>1 DEF IntradayDecision
  <2>6. t.watches >= Rules.watchExit
    BY <2>2, <2>5 DEF IntradayWearsOut
  <2> HIDE DEF obs
  <2> QED BY <2>3, <2>4, <2>6
<1> QED
  BY <1>1, <1>2 DEF Kinds

\* What was told of earlier times is what is kept of them.
LEMMA EarlierIsKept ==
  ASSUME IInv, NEW kind \in Kinds, NEW s \in Holdings, NEW time \in Int,
         UpToDate(kind, s, time)
  PROVE  /\ Earlier(kind, s, time) = DOMAIN Kept(kind, s) \ {time}
         /\ \A u \in DOMAIN Kept(kind, s) :
              /\ u \in Int /\ u <= time
              /\ Kept(kind, s)[u].action \in Actions
              /\ told[<<kind, s, u>>] = Kept(kind, s)[u].action
         /\ IsFiniteSet(DOMAIN Kept(kind, s))
<1> DEFINE journal == Kept(kind, s)
<1>1. \A u \in DOMAIN journal :
        u \in 1 .. (IF kind = "daily" THEN LastDay ELSE LastBar) /\ journal[u].action \in Actions
  BY DEF IInv, JournalsTyped, Kept, Kinds
<1>2. \A u \in Int : <<kind, s, u>> \in DOMAIN told <=> u \in DOMAIN journal
  <2> TAKE u \in Int
  <2> DEFINE k == <<kind, s, u>>
  <2>1. k \in Kinds \X Holdings \X Int /\ k[1] = kind /\ k[2] = s /\ k[3] = u
    OBVIOUS
  <2> HIDE DEF k
  <2>2. k \in DOMAIN told <=> k[3] \in DOMAIN Kept(k[1], k[2])
    BY <2>1 DEF IInv, ToldIsKept
  <2> QED BY <2>1, <2>2 DEF k
<1>3. \A u \in DOMAIN journal : told[<<kind, s, u>>] = journal[u].action
  <2> TAKE u \in DOMAIN journal
  <2> DEFINE k == <<kind, s, u>>
  <2>1. k \in DOMAIN told /\ k[1] = kind /\ k[2] = s /\ k[3] = u
    BY <1>1, <1>2
  <2> HIDE DEF k
  <2>2. told[k] = Kept(k[1], k[2])[k[3]].action
    BY <2>1 DEF IInv, ToldIsKept
  <2> QED BY <2>1, <2>2 DEF k
<1>4. \A u \in DOMAIN journal : u \in Int /\ u <= time
  <2> TAKE u \in DOMAIN journal
  <2> DEFINE k == <<kind, s, u>>
  <2>1. k \in DOMAIN told /\ k[1] = kind /\ k[2] = s /\ k[3] = u /\ u \in Int
    BY <1>1, <1>2
  <2> HIDE DEF k
  <2> QED BY <2>1 DEF UpToDate
<1>5. \A k \in DOMAIN told :
        k[1] = kind /\ k[2] = s => k = <<kind, s, k[3]>> /\ k[3] \in DOMAIN journal
  <2> TAKE k \in DOMAIN told
  <2>1. k \in Kinds \X Holdings \X Int /\ k[3] \in DOMAIN Kept(k[1], k[2])
    BY DEF IInv, ToldIsKept
  <2>2. k = <<k[1], k[2], k[3]>>
    BY <2>1
  <2> QED BY <2>1, <2>2
<1>6. Earlier(kind, s, time) = DOMAIN journal \ {time}
  <2>1. ASSUME NEW u \in Earlier(kind, s, time)
        PROVE  u \in DOMAIN journal \ {time}
    <3>1. PICK k \in DOMAIN told : k[1] = kind /\ k[2] = s /\ k[3] < time /\ u = k[3]
      BY <2>1 DEF Earlier
    <3>2. u \in DOMAIN journal
      BY <1>5, <3>1
    <3>3. u # time
      BY <1>4, <3>1, <3>2
    <3> QED BY <3>2, <3>3
  <2>2. ASSUME NEW u \in DOMAIN journal \ {time}
        PROVE  u \in Earlier(kind, s, time)
    <3> DEFINE k == <<kind, s, u>>
    <3>1. u \in Int /\ u <= time /\ u # time
      BY <1>4, <2>2
    <3>2. k \in DOMAIN told /\ k[1] = kind /\ k[2] = s /\ k[3] = u /\ u < time
      BY <1>2, <3>1
    <3> HIDE DEF k
    <3> QED BY <3>2 DEF Earlier
  <2> QED BY <2>1, <2>2
<1>7. IsFiniteSet(DOMAIN journal)
  <2> DEFINE b == IF kind = "daily" THEN LastDay ELSE LastBar
             T == DOMAIN journal
  <2>1. b \in Int
    BY BoundsAssumption
  <2>2. T \in SUBSET (1 .. b)
    BY <1>1
  <2> HIDE DEF b, T
  <2>3. IsFiniteSet(1 .. b)
    BY <2>1, FS_Interval
  <2>4. IsFiniteSet(T)
    BY <2>2, <2>3, FS_Subset
  <2> QED BY <2>4 DEF T
<1> QED
  BY <1>1, <1>3, <1>4, <1>6, <1>7

\* A review that tells the operator to sell for no reason of its own reading has
\* told WATCH CLOSELY at each of the last watchExit times that it reported the
\* symbol (review_existing_long_position and its intraday twin).
THEOREM ExitsAreEarned == ReviewSpec => ExitsEarned
<1>1. ASSUME IInv, [ReviewNext]_positionVars
      PROVE  IsReview =>
               \A s \in DOMAIN report'.rows :
                 LET kind == report'.kind
                     time == report'.at
                     earlier == Earlier(kind, s, time)
                 IN /\ report'.rows[s].action = "EXIT CANDIDATE"
                    /\ ~AtOnce(kind, positions[s], report'.readings[s])
                    /\ UpToDate(kind, s, time)
                    => /\ Cardinality(earlier) >= Rules.watchExit
                       /\ \A t \in earlier :
                            \/ told[<<kind, s, t>>] = "WATCH CLOSELY"
                            \/ Cardinality({u \in earlier : u > t}) >= Rules.watchExit
  <2> SUFFICES ASSUME IsReview
               PROVE  \A s \in DOMAIN report'.rows :
                        LET kind == report'.kind
                            time == report'.at
                            earlier == Earlier(kind, s, time)
                        IN /\ report'.rows[s].action = "EXIT CANDIDATE"
                           /\ ~AtOnce(kind, positions[s], report'.readings[s])
                           /\ UpToDate(kind, s, time)
                           => /\ Cardinality(earlier) >= Rules.watchExit
                              /\ \A t \in earlier :
                                   \/ told[<<kind, s, t>>] = "WATCH CLOSELY"
                                   \/ Cardinality({u \in earlier : u > t}) >= Rules.watchExit
    OBVIOUS
  <2>1. PICK kind \in Kinds, type \in {"reviewed", "polled"},
             dropped \in SUBSET (Holdings \ HeldSymbols) :
          \E time \in 1 .. (IF kind = "daily" THEN LastDay ELSE LastBar) :
            Reviews(kind, time, type, dropped)
    BY <1>1, StepsKeepInvariant
  <2>2. PICK time \in 1 .. (IF kind = "daily" THEN LastDay ELSE LastBar) :
          Reviews(kind, time, type, dropped)
    BY <2>1
  <2>3. report'.kind = kind /\ report'.at = time /\ Reported' \subseteq Holdings
    BY <2>2 DEF Reviews, HeldSymbols
  <2>4. ASSUME NEW s \in Holdings, NEW p, NEW r, UpToDate(kind, s, time),
               Advice(kind, p, r, Kept(kind, s), time).action = "EXIT CANDIDATE",
               ~AtOnce(kind, p, r)
        PROVE  LET earlier == Earlier(kind, s, time)
               IN /\ Cardinality(earlier) >= Rules.watchExit
                  /\ \A t \in earlier :
                       \/ told[<<kind, s, t>>] = "WATCH CLOSELY"
                       \/ Cardinality({u \in earlier : u > t}) >= Rules.watchExit
    <3> DEFINE journal == Kept(kind, s)
               settled == [u \in DOMAIN journal \ {time} |-> journal[u]]
    <3>1. time \in Int
      OBVIOUS
    <3>2. /\ Earlier(kind, s, time) = DOMAIN journal \ {time}
          /\ \A u \in DOMAIN journal :
               /\ u \in Int /\ u <= time
               /\ journal[u].action \in Actions
               /\ told[<<kind, s, u>>] = journal[u].action
          /\ IsFiniteSet(DOMAIN journal)
      BY <1>1, <2>4, <3>1, EarlierIsKept
    <3>3. Advice(kind, p, r, journal, time).action = "EXIT CANDIDATE"
      BY <2>4
    <3> HIDE DEF journal
    <3>4. PICK obs : /\ obs.action = Unresolved
                     /\ Trailing(Flags(Settled(Merge(journal, time, obs)), Watched)) >= Rules.watchExit
      BY <2>4, <3>3, ExitCountsWatches
    <3>5. Settled(Merge(journal, time, obs)) = settled
      BY <3>1, <3>2, <3>4, SettledIsEarlier
    <3>6. /\ DOMAIN settled = Earlier(kind, s, time)
          /\ DOMAIN settled \subseteq Int
          /\ \A t \in DOMAIN settled : told[<<kind, s, t>>] = settled[t].action
      BY <3>2
    <3>7. IsFiniteSet(DOMAIN settled)
      <4> DEFINE T == DOMAIN settled
      <4>1. T \in SUBSET DOMAIN journal
        OBVIOUS
      <4> HIDE DEF T
      <4>2. IsFiniteSet(T)
        BY <3>2, <4>1, FS_Subset
      <4> QED BY <4>2 DEF T
    <3> HIDE DEF settled
    <3>8. Rules.watchExit \in Nat
      BY RulesAssumption
    <3>9. /\ Cardinality(DOMAIN settled) >= Rules.watchExit
          /\ \A t \in DOMAIN settled :
               \/ Watched(settled[t])
               \/ Cardinality({u \in DOMAIN settled : u > t}) >= Rules.watchExit
      BY <3>4, <3>5, <3>6, <3>7, <3>8, TrailingCounts
    <3> QED BY <3>6, <3>9 DEF Watched
  <2>5. \A s \in Reported' :
          report'.rows[s] = Advice(kind, positions[s], report'.readings[s], Kept(kind, s), time)
    BY <2>2 DEF Reviews
  <2> TAKE s \in DOMAIN report'.rows
  <2>6. s \in Holdings /\ s \in Reported'
    BY <2>3 DEF Reported
  <2> QED BY <2>3, <2>4, <2>5, <2>6
<1> QED
  BY <1>1, ReviewsInvariant, PTL DEF ReviewSpec, ExitsEarned

-----------------------------------------------------------------------------
(* The candidate journal                                                   *)

\* The days and the ranks of sightings.
DaysIn(X)  == {x[1] : x \in X}
RanksIn(X) == {x[2] : x \in X}

\* The days an entry counts: of approvals, where days may have been counted
\* twice once a run was made for an earlier day, and near the breakout.
CountsDays(entry, approved, days) ==
  /\ IsFiniteSet(approved) /\ approved \subseteq Int
  /\ IsFiniteSet(days) /\ days \subseteq Int
  /\ entry.daysApproved \in Int /\ entry.daysApproved >= Cardinality(approved)
  /\ entry.daysNear \in Int /\ entry.daysNear <= Cardinality(days)
  /\ entry.lastSeen \in days /\ \A d \in days : d <= entry.lastSeen
  /\ entry.lastApproved \in approved \cup {NoDate}

\* While runs go forward in time the last approval is the latest one, and every
\* approval is counted once.
CountsOnce(entry, approved, today) ==
  /\ entry.daysApproved = Cardinality(approved)
  /\ \A d \in approved :
       entry.lastApproved \in Int /\ d <= entry.lastApproved /\ entry.lastApproved <= today

\* The best rank of an entry is the least of those it was seen with.
KeepsRank(entry, ranks) ==
  /\ ranks \subseteq Int
  /\ entry.bestRank \in ranks /\ \A r \in ranks : entry.bestRank <= r

\* An entry is true of the runs since it began.
EntryTells(s) ==
  scores[s] # NoEntry =>
    /\ CountsDays(scores[s], approvals[s], DaysIn(sightings[s]))
    /\ forward => CountsOnce(scores[s], approvals[s], asOf)
    /\ KeepsRank(scores[s], RanksIn(sightings[s]))

\* The inductive invariant of daily summaries.
JournalInv ==
  /\ asOf \in Int
  /\ forward \in BOOLEAN
  /\ scores = [s \in Symbols |-> scores[s]]
  /\ \A s \in Symbols : EntryTells(s)

\* The days of approval after an observation.
Approvals(approved, obs, day) == approved \cup (IF obs.approved THEN {day} ELSE {})

\* The least of some numbers is one that none of them is below.
LEMMA LeastOf ==
  ASSUME NEW T \in SUBSET Int, NEW t \in T, \A u \in T : t <= u
  PROVE  Min(T) = t
<1>1. Min(T) \in T /\ \A u \in T : Min(T) <= u
  BY DEF Min
<1>2. Min(T) \in Int /\ t \in Int /\ Min(T) <= t /\ Min(T) >= t
  BY <1>1
<1> QED
  BY <1>2

\* An observation has a rank, and an approval that is one or not.
LEMMA ObservationsAreTyped ==
  ASSUME NEW ranking, NEW s \in DOMAIN Observations(ranking)
  PROVE  /\ Observations(ranking)[s].rank \in Int
         /\ Observations(ranking)[s].approved \in BOOLEAN
<1> DEFINE mine == {i \in 1 .. Len(ranking) : ranking[i].candidate.signal.symbol = s}
<1>1. /\ Observations(ranking)[s].rank = Min(mine)
      /\ Observations(ranking)[s].approved \in BOOLEAN
  BY DEF Observations
<1>2. mine \in SUBSET Nat /\ mine # {}
  BY DEF Observations
<1>3. PICK m \in mine : \A k \in mine : m <= k
  <2> HIDE DEF mine
  <2> QED BY <1>2, LeastNumber
<1>4. Min(mine) = m
  <2> HIDE DEF mine
  <2>1. mine \in SUBSET Int
    BY <1>2
  <2> QED BY <1>3, <2>1, LeastOf
<1> QED
  BY <1>1, <1>2, <1>3, <1>4

\* The first entry of a symbol.
LEMMA FirstEntryTells ==
  ASSUME NEW obs, NEW day \in Int, obs.rank \in Int, obs.approved \in BOOLEAN
  PROVE  /\ CountsDays(FirstEntry(obs, day), Approvals({}, obs, day), {day})
         /\ CountsOnce(FirstEntry(obs, day), Approvals({}, obs, day), day)
         /\ KeepsRank(FirstEntry(obs, day), {obs.rank})
<1>1. Approvals({}, obs, day) = IF obs.approved THEN {day} ELSE {}
  BY DEF Approvals
<1>2. /\ IsFiniteSet({}) /\ Cardinality({}) = 0
      /\ IsFiniteSet({day}) /\ Cardinality({day}) = 1
  BY FS_EmptySet, FS_Singleton
<1>3. FirstEntry(obs, day) =
        [ lastSeen |-> day, daysNear |-> 1,
          daysApproved |-> IF obs.approved THEN 1 ELSE 0,
          lastRank |-> obs.rank, bestRank |-> obs.rank, peak |-> obs.strength,
          lastApproved |-> IF obs.approved THEN day ELSE NoDate ]
  BY DEF FirstEntry
<1>4. CASE obs.approved
  BY <1>1, <1>2, <1>3, <1>4 DEF CountsDays, CountsOnce, KeepsRank
<1>5. CASE ~obs.approved
  BY <1>1, <1>2, <1>3, <1>5 DEF CountsDays, CountsOnce, KeepsRank
<1> QED
  BY <1>4, <1>5

\* The next entry of a symbol that has one.
LEMMA NextEntryTells ==
  ASSUME NEW e, NEW obs, NEW day \in Int, NEW approved, NEW days, NEW ranks,
         e # NoEntry, obs.rank \in Int, obs.approved \in BOOLEAN,
         CountsDays(e, approved, days), KeepsRank(e, ranks)
  PROVE  /\ CountsDays(NextEntry(e, obs, day), Approvals(approved, obs, day),
                       days \cup {day})
         /\ \A last \in Int : CountsOnce(e, approved, last) /\ day >= last =>
              CountsOnce(NextEntry(e, obs, day), Approvals(approved, obs, day), day)
         /\ KeepsRank(NextEntry(e, obs, day), ranks \cup {obs.rank})
<1> DEFINE next == NextEntry(e, obs, day)
<1>1. /\ next.lastSeen = LastSeen(e, day)
      /\ next.daysNear = DaysNear(e, day)
      /\ next.daysApproved = e.daysApproved + (IF CountsApproval(e, obs, day) THEN 1 ELSE 0)
      /\ next.bestRank = Min({e.bestRank, obs.rank})
      /\ next.lastApproved = IF CountsApproval(e, obs, day) THEN day ELSE e.lastApproved
  BY DEF NextEntry
<1> HIDE DEF next
<1>2. /\ IsFiniteSet(approved \cup {day})
      /\ Cardinality(approved \cup {day}) =
           IF day \in approved THEN Cardinality(approved) ELSE Cardinality(approved) + 1
      /\ IsFiniteSet(days \cup {day})
      /\ Cardinality(days \cup {day}) =
           IF day \in days THEN Cardinality(days) ELSE Cardinality(days) + 1
      /\ Cardinality(approved) \in Nat /\ Cardinality(days) \in Nat
  BY FS_AddElement, FS_CardinalityType DEF CountsDays
<1>3. /\ next.lastSeen \in days \cup {day}
      /\ \A d \in days \cup {day} : d <= next.lastSeen
  <2>1. e.lastSeen \in Int /\ day \in {day, e.lastSeen} /\ {day, e.lastSeen} \in SUBSET Int
    BY DEF CountsDays
  <2>2. CASE day >= e.lastSeen
    <3>1. Max({day, e.lastSeen}) = day
      BY <2>1, <2>2, LatestTime
    <3> QED BY <1>1, <2>1, <2>2, <3>1 DEF CountsDays, LastSeen
  <2>3. CASE ~(day >= e.lastSeen)
    <3>1. Max({day, e.lastSeen}) = e.lastSeen
      <4>1. e.lastSeen \in {day, e.lastSeen} /\ \A u \in {day, e.lastSeen} : u <= e.lastSeen
        BY <2>1, <2>3
      <4> QED BY <2>1, <4>1, LatestTime
    <3> QED BY <1>1, <2>1, <2>3, <3>1 DEF CountsDays, LastSeen
  <2> QED BY <2>2, <2>3
<1>4. KeepsRank(next, ranks \cup {obs.rank})
  <2>1. e.bestRank \in Int /\ {e.bestRank, obs.rank} \in SUBSET Int
    BY DEF KeepsRank
  <2>2. CASE e.bestRank <= obs.rank
    <3>1. Min({e.bestRank, obs.rank}) = e.bestRank
      BY <2>1, <2>2, LeastOf
    <3> QED BY <1>1, <2>1, <2>2, <3>1 DEF KeepsRank
  <2>3. CASE ~(e.bestRank <= obs.rank)
    <3>1. Min({e.bestRank, obs.rank}) = obs.rank
      BY <2>1, <2>3, LeastOf
    <3>2. \A r \in ranks \cup {obs.rank} : r \in Int /\ obs.rank <= r
      <4> TAKE r \in ranks \cup {obs.rank}
      <4>1. CASE r \in ranks
        BY <2>1, <2>3, <4>1 DEF KeepsRank
      <4>2. CASE r = obs.rank
        BY <4>2
      <4> QED BY <4>1, <4>2
    <3> QED BY <1>1, <3>1, <3>2 DEF KeepsRank
  <2> QED BY <2>2, <2>3
<1>5. next.daysNear \in Int /\ next.daysNear <= Cardinality(days \cup {day})
  <2>1. e.lastSeen \in days /\ e.lastSeen \in Int /\ \A d \in days : d <= e.lastSeen
    BY DEF CountsDays
  <2>2. e.daysNear \in Int /\ e.daysNear <= Cardinality(days)
    BY DEF CountsDays
  <2>3. Cardinality(days \cup {day}) \in Nat \ {0}
    BY <1>2, <2>1, FS_CardinalityType, FS_EmptySet
  <2>4. CASE day <= e.lastSeen
    BY <1>1, <1>2, <2>2, <2>4 DEF DaysNear
  <2>5. CASE ~(day <= e.lastSeen)
    <3>1. day \notin days
      BY <2>1, <2>5
    <3> QED BY <1>1, <1>2, <2>2, <2>3, <2>5, <3>1 DEF DaysNear
  <2> QED BY <2>4, <2>5
<1>6. CASE CountsApproval(e, obs, day)
  <2>1. Approvals(approved, obs, day) = approved \cup {day}
    BY <1>6 DEF CountsApproval, Approvals
  <2>2. CountsDays(next, approved \cup {day}, days \cup {day})
    BY <1>1, <1>2, <1>3, <1>5, <1>6 DEF CountsDays
  <2>3. ASSUME NEW last \in Int, CountsOnce(e, approved, last), day >= last
        PROVE  CountsOnce(next, approved \cup {day}, day)
    <3>1. day \notin approved
      BY <1>6, <2>3 DEF CountsOnce, CountsApproval
    <3>2. next.daysApproved = Cardinality(approved \cup {day})
      BY <1>1, <1>2, <1>6, <2>3, <3>1 DEF CountsOnce
    <3>3. next.lastApproved = day /\ \A d \in approved : d \in Int /\ d <= day
      BY <1>1, <1>6, <2>3 DEF CountsOnce, CountsDays
    <3> QED BY <3>2, <3>3 DEF CountsOnce
  <2> QED BY <1>4, <2>1, <2>2, <2>3 DEF next
<1>7. CASE ~CountsApproval(e, obs, day)
  <2>1. Approvals(approved, obs, day) = approved
    <3>1. obs.approved => day \in approved
      BY <1>7, NoDateAssumption DEF CountsApproval, CountsDays
    <3> QED BY <3>1 DEF Approvals
  <2>2. next.daysApproved = e.daysApproved /\ next.lastApproved = e.lastApproved
    BY <1>1, <1>7 DEF CountsDays
  <2>3. CountsDays(next, approved, days \cup {day})
    BY <1>2, <1>3, <1>5, <2>2 DEF CountsDays
  <2>4. ASSUME NEW last \in Int, CountsOnce(e, approved, last), day >= last
        PROVE  CountsOnce(next, approved, day)
    BY <2>2, <2>4 DEF CountsOnce
  <2> QED BY <1>4, <2>1, <2>3, <2>4 DEF next
<1> QED
  BY <1>6, <1>7

\* A sighting adds its day.
LEMMA SightingAddsDay ==
  \A X, d, r : DaysIn(X \cup {<<d, r>>}) = DaysIn(X) \cup {d}
<1> TAKE X, d, r
<1>1. <<d, r>>[1] = d
  OBVIOUS
<1>2. {x[1] : x \in X \cup {<<d, r>>}} = {x[1] : x \in X} \cup {<<d, r>>[1]}
  BY Zenon
<1> QED
  BY <1>1, <1>2 DEF DaysIn

\* And its rank.
LEMMA SightingAddsRank ==
  \A X, d, r : RanksIn(X \cup {<<d, r>>}) = RanksIn(X) \cup {r}
<1> TAKE X, d, r
<1>1. <<d, r>>[2] = r
  OBVIOUS
<1>2. {x[2] : x \in X \cup {<<d, r>>}} = {x[2] : x \in X} \cup {<<d, r>>[2]}
  BY Zenon
<1> QED
  BY <1>1, <1>2 DEF RanksIn

\* A run leaves every entry true.
LEMMA SummariesKeepInvariant ==
  ASSUME JournalInv, NEW screen, NEW today \in Int, Summarize(screen, today)
  PROVE  JournalInv'
<1> DEFINE seen == Observations(Ranked(screen, today))
<1>1. /\ scores' = [s \in Symbols |->
           IF s \in DOMAIN seen THEN NextEntry(scores[s], seen[s], today)
           ELSE IF scores[s] # NoEntry /\ Stale(scores[s], today) THEN NoEntry
           ELSE scores[s]]
      /\ asOf' = today
      /\ forward' = (forward /\ today >= asOf)
      /\ approvals' = [s \in Symbols |->
           (IF scores[s] # NoEntry /\ scores'[s] # NoEntry THEN approvals[s] ELSE {})
           \cup (IF s \in DOMAIN seen /\ seen[s].approved THEN {today} ELSE {})]
      /\ sightings' = [s \in Symbols |->
           (IF scores[s] # NoEntry /\ scores'[s] # NoEntry THEN sightings[s] ELSE {})
           \cup (IF s \in DOMAIN seen THEN {<<today, seen[s].rank>>} ELSE {})]
  BY DEF JournalInv, Summarize, UpdateJournal
<1>2. \A s \in DOMAIN seen : seen[s].rank \in Int /\ seen[s].approved \in BOOLEAN
  BY ObservationsAreTyped
<1> HIDE DEF seen
<1>3. asOf \in Int /\ forward \in BOOLEAN
  BY DEF JournalInv
<1>4. ASSUME NEW s \in Symbols, scores'[s] # NoEntry
      PROVE  /\ CountsDays(scores'[s], approvals'[s], DaysIn(sightings'[s]))
             /\ forward' => CountsOnce(scores'[s], approvals'[s], asOf')
             /\ KeepsRank(scores'[s], RanksIn(sightings'[s]))
  <2>1. CASE s \in DOMAIN seen /\ scores[s] = NoEntry
    <3>1. /\ scores'[s] = FirstEntry(seen[s], today)
          /\ approvals'[s] = Approvals({}, seen[s], today)
          /\ sightings'[s] = {} \cup {<<today, seen[s].rank>>}
      BY <1>1, <2>1 DEF NextEntry, Approvals
    <3>2. /\ DaysIn(sightings'[s]) = {today}
          /\ RanksIn(sightings'[s]) = {seen[s].rank}
      BY <3>1 DEF DaysIn, RanksIn
    <3> DEFINE obs == seen[s]
    <3>3. obs.rank \in Int /\ obs.approved \in BOOLEAN
      BY <1>2, <2>1
    <3>4. /\ CountsDays(FirstEntry(obs, today), Approvals({}, obs, today), {today})
          /\ CountsOnce(FirstEntry(obs, today), Approvals({}, obs, today), today)
          /\ KeepsRank(FirstEntry(obs, today), {obs.rank})
      <4> HIDE DEF obs
      <4> QED BY <3>3, FirstEntryTells
    <3> QED BY <1>1, <3>1, <3>2, <3>4
  <2>2. CASE s \in DOMAIN seen /\ scores[s] # NoEntry
    <3>1. /\ scores'[s] = NextEntry(scores[s], seen[s], today)
          /\ approvals'[s] = Approvals(approvals[s], seen[s], today)
          /\ sightings'[s] = sightings[s] \cup {<<today, seen[s].rank>>}
      BY <1>1, <1>4, <2>2 DEF Approvals
    <3>2. /\ DaysIn(sightings'[s]) = DaysIn(sightings[s]) \cup {today}
          /\ RanksIn(sightings'[s]) = RanksIn(sightings[s]) \cup {seen[s].rank}
      <4> DEFINE X == sightings[s]
                 r == seen[s].rank
      <4>1. DaysIn(X \cup {<<today, r>>}) = DaysIn(X) \cup {today}
        <5> HIDE DEF X, r
        <5> QED BY SightingAddsDay
      <4>2. RanksIn(X \cup {<<today, r>>}) = RanksIn(X) \cup {r}
        <5> HIDE DEF X, r
        <5> QED BY SightingAddsRank
      <4> QED BY <3>1, <4>1, <4>2
    <3> DEFINE obs == seen[s]
               e == scores[s]
               approved == approvals[s]
               days == DaysIn(sightings[s])
               ranks == RanksIn(sightings[s])
    <3>3. obs.rank \in Int /\ obs.approved \in BOOLEAN
      BY <1>2, <2>2
    <3>4. /\ e # NoEntry /\ CountsDays(e, approved, days) /\ KeepsRank(e, ranks)
          /\ forward => CountsOnce(e, approved, asOf)
      BY <2>2 DEF JournalInv, EntryTells
    <3>5. /\ CountsDays(NextEntry(e, obs, today), Approvals(approved, obs, today),
                        days \cup {today})
          /\ \A last \in Int : CountsOnce(e, approved, last) /\ today >= last =>
               CountsOnce(NextEntry(e, obs, today), Approvals(approved, obs, today), today)
          /\ KeepsRank(NextEntry(e, obs, today), ranks \cup {obs.rank})
      <4> HIDE DEF obs, e, approved, days, ranks
      <4> QED BY <3>3, <3>4, NextEntryTells
    <3>6. forward' => CountsOnce(scores'[s], approvals'[s], asOf')
      BY <1>1, <1>3, <3>1, <3>4, <3>5
    <3> QED BY <3>1, <3>2, <3>5, <3>6
  <2>3. CASE s \notin DOMAIN seen
    <3>1. /\ scores'[s] = scores[s] /\ scores[s] # NoEntry
          /\ approvals'[s] = approvals[s] /\ sightings'[s] = sightings[s]
      BY <1>1, <1>4, <2>3
    <3>2. /\ CountsDays(scores[s], approvals[s], DaysIn(sightings[s]))
          /\ forward => CountsOnce(scores[s], approvals[s], asOf)
          /\ KeepsRank(scores[s], RanksIn(sightings[s]))
      BY <3>1 DEF JournalInv, EntryTells
    <3>3. forward' => CountsOnce(scores[s], approvals[s], today)
      <4> SUFFICES ASSUME forward'
                   PROVE  CountsOnce(scores[s], approvals[s], today)
        OBVIOUS
      <4>1. CountsOnce(scores[s], approvals[s], asOf) /\ asOf <= today
        BY <1>1, <1>3, <3>2
      <4>2. \A d \in approvals[s] : d \in Int
        BY <3>2 DEF CountsDays
      <4> QED BY <1>3, <4>1, <4>2 DEF CountsOnce
    <3> QED BY <1>1, <3>1, <3>2, <3>3
  <2> QED BY <2>1, <2>2, <2>3
<1>5. \A s \in Symbols : EntryTells(s)'
  BY <1>4 DEF EntryTells
<1>6. scores' = [s \in Symbols |-> scores'[s]]
  BY <1>1
<1> QED
  BY <1>1, <1>3, <1>5, <1>6 DEF JournalInv

\* The inductive invariant of daily summaries: update_candidate_score_journal
\* keeps every entry true of the runs.
THEOREM JournalInvariant == SummarySpec => []JournalInv
<1>1. SummaryInit => JournalInv
  BY DEF SummaryInit, JournalInv, EntryTells
<1>2. JournalInv /\ [SummaryNext]_summaryVars => JournalInv'
  <2>1. ASSUME JournalInv, SummaryNext
        PROVE  JournalInv'
    <3>1. PICK screen \in Screens, today \in 1 .. MaxAsOf : Summarize(screen, today)
      BY <2>1 DEF SummaryNext
    <3>2. today \in Int
      OBVIOUS
    <3> QED BY <2>1, <3>1, <3>2, SummariesKeepInvariant
  <2>2. ASSUME JournalInv, UNCHANGED summaryVars
        PROVE  JournalInv'
    BY <2>2 DEF JournalInv, EntryTells, summaryVars
  <2> QED BY <2>1, <2>2
<1> QED
  BY <1>1, <1>2, PTL DEF SummarySpec

\* The candidate journal tells the runs that were made, in whatever order and
\* however often: the best rank and the last day are those of all runs, no day
\* of approval is forgotten, and none is counted twice while runs go forward.
THEOREM JournalTellsTheRuns == SummarySpec => []JournalTrue
<1>1. JournalInv => JournalTrue
  <2> SUFFICES ASSUME JournalInv, NEW s \in Symbols, scores[s] # NoEntry
               PROVE  /\ scores[s].daysApproved >= Cardinality(approvals[s])
                      /\ forward => scores[s].daysApproved = Cardinality(approvals[s])
                      /\ scores[s].bestRank = Min({x[2] : x \in sightings[s]})
                      /\ scores[s].lastSeen = Max({x[1] : x \in sightings[s]})
                      /\ scores[s].daysNear <= Cardinality({x[1] : x \in sightings[s]})
    BY DEF JournalTrue
  <2> DEFINE days == {x[1] : x \in sightings[s]}
             ranks == {x[2] : x \in sightings[s]}
  <2>1. /\ CountsDays(scores[s], approvals[s], days)
        /\ forward => CountsOnce(scores[s], approvals[s], asOf)
        /\ KeepsRank(scores[s], ranks)
    BY DEF JournalInv, EntryTells, DaysIn, RanksIn
  <2> HIDE DEF days, ranks
  <2>2. scores[s].bestRank = Min(ranks)
    <3>1. /\ ranks \in SUBSET Int /\ scores[s].bestRank \in ranks
          /\ \A r \in ranks : scores[s].bestRank <= r
      BY <2>1 DEF KeepsRank
    <3> QED BY <3>1, LeastOf
  <2>3. scores[s].lastSeen = Max(days)
    <3>1. /\ days \in SUBSET Int /\ scores[s].lastSeen \in days
          /\ \A d \in days : d <= scores[s].lastSeen
      BY <2>1 DEF CountsDays
    <3> QED BY <3>1, LatestTime
  <2>4. /\ scores[s].daysApproved >= Cardinality(approvals[s])
        /\ forward => scores[s].daysApproved = Cardinality(approvals[s])
        /\ scores[s].daysNear <= Cardinality(days)
    BY <2>1 DEF CountsDays, CountsOnce
  <2> QED BY <2>2, <2>3, <2>4 DEF days, ranks
<1> QED
  BY <1>1, JournalInvariant, PTL
=============================================================================
