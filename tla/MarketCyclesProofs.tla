-------------------------- MODULE MarketCyclesProofs --------------------------
(***************************************************************************)
(* Proofs about the cycles that update the market state (MarketCycles):    *)
(* what the operator is told stays true of the snapshot, every alert that  *)
(* comes or goes has its transition, and the two files explain what was    *)
(* announced, for any number of processes, symbols and cycles.             *)
(***************************************************************************)
EXTENDS MarketCycles, FiniteSetTheorems, TLAPS

-----------------------------------------------------------------------------
(* The inductive invariant                                                 *)

Snapshots == MarketStateSnapshot \cup {None}

ReportType ==
  [daily : Summaries \cup {None},
   portfolio : Reviews \cup {None},
   intraday : Reviews \cup {None}]

\* No sector of a snapshot has more actionable candidates than approved ones.
Counted(snapshot) ==
  snapshot # None =>
    \A s \in DOMAIN snapshot.sectors :
      snapshot.sectors[s].actionable <= snapshot.sectors[s].approved

MarketStateSnapshotSectors ==
  UNION {[seen -> SectorSummary] : seen \in SUBSET Sectors}

Cycles ==
  [pc : {"idle", "reported", "loaded", "kept", "saved", "written"},
   report : ReportType, base : Snapshots]

Typed ==
  /\ current \in Snapshots /\ Counted(current)
  /\ previous \in Snapshots /\ Counted(previous)
  /\ run \in [Procs -> Cycles]
  /\ \A p \in Procs : Counted(run[p].base)
  /\ \A x \in Subjects : told[x] \in ValuesOf(x)
  /\ \A t \in announced : t.subject \in Subjects /\ t.from # t.to
  /\ minimum \in {"info", "warning"}
  /\ untold \subseteq Subjects
  /\ crossed \subseteq Procs
  /\ disturbed \in BOOLEAN
  /\ begun \in 0..MaxCycles

\* Only the live service tells.
OnlyLiveTells == \A p \in Procs : run[p].pc = "written" => p = Live

\* What is known of a subject fits a snapshot: it is no better than what the
\* snapshot says and, if every notice is routed, the same.
Cautious(known, snapshot, x) ==
  /\ x[1] = "action" =>
       /\ View(snapshot, x) # None
       /\ Severity(known) >= Severity(View(snapshot, x))
  /\ x[1] = "block" => (known = "clear" => View(snapshot, x) = "clear")

Agrees(known, snapshot, x) ==
  \/ View(snapshot, x) = known
  \/ x[1] # "action" /\ Silent(snapshot, x)

Fits(known, route, snapshot, x) ==
  /\ snapshot # None
  /\ Cautious(known, snapshot, x)
  /\ route = "info" => Agrees(known, snapshot, x)

\* A cycle has saved a snapshot in which the subject has changed, and will either
\* tell of it or count it as untold.
Owes(cycle, x) ==
  /\ cycle.pc \in {"saved", "written"}
  /\ x \in Altered(cycle.base, Build(cycle.base, cycle.report))

\* The operator knows nothing of the subject, or is known to be misinformed, or
\* what he was told fits the snapshot, or one of the processes owes him a change.
Accounted(snapshot, x, procs) ==
  \/ told[x] = None
  \/ x \in untold
  \/ Fits(told[x], minimum, snapshot, x)
  \/ \E p \in procs : Owes(run[p], x)

FileAccounted == \A x \in Subjects : Accounted(current, x, Procs)

\* What the live service starts from fits too, but for what others owe.
BaseAccounted ==
  run[Live].pc \notin {"idle", "reported"} =>
    \A x \in Subjects : Accounted(run[Live].base, x, Procs \ {Live})

\* Updates that overlap are known to.
OverlapsCrossed ==
  \A p, q \in Updating : p # q => p \in crossed

\* Between its two writes an update that nobody crosses finds its own base as the
\* previous file.
KeptIsPrevious ==
  \A p \in Procs \ crossed :
    run[p].pc = "kept" /\ run[p].base # None => previous = run[p].base

\* The files explain what was announced whenever no update is between its writes.
FilesExplain ==
  /\ \A p \in Procs : run[p].pc # "kept"
  /\ ~disturbed
  /\ current # None
  => announced = Diff(previous, current)

IInv ==
  /\ Typed
  /\ OnlyLiveTells
  /\ FileAccounted
  /\ BaseAccounted
  /\ OverlapsCrossed
  /\ KeptIsPrevious
  /\ FilesExplain

-----------------------------------------------------------------------------
(* Snapshots                                                               *)

\* Each action has its place in the order of severity.
LEMMA ActionsInOrder ==
  /\ ActionsBySeverity[1] = "HOLD" /\ ActionsBySeverity[2] = "RAISE STOP"
  /\ ActionsBySeverity[3] = "WATCH CLOSELY" /\ ActionsBySeverity[4] = "EXIT CANDIDATE"
  /\ Actions = {"HOLD", "RAISE STOP", "WATCH CLOSELY", "EXIT CANDIDATE"}
<1>1. /\ ActionsBySeverity[1] = "HOLD" /\ ActionsBySeverity[2] = "RAISE STOP"
      /\ ActionsBySeverity[3] = "WATCH CLOSELY" /\ ActionsBySeverity[4] = "EXIT CANDIDATE"
  BY DEF ActionsBySeverity
<1>2. 1..4 = {1, 2, 3, 4}
  OBVIOUS
<1> QED
  BY <1>1, <1>2 DEF Actions

LEMMA SeverityOf ==
  ASSUME NEW a \in Actions
  PROVE  /\ Severity(a) \in 1..4
         /\ ActionsBySeverity[Severity(a)] = a
         /\ Severity(a) = 1 <=> a = "HOLD"
<1>1. PICK i \in 1..4 : ActionsBySeverity[i] = a
  BY DEF Actions
<1>2. Severity(a) \in 1..4 /\ ActionsBySeverity[Severity(a)] = a
  BY <1>1 DEF Severity
<1>3. Severity(a) \in {1, 2, 3, 4}
  BY <1>2
<1> QED
  BY <1>2, <1>3, ActionsInOrder

LEMMA SeverityOfNamed ==
  /\ Severity("HOLD") = 1
  /\ Severity("RAISE STOP") = 2
  /\ Severity("WATCH CLOSELY") = 3
  /\ Severity("EXIT CANDIDATE") = 4
<1>1. \A a \in Actions : Severity(a) \in {1, 2, 3, 4} /\ ActionsBySeverity[Severity(a)] = a
  BY SeverityOf
<1> QED
  BY <1>1, ActionsInOrder

\* Rows have a most severe one.
LEMMA MostSevereExists ==
  ASSUME NEW rows \in Review, rows # {}
  PROVE  \E r \in rows : \A q \in rows : Severity(r.action) >= Severity(q.action)
<1>1. \A r \in rows : r.action \in Actions
  BY DEF Review, ReviewRow
<1>2. \A r \in rows : Severity(r.action) \in 1..4
  BY <1>1, SeverityOf
<1>3. CASE \E r \in rows : Severity(r.action) = 4
  BY <1>2, <1>3
<1>4. CASE \A r \in rows : Severity(r.action) # 4
  <2>1. CASE \E r \in rows : Severity(r.action) = 3
    BY <1>2, <1>4, <2>1
  <2>2. CASE \A r \in rows : Severity(r.action) # 3
    <3>1. CASE \E r \in rows : Severity(r.action) = 2
      BY <1>2, <1>4, <2>2, <3>1
    <3>2. CASE \A r \in rows : Severity(r.action) # 2
      BY <1>2, <1>4, <2>2, <3>2
    <3> QED
      BY <3>1, <3>2
  <2> QED
    BY <2>1, <2>2
<1> QED
  BY <1>3, <1>4

\* The action of a symbol is that of its most severe row.
LEMMA ActionStateOf ==
  ASSUME NEW rows \in Review, NEW s \in Symbols
  PROVE  \/ ActionStates(rows)[s] = None /\ \A r \in rows : r.symbol # s
         \/ \E r \in rows :
              /\ r.symbol = s /\ ActionStates(rows)[s] = r.action
              /\ \A q \in rows : q.symbol = s => Severity(r.action) >= Severity(q.action)
<1> DEFINE mine == {r \in rows : r.symbol = s}
<1>1. ActionStates(rows)[s]
        = IF mine = {} THEN None
          ELSE (CHOOSE r \in mine :
                  \A q \in mine : Severity(r.action) >= Severity(q.action)).action
  BY DEF ActionStates
<1>2. mine \in Review
  BY DEF Review
<1>3. mine # {} =>
        \E r \in mine : \A q \in mine : Severity(r.action) >= Severity(q.action)
  BY <1>2, MostSevereExists
<1>4. CASE mine = {}
  BY <1>1, <1>4
<1>5. CASE mine # {}
  <2>1. PICK r \in mine : /\ ActionStates(rows)[s] = r.action
                          /\ \A q \in mine : Severity(r.action) >= Severity(q.action)
    BY <1>1, <1>3, <1>5
  <2> QED
    BY <2>1
<1> QED
  BY <1>4, <1>5

LEMMA ActionStatesType ==
  ASSUME NEW rows \in Review
  PROVE  ActionStates(rows) \in [Symbols -> Actions \cup {None}]
<1>1. \A r \in rows : r.action \in Actions
  BY DEF Review, ReviewRow
<1>2. \A s \in Symbols : ActionStates(rows)[s] \in Actions \cup {None}
  BY <1>1, ActionStateOf
<1> QED
  BY <1>2 DEF ActionStates

\* The sectors of a finite set of rows are counted, and no more candidates are
\* actionable than approved.
LEMMA SectorContextType ==
  ASSUME NEW rows \in SUBSET SummaryRow, IsFiniteSet(rows)
  PROVE  /\ SectorContext(rows) \in MarketStateSnapshotSectors
         /\ \A s \in DOMAIN SectorContext(rows) :
              SectorContext(rows)[s].actionable <= SectorContext(rows)[s].approved
<1> DEFINE names == {r.sector : r \in rows} \ {None}
           Of(s) == {r \in rows : r.sector = s}
           approved(s) == Cardinality({r \in Of(s) : r.approved})
           actionable(s) == Cardinality({r \in Of(s) : r.approved /\ r.actionable})
           blocked(s) == Cardinality({r \in Of(s) : r.heat})
<1>1. names \in SUBSET Sectors
  BY DEF SummaryRow
<1>2. SectorContext(rows)
        = [s \in names |-> [approved |-> approved(s), actionable |-> actionable(s),
                            blocked |-> blocked(s)]]
  BY DEF SectorContext
<1>3. \A s : /\ IsFiniteSet({r \in Of(s) : r.approved})
             /\ IsFiniteSet({r \in Of(s) : r.approved /\ r.actionable})
             /\ IsFiniteSet({r \in Of(s) : r.heat})
  <2> SUFFICES ASSUME NEW S \in SUBSET rows PROVE IsFiniteSet(S)
    OBVIOUS
  <2> QED
    BY FS_Subset
<1>4. \A s : approved(s) \in Nat /\ actionable(s) \in Nat /\ blocked(s) \in Nat
  BY <1>3, FS_CardinalityType
<1>5. \A s : actionable(s) <= approved(s)
  <2> TAKE s
  <2>1. {r \in Of(s) : r.approved /\ r.actionable} \subseteq {r \in Of(s) : r.approved}
    OBVIOUS
  <2> QED
    BY <1>3, <2>1, FS_Subset
<1> HIDE DEF names, approved, actionable, blocked
<1>6. SectorContext(rows) \in [names -> SectorSummary]
  BY <1>2, <1>4 DEF SectorSummary
<1> QED
  BY <1>1, <1>2, <1>5, <1>6 DEF MarketStateSnapshotSectors

LEMMA EmptySnapshotType == EmptySnapshot \in MarketStateSnapshot /\ Counted(EmptySnapshot)
<1> DEFINE nothing == [s \in {} |-> [approved |-> 0, actionable |-> 0, blocked |-> 0]]
<1>1. nothing \in MarketStateSnapshotSectors
  <2>1. nothing \in [{} -> SectorSummary]
    OBVIOUS
  <2> QED
    BY <2>1 DEF MarketStateSnapshotSectors
<1>2. [breadth |-> None, volatility |-> NoVolatility] \in MarketContext
  BY DEF MarketContext, BreadthContext, VolatilityContext, NoVolatility
<1>3. EmptySnapshot \in MarketStateSnapshot
  BY <1>1, <1>2 DEF EmptySnapshot, MarketStateSnapshot, MarketStateSnapshotSectors
<1>4. DOMAIN EmptySnapshot.sectors = {}
  BY DEF EmptySnapshot
<1> QED
  BY <1>3, <1>4 DEF Counted

LEMMA SummaryOfReviewType ==
  ASSUME NEW rows \in Review
  PROVE  SummaryOfReview(rows) \in ReviewSummary
BY DEF SummaryOfReview, Review, ReviewRow, ReviewSummary

\* What an update saves is a snapshot.
LEMMA BuildType ==
  ASSUME NEW base \in Snapshots, Counted(base), NEW report \in ReportType
  PROVE  Build(base, report) \in MarketStateSnapshot /\ Counted(Build(base, report))
<1> DEFINE start == IF base = None THEN EmptySnapshot ELSE base
           built == Build(base, report)
           daily == report.daily
<1>1. start \in MarketStateSnapshot /\ Counted(start)
  BY EmptySnapshotType DEF Snapshots
<1>2. start # None
  BY <1>1, NoSnapshotAssumption
<1>3. /\ start.context \in MarketContext
      /\ start.queue \in SUBSET CandidateState
      /\ start.sectors \in MarketStateSnapshotSectors
      /\ start.portfolio \in ReviewSummary \cup {None}
      /\ start.intraday \in ReviewSummary \cup {None}
      /\ start.actions \in [Symbols -> Actions \cup {None}]
  BY <1>1 DEF MarketStateSnapshot, MarketStateSnapshotSectors
<1>4. /\ daily = None \/ (daily \in DailySummary /\ IsFiniteSet(daily.rows))
      /\ report.portfolio = None \/ report.portfolio \in Review
      /\ report.intraday = None \/ report.intraday \in Review
  BY ReportsAssumption, RowsAssumption DEF ReportType
<1>5. daily # None => /\ daily.context \in MarketContext \cup {None}
                      /\ daily.rows \in SUBSET SummaryRow
  BY <1>4 DEF DailySummary
<1>6. built = [context |-> built.context, queue |-> built.queue,
               sectors |-> built.sectors, portfolio |-> built.portfolio,
               intraday |-> built.intraday, actions |-> built.actions]
  BY DEF Build
<1>7. built.context = IF daily = None THEN start.context ELSE ContextSections(daily.context)
  BY DEF Build
<1>8. built.queue = IF daily = None THEN start.queue ELSE ApprovedQueue(daily.rows)
  BY DEF Build
<1>9. built.sectors = IF daily = None THEN start.sectors ELSE SectorContext(daily.rows)
  BY DEF Build
<1>10. /\ built.portfolio = IF report.portfolio = None THEN start.portfolio
                            ELSE SummaryOfReview(report.portfolio)
       /\ built.intraday = IF report.intraday = None THEN start.intraday
                           ELSE SummaryOfReview(report.intraday)
  BY DEF Build
<1>11. built.actions =
         CASE report.intraday # None -> ActionStates(report.intraday)
           [] report.intraday = None /\ report.portfolio # None ->
                ActionStates(report.portfolio)
           [] OTHER -> start.actions
  BY DEF Build
<1> HIDE DEF built, start
<1>13. built.context \in MarketContext
  BY <1>3, <1>5, <1>7
     DEF ContextSections, MarketContext, BreadthContext, VolatilityContext, NoVolatility
<1>14. built.queue \in SUBSET CandidateState
  BY <1>3, <1>5, <1>8 DEF ApprovedQueue, CandidateState, SummaryRow
<1>15. built.sectors \in MarketStateSnapshotSectors
  BY <1>3, <1>4, <1>5, <1>9, SectorContextType
<1>16. /\ built.portfolio \in ReviewSummary \cup {None}
       /\ built.intraday \in ReviewSummary \cup {None}
  BY <1>3, <1>4, <1>10, SummaryOfReviewType
<1>17. built.actions \in [Symbols -> Actions \cup {None}]
  <2>1. CASE report.intraday # None
    BY <1>4, <1>11, <2>1, ActionStatesType
  <2>2. CASE report.intraday = None /\ report.portfolio # None
    BY <1>4, <1>11, <2>2, ActionStatesType
  <2>3. CASE report.intraday = None /\ report.portfolio = None
    BY <1>3, <1>11, <2>3
  <2> QED
    BY <2>1, <2>2, <2>3
<1>18. built \in MarketStateSnapshot
  BY <1>6, <1>13, <1>14, <1>15, <1>16, <1>17
     DEF MarketStateSnapshot, MarketStateSnapshotSectors
<1>19. Counted(built)
  BY <1>1, <1>2, <1>4, <1>5, <1>9, SectorContextType DEF Counted
<1> QED
  BY <1>18, <1>19 DEF built

\* A snapshot's parts are what IsSnapshot says of them.
LEMMA SnapshotIsSnapshot ==
  ASSUME NEW s \in MarketStateSnapshot, Counted(s)
  PROVE  IsSnapshot(s)
<1>1. s # None
  BY NoSnapshotAssumption
<1>2. /\ s.context \in MarketContext
      /\ s.queue \in SUBSET CandidateState
      /\ s.sectors \in MarketStateSnapshotSectors
      /\ s.portfolio \in ReviewSummary \cup {None}
      /\ s.intraday \in ReviewSummary \cup {None}
      /\ s.actions \in [Symbols -> Actions \cup {None}]
  BY DEF MarketStateSnapshot, MarketStateSnapshotSectors
<1>3. /\ DOMAIN s.sectors \subseteq Sectors
      /\ \A x \in DOMAIN s.sectors : s.sectors[x] \in SectorSummary
  BY <1>2 DEF MarketStateSnapshotSectors
<1> QED
  BY <1>1, <1>2, <1>3 DEF IsSnapshot, Counted

-----------------------------------------------------------------------------
(* What a snapshot says of a subject                                       *)

LEMMA SubjectKinds ==
  ASSUME NEW x \in Subjects
  PROVE  \/ \E s \in Symbols : x = <<"action", s>>
         \/ \E s \in Symbols : x = <<"top", s>>
         \/ \E s \in Sectors : x = <<"block", s>>
         \/ x = <<"breadth", "market">>
         \/ x = <<"volatility", "market">>
BY DEF Subjects

LEMMA SubjectsOf ==
  /\ \A s \in Symbols : <<"action", s>> \in Subjects /\ <<"top", s>> \in Subjects
  /\ \A s \in Sectors : <<"block", s>> \in Subjects
  /\ <<"breadth", "market">> \in Subjects /\ <<"volatility", "market">> \in Subjects
BY DEF Subjects

LEMMA ViewOf ==
  ASSUME NEW snapshot
  PROVE  /\ \A s : View(snapshot, <<"action", s>>) = snapshot.actions[s]
         /\ \A s : View(snapshot, <<"top", s>>)
                     = IF s \in TopPriority(snapshot) THEN "in" ELSE "out"
         /\ \A s : View(snapshot, <<"block", s>>)
                     = IF s \in BlockedSectors(snapshot) THEN "blocked" ELSE "clear"
         /\ View(snapshot, <<"breadth", "market">>) = snapshot.context.breadth
         /\ View(snapshot, <<"volatility", "market">>) = snapshot.context.volatility
BY DEF View

LEMMA ViewType ==
  ASSUME NEW s \in MarketStateSnapshot, NEW x \in Subjects
  PROVE  View(s, x) \in ValuesOf(x)
<1>1. s.context \in MarketContext /\ s.actions \in [Symbols -> Actions \cup {None}]
  BY DEF MarketStateSnapshot
<1>2. s.context.breadth \in BreadthContext /\ s.context.volatility \in VolatilityContext
  BY <1>1 DEF MarketContext
<1>3. CASE \E t \in Symbols : x = <<"action", t>>
  BY <1>1, <1>3 DEF View, ValuesOf
<1>4. CASE \E t \in Symbols : x = <<"top", t>>
  BY <1>4 DEF View, ValuesOf
<1>5. CASE \E t \in Sectors : x = <<"block", t>>
  BY <1>5 DEF View, ValuesOf
<1>6. CASE x = <<"breadth", "market">>
  BY <1>2, <1>6 DEF View, ValuesOf
<1>7. CASE x = <<"volatility", "market">>
  BY <1>2, <1>7 DEF View, ValuesOf
<1> QED
  BY <1>3, <1>4, <1>5, <1>6, <1>7, SubjectKinds

-----------------------------------------------------------------------------
(* The differences of two snapshots                                        *)

\* A transition is about a subject of which the two snapshots say what it says.
LEMMA DiffSound ==
  ASSUME NEW before \in Snapshots, NEW after \in MarketStateSnapshot,
         NEW t \in Diff(before, after)
  PROVE  /\ before # None
         /\ t.subject \in Subjects
         /\ t.from = View(before, t.subject)
         /\ t.to = View(after, t.subject)
         /\ t.from # t.to
<1>1. before # None
  BY DEF Diff
<1>2. \/ t \in ActionTransitions(before, after)
      \/ t \in TopTransitions(before, after)
      \/ t \in BreadthTransitions(before, after)
      \/ t \in VolatilityTransitions(before, after)
      \/ t \in SectorTransitions(before, after)
  BY DEF Diff
<1>3. \A x, type :
        /\ Change(before, after, x, type).subject = x
        /\ Change(before, after, x, type).from = View(before, x)
        /\ Change(before, after, x, type).to = View(after, x)
  BY DEF Change, Transition
<1> SUFFICES \E x \in Subjects : \E type :
               t = Change(before, after, x, type) /\ View(before, x) # View(after, x)
  BY <1>1, <1>3
<1>4. CASE t \in ActionTransitions(before, after)
  <2>1. PICK s \in Symbols :
          /\ Differs(before, after, <<"action", s>>)
          /\ t = Change(before, after, <<"action", s>>,
                        PortfolioTransitionType(before.actions[s], after.actions[s]))
    BY <1>4 DEF ActionTransitions
  <2> QED
    BY <2>1, SubjectsOf DEF Differs
<1>5. CASE t \in TopTransitions(before, after)
  <2>1. PICK s : /\ s \in TopPriority(after) \ TopPriority(before)
                      \/ s \in TopPriority(before) \ TopPriority(after)
                 /\ \E type : t = Change(before, after, <<"top", s>>, type)
    BY <1>5 DEF TopTransitions
  <2>2. s \in Symbols
    <3>1. \A c \in before.queue \cup after.queue : c.symbol \in Symbols
      BY <1>1 DEF Snapshots, MarketStateSnapshot, CandidateState
    <3> QED
      BY <2>1, <3>1 DEF TopPriority
  <2>3. View(before, <<"top", s>>) # View(after, <<"top", s>>)
    BY <2>1, ViewOf
  <2> QED
    BY <2>1, <2>2, <2>3, SubjectsOf
<1>6. CASE t \in BreadthTransitions(before, after)
  <2>1. /\ Differs(before, after, <<"breadth", "market">>)
        /\ t = Change(before, after, <<"breadth", "market">>, "BREADTH_REGIME_CHANGED")
    BY <1>6 DEF BreadthTransitions
  <2> QED
    BY <2>1, SubjectsOf DEF Differs
<1>7. CASE t \in VolatilityTransitions(before, after)
  <2>1. /\ Differs(before, after, <<"volatility", "market">>)
        /\ t = Change(before, after, <<"volatility", "market">>,
                      "VOLATILITY_REGIME_CHANGED")
    BY <1>7 DEF VolatilityTransitions
  <2> QED
    BY <2>1, SubjectsOf DEF Differs
<1>8. CASE t \in SectorTransitions(before, after)
  <2>1. PICK s : /\ s \in BlockedSectors(after) \ BlockedSectors(before)
                      \/ s \in BlockedSectors(before) \ BlockedSectors(after)
                 /\ \E type : t = Change(before, after, <<"block", s>>, type)
    BY <1>8 DEF SectorTransitions
  <2>2. s \in Sectors
    <3>1. DOMAIN before.sectors \subseteq Sectors /\ DOMAIN after.sectors \subseteq Sectors
      BY <1>1 DEF Snapshots, MarketStateSnapshot
    <3> QED
      BY <2>1, <3>1 DEF BlockedSectors
  <2>3. View(before, <<"block", s>>) # View(after, <<"block", s>>)
    BY <2>1, ViewOf
  <2> QED
    BY <2>1, <2>2, <2>3, SubjectsOf
<1> QED
  BY <1>2, <1>4, <1>5, <1>6, <1>7, <1>8

\* A subject of which two snapshots say different things has its transition,
\* unless a position comes or goes or the new context is not known.
LEMMA DiffComplete ==
  ASSUME NEW before \in MarketStateSnapshot, NEW after \in MarketStateSnapshot,
         NEW x \in Subjects, View(before, x) # View(after, x),
         x[1] = "action" => View(before, x) # None /\ View(after, x) # None,
         x[1] \in {"breadth", "volatility"} => ~Silent(after, x)
  PROVE  \E t \in Diff(before, after) : t.subject = x
<1>1. before # None
  BY NoSnapshotAssumption
<1>2. \A type : Change(before, after, x, type).subject = x
  BY DEF Change, Transition
<1> SUFFICES \E type : Change(before, after, x, type) \in Diff(before, after)
  BY <1>2
<1> DEFINE parts == {ActionTransitions(before, after), TopTransitions(before, after),
                     BreadthTransitions(before, after),
                     VolatilityTransitions(before, after),
                     SectorTransitions(before, after)}
<1>3. Diff(before, after) = UNION parts
  BY <1>1 DEF Diff
<1> HIDE DEF parts
<1> SUFFICES \E part \in parts : \E type : Change(before, after, x, type) \in part
  BY <1>3
<1>4. CASE \E s \in Symbols : x = <<"action", s>>
  <2>1. PICK s \in Symbols : x = <<"action", s>>
    BY <1>4
  <2>2. /\ before.actions[s] # None /\ after.actions[s] # None
        /\ Differs(before, after, <<"action", s>>)
    BY <2>1, ViewOf DEF Differs
  <2>3. Change(before, after, <<"action", s>>,
               PortfolioTransitionType(before.actions[s], after.actions[s]))
          \in ActionTransitions(before, after)
    BY <2>2 DEF ActionTransitions
  <2> QED
    BY <2>1, <2>3 DEF parts
<1>5. CASE \E s \in Symbols : x = <<"top", s>>
  <2>1. PICK s \in Symbols : x = <<"top", s>>
    BY <1>5
  <2>2. \/ s \in TopPriority(after) \ TopPriority(before)
        \/ s \in TopPriority(before) \ TopPriority(after)
    BY <2>1, ViewOf
  <2>3. \E type : Change(before, after, <<"top", s>>, type) \in TopTransitions(before, after)
    BY <2>2 DEF TopTransitions
  <2> QED
    BY <2>1, <2>3 DEF parts
<1>6. CASE \E s \in Sectors : x = <<"block", s>>
  <2>1. PICK s \in Sectors : x = <<"block", s>>
    BY <1>6
  <2>2. \/ s \in BlockedSectors(after) \ BlockedSectors(before)
        \/ s \in BlockedSectors(before) \ BlockedSectors(after)
    BY <2>1, ViewOf
  <2>3. \E type : Change(before, after, <<"block", s>>, type)
                    \in SectorTransitions(before, after)
    BY <2>2 DEF SectorTransitions
  <2> QED
    BY <2>1, <2>3 DEF parts
<1>7. CASE x = <<"breadth", "market">>
  <2>1. after.context.breadth # None /\ Differs(before, after, <<"breadth", "market">>)
    BY <1>7, ViewOf DEF Silent, Differs
  <2>2. Change(before, after, x, "BREADTH_REGIME_CHANGED") \in BreadthTransitions(before, after)
    BY <1>7, <2>1 DEF BreadthTransitions
  <2> QED
    BY <2>2 DEF parts
<1>8. CASE x = <<"volatility", "market">>
  <2>1. /\ after.context.volatility # NoVolatility
        /\ Differs(before, after, <<"volatility", "market">>)
    BY <1>8, ViewOf DEF Silent, Differs
  <2>2. Change(before, after, x, "VOLATILITY_REGIME_CHANGED")
          \in VolatilityTransitions(before, after)
    BY <1>8, <2>1 DEF VolatilityTransitions
  <2> QED
    BY <2>2 DEF parts
<1> QED
  BY <1>4, <1>5, <1>6, <1>7, <1>8, SubjectKinds

LEMMA TransitionKinds ==
  ASSUME NEW before, NEW after, NEW t
  PROVE  /\ t \in ActionTransitions(before, after) => t.subject[1] = "action"
         /\ t \in TopTransitions(before, after) => t.subject[1] = "top"
         /\ t \in BreadthTransitions(before, after) => t.subject[1] = "breadth"
         /\ t \in VolatilityTransitions(before, after) => t.subject[1] = "volatility"
         /\ t \in SectorTransitions(before, after) => t.subject[1] = "block"
<1>1. \A x, type : Change(before, after, x, type).subject = x
  BY DEF Change, Transition
<1>2. ASSUME t \in ActionTransitions(before, after) PROVE t.subject[1] = "action"
  <2>1. \E s, type : t = Change(before, after, <<"action", s>>, type)
    BY <1>2 DEF ActionTransitions
  <2> QED
    BY <1>1, <2>1
<1>3. ASSUME t \in TopTransitions(before, after) PROVE t.subject[1] = "top"
  <2>1. \E s, type : t = Change(before, after, <<"top", s>>, type)
    BY <1>3 DEF TopTransitions
  <2> QED
    BY <1>1, <2>1
<1>4. t \in BreadthTransitions(before, after) => t.subject[1] = "breadth"
  BY <1>1 DEF BreadthTransitions
<1>5. t \in VolatilityTransitions(before, after) => t.subject[1] = "volatility"
  BY <1>1 DEF VolatilityTransitions
<1>6. ASSUME t \in SectorTransitions(before, after) PROVE t.subject[1] = "block"
  <2>1. \E s, type : t = Change(before, after, <<"block", s>>, type)
    BY <1>6 DEF SectorTransitions
  <2> QED
    BY <1>1, <2>1
<1> QED
  BY <1>2, <1>3, <1>4, <1>5, <1>6

\* A position whose action gets worse, and a sector that becomes blocked, are
\* worth a warning.
LEMMA WorseIsWarning ==
  ASSUME NEW before \in MarketStateSnapshot, NEW after \in MarketStateSnapshot,
         NEW t \in Diff(before, after)
  PROVE  /\ \A s \in Symbols :
              /\ t.subject = <<"action", s>>
              /\ Severity(after.actions[s]) > Severity(before.actions[s])
              => NoticeSeverity(t) = "warning"
         /\ \A s \in Sectors :
              t.subject = <<"block", s>> /\ s \in BlockedSectors(after) =>
                NoticeSeverity(t) = "warning"
<1>1. \/ t \in ActionTransitions(before, after)
      \/ t \in TopTransitions(before, after)
      \/ t \in BreadthTransitions(before, after)
      \/ t \in VolatilityTransitions(before, after)
      \/ t \in SectorTransitions(before, after)
  BY DEF Diff
<1>2. \A x, type : Change(before, after, x, type).subject = x
                   /\ Change(before, after, x, type).type = type
  BY DEF Change, Transition
<1>3. ASSUME NEW s \in Symbols, t.subject = <<"action", s>>,
             Severity(after.actions[s]) > Severity(before.actions[s])
      PROVE  NoticeSeverity(t) = "warning"
  <2>1. t \in ActionTransitions(before, after)
    BY <1>1, <1>3, TransitionKinds
  <2>2. PICK q \in Symbols :
          /\ before.actions[q] # None /\ after.actions[q] # None
          /\ t = Change(before, after, <<"action", q>>,
                        PortfolioTransitionType(before.actions[q], after.actions[q]))
    BY <2>1 DEF ActionTransitions
  <2>3. q = s
    BY <1>2, <1>3, <2>2
  <2>4. before.actions[s] \in Actions /\ after.actions[s] \in Actions
    BY <2>2, <2>3 DEF MarketStateSnapshot
  <2>5. ~(Severity(after.actions[s]) < Severity(before.actions[s]))
    BY <1>3, <2>4, SeverityOf
  <2>6. t.type = PortfolioTransitionType(before.actions[s], after.actions[s])
    BY <1>2, <2>2, <2>3
  <2>7. t.type \in {"HOLD_TO_WATCH_CLOSELY", "WATCH_CLOSELY_TO_EXIT_CANDIDATE",
                    "POSITION_ACTION_ESCALATED"}
    BY <2>5, <2>6 DEF PortfolioTransitionType
  <2> QED
    BY <2>7 DEF NoticeSeverity
<1>4. ASSUME NEW s \in Sectors, t.subject = <<"block", s>>, s \in BlockedSectors(after)
      PROVE  NoticeSeverity(t) = "warning"
  <2>1. t \in SectorTransitions(before, after)
    BY <1>1, <1>4, TransitionKinds
  <2>2. PICK q : \/ /\ q \in BlockedSectors(after)
                    /\ t = Change(before, after, <<"block", q>>, "SECTOR_BLOCK_ENTERED")
                 \/ /\ q \notin BlockedSectors(after)
                    /\ t = Change(before, after, <<"block", q>>, "SECTOR_BLOCK_CLEARED")
    BY <2>1 DEF SectorTransitions
  <2>3. q = s
    BY <1>2, <1>4, <2>2
  <2>4. t.type = "SECTOR_BLOCK_ENTERED"
    BY <1>2, <1>4, <2>2, <2>3
  <2> QED
    BY <2>4 DEF NoticeSeverity
<1> QED
  BY <1>3, <1>4

-----------------------------------------------------------------------------
(* Alerts                                                                  *)

LEMMA AlertsOf ==
  ASSUME NEW s \in MarketStateSnapshot, NEW alert
  PROVE  alert \in AlertableStates(s) <=>
           \/ \E y \in Symbols : /\ s.actions[y] \notin {None, "HOLD"}
                                 /\ alert = <<s.actions[y], y>>
           \/ \E y \in TopPriority(s) : alert = <<"BUY CANDIDATE", y>>
           \/ \E y \in BlockedSectors(s) : alert = <<"SECTOR BLOCK", y>>
BY DEF AlertableStates

LEMMA AlertsAreAbout ==
  ASSUME NEW s \in MarketStateSnapshot
  PROVE  /\ TopPriority(s) \subseteq Symbols
         /\ BlockedSectors(s) \subseteq Sectors
         /\ \A y \in Symbols : s.actions[y] \in Actions \cup {None}
<1>1. /\ \A c \in s.queue : c.symbol \in Symbols
      /\ DOMAIN s.sectors \subseteq Sectors
      /\ s.actions \in [Symbols -> Actions \cup {None}]
  BY DEF MarketStateSnapshot, CandidateState
<1> QED
  BY <1>1 DEF TopPriority, BlockedSectors

\* What a symbol of the alerts of one snapshot alone says of the other.
LEMMA AlertsCovered ==
  ASSUME NEW before \in MarketStateSnapshot, NEW after \in MarketStateSnapshot,
         NEW one \in {before, after}, NEW other \in {before, after},
         NEW alert \in AlertableStates(one) \ AlertableStates(other)
  PROVE  LET kind == CASE alert[1] = "BUY CANDIDATE" -> {"top"}
                       [] alert[1] = "SECTOR BLOCK" -> {"block"}
                       [] OTHER -> {"action"}
         IN  \/ \E t \in Diff(before, after) :
                  t.subject[2] = alert[2] /\ t.subject[1] \in kind
             \/ /\ alert[1] \in Actions
                /\ None \in {before.actions[alert[2]], after.actions[alert[2]]}
<1> DEFINE kind == CASE alert[1] = "BUY CANDIDATE" -> {"top"}
                     [] alert[1] = "SECTOR BLOCK" -> {"block"}
                     [] OTHER -> {"action"}
<1>1. \/ one = before /\ other = after
      \/ one = after /\ other = before
  OBVIOUS
<1>2. \A x \in Subjects : View(one, x) # View(other, x) => View(before, x) # View(after, x)
  BY <1>1
<1>3. CASE \E y \in Symbols : /\ one.actions[y] \notin {None, "HOLD"}
                              /\ alert = <<one.actions[y], y>>
  <2>1. PICK y \in Symbols : /\ one.actions[y] \notin {None, "HOLD"}
                             /\ alert = <<one.actions[y], y>>
    BY <1>3
  <2>2. one.actions[y] \in Actions /\ alert[1] \in Actions
    BY <2>1, AlertsAreAbout
  <2>3. kind = {"action"}
    BY <2>2, ActionsInOrder
  <2>4. other.actions[y] # one.actions[y]
    BY <2>1, AlertsOf
  <2>5. View(before, <<"action", y>>) # View(after, <<"action", y>>)
    <3>1. View(one, <<"action", y>>) # View(other, <<"action", y>>)
      BY <2>4, ViewOf
    <3> QED
      BY <1>2, <3>1, SubjectsOf
  <2>6. CASE None \notin {before.actions[y], after.actions[y]}
    <3> DEFINE x == <<"action", y>>
    <3>1. x \in Subjects /\ x[1] = "action" /\ x[2] = y
      BY SubjectsOf
    <3>2. View(before, x) # None /\ View(after, x) # None
      BY <2>6, ViewOf
    <3> HIDE DEF x
    <3>3. \E t \in Diff(before, after) : t.subject = x
      BY <2>5, <3>1, <3>2, DiffComplete DEF x
    <3> QED
      BY <2>1, <2>3, <3>1, <3>3
  <2> QED
    BY <2>1, <2>2, <2>6
<1>4. CASE \E y \in TopPriority(one) : alert = <<"BUY CANDIDATE", y>>
  <2>1. PICK y \in TopPriority(one) : alert = <<"BUY CANDIDATE", y>>
    BY <1>4
  <2>2. kind = {"top"}
    BY <2>1
  <2>3. y \in Symbols /\ y \notin TopPriority(other)
    BY <2>1, AlertsAreAbout, AlertsOf
  <2> DEFINE x == <<"top", y>>
  <2>4. x \in Subjects /\ x[1] = "top" /\ x[2] = y
    BY <2>3, SubjectsOf
  <2>5. View(one, x) # View(other, x)
    BY <2>1, <2>3, ViewOf
  <2> HIDE DEF x
  <2>6. \E t \in Diff(before, after) : t.subject = x
    BY <1>2, <2>4, <2>5, DiffComplete
  <2> QED
    BY <2>1, <2>2, <2>4, <2>6
<1>5. CASE \E y \in BlockedSectors(one) : alert = <<"SECTOR BLOCK", y>>
  <2>1. PICK y \in BlockedSectors(one) : alert = <<"SECTOR BLOCK", y>>
    BY <1>5
  <2>2. kind = {"block"}
    BY <2>1
  <2>3. y \in Sectors /\ y \notin BlockedSectors(other)
    BY <2>1, AlertsAreAbout, AlertsOf
  <2> DEFINE x == <<"block", y>>
  <2>4. x \in Subjects /\ x[1] = "block" /\ x[2] = y
    BY <2>3, SubjectsOf
  <2>5. View(one, x) # View(other, x)
    BY <2>1, <2>3, ViewOf
  <2> HIDE DEF x
  <2>6. \E t \in Diff(before, after) : t.subject = x
    BY <1>2, <2>4, <2>5, DiffComplete
  <2> QED
    BY <2>1, <2>2, <2>4, <2>6
<1>6. \/ \E y \in Symbols : one.actions[y] \notin {None, "HOLD"} /\ alert = <<one.actions[y], y>>
      \/ \E y \in TopPriority(one) : alert = <<"BUY CANDIDATE", y>>
      \/ \E y \in BlockedSectors(one) : alert = <<"SECTOR BLOCK", y>>
  BY DEF AlertableStates
<1> HIDE DEF kind
<1> QED
  BY <1>3, <1>4, <1>5, <1>6 DEF kind

\* The symbols a review calls urgent are those that have an alert.
LEMMA UrgentOf ==
  ASSUME NEW rows \in Review, NEW s \in MarketStateSnapshot,
         s.actions = ActionStates(rows)
  PROVE  SummaryOfReview(rows).urgent
           = {a[2] : a \in {b \in AlertableStates(s) : b[1] \in Actions}}
<1> DEFINE urgent == SummaryOfReview(rows).urgent
           alerted == {a[2] : a \in {b \in AlertableStates(s) : b[1] \in Actions}}
<1>1. \A r \in rows : r.symbol \in Symbols /\ r.action \in Actions
  BY DEF Review, ReviewRow
<1>2. \A y : y \in urgent <=> \E r \in rows : r.symbol = y /\ r.action # "HOLD"
  BY DEF SummaryOfReview
<1>3. \A y : y \in alerted <=> y \in Symbols /\ s.actions[y] \notin {None, "HOLD"}
  <2>1. ASSUME NEW y \in alerted PROVE y \in Symbols /\ s.actions[y] \notin {None, "HOLD"}
    <3>1. PICK a \in AlertableStates(s) : a[1] \in Actions /\ a[2] = y
      OBVIOUS
    <3>2. a[1] # "BUY CANDIDATE" /\ a[1] # "SECTOR BLOCK"
      BY <3>1, ActionsInOrder
    <3>3. \/ \E z \in Symbols : s.actions[z] \notin {None, "HOLD"} /\ a = <<s.actions[z], z>>
          \/ \E z \in TopPriority(s) : a = <<"BUY CANDIDATE", z>>
          \/ \E z \in BlockedSectors(s) : a = <<"SECTOR BLOCK", z>>
      BY DEF AlertableStates
    <3>4. \A z : <<"BUY CANDIDATE", z>>[1] = "BUY CANDIDATE"
                 /\ <<"SECTOR BLOCK", z>>[1] = "SECTOR BLOCK"
      OBVIOUS
    <3>5. PICK z \in Symbols : s.actions[z] \notin {None, "HOLD"} /\ a = <<s.actions[z], z>>
      BY <3>2, <3>3, <3>4
    <3> QED
      BY <3>1, <3>5
  <2>2. ASSUME NEW y \in Symbols, s.actions[y] \notin {None, "HOLD"} PROVE y \in alerted
    <3>1. <<s.actions[y], y>> \in AlertableStates(s)
      BY <2>2, AlertsOf
    <3>2. s.actions[y] \in Actions
      BY <2>2, AlertsAreAbout
    <3>3. <<s.actions[y], y>>[1] \in Actions /\ <<s.actions[y], y>>[2] = y
      BY <3>2
    <3> QED
      BY <3>1, <3>3
  <2> QED
    BY <2>1, <2>2
<1> HIDE DEF urgent, alerted
<1>4. ASSUME NEW y \in Symbols
      PROVE  s.actions[y] \notin {None, "HOLD"}
               <=> \E r \in rows : r.symbol = y /\ r.action # "HOLD"
  <2>1. CASE s.actions[y] = None /\ \A r \in rows : r.symbol # y
    BY <2>1
  <2>2. CASE \E r \in rows :
               /\ r.symbol = y /\ s.actions[y] = r.action
               /\ \A q \in rows : q.symbol = y => Severity(r.action) >= Severity(q.action)
    <3>1. PICK r \in rows :
            /\ r.symbol = y /\ s.actions[y] = r.action
            /\ \A q \in rows : q.symbol = y => Severity(r.action) >= Severity(q.action)
      BY <2>2
    <3>2. r.action \in Actions /\ r.action # None
      BY <1>1, NoSnapshotAssumption
    <3>3. CASE r.action # "HOLD"
      BY <3>1, <3>2, <3>3
    <3>4. CASE r.action = "HOLD"
      <4>1. ASSUME NEW q \in rows, q.symbol = y PROVE q.action = "HOLD"
        <5>1. q.action \in Actions /\ Severity(r.action) = 1
          BY <1>1, <3>2, <3>4, SeverityOf
        <5>2. Severity(q.action) \in 1..4 /\ Severity(q.action) <= 1
          BY <3>1, <4>1, <5>1, SeverityOf
        <5> QED
          BY <5>1, <5>2, SeverityOf
      <4> QED
        BY <3>1, <3>4, <4>1
    <3> QED
      BY <3>2, <3>3, <3>4
  <2> QED
    BY <2>1, <2>2, ActionStateOf
<1> QED
  BY <1>1, <1>2, <1>3, <1>4 DEF urgent, alerted

-----------------------------------------------------------------------------
(* The invariant holds at the start                                        *)

LEMMA InitInvariant == Init => IInv
<1> SUFFICES ASSUME Init PROVE IInv
  OBVIOUS
<1>1. Idle \in Cycles /\ Idle.pc = "idle" /\ Idle.base = None
  BY DEF Idle, NoReport, Cycles, ReportType, Snapshots
<1>2. \A p \in Procs : run[p] = Idle
  BY DEF Init
<1>3. Typed
  <2>1. \A x \in Subjects : None \in ValuesOf(x)
    BY DEF ValuesOf, BreadthContext
  <2>2. 0 \in 0..MaxCycles
    BY MaxCyclesAssumption
  <2> QED
    BY <1>1, <1>2, <2>1, <2>2 DEF Init, Typed, Snapshots, Counted
<1>4. OnlyLiveTells /\ FileAccounted
  BY <1>1, <1>2 DEF Init, OnlyLiveTells, FileAccounted, Accounted
<1>5. BaseAccounted
  BY <1>1, <1>2, LiveAssumption DEF BaseAccounted
<1>6. OverlapsCrossed /\ KeptIsPrevious /\ FilesExplain
  BY <1>1, <1>2 DEF Init, OverlapsCrossed, Updating, KeptIsPrevious, FilesExplain
<1> QED
  BY <1>3, <1>4, <1>5, <1>6 DEF IInv

-----------------------------------------------------------------------------
(* One step                                                                *)

\* What is built from a cycle's base and report.
LEMMA BuiltType ==
  ASSUME Typed, NEW p \in Procs
  PROVE  /\ run[p] \in Cycles
         /\ run[p].base \in Snapshots
         /\ Built(p) \in MarketStateSnapshot /\ Counted(Built(p))
         /\ Built(p) # None
         /\ Built(p) = Build(run[p].base, run[p].report)
<1>1. run[p] \in Cycles /\ Counted(run[p].base)
  BY DEF Typed
<1>2. run[p].base \in Snapshots /\ run[p].report \in ReportType
  BY <1>1 DEF Cycles
<1> QED
  BY <1>1, <1>2, BuildType, NoSnapshotAssumption DEF Built

LEMMA TypedPreserved ==
  ASSUME Typed, [Next]_vars
  PROVE  Typed'
<1> USE DEF Typed
<1>1. ASSUME NEW p \in Procs, RunStages(p) PROVE Typed'
  <2>1. PICK daily \in Summaries \cup {None}, portfolio \in Reviews \cup {None},
             intraday \in Reviews \cup {None} :
          run' = [run EXCEPT ![p] =
                    [pc |-> "reported", base |-> None,
                     report |-> [daily |-> daily, portfolio |-> portfolio,
                                 intraday |-> intraday]]]
    BY <1>1 DEF RunStages, Outcome
  <2>2. run' \in [Procs -> Cycles] /\ \A q \in Procs : Counted(run'[q].base)
    BY <2>1 DEF Cycles, ReportType, Snapshots, Counted
  <2>3. begun' \in 0..MaxCycles
    BY <1>1, MaxCyclesAssumption DEF RunStages
  <2> QED
    BY <1>1, <2>2, <2>3 DEF RunStages
<1>2. ASSUME NEW p \in Procs, LoadCurrent(p) PROVE Typed'
  <2>1. run' \in [Procs -> Cycles] /\ \A q \in Procs : Counted(run'[q].base)
    BY <1>2 DEF LoadCurrent, Cycles
  <2>2. crossed' \subseteq Procs
    BY <1>2 DEF LoadCurrent, Updating
  <2> QED
    BY <1>2, <2>1, <2>2 DEF LoadCurrent
<1>3. ASSUME NEW p \in Procs, KeepPrevious(p) PROVE Typed'
  <2>1. run' \in [Procs -> Cycles] /\ \A q \in Procs : Counted(run'[q].base)
    BY <1>3 DEF KeepPrevious, Cycles
  <2>2. previous' \in Snapshots /\ Counted(previous')
    BY <1>3, BuiltType DEF KeepPrevious
  <2> QED
    BY <1>3, <2>1, <2>2 DEF KeepPrevious
<1>4. ASSUME NEW p \in Procs, SaveCurrent(p) PROVE Typed'
  <2>1. run' \in [Procs -> Cycles] /\ \A q \in Procs : Counted(run'[q].base)
    BY <1>4 DEF SaveCurrent, Cycles
  <2>2. current' \in Snapshots /\ Counted(current')
    BY <1>4, BuiltType DEF SaveCurrent, Snapshots
  <2>3. \A t \in announced' : t.subject \in Subjects /\ t.from # t.to
    BY <1>4, BuiltType, DiffSound DEF SaveCurrent, Changes
  <2>4. untold' \subseteq Subjects
    BY <1>4 DEF SaveCurrent, Altered
  <2>5. disturbed' \in BOOLEAN
    BY <1>4 DEF SaveCurrent
  <2> QED
    BY <1>4, <2>1, <2>2, <2>3, <2>4, <2>5 DEF SaveCurrent
<1>5. ASSUME NEW p \in Procs, WriteOutputs(p) PROVE Typed'
  <2>1. run' \in [Procs -> Cycles] /\ \A q \in Procs : Counted(run'[q].base)
    BY <1>5 DEF WriteOutputs, Cycles
  <2> QED
    BY <1>5, <2>1 DEF WriteOutputs
<1> DEFINE Ends(p) == run' = [run EXCEPT ![p] = Idle]
<1>6. ASSUME NEW p \in Procs, Ends(p)
      PROVE  run' \in [Procs -> Cycles] /\ \A q \in Procs : Counted(run'[q].base)
  BY <1>6 DEF Idle, NoReport, Cycles, ReportType, Snapshots, Counted
<1>7. \A p \in Procs : Untold(p) => untold' \subseteq Subjects
  BY DEF Untold, Altered
<1>8. ASSUME NEW p \in Procs, CommandWrites(p) PROVE Typed'
  BY <1>6, <1>7, <1>8 DEF CommandWrites
<1>9. ASSUME NEW p \in Procs, OutputsFail(p) PROVE Typed'
  BY <1>6, <1>7, <1>9 DEF OutputsFail
<1>10. ASSUME NEW p \in Procs, TellFails(p) PROVE Typed'
  BY <1>6, <1>7, <1>10 DEF TellFails
<1>11. ASSUME NEW p \in Procs, Crash(p) PROVE Typed'
  <2>1. disturbed' \in BOOLEAN /\ untold' \subseteq Subjects
    BY <1>7, <1>11 DEF Crash
  <2> QED
    BY <1>6, <1>11, <2>1 DEF Crash
<1>12. ASSUME NEW p \in Procs, Tell(p) PROVE Typed'
  <2>1. untold' \subseteq Subjects
    BY <1>12 DEF Tell, Altered
  <2>2. ASSUME NEW x \in Subjects PROVE told'[x] \in ValuesOf(x)
    <3> DEFINE routed == {t \in Changes(p) : PassesRoute(minimum, t)}
               about == {t \in routed : t.subject = x}
    <3>1. told'[x] = IF View(Built(p), x) = None /\ x[1] = "action" THEN None
                     ELSE IF about # {} THEN (CHOOSE t \in about : TRUE).to
                     ELSE told[x]
      BY <1>12 DEF Tell, Hear
    <3>2. \A t \in about : t.to \in ValuesOf(x)
      BY BuiltType, DiffSound, ViewType DEF Changes
    <3>3. View(Built(p), x) \in ValuesOf(x)
      BY BuiltType, ViewType
    <3> HIDE DEF about
    <3> QED
      BY <3>1, <3>2, <3>3
  <2> QED
    BY <1>6, <1>12, <2>1, <2>2 DEF Tell
<1>13. ASSUME Damage PROVE Typed'
  BY <1>13 DEF Damage, Snapshots, Counted
<1>14. CASE UNCHANGED vars
  BY <1>14 DEF vars
<1> QED
  BY <1>1, <1>2, <1>3, <1>4, <1>5, <1>8, <1>9, <1>10, <1>11, <1>12, <1>13, <1>14 DEF Next

\* Whether what is known fits a snapshot depends on what it says of the subject.
LEMMA FitsAlike ==
  ASSUME NEW a \in MarketStateSnapshot, NEW b \in MarketStateSnapshot, NEW x \in Subjects,
         View(a, x) = View(b, x), NEW known, NEW route, Fits(known, route, a, x)
  PROVE  Fits(known, route, b, x)
BY NoSnapshotAssumption DEF Fits, Cautious, Agrees, Silent

\* What is known still fits after a change that makes no notice, unless the
\* position is gone; and it fits after the change it was told of.
LEMMA UnroutedFits ==
  ASSUME NEW before \in MarketStateSnapshot, NEW after \in MarketStateSnapshot,
         NEW x \in Subjects, NEW known \in ValuesOf(x), known # None,
         NEW route \in {"info", "warning"},
         Fits(known, route, before, x),
         \A t \in Diff(before, after) : t.subject = x => ~PassesRoute(route, t),
         x[1] = "action" => View(after, x) # None
  PROVE  Fits(known, route, after, x)
<1>1. after # None
  BY NoSnapshotAssumption
<1>2. CASE View(before, x) = View(after, x)
  BY <1>2, FitsAlike
<1>3. CASE View(before, x) # View(after, x)
  <2>1. Cautious(known, before, x)
    BY DEF Fits
  <2>2. ASSUME x[1] = "action" PROVE Cautious(known, after, x)
    <3>1. PICK s \in Symbols : x = <<"action", s>>
      BY <2>2, SubjectKinds
    <3>2. /\ View(before, x) = before.actions[s] /\ View(after, x) = after.actions[s]
          /\ before.actions[s] \in Actions /\ after.actions[s] \in Actions
      BY <2>1, <2>2, <3>1, ViewOf, AlertsAreAbout DEF Cautious
    <3>3. known \in Actions
      BY <2>2 DEF ValuesOf
    <3>4. PICK t \in Diff(before, after) : t.subject = x
      BY <1>3, <2>2, <3>2, NoSnapshotAssumption, DiffComplete
    <3>5. NoticeSeverity(t) # "warning"
      BY <3>4 DEF PassesRoute
    <3>6. ~(Severity(after.actions[s]) > Severity(before.actions[s]))
      BY <3>1, <3>4, <3>5, WorseIsWarning
    <3>7. /\ Severity(after.actions[s]) \in 1..4 /\ Severity(before.actions[s]) \in 1..4
          /\ Severity(known) \in 1..4
      BY <3>2, <3>3, SeverityOf
    <3>8. Severity(known) >= Severity(after.actions[s])
      BY <2>1, <2>2, <3>2, <3>6, <3>7 DEF Cautious
    <3> QED
      BY <2>2, <3>2, <3>8, NoSnapshotAssumption DEF Cautious
  <2>3. ASSUME x[1] = "block", known = "clear" PROVE View(after, x) = "clear"
    <3>1. PICK s \in Sectors : x = <<"block", s>>
      BY <2>3, SubjectKinds
    <3>2. PICK t \in Diff(before, after) : t.subject = x
      BY <1>3, <2>3, DiffComplete
    <3>3. NoticeSeverity(t) # "warning"
      BY <3>2 DEF PassesRoute
    <3>4. s \notin BlockedSectors(after)
      BY <3>1, <3>2, <3>3, WorseIsWarning
    <3> QED
      BY <3>1, <3>4, ViewOf
  <2>4. Cautious(known, after, x)
    <3>1. CASE x[1] = "action"
      BY <2>2, <3>1
    <3>2. CASE x[1] # "action"
      BY <2>3, <3>2 DEF Cautious
    <3> QED
      BY <3>1, <3>2
  <2>5. ASSUME route = "info" PROVE Agrees(known, after, x)
    <3>1. \A t \in Diff(before, after) : t.subject # x
      BY <2>5 DEF PassesRoute
    <3>2. CASE x[1] = "action"
      <4>1. View(before, x) # None
        BY <2>1, <3>2 DEF Cautious
      <4> QED
        BY <1>3, <3>1, <3>2, <4>1, DiffComplete
    <3>3. CASE x[1] # "action"
      <4>1. Silent(after, x)
        BY <1>3, <3>1, <3>3, DiffComplete
      <4> QED
        BY <3>3, <4>1 DEF Agrees
    <3> QED
      BY <3>2, <3>3
  <2> QED
    BY <1>1, <2>4, <2>5 DEF Fits
<1> QED
  BY <1>2, <1>3

LEMMA RoutedFits ==
  ASSUME NEW after \in MarketStateSnapshot, NEW x \in Subjects,
         x[1] = "action" => View(after, x) # None, NEW route
  PROVE  Fits(View(after, x), route, after, x)
<1>1. after # None
  BY NoSnapshotAssumption
<1>2. ASSUME x[1] = "action" PROVE Severity(View(after, x)) \in 1..4
  <2>1. View(after, x) \in Actions
    BY <1>2, ViewType DEF ValuesOf
  <2> QED
    BY <2>1, SeverityOf
<1>3. Cautious(View(after, x), after, x)
  <2>1. CASE x[1] = "action"
    BY <1>2, <2>1 DEF Cautious
  <2>2. CASE x[1] # "action"
    BY <2>2 DEF Cautious
  <2> QED
    BY <2>1, <2>2
<1> QED
  BY <1>1, <1>3 DEF Fits, Agrees

\* What a cycle owes depends on its stage, its base and its report.
LEMMA OwesAlike ==
  ASSUME NEW c, NEW d, NEW x, c.base = d.base, c.report = d.report,
         d.pc \in {"saved", "written"} \/ c.pc \notin {"saved", "written"}
  PROVE  Owes(c, x) => Owes(d, x)
BY DEF Owes

\* A step that leaves the files and what the operator knows keeps the accounts,
\* if what it stops owing it counts as untold.
LEMMA AccountsKept ==
  ASSUME FileAccounted, BaseAccounted,
         UNCHANGED <<current, told, minimum>>, untold \subseteq untold',
         NEW p \in Procs, run \in [Procs -> Cycles],
         \A q \in Procs \ {p} : run'[q] = run[q],
         \A x \in Subjects : Owes(run[p], x) => Owes(run'[p], x) \/ x \in untold',
         p = Live => \/ run'[p].pc \in {"idle", "reported"}
                     \/ /\ run[p].pc \notin {"idle", "reported"}
                        /\ run'[p].base = run[p].base
  PROVE  FileAccounted' /\ BaseAccounted'
<1>1. ASSUME NEW x \in Subjects PROVE Accounted(current, x, Procs)'
  <2>1. Accounted(current, x, Procs)
    BY DEF FileAccounted
  <2>2. \A q \in Procs : Owes(run[q], x) => Owes(run'[q], x) \/ x \in untold'
    OBVIOUS
  <2> QED
    BY <2>1, <2>2 DEF Accounted
<1>2. ASSUME run'[Live].pc \notin {"idle", "reported"}, NEW x \in Subjects
      PROVE  Accounted(run[Live].base, x, Procs \ {Live})'
  <2>1. run[Live].pc \notin {"idle", "reported"} /\ run'[Live].base = run[Live].base
    BY <1>2, LiveAssumption
  <2>2. Accounted(run[Live].base, x, Procs \ {Live})
    BY <2>1 DEF BaseAccounted
  <2>3. \A q \in Procs : Owes(run[q], x) => Owes(run'[q], x) \/ x \in untold'
    OBVIOUS
  <2> QED
    BY <2>1, <2>2, <2>3 DEF Accounted
<1> QED
  BY <1>1, <1>2 DEF FileAccounted, BaseAccounted

\* The accounts hold when a cycle ends without telling.
LEMMA AccountsOfEnding ==
  ASSUME IInv, NEW p \in Procs, run' = [run EXCEPT ![p] = Idle],
         UNCHANGED <<current, told, minimum>>,
         Untold(p) \/ (run[p].pc \notin {"saved", "written"} /\ UNCHANGED untold)
  PROVE  FileAccounted' /\ BaseAccounted'
<1>1. run \in [Procs -> Cycles]
  BY DEF IInv, Typed
<1>2. run'[p].pc = "idle"
  BY <1>1 DEF Idle
<1>3. untold \subseteq untold'
  BY DEF Untold
<1>4. ASSUME NEW x \in Subjects, Owes(run[p], x) PROVE x \in untold'
  BY <1>4 DEF Owes, Untold, Built
<1>5. \A q \in Procs \ {p} : run'[q] = run[q]
  BY <1>1
<1>6. FileAccounted /\ BaseAccounted
  BY DEF IInv
<1> QED
  BY <1>1, <1>2, <1>3, <1>4, <1>5, <1>6, AccountsKept

LEMMA AccountsOfLoading ==
  ASSUME IInv, NEW p \in Procs, LoadCurrent(p)
  PROVE  FileAccounted' /\ BaseAccounted'
<1>1. /\ run \in [Procs -> Cycles] /\ run[p].pc = "reported"
      /\ run'[p].pc = "loaded" /\ run'[p].base = current
      /\ \A q \in Procs \ {p} : run'[q] = run[q]
      /\ UNCHANGED <<current, told, minimum, untold>>
  BY DEF IInv, Typed, Cycles, LoadCurrent
<1>2. FileAccounted /\ BaseAccounted
  BY DEF IInv
<1>3. \A x : ~Owes(run[p], x)
  BY <1>1 DEF Owes
<1>4. CASE p # Live
  BY <1>1, <1>2, <1>3, <1>4, AccountsKept
<1>5. CASE p = Live
  <2>1. ASSUME NEW x \in Subjects
        PROVE  \/ told'[x] = None \/ x \in untold'
               \/ Fits(told'[x], minimum', current, x)
               \/ \E q \in Procs \ {Live} : Owes(run'[q], x)
    <3>1. Accounted(current, x, Procs)
      BY <1>2 DEF FileAccounted
    <3> QED
      BY <1>1, <1>3, <1>5, <3>1 DEF Accounted
  <2> QED
    BY <1>1, <1>5, <2>1 DEF FileAccounted, BaseAccounted, Accounted
<1> QED
  BY <1>4, <1>5

LEMMA AccountsOfSaving ==
  ASSUME IInv, NEW p \in Procs, SaveCurrent(p)
  PROVE  FileAccounted' /\ BaseAccounted'
<1>1. /\ run \in [Procs -> Cycles] /\ run[p].pc = "kept" /\ run'[p].pc = "saved"
      /\ run'[p].base = run[p].base /\ run'[p].report = run[p].report
      /\ \A q \in Procs \ {p} : run'[q] = run[q]
      /\ UNCHANGED <<told, minimum>>
      /\ current' = Built(p)
      /\ untold' = untold \cup (IF current = run[p].base THEN {}
                                ELSE Altered(current, Built(p)))
  BY DEF IInv, Typed, Cycles, SaveCurrent
<1>2. FileAccounted /\ BaseAccounted /\ Typed
  BY DEF IInv
<1>3. /\ Built(p) \in MarketStateSnapshot /\ run[p].base \in Snapshots
      /\ Built(p) = Build(run[p].base, run[p].report) /\ current \in Snapshots
  BY <1>2, BuiltType DEF Typed
<1>4. \A x : ~Owes(run[p], x)
  BY <1>1 DEF Owes
<1>5. \A x : \A q \in Procs : Owes(run[q], x) => Owes(run'[q], x)
  BY <1>1, <1>4
<1>6. \A x : Owes(run'[p], x) <=> x \in Altered(run[p].base, Built(p))
  BY <1>1, <1>3 DEF Owes
<1>7. ASSUME NEW x \in Subjects PROVE Accounted(current, x, Procs)'
  <2>1. Accounted(current, x, Procs)
    BY <1>2 DEF FileAccounted
  <2>2. CASE Fits(told[x], minimum, current, x)
    <3>1. current # None
      BY <2>2 DEF Fits
    <3>2. CASE x \in Altered(current, Built(p))
      BY <1>1, <1>6, <3>2 DEF Accounted
    <3>3. CASE x \notin Altered(current, Built(p))
      <4>1. View(current, x) = View(Built(p), x)
        BY <3>1, <3>3 DEF Altered, Differs
      <4>2. Fits(told[x], minimum, Built(p), x)
        BY <1>3, <2>2, <3>1, <4>1, FitsAlike DEF Snapshots
      <4> QED
        BY <1>1, <4>2 DEF Accounted
    <3> QED
      BY <3>2, <3>3
  <2>3. CASE ~Fits(told[x], minimum, current, x)
    BY <1>1, <1>5, <2>1, <2>3 DEF Accounted
  <2> QED
    BY <2>2, <2>3
<1>8. ASSUME run'[Live].pc \notin {"idle", "reported"}, NEW x \in Subjects
      PROVE  Accounted(run[Live].base, x, Procs \ {Live})'
  <2>1. run[Live].pc \notin {"idle", "reported"} /\ run'[Live].base = run[Live].base
    BY <1>1, <1>8, LiveAssumption
  <2>2. Accounted(run[Live].base, x, Procs \ {Live})
    BY <1>2, <2>1 DEF BaseAccounted
  <2> QED
    BY <1>1, <1>5, <2>1, <2>2 DEF Accounted
<1> QED
  BY <1>7, <1>8 DEF FileAccounted, BaseAccounted

LEMMA AccountsOfTelling ==
  ASSUME IInv, NEW p \in Procs, Tell(p)
  PROVE  FileAccounted' /\ BaseAccounted'
<1> DEFINE after == Built(p)
           before == run[p].base
           routed == {t \in Changes(p) : PassesRoute(minimum, t)}
           subjects == {t.subject : t \in routed}
<1>1. /\ run \in [Procs -> Cycles] /\ run[p].pc = "written"
      /\ run' = [run EXCEPT ![p] = Idle]
      /\ UNCHANGED <<current, minimum>>
      /\ told' = Hear(after, routed)
      /\ untold' = (untold \ (subjects \cup {x \in Subjects : told'[x] = None}))
                     \cup (IF current = None THEN Subjects ELSE Altered(after, current))
  BY DEF IInv, Typed, Tell
<1>2. p = Live
  BY <1>1 DEF IInv, OnlyLiveTells
<1>3. /\ Typed /\ FileAccounted /\ BaseAccounted
      /\ current \in Snapshots /\ minimum \in {"info", "warning"}
      /\ \A x \in Subjects : told[x] \in ValuesOf(x)
  BY DEF IInv, Typed
<1>4. after \in MarketStateSnapshot /\ before \in Snapshots /\ after # None
  BY <1>3, BuiltType
<1>5. routed = {t \in Diff(before, after) : PassesRoute(minimum, t)}
  BY DEF Changes
<1> HIDE DEF after, before, routed
<1>6. run'[p].pc = "idle" /\ \A q \in Procs \ {p} : run'[q] = run[q]
  BY <1>1 DEF Idle
<1>7. ASSUME NEW x \in Subjects PROVE Accounted(current, x, Procs)'
  <2> SUFFICES ASSUME told'[x] # None, x \notin untold',
                      ~ \E q \in Procs \ {p} : Owes(run[q], x)
               PROVE  Fits(told'[x], minimum, current, x)
    BY <1>1, <1>6 DEF Accounted
  <2>1. current # None /\ x \notin Altered(after, current)
    BY <1>1
  <2>2. View(after, x) = View(current, x) /\ current \in MarketStateSnapshot
    BY <1>3, <1>4, <2>1 DEF Altered, Differs, Snapshots
  <2> DEFINE about == {t \in routed : t.subject = x}
  <2>3. told'[x] = IF View(after, x) = None /\ x[1] = "action" THEN None
                   ELSE IF about # {} THEN (CHOOSE t \in about : TRUE).to
                   ELSE told[x]
    BY <1>1 DEF Hear
  <2>4. x[1] = "action" => View(after, x) # None
    BY <2>3
  <2> SUFFICES Fits(told'[x], minimum, after, x)
    BY <1>4, <2>2, FitsAlike
  <2>5. CASE about # {}
    <3>1. PICK t \in about : told'[x] = t.to
      BY <2>3, <2>4, <2>5
    <3>2. t.to = View(after, x)
      BY <1>4, <1>5, <3>1, DiffSound
    <3> QED
      BY <1>4, <2>4, <3>1, <3>2, RoutedFits
  <2>6. CASE about = {}
    <3>1. told'[x] = told[x]
      BY <2>3, <2>4, <2>6
    <3>2. x \notin subjects
      BY <2>6
    <3>3. x \notin untold
      BY <1>1, <3>2
    <3>4. Accounted(before, x, Procs \ {Live})
      BY <1>1, <1>2, <1>3 DEF BaseAccounted, before
    <3>5. Fits(told[x], minimum, before, x)
      BY <1>2, <3>1, <3>3, <3>4 DEF Accounted
    <3>6. before \in MarketStateSnapshot
      BY <1>4, <3>5 DEF Fits, Snapshots
    <3>7. \A t \in Diff(before, after) : t.subject = x => ~PassesRoute(minimum, t)
      BY <1>5, <2>6
    <3> QED
      BY <1>3, <1>4, <2>4, <3>1, <3>5, <3>6, <3>7, UnroutedFits
  <2> QED
    BY <2>5, <2>6
<1> QED
  BY <1>2, <1>6, <1>7 DEF FileAccounted, BaseAccounted

LEMMA AccountsPreserved ==
  ASSUME IInv, [Next]_vars
  PROVE  FileAccounted' /\ BaseAccounted'
<1>1. run \in [Procs -> Cycles] /\ FileAccounted /\ BaseAccounted
  BY DEF IInv, Typed
<1>2. ASSUME NEW p \in Procs, RunStages(p) PROVE FileAccounted' /\ BaseAccounted'
  <2>1. /\ run[p].pc = "idle" /\ run'[p].pc = "reported"
        /\ \A q \in Procs \ {p} : run'[q] = run[q]
        /\ UNCHANGED <<current, told, minimum, untold>>
    BY <1>1, <1>2 DEF RunStages
  <2>2. \A x : ~Owes(run[p], x)
    BY <2>1 DEF Owes
  <2> QED
    BY <1>1, <2>1, <2>2, AccountsKept
<1>3. ASSUME NEW p \in Procs, KeepPrevious(p) PROVE FileAccounted' /\ BaseAccounted'
  <2>1. /\ run[p].pc = "loaded" /\ run'[p].base = run[p].base
        /\ \A q \in Procs \ {p} : run'[q] = run[q]
        /\ UNCHANGED <<current, told, minimum, untold>>
    BY <1>1, <1>3 DEF KeepPrevious, Cycles
  <2>2. \A x : ~Owes(run[p], x)
    BY <2>1 DEF Owes
  <2> QED
    BY <1>1, <2>1, <2>2, AccountsKept
<1>4. ASSUME NEW p \in Procs, WriteOutputs(p) PROVE FileAccounted' /\ BaseAccounted'
  <2>1. /\ run[p].pc = "saved" /\ run'[p].pc = "written"
        /\ run'[p].base = run[p].base /\ run'[p].report = run[p].report
        /\ \A q \in Procs \ {p} : run'[q] = run[q]
        /\ UNCHANGED <<current, told, minimum, untold>>
    BY <1>1, <1>4 DEF WriteOutputs, Cycles
  <2>2. \A x : Owes(run[p], x) => Owes(run'[p], x)
    BY <2>1, OwesAlike
  <2> QED
    BY <1>1, <2>1, <2>2, AccountsKept
<1>5. ASSUME NEW p \in Procs, CommandWrites(p) \/ OutputsFail(p) \/ TellFails(p)
      PROVE  FileAccounted' /\ BaseAccounted'
  BY <1>5, AccountsOfEnding DEF CommandWrites, OutputsFail, TellFails
<1>6. ASSUME NEW p \in Procs, Crash(p) PROVE FileAccounted' /\ BaseAccounted'
  BY <1>6, AccountsOfEnding DEF Crash
<1>7. ASSUME Damage PROVE FileAccounted' /\ BaseAccounted'
  BY <1>7 DEF Damage, FileAccounted, BaseAccounted, Accounted
<1>8. CASE UNCHANGED vars
  BY <1>1, <1>8 DEF vars, FileAccounted, BaseAccounted, Accounted
<1> QED
  BY <1>2, <1>3, <1>4, <1>5, <1>6, <1>7, <1>8,
     AccountsOfLoading, AccountsOfSaving, AccountsOfTelling DEF Next

LEMMA OnlyLiveTellsPreserved ==
  ASSUME IInv, [Next]_vars
  PROVE  OnlyLiveTells'
<1>1. run \in [Procs -> Cycles] /\ OnlyLiveTells
  BY DEF IInv, Typed
<1>2. ASSUME NEW p \in Procs, WriteOutputs(p) PROVE OnlyLiveTells'
  BY <1>1, <1>2 DEF WriteOutputs, Cycles, OnlyLiveTells
<1>3. ASSUME NEW p \in Procs, run'[p].pc # "written",
             \A q \in Procs \ {p} : run'[q] = run[q]
      PROVE  OnlyLiveTells'
  BY <1>1, <1>3 DEF OnlyLiveTells
<1>4. ASSUME NEW p \in Procs,
             RunStages(p) \/ LoadCurrent(p) \/ KeepPrevious(p) \/ SaveCurrent(p)
      PROVE  run'[p].pc # "written" /\ \A q \in Procs \ {p} : run'[q] = run[q]
  <2>1. CASE RunStages(p)
    BY <1>1, <2>1 DEF RunStages
  <2>2. CASE LoadCurrent(p)
    BY <1>1, <2>2 DEF LoadCurrent, Cycles
  <2>3. CASE KeepPrevious(p)
    BY <1>1, <2>3 DEF KeepPrevious, Cycles
  <2>4. CASE SaveCurrent(p)
    BY <1>1, <2>4 DEF SaveCurrent, Cycles
  <2> QED
    BY <1>4, <2>1, <2>2, <2>3, <2>4
<1>5. ASSUME NEW p \in Procs,
             CommandWrites(p) \/ OutputsFail(p) \/ Tell(p) \/ TellFails(p) \/ Crash(p)
      PROVE  run'[p].pc # "written" /\ \A q \in Procs \ {p} : run'[q] = run[q]
  <2>1. run' = [run EXCEPT ![p] = Idle]
    BY <1>5 DEF CommandWrites, OutputsFail, Tell, TellFails, Crash
  <2> QED
    BY <1>1, <2>1 DEF Idle
<1>6. CASE UNCHANGED run
  BY <1>1, <1>6 DEF OnlyLiveTells
<1> QED
  BY <1>2, <1>3, <1>4, <1>5, <1>6 DEF Next, Damage, vars

\* The two files and the announced transitions.
FilesInv == OverlapsCrossed /\ KeptIsPrevious /\ FilesExplain

\* A cycle that leaves the update, or never was in it, disturbs no other.
LEMMA FilesKept ==
  ASSUME Typed, FilesInv, NEW p \in Procs,
         \A q \in Procs \ {p} : run'[q] = run[q],
         run'[p].pc \notin {"loaded", "kept"},
         UNCHANGED <<current, previous, crossed, announced>>,
         disturbed \/ run[p].pc = "kept" => disturbed'
  PROVE  FilesInv'
<1>1. OverlapsCrossed'
  BY DEF FilesInv, OverlapsCrossed, Updating
<1>2. KeptIsPrevious'
  BY DEF FilesInv, KeptIsPrevious
<1>3. FilesExplain'
  <2> SUFFICES ASSUME \A q \in Procs : run'[q].pc # "kept", ~disturbed', current # None
               PROVE  announced = Diff(previous, current)
    BY DEF FilesExplain
  <2>1. ~disturbed /\ \A q \in Procs : run[q].pc # "kept"
    OBVIOUS
  <2> QED
    BY <2>1 DEF FilesInv, FilesExplain
<1> QED
  BY <1>1, <1>2, <1>3 DEF FilesInv

LEMMA FilesPreserved ==
  ASSUME Typed, FilesInv, [Next]_vars
  PROVE  FilesInv'
<1>1. run \in [Procs -> Cycles] /\ disturbed \in BOOLEAN /\ crossed \subseteq Procs
  BY DEF Typed
<1>2. ASSUME NEW p \in Procs, RunStages(p) PROVE FilesInv'
  BY <1>1, <1>2, FilesKept DEF RunStages
<1>3. ASSUME NEW p \in Procs, LoadCurrent(p) PROVE FilesInv'
  <2>1. /\ run[p].pc = "reported" /\ run'[p].pc = "loaded"
        /\ \A q \in Procs \ {p} : run'[q] = run[q]
        /\ UNCHANGED <<current, previous, disturbed, announced>>
        /\ crossed' = IF Updating = {} THEN crossed \ {p}
                      ELSE crossed \cup Updating \cup {p}
    BY <1>1, <1>3 DEF LoadCurrent, Cycles
  <2>2. Updating' = Updating \cup {p} /\ p \notin Updating
    BY <2>1 DEF Updating
  <2>3. OverlapsCrossed'
    BY <2>1, <2>2 DEF OverlapsCrossed
  <2>4. KeptIsPrevious'
    BY <2>1 DEF FilesInv, KeptIsPrevious, Updating
  <2>5. FilesExplain'
    BY <2>1 DEF FilesInv, FilesExplain
  <2> QED
    BY <2>3, <2>4, <2>5 DEF FilesInv
<1>4. ASSUME NEW p \in Procs, KeepPrevious(p) PROVE FilesInv'
  <2>1. /\ run[p].pc = "loaded" /\ run'[p].pc = "kept" /\ run'[p].base = run[p].base
        /\ \A q \in Procs \ {p} : run'[q] = run[q]
        /\ UNCHANGED <<current, crossed, disturbed, announced>>
        /\ previous' = IF run[p].base = None THEN previous ELSE run[p].base
    BY <1>1, <1>4 DEF KeepPrevious, Cycles
  <2>2. Updating' = Updating /\ p \in Updating
    BY <2>1 DEF Updating
  <2>3. OverlapsCrossed'
    BY <2>1, <2>2 DEF FilesInv, OverlapsCrossed
  <2>4. ASSUME NEW q \in Procs \ {p}, run[q].pc = "kept" PROVE q \in crossed
    BY <2>2, <2>4 DEF FilesInv, OverlapsCrossed, Updating
  <2>5. KeptIsPrevious'
    BY <2>1, <2>4 DEF KeptIsPrevious
  <2>6. FilesExplain'
    BY <2>1 DEF FilesExplain
  <2> QED
    BY <2>3, <2>5, <2>6 DEF FilesInv
<1>5. ASSUME NEW p \in Procs, SaveCurrent(p) PROVE FilesInv'
  <2>1. /\ run[p].pc = "kept" /\ run'[p].pc = "saved"
        /\ \A q \in Procs \ {p} : run'[q] = run[q]
        /\ UNCHANGED <<previous, crossed>>
        /\ current' = Built(p) /\ announced' = Changes(p)
        /\ disturbed' = (\/ current # run[p].base
                         \/ p \in crossed
                         \/ (run[p].base = None /\ previous # None))
    BY <1>1, <1>5 DEF SaveCurrent, Cycles
  <2>2. OverlapsCrossed'
    BY <2>1 DEF FilesInv, OverlapsCrossed, Updating
  <2>3. KeptIsPrevious'
    BY <2>1 DEF FilesInv, KeptIsPrevious
  <2>4. ASSUME ~disturbed' PROVE announced' = Diff(previous', current')
    <3>1. run[p].base # None => previous = run[p].base
      BY <2>1, <2>4 DEF FilesInv, KeptIsPrevious
    <3>2. run[p].base = None => previous = None
      BY <2>1, <2>4
    <3> QED
      BY <2>1, <3>1, <3>2 DEF Changes
  <2> QED
    BY <2>2, <2>3, <2>4 DEF FilesInv, FilesExplain
<1>6. ASSUME NEW p \in Procs, WriteOutputs(p) PROVE FilesInv'
  BY <1>1, <1>6, FilesKept DEF WriteOutputs, Cycles
<1>7. ASSUME NEW p \in Procs,
             CommandWrites(p) \/ OutputsFail(p) \/ TellFails(p) \/ Tell(p) \/ Crash(p)
      PROVE  FilesInv'
  <2>1. run' = [run EXCEPT ![p] = Idle]
    BY <1>7 DEF CommandWrites, OutputsFail, TellFails, Tell, Crash
  <2>2. run'[p].pc = "idle" /\ \A q \in Procs \ {p} : run'[q] = run[q]
    BY <1>1, <2>1 DEF Idle
  <2>3. /\ UNCHANGED <<current, previous, crossed, announced>>
        /\ disturbed' = (disturbed \/ run[p].pc = "kept")
    BY <1>1, <1>7 DEF CommandWrites, OutputsFail, TellFails, Tell, Crash
  <2> QED
    BY <2>2, <2>3, FilesKept
<1>8. ASSUME Damage PROVE FilesInv'
  BY <1>8 DEF Damage, FilesInv, OverlapsCrossed, Updating, KeptIsPrevious, FilesExplain
<1>9. CASE UNCHANGED vars
  BY <1>9 DEF vars, FilesInv, OverlapsCrossed, Updating, KeptIsPrevious, FilesExplain
<1> QED
  BY <1>2, <1>3, <1>4, <1>5, <1>6, <1>7, <1>8, <1>9 DEF Next

LEMMA Invariance == Spec => []IInv
<1>1. IInv /\ [Next]_vars => IInv'
  BY TypedPreserved, OnlyLiveTellsPreserved, AccountsPreserved, FilesPreserved
     DEF IInv, FilesInv
<1> QED
  BY InitInvariant, <1>1, PTL DEF Spec

-----------------------------------------------------------------------------
(* The properties                                                          *)

\* Files, cycles, notices and history always hold what they are declared to hold.
THEOREM TypeCorrect == Spec => []TypeOK
<1>1. ASSUME IInv PROVE TypeOK
  <2>1. Typed
    BY <1>1 DEF IInv
  <2>2. ASSUME NEW s \in Snapshots, Counted(s) PROVE s = None \/ IsSnapshot(s)
    BY <2>2, SnapshotIsSnapshot DEF Snapshots
  <2>3. /\ current = None \/ IsSnapshot(current)
        /\ previous = None \/ IsSnapshot(previous)
    BY <2>1, <2>2 DEF Typed
  <2>4. ASSUME NEW p \in Procs
        PROVE  /\ run[p].pc \in {"idle", "reported", "loaded", "kept", "saved", "written"}
               /\ run[p].report \in ReportType
               /\ run[p].base = None \/ IsSnapshot(run[p].base)
    <3>1. run[p] \in Cycles /\ Counted(run[p].base)
      BY <2>1 DEF Typed
    <3> QED
      BY <2>2, <3>1 DEF Cycles
  <2> QED
    BY <2>1, <2>3, <2>4 DEF Typed, TypeOK, ReportType
<1> QED
  BY Invariance, <1>1, PTL

\* Between updates, what the notices have told the operator of a subject is what
\* the snapshot says of it, unless the change was consumed by a command, a crash, a
\* failed delivery or a competing update (diff_market_state_snapshots,
\* handle_cycle_result).
THEOREM PictureIsTrue == Spec => []PictureTrue
<1>1. ASSUME IInv PROVE PictureTrue
  <2> SUFFICES ASSUME Settled, minimum = "info", NEW x \in Subjects \ untold,
                      told[x] # None
               PROVE  current # None /\ (Silent(current, x) \/ View(current, x) = told[x])
    BY DEF PictureTrue
  <2>1. Accounted(current, x, Procs)
    BY <1>1 DEF IInv, FileAccounted
  <2>2. Fits(told[x], minimum, current, x)
    BY <2>1 DEF Accounted, Owes, Settled
  <2> QED
    BY <2>2 DEF Fits, Agrees
<1> QED
  BY Invariance, <1>1, PTL

\* Whatever the route lets pass, the operator is never left with a view that is
\* better than the snapshot's (_market_state_transition_severity,
\* NotificationRoute.matches).
THEOREM ErrorsAreCautious == Spec => []ErrsOnCaution
<1>1. ASSUME IInv PROVE ErrsOnCaution
  <2> SUFFICES ASSUME Settled PROVE ErrsOnCaution
    BY DEF ErrsOnCaution
  <2>1. ASSUME NEW x \in Subjects, x \notin untold, told[x] # None
        PROVE  Fits(told[x], minimum, current, x)
    <3>1. Accounted(current, x, Procs)
      BY <1>1 DEF IInv, FileAccounted
    <3> QED
      BY <2>1, <3>1 DEF Accounted, Owes, Settled
  <2>2. ASSUME NEW s \in Symbols, <<"action", s>> \notin untold, told[<<"action", s>>] # None
        PROVE  /\ current # None
               /\ Severity(told[<<"action", s>>]) >= Severity(current.actions[s])
    <3>1. Fits(told[<<"action", s>>], minimum, current, <<"action", s>>)
      BY <2>1, <2>2, SubjectsOf
    <3> QED
      BY <3>1, ViewOf DEF Fits, Cautious
  <2>3. ASSUME NEW s \in Sectors, <<"block", s>> \notin untold,
               told[<<"block", s>>] = "clear"
        PROVE  s \notin BlockedSectors(current)
    <3>1. told[<<"block", s>>] # None
      BY <2>3, NoSnapshotAssumption
    <3>2. Fits(told[<<"block", s>>], minimum, current, <<"block", s>>)
      BY <2>1, <2>3, <3>1, SubjectsOf
    <3> QED
      BY <2>3, <3>2, ViewOf DEF Fits, Cautious
  <2> QED
    BY <2>2, <2>3 DEF ErrsOnCaution
<1> QED
  BY Invariance, <1>1, PTL

\* Every alert that starts or ends between the two snapshots of an update has its
\* transition, unless the position itself came or went (_alertable_states,
\* diff_market_state_snapshots).
THEOREM AlertsAreAnnounced == Spec => []AlertsHaveTransitions
<1>1. ASSUME IInv PROVE AlertsHaveTransitions
  <2> SUFFICES ASSUME NEW p \in Procs, run[p].base # None,
                      NEW alert \in (AlertableStates(run[p].base)
                                       \ AlertableStates(Built(p)))
                                    \cup (AlertableStates(Built(p))
                                            \ AlertableStates(run[p].base))
               PROVE  \/ {t \in Changes(p) :
                            t.subject[2] = alert[2] /\ t.subject[1] \in
                              (CASE alert[1] = "BUY CANDIDATE" -> {"top"}
                                 [] alert[1] = "SECTOR BLOCK" -> {"block"}
                                 [] OTHER -> {"action"})} # {}
                      \/ /\ alert[1] \in Actions
                         /\ None \in {run[p].base.actions[alert[2]],
                                      Built(p).actions[alert[2]]}
    BY DEF AlertsHaveTransitions
  <2>1. run[p].base \in MarketStateSnapshot /\ Built(p) \in MarketStateSnapshot
    BY <1>1, BuiltType DEF IInv, Snapshots
  <2>2. Changes(p) = Diff(run[p].base, Built(p))
    BY DEF Changes
  <2>3. CASE alert \in AlertableStates(run[p].base) \ AlertableStates(Built(p))
    BY <2>1, <2>2, <2>3, AlertsCovered
  <2>4. CASE alert \in AlertableStates(Built(p)) \ AlertableStates(run[p].base)
    BY <2>1, <2>2, <2>4, AlertsCovered
  <2> QED
    BY <2>3, <2>4
<1> QED
  BY Invariance, <1>1, PTL

\* The symbols the latest review of an update calls urgent are the ones its snapshot
\* has alerts for (_portfolio_review_summary, _action_states_from_rows).
THEOREM UrgencyIsAlerted == Spec => []UrgentIsAlerted
<1>1. ASSUME IInv PROVE UrgentIsAlerted
  <2> SUFFICES ASSUME NEW p \in Procs,
                      run[p].report.intraday # None \/ run[p].report.portfolio # None
               PROVE  (IF run[p].report.intraday # None THEN Built(p).intraday
                       ELSE Built(p).portfolio).urgent
                         = {a[2] : a \in {b \in AlertableStates(Built(p)) : b[1] \in Actions}}
    BY DEF UrgentIsAlerted
  <2> DEFINE report == run[p].report
  <2>1. /\ Built(p) \in MarketStateSnapshot /\ Built(p) = Build(run[p].base, report)
        /\ report \in ReportType
    BY <1>1, BuiltType DEF IInv, Cycles
  <2>2. /\ report.portfolio = None \/ report.portfolio \in Review
        /\ report.intraday = None \/ report.intraday \in Review
    BY <2>1, ReportsAssumption DEF ReportType
  <2>3. CASE report.intraday # None
    <3>1. /\ Built(p).intraday = SummaryOfReview(report.intraday)
          /\ Built(p).actions = ActionStates(report.intraday)
      BY <2>1, <2>3 DEF Build
    <3> QED
      BY <2>1, <2>2, <2>3, <3>1, UrgentOf
  <2>4. CASE report.intraday = None
    <3>1. /\ Built(p).portfolio = SummaryOfReview(report.portfolio)
          /\ Built(p).actions = ActionStates(report.portfolio)
      BY <2>1, <2>4 DEF Build
    <3> QED
      BY <2>1, <2>2, <2>4, <3>1, UrgentOf
  <2> QED
    BY <2>3, <2>4
<1> QED
  BY Invariance, <1>1, PTL

\* After an update no other has disturbed, the two files differ by exactly the
\* transitions that were announced (MarketStateStore.update).
THEOREM FilesAreExplained == Spec => []FilesExplainChanges
<1>1. ASSUME IInv PROVE FilesExplainChanges
  BY <1>1 DEF IInv, FilesExplain, FilesExplainChanges, Updating
<1> QED
  BY Invariance, <1>1, PTL
=============================================================================
