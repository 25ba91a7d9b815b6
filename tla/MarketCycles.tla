---------------------------- MODULE MarketCycles ----------------------------
(***************************************************************************)
(* The cycles that update the market state (LiveMarketRunner.run_cycle of  *)
(* src/src/bot/orchestration/live_runner.py, _persist_market_state of      *)
(* main.py, MarketStateStore.update of state/market_state.py): run the     *)
(* requested reviews, load the current snapshot, build the next, keep the  *)
(* old one as the previous, save, write the outputs.  The live service     *)
(* then tells the operator of the transitions; the commands                *)
(* (monitor-market, review-portfolio, review-portfolio-intraday) write the *)
(* same files and tell nobody.                                             *)
(***************************************************************************)
EXTENDS MarketState

CONSTANTS
  Procs,       \* processes that run cycles
  Live,        \* the one that is the live service
  Summaries,   \* what the daily stage may find
  Reviews,     \* what a review may find
  Requests,    \* process -> the cycle it runs: stages included, and required
  MaxCycles    \* bound on the cycles begun

ASSUME LiveAssumption == Live \in Procs
ASSUME ReportsAssumption ==
  Summaries \subseteq DailySummary /\ Reviews \subseteq Review
ASSUME RowsAssumption == \A daily \in Summaries : IsFiniteSet(daily.rows)
ASSUME MaxCyclesAssumption == MaxCycles \in Nat

Stages == {"daily", "portfolio", "intraday"}
Request == [include : SUBSET Stages, required : SUBSET Stages]

\* _validate_request
ASSUME RequestsAssumption ==
  /\ Requests \in [Procs -> Request]
  /\ \A p \in Procs : Requests[p].required \subseteq Requests[p].include

VARIABLES
  current,      \* current_market_state.json
  previous,     \* previous_market_state.json
  run,          \* process -> the cycle it is in
  told,         \* what the operator knows of each subject, from the notices
  minimum,      \* the notification route's minimum severity
  untold,       \* history: subjects that changed and the operator was not told
  crossed,      \* history: processes whose update, the one going on or the
                \* last, overlapped with an update of another process
  disturbed,    \* history: the last update was crossed, or one has died since,
                \* or the file was damaged; a baseline established anew leaves
                \* an older previous file behind
  announced,    \* history: the transitions of the last finished update
  begun         \* history: cycles begun

vars == <<current, previous, run, told, minimum, untold, crossed, disturbed,
          announced, begun>>

NoReport == [daily |-> None, portfolio |-> None, intraday |-> None]

Idle == [pc |-> "idle", report |-> NoReport, base |-> None]

\* What a snapshot, or the operator's picture, may say of a subject.
ValuesOf(x) ==
  CASE x[1] = "action"  -> Actions \cup {None}
    [] x[1] = "top"     -> {"in", "out", None}
    [] x[1] = "block"   -> {"blocked", "clear", None}
    [] x[1] = "breadth" -> BreadthContext
    [] OTHER            -> VolatilityContext \cup {None}

\* A snapshot's sets of functions and records are too many to enumerate; each
\* part is tested on its own.
IsSnapshot(s) ==
  /\ s.context \in MarketContext /\ s.queue \subseteq CandidateState
  /\ DOMAIN s.sectors \subseteq Sectors
  /\ \A x \in DOMAIN s.sectors : /\ s.sectors[x] \in SectorSummary
                                 /\ s.sectors[x].actionable <= s.sectors[x].approved
  /\ s.portfolio \in ReviewSummary \cup {None}
  /\ s.intraday \in ReviewSummary \cup {None}
  /\ s.actions \in [Symbols -> Actions \cup {None}]

\* Files, cycles, notices and history hold what they are declared to hold.
TypeOK ==
  /\ current = None \/ IsSnapshot(current)
  /\ previous = None \/ IsSnapshot(previous)
  /\ \A p \in Procs :
       /\ run[p].pc \in {"idle", "reported", "loaded", "kept", "saved", "written"}
       /\ run[p].report \in [daily : Summaries \cup {None},
                             portfolio : Reviews \cup {None},
                             intraday : Reviews \cup {None}]
       /\ run[p].base = None \/ IsSnapshot(run[p].base)
  /\ \A x \in Subjects : told[x] \in ValuesOf(x)
  /\ \A t \in announced : t.subject \in Subjects /\ t.from # t.to
  /\ minimum \in {"info", "warning"}
  /\ untold \subseteq Subjects
  /\ crossed \subseteq Procs
  /\ disturbed \in BOOLEAN
  /\ begun \in 0..MaxCycles

Init ==
  /\ current = None
  /\ previous = None
  /\ run = [p \in Procs |-> Idle]
  /\ told = [x \in Subjects |-> None]
  /\ minimum \in {"info", "warning"}
  /\ untold = {}
  /\ crossed = {}
  /\ disturbed = FALSE
  /\ announced = {}
  /\ begun = 0

-----------------------------------------------------------------------------
(* One cycle                                                               *)

Built(p) == Build(run[p].base, run[p].report)
Changes(p) == Diff(run[p].base, Built(p))

Updating == {p \in Procs : run[p].pc \in {"loaded", "kept"}}

\* Subjects of which two snapshots say different things.
Altered(before, after) ==
  IF before = None THEN Subjects ELSE {x \in Subjects : Differs(before, after, x)}

\* _run_stage: what a stage leaves; None when it is not asked for, or when it
\* fails and is not required.
Outcome(request, stage, findings) ==
  (IF stage \in request.include THEN findings ELSE {})
  \cup (IF stage \in request.required THEN {} ELSE {None})

\* run_cycle up to the update.  A required stage that fails ends the cycle
\* before anything is written: such a cycle is none.
RunStages(p) ==
  /\ run[p].pc = "idle" /\ begun < MaxCycles
  /\ \E daily \in Outcome(Requests[p], "daily", Summaries),
        portfolio \in Outcome(Requests[p], "portfolio", Reviews),
        intraday \in Outcome(Requests[p], "intraday", Reviews) :
       /\ daily # None \/ portfolio # None \/ intraday # None
       /\ run' = [run EXCEPT ![p] =
                    [pc |-> "reported", base |-> None,
                     report |-> [daily |-> daily, portfolio |-> portfolio,
                                 intraday |-> intraday]]]
  /\ begun' = begun + 1
  /\ UNCHANGED <<current, previous, told, minimum, untold, crossed, disturbed, announced>>

\* MarketStateStore.update: load_current
LoadCurrent(p) ==
  /\ run[p].pc = "reported"
  /\ run' = [run EXCEPT ![p].pc = "loaded", ![p].base = current]
  /\ crossed' = IF Updating = {} THEN crossed \ {p} ELSE crossed \cup Updating \cup {p}
  /\ UNCHANGED <<current, previous, told, minimum, untold, disturbed, announced, begun>>

\* The new snapshot is kept as the previous one.
KeepBuilt(p) ==
  /\ run[p].pc = "loaded"
  /\ previous' = IF run[p].base = None THEN previous ELSE Built(p)
  /\ run' = [run EXCEPT ![p].pc = "kept"]
  /\ UNCHANGED <<current, told, minimum, untold, crossed, disturbed, announced, begun>>

\* update: the snapshot it started from becomes the previous one.
KeepPrevious(p) ==
  /\ run[p].pc = "loaded"
  /\ previous' = IF run[p].base = None THEN previous ELSE run[p].base
  /\ run' = [run EXCEPT ![p].pc = "kept"]
  /\ UNCHANGED <<current, told, minimum, untold, crossed, disturbed, announced, begun>>

\* update: save the new snapshot, over whatever is there.
SaveCurrent(p) ==
  /\ run[p].pc = "kept"
  /\ current' = Built(p)
  /\ run' = [run EXCEPT ![p].pc = "saved"]
  /\ announced' = Changes(p)
  /\ untold' = untold \cup (IF current = run[p].base THEN {} ELSE Altered(current, Built(p)))
  /\ disturbed' = (\/ current # run[p].base
                   \/ p \in crossed
                   \/ (run[p].base = None /\ previous # None))
  /\ UNCHANGED <<previous, told, minimum, crossed, begun>>

\* What the cycle has found will not be told.
Untold(p) ==
  untold' = untold \cup Altered(run[p].base, Built(p))

\* The live service writes the change set and the reports and goes on to tell.
WriteOutputs(p) ==
  /\ run[p].pc = "saved" /\ p = Live
  /\ run' = [run EXCEPT ![p].pc = "written"]
  /\ UNCHANGED <<current, previous, told, minimum, untold, crossed, disturbed, announced, begun>>

\* A command writes them and is done: it tells nobody.
CommandWrites(p) ==
  /\ run[p].pc = "saved" /\ p # Live
  /\ run' = [run EXCEPT ![p] = Idle]
  /\ Untold(p)
  /\ UNCHANGED <<current, previous, told, minimum, crossed, disturbed, announced, begun>>

\* write_market_state_change_set or _write_live_market_cycle_outputs raises: the
\* snapshot is saved, the transitions are not routed.
OutputsFail(p) ==
  /\ run[p].pc = "saved"
  /\ run' = [run EXCEPT ![p] = Idle]
  /\ Untold(p)
  /\ UNCHANGED <<current, previous, told, minimum, crossed, disturbed, announced, begun>>

\* The notice a transition makes is about its subject; of a position that is gone
\* the operator hears from the trade log.
Hear(snapshot, transitions) ==
  [x \in Subjects |->
    LET about == {t \in transitions : t.subject = x}
    IN IF View(snapshot, x) = None /\ x[1] = "action" THEN None
       ELSE IF about # {} THEN (CHOOSE t \in about : TRUE).to
       ELSE told[x]]

\* handle_cycle_result, _notification_events_from_cycle_result: route the
\* notices.  What was saved meanwhile by another cycle is not in them.
Tell(p) ==
  /\ run[p].pc = "written"
  /\ LET routed == {t \in Changes(p) : PassesRoute(minimum, t)}
         subjects == {t.subject : t \in routed}
         overtaken == IF current = None THEN Subjects ELSE Altered(Built(p), current)
     IN /\ told' = Hear(Built(p), routed)
        /\ untold' = (untold \ (subjects \cup {x \in Subjects : told'[x] = None}))
                      \cup overtaken
  /\ run' = [run EXCEPT ![p] = Idle]
  /\ UNCHANGED <<current, previous, minimum, crossed, disturbed, announced, begun>>

\* No channel takes the notices; they are not sent again.
TellFails(p) ==
  /\ run[p].pc = "written" /\ Changes(p) # {}
  /\ run' = [run EXCEPT ![p] = Idle]
  /\ Untold(p)
  /\ UNCHANGED <<current, previous, told, minimum, crossed, disturbed, announced, begun>>

\* The process is killed; before the update it has done nothing.
Crash(p) ==
  /\ run[p].pc \notin {"idle", "reported"}
  /\ run' = [run EXCEPT ![p] = Idle]
  /\ IF run[p].pc \in {"saved", "written"} THEN Untold(p) ELSE UNCHANGED untold
  /\ disturbed' = (disturbed \/ run[p].pc = "kept")
  /\ UNCHANGED <<current, previous, told, minimum, crossed, announced, begun>>

\* load_market_state_snapshot: a snapshot that does not parse is no snapshot, and
\* the next update establishes a baseline.
Damage ==
  /\ current # None
  /\ current' = None
  /\ untold' = Subjects
  /\ disturbed' = TRUE
  /\ UNCHANGED <<previous, run, told, minimum, crossed, announced, begun>>

Next ==
  \/ \E p \in Procs :
       \/ RunStages(p) \/ LoadCurrent(p) \/ KeepPrevious(p) \/ SaveCurrent(p)
       \/ WriteOutputs(p) \/ CommandWrites(p) \/ OutputsFail(p)
       \/ Tell(p) \/ TellFails(p) \/ Crash(p)
  \/ Damage

Spec == Init /\ [][Next]_vars

-----------------------------------------------------------------------------
(* What the operator may rely on                                           *)

\* The snapshot does not know the subject.
Silent(snapshot, x) ==
  \/ View(snapshot, x) = None
  \/ x[1] = "volatility" /\ View(snapshot, x) = NoVolatility

\* The files are between two updates.
Settled == \A p \in Procs : run[p].pc \in {"idle", "reported"}

\* What the notices have told the operator of a subject is what the snapshot says
\* of it, through carried-over sections, baselines, gaps in the context and
\* reports in any combination, unless a change was consumed by a command, a
\* crash, a failed delivery or a competing update (diff_market_state_snapshots,
\* handle_cycle_result).
PictureTrue ==
  Settled /\ minimum = "info" =>
    \A x \in Subjects \ untold :
      told[x] # None =>
        current # None /\ (Silent(current, x) \/ View(current, x) = told[x])

\* With a route that only takes warnings the operator is never left with a view
\* that is better than the snapshot's: no action is more severe than the one he
\* was told of, and no sector is blocked that he was told is clear
\* (_market_state_transition_severity, NotificationRoute.matches).
ErrsOnCaution ==
  Settled =>
    /\ \A s \in Symbols :
         LET x == <<"action", s>>
         IN x \notin untold /\ told[x] # None =>
              /\ current # None
              /\ current.actions[s] # None =>
                   Severity(told[x]) >= Severity(current.actions[s])
    /\ \A s \in Sectors :
         <<"block", s>> \notin untold /\ told[<<"block", s>>] = "clear" =>
           s \notin BlockedSectors(current)

\* Every alert that starts or ends between the two snapshots of an update has its
\* transition, unless the position itself came or went (_alertable_states and
\* diff_market_state_snapshots agree on what matters).
AlertsHaveTransitions ==
  \A p \in Procs :
    run[p].pc \in {"kept", "saved", "written"} /\ run[p].base # None =>
      LET before == AlertableStates(run[p].base)
          after == AlertableStates(Built(p))
          About(alert) ==
            {t \in Changes(p) : t.subject[2] = alert[2] /\ t.subject[1] \in
               (CASE alert[1] = "BUY CANDIDATE" -> {"top"}
                  [] alert[1] = "SECTOR BLOCK" -> {"block"}
                  [] OTHER -> {"action"})}
      IN \A alert \in (before \ after) \cup (after \ before) :
           \/ About(alert) # {}
           \/ /\ alert[1] \in Actions
              /\ None \in {run[p].base.actions[alert[2]], Built(p).actions[alert[2]]}

\* A symbol the latest review calls urgent is alerted, whatever its other lots and
\* the other review say (_portfolio_review_summary, _action_states_from_rows).
UrgentIsAlerted ==
  \A p \in Procs :
    run[p].pc \in {"saved", "written"} =>
      LET latest == IF run[p].report.intraday # None THEN Built(p).intraday
                    ELSE Built(p).portfolio
      IN run[p].report.intraday # None \/ run[p].report.portfolio # None =>
           latest.urgent = {a[2] : a \in {b \in AlertableStates(Built(p)) : b[1] \in Actions}}

\* After an update no other has disturbed, the two files differ by exactly the
\* transitions that were announced: the previous file is what the current one was
\* compared with (MarketStateStore.update).
FilesExplainChanges ==
  (Updating = {} /\ ~disturbed /\ current # None) =>
    announced = Diff(previous, current)
=============================================================================
