--------------------------- MODULE PaperValidation ---------------------------
(***************************************************************************)
(* Proving runs in paper mode: the commands run-local-paper-validation,    *)
(* run-local-paper-validation-smoke and run-local-staging-runtime of       *)
(* src/src/bot/main.py over src/src/bot/service/paper_validation.py.       *)
(*                                                                         *)
(* A command creates a runtime on a root directory, starts its threads,    *)
(* waits for them, stops them and writes a review; the smoke command also  *)
(* gives a verdict.  Meanwhile operators change the safety policy, through *)
(* the runtime's own API (which is locked to paper mode) or the CLI (which *)
(* is not), and drills damage the policy's file.  Each change is saved     *)
(* first and leaves its evidence afterwards, a record of the audit log or  *)
(* an event of the journal, and the verdict is built from what evidence    *)
(* there is.                                                               *)
(*                                                                         *)
(* The root outlives the process, which may be killed at any time.  Of the *)
(* four switches of the policy only the mode and broker trading are        *)
(* changed here (SafetyPolicy has all of them).                            *)
(***************************************************************************)
EXTENDS StagingRuntime, SafetyPolicy, FiniteSets

CONSTANTS
  Api,          \* the control service behind the runtime's control API
  Cli,          \* the generic control service of the command line
  Drills,       \* whoever runs the drills on the safety state
  Control,      \* the server the API is behind
  Commands,     \* the commands that are run
  TestStream,   \* the websocket is the provider's test stream
  MaxEvidence   \* bound on the kinds of evidence

VARIABLES
  command,    \* the process: the command's main thread
  service,    \* what the live market service knows of itself
  status,     \* live_market_service_status.json
  editor,     \* Api, Cli, Drills -> the change it is making
  evidence,   \* audit log and journal
  prepared,   \* the root has its config directory
  strayed,    \* history: the policy left paper mode or safety, or was damaged
  lost        \* history: evidence was lost

\* Everything but the policy's file.
rootVars == <<stackVars, command, service, status, editor, evidence, prepared, strayed, lost>>

paperVars == <<rootVars, file>>

Editors == {Api, Cli, Drills}

Evidence ==
  [log : {"audit", "journal"}, live : BOOLEAN, trading : BOOLEAN, degraded : BOOLEAN]

Audit(policy, degraded) ==
  [log |-> "audit", live |-> policy["live"], trading |-> policy["trading"],
   degraded |-> degraded]

Event(degraded) ==
  [log |-> "journal", live |-> FALSE, trading |-> FALSE, degraded |-> degraded]

Free == [pc |-> "idle"]
Saving(policy) == [pc |-> "saving", policy |-> policy]
Recording(item) == [pc |-> "recording", item |-> item]

\* The service has shown nothing yet, or an error; its subscription is
\* acknowledged and messages arrive; or it has completed a cycle.
Progress == {"none", "subscribed", "cycled"}

Fresh == [online |-> FALSE, progress |-> "none"]

NoStatus == [exists |-> FALSE, own |-> FALSE, online |-> FALSE, progress |-> "none"]

Off ==
  [ pc |-> "off", kind |-> "none", step |-> 0, problem |-> FALSE, started |-> FALSE,
    answered |-> {}, clean |-> FALSE, reviewed |-> FALSE,
    seen |-> Missing, health |-> NoStatus, issues |-> {} ]

At(pc) == command.pc = pc
Goto(pc) == command' = [command EXCEPT !.pc = pc]

-----------------------------------------------------------------------------
(* create_local_paper_validation_runtime                                   *)

\* prepare_local_staging_runtime gives a new root a policy when it has none.
Prepared == IF ~prepared /\ file = Missing THEN DefaultPolicy ELSE file

\* reset_safety_state
Forced(kind, preserve) ==
  IF kind # "staging" /\ ~preserve THEN DefaultPolicy ELSE Prepared

Create(kind, preserve) ==
  /\ At("off")
  /\ command' = [Off EXCEPT !.pc = "starting", !.kind = kind, !.step = 1]
  /\ file' = Forced(kind, preserve)
  /\ prepared' = TRUE
  /\ service' = Fresh
  /\ status' = [status EXCEPT !.own = FALSE]
  /\ UNCHANGED <<stackVars, editor, evidence, strayed, lost>>

\* An OSError: only the smoke command goes on, to its verdict.
CreateFails ==
  /\ At("off")
  /\ "smoke" \in Commands
  /\ command' = [Off EXCEPT !.pc = "reading", !.kind = "smoke", !.problem = TRUE]
  /\ service' = Fresh
  /\ status' = [status EXCEPT !.own = FALSE]
  /\ UNCHANGED <<stackVars, file, editor, evidence, prepared, strayed, lost>>

-----------------------------------------------------------------------------
(* start and the probes                                                    *)

StartNext ==
  /\ At("starting")
  /\ IF command.step <= Len(Servers)
     THEN /\ StartServer(Servers[command.step])
          /\ command' = [command EXCEPT !.step = @ + 1]
     ELSE /\ StartSupervisor
          /\ command' = [command EXCEPT
               !.pc = IF command.kind = "smoke" THEN "probing" ELSE "waiting",
               !.step = 1, !.started = TRUE]
  /\ UNCHANGED <<file, service, status, editor, evidence, prepared, strayed, lost>>

\* _probe_local_paper_validation_surface: a server that serves may still not
\* answer in time.
Probe ==
  /\ At("probing")
  /\ LET server == Servers[command.step]
     IN \E answers \in {FALSE, thread[server] = "serving"} :
          command' = [command EXCEPT
            !.answered = IF answers THEN @ \cup {server} ELSE @,
            !.step = @ + 1,
            !.pc = IF command.step = Len(Servers) THEN "waiting" ELSE @]
  /\ UNCHANGED <<stackVars, file, service, status, editor, evidence, prepared, strayed, lost>>

-----------------------------------------------------------------------------
(* wait_for_stack                                                          *)

Stop(problem) == command' = [command EXCEPT !.pc = "stopping", !.problem = problem]

Quiet == UNCHANGED <<stackVars, file, service, status, editor, evidence, prepared, strayed,
                     lost>>

\* _raise_if_server_failed
WaitRaises ==
  /\ At("waiting") \/ At("settling")
  /\ failed # NoServer
  /\ Stop(TRUE)
  /\ Quiet

\* The supervisor's thread has ended, however it did.
EndsAnyhow == supervisor \in {"ended", "raised"}

\* The supervisor's thread has ended without an exception.
EndsWell == supervisor = "ended"

SupervisorDone ==
  /\ At("waiting")
  /\ supervisor \in {"ended", "raised"}
  /\ IF EndsWell THEN Goto("settling") ELSE Stop(TRUE)
  /\ Quiet

\* _wait_for_server_stability: a server that fails later goes unnoticed.
Settled ==
  /\ At("settling")
  /\ failed = NoServer
  /\ Stop(FALSE)
  /\ Quiet

\* A KeyboardInterrupt; it is a failure for the smoke command only.
Interrupt ==
  /\ command.pc \in {"starting", "probing", "waiting", "settling"}
  /\ Stop(command.kind = "smoke")
  /\ Quiet

-----------------------------------------------------------------------------
(* stop                                                                    *)

StopSupervisor ==
  /\ At("stopping")
  /\ stopping' = TRUE
  /\ Goto("joining")
  /\ UNCHANGED <<thread, asked, failed, supervisor>>
  /\ UNCHANGED <<file, service, status, editor, evidence, prepared, strayed, lost>>

\* The join gives up after five seconds.
Joined ==
  /\ At("joining")
  /\ command' = [command EXCEPT !.pc = "asking", !.step = 1]
  /\ Quiet

AskToClose ==
  /\ At("asking")
  /\ ShutDown(Servers[command.step])
  /\ Goto("closing")
  /\ UNCHANGED <<thread, failed, supervisor, stopping>>
  /\ UNCHANGED <<file, service, status, editor, evidence, prepared, strayed, lost>>

AfterStop == IF command.kind = "staging" THEN "done" ELSE "reviewing"

Closed ==
  /\ At("closing")
  /\ Down(Servers[command.step])
  /\ command' =
       IF command.step < Len(Servers)
       THEN [command EXCEPT !.pc = "asking", !.step = @ + 1]
       ELSE [command EXCEPT !.pc = AfterStop, !.clean = TRUE]
  /\ Quiet

\* server_close raises an OSError: the servers that come after it stay up.
CloseFails ==
  /\ At("closing")
  /\ Down(Servers[command.step])
  /\ command' = [command EXCEPT !.problem = TRUE,
                   !.pc = IF command.kind = "smoke" THEN "reviewing" ELSE "done"]
  /\ Quiet

-----------------------------------------------------------------------------
(* The review and the verdict                                              *)

Review ==
  /\ At("reviewing")
  /\ \E written \in BOOLEAN :
       command' = [command EXCEPT !.reviewed = written,
                     !.pc = IF command.kind = "smoke" THEN "reading" ELSE "done"]
  /\ Quiet

\* The summary starts with the service's status and the policy, and reads the
\* audit log and the journal after them.
Read ==
  /\ At("reading")
  /\ command' = [command EXCEPT !.pc = "judging", !.seen = file, !.health = status]
  /\ Quiet

\* _build_paper_integrity_summary of the current state alone.
IntactNow(policy, items) ==
  policy \in Policy /\ ~policy["live"] /\ ~policy["trading"]

\* _build_paper_integrity_summary: the current state, and whatever the whole
\* audit log and journal have seen.
Intact(policy, items) ==
  /\ policy \in Policy /\ ~policy["live"] /\ ~policy["trading"]
  /\ \A item \in items : ~item.live /\ ~item.trading /\ ~item.degraded

\* _alpaca_test_stream_smoke_cycle_gap_is_non_blocking
GapExcused(health) == TestStream /\ health.exists /\ health.online /\ health.progress = "subscribed"

Issue(condition, name) == IF condition THEN {name} ELSE {}

\* build_local_paper_validation_smoke_result
BlockingIssues(policy, health) ==
  Issue(command.problem, "runtime")
  \cup Issue(~command.started, "startup")
  \cup Issue(~command.reviewed, "review")
  \cup Issue(command.answered # ServerNames, "server")
  \cup Issue(~health.exists, "status")
  \cup Issue(health.progress # "cycled" /\ ~GapExcused(health), "cycle")
  \cup Issue(policy \in Policy /\ policy["live"], "mode")
  \cup Issue(policy \in Policy /\ policy["trading"], "trading")
  \cup Issue(~Intact(policy, evidence), "integrity")
  \cup Issue(~command.clean, "stop")

Judge ==
  /\ At("judging")
  /\ command' = [command EXCEPT !.pc = "done",
                                !.issues = BlockingIssues(command.seen, command.health)]
  /\ Quiet

\* build_local_paper_validation_summary raises.
SummaryFails ==
  /\ At("judging")
  /\ command' = [command EXCEPT !.pc = "done", !.issues = {"summary"}]
  /\ Quiet

\* The process ends, or is killed, with all its threads.
Exit ==
  /\ ~At("off")
  /\ command' = Off
  /\ thread' = [s \in ServerNames |-> "unstarted"]
  /\ asked' = {}
  /\ failed' = NoServer
  /\ supervisor' = "unstarted"
  /\ stopping' = FALSE
  /\ service' = Fresh
  /\ editor' = [editor EXCEPT ![Api] = Free, ![Drills] = Free]
  /\ lost' = (lost \/ \E e \in {Api, Drills} : editor[e].pc = "recording")
  /\ UNCHANGED <<file, status, evidence, prepared, strayed>>

-----------------------------------------------------------------------------
(* The supervisor: run of src/src/bot/service/live_market_service.py       *)

\* _persist_status, which only warns of an OSError.
Persist(now) ==
  status' \in {status, [exists |-> TRUE, own |-> TRUE, online |-> now.online,
                        progress |-> now.progress]}

ServiceOnly == UNCHANGED <<thread, asked, failed, stopping, command, file, editor, evidence,
                           prepared, strayed, lost>>

\* A cycle counts for good.
Further == IF service.progress = "cycled" THEN {"cycled"} ELSE Progress

\* One iteration: it connects, or loses the connection; it is subscribed and
\* hears messages, or remembers an error; it completes a cycle.
Poll ==
  /\ supervisor = "running"
  /\ \E online \in BOOLEAN, progress \in Further :
       /\ service' = [online |-> online, progress |-> progress]
       /\ Persist(service')
  /\ UNCHANGED supervisor
  /\ ServiceOnly

\* _shutdown flushes what is buffered, disconnects and saves the status.
Leave(how) ==
  /\ supervisor = "running"
  /\ supervisor' = how
  /\ \E progress \in {service.progress, "cycled"} :
       service' = [online |-> FALSE, progress |-> progress]
  /\ Persist(service')
  /\ ServiceOnly

\* The loop ends when it is told to, or after its last iteration.
RunEnds == Leave("ended")

RunRaises == Leave("raised")

-----------------------------------------------------------------------------
(* Operators and drills                                                    *)

Edit(e, what) == editor' = [editor EXCEPT ![e] = what]

\* The policies that e can work with: the locked service refuses to work with
\* one that has left paper mode.
Locked(e) == e = Api /\ command.kind # "staging"

Usable(e) == {p \in Loaded(e) : Locked(e) => ~p["live"]}

\* The policy that a record shows: a degraded one is in paper mode.
Shown(e) == IF Loaded(e) = {} THEN DefaultPolicy ELSE CHOOSE p \in Loaded(e) : TRUE

CanAct(e) ==
  /\ editor[e].pc = "idle"
  /\ e = Api => thread[Control] = "serving"
  /\ Cardinality(evidence) < MaxEvidence

\* set_execution_mode and set_broker_trading_enabled of a service: the answer
\* that changes nothing leaves a record as well.
Refuse(e, s, v) ==
  /\ CanAct(e)
  /\ \/ /\ Locked(e) /\ s = "live" /\ v
        /\ Edit(e, Recording(Audit(Shown(e), FALSE)))
     \/ /\ ~(Locked(e) /\ s = "live" /\ v)
        /\ Usable(e) = {}
        /\ Edit(e, Recording(Audit(Shown(e), TRUE)))
     \/ /\ ~(Locked(e) /\ s = "live" /\ v)
        /\ \E p \in Usable(e) : p[s] = v
        /\ Edit(e, Recording(Audit(Shown(e), FALSE)))
  /\ UNCHANGED <<stackVars, file, command, service, status, evidence, prepared, strayed, lost>>

Accept(e, s, v) ==
  /\ CanAct(e)
  /\ ~(Locked(e) /\ s = "live" /\ v)
  /\ \E p \in Usable(e) : p[s] # v /\ Edit(e, Saving(Changed(p, s, v)))
  /\ UNCHANGED <<stackVars, file, command, service, status, evidence, prepared, strayed, lost>>

Save(e) ==
  /\ editor[e].pc = "saving"
  /\ file' = editor[e].policy
  /\ strayed' = (strayed \/ file'["live"] \/ file'["trading"])
  /\ Edit(e, Recording(Audit(editor[e].policy, FALSE)))
  /\ UNCHANGED <<stackVars, command, service, status, evidence, prepared, lost>>

\* corrupt_safety_state and delete_safety_state
DrillDamage(how) ==
  /\ At("waiting")
  /\ CanAct(Drills)
  /\ file # how
  /\ file' = how
  /\ strayed' = TRUE
  /\ Edit(Drills, Recording(Event(TRUE)))
  /\ UNCHANGED <<stackVars, command, service, status, evidence, prepared, lost>>

\* reset_safety_state
DrillReset ==
  /\ At("waiting")
  /\ CanAct(Drills)
  /\ file' = DefaultPolicy
  /\ Edit(Drills, Recording(Event(FALSE)))
  /\ UNCHANGED <<stackVars, command, service, status, evidence, prepared, strayed, lost>>

\* _finalize_result and _record_event; an OSError is a warning.
Record(e) ==
  /\ editor[e].pc = "recording"
  /\ \/ evidence' = evidence \cup {editor[e].item} /\ UNCHANGED lost
     \/ lost' = TRUE /\ UNCHANGED evidence
  /\ Edit(e, Free)
  /\ UNCHANGED <<stackVars, file, command, service, status, prepared, strayed>>

CliDies ==
  /\ editor[Cli].pc # "idle"
  /\ lost' = (lost \/ editor[Cli].pc = "recording")
  /\ Edit(Cli, Free)
  /\ UNCHANGED <<stackVars, file, command, service, status, evidence, prepared, strayed>>

-----------------------------------------------------------------------------
(* Specification                                                           *)

CleanRoot ==
  /\ NothingRuns
  /\ command = Off
  /\ service = Fresh
  /\ status = NoStatus
  /\ editor = [e \in Editors |-> Free]
  /\ evidence = {}
  /\ prepared = FALSE
  /\ strayed = FALSE
  /\ lost = FALSE

PaperInit == CleanRoot /\ file = Missing

ServersOnly ==
  UNCHANGED <<command, file, service, status, editor, evidence, prepared, strayed, lost>>

ServerGoesOn(s) == ServerStep(s) /\ ServersOnly

ServerFails(s) == LoopRaises(s) /\ ServersOnly

\* What the main thread does next, if nothing interrupts it.
Proceed ==
  \/ StartNext \/ Probe
  \/ WaitRaises \/ SupervisorDone \/ Settled
  \/ StopSupervisor \/ Joined \/ AskToClose \/ Closed
  \/ Review \/ Read \/ Judge

MainFails == CreateFails \/ Interrupt \/ CloseFails \/ SummaryFails

Operate ==
  \/ \E e \in {Api, Cli}, s \in {"live", "trading"}, v \in BOOLEAN :
       Refuse(e, s, v) \/ Accept(e, s, v)
  \/ \E e \in Editors : Save(e) \/ Record(e)
  \/ DrillDamage(Missing) \/ DrillDamage(Corrupt) \/ DrillReset
  \/ CliDies

PaperNext ==
  /\ \/ \E kind \in Commands, preserve \in BOOLEAN : Create(kind, preserve)
     \/ Proceed \/ MainFails \/ Exit
     \/ \E s \in ServerNames : ServerGoesOn(s) \/ ServerFails(s)
     \/ Poll \/ RunEnds \/ RunRaises
     \/ Operate
  /\ UNCHANGED <<request, told>>

PaperSpec == PaperInit /\ [][PaperNext]_paperVars

-----------------------------------------------------------------------------
(* Properties                                                              *)

PaperTypeOK ==
  /\ StackTypeOK
  /\ file \in Policy \cup {Missing, Corrupt}
  /\ evidence \subseteq Evidence
  /\ editor \in [Editors -> {Free} \cup {Saving(p) : p \in Policy}
                                   \cup {Recording(i) : i \in Evidence}]
  /\ command.answered \subseteq ServerNames
  /\ service \in [online : BOOLEAN, progress : Progress]

\* A verdict without the integrity issue means that the policy has been in paper
\* mode with trading off since the root was made, that no drill has damaged it,
\* whoever changed it meanwhile and how often the runtime was killed and
\* restarted; except when a change is still without its record, or has lost it
\* to a kill between the save and the append or to an append that failed.
IntactIsTrue ==
  [][ At("judging") /\ command'.pc = "done"
        /\ command'.issues \cap {"integrity", "summary"} = {}
      => \/ ~strayed
         \/ lost
         \/ \E e \in Editors : editor[e].pc = "recording"
    ]_paperVars

\* A smoke run passes on its own merits: its supervisor ended without an
\* exception and completed a cycle.  (Only when no save of the status succeeded
\* is it the status of an earlier run that counts.)
SmokeEarned ==
  At("done") /\ command.kind = "smoke" /\ command.issues = {} =>
    /\ supervisor = "ended"
    /\ service.progress = "cycled" \/ ~status.own

\* The command has a reason to end.
HasToEnd == ~At("off") /\ (failed # NoServer \/ EndsAnyhow \/ stopping)

\* It has ended.  A command that was interrupted while it started its servers
\* never does: stop waits for a server whose loop has not run.
HasEnded ==
  \/ At("done") \/ At("off")
  \/ command.pc = "closing" /\ thread[Servers[command.step]] = "unstarted"

\* "A clean test-stream smoke can still leave the historical/recommendation path
\* unvalidated if the first daily-summary cycle does not complete inside the
\* bounded window" (src/ops/paper_validation_proving_runbook.md): on the test
\* stream the lack of a cycle is not what fails a run that is subscribed, has
\* seen messages and has seen no error.
TestStreamSmokeIsClean ==
  At("done") /\ TestStream /\ service.progress = "subscribed" => command.issues # {"cycle"}
=============================================================================
