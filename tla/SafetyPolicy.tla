---------------------------- MODULE SafetyPolicy ----------------------------
(***************************************************************************)
(* The operator's safety state and the gate it puts before broker requests *)
(* (src/src/bot/api/control_api.py).  The state is one JSON record.  A     *)
(* settings command loads it, changes one switch and writes the whole      *)
(* record back; a request for the broker loads it and is judged by what it *)
(* loaded, some time before it is sent.  Nothing locks the file, and the   *)
(* HTTP server gives every request a thread of its own.                    *)
(*                                                                         *)
(* A command that is rejected, or finds the state unreadable, changes      *)
(* nothing and is left out.                                                *)
(*                                                                         *)
(* told is the operators' side: for each switch, the positions the         *)
(* commands' answers leave possible.                                       *)
(***************************************************************************)
CONSTANTS
  Procs,       \* server threads and CLI processes
  Admins,      \* the ones operators change settings through
  FailClosed,  \* the ones whose service blocks when the file is missing
  Missing,     \* there is no file
  Corrupt      \* the file cannot be parsed

ASSUME AdminsAssumption == Admins \subseteq Procs

\* execution_submission_enabled, execution_mode = "live",
\* live_actions_require_confirmation, broker_trading_enabled
Switches == {"enabled", "live", "confirm", "trading"}

Policy == [Switches -> BOOLEAN]

\* OperatorControlState(): submissions enabled, paper mode, confirmation asked.
DefaultPolicy == [s \in Switches |-> s \in {"enabled", "confirm"}]

ASSUME UnreadableAssumption == Missing \notin Policy /\ Corrupt \notin Policy

VARIABLES
  file,      \* operator_control_state.json
  request,   \* process -> the command it runs
  told       \* switch -> the positions it may be in, as far as operators know

policyVars == <<file, request, told>>

Kinds == {"submit", "cancel", "replace"}

NoRequest == [pc |-> "idle"]

Requests ==
  {NoRequest}
  \cup [pc : {"saving"}, switch : Switches, policy : Policy]
  \cup [pc : {"sending"}, kind : Kinds, expected : BOOLEAN]

PolicyTypeOK ==
  /\ file \in Policy \cup {Missing, Corrupt}
  /\ request \in [Procs -> Requests]
  /\ told \in [Switches -> SUBSET BOOLEAN]

Become(p, r) == request' = [request EXCEPT ![p] = r]

-----------------------------------------------------------------------------
(* Loading and judging                                                     *)

\* An unreadable file taken for a missing one, and neither for a reason to stop.
LoadedOpen(p) == IF file \in {Missing, Corrupt} THEN {DefaultPolicy} ELSE {file}

\* _load_operator_control_state_result: the policies p can work with; none when
\* the state is degraded.
Loaded(p) ==
  IF file = Corrupt THEN {}
  ELSE IF file = Missing
  THEN IF p \in FailClosed THEN {} ELSE {DefaultPolicy}
  ELSE {file}

\* _pause_blocks_broker_mutation
PauseBlocks(kind) == kind = "submit"

\* _reject_if_broker_mutation_not_allowed returns None.
Allowed(policy, kind, confirmed) ==
  /\ PauseBlocks(kind) => policy["enabled"]
  /\ policy["live"] => /\ policy["trading"]
                       /\ policy["confirm"] => confirmed

-----------------------------------------------------------------------------
(* pause, resume, set_execution_mode, set_live_action_confirmation,        *)
(* set_broker_trading_enabled                                              *)

\* The switch is set in a record of defaults.
ChangedDefault(policy, s, v) == [DefaultPolicy EXCEPT ![s] = v]

Changed(policy, s, v) == [policy EXCEPT ![s] = v]

\* The operator asks for a new position: until the answer comes, either may be
\* in force.
Set(p, s, v) ==
  /\ request[p].pc = "idle"
  /\ \E policy \in Loaded(p) :
       /\ policy[s] # v
       /\ Become(p, [pc |-> "saving", switch |-> s, policy |-> Changed(policy, s, v)])
  /\ told' = [told EXCEPT ![s] = BOOLEAN]
  /\ UNCHANGED file

\* The switch is in this position already.
SetNoOp(p, s, v) ==
  /\ request[p].pc = "idle"
  /\ \E policy \in Loaded(p) : policy[s] = v
  /\ told' = [told EXCEPT ![s] = {v}]
  /\ UNCHANGED <<file, request>>

\* The record is written and the command answers "completed".
SaveSet(p) ==
  /\ request[p].pc = "saving"
  /\ file' = request[p].policy
  /\ told' = [told EXCEPT ![request[p].switch] = {request[p].policy[request[p].switch]}]
  /\ Become(p, NoRequest)

-----------------------------------------------------------------------------
(* Requests that change orders at the broker                               *)

\* As far as operators know, the request may go out.
Expected(kind, confirmed) ==
  \E policy \in Policy :
    /\ \A s \in Switches : policy[s] \in told[s]
    /\ Allowed(policy, kind, confirmed)

Ask(p, kind, confirmed) ==
  /\ request[p].pc = "idle"
  /\ \E policy \in Loaded(p) : Allowed(policy, kind, confirmed)
  /\ Become(p, [pc |-> "sending", kind |-> kind, expected |-> Expected(kind, confirmed)])
  /\ UNCHANGED <<file, told>>

Send(p) ==
  /\ request[p].pc = "sending"
  /\ Become(p, NoRequest)
  /\ UNCHANGED <<file, told>>

\* The process dies: a settings command may never answer.
Crash(p) ==
  /\ request[p].pc # "idle"
  /\ Become(p, NoRequest)
  /\ UNCHANGED <<file, told>>

-----------------------------------------------------------------------------
(* The validation drills on the file, and its repair                       *)

Damage(how) ==
  /\ file # how
  /\ file' = how
  /\ UNCHANGED <<request, told>>

\* apply_paper_validation_safety_state
Reset(p) ==
  /\ request[p].pc = "idle"
  /\ file' = DefaultPolicy
  /\ told' = [s \in Switches |-> {DefaultPolicy[s]}]
  /\ UNCHANGED request

PolicyInit ==
  /\ file \in {Missing, DefaultPolicy}
  /\ request = [p \in Procs |-> NoRequest]
  /\ told = [s \in Switches |-> {DefaultPolicy[s]}]

PolicyNext ==
  \/ \E p \in Admins, s \in Switches, v \in BOOLEAN : Set(p, s, v) \/ SetNoOp(p, s, v)
  \/ \E p \in Procs : SaveSet(p)
  \/ \E p \in Procs, kind \in Kinds, confirmed \in BOOLEAN : Ask(p, kind, confirmed)
  \/ \E p \in Procs : Send(p) \/ Crash(p)
  \/ Damage(Missing)
  \/ Damage(Corrupt)
  \/ \E p \in Admins : Reset(p)

PolicySpec == PolicyInit /\ [][PolicyNext]_policyVars

-----------------------------------------------------------------------------
(* Properties                                                              *)

\* No switch moves back by itself: when the file can be read, every switch is in
\* a position the operators have been told of, although each command rewrites
\* all four and may have died half way.
ToldIsInForce ==
  file \in Policy => \A s \in Switches : file[s] \in told[s]

\* A request that goes out was allowed by the policy as the operators knew it
\* when it was made: nothing is submitted after "Execution submissions paused."
\* and nothing live goes out unconfirmed or with trading off, also while the
\* file is damaged.
PolicyHolds ==
  \A p \in Procs : request[p].pc = "sending" => request[p].expected

\* The part of ToldIsInForce that is about the pause: after a command answered
\* "Execution submissions paused." and until a resume is asked for, they are.
PauseInForce ==
  file \in Policy /\ told["enabled"] = {FALSE} => ~file["enabled"]
=============================================================================
