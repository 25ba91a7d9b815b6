--------------------------- MODULE StagingRuntime ---------------------------
(***************************************************************************)
(* The threads of a local staging runtime (LocalStagingRuntime of          *)
(* src/src/bot/service/local_staging_runtime.py): one per HTTP server and  *)
(* one for the supervisor of the live market service.                      *)
(*                                                                         *)
(* A server's thread runs serve_forever until its shutdown is requested or *)
(* the loop raises.  The first thread whose loop raises records the        *)
(* failure, stops the supervisor and shuts the other servers down, one     *)
(* after the other; shutdown returns when the loop of that server has      *)
(* ended, and so never for a server whose loop has never run.              *)
(***************************************************************************)
EXTENDS Integers, Sequences

CONSTANTS
  Servers,    \* the servers, in the order in which they are started
  NoServer    \* no server has failed

VARIABLES
  thread,      \* server -> where its thread is
  asked,       \* servers whose shutdown has been requested
  failed,      \* _server_failure_name
  supervisor,  \* where the supervisor's thread is
  stopping     \* _stop_requested of the supervisor

stackVars == <<thread, asked, failed, supervisor, stopping>>

ServerNames == {Servers[i] : i \in DOMAIN Servers}

StackTypeOK ==
  /\ thread \in [ServerNames -> {"unstarted", "serving", "failing", "recording", "ended"}]
  /\ asked \subseteq ServerNames
  /\ failed \in ServerNames \cup {NoServer}
  /\ supervisor \in {"unstarted", "running", "ended", "raised"}
  /\ stopping \in BOOLEAN

NothingRuns ==
  /\ thread = [s \in ServerNames |-> "unstarted"]
  /\ asked = {}
  /\ failed = NoServer
  /\ supervisor = "unstarted"
  /\ stopping = FALSE

Thread(s, where) == thread' = [thread EXCEPT ![s] = where]

\* The serve loop of s is over: server.shutdown() returns.
Down(s) == thread[s] \in {"failing", "recording", "ended"}

\* server.shutdown() waits for the loop to end.
WaitOnly(s) == UNCHANGED asked

\* server.shutdown() asks the loop to end, before it waits.
ShutDown(s) == asked' = asked \cup {s}

\* Before the others that s shuts down before t.
Earlier(s, t) ==
  {Servers[i] : i \in {j \in DOMAIN Servers : \A k \in DOMAIN Servers :
                         Servers[k] = t => j < k}} \ {s}

-----------------------------------------------------------------------------
(* start                                                                   *)

StartServer(s) ==
  /\ Thread(s, "serving")
  /\ UNCHANGED <<asked, failed, supervisor, stopping>>

StartSupervisor ==
  /\ supervisor' = "running"
  /\ UNCHANGED <<thread, asked, failed, stopping>>

-----------------------------------------------------------------------------
(* _serve_server and _record_server_failure                                *)

LeaveLoop(s) ==
  /\ thread[s] = "serving"
  /\ s \in asked
  /\ Thread(s, "ended")
  /\ UNCHANGED <<asked, failed, supervisor, stopping>>

\* serve_forever raises.
LoopRaises(s) ==
  /\ thread[s] = "serving"
  /\ Thread(s, "failing")
  /\ UNCHANGED <<asked, failed, supervisor, stopping>>

RecordFirst(s) ==
  /\ thread[s] = "failing"
  /\ failed = NoServer
  /\ failed' = s
  /\ stopping' = TRUE
  /\ Thread(s, "recording")
  /\ UNCHANGED <<asked, supervisor>>

\* Another server has failed before: its thread does the rest.
RecordAnother(s) ==
  /\ thread[s] = "failing"
  /\ failed # NoServer
  /\ Thread(s, "ended")
  /\ UNCHANGED <<asked, failed, supervisor, stopping>>

BringDown(s, t) ==
  /\ thread[s] = "recording"
  /\ t \notin asked \cup {s}
  /\ \A u \in Earlier(s, t) : Down(u)
  /\ ShutDown(t)
  /\ UNCHANGED <<thread, failed, supervisor, stopping>>

AllBroughtDown(s) ==
  /\ thread[s] = "recording"
  /\ \A t \in ServerNames \ {s} : Down(t)
  /\ Thread(s, "ended")
  /\ UNCHANGED <<asked, failed, supervisor, stopping>>

ServerStep(s) ==
  \/ LeaveLoop(s)
  \/ RecordFirst(s)
  \/ RecordAnother(s)
  \/ \E t \in ServerNames : BringDown(s, t)
  \/ AllBroughtDown(s)
=============================================================================
