----------------------- MODULE LiveServiceInvariant ------------------------
(***************************************************************************)
(* The inductive invariant behind the safety properties of LiveService.    *)
(***************************************************************************)
EXTENDS LiveService

\* The connection as the status should have it between two iterations: not yet
\* made, lost, or standing.
Unmade == status = [FreshStatus EXCEPT !.silence = status.silence,
                                       !.heard = status.heard]

Retrying ==
  /\ status.state = "retrying" /\ ~status.connected
  /\ status.attempts > 0

Standing ==
  /\ status.state = "connected" /\ status.connected /\ ~status.stale
  /\ status.attempts = 0

\* An attempt more is still counted.
CountFits == status.attempts <= MaxExponent + 1

\* At each point of the loop the status, the adapter's flag and the number of
\* failed attempts fit together.
InStep ==
  /\ pc \in {"off", "connect"} => ~socket
  /\ pc = "off" => status = FreshStatus /\ owed = {}
  /\ pc = "connect" => (Unmade \/ Retrying) /\ CountFits /\ previous = status.state
  /\ pc \in {"read", "flush", "cycle", "settle"} => socket
  /\ pc \in {"read", "ingest", "flush", "cycle", "settle"} => Standing
  /\ pc \in {"top", "sleep"} =>
       (Unmade /\ ~socket) \/ (Retrying /\ ~socket) \/ (Standing /\ socket)
  /\ pc = "top" => CountFits
  /\ pc = "sleep" => status.state # "starting"
  /\ pc \in {"top", "sleep"} /\ disk => artifact = Report(status)

\* The delivery state is what the operator has been told: the condition
\* announced last is the one that is active, and the warnings seen are the ones
\* that are not sent again.
MailTrue(m) ==
  /\ m.file.active = Conditions \cap {m.told}
  /\ m.seen \subseteq m.file.once
  /\ ~m.repeated
  /\ m.told # "stale"

\* The operator knows of an outage if and only if there is one.
Knows(m, state) == ~m.missed => (m.told = "retrying" <=> state = "retrying")

MailInStep == disk => MailTrue(mail)

Known(state) == disk => Knows(mail, state)

NoticesInStep ==
  /\ pc \in {"top", "sleep"} => Known(status.state)
  /\ pc \in Loop \ {"top", "sleep"} => Known(previous) /\ previous # "stale"

IInv ==
  /\ TypeOK
  /\ InStep
  /\ NothingForgotten
  /\ MailInStep
  /\ NoticesInStep
=============================================================================
