------------------------ MODULE NotificationRouting ------------------------
(***************************************************************************)
(* Which notification reaches the operator                                 *)
(* (src/src/bot/notifications/routing.py).  The router keeps a file with   *)
(* the keys of the conditions it has announced and not yet seen cleared,   *)
(* and with the keys of the events it delivers once in a lifetime.  It     *)
(* writes the file when at least one channel took the event.               *)
(*                                                                         *)
(* A mailbox is that file and the operator's side of it: the last notice   *)
(* about the connection, whether a later one was due and did not arrive,   *)
(* the warnings seen, and whether one came twice.                          *)
(***************************************************************************)
CONSTANT Warnings  \* texts of the warnings (their hash is the key)

\* service:connectivity:retrying, service:connectivity:stale
Conditions == {"retrying", "stale"}

ASSUME WarningsAssumption ==
  Warnings \cap (Conditions \cup {"nothing", "recovered"}) = {}

DeliveryState == [active : SUBSET Conditions, once : SUBSET Warnings]

Mailbox ==
  [file : DeliveryState,
   told : Conditions \cup {"nothing", "recovered"},
   missed : BOOLEAN,
   seen : SUBSET Warnings,
   repeated : BOOLEAN]

EmptyMailbox ==
  [file |-> [active |-> {}, once |-> {}],
   told |-> "nothing", missed |-> FALSE, seen |-> {}, repeated |-> FALSE]

\* build_service_warning_notification, and the other events of scope "once"
Warning(w) == [scope |-> "once", key |-> w, clears |-> {}]

\* build_service_state_notifications: the event a change of state calls for.
StateNotice(before, after) ==
  IF after \in Conditions /\ before # after
  THEN {[scope |-> "active", key |-> after, clears |-> {}]}
  ELSE IF after = "connected" /\ before \in Conditions
  THEN {[scope |-> "none", key |-> "recovered", clears |-> Conditions]}
  ELSE {}

\* An announced condition does not silence its own event.
ShouldDeliverActive(file, e) ==
  /\ e.clears # {} => e.clears \cap file.active # {}
  /\ e.scope = "once" => e.key \notin file.once

\* _should_deliver_notification_event
ShouldDeliver(file, e) ==
  /\ e.clears # {} => e.clears \cap file.active # {}
  /\ e.scope = "once" => e.key \notin file.once
  /\ e.scope = "active" => e.key \notin file.active

\* The recovery notice leaves the conditions announced.
AdvanceUncleared(file, e) ==
  [active |-> file.active \cup (IF e.scope = "active" THEN {e.key} ELSE {}),
   once |-> file.once \cup (IF e.scope = "once" THEN {e.key} ELSE {})]

\* _advance_notification_delivery_state
Advance(file, e) ==
  [active |-> (file.active \ e.clears) \cup (IF e.scope = "active" THEN {e.key} ELSE {}),
   once |-> file.once \cup (IF e.scope = "once" THEN {e.key} ELSE {})]

\* route_events for one event: sent, a channel matches the event and takes it;
\* saved, the file can be written.
RouteEvent(mail, e, sent, saved) ==
  LET due == ShouldDeliver(mail.file, e)
      arrives == due /\ sent
      warns == e.scope = "once"
  IN [file |-> IF arrives /\ saved THEN Advance(mail.file, e) ELSE mail.file,
      told |-> IF arrives /\ ~warns THEN e.key ELSE mail.told,
      missed |-> IF warns THEN mail.missed ELSE due /\ ~sent,
      seen |-> IF arrives /\ warns THEN mail.seen \cup {e.key} ELSE mail.seen,
      repeated |-> \/ mail.repeated
                   \/ arrives /\ e.key \in mail.seen \cup {mail.told}]

\* route_events for at most one event.
RouteEvents(mail, events, sent, saved) ==
  IF events = {} THEN mail
  ELSE RouteEvent(mail, CHOOSE e \in events : TRUE, sent, saved)
=============================================================================
