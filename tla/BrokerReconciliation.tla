------------------------ MODULE BrokerReconciliation ------------------------
(***************************************************************************)
(* How one normalized broker update is folded into the local order book:   *)
(* src/src/bot/broker/reconciliation.py.  An update is a snapshot of the   *)
(* broker's record of an order.  Applying one either returns a new book or *)
(* raises a ValueError that nobody catches below the command handler.      *)
(***************************************************************************)
EXTENDS PendingOrders

CONSTANT NoOrder   \* no local record matches

ASSUME NoOrderAssumption == NoOrder \notin Orders

BrokerOrderUpdate ==
  [ id : BrokerIds, client : Orders, status : BrokerStatuses,
    quantity : Nat, filled : Nat ]

\* An update of an unknown order is given to an active order of its symbol.
MatchingBySymbol(book, u) ==
  LET linked == {o \in Orders : book[o].brokerId = u.id}
      active == {o \in Orders : Active(book[o]) /\ SymbolOf[o] = SymbolOf[u.client]}
  IN  IF linked # {} THEN CHOOSE o \in linked : TRUE
      ELSE IF book[u.client] # Absent THEN u.client
      ELSE IF active # {} THEN CHOOSE o \in active : TRUE
      ELSE NoOrder

\* _find_matching_pending_order: first by broker order id, then by client
\* order id.  Every broker order carries the local order id as its client id,
\* so the two lookups by client id coincide.  The last lookup, by trade or
\* decision id in the update's metadata, finds nothing: only the answer to a
\* placement has those keys, and its client id is in the book.
Linked(book, u) == {o \in Orders : book[o].brokerId = u.id}

Matching(book, u) ==
  IF Linked(book, u) # {} THEN CHOOSE o \in Linked(book, u) : TRUE
  ELSE IF book[u.client] # Absent THEN u.client
  ELSE NoOrder

\* _merge_pending_order_record_with_broker_update
Merged(r, u) ==
  [r EXCEPT !.requested    = u.quantity,
            !.brokerId     = u.id,
            !.brokerStatus = u.status]

\* An order that has expired counts as cancelled.
ExpiredIsCancelled(status) ==
  IF status \in {"filled", "replaced"} THEN status ELSE "cancelled"

\* The local final status a broker status leads to.
LocalFinal(status) ==
  CASE status = "filled"                    -> "filled"
    [] status \in {"cancelled", "rejected"} -> "cancelled"
    [] status = "expired"                   -> "expired"
    [] status = "replaced"                  -> "replaced"

MovesBackward(r, u) == u.filled < r.filled

\* _apply_broker_update and _finalize_lifecycle_result return.
CanApplyToRecord(r, u) ==
  LET m == Merged(r, u) IN
  /\ Valid(m)
  /\ u.status = "partially_filled" =>
       MovesBackward(m, u) \/ CanMarkPartiallyFilled(m, u.filled)
  /\ u.status \in {"filled", "cancelled", "rejected", "expired"} =>
       CanFinalize(m, LocalFinal(u.status))

\* The record they leave.  "replaced" is applied to an order in any status.
AppliedToRecord(o, r, u) ==
  LET m == Merged(r, u) IN
  CASE u.status \in {"accepted", "pending_cancel", "pending_replace"} -> m
    [] u.status = "partially_filled" ->
         IF MovesBackward(m, u) THEN m ELSE WithFillProgress(o, m, u.filled)
    [] u.status = "replaced" -> Released(m, "replaced")
    [] u.status \in {"filled", "cancelled", "rejected", "expired"} ->
         Finalized(m, LocalFinal(u.status))

\* The same for the book: the merged record and the advanced one are upserted.
CanApply(book, o, u) ==
  /\ CanApplyToRecord(book[o], u)
  /\ CanUpsert(book, o, Merged(book[o], u))
  /\ CanUpsert(book, o, AppliedToRecord(o, book[o], u))

Applied(book, o, u) == Upsert(book, o, AppliedToRecord(o, book[o], u))
=============================================================================
