---------------------------- MODULE BrokerOrders ----------------------------
(***************************************************************************)
(* The broker's side of an order, as far as the adapter of                 *)
(* src/src/bot/broker/execution.py relies on it.  The service itself is    *)
(* external: it accepts at most one order per client order id (the adapter *)
(* reads orders back by that id), fills an open order a share at a time,   *)
(* closes it for its own reasons at any moment, and settles a replacement  *)
(* some time after it has accepted the request: until then the old order   *)
(* is "pending_replace" and keeps trading, and the broker may still refuse *)
(* the new one.                                                            *)
(***************************************************************************)
EXTENDS BrokerReconciliation

VARIABLE broker   \* broker order id -> the broker's record of the order

BrokerOrder ==
  [ client   : Orders \cup {NoOrder},
    status   : BrokerStatuses \cup {"none"},
    quantity : Nat,
    filled   : Nat,
    replaces : BrokerIds \cup {NoBrokerId} ]

NotPlaced ==
  [ client |-> NoOrder, status |-> "none", quantity |-> 0, filled |-> 0,
    replaces |-> NoBrokerId ]

BrokerTypeOK == broker \in [BrokerIds -> BrokerOrder]

BrokerInit == broker = [b \in BrokerIds |-> NotPlaced]

Open(b)   == broker[b].status \in BrokerOpenStatuses
Closed(b) == broker[b].status \in BrokerClosedStatuses

\* A new order that waits for the order it replaces to step aside.
Unsettled(b) ==
  /\ broker[b].status = "accepted"
  /\ broker[b].replaces # NoBrokerId
  /\ broker[broker[b].replaces].status = "pending_replace"

Working(b) == Open(b) /\ ~Unsettled(b)

Fresh(b, client) ==
  /\ broker[b] = NotPlaced
  /\ \A other \in BrokerIds : broker[other].client # client

\* _normalize_order_update: what a response says of the order.
Update(b, rec) ==
  [ id |-> b, client |-> rec.client, status |-> rec.status,
    quantity |-> rec.quantity, filled |-> rec.filled ]

-----------------------------------------------------------------------------
(* Requests of the adapter that the broker grants                          *)

AcceptOrder(b, client, quantity) ==
  /\ Fresh(b, client)
  /\ broker' = [broker EXCEPT ![b] =
       [ client |-> client, status |-> "accepted", quantity |-> quantity,
         filled |-> 0, replaces |-> NoBrokerId ]]

AcceptCancel(b) ==
  /\ Working(b)
  /\ broker[b].status # "pending_replace"
  /\ broker' = [broker EXCEPT ![b].status = "pending_cancel"]

\* The new order starts from the shares the old one has filled.
AcceptReplace(b, new, client, quantity) ==
  /\ Working(b)
  /\ broker[b].status \notin {"pending_cancel", "pending_replace"}
  /\ quantity > broker[b].filled
  /\ Fresh(new, client)
  /\ broker' = [broker EXCEPT
       ![b].status = "pending_replace",
       ![new] = [ client |-> client, status |-> "accepted",
                  quantity |-> quantity, filled |-> broker[b].filled,
                  replaces |-> b ]]

-----------------------------------------------------------------------------
(* What the broker does on its own                                         *)

\* The last share of an order under replacement is not filled before the
\* replacement is settled.
Fill(b) ==
  /\ Working(b)
  /\ broker[b].filled < broker[b].quantity
  /\ broker[b].status = "pending_replace" =>
       broker[b].filled + 1 < broker[b].quantity
  /\ broker' = [broker EXCEPT
       ![b].filled = broker[b].filled + 1,
       ![b].status = IF broker[b].filled + 1 = broker[b].quantity THEN "filled"
                     ELSE IF broker[b].status = "accepted"
                          THEN "partially_filled"
                          ELSE broker[b].status]

\* A day order expires, a cancel goes through, an untouched order is rejected.
Close(b, status) ==
  /\ Working(b)
  /\ broker[b].status # "pending_replace"
  /\ \/ status \in {"cancelled", "expired"}
     \/ status = "rejected" /\ broker[b].status = "accepted" /\ broker[b].filled = 0
  /\ broker' = [broker EXCEPT ![b].status = status]

CommitReplace(new) ==
  /\ Unsettled(new)
  /\ LET old == broker[new].replaces IN
     /\ broker[old].filled < broker[new].quantity
     /\ broker' = [broker EXCEPT
          ![old].status = "replaced",
          ![new].filled = broker[old].filled,
          ![new].status = IF broker[old].filled > 0 THEN "partially_filled"
                          ELSE "accepted"]

RefuseReplace(new) ==
  /\ Unsettled(new)
  /\ LET old == broker[new].replaces IN
     broker' = [broker EXCEPT
       ![new].status = "rejected",
       ![old].status = IF broker[old].filled > 0 THEN "partially_filled"
                       ELSE "accepted"]

Expire(b) == Close(b, "expired")

Settle(new) == CommitReplace(new) \/ RefuseReplace(new)

BrokerStep ==
  \E b \in BrokerIds :
    \/ Fill(b)
    \/ \E status \in {"cancelled", "expired", "rejected"} : Close(b, status)
    \/ CommitReplace(b)
    \/ RefuseReplace(b)
=============================================================================
