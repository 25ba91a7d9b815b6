-------------------------- MODULE OrderProperties --------------------------
(***************************************************************************)
(* What the order commands promise, about the order file, the snapshots    *)
(* the commands hold, and the broker's orders.                             *)
(***************************************************************************)
EXTENDS OrderControl

Snapshots == {cmd[p].work : p \in Procs}

\* Every book a command has loaded or is about to write, and the file.
AllBooks == {orders} \cup Snapshots

\* A record is linked to the broker order that was placed for it: an order id
\* never ends up with the broker id of another order, whichever order updates
\* are matched and applied in.
LinkIntegrity ==
  \A book \in AllBooks, o \in Orders :
    book[o].brokerId # NoBrokerId => broker[book[o].brokerId].client = o

\* The bot never believes it holds shares the broker has not filled: a linked
\* record counts at most the fills of its broker order, an unlinked one none.
NoPhantomFill ==
  \A book \in AllBooks, o \in Orders :
    book[o].filled <= IF book[o].brokerId = NoBrokerId THEN 0
                      ELSE broker[book[o].brokerId].filled

\* An order that is final here for the broker's sake is final there in the same
\* way, so giving back its capital and slot was right.  "replaced" is not in the
\* list: the file says so before the broker has settled the replacement.
AgreedFinal(r) ==
  CASE r.status = "filled"    -> broker[r.brokerId].status = "filled"
    [] r.status = "cancelled" -> broker[r.brokerId].status \in {"cancelled", "rejected"}
    [] r.status = "expired"   -> broker[r.brokerId].status = "expired"
    [] OTHER                  -> TRUE

FinalOrdersClosed ==
  \A book \in AllBooks, o \in Orders :
    /\ book[o].status \in {"filled", "cancelled", "expired"} => book[o].brokerId # NoBrokerId
    /\ AgreedFinal(book[o])

\* One symbol is never bought twice: no book has two active BUY orders of a
\* symbol, although every command replaces the whole book from its snapshot.
ActiveBuysUnique == \A book \in AllBooks : UniqueActiveBuys(book)

-----------------------------------------------------------------------------
(* With one command at a time                                              *)

NeverReplaced(b) ==
  /\ broker[b].replaces = NoBrokerId
  /\ \A other \in BrokerIds : broker[other].replaces # b

\* Capital is never promised twice: whatever the broker can still buy on a
\* submitted order is reserved in the file, slot included, even when the answer
\* to the submission was lost.  Two commands at once break this (a stale book
\* overwrites the link), and so does a replacement the broker refuses.
OpenOrdersReserved ==
  \A b \in BrokerIds :
    Open(b) /\ NeverReplaced(b) /\ broker[b].client \in BuyOrders =>
      LET r == orders[broker[b].client] IN
      /\ Active(r)
      /\ r.brokerId \in {b, NoBrokerId}
      /\ r.slot
      /\ r.reserved >= (broker[b].quantity - broker[b].filled) * UnitPrice

\* The order file, read as an order ledger.
LedgerView ==
  [o \in Orders |-> [phase |-> orders[o].status, filled |-> orders[o].filled]]

Ledger == INSTANCE OrderLifecycle WITH ledger <- LedgerView

\* The order file is an order ledger: orders only move along its arcs, however
\* updates are batched, repeated or late.
IsLedger == Ledger!LedgerSpec

\* The operator keeps syncing, started commands run on, day orders expire and
\* replacements get settled.
Fairness ==
  /\ \A p \in Procs : /\ WF_vars(Proceed(p))
                      /\ SF_vars("sync" \in Commands[p] /\ BeginSync(p, {}))
  /\ \A b \in BrokerIds :
       /\ WF_vars(Expire(b) /\ UNCHANGED <<orders, cmd>>)
       /\ WF_vars(Settle(b) /\ UNCHANGED <<orders, cmd>>)

FairSpec == Spec /\ Fairness

\* From some point on every step of a process is one its command takes anyway: a
\* save that has nothing to write looks like the death of the process.
FailuresStop ==
  <>[][\A p \in Procs : Begin(p) \/ Proceed(p) \/ UNCHANGED cmd[p]]_vars

ClosedAtBroker(o) == \E b \in BrokerIds : Closed(b) /\ broker[b].client = o

\* A reservation is not held for ever: once an order that the broker has closed
\* is active here, a sync that gets through finds it out and ends it, unless
\* crashes and failing reads never stop.
ClosedOrdersAreReleased ==
  FailuresStop =>
    \A o \in Orders :
      (ClosedAtBroker(o) /\ Active(orders[o])) ~> ~Active(orders[o])

-----------------------------------------------------------------------------
(* What the code says of itself and does not keep                          *)

\* "Reconcile normalized broker truth into local pending-order state": an order
\* that ended here has the fills the broker reports.
FinalFillsReconciled ==
  \A o \in Orders :
    orders[o].status \in {"filled", "cancelled", "expired"} =>
      orders[o].filled = broker[orders[o].brokerId].filled

\* "Apply broker order updates to local pending-order state": every update that
\* is matched to a local order can be applied to it.
UpdatesApply ==
  \A p \in Procs : \A u \in cmd[p].inbox :
    LET o == Matching(cmd[p].work, u) IN
    Computing(p) /\ o # NoOrder => CanApply(cmd[p].work, o, u)
=============================================================================
