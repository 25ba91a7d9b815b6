--------------------------- MODULE OrderInvariant ---------------------------
(***************************************************************************)
(* The inductive invariant behind the order commands' safety, with the     *)
(* broker's orders as a parameter: brk is broker before a step and broker' *)
(* after it.                                                               *)
(*                                                                         *)
(* Nothing in it compares a snapshot with the file: a command's book may   *)
(* be arbitrarily stale.  What makes stale books harmless is that all they *)
(* say of the broker stays true, because the broker's side only grows.     *)
(***************************************************************************)
EXTENDS OrderProperties

\* Each client order id is used once, filled orders are filled to the last
\* share, and a waiting replacement carries fills the replaced order had.
GoodBroker(brk) ==
  /\ \A b \in BrokerIds : brk[b].client = NoOrder <=> brk[b] = NotPlaced
  /\ \A b \in BrokerIds : brk[b].status = "none" => brk[b].client = NoOrder
  /\ \A a, b \in BrokerIds :
       brk[a].client = brk[b].client /\ brk[a].client # NoOrder => a = b
  /\ \A b \in BrokerIds : brk[b].status = "filled" => brk[b].filled = brk[b].quantity
  /\ \A b \in BrokerIds :
       brk[b].status = "accepted" /\ brk[b].replaces # NoBrokerId
         => brk[b].filled <= brk[brk[b].replaces].filled

\* All a record says of its broker order is, or was, so.
GoodRecord(o, r, brk) ==
  /\ r.brokerId # NoBrokerId =>
       /\ brk[r.brokerId].client = o
       /\ r.filled <= brk[r.brokerId].filled
       /\ r.status = "filled" => brk[r.brokerId].status = "filled"
       /\ r.status = "cancelled" => brk[r.brokerId].status \in {"cancelled", "rejected"}
       /\ r.status = "expired" => brk[r.brokerId].status = "expired"
  /\ r.brokerId = NoBrokerId =>
       r.filled = 0 /\ r.status \notin {"filled", "cancelled", "expired"}

GoodBook(book, brk) ==
  /\ \A o \in Orders : GoodRecord(o, book[o], brk)
  /\ UniqueActiveBuys(book)

\* An update is what the broker's order was like when it was read.
GoodUpdate(u, brk) ==
  /\ brk[u.id].client = u.client
  /\ brk[u.id].quantity = u.quantity
  /\ u.filled <= brk[u.id].filled
  /\ u.status \in BrokerClosedStatuses => brk[u.id].status = u.status

GoodCommand(c, brk) ==
  /\ GoodBook(c.work, brk)
  /\ \A u \in c.inbox : GoodUpdate(u, brk)
  /\ c.pc \in {"placing", "cancelling", "fetching", "replacing"} => c.order \in Orders
  /\ c.pc \in {"cancelling", "fetching", "replacing"} =>
       c.work[c.order].brokerId # NoBrokerId
  /\ c.pc = "replacing" =>
       c.quantity \in Quantities /\ Replacement[<<c.order, c.quantity>>] # NoOrder

IInv ==
  /\ TypeOK
  /\ GoodBroker(broker)
  /\ GoodBook(orders, broker)
  /\ \A p \in Procs : GoodCommand(cmd[p], broker)

-----------------------------------------------------------------------------
\* How the broker's orders may change under the feet of a command.
GrowsAt(b, old, new) ==
  /\ old[b].client # NoOrder => /\ new[b].client = old[b].client
                                /\ new[b].quantity = old[b].quantity
  /\ new[b].filled >= old[b].filled
  /\ old[b].status \in BrokerClosedStatuses => new[b].status = old[b].status

Grows(old, new) == \A b \in BrokerIds : GrowsAt(b, old, new)
=============================================================================
