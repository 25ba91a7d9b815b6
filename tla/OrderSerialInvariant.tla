------------------------ MODULE OrderSerialInvariant ------------------------
(***************************************************************************)
(* What holds beside OrderInvariant while one command runs at a time: the  *)
(* book a command holds is the file's, moved along the arcs of the order   *)
(* lifecycle, and both books cover what the broker may still buy.          *)
(***************************************************************************)
EXTENDS OrderInvariant

OneAtATime == \A p, q \in Procs : p = q

\* A BUY order the broker can still fill, and no part of a replacement.
Live(b, brk) ==
  /\ brk[b].status \in BrokerOpenStatuses
  /\ brk[b].client \in BuyOrders
  /\ brk[b].replaces = NoBrokerId
  /\ \A other \in BrokerIds : brk[other].replaces # b

\* The record has a slot and the price of every share that is left.
FullyReserved(r) == r.slot /\ r.reserved >= Remaining(r) * UnitPrice

\* The record of a live order is active, and about the same number of shares.
Covers(book, b, brk) ==
  LET r == book[brk[b].client] IN
  /\ Active(r)
  /\ r.brokerId \in {b, NoBrokerId}
  /\ r.requested = brk[b].quantity
  /\ FullyReserved(r)

Unplaced(o, brk) == \A b \in BrokerIds : brk[b].client # o

\* An order that is not at the broker yet is ready to be submitted; one that is
\* there no more may have any reservation, for it cannot be submitted again.
CoveredBook(book, brk) ==
  /\ \A o \in Orders : book[o] = Absent \/ (Valid(book[o]) /\ book[o].status # "absent")
  /\ \A b \in BrokerIds : Live(b, brk) => Covers(book, b, brk)
  /\ \A o \in BuyOrders : Unplaced(o, brk) /\ Active(book[o]) => FullyReserved(book[o])

-----------------------------------------------------------------------------
\* The arcs of OrderLifecycle, for the records of an order in two books.
Same(old, new) == new.status = old.status /\ new.filled = old.filled

StagedAgain(old, new) ==
  /\ old.status \notin ActiveStatuses
  /\ new.status = "pending" /\ new.filled = 0

Fills(old, new) ==
  /\ old.status \in ActiveStatuses
  /\ new.status = "partially_filled"
  /\ new.filled > 0 /\ new.filled >= old.filled

Finishes(old, new) ==
  /\ old.status \in ActiveStatuses
  /\ new.status \in FinalStatuses
  /\ new.filled >= old.filled
  /\ new.status # "filled" => new.filled = old.filled

TakesOver(o, old, new) ==
  /\ old[o].status = "absent"
  /\ new[o].status = "pending"
  /\ \E e \in Orders : /\ old[e].status \in ActiveStatuses
                       /\ new[e].status = "replaced"
                       /\ new[o].filled = old[e].filled

Moves(o, old, new) ==
  \/ Same(old[o], new[o])
  \/ StagedAgain(old[o], new[o])
  \/ Fills(old[o], new[o])
  \/ Finishes(old[o], new[o])
  \/ TakesOver(o, old, new)

-----------------------------------------------------------------------------
\* No active BUY order of a symbol that is still to be staged, but those that
\* the batch has staged itself.
NothingInTheWay(book, todo) ==
  \A o \in todo, other \in Orders :
    ReservesCapacity(book, other) /\ SymbolOf[other] = SymbolOf[o]
      => other \in StagedOrders \ todo

\* What staging has changed so far.
StagedSoFar(c) ==
  /\ \A o \in c.todo : c.work[o] = c.snap[o]
  /\ \A o \in Orders \ StagedOrders :
       c.work[o] = c.snap[o] \/ c.work[o].status = "replaced"

\* Each order has one update at most, which is yet to be applied.
InboxFresh(c) ==
  /\ \A u, v \in c.inbox : u.client = v.client => u = v
  /\ \A u \in c.inbox : c.work[u.client] = c.snap[u.client]

SerialCommand(c, file, brk) ==
  /\ c.pc \notin {"idle", "assessed"} =>
       /\ c.snap = file
       /\ CoveredBook(c.work, brk)
       /\ \A o \in Orders : Moves(o, file, c.work)
       /\ InboxFresh(c)
  /\ c.pc \in {"placing", "cancelling", "fetching", "replacing", "scanning"} =>
       c.work = c.snap /\ c.inbox = {}
  /\ c.pc = "reading" /\ c.todo # {} => c.work = c.snap
  /\ c.pc = "placing" => Active(c.work[c.order])
  /\ c.pc \in {"assessed", "staging"} => c.todo \subseteq StagedOrders /\ c.inbox = {}
  /\ c.pc = "assessed" => NothingInTheWay(file, c.todo)
  /\ c.pc = "staging" => NothingInTheWay(c.work, c.todo) /\ StagedSoFar(c)

SerialInv ==
  /\ CoveredBook(orders, broker)
  /\ \A p \in Procs : SerialCommand(cmd[p], orders, broker)
=============================================================================
