------------------------- MODULE OrderControlProofs -------------------------
(***************************************************************************)
(* The order commands keep the invariant IInv, for any number of processes *)
(* running any commands over any orders, and with it the safety properties *)
(* the model checker verifies on small instances.                          *)
(*                                                                         *)
(* First, lemmas about the operators on order records and books: what they *)
(* return is a record or a book again.  They hold for every set of orders, *)
(* every quantity and every price.                                         *)
(*                                                                         *)
(* The broker's orders only grow: every step of the broker, and every      *)
(* request it grants, keeps client ids, quantities and final statuses, and *)
(* never takes a fill back.                                                *)
(*                                                                         *)
(* What a book says of the broker stays true: the broker's growth does not *)
(* falsify it, and neither does anything a command does to the book.       *)
(* brk is the broker at some moment, brk2 the broker later.                *)
(*                                                                         *)
(* Every command step only replaces the command of one process, so each    *)
(* action's lemma shows that the new command is a good one (BecomeKeeps).  *)
(***************************************************************************)
EXTENDS OrderInvariant, TLAPS
-----------------------------------------------------------------------------
(* Records and books                                                       *)

\* The shares an order still has to fill are counted from zero.
LEMMA RemainingType ==
  ASSUME NEW r \in PendingOrderRecord
  PROVE  Remaining(r) \in Nat
BY DEF Remaining, PendingOrderRecord

\* Splitting a reservation over the shares left gives a whole price per share.
LEMMA QuotientType ==
  ASSUME NEW m \in Nat, NEW n \in Nat, n > 0
  PROVE  m \div n \in Nat
OBVIOUS

\* Shares times a price is an amount.
LEMMA ProductType ==
  ASSUME NEW m \in Nat, NEW n \in Nat
  PROVE  m * n \in Nat
OBVIOUS

\* The price a partial fill releases capital at is never negative, and never
\* divides by zero.
LEMMA ReservationPriceType ==
  ASSUME NEW r \in PendingOrderRecord
  PROVE  ReservationPrice(r) \in Nat
<1>1. Remaining(r) \in Nat /\ r.reserved \in Nat
  BY RemainingType DEF PendingOrderRecord
<1> QED
  BY <1>1, QuotientType, UnitPriceAssumption DEF ReservationPrice

\* An id without an entry reads as a record of its own kind.
LEMMA AbsentType == Absent \in PendingOrderRecord
BY DEF Absent, PendingOrderRecord

\* A staged order starts as a record of the book, whatever its quantity.
LEMMA NewRecordType ==
  ASSUME NEW o \in Orders, NEW q \in Nat
  PROVE  NewRecord(o, q) \in PendingOrderRecord
<1>1. q * UnitPrice \in Nat
  BY ProductType, UnitPriceAssumption
<1> QED
  BY <1>1 DEF NewRecord, PendingOrderRecord, ActiveStatuses

\* Writing one record changes that entry of the book and no other.
LEMMA UpsertType ==
  ASSUME NEW book \in Books, NEW o \in Orders, NEW r \in PendingOrderRecord
  PROVE  /\ Upsert(book, o, r) \in Books
         /\ Upsert(book, o, r)[o] = r
         /\ \A other \in Orders \ {o} : Upsert(book, o, r)[other] = book[other]
BY DEF Upsert, Books

\* Releasing an order's reservation keeps its fills and its broker id.
LEMMA ReleasedType ==
  ASSUME NEW r \in PendingOrderRecord, NEW s \in FinalStatuses
  PROVE  /\ Released(r, s) \in PendingOrderRecord
         /\ Released(r, s).status = s
         /\ Released(r, s).filled = r.filled
         /\ Released(r, s).brokerId = r.brokerId
BY DEF Released, PendingOrderRecord

\* Ending an order keeps its broker id and its fills, except that a filled order
\* counts as filled to its requested quantity.
LEMMA FinalizedType ==
  ASSUME NEW r \in PendingOrderRecord, NEW s \in FinalStatuses
  PROVE  /\ Finalized(r, s) \in PendingOrderRecord
         /\ Finalized(r, s).status = s
         /\ Finalized(r, s).brokerId = r.brokerId
         /\ Finalized(r, s).filled \in {r.filled, r.requested}
         /\ s # "filled" => Finalized(r, s).filled = r.filled
<1>1. CASE r.status = s
  BY <1>1 DEF Finalized
<1>2. CASE r.status # s /\ s = "filled"
  BY <1>2, ReleasedType DEF Finalized, Released, PendingOrderRecord
<1>3. CASE r.status # s /\ s # "filled"
  BY <1>3, ReleasedType DEF Finalized
<1> QED
  BY <1>1, <1>2, <1>3

\* A partial fill leaves a record whose reservation is the unfilled rest's.
LEMMA FillProgressType ==
  ASSUME NEW o \in Orders, NEW r \in PendingOrderRecord, NEW q \in Nat,
         CanMarkPartiallyFilled(r, q)
  PROVE  /\ WithFillProgress(o, r, q) \in PendingOrderRecord
         /\ WithFillProgress(o, r, q).status = "partially_filled"
         /\ WithFillProgress(o, r, q).filled = q
         /\ WithFillProgress(o, r, q).brokerId = r.brokerId
<1>1. r.requested - q \in Nat
  BY DEF CanMarkPartiallyFilled, PendingOrderRecord
<1>2. (r.requested - q) * ReservationPrice(r) \in Nat
  BY <1>1, ReservationPriceType, ProductType
<1> DEFINE rest == IF o \in BuyOrders THEN (r.requested - q) * ReservationPrice(r) ELSE 0
           slot == o \in BuyOrders
<1>3. rest \in Nat /\ slot \in BOOLEAN
  BY <1>2
<1>4. WithFillProgress(o, r, q) =
        [r EXCEPT !.status = "partially_filled", !.filled = q,
                  !.reserved = rest, !.slot = slot]
  BY DEF WithFillProgress
<1> HIDE DEF rest, slot
<1> QED
  BY <1>3, <1>4 DEF PendingOrderRecord, ActiveStatuses

\* Merging an update replaces the requested quantity and the broker's id and
\* status of a record, and neither its local status nor its fills.
LEMMA MergedType ==
  ASSUME NEW r \in PendingOrderRecord, NEW u \in BrokerOrderUpdate
  PROVE  /\ Merged(r, u) \in PendingOrderRecord
         /\ Merged(r, u).status = r.status
         /\ Merged(r, u).filled = r.filled
         /\ Merged(r, u).requested = u.quantity
         /\ Merged(r, u).brokerId = u.id
BY DEF Merged, PendingOrderRecord, BrokerOrderUpdate

\* The records an update u may leave of a record r.
Outcome(a, r, u) ==
  /\ a \in PendingOrderRecord
  /\ a.brokerId = u.id
  /\ \/ a.status = r.status /\ a.filled = r.filled
     \/ a.status = "partially_filled" /\ a.filled = u.filled
     \/ a.status = "replaced" /\ a.filled = r.filled
     \/ /\ u.status = "filled"
        /\ a.status = "filled"
        /\ a.filled \in {r.filled, u.quantity}
     \/ /\ u.status \in {"cancelled", "rejected"}
        /\ a.status = "cancelled"
        /\ a.filled = r.filled
     \/ u.status = "expired" /\ a.status = "expired" /\ a.filled = r.filled

\* What a record becomes when an update is applied to it, status by status.
LEMMA AppliedToRecordType ==
  ASSUME NEW o \in Orders, NEW r \in PendingOrderRecord,
         NEW u \in BrokerOrderUpdate, CanApplyToRecord(r, u)
  PROVE  Outcome(AppliedToRecord(o, r, u), r, u)
<1> DEFINE m == Merged(r, u)
<1>1. /\ m \in PendingOrderRecord
      /\ m.status = r.status
      /\ m.filled = r.filled
      /\ m.requested = u.quantity
      /\ m.brokerId = u.id
  BY MergedType
<1> HIDE DEF m
<1>2. u.status \in BrokerStatuses /\ u.filled \in Nat
  BY DEF BrokerOrderUpdate
<1>3. CASE u.status \in {"accepted", "pending_cancel", "pending_replace"}
  <2>1. AppliedToRecord(o, r, u) = m
    BY <1>3 DEF AppliedToRecord, m
  <2> QED
    BY <1>1, <2>1 DEF Outcome
<1>4. CASE u.status = "partially_filled"
  <2>1. CASE MovesBackward(m, u)
    <3>1. AppliedToRecord(o, r, u) = m
      BY <1>4, <2>1 DEF AppliedToRecord, m
    <3> QED
      BY <1>1, <3>1 DEF Outcome
  <2>2. CASE ~MovesBackward(m, u)
    <3>1. AppliedToRecord(o, r, u) = WithFillProgress(o, m, u.filled)
      BY <1>4, <2>2 DEF AppliedToRecord, m
    <3>2. CanMarkPartiallyFilled(m, u.filled)
      BY <1>4, <2>2 DEF CanApplyToRecord, m
    <3> QED
      BY <1>1, <1>2, <3>1, <3>2, FillProgressType DEF Outcome
  <2> QED
    BY <2>1, <2>2
<1>5. CASE u.status = "replaced"
  <2>1. AppliedToRecord(o, r, u) = Released(m, "replaced")
    BY <1>5 DEF AppliedToRecord, m
  <2> QED
    BY <1>1, <2>1, ReleasedType DEF FinalStatuses, Outcome
<1>6. CASE u.status \in {"filled", "cancelled", "rejected", "expired"}
  <2>1. AppliedToRecord(o, r, u) = Finalized(m, LocalFinal(u.status))
    BY <1>6 DEF AppliedToRecord, m
  <2>2. /\ u.status = "filled" => LocalFinal(u.status) = "filled"
        /\ u.status \in {"cancelled", "rejected"} => LocalFinal(u.status) = "cancelled"
        /\ u.status = "expired" => LocalFinal(u.status) = "expired"
    BY DEF LocalFinal
  <2>3. LocalFinal(u.status) \in FinalStatuses
    BY <1>6, <2>2 DEF FinalStatuses
  <2> QED
    BY <1>1, <1>6, <2>1, <2>2, <2>3, FinalizedType DEF Outcome
<1> QED
  BY <1>2, <1>3, <1>4, <1>5, <1>6
  DEF BrokerStatuses, BrokerOpenStatuses, BrokerClosedStatuses

\* The update's record: the linked one, or the one named by its client id.
LEMMA MatchingIsLinkedOrNamed ==
  ASSUME NEW book \in Books, NEW u \in BrokerOrderUpdate,
         Matching(book, u) # NoOrder
  PROVE  /\ Matching(book, u) \in Orders
         /\ book[Matching(book, u)].brokerId = u.id \/ Matching(book, u) = u.client
<1>1. u.client \in Orders
  BY DEF BrokerOrderUpdate
<1>2. CASE Linked(book, u) # {}
  BY <1>2 DEF Matching, Linked
<1>3. CASE Linked(book, u) = {}
  BY <1>1, <1>3 DEF Matching
<1> QED
  BY <1>2, <1>3

\* Recording a replacement takes the replaced order out of the active part and
\* touches no third order.
LEMMA ReplacedType ==
  ASSUME NEW book \in Books, NEW o \in Orders, NEW new \in Orders,
         NEW r \in PendingOrderRecord, CanReplace(book, o, new, r)
  PROVE  /\ Replaced(book, o, new, r) \in Books
         /\ Replaced(book, o, new, r)[new] = r
         /\ Replaced(book, o, new, r)[o] = Released(book[o], "replaced")
         /\ \A other \in Orders \ {o, new} :
              Replaced(book, o, new, r)[other] = book[other]
         /\ UniqueActiveBuys(Replaced(book, o, new, r))
<1> DEFINE after == AfterReplaced(book, o)
<1>1. Released(book[o], "replaced") \in PendingOrderRecord
  BY ReleasedType DEF Books, FinalStatuses
<1>2. /\ after \in Books
      /\ after[o] = Released(book[o], "replaced")
      /\ \A other \in Orders \ {o} : after[other] = book[other]
  BY <1>1, UpsertType DEF AfterReplaced
<1>3. UniqueActiveBuys(after)
  BY DEF CanReplace, CanUpsert, AfterReplaced
<1>4. UniqueActiveBuys(Upsert(after, new, r))
  <2>1. CASE CanUpsert(after, new, r)
    BY <2>1 DEF CanUpsert
  <2>2. CASE after[new] = r
    <3>1. Upsert(after, new, r) = after
      BY <2>2, <1>2 DEF Upsert, Books
    <3> QED
      BY <3>1, <1>3
  <2> QED
    BY <2>1, <2>2 DEF CanReplace, CanCreate
<1>5. new # o
  BY DEF CanReplace
<1> QED
  BY <1>2, <1>4, <1>5, UpsertType DEF Replaced

-----------------------------------------------------------------------------
(* The broker                                                              *)

\* What a step must do to the broker's orders.
BrokerKept ==
  BrokerTypeOK' /\ GoodBroker(broker') /\ Grows(broker, broker')

\* An order the broker is working on has a client, and is not final.
LEMMA WorkingIsPlaced ==
  ASSUME BrokerTypeOK, GoodBroker(broker), NEW b \in BrokerIds, Open(b)
  PROVE  /\ broker[b] # NotPlaced
         /\ broker[b].client \in Orders
         /\ broker[b].status \in BrokerOpenStatuses
         /\ broker[b].status \notin BrokerClosedStatuses
         /\ broker[b].filled \in Nat
         /\ broker[b].quantity \in Nat
<1>1. broker[b].status \in BrokerOpenStatuses
  BY DEF Open
<1>2. broker[b].status # "none" /\ broker[b].status \notin BrokerClosedStatuses
  BY <1>1 DEF BrokerOpenStatuses, BrokerClosedStatuses
<1>3. broker[b] # NotPlaced
  BY <1>2 DEF NotPlaced
<1>4. broker[b] \in BrokerOrder
  BY DEF BrokerTypeOK
<1>5. broker[b].client # NoOrder
  BY <1>3 DEF GoodBroker
<1> QED
  BY <1>1, <1>2, <1>3, <1>4, <1>5 DEF BrokerOrder

\* What has to be shown of a step: that it grows the orders, keeps client ids
\* apart, and leaves an accepted replacement with no more fills than it carries.
LEMMA GrowthKeeps ==
  ASSUME BrokerTypeOK, GoodBroker(broker),
         BrokerTypeOK',
         Grows(broker, broker'),
         \A a \in BrokerIds : broker'[a].client = NoOrder <=> broker'[a] = NotPlaced,
         \A a \in BrokerIds : broker'[a].status = "none" => broker'[a].client = NoOrder,
         \A a, c \in BrokerIds :
           broker'[a].client = broker'[c].client /\ broker'[a].client # NoOrder => a = c,
         \A a \in BrokerIds :
           broker'[a].status = "filled" => broker'[a].filled = broker'[a].quantity,
         \A a \in BrokerIds :
           broker'[a].status = "accepted" /\ broker'[a].replaces # NoBrokerId =>
             \/ broker'[a] = broker[a]
             \/ broker'[a].filled <= broker[broker'[a].replaces].filled
  PROVE  BrokerKept
<1>1. \A a \in BrokerIds :
        broker'[a].status = "accepted" /\ broker'[a].replaces # NoBrokerId
          => broker'[a].filled <= broker'[broker'[a].replaces].filled
  <2> SUFFICES ASSUME NEW a \in BrokerIds,
                      broker'[a].status = "accepted", broker'[a].replaces # NoBrokerId
               PROVE  broker'[a].filled <= broker'[broker'[a].replaces].filled
    OBVIOUS
  <2> DEFINE old == broker'[a].replaces
  <2>1. old \in BrokerIds /\ broker'[a].filled \in Nat
    BY DEF BrokerTypeOK, BrokerOrder
  <2>2. broker'[a].filled <= broker[old].filled
    BY DEF GoodBroker
  <2>3. broker[old].filled <= broker'[old].filled
    BY <2>1 DEF Grows, GrowsAt
  <2>4. broker[old].filled \in Nat /\ broker'[old].filled \in Nat
    BY <2>1 DEF BrokerTypeOK, BrokerOrder
  <2> QED
    BY <2>1, <2>2, <2>3, <2>4
<1> QED
  BY <1>1 DEF BrokerKept, GoodBroker

\* One more share of an open order is filled, the last one closing it.
LEMMA FillKeeps ==
  ASSUME BrokerTypeOK, GoodBroker(broker), NEW b \in BrokerIds, Fill(b)
  PROVE  BrokerKept
<1> DEFINE s == IF broker[b].filled + 1 = broker[b].quantity THEN "filled"
                ELSE IF broker[b].status = "accepted" THEN "partially_filled"
                     ELSE broker[b].status
<1>1. broker \in [BrokerIds -> BrokerOrder] /\ Open(b)
  BY DEF BrokerTypeOK, Fill, Working
<1>2. /\ broker[b].client \in Orders
      /\ broker[b].status \in BrokerOpenStatuses
      /\ broker[b].status \notin BrokerClosedStatuses
      /\ broker[b].filled \in Nat
  BY <1>1, WorkingIsPlaced
<1>3. broker' = [broker EXCEPT ![b].filled = broker[b].filled + 1, ![b].status = s]
  BY DEF Fill
<1>4. s \in BrokerStatuses /\ s \notin {"accepted", "none"}
  BY <1>2 DEF BrokerStatuses, BrokerOpenStatuses, BrokerClosedStatuses
<1>5. s = "filled" => broker[b].filled + 1 = broker[b].quantity
  BY <1>2 DEF BrokerOpenStatuses
<1> HIDE DEF s
<1>6. broker'[b] = [broker[b] EXCEPT !.filled = broker[b].filled + 1, !.status = s]
  BY <1>1, <1>3
<1>7. \A a \in BrokerIds \ {b} : broker'[a] = broker[a]
  BY <1>1, <1>3
<1>8. /\ broker'[b].client = broker[b].client
      /\ broker'[b].quantity = broker[b].quantity
      /\ broker'[b].filled = broker[b].filled + 1
      /\ broker'[b].status = s
      /\ broker'[b] \in BrokerOrder
  <2> DEFINE n == broker[b].filled + 1
  <2>1. broker[b] \in BrokerOrder /\ n \in Nat
    BY <1>1, <1>2
  <2>2. broker'[b] = [broker[b] EXCEPT !.filled = n, !.status = s]
    BY <1>6
  <2>3. n = broker[b].filled + 1
    OBVIOUS
  <2> HIDE DEF n
  <2> QED
    BY <2>1, <2>2, <2>3, <1>4 DEF BrokerOrder
<1>9. BrokerTypeOK'
  BY <1>1, <1>3, <1>7, <1>8 DEF BrokerTypeOK
<1>10. Grows(broker, broker')
  <2>1. GrowsAt(b, broker, broker')
    BY <1>2, <1>8 DEF GrowsAt
  <2>2. \A a \in BrokerIds \ {b} : GrowsAt(a, broker, broker')
    BY <1>1, <1>7 DEF GrowsAt, BrokerOrder
  <2> QED
    BY <2>1, <2>2 DEF Grows
<1>11. broker'[b].client # NoOrder /\ broker'[b] # NotPlaced
  BY <1>2, <1>8, NoOrderAssumption DEF NotPlaced
<1>12. \A a \in BrokerIds : broker'[a].client = NoOrder <=> broker'[a] = NotPlaced
  BY <1>7, <1>11 DEF GoodBroker
<1>13. \A a, c \in BrokerIds :
         broker'[a].client = broker'[c].client /\ broker'[a].client # NoOrder => a = c
  BY <1>7, <1>8 DEF GoodBroker
<1>14. \A a \in BrokerIds :
         broker'[a].status = "filled" => broker'[a].filled = broker'[a].quantity
  BY <1>5, <1>7, <1>8 DEF GoodBroker
<1>15. \A a \in BrokerIds :
         broker'[a].status = "accepted" => broker'[a] = broker[a]
  BY <1>4, <1>7, <1>8
<1>16. \A a \in BrokerIds : broker'[a].status = "none" => broker'[a].client = NoOrder
  BY <1>4, <1>7, <1>8 DEF GoodBroker
<1> QED
  BY <1>9, <1>10, <1>12, <1>13, <1>14, <1>15, <1>16, GrowthKeeps

\* An order's status moves on its own: a cancel that is asked for, a close.
LEMMA StatusKeeps ==
  ASSUME BrokerTypeOK, GoodBroker(broker), NEW b \in BrokerIds, Open(b),
         NEW s \in BrokerStatuses \ {"filled", "accepted"},
         broker' = [broker EXCEPT ![b].status = s]
  PROVE  BrokerKept
<1>1. broker \in [BrokerIds -> BrokerOrder]
  BY DEF BrokerTypeOK
<1>2. /\ broker[b].client \in Orders
      /\ broker[b].status \notin BrokerClosedStatuses
      /\ broker[b].filled \in Nat
  BY WorkingIsPlaced
<1>3. \A a \in BrokerIds \ {b} : broker'[a] = broker[a]
  BY <1>1
<1>4. /\ broker'[b].client = broker[b].client
      /\ broker'[b].quantity = broker[b].quantity
      /\ broker'[b].filled = broker[b].filled
      /\ broker'[b].status = s
      /\ broker'[b] \in BrokerOrder
  BY <1>1 DEF BrokerOrder
<1>5. BrokerTypeOK'
  BY <1>1, <1>3, <1>4 DEF BrokerTypeOK
<1>6. Grows(broker, broker')
  <2>1. GrowsAt(b, broker, broker')
    BY <1>2, <1>4 DEF GrowsAt
  <2>2. \A a \in BrokerIds \ {b} : GrowsAt(a, broker, broker')
    BY <1>1, <1>3 DEF GrowsAt, BrokerOrder
  <2> QED
    BY <2>1, <2>2 DEF Grows
<1>7. \A a \in BrokerIds : broker'[a].client = NoOrder <=> broker'[a] = NotPlaced
  BY <1>2, <1>3, <1>4, NoOrderAssumption DEF GoodBroker, NotPlaced
<1>8. \A a, c \in BrokerIds :
        broker'[a].client = broker'[c].client /\ broker'[a].client # NoOrder => a = c
  BY <1>3, <1>4 DEF GoodBroker
<1>9. \A a \in BrokerIds :
        broker'[a].status = "filled" => broker'[a].filled = broker'[a].quantity
  BY <1>3, <1>4 DEF GoodBroker
<1>10. \A a \in BrokerIds :
         broker'[a].status = "accepted" => broker'[a] = broker[a]
  BY <1>3, <1>4
<1>11. \A a \in BrokerIds : broker'[a].status = "none" => broker'[a].client = NoOrder
  <2>1. s # "none"
    BY DEF BrokerStatuses, BrokerOpenStatuses, BrokerClosedStatuses
  <2> QED
    BY <1>3, <1>4, <2>1 DEF GoodBroker
<1> QED
  BY <1>5, <1>6, <1>7, <1>8, <1>9, <1>10, <1>11, GrowthKeeps

\* An order the broker ends keeps its fills.
LEMMA CloseKeeps ==
  ASSUME BrokerTypeOK, GoodBroker(broker), NEW b \in BrokerIds,
         NEW s \in {"cancelled", "expired", "rejected"}, Close(b, s)
  PROVE  BrokerKept
<1>1. s \in BrokerStatuses \ {"filled", "accepted"}
  BY DEF BrokerStatuses, BrokerClosedStatuses
<1> QED
  BY <1>1, StatusKeeps DEF Close, Working

\* A cancel that the broker grants only marks the order.
LEMMA AcceptCancelKeeps ==
  ASSUME BrokerTypeOK, GoodBroker(broker), NEW b \in BrokerIds, AcceptCancel(b)
  PROVE  BrokerKept
<1>1. "pending_cancel" \in BrokerStatuses \ {"filled", "accepted"}
  BY DEF BrokerStatuses, BrokerOpenStatuses
<1> QED
  BY <1>1, StatusKeeps DEF AcceptCancel, Working

\* A client id enters the broker's books once.
LEMMA AcceptOrderKeeps ==
  ASSUME BrokerTypeOK, GoodBroker(broker), NEW b \in BrokerIds, NEW o \in Orders,
         NEW q \in Nat, AcceptOrder(b, o, q)
  PROVE  /\ BrokerKept
         /\ broker'[b] = [ client |-> o, status |-> "accepted", quantity |-> q,
                          filled |-> 0, replaces |-> NoBrokerId ]
<1> DEFINE rec == [ client |-> o, status |-> "accepted", quantity |-> q,
                    filled |-> 0, replaces |-> NoBrokerId ]
<1>1. broker \in [BrokerIds -> BrokerOrder]
  BY DEF BrokerTypeOK
<1>2. rec \in BrokerOrder
  BY DEF BrokerOrder, BrokerStatuses, BrokerOpenStatuses
<1>3. broker'[b] = rec /\ \A a \in BrokerIds \ {b} : broker'[a] = broker[a]
  BY <1>1 DEF AcceptOrder
<1>4. BrokerTypeOK'
  BY <1>1, <1>2 DEF AcceptOrder, BrokerTypeOK
<1>5. /\ broker[b].client = NoOrder
      /\ broker[b].filled = 0
      /\ broker[b].status = "none"
      /\ \A a \in BrokerIds : broker[a].client # o
  BY DEF AcceptOrder, Fresh, NotPlaced
<1>6. Grows(broker, broker')
  <2>1. GrowsAt(b, broker, broker')
    BY <1>3, <1>5 DEF GrowsAt, BrokerClosedStatuses
  <2>2. \A a \in BrokerIds \ {b} : GrowsAt(a, broker, broker')
    BY <1>1, <1>3 DEF GrowsAt, BrokerOrder
  <2> QED
    BY <2>1, <2>2 DEF Grows
<1>7. \A a \in BrokerIds : broker'[a].client = NoOrder <=> broker'[a] = NotPlaced
  BY <1>3, NoOrderAssumption DEF GoodBroker, NotPlaced
<1>8. \A a, c \in BrokerIds :
        broker'[a].client = broker'[c].client /\ broker'[a].client # NoOrder => a = c
  BY <1>3, <1>5 DEF GoodBroker
<1>9. \A a \in BrokerIds :
        broker'[a].status = "filled" => broker'[a].filled = broker'[a].quantity
  BY <1>3 DEF GoodBroker
<1>10. \A a \in BrokerIds :
         broker'[a].status = "accepted" /\ broker'[a].replaces # NoBrokerId
           => broker'[a] = broker[a]
  BY <1>3
<1>11. \A a \in BrokerIds : broker'[a].status = "none" => broker'[a].client = NoOrder
  BY <1>3 DEF GoodBroker
<1>12. BrokerKept
  BY <1>4, <1>6, <1>7, <1>8, <1>9, <1>10, <1>11, GrowthKeeps
<1> QED
  BY <1>3, <1>12

\* Two orders change in one step: both stay placed, neither loses a fill, and
\* an order that is waiting again carries no more fills than it did.
LEMMA PairKeeps ==
  ASSUME BrokerTypeOK, GoodBroker(broker),
         NEW b \in BrokerIds, NEW new \in BrokerIds,
         broker' \in [BrokerIds -> BrokerOrder],
         \A a \in BrokerIds \ {b, new} : broker'[a] = broker[a],
         GrowsAt(b, broker, broker'), GrowsAt(new, broker, broker'),
         broker'[b].client \in Orders, broker'[new].client \in Orders,
         broker'[b].client = broker[b].client,
         \A a \in BrokerIds \ {new} : broker[a].client # broker'[new].client,
         \A a \in {b, new} : broker'[a].status \notin {"filled", "none"},
         \A a \in {b, new} :
           broker'[a].status = "accepted" /\ broker'[a].replaces # NoBrokerId =>
             broker'[a].filled <= broker[broker'[a].replaces].filled
  PROVE  BrokerKept
<1>1. BrokerTypeOK'
  BY DEF BrokerTypeOK
<1>2. Grows(broker, broker')
  <2>1. \A a \in BrokerIds \ {b, new} : GrowsAt(a, broker, broker')
    BY DEF GrowsAt, BrokerOrder, BrokerTypeOK
  <2> QED
    BY <2>1 DEF Grows
<1>3. \A a \in {b, new} : broker'[a].client # NoOrder /\ broker'[a] # NotPlaced
  BY NoOrderAssumption DEF NotPlaced
<1>4. \A a \in BrokerIds : broker'[a].client = NoOrder <=> broker'[a] = NotPlaced
  BY <1>3 DEF GoodBroker
<1>5. \A a, c \in BrokerIds :
        broker'[a].client = broker'[c].client /\ broker'[a].client # NoOrder => a = c
  <2>1. \A a \in BrokerIds \ {new} : broker'[a].client = broker[a].client
    OBVIOUS
  <2> QED
    BY <2>1 DEF GoodBroker
<1>6. \A a \in BrokerIds :
        broker'[a].status = "filled" => broker'[a].filled = broker'[a].quantity
  BY DEF GoodBroker
<1>7. \A a \in BrokerIds :
        broker'[a].status = "accepted" /\ broker'[a].replaces # NoBrokerId =>
          \/ broker'[a] = broker[a]
          \/ broker'[a].filled <= broker[broker'[a].replaces].filled
  OBVIOUS
<1>8. \A a \in BrokerIds : broker'[a].status = "none" => broker'[a].client = NoOrder
  BY DEF GoodBroker
<1> QED
  BY <1>1, <1>2, <1>4, <1>5, <1>6, <1>7, <1>8, GrowthKeeps

\* A replacement enters the books with the fills of the order it replaces.
LEMMA AcceptReplaceKeeps ==
  ASSUME BrokerTypeOK, GoodBroker(broker), NEW b \in BrokerIds, NEW new \in BrokerIds,
         NEW o \in Orders, NEW q \in Nat, AcceptReplace(b, new, o, q)
  PROVE  /\ BrokerKept
         /\ broker'[new] = [ client |-> o, status |-> "accepted", quantity |-> q,
                            filled |-> broker[b].filled, replaces |-> b ]
<1> DEFINE rec == [ client |-> o, status |-> "accepted", quantity |-> q,
                    filled |-> broker[b].filled, replaces |-> b ]
<1>1. broker \in [BrokerIds -> BrokerOrder] /\ Open(b)
  BY DEF BrokerTypeOK, AcceptReplace, Working
<1>2. /\ broker[b] # NotPlaced
      /\ broker[b].client \in Orders
      /\ broker[b].status \notin BrokerClosedStatuses
      /\ broker[b].filled \in Nat
  BY <1>1, WorkingIsPlaced
<1>3. /\ broker[new].client = NoOrder
      /\ broker[new].filled = 0
      /\ broker[new].status = "none"
      /\ \A a \in BrokerIds : broker[a].client # o
      /\ new # b
  BY <1>2 DEF AcceptReplace, Fresh, NotPlaced
<1>4. rec \in BrokerOrder
  BY <1>2 DEF BrokerOrder, BrokerStatuses, BrokerOpenStatuses
<1>5. broker' = [broker EXCEPT ![b].status = "pending_replace", ![new] = rec]
  BY DEF AcceptReplace
<1> HIDE DEF rec
<1>6. /\ broker'[new] = rec
      /\ broker'[b] = [broker[b] EXCEPT !.status = "pending_replace"]
      /\ \A a \in BrokerIds \ {b, new} : broker'[a] = broker[a]
  BY <1>1, <1>3, <1>5
<1>7. /\ broker'[b].client = broker[b].client
      /\ broker'[b].quantity = broker[b].quantity
      /\ broker'[b].filled = broker[b].filled
      /\ broker'[b].status = "pending_replace"
      /\ broker'[b] \in BrokerOrder
  BY <1>1, <1>6 DEF BrokerOrder, BrokerStatuses, BrokerOpenStatuses
<1>8. broker' \in [BrokerIds -> BrokerOrder]
  <2>1. \A a \in BrokerIds : broker'[a] \in BrokerOrder
    BY <1>1, <1>4, <1>6, <1>7
  <2>2. broker' = [a \in BrokerIds |-> broker'[a]]
    BY <1>1, <1>5
  <2> QED
    BY <2>1, <2>2
<1>9. GrowsAt(b, broker, broker')
  BY <1>2, <1>7 DEF GrowsAt
<1>10. /\ rec.client = o
       /\ rec.status = "accepted"
       /\ rec.filled = broker[b].filled
       /\ rec.replaces = b
  BY DEF rec
<1>11. GrowsAt(new, broker, broker')
  BY <1>2, <1>3, <1>6, <1>10 DEF GrowsAt, BrokerClosedStatuses
<1>12. BrokerKept
  <2>1. /\ broker'[b].client \in Orders
        /\ broker'[new].client \in Orders
        /\ \A a \in BrokerIds \ {new} : broker[a].client # broker'[new].client
        /\ \A a \in {b, new} : broker'[a].status \notin {"filled", "none"}
    BY <1>2, <1>3, <1>6, <1>7, <1>10
  <2>2. \A a \in {b, new} :
          broker'[a].status = "accepted" /\ broker'[a].replaces # NoBrokerId =>
            broker'[a].filled <= broker[broker'[a].replaces].filled
    <3>1. broker'[b].status # "accepted"
      BY <1>7
    <3>2. broker'[new].replaces = b /\ broker'[new].filled = broker[b].filled
      BY <1>6, <1>10
    <3> QED
      BY <1>2, <3>1, <3>2
  <2>3. /\ \A a \in BrokerIds \ {b, new} : broker'[a] = broker[a]
        /\ broker'[b].client = broker[b].client
    BY <1>6, <1>7
  <2> QED
    BY <1>8, <1>9, <1>11, <2>1, <2>2, <2>3, PairKeeps
<1> QED
  BY <1>6, <1>12 DEF rec

\* What an unsettled replacement says of the order it waits for.
LEMMA UnsettledPair ==
  ASSUME BrokerTypeOK, GoodBroker(broker), NEW new \in BrokerIds, Unsettled(new)
  PROVE  LET old == broker[new].replaces IN
         /\ old \in BrokerIds /\ old # new
         /\ broker[old].client \in Orders /\ broker[new].client \in Orders
         /\ broker[old].status = "pending_replace" /\ broker[new].status = "accepted"
         /\ broker[old].filled \in Nat /\ broker[new].filled \in Nat
         /\ broker[old].quantity \in Nat /\ broker[new].quantity \in Nat
         /\ broker[new].filled <= broker[old].filled
<1> DEFINE old == broker[new].replaces
<1>1. /\ broker[new].status = "accepted"
      /\ old # NoBrokerId
      /\ broker[old].status = "pending_replace"
  BY DEF Unsettled
<1>2. old \in BrokerIds /\ old # new
  BY <1>1 DEF BrokerTypeOK, BrokerOrder
<1>3. Open(old) /\ Open(new)
  BY <1>1 DEF Open, BrokerOpenStatuses
<1>4. broker[new].filled <= broker[old].filled
  BY <1>1 DEF GoodBroker
<1> QED
  BY <1>1, <1>2, <1>3, <1>4, WorkingIsPlaced

\* A replacement that is settled takes over the fills of the replaced order.
LEMMA CommitReplaceKeeps ==
  ASSUME BrokerTypeOK, GoodBroker(broker), NEW new \in BrokerIds, CommitReplace(new)
  PROVE  BrokerKept
<1> DEFINE old == broker[new].replaces
           f   == broker[old].filled
           s   == IF broker[old].filled > 0 THEN "partially_filled" ELSE "accepted"
<1>1. broker \in [BrokerIds -> BrokerOrder] /\ Unsettled(new)
  BY DEF BrokerTypeOK, CommitReplace
<1>2. /\ old \in BrokerIds /\ old # new
      /\ broker[old].client \in Orders /\ broker[new].client \in Orders
      /\ broker[old].status = "pending_replace" /\ broker[new].status = "accepted"
      /\ f \in Nat /\ broker[new].filled \in Nat
      /\ broker[old].quantity \in Nat /\ broker[new].quantity \in Nat
      /\ broker[new].filled <= f
  BY <1>1, UnsettledPair
<1>3. broker' = [broker EXCEPT ![old].status = "replaced",
                               ![new].filled = f, ![new].status = s]
  BY DEF CommitReplace
<1>4. s \in BrokerStatuses /\ s \notin {"filled", "none"} /\ (s = "accepted" => f = 0)
  BY <1>2 DEF BrokerStatuses, BrokerOpenStatuses
<1>5. old \in BrokerIds /\ f \in Nat
  BY <1>2
<1> HIDE DEF f, s, old
<1>6. /\ broker'[old] = [broker[old] EXCEPT !.status = "replaced"]
      /\ broker'[new] = [broker[new] EXCEPT !.filled = f, !.status = s]
      /\ \A a \in BrokerIds \ {old, new} : broker'[a] = broker[a]
      /\ broker' = [a \in BrokerIds |-> broker'[a]]
  BY <1>1, <1>2, <1>3
<1>7. /\ broker'[old].client = broker[old].client
      /\ broker'[old].quantity = broker[old].quantity
      /\ broker'[old].filled = broker[old].filled
      /\ broker'[old].status = "replaced"
      /\ broker'[old] \in BrokerOrder
  BY <1>1, <1>5, <1>6 DEF BrokerOrder, BrokerStatuses, BrokerClosedStatuses
<1>8. /\ broker'[new].client = broker[new].client
      /\ broker'[new].quantity = broker[new].quantity
      /\ broker'[new].filled = f
      /\ broker'[new].status = s
      /\ broker'[new].replaces = broker[new].replaces
      /\ broker'[new] \in BrokerOrder
  BY <1>1, <1>4, <1>5, <1>6 DEF BrokerOrder
<1>9. broker' \in [BrokerIds -> BrokerOrder]
  BY <1>1, <1>6, <1>7, <1>8
<1>10. f = broker[old].filled
  BY DEF f
<1>11. GrowsAt(old, broker, broker') /\ GrowsAt(new, broker, broker')
  BY <1>2, <1>7, <1>8, <1>10 DEF GrowsAt, BrokerClosedStatuses
<1>12. \A a \in BrokerIds \ {new} : broker[a].client # broker'[new].client
  BY <1>2, <1>8, NoOrderAssumption DEF GoodBroker
<1>13. \A a \in {old, new} :
          broker'[a].status = "accepted" /\ broker'[a].replaces # NoBrokerId =>
            broker'[a].filled <= broker[broker'[a].replaces].filled
  BY <1>5, <1>7, <1>8, <1>10 DEF old
<1>14. \A a \in {old, new} : broker'[a].status \notin {"filled", "none"}
  BY <1>4, <1>7, <1>8
<1> QED
  BY <1>2, <1>6, <1>7, <1>8, <1>9, <1>11, <1>12, <1>13, <1>14, PairKeeps

\* A replacement that is refused leaves the old order trading.
LEMMA RefuseReplaceKeeps ==
  ASSUME BrokerTypeOK, GoodBroker(broker), NEW new \in BrokerIds, RefuseReplace(new)
  PROVE  BrokerKept
<1> DEFINE old == broker[new].replaces
           s   == IF broker[old].filled > 0 THEN "partially_filled" ELSE "accepted"
<1>1. broker \in [BrokerIds -> BrokerOrder] /\ Unsettled(new)
  BY DEF BrokerTypeOK, RefuseReplace
<1>2. /\ old \in BrokerIds /\ old # new
      /\ broker[old].client \in Orders /\ broker[new].client \in Orders
      /\ broker[old].status = "pending_replace" /\ broker[new].status = "accepted"
      /\ broker[old].filled \in Nat /\ broker[new].filled \in Nat
  BY <1>1, UnsettledPair
<1>3. broker' = [broker EXCEPT ![new].status = "rejected", ![old].status = s]
  BY DEF RefuseReplace
<1>4. s \in BrokerStatuses /\ s \notin {"filled", "none"} /\ (s = "accepted" => broker[old].filled = 0)
  BY <1>2 DEF BrokerStatuses, BrokerOpenStatuses
<1> HIDE DEF s, old
<1>6. /\ broker'[old] = [broker[old] EXCEPT !.status = s]
      /\ broker'[new] = [broker[new] EXCEPT !.status = "rejected"]
      /\ \A a \in BrokerIds \ {old, new} : broker'[a] = broker[a]
      /\ broker' = [a \in BrokerIds |-> broker'[a]]
  BY <1>1, <1>2, <1>3
<1>7. /\ broker'[old].client = broker[old].client
      /\ broker'[old].quantity = broker[old].quantity
      /\ broker'[old].filled = broker[old].filled
      /\ broker'[old].status = s
      /\ broker'[old].replaces = broker[old].replaces
      /\ broker'[old] \in BrokerOrder
  BY <1>1, <1>2, <1>4, <1>6 DEF BrokerOrder
<1>8. /\ broker'[new].client = broker[new].client
      /\ broker'[new].quantity = broker[new].quantity
      /\ broker'[new].filled = broker[new].filled
      /\ broker'[new].status = "rejected"
      /\ broker'[new] \in BrokerOrder
  BY <1>1, <1>6 DEF BrokerOrder, BrokerStatuses, BrokerClosedStatuses
<1>9. broker' \in [BrokerIds -> BrokerOrder]
  BY <1>1, <1>6, <1>7, <1>8
<1>11. GrowsAt(old, broker, broker') /\ GrowsAt(new, broker, broker')
  BY <1>2, <1>7, <1>8 DEF GrowsAt, BrokerClosedStatuses
<1>12. \A a \in BrokerIds \ {new} : broker[a].client # broker'[new].client
  BY <1>2, <1>8, NoOrderAssumption DEF GoodBroker
<1>13. \A a \in {old, new} :
          broker'[a].status = "accepted" /\ broker'[a].replaces # NoBrokerId =>
            broker'[a].filled <= broker[broker'[a].replaces].filled
  <2>1. \A a \in BrokerIds : a # NoBrokerId
    BY NoBrokerIdAssumption
  <2>2. broker'[old].replaces # NoBrokerId =>
          /\ broker[old].replaces \in BrokerIds
          /\ broker[broker[old].replaces].filled \in Nat
    BY <1>1, <1>2, <1>7 DEF BrokerOrder
  <2> QED
    BY <1>2, <1>4, <1>7, <1>8, <2>2
<1>14. \A a \in {old, new} : broker'[a].status \notin {"filled", "none"}
  BY <1>4, <1>7, <1>8
<1> QED
  BY <1>2, <1>6, <1>7, <1>8, <1>9, <1>11, <1>12, <1>13, <1>14, PairKeeps

\* Whatever the broker does on its own, it only adds to what it has said.
LEMMA BrokerStepKeeps ==
  ASSUME BrokerTypeOK, GoodBroker(broker), BrokerStep
  PROVE  BrokerKept
BY FillKeeps, CloseKeeps, CommitReplaceKeeps, RefuseReplaceKeeps DEF BrokerStep

-----------------------------------------------------------------------------
(* What books say of the broker                                            *)

\* A record a command read long ago is still right about the broker.
LEMMA RecordKept ==
  ASSUME NEW brk \in [BrokerIds -> BrokerOrder], NEW brk2 \in [BrokerIds -> BrokerOrder],
         Grows(brk, brk2),
         NEW o \in Orders, NEW r \in PendingOrderRecord, GoodRecord(o, r, brk)
  PROVE  GoodRecord(o, r, brk2)
<1>1. CASE r.brokerId = NoBrokerId
  BY <1>1 DEF GoodRecord
<1>2. CASE r.brokerId # NoBrokerId
  <2> DEFINE b == r.brokerId
  <2>1. b \in BrokerIds /\ r.filled \in Nat
    BY <1>2 DEF PendingOrderRecord
  <2>2. GrowsAt(b, brk, brk2) /\ brk[b].filled \in Nat /\ brk2[b].filled \in Nat
    BY <2>1 DEF Grows, BrokerOrder
  <2>3. brk[b].client = o /\ o # NoOrder
    BY <1>2, NoOrderAssumption DEF GoodRecord
  <2>4. brk2[b].client = o /\ r.filled <= brk2[b].filled
    BY <1>2, <2>1, <2>2, <2>3 DEF GoodRecord, GrowsAt
  <2>5. brk[b].status \in BrokerClosedStatuses => brk2[b].status = brk[b].status
    BY <2>2 DEF GrowsAt
  <2> QED
    BY <1>2, <2>4, <2>5 DEF GoodRecord, BrokerClosedStatuses
<1> QED
  BY <1>1, <1>2

\* So is a whole book.
LEMMA BookKept ==
  ASSUME NEW brk \in [BrokerIds -> BrokerOrder], NEW brk2 \in [BrokerIds -> BrokerOrder],
         Grows(brk, brk2), NEW book \in Books, GoodBook(book, brk)
  PROVE  GoodBook(book, brk2)
BY RecordKept DEF GoodBook, Books

\* An answer of the broker's may be late, but is never wrong about the past.
LEMMA UpdateKept ==
  ASSUME NEW brk \in [BrokerIds -> BrokerOrder], NEW brk2 \in [BrokerIds -> BrokerOrder],
         Grows(brk, brk2), NEW u \in BrokerOrderUpdate, GoodUpdate(u, brk)
  PROVE  GoodUpdate(u, brk2)
<1>1. u.id \in BrokerIds /\ u.client # NoOrder /\ u.filled \in Nat
  BY NoOrderAssumption DEF BrokerOrderUpdate
<1>2. /\ GrowsAt(u.id, brk, brk2)
      /\ brk[u.id].filled \in Nat
      /\ brk2[u.id].filled \in Nat
  BY <1>1 DEF Grows, BrokerOrder
<1> QED
  BY <1>1, <1>2 DEF GoodUpdate, GrowsAt

\* A running command's knowledge survives everything the broker does.
LEMMA CommandKept ==
  ASSUME NEW brk \in [BrokerIds -> BrokerOrder], NEW brk2 \in [BrokerIds -> BrokerOrder],
         Grows(brk, brk2), NEW c \in Command, GoodCommand(c, brk)
  PROVE  GoodCommand(c, brk2)
<1>1. c.work \in Books /\ c.inbox \subseteq BrokerOrderUpdate
  BY DEF Command
<1>2. GoodBook(c.work, brk2)
  BY <1>1, BookKept DEF GoodCommand
<1>3. \A u \in c.inbox : GoodUpdate(u, brk2)
  BY <1>1, UpdateKept DEF GoodCommand
<1> QED
  BY <1>2, <1>3 DEF GoodCommand

\* What the adapter reads of a placed order is a good update.
LEMMA ReadIsGood ==
  ASSUME NEW brk \in [BrokerIds -> BrokerOrder], GoodBroker(brk),
         NEW b \in BrokerIds, brk[b].client \in Orders
  PROVE  Update(b, brk[b]) \in BrokerOrderUpdate /\ GoodUpdate(Update(b, brk[b]), brk)
<1>1. brk[b].status # "none"
  BY NoOrderAssumption DEF GoodBroker
<1>2. /\ brk[b].status \in BrokerStatuses
      /\ brk[b].quantity \in Nat
      /\ brk[b].filled \in Nat
  BY <1>1 DEF BrokerOrder
<1> QED
  BY <1>2 DEF Update, BrokerOrderUpdate, GoodUpdate

-----------------------------------------------------------------------------
(* Books that commands make                                                *)

\* An empty book says nothing of the broker.
LEMMA NoBookGood ==
  ASSUME NEW brk
  PROVE  NoBook \in Books /\ GoodBook(NoBook, brk)
<1>1. NoBook \in Books
  BY AbsentType DEF NoBook, Books
<1>2. \A o \in Orders : NoBook[o] = Absent
  BY DEF NoBook
<1>3. \A o \in Orders : GoodRecord(o, NoBook[o], brk)
  <2>1. Absent.brokerId = NoBrokerId /\ Absent.filled = 0 /\ Absent.status = "absent"
    BY DEF Absent
  <2> QED
    BY <1>2, <2>1 DEF GoodRecord
<1>4. UniqueActiveBuys(NoBook)
  BY <1>2 DEF UniqueActiveBuys, ReservesCapacity, Active, ActiveStatuses, Absent
<1> QED
  BY <1>1, <1>3, <1>4 DEF GoodBook

\* A staged record claims no broker order and no fills.
LEMMA NewRecordGood ==
  ASSUME NEW brk, NEW o \in Orders, NEW q \in Nat
  PROVE  GoodRecord(o, NewRecord(o, q), brk)
BY DEF GoodRecord, NewRecord

\* Marking an order as replaced claims nothing new of the broker.
LEMMA ReleasedGood ==
  ASSUME NEW brk, NEW o \in Orders, NEW r \in PendingOrderRecord, GoodRecord(o, r, brk)
  PROVE  GoodRecord(o, Released(r, "replaced"), brk)
<1>1. /\ Released(r, "replaced").status = "replaced"
      /\ Released(r, "replaced").filled = r.filled
      /\ Released(r, "replaced").brokerId = r.brokerId
  BY ReleasedType DEF FinalStatuses
<1> QED
  BY <1>1 DEF GoodRecord

\* Writing a good record into a good book, when uniqueness was checked.
LEMMA UpsertGood ==
  ASSUME NEW brk, NEW book \in Books, GoodBook(book, brk),
         NEW o \in Orders, NEW r \in PendingOrderRecord, GoodRecord(o, r, brk),
         UniqueActiveBuys(Upsert(book, o, r))
  PROVE  Upsert(book, o, r) \in Books /\ GoodBook(Upsert(book, o, r), brk)
BY UpsertType DEF GoodBook

\* The same for a replacement, whose own record may come from a partly filled
\* order: only what holds of it matters.
LEMMA ReplacedGood ==
  ASSUME NEW brk, NEW book \in Books, GoodBook(book, brk),
         NEW o \in Orders, NEW new \in Orders, NEW r \in PendingOrderRecord,
         CanReplace(book, o, new, r)
  PROVE  \A other \in Orders \ {new} :
           GoodRecord(other, Replaced(book, o, new, r)[other], brk)
<1>1. /\ Replaced(book, o, new, r)[o] = Released(book[o], "replaced")
      /\ \A other \in Orders \ {o, new} :
           Replaced(book, o, new, r)[other] = book[other]
  BY ReplacedType
<1>2. GoodRecord(o, Released(book[o], "replaced"), brk)
  BY ReleasedGood DEF GoodBook, Books
<1> QED
  BY <1>1, <1>2 DEF GoodBook

\* Whatever staging an order makes of a good book is a good book.
LEMMA StagedGood ==
  ASSUME NEW brk, NEW book \in Books, GoodBook(book, brk),
         NEW o \in Orders, NEW q \in Nat, NEW next \in Staged(book, o, q)
  PROVE  next \in Books /\ GoodBook(next, brk)
<1> DEFINE r == NewRecord(o, q)
<1>1. r \in PendingOrderRecord /\ GoodRecord(o, r, brk)
  BY NewRecordType, NewRecordGood
<1> HIDE DEF r
<1>2. CASE next = Upsert(book, o, r) /\ CanUpsert(book, o, r)
  BY <1>1, <1>2, UpsertGood DEF CanUpsert
<1>3. CASE next = Upsert(book, o, r) /\ r = book[o]
  <2>1. Upsert(book, o, r) = book
    BY <1>3 DEF Upsert, Books
  <2> QED
    BY <1>3, <2>1
<1>4. CASE \E e \in Orders : next = Replaced(book, e, o, r) /\ CanReplace(book, e, o, r)
  <2>1. PICK e \in Orders : next = Replaced(book, e, o, r) /\ CanReplace(book, e, o, r)
    BY <1>4
  <2>2. /\ next \in Books
        /\ next[o] = r
        /\ UniqueActiveBuys(next)
    BY <1>1, <2>1, ReplacedType
  <2>3. \A other \in Orders \ {o} : GoodRecord(other, next[other], brk)
    BY <1>1, <2>1, ReplacedGood
  <2> QED
    BY <1>1, <2>2, <2>3 DEF GoodBook
<1>5. \/ next = Upsert(book, o, r) /\ (CanUpsert(book, o, r) \/ r = book[o])
      \/ \E e \in Orders : next = Replaced(book, e, o, r) /\ CanReplace(book, e, o, r)
  <2>1. CASE book[o] # Absent
    BY <2>1 DEF Staged, r
  <2>2. CASE book[o] = Absent /\ ActiveForDecision(book, o) # {}
    BY <2>2 DEF Staged, ActiveForDecision, r
  <2>3. CASE book[o] = Absent /\ ActiveForDecision(book, o) = {}
    BY <2>3 DEF Staged, CanCreate, r
  <2> QED
    BY <2>1, <2>2, <2>3
<1> QED
  BY <1>2, <1>3, <1>4, <1>5

-----------------------------------------------------------------------------
(* Updates                                                                 *)

\* An update of the order a record stands for leaves a good record, however old
\* the update and whatever the record's status.
LEMMA OutcomeGood ==
  ASSUME NEW brk \in [BrokerIds -> BrokerOrder], GoodBroker(brk),
         NEW o \in Orders, NEW r \in PendingOrderRecord,
         NEW u \in BrokerOrderUpdate, GoodUpdate(u, brk), brk[u.id].client = o,
         r.filled <= brk[u.id].filled,
         r.status \in {"filled", "cancelled", "expired"} => r.brokerId = u.id,
         r.brokerId # NoBrokerId => GoodRecord(o, r, brk),
         NEW a, Outcome(a, r, u)
  PROVE  GoodRecord(o, a, brk)
<1>1. /\ u.id \in BrokerIds
      /\ u.id # NoBrokerId
      /\ a.brokerId = u.id
      /\ u.filled \in Nat /\ u.quantity \in Nat /\ brk[u.id].filled \in Nat
  BY NoBrokerIdAssumption DEF Outcome, BrokerOrderUpdate, BrokerOrder
<1>2. a.filled <= brk[u.id].filled
  <2>1. u.filled <= brk[u.id].filled
    BY DEF GoodUpdate
  <2>2. u.status = "filled" => u.quantity <= brk[u.id].filled
    BY <1>1 DEF GoodUpdate, GoodBroker, BrokerClosedStatuses
  <2> QED
    BY <2>1, <2>2 DEF Outcome
<1>3. a.status = "filled" => brk[u.id].status = "filled"
  <2>1. CASE a.status = r.status
    BY <1>1, <2>1 DEF GoodRecord
  <2>2. CASE u.status = "filled"
    BY <2>2 DEF GoodUpdate, BrokerClosedStatuses
  <2> QED
    BY <2>1, <2>2 DEF Outcome
<1>4. a.status = "cancelled" => brk[u.id].status \in {"cancelled", "rejected"}
  <2>1. CASE a.status = r.status
    BY <1>1, <2>1 DEF GoodRecord
  <2>2. CASE u.status \in {"cancelled", "rejected"}
    BY <2>2 DEF GoodUpdate, BrokerClosedStatuses
  <2> QED
    BY <2>1, <2>2 DEF Outcome
<1>5. a.status = "expired" => brk[u.id].status = "expired"
  <2>1. CASE a.status = r.status
    BY <1>1, <2>1 DEF GoodRecord
  <2>2. CASE u.status = "expired"
    BY <2>2 DEF GoodUpdate, BrokerClosedStatuses
  <2> QED
    BY <2>1, <2>2 DEF Outcome
<1> QED
  BY <1>1, <1>2, <1>3, <1>4, <1>5 DEF GoodRecord

\* The local order an update is matched to is the one its broker order was
\* placed for, and it is linked to no other broker order.
LEMMA MatchingIsRight ==
  ASSUME NEW brk \in [BrokerIds -> BrokerOrder], GoodBroker(brk),
         NEW book \in Books, GoodBook(book, brk),
         NEW u \in BrokerOrderUpdate, GoodUpdate(u, brk), Matching(book, u) # NoOrder
  PROVE  /\ Matching(book, u) \in Orders
         /\ Matching(book, u) = u.client
         /\ brk[u.id].client = Matching(book, u)
         /\ book[Matching(book, u)].brokerId \in {u.id, NoBrokerId}
<1> DEFINE o == Matching(book, u)
<1>1. o \in Orders /\ (book[o].brokerId = u.id \/ o = u.client)
  BY MatchingIsLinkedOrNamed
<1> HIDE DEF o
<1>2. u.id \in BrokerIds /\ u.id # NoBrokerId /\ brk[u.id].client = u.client
  BY NoBrokerIdAssumption DEF GoodUpdate, BrokerOrderUpdate
<1>3. book[o].brokerId # NoBrokerId => brk[book[o].brokerId].client = o
  BY <1>1 DEF GoodBook, GoodRecord
<1>4. o = u.client
  BY <1>1, <1>2, <1>3
<1>5. book[o].brokerId \in BrokerIds \cup {NoBrokerId}
  BY <1>1 DEF Books, PendingOrderRecord
<1>6. book[o].brokerId \in {u.id, NoBrokerId}
  <2>1. o # NoOrder
    BY <1>1, NoOrderAssumption
  <2> QED
    BY <1>2, <1>3, <1>4, <1>5, <2>1 DEF GoodBroker
<1> QED
  BY <1>1, <1>2, <1>4, <1>6 DEF o

\* Applying an update to the order it is matched to leaves a good book.
LEMMA AppliedGood ==
  ASSUME NEW brk \in [BrokerIds -> BrokerOrder], GoodBroker(brk),
         NEW book \in Books, GoodBook(book, brk),
         NEW u \in BrokerOrderUpdate, GoodUpdate(u, brk), Matching(book, u) # NoOrder,
         CanApply(book, Matching(book, u), u)
  PROVE  /\ Applied(book, Matching(book, u), u) \in Books
         /\ GoodBook(Applied(book, Matching(book, u), u), brk)
<1> DEFINE o == Matching(book, u)
           r == book[o]
           a == AppliedToRecord(o, r, u)
<1>1. /\ o \in Orders
      /\ brk[u.id].client = o
      /\ r.brokerId \in {u.id, NoBrokerId}
      /\ CanApply(book, o, u)
  BY MatchingIsRight
<1> HIDE DEF o
<1>2. r \in PendingOrderRecord /\ GoodRecord(o, r, brk)
  BY <1>1 DEF Books, GoodBook
<1>3. Outcome(a, r, u)
  BY <1>1, <1>2, AppliedToRecordType DEF CanApply
<1>4. UniqueActiveBuys(Upsert(book, o, a))
  BY <1>1 DEF CanApply, CanUpsert
<1>5. r.filled <= brk[u.id].filled
  <2>1. brk[u.id].filled \in Nat
    BY DEF BrokerOrderUpdate, BrokerOrder
  <2> QED
    BY <1>1, <1>2, <2>1 DEF GoodRecord
<1>6. r.status \in {"filled", "cancelled", "expired"} => r.brokerId = u.id
  BY <1>1, <1>2 DEF GoodRecord
<1> HIDE DEF a, r
<1>7. GoodRecord(o, a, brk)
  BY <1>1, <1>2, <1>3, <1>5, <1>6, OutcomeGood
<1>8. a \in PendingOrderRecord
  BY <1>3 DEF Outcome
<1>9. Upsert(book, o, a) \in Books /\ GoodBook(Upsert(book, o, a), brk)
  BY <1>1, <1>4, <1>7, <1>8, UpsertGood
<1> QED
  BY <1>9 DEF Applied, a, r, o

-----------------------------------------------------------------------------
(* The commands                                                            *)

\* A step of a command: the broker only grows, the file stays good, and what
\* the process knows afterwards is right.  The other processes' knowledge
\* survives the growth.
LEMMA BecomeKeeps ==
  ASSUME IInv, NEW p \in Procs, NEW c \in Command, Become(p, c),
         BrokerKept, orders' \in Books, GoodBook(orders', broker'),
         GoodCommand(c, broker')
  PROVE  IInv'
<1>1. /\ broker \in [BrokerIds -> BrokerOrder] /\ broker' \in [BrokerIds -> BrokerOrder]
      /\ Grows(broker, broker')
  BY DEF IInv, TypeOK, BrokerTypeOK, BrokerKept
<1>2. cmd \in [Procs -> Command]
  BY DEF IInv, TypeOK
<1>3. cmd' = [cmd EXCEPT ![p] = c]
  BY DEF Become
<1>4. TypeOK'
  BY <1>2, <1>3 DEF TypeOK, BrokerKept
<1>5. \A other \in Procs : GoodCommand(cmd'[other], broker')
  <2> SUFFICES ASSUME NEW other \in Procs
               PROVE  GoodCommand(cmd'[other], broker')
    OBVIOUS
  <2>1. CASE other = p
    BY <1>2, <1>3, <2>1
  <2>2. CASE other # p
    <3>1. cmd'[other] = cmd[other]
      BY <1>2, <1>3, <2>2
    <3>2. cmd[other] \in Command /\ GoodCommand(cmd[other], broker)
      BY <1>2 DEF IInv
    <3> QED
      BY <1>1, <3>1, <3>2, CommandKept
  <2> QED
    BY <2>1, <2>2
<1> QED
  BY <1>4, <1>5 DEF IInv, BrokerKept

\* When neither the file nor the broker changes, only the new command matters.
LEMMA LocalStepKeeps ==
  ASSUME IInv, NEW p \in Procs, NEW c \in Command, Become(p, c),
         UNCHANGED <<orders, broker>>, GoodCommand(c, broker)
  PROVE  IInv'
<1>1. broker' = broker /\ orders' = orders
  OBVIOUS
<1>2. Grows(broker, broker')
  BY <1>1 DEF Grows, GrowsAt, IInv, TypeOK, BrokerTypeOK, BrokerOrder
<1>3. BrokerKept
  BY <1>1, <1>2 DEF BrokerKept, IInv, TypeOK, BrokerTypeOK
<1>4. orders' \in Books /\ GoodBook(orders', broker')
  BY <1>1 DEF IInv, TypeOK
<1>5. GoodCommand(c, broker')
  BY <1>1
<1> QED
  BY <1>3, <1>4, <1>5, BecomeKeeps

\* What is known of the process that takes a step.
LEMMA CommandFacts ==
  ASSUME IInv, NEW p \in Procs
  PROVE  /\ broker \in [BrokerIds -> BrokerOrder]
         /\ BrokerTypeOK
         /\ GoodBroker(broker)
         /\ orders \in Books
         /\ GoodBook(orders, broker)
         /\ cmd[p] \in Command
         /\ GoodCommand(cmd[p], broker)
         /\ cmd[p].work \in Books
         /\ cmd[p].snap \in Books
         /\ GoodBook(cmd[p].work, broker)
         /\ cmd[p].inbox \subseteq BrokerOrderUpdate
         /\ cmd[p].todo \subseteq Orders
         /\ cmd[p].quantity \in Nat
         /\ \A u \in cmd[p].inbox : GoodUpdate(u, broker)
<1>1. cmd[p] \in Command /\ GoodCommand(cmd[p], broker)
  BY DEF IInv, TypeOK
<1>2. /\ cmd[p].work \in Books
      /\ cmd[p].snap \in Books
      /\ cmd[p].inbox \subseteq BrokerOrderUpdate
      /\ cmd[p].todo \subseteq Orders
      /\ cmd[p].quantity \in Nat
  BY <1>1 DEF Command
<1>3. GoodBook(cmd[p].work, broker) /\ \A u \in cmd[p].inbox : GoodUpdate(u, broker)
  BY <1>1 DEF GoodCommand
<1> QED
  BY <1>1, <1>2, <1>3 DEF IInv, TypeOK, BrokerTypeOK

\* A process without a command knows nothing.
LEMMA IdleGood ==
  ASSUME NEW brk
  PROVE  Idle \in Command /\ GoodCommand(Idle, brk)
<1>1. NoBook \in Books /\ GoodBook(NoBook, brk)
  BY NoBookGood
<1>2. Idle \in Command
  BY <1>1 DEF Idle, Command
<1>3. Idle.pc = "idle" /\ Idle.work = NoBook /\ Idle.inbox = {}
  BY DEF Idle
<1> QED
  BY <1>1, <1>2, <1>3 DEF GoodCommand

\* A command that ends without writing leaves everything good.
LEMMA EndKeeps ==
  ASSUME IInv, NEW p \in Procs, Become(p, Idle), UNCHANGED <<orders, broker>>
  PROVE  IInv'
BY IdleGood, LocalStepKeeps

\* A command that starts with the file's book.
LEMMA LoadKeeps ==
  ASSUME IInv, NEW p \in Procs,
         NEW pc \in {"placing", "cancelling", "replacing", "scanning", "reading"},
         NEW o \in Orders \cup {NoOrder}, NEW q \in Nat, NEW S \in SUBSET Orders,
         pc \in {"placing", "cancelling", "replacing"} => o \in Orders,
         pc \in {"cancelling", "replacing"} => orders[o].brokerId # NoBrokerId,
         pc = "replacing" => q \in Quantities /\ Replacement[<<o, q>>] # NoOrder,
         Load(p, pc, o, q, S)
  PROVE  IInv'
<1> DEFINE c == [ pc |-> pc, order |-> o, quantity |-> q, snap |-> orders,
                  work |-> orders, todo |-> S, inbox |-> {} ]
<1>1. Become(p, c) /\ UNCHANGED <<orders, broker>>
  BY DEF Load
<1>2. orders \in Books /\ GoodBook(orders, broker)
  BY CommandFacts
<1>3. c \in Command
  BY <1>2 DEF Command
<1>4. GoodCommand(c, broker)
  BY <1>2 DEF GoodCommand
<1> HIDE DEF c
<1> QED
  BY <1>1, <1>3, <1>4, LocalStepKeeps

\* The commands that begin.
LEMMA BeginKeeps ==
  ASSUME IInv, NEW p \in Procs, Begin(p)
  PROVE  IInv'
<1>1. ASSUME NEW S \in SUBSET StagedOrders, NEW q \in Quantities, BeginStage(p, S, q)
      PROVE  IInv'
  <2> DEFINE c == [Idle EXCEPT !.pc = "assessed", !.todo = S, !.quantity = q]
  <2>1. Become(p, c) /\ UNCHANGED <<orders, broker>>
    BY <1>1 DEF BeginStage
  <2>2. S \subseteq Orders /\ q \in Nat
    BY StagedOrdersAssumption, MaxQtyAssumption DEF Quantities
  <2>3. /\ c.pc = "assessed" /\ c.work = NoBook /\ c.inbox = {}
        /\ c \in Command
    BY <2>2, IdleGood DEF Idle, Command
  <2>4. GoodCommand(c, broker)
    BY <2>3, NoBookGood DEF GoodCommand
  <2> QED
    BY <2>1, <2>3, <2>4, LocalStepKeeps
<1>2. ASSUME NEW o \in Orders, BeginSubmit(p, o)
      PROVE  IInv'
  BY <1>2, LoadKeeps DEF BeginSubmit
<1>3. ASSUME NEW o \in Orders, BeginCancel(p, o)
      PROVE  IInv'
  BY <1>3, LoadKeeps DEF BeginCancel
<1>4. ASSUME NEW o \in Orders, NEW q \in Quantities, BeginReplace(p, o, q)
      PROVE  IInv'
  <2>1. q \in Nat
    BY MaxQtyAssumption DEF Quantities
  <2>2. Load(p, "replacing", o, q, {}) /\ orders[o].brokerId # NoBrokerId
    BY <1>4 DEF BeginReplace
  <2>3. Replacement[<<o, q>>] # NoOrder
    BY <1>4 DEF BeginReplace
  <2> QED
    BY <2>1, <2>2, <2>3, LoadKeeps
<1>5. ASSUME NEW S \in SUBSET Orders, BeginSync(p, S)
      PROVE  IInv'
  <2> DEFINE selected == {o \in Orders : Active(orders[o]) /\ (S = {} \/ o \in S)}
             pc == IF S = {} THEN "scanning" ELSE "reading"
  <2>1. Load(p, pc, NoOrder, 0, selected)
    BY <1>5 DEF BeginSync
  <2>2. selected \subseteq Orders /\ pc \in {"scanning", "reading"}
    OBVIOUS
  <2> HIDE DEF selected, pc
  <2> QED
    BY <2>1, <2>2, LoadKeeps
<1> QED
  BY <1>1, <1>2, <1>3, <1>4, <1>5 DEF Begin
-----------------------------------------------------------------------------
(* Staging                                                                 *)

\* The batch's book is the file's, read again.
LEMMA StageLoadKeeps ==
  ASSUME IInv, NEW p \in Procs, StageLoad(p)
  PROVE  IInv'
<1> DEFINE c == [cmd[p] EXCEPT !.pc = "staging", !.snap = orders, !.work = orders]
<1>1. Become(p, c) /\ UNCHANGED <<orders, broker>>
  BY DEF StageLoad
<1>2. c \in Command /\ c.pc = "staging" /\ c.work = orders /\ c.inbox = cmd[p].inbox
  BY CommandFacts DEF Command
<1>3. GoodCommand(c, broker)
  BY <1>2, CommandFacts DEF GoodCommand
<1> HIDE DEF c
<1> QED
  BY <1>1, <1>2, <1>3, LocalStepKeeps

\* One order of the batch is staged.
LEMMA StageOrderKeeps ==
  ASSUME IInv, NEW p \in Procs, NEW o \in Orders, StageOrder(p, o)
  PROVE  IInv'
<1>1. PICK book \in Staged(cmd[p].work, o, cmd[p].quantity) :
        Become(p, [cmd[p] EXCEPT !.todo = @ \ {o}, !.work = book])
  BY DEF StageOrder
<1> DEFINE c == [cmd[p] EXCEPT !.todo = @ \ {o}, !.work = book]
<1>2. book \in Books /\ GoodBook(book, broker)
  BY <1>1, CommandFacts, StagedGood
<1>3. /\ c \in Command
      /\ c.pc = "staging"
      /\ c.work = book
      /\ c.inbox = cmd[p].inbox
  BY <1>2, CommandFacts DEF Command, StageOrder
<1>4. GoodCommand(c, broker)
  BY <1>2, <1>3, CommandFacts DEF GoodCommand
<1>5. UNCHANGED <<orders, broker>>
  BY DEF StageOrder
<1> QED
  BY <1>1, <1>3, <1>4, <1>5, LocalStepKeeps

-----------------------------------------------------------------------------
(* Requests to the broker                                                  *)

\* A command whose broker calls are over holds the book and the answers.
LEMMA ReconcileGood ==
  ASSUME NEW brk, NEW c \in Command, NEW work \in Books, GoodBook(work, brk),
         NEW updates \in SUBSET BrokerOrderUpdate,
         \A u \in updates : GoodUpdate(u, brk)
  PROVE  LET next == [Idle EXCEPT !.pc = "applying", !.snap = c.snap,
                                  !.work = work, !.inbox = updates]
         IN  next \in Command /\ GoodCommand(next, brk)
<1> DEFINE next == [Idle EXCEPT !.pc = "applying", !.snap = c.snap,
                                !.work = work, !.inbox = updates]
<1>1. next \in Command
  BY IdleGood DEF Command
<1>2. next.pc = "applying" /\ next.work = work /\ next.inbox = updates
  BY DEF Idle
<1>3. GoodCommand(next, brk)
  BY <1>2 DEF GoodCommand
<1> QED
  BY <1>1, <1>3

\* The order that is submitted is the one the broker's answer names.
LEMMA PlaceOrderKeeps ==
  ASSUME IInv, NEW p \in Procs, NEW b \in BrokerIds, PlaceOrder(p, b)
  PROVE  IInv'
<1> DEFINE o == cmd[p].order
           q == Remaining(cmd[p].work[o])
           u == Update(b, broker'[b])
           c == [Idle EXCEPT !.pc = "applying", !.snap = cmd[p].snap,
                             !.work = cmd[p].work, !.inbox = {u}]
<1>1. o \in Orders
  BY CommandFacts DEF PlaceOrder, GoodCommand
<1>2. q \in Nat
  BY <1>1, CommandFacts, RemainingType DEF Books
<1>3. AcceptOrder(b, o, q) /\ Become(p, c) /\ orders' = orders
  BY DEF PlaceOrder, Reconcile
<1> HIDE DEF o, q
<1>4. BrokerKept
  BY <1>1, <1>2, <1>3, CommandFacts, AcceptOrderKeeps
<1>5. broker'[b].client \in Orders
  <2>1. broker'[b] = [ client |-> o, status |-> "accepted", quantity |-> q,
                       filled |-> 0, replaces |-> NoBrokerId ]
    BY <1>1, <1>2, <1>3, CommandFacts, AcceptOrderKeeps
  <2> QED
    BY <1>1, <2>1
<1>6. /\ broker' \in [BrokerIds -> BrokerOrder]
      /\ GoodBroker(broker')
      /\ Grows(broker, broker')
  BY <1>4 DEF BrokerKept, BrokerTypeOK
<1>7. u \in BrokerOrderUpdate /\ GoodUpdate(u, broker')
  BY <1>5, <1>6, ReadIsGood
<1>8. GoodBook(orders', broker') /\ GoodBook(cmd[p].work, broker')
  BY <1>3, <1>6, CommandFacts, BookKept
<1> HIDE DEF u
<1>9. c \in Command /\ GoodCommand(c, broker')
  BY <1>7, <1>8, CommandFacts, ReconcileGood
<1>10. orders' \in Books
  BY <1>3, CommandFacts
<1> HIDE DEF c
<1> QED
  BY <1>3, <1>4, <1>8, <1>9, <1>10, BecomeKeeps

\* A cancel only marks the broker's order.
LEMMA SendCancelKeeps ==
  ASSUME IInv, NEW p \in Procs, SendCancel(p)
  PROVE  IInv'
<1> DEFINE o == cmd[p].order
           b == cmd[p].work[o].brokerId
           c == [cmd[p] EXCEPT !.pc = "fetching"]
<1>1. o \in Orders /\ b # NoBrokerId
  BY CommandFacts DEF SendCancel, GoodCommand
<1>2. b \in BrokerIds
  BY <1>1, CommandFacts DEF Books, PendingOrderRecord
<1>3. AcceptCancel(b) /\ Become(p, c) /\ orders' = orders
  BY DEF SendCancel
<1>4. BrokerKept
  BY <1>2, <1>3, CommandFacts, AcceptCancelKeeps
<1>5. /\ broker' \in [BrokerIds -> BrokerOrder]
      /\ Grows(broker, broker')
  BY <1>4 DEF BrokerKept, BrokerTypeOK
<1>6. orders' \in Books /\ GoodBook(orders', broker')
  BY <1>3, <1>5, CommandFacts, BookKept
<1>7. /\ c \in Command
      /\ c.pc = "fetching"
      /\ c.order = o
      /\ c.work = cmd[p].work
      /\ c.inbox = cmd[p].inbox
  BY CommandFacts DEF Command
<1>8. GoodCommand(c, broker)
  BY <1>1, <1>7, CommandFacts DEF GoodCommand
<1>9. GoodCommand(c, broker')
  BY <1>5, <1>7, <1>8, CommandFacts, CommandKept
<1> HIDE DEF c
<1> QED
  BY <1>3, <1>4, <1>6, <1>7, <1>9, BecomeKeeps

\* A cancelling command reads the order it is linked to.
LEMMA FetchKeeps ==
  ASSUME IInv, NEW p \in Procs, Fetch(p)
  PROVE  IInv'
<1> DEFINE o == cmd[p].order
           b == cmd[p].work[o].brokerId
           u == Update(b, broker[b])
           c == [Idle EXCEPT !.pc = "applying", !.snap = cmd[p].snap,
                             !.work = cmd[p].work, !.inbox = {u}]
<1>1. o \in Orders /\ b # NoBrokerId
  BY CommandFacts DEF Fetch, GoodCommand
<1>2. b \in BrokerIds /\ broker[b].client \in Orders
  BY <1>1, CommandFacts DEF Books, PendingOrderRecord, GoodBook, GoodRecord
<1>3. Become(p, c) /\ UNCHANGED <<orders, broker>>
  BY DEF Fetch, Reconcile
<1>4. u \in BrokerOrderUpdate /\ GoodUpdate(u, broker)
  BY <1>2, CommandFacts, ReadIsGood
<1> HIDE DEF u
<1>5. c \in Command /\ GoodCommand(c, broker)
  BY <1>4, CommandFacts, ReconcileGood
<1> HIDE DEF c
<1> QED
  BY <1>3, <1>5, LocalStepKeeps

\* Without an answer the order is marked as being cancelled, and no more.
LEMMA FetchFailsKeeps ==
  ASSUME IInv, NEW p \in Procs, FetchFails(p)
  PROVE  IInv'
<1> DEFINE o == cmd[p].order
           book == cmd[p].work
           r == [book[o] EXCEPT !.brokerStatus = "pending_cancel"]
           next == [book EXCEPT ![o].brokerStatus = "pending_cancel"]
           c == [Idle EXCEPT !.pc = "applying", !.snap = cmd[p].snap,
                             !.work = next, !.inbox = {}]
<1>1. o \in Orders /\ book \in Books /\ GoodBook(book, broker)
  BY CommandFacts DEF FetchFails, GoodCommand
<1>2. Become(p, c) /\ UNCHANGED <<orders, broker>>
  BY DEF FetchFails, Reconcile
<1> HIDE DEF o, book
<1>3. /\ book[o] \in PendingOrderRecord
      /\ r \in PendingOrderRecord
      /\ r.brokerId = book[o].brokerId /\ r.filled = book[o].filled
      /\ r.status = book[o].status /\ r.requested = book[o].requested
  BY <1>1 DEF Books, PendingOrderRecord, BrokerStatuses, BrokerOpenStatuses
<1>4. next[o] = r /\ \A other \in Orders \ {o} : next[other] = book[other]
  BY <1>1 DEF Books
<1>5. next \in Books
  BY <1>1, <1>3 DEF Books
<1> HIDE DEF r, next
<1>6. GoodRecord(o, r, broker)
  BY <1>1, <1>3 DEF GoodBook, GoodRecord
<1>7. UniqueActiveBuys(next)
  <2>1. \A other \in Orders : Active(next[other]) = Active(book[other])
    BY <1>3, <1>4 DEF Active, Remaining
  <2> QED
    BY <1>1, <2>1 DEF GoodBook, UniqueActiveBuys, ReservesCapacity
<1>8. GoodBook(next, broker)
  BY <1>1, <1>4, <1>6, <1>7 DEF GoodBook
<1>9. c \in Command /\ GoodCommand(c, broker)
  BY <1>5, <1>8, CommandFacts, ReconcileGood
<1> HIDE DEF c
<1> QED
  BY <1>2, <1>9, LocalStepKeeps

\* A replacing order is pending, with the fills of the order it replaces.
LEMMA ReplacementRecordType ==
  ASSUME NEW old \in PendingOrderRecord, NEW new \in Orders, NEW q \in Nat, q > old.filled
  PROVE  LET rec == ReplacementRecord(old, new, q) IN
         /\ rec \in PendingOrderRecord
         /\ rec.filled = old.filled
         /\ rec.status = "pending"
         /\ rec.brokerId = NoBrokerId
<1> DEFINE rest == IF new \in BuyOrders THEN (q - old.filled) * UnitPrice ELSE 0
           rec  == ReplacementRecord(old, new, q)
<1>1. old.filled \in Nat
  BY DEF PendingOrderRecord
<1>2. rest \in Nat
  <2>1. q - old.filled \in Nat
    BY <1>1
  <2> QED
    BY <2>1, ProductType, UnitPriceAssumption
<1>3. rec = [NewRecord(new, q) EXCEPT !.filled = old.filled, !.reserved = rest]
  BY DEF ReplacementRecord
<1> HIDE DEF rest, rec
<1>4. NewRecord(new, q) \in PendingOrderRecord
  BY NewRecordType
<1>5. NewRecord(new, q).status = "pending" /\ NewRecord(new, q).brokerId = NoBrokerId
  BY DEF NewRecord
<1> QED
  BY <1>1, <1>2, <1>3, <1>4, <1>5 DEF PendingOrderRecord, rec

\* A replacement that is recorded starts from the fills of the order it
\* replaces, which the broker's new order has too, and the broker's answer then
\* links it.
LEMMA ReplacementGood ==
  ASSUME NEW brk \in [BrokerIds -> BrokerOrder], GoodBroker(brk),
         NEW book \in Books, GoodBook(book, brk),
         NEW o \in Orders, NEW q \in Nat, NEW new \in Orders,
         q > book[o].filled,
         CanReplace(book, o, new, ReplacementRecord(book[o], new, q)),
         NEW u \in BrokerOrderUpdate, GoodUpdate(u, brk), u.client = new,
         book[o].filled <= brk[u.id].filled,
         CanApply(Replaced(book, o, new, ReplacementRecord(book[o], new, q)), new, u)
  PROVE  LET next == Replaced(book, o, new, ReplacementRecord(book[o], new, q)) IN
         Applied(next, new, u) \in Books /\ GoodBook(Applied(next, new, u), brk)
<1> DEFINE old  == book[o]
           rec  == ReplacementRecord(old, new, q)
           next == Replaced(book, o, new, rec)
           a    == AppliedToRecord(new, next[new], u)
<1>1. old \in PendingOrderRecord
  BY DEF Books
<1>4. /\ rec \in PendingOrderRecord
      /\ rec.filled = old.filled
      /\ rec.status = "pending"
      /\ rec.brokerId = NoBrokerId
  BY <1>1, ReplacementRecordType
<1>5. CanReplace(book, o, new, rec)
  OBVIOUS
<1> HIDE DEF rec
<1>6. /\ next \in Books
      /\ next[new] = rec
      /\ \A other \in Orders \ {new} : GoodRecord(other, next[other], brk)
  BY <1>4, <1>5, ReplacedType, ReplacedGood
<1>7. CanApply(next, new, u)
  BY DEF rec
<1> HIDE DEF next, old
<1>8. Outcome(a, next[new], u)
  <2>1. CanApplyToRecord(next[new], u)
    BY <1>7 DEF CanApply
  <2> QED
    BY <1>4, <1>6, <2>1, AppliedToRecordType
<1>9. UniqueActiveBuys(Upsert(next, new, a))
  BY <1>7 DEF CanApply, CanUpsert
<1> HIDE DEF a
<1>10. GoodRecord(new, a, brk)
  <2>1. rec.filled <= brk[u.id].filled
    BY <1>4 DEF old
  <2>2. brk[u.id].client = new
    BY DEF GoodUpdate
  <2>3. Outcome(a, rec, u)
    BY <1>6, <1>8
  <2> QED
    BY <1>4, <2>1, <2>2, <2>3, OutcomeGood
<1>11. a \in PendingOrderRecord
  BY <1>8 DEF Outcome
<1>12. Upsert(next, new, a) \in Books /\ GoodBook(Upsert(next, new, a), brk)
  BY <1>6, <1>9, <1>10, <1>11, UpsertType DEF GoodBook
<1> QED
  BY <1>12 DEF Applied, a, next, rec, old

\* The broker accepts a replacement, and it is recorded or the command raises.
LEMMA SendReplaceKeeps ==
  ASSUME IInv, NEW p \in Procs, NEW new \in BrokerIds, SendReplace(p, new)
  PROVE  IInv'
<1> DEFINE book == cmd[p].work
           o    == cmd[p].order
           q    == cmd[p].quantity
           b    == book[o].brokerId
           r    == Replacement[<<o, q>>]
           rec  == ReplacementRecord(book[o], r, q)
           next == Replaced(book, o, r, rec)
           u    == Update(new, broker'[new])
           done == Applied(next, r, u)
           c    == [Idle EXCEPT !.pc = "applying", !.snap = cmd[p].snap,
                                !.work = done, !.inbox = {}]
<1>1. /\ book \in Books /\ GoodBook(book, broker)
      /\ o \in Orders /\ q \in Quantities /\ q \in Nat
      /\ b # NoBrokerId /\ r # NoOrder
  BY CommandFacts DEF SendReplace, GoodCommand
<1>2. /\ AcceptReplace(b, new, r, q)
      /\ orders' = orders
      /\ \/ /\ q > book[o].filled
            /\ CanReplace(book, o, r, rec)
            /\ CanApply(next, r, u)
            /\ Become(p, c)
         \/ Become(p, Idle)
  BY DEF SendReplace, Reconcile
<1>3. r \in Orders
  <2>1. <<o, q>> \in Orders \X Quantities
    BY <1>1
  <2> QED
    BY <1>1, <2>1, ReplacementAssumption
<1>4. b \in BrokerIds
  BY <1>1 DEF Books, PendingOrderRecord
<1> HIDE DEF book, o, q, r
<1>5. /\ BrokerKept
      /\ broker'[new] = [ client |-> r, status |-> "accepted", quantity |-> q,
                         filled |-> broker[b].filled, replaces |-> b ]
  <2> HIDE DEF b
  <2> QED
    BY <1>1, <1>2, <1>3, <1>4, CommandFacts, AcceptReplaceKeeps
<1>6. /\ broker' \in [BrokerIds -> BrokerOrder]
      /\ GoodBroker(broker')
      /\ Grows(broker, broker')
  BY <1>5 DEF BrokerKept, BrokerTypeOK
<1>7. GoodBook(orders', broker') /\ orders' \in Books
  BY <1>2, <1>6, CommandFacts, BookKept
<1>8. CASE Become(p, Idle)
  BY <1>5, <1>7, <1>8, IdleGood, BecomeKeeps
<1>9. CASE /\ q > book[o].filled
           /\ CanReplace(book, o, r, rec)
           /\ CanApply(next, r, u)
           /\ Become(p, c)
  <2>1. /\ broker'[new].client = r
        /\ broker'[new].filled = broker[b].filled
    BY <1>5
  <2>2. u \in BrokerOrderUpdate /\ GoodUpdate(u, broker')
    BY <1>3, <1>6, <2>1, ReadIsGood
  <2>3. u.client = r /\ u.id = new
    BY <2>1 DEF Update
  <2>4. book[o].filled <= broker'[u.id].filled
    BY <1>1, <2>1, <2>3 DEF GoodBook, GoodRecord
  <2>5. GoodBook(book, broker')
    BY <1>1, <1>6, CommandFacts, BookKept
  <2> HIDE DEF u
  <2>6. done \in Books /\ GoodBook(done, broker')
    BY <1>1, <1>3, <1>6, <1>9, <2>2, <2>3, <2>4, <2>5, ReplacementGood
  <2> HIDE DEF done
  <2>7. c \in Command /\ GoodCommand(c, broker')
    BY <2>6, CommandFacts, ReconcileGood
  <2> HIDE DEF c
  <2> QED
    BY <1>5, <1>7, <1>9, <2>7, BecomeKeeps
<1> QED
  BY <1>2, <1>8, <1>9

-----------------------------------------------------------------------------
(* Reading the broker's orders, applying what was read, and writing        *)

\* The broker's open orders are listed.
LEMMA ScanKeeps ==
  ASSUME IInv, NEW p \in Procs, Scan(p)
  PROVE  IInv'
<1> DEFINE listed == {Update(b, broker[b]) : b \in {b \in BrokerIds : Open(b)}}
           seen(o) == \E u \in listed : u.id = cmd[p].work[o].brokerId \/ u.client = o
           rest == {o \in cmd[p].todo : ~seen(o)}
           c == [cmd[p] EXCEPT !.pc = "reading", !.inbox = listed, !.todo = rest]
<1>1. Become(p, c) /\ UNCHANGED <<orders, broker>>
  BY DEF Scan
<1>2. \A u \in listed : u \in BrokerOrderUpdate /\ GoodUpdate(u, broker)
  <2> SUFFICES ASSUME NEW b \in BrokerIds, Open(b)
               PROVE  /\ Update(b, broker[b]) \in BrokerOrderUpdate
                      /\ GoodUpdate(Update(b, broker[b]), broker)
    OBVIOUS
  <2>1. broker[b].client \in Orders
    BY CommandFacts, WorkingIsPlaced
  <2> QED
    BY <2>1, CommandFacts, ReadIsGood
<1>3. rest \subseteq Orders
  BY CommandFacts
<1> HIDE DEF listed, rest
<1>4. /\ c \in Command
      /\ c.pc = "reading"
      /\ c.work = cmd[p].work
      /\ c.inbox = listed
  BY <1>2, <1>3, CommandFacts DEF Command
<1>5. GoodCommand(c, broker)
  BY <1>2, <1>4, CommandFacts DEF GoodCommand
<1> HIDE DEF c
<1> QED
  BY <1>1, <1>4, <1>5, LocalStepKeeps

\* The listing fails, and the orders are read one by one.
LEMMA ScanFailsKeeps ==
  ASSUME IInv, NEW p \in Procs, ScanFails(p)
  PROVE  IInv'
<1> DEFINE c == [cmd[p] EXCEPT !.pc = "reading"]
<1>1. Become(p, c) /\ UNCHANGED <<orders, broker>>
  BY DEF ScanFails
<1>2. /\ c \in Command
      /\ c.pc = "reading"
      /\ c.work = cmd[p].work
      /\ c.inbox = cmd[p].inbox
  BY CommandFacts DEF Command
<1>3. GoodCommand(c, broker)
  BY <1>2, CommandFacts DEF GoodCommand
<1> HIDE DEF c
<1> QED
  BY <1>1, <1>2, <1>3, LocalStepKeeps

\* One order is read by its own id.
LEMMA ReadOrderKeeps ==
  ASSUME IInv, NEW p \in Procs, NEW o \in Orders, ReadOrder(p, o)
  PROVE  IInv'
<1>1. PICK b \in Found(p, o) :
        Become(p, [cmd[p] EXCEPT
          !.todo  = @ \ {o},
          !.inbox = {u \in @ : u.id # b} \cup {Update(b, broker[b])}])
  BY DEF ReadOrder
<1> DEFINE inbox == {u \in cmd[p].inbox : u.id # b} \cup {Update(b, broker[b])}
           c == [cmd[p] EXCEPT !.todo = cmd[p].todo \ {o}, !.inbox = inbox]
<1>2. b \in BrokerIds /\ broker[b].client = o
  <2>1. CASE cmd[p].work[o].brokerId # NoBrokerId
    <3>1. cmd[p].work[o].brokerId \in BrokerIds
      BY <2>1, CommandFacts DEF Books, PendingOrderRecord
    <3>2. broker[cmd[p].work[o].brokerId].client = o
      BY <2>1, CommandFacts DEF GoodBook, GoodRecord
    <3> QED
      BY <1>1, <2>1, <3>1, <3>2 DEF Found
  <2>2. CASE cmd[p].work[o].brokerId = NoBrokerId
    BY <1>1, <2>2 DEF Found
  <2> QED
    BY <2>1, <2>2
<1>3. Update(b, broker[b]) \in BrokerOrderUpdate /\ GoodUpdate(Update(b, broker[b]), broker)
  BY <1>2, CommandFacts, ReadIsGood
<1>4. \A u \in inbox : u \in BrokerOrderUpdate /\ GoodUpdate(u, broker)
  BY <1>3, CommandFacts
<1>5. Become(p, c)
  BY <1>1
<1>6. UNCHANGED <<orders, broker>> /\ cmd[p].pc = "reading"
  BY DEF ReadOrder
<1> HIDE DEF inbox
<1>7. /\ c \in Command
      /\ c.pc = "reading"
      /\ c.work = cmd[p].work
      /\ c.inbox = inbox
  BY <1>4, <1>6, CommandFacts DEF Command
<1>8. GoodCommand(c, broker)
  BY <1>4, <1>7, CommandFacts DEF GoodCommand
<1> HIDE DEF c
<1> QED
  BY <1>5, <1>6, <1>7, <1>8, LocalStepKeeps

\* An order the broker does not know, or cannot be asked about, is skipped.
LEMMA SkipOrderKeeps ==
  ASSUME IInv, NEW p \in Procs, NEW o \in Orders, SkipOrder(p, o)
  PROVE  IInv'
<1> DEFINE c == [cmd[p] EXCEPT !.todo = cmd[p].todo \ {o}]
<1>1. /\ Become(p, c)
      /\ UNCHANGED <<orders, broker>>
      /\ cmd[p].pc = "reading"
  BY DEF SkipOrder
<1>2. /\ c \in Command
      /\ c.pc = "reading"
      /\ c.work = cmd[p].work
      /\ c.inbox = cmd[p].inbox
  BY <1>1, CommandFacts DEF Command
<1>3. GoodCommand(c, broker)
  BY <1>2, CommandFacts DEF GoodCommand
<1> HIDE DEF c
<1> QED
  BY <1>1, <1>2, <1>3, LocalStepKeeps

\* One update of the batch is applied, or matches nothing.
LEMMA ApplyUpdateKeeps ==
  ASSUME IInv, NEW p \in Procs, NEW u \in cmd[p].inbox, ApplyUpdate(p, u)
  PROVE  IInv'
<1> DEFINE o == Matching(cmd[p].work, u)
           rest == cmd[p].inbox \ {u}
<1>1. /\ u \in BrokerOrderUpdate /\ GoodUpdate(u, broker)
      /\ UNCHANGED <<orders, broker>>
      /\ cmd[p].pc \in {"staging", "reading", "applying"}
  BY CommandFacts DEF ApplyUpdate, Computing
<1>2. rest \subseteq BrokerOrderUpdate /\ \A v \in rest : GoodUpdate(v, broker)
  BY CommandFacts
<1>3. CASE Become(p, [cmd[p] EXCEPT !.inbox = rest])
  <2> DEFINE c == [cmd[p] EXCEPT !.inbox = rest]
  <2> HIDE DEF rest
  <2>1. /\ c \in Command
        /\ c.pc = cmd[p].pc
        /\ c.work = cmd[p].work
        /\ c.inbox = rest
    BY <1>2, CommandFacts DEF Command
  <2>2. GoodCommand(c, broker)
    BY <1>1, <1>2, <2>1, CommandFacts DEF GoodCommand
  <2> HIDE DEF c
  <2> QED
    BY <1>1, <1>3, <2>1, <2>2, LocalStepKeeps DEF c
<1>4. CASE /\ o # NoOrder
           /\ CanApply(cmd[p].work, o, u)
           /\ Become(p, [cmd[p] EXCEPT !.inbox = rest, !.work = Applied(cmd[p].work, o, u)])
  <2> DEFINE done == Applied(cmd[p].work, o, u)
             c == [cmd[p] EXCEPT !.inbox = rest, !.work = done]
  <2>1. done \in Books /\ GoodBook(done, broker)
    BY <1>1, <1>4, CommandFacts, AppliedGood
  <2>2. Become(p, c)
    BY <1>4
  <2> HIDE DEF done, rest
  <2>3. /\ c \in Command
        /\ c.pc = cmd[p].pc
        /\ c.work = done
        /\ c.inbox = rest
    BY <1>2, <2>1, CommandFacts DEF Command
  <2>4. GoodCommand(c, broker)
    BY <1>1, <1>2, <2>1, <2>3, CommandFacts DEF GoodCommand
  <2> HIDE DEF c
  <2> QED
    BY <1>1, <2>2, <2>3, <2>4, LocalStepKeeps
<1> QED
  BY <1>3, <1>4 DEF ApplyUpdate

\* The whole book is written, over whatever the file holds by then.
LEMMA SaveKeeps ==
  ASSUME IInv, NEW p \in Procs, Save(p)
  PROVE  IInv'
<1>1. Become(p, Idle) /\ broker' = broker
  BY DEF Save
<1>2. Grows(broker, broker')
  BY <1>1, CommandFacts DEF Grows, GrowsAt, BrokerOrder
<1>3. BrokerKept
  BY <1>1, <1>2, CommandFacts DEF BrokerKept, BrokerTypeOK
<1>4. orders' \in {orders, cmd[p].work}
  BY DEF Save
<1>5. orders' \in Books /\ GoodBook(orders', broker')
  BY <1>1, <1>4, CommandFacts
<1> QED
  BY <1>1, <1>3, <1>5, IdleGood, BecomeKeeps

-----------------------------------------------------------------------------
(* The invariant                                                           *)

\* The broker acts on its own.
LEMMA BrokerStepPreserves ==
  ASSUME IInv, BrokerStep, UNCHANGED <<orders, cmd>>
  PROVE  IInv'
<1>1. BrokerTypeOK /\ GoodBroker(broker) /\ orders \in Books /\ GoodBook(orders, broker)
  BY DEF IInv, TypeOK
<1>2. BrokerKept
  BY <1>1, BrokerStepKeeps
<1>3. /\ broker \in [BrokerIds -> BrokerOrder] /\ broker' \in [BrokerIds -> BrokerOrder]
      /\ Grows(broker, broker')
  BY <1>1, <1>2 DEF BrokerKept, BrokerTypeOK
<1>4. GoodBook(orders, broker')
  BY <1>1, <1>3, BookKept
<1>5. \A p \in Procs : GoodCommand(cmd[p], broker')
  BY <1>3, CommandKept DEF IInv, TypeOK
<1> QED
  BY <1>2, <1>4, <1>5 DEF IInv, TypeOK, BrokerKept

\* Every step of the system keeps the invariant.
LEMMA NextKeeps ==
  ASSUME IInv, [Next]_vars
  PROVE  IInv'
<1>1. ASSUME NEW p \in Procs, Begin(p)
      PROVE  IInv'
  BY <1>1, BeginKeeps
<1>2. ASSUME NEW p \in Procs, Proceed(p)
      PROVE  IInv'
  <2>1. CASE StageLoad(p)
    BY <2>1, StageLoadKeeps
  <2>2. ASSUME NEW o \in Orders, StageOrder(p, o)
        PROVE  IInv'
    BY <2>2, StageOrderKeeps
  <2>3. ASSUME NEW o \in Orders, RaiseOnStage(p, o)
        PROVE  IInv'
    BY <2>3, EndKeeps DEF RaiseOnStage
  <2>4. ASSUME NEW o \in Orders, ReadOrder(p, o)
        PROVE  IInv'
    BY <2>4, ReadOrderKeeps
  <2>5. ASSUME NEW o \in Orders, UnknownOrder(p, o)
        PROVE  IInv'
    BY <2>5, SkipOrderKeeps DEF UnknownOrder
  <2>6. ASSUME NEW b \in BrokerIds, PlaceOrder(p, b)
        PROVE  IInv'
    BY <2>6, PlaceOrderKeeps
  <2>7. ASSUME NEW b \in BrokerIds, SendReplace(p, b)
        PROVE  IInv'
    BY <2>7, SendReplaceKeeps
  <2>8. CASE CallFails(p)
    BY <2>8, EndKeeps DEF CallFails
  <2>9. CASE SendCancel(p)
    BY <2>9, SendCancelKeeps
  <2>10. CASE Fetch(p)
    BY <2>10, FetchKeeps
  <2>11. CASE Scan(p)
    BY <2>11, ScanKeeps
  <2>12. ASSUME NEW u \in cmd[p].inbox, ApplyUpdate(p, u)
         PROVE  IInv'
    BY <2>12, ApplyUpdateKeeps
  <2>13. ASSUME NEW u \in cmd[p].inbox, RaiseOnUpdate(p, u)
         PROVE  IInv'
    BY <2>13, EndKeeps DEF RaiseOnUpdate
  <2>14. CASE Save(p)
    BY <2>14, SaveKeeps
  <2> QED
    BY <1>2, <2>1, <2>2, <2>3, <2>4, <2>5, <2>6, <2>7, <2>8, <2>9, <2>10,
       <2>11, <2>12, <2>13, <2>14
    DEF Proceed
<1>3. ASSUME NEW p \in Procs, Fails(p)
      PROVE  IInv'
  <2>1. CASE Abandon(p)
    BY <2>1, EndKeeps DEF Abandon
  <2>2. CASE FetchFails(p)
    BY <2>2, FetchFailsKeeps
  <2>3. CASE ScanFails(p)
    BY <2>3, ScanFailsKeeps
  <2>4. ASSUME NEW o \in Orders, ReadFails(p, o)
        PROVE  IInv'
    BY <2>4, SkipOrderKeeps DEF ReadFails
  <2> QED
    BY <1>3, <2>1, <2>2, <2>3, <2>4 DEF Fails
<1>4. CASE BrokerStep /\ UNCHANGED <<orders, cmd>>
  BY <1>4, BrokerStepPreserves
<1>5. CASE UNCHANGED vars
  BY <1>5 DEF vars, IInv, TypeOK, BrokerTypeOK
<1> QED
  BY <1>1, <1>2, <1>3, <1>4, <1>5 DEF Next

\* At the start nothing is placed and nothing is known.
LEMMA InitGood == Init => IInv
<1> SUFFICES ASSUME Init
             PROVE  IInv
  OBVIOUS
<1>1. \A b \in BrokerIds : broker[b] = NotPlaced
  BY DEF Init, BrokerInit
<1>2. BrokerTypeOK
  BY DEF Init, BrokerInit, BrokerTypeOK, BrokerOrder, NotPlaced
<1>3. /\ NotPlaced.client = NoOrder /\ NotPlaced.status = "none"
      /\ NotPlaced.replaces = NoBrokerId
  BY DEF NotPlaced
<1>4. GoodBroker(broker)
  BY <1>1, <1>3 DEF GoodBroker
<1>5. orders \in Books /\ GoodBook(orders, broker)
  BY NoBookGood DEF Init
<1>6. \A p \in Procs : cmd[p] \in Command /\ GoodCommand(cmd[p], broker)
  BY IdleGood DEF Init
<1>7. cmd \in [Procs -> Command]
  BY <1>6 DEF Init
<1> QED
  BY <1>2, <1>4, <1>5, <1>6, <1>7 DEF IInv, TypeOK

\* Whatever commands run at once, and however stale their books, what they
\* know of the broker is right.
THEOREM InvariantHolds == Spec => []IInv
BY InitGood, NextKeeps, PTL DEF Spec

-----------------------------------------------------------------------------
(* The safety properties                                                   *)

\* The file, the snapshots and the broker's orders keep their types: no
\* reservation or remaining quantity ever becomes negative.
THEOREM TypeCorrect == Spec => []TypeOK
<1>1. IInv => TypeOK
  BY DEF IInv
<1> QED
  BY <1>1, InvariantHolds, PTL

\* The invariant speaks of every book there is.
LEMMA BooksAreGood ==
  ASSUME IInv, NEW book \in AllBooks
  PROVE  book \in Books /\ GoodBook(book, broker)
BY CommandFacts DEF AllBooks, Snapshots, IInv, TypeOK

\* No order id ever ends up with the broker id of another order.
THEOREM LinksHold == Spec => []LinkIntegrity
<1>1. IInv => LinkIntegrity
  BY BooksAreGood DEF LinkIntegrity, GoodBook, GoodRecord
<1> QED
  BY <1>1, InvariantHolds, PTL

\* The bot never believes it holds shares that the broker has not filled.
THEOREM FillsAreReal == Spec => []NoPhantomFill
<1>1. IInv => NoPhantomFill
  <2> SUFFICES ASSUME IInv, NEW book \in AllBooks, NEW o \in Orders
               PROVE  book[o].filled <= IF book[o].brokerId = NoBrokerId THEN 0
                                        ELSE broker[book[o].brokerId].filled
    BY DEF NoPhantomFill
  <2>1. GoodRecord(o, book[o], broker)
    BY BooksAreGood DEF GoodBook
  <2> QED
    BY <2>1 DEF GoodRecord
<1> QED
  BY <1>1, InvariantHolds, PTL

\* Capital and slots are given back for the broker's sake only when the broker
\* has ended the order in the same way.
THEOREM FinalIsFinal == Spec => []FinalOrdersClosed
<1>1. IInv => FinalOrdersClosed
  <2> SUFFICES ASSUME IInv, NEW book \in AllBooks, NEW o \in Orders
               PROVE  /\ book[o].status \in {"filled", "cancelled", "expired"} =>
                           book[o].brokerId # NoBrokerId
                      /\ AgreedFinal(book[o])
    BY DEF FinalOrdersClosed
  <2>1. GoodRecord(o, book[o], broker)
    BY BooksAreGood DEF GoodBook
  <2> QED
    BY <2>1 DEF GoodRecord, AgreedFinal
<1> QED
  BY <1>1, InvariantHolds, PTL

\* No book has two active BUY orders of one symbol, whatever was overwritten.
THEOREM NeverBoughtTwice == Spec => []ActiveBuysUnique
<1>1. IInv => ActiveBuysUnique
  BY BooksAreGood DEF ActiveBuysUnique, GoodBook
<1> QED
  BY <1>1, InvariantHolds, PTL
=============================================================================
