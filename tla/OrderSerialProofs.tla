------------------------- MODULE OrderSerialProofs -------------------------
(***************************************************************************)
(* While one command runs at a time, what the broker can still buy is      *)
(* reserved in the file, and the file implements the order lifecycle: for  *)
(* any orders, prices and quantities, whatever fails in the middle.        *)
(*                                                                         *)
(* Every step replaces the command of the one process (SerialStep); the    *)
(* broker's own steps leave its live orders a part of what was live before *)
(* (BooksStayCovered).                                                     *)
(***************************************************************************)
EXTENDS OrderSerialInvariant, OrderControlProofs

-----------------------------------------------------------------------------
(* Amounts                                                                 *)

\* A reservation that pays for every share left has at least the unit price for
\* each.
LEMMA QuotientBound ==
  ASSUME NEW m \in Nat, NEW n \in Nat, n > 0, NEW k \in Nat, m >= n * k
  PROVE  m \div n \in Nat /\ m \div n >= k
<1> DEFINE d == m \div n
<1>1. d \in Nat /\ m < n * (d + 1)
  OBVIOUS
<1> HIDE DEF d
<1>2. CASE d < k
  <2>1. n * (d + 1) <= n * k
    BY <1>1, <1>2
  <2> QED
    BY <1>1, <2>1
<1>3. CASE d >= k
  BY <1>1, <1>3 DEF d
<1> QED
  BY <1>1, <1>2, <1>3

\* Fewer shares cost no more.
LEMMA CostOrder ==
  ASSUME NEW m \in Int, NEW n \in Nat, m <= n, NEW k \in Nat
  PROVE  m * k <= n * k
OBVIOUS

\* A partial fill releases the reservation of the shares it fills, and no more.
LEMMA FillKeepsReserve ==
  ASSUME NEW o \in BuyOrders, NEW r \in PendingOrderRecord, NEW q \in Nat,
         CanMarkPartiallyFilled(r, q), FullyReserved(r)
  PROVE  /\ FullyReserved(WithFillProgress(o, r, q))
         /\ Active(WithFillProgress(o, r, q))
         /\ WithFillProgress(o, r, q).requested = r.requested
         /\ WithFillProgress(o, r, q).brokerId = r.brokerId
<1> DEFINE a == WithFillProgress(o, r, q)
           price == ReservationPrice(r)
<1>1. /\ r.requested \in Nat /\ r.filled \in Nat /\ r.reserved \in Nat
      /\ q < r.requested
      /\ Remaining(r) \in Nat /\ Remaining(r) > 0
  BY RemainingType DEF PendingOrderRecord, CanMarkPartiallyFilled, Active
<1>2. price \in Nat /\ price >= UnitPrice /\ UnitPrice \in Nat
  <2>1. UnitPrice \in Nat
    BY UnitPriceAssumption
  <2>2. CASE r.reserved > 0
    <3>1. r.reserved >= Remaining(r) * UnitPrice
      BY DEF FullyReserved
    <3>2. price = r.reserved \div Remaining(r)
      BY <1>1, <2>2 DEF ReservationPrice
    <3> QED
      BY <1>1, <2>1, <3>1, <3>2, QuotientBound
  <2>3. CASE ~(r.reserved > 0)
    BY <2>1, <2>3 DEF ReservationPrice
  <2> QED
    BY <2>1, <2>2, <2>3
<1> HIDE DEF price
<1>3. a = [r EXCEPT !.status = "partially_filled", !.filled = q,
                    !.reserved = (r.requested - q) * price, !.slot = TRUE]
  BY DEF WithFillProgress, price
<1>4. /\ a.status = "partially_filled" /\ a.filled = q
      /\ a.reserved = (r.requested - q) * price
      /\ a.slot = TRUE
      /\ a.requested = r.requested
      /\ a.brokerId = r.brokerId
  BY <1>3 DEF PendingOrderRecord
<1> HIDE DEF a
<1>5. Remaining(a) = r.requested - q /\ Remaining(a) > 0 /\ Remaining(a) \in Nat
  BY <1>1, <1>4 DEF Remaining
<1>6. a.reserved >= Remaining(a) * UnitPrice
  <2> DEFINE n == r.requested - q
  <2>1. n \in Nat
    BY <1>1
  <2> HIDE DEF n
  <2>2. n * price >= n * UnitPrice
    BY <1>2, <2>1
  <2> QED
    BY <1>4, <1>5, <2>2 DEF n
<1> QED
  BY <1>4, <1>5, <1>6 DEF a, FullyReserved, Active, ActiveStatuses

\* A staged order has its slot and the price of all its shares.
LEMMA NewRecordReserved ==
  ASSUME NEW o \in BuyOrders, NEW q \in Nat
  PROVE  FullyReserved(NewRecord(o, q))
<1>1. /\ NewRecord(o, q).slot = TRUE
      /\ NewRecord(o, q).reserved = q * UnitPrice
      /\ NewRecord(o, q).requested = q
      /\ NewRecord(o, q).filled = 0
  BY DEF NewRecord
<1>2. q * UnitPrice \in Nat
  BY UnitPriceAssumption, ProductType
<1>3. Remaining(NewRecord(o, q)) = q
  BY <1>1 DEF Remaining
<1> QED
  BY <1>1, <1>2, <1>3 DEF FullyReserved

-----------------------------------------------------------------------------
(* The broker                                                              *)

\* A step that places no order: clients, quantities and replacements stay, and
\* nothing that was closed opens again.
Steady ==
  \A b \in BrokerIds :
    /\ broker'[b].client = broker[b].client
    /\ broker'[b].quantity = broker[b].quantity
    /\ broker'[b].replaces = broker[b].replaces
    /\ broker'[b].status \in BrokerOpenStatuses => Open(b)

\* The broker on its own, and a cancel, place no order.
LEMMA BrokerIsSteady ==
  ASSUME broker \in [BrokerIds -> BrokerOrder],
         BrokerStep \/ \E b \in BrokerIds : AcceptCancel(b)
  PROVE  Steady
<1>1. ASSUME NEW b \in BrokerIds, Fill(b)
      PROVE  Steady
  BY <1>1 DEF Fill, Working, Open, Steady, BrokerOrder
<1>2. ASSUME NEW b \in BrokerIds, NEW s \in {"cancelled", "expired", "rejected"}, Close(b, s)
      PROVE  Steady
  BY <1>2 DEF Close, Working, Open, Steady, BrokerOrder
<1>3. ASSUME NEW b \in BrokerIds, Unsettled(b), NEW s, NEW t, NEW n, NEW m,
             LET old == broker[b].replaces IN
             \/ broker' = [broker EXCEPT ![old].status = s, ![b].filled = n, ![b].status = t]
             \/ broker' = [broker EXCEPT ![b].status = t, ![old].status = s]
      PROVE  Steady
  <2> DEFINE old == broker[b].replaces
  <2>1. /\ old \in BrokerIds
        /\ broker[b].status \in BrokerOpenStatuses
        /\ broker[old].status \in BrokerOpenStatuses
    BY <1>3 DEF Unsettled, BrokerOrder, BrokerOpenStatuses
  <2> HIDE DEF old
  <2>2. \A a \in BrokerIds :
          /\ broker'[a].client = broker[a].client
          /\ broker'[a].quantity = broker[a].quantity
          /\ broker'[a].replaces = broker[a].replaces
    BY <1>3, <2>1 DEF BrokerOrder, old
  <2>3. \A a \in BrokerIds \ {b, old} : broker'[a] = broker[a]
    BY <1>3, <2>1 DEF old
  <2> QED
    BY <2>1, <2>2, <2>3 DEF Steady, Open
<1>4. ASSUME NEW b \in BrokerIds, CommitReplace(b)
      PROVE  Steady
  BY <1>3, <1>4 DEF CommitReplace
<1>5. ASSUME NEW b \in BrokerIds, RefuseReplace(b)
      PROVE  Steady
  BY <1>3, <1>5 DEF RefuseReplace
<1>6. ASSUME NEW b \in BrokerIds, AcceptCancel(b)
      PROVE  Steady
  BY <1>6 DEF AcceptCancel, Working, Open, Steady, BrokerOrder
<1> QED
  BY <1>1, <1>2, <1>4, <1>5, <1>6 DEF BrokerStep

\* brk2 has the orders of brk, and of those that brk2 could still fill each is
\* one that brk could, for the same client and quantity.
StaysLive(b, brk, brk2) ==
  /\ Live(b, brk)
  /\ brk2[b].client = brk[b].client
  /\ brk2[b].quantity = brk[b].quantity

\* A book goes on covering the broker's orders when they change, if it covers
\* what is new among them.
LEMMA BooksStayCovered ==
  ASSUME NEW book, NEW brk, NEW brk2, CoveredBook(book, brk),
         \A b \in BrokerIds : brk[b].client # NoOrder => brk2[b].client = brk[b].client,
         \A b \in BrokerIds :
           Live(b, brk2) => StaysLive(b, brk, brk2) \/ Covers(book, b, brk2)
  PROVE  CoveredBook(book, brk2)
<1>1. \A b \in BrokerIds : Live(b, brk2) => Covers(book, b, brk2)
  BY DEF CoveredBook, StaysLive, Covers
<1>2. \A o \in BuyOrders : Unplaced(o, brk2) => Unplaced(o, brk)
  <2>1. \A o \in BuyOrders : o # NoOrder
    BY BuyOrdersAssumption, NoOrderAssumption
  <2> QED
    BY <2>1 DEF Unplaced
<1> QED
  BY <1>1, <1>2 DEF CoveredBook

\* Steps that place no order leave every covered book covered.
LEMMA SteadyCovers ==
  ASSUME Steady, NEW book, CoveredBook(book, broker)
  PROVE  CoveredBook(book, broker')
<1>1. \A b \in BrokerIds : Live(b, broker') => StaysLive(b, broker, broker')
  BY DEF Steady, Live, StaysLive, Open
<1>2. \A b \in BrokerIds : broker[b].client # NoOrder => broker'[b].client = broker[b].client
  BY DEF Steady
<1> QED
  BY <1>1, <1>2, BooksStayCovered

\* An order that is placed is covered when its record is ready for it.
LEMMA PlacedIsCovered ==
  ASSUME BrokerTypeOK, GoodBroker(broker), NEW book \in Books, GoodBook(book, broker),
         CoveredBook(book, broker), NEW b \in BrokerIds, NEW o \in Orders, Active(book[o]),
         AcceptOrder(b, o, Remaining(book[o]))
  PROVE  CoveredBook(book, broker')
<1> DEFINE r == book[o]
           rec == [ client |-> o, status |-> "accepted", quantity |-> Remaining(r),
                    filled |-> 0, replaces |-> NoBrokerId ]
<1>1. /\ broker \in [BrokerIds -> BrokerOrder]
      /\ r \in PendingOrderRecord /\ GoodRecord(o, r, broker)
  BY DEF BrokerTypeOK, Books, GoodBook
<1>2. /\ broker[b] = NotPlaced
      /\ Unplaced(o, broker)
      /\ broker' = [broker EXCEPT ![b] = rec]
  BY DEF AcceptOrder, Fresh, Unplaced
<1> HIDE DEF rec
<1>3. broker'[b] = rec /\ \A a \in BrokerIds \ {b} : broker'[a] = broker[a]
  BY <1>1, <1>2
<1>4. r.brokerId = NoBrokerId /\ r.filled = 0 /\ Remaining(r) = r.requested
  <2>1. r.brokerId \in BrokerIds \cup {NoBrokerId} /\ r.requested \in Nat
    BY <1>1 DEF PendingOrderRecord
  <2>2. r.brokerId = NoBrokerId
    BY <1>1, <1>2, <2>1 DEF GoodRecord, Unplaced
  <2>3. r.filled = 0
    BY <1>1, <2>2 DEF GoodRecord
  <2> QED
    BY <2>1, <2>2, <2>3 DEF Remaining
<1>5. broker[b].replaces = NoBrokerId /\ broker[b].client = NoOrder
  BY <1>2 DEF NotPlaced
<1>6. /\ rec.client = o /\ rec.quantity = Remaining(r)
      /\ rec.replaces = NoBrokerId
  BY DEF rec
<1>7. Live(b, broker') => Covers(book, b, broker')
  <2> SUFFICES ASSUME Live(b, broker')
               PROVE  Covers(book, b, broker')
    OBVIOUS
  <2>1. o \in BuyOrders
    BY <1>3, <1>6 DEF Live
  <2>2. FullyReserved(r)
    BY <1>2, <2>1 DEF CoveredBook
  <2> QED
    BY <1>3, <1>4, <1>6, <2>2 DEF Covers
<1>8. \A a \in BrokerIds \ {b} : Live(a, broker') => StaysLive(a, broker, broker')
  BY <1>3, <1>5, NoBrokerIdAssumption DEF Live, StaysLive
<1>9. \A a \in BrokerIds : broker[a].client # NoOrder => broker'[a].client = broker[a].client
  BY <1>3, <1>5
<1> QED
  BY <1>7, <1>8, <1>9, BooksStayCovered

\* Neither order of a replacement asks for anything.
LEMMA ReplacedIsCovered ==
  ASSUME BrokerTypeOK, GoodBroker(broker), NEW book, CoveredBook(book, broker),
         NEW b \in BrokerIds, NEW new \in BrokerIds, NEW o \in Orders, NEW q,
         AcceptReplace(b, new, o, q)
  PROVE  /\ CoveredBook(book, broker')
         /\ broker'[new].client = o
         /\ \A a \in BrokerIds : Live(a, broker') =>
              /\ a \notin {b, new}
              /\ broker'[a] = broker[a]
         /\ broker'[b].client = broker[b].client
<1> DEFINE rec == [ client |-> o, status |-> "accepted", quantity |-> q,
                    filled |-> broker[b].filled, replaces |-> b ]
<1>1. broker \in [BrokerIds -> BrokerOrder] /\ Open(b)
  BY DEF BrokerTypeOK, AcceptReplace, Working
<1>2. /\ broker[new] = NotPlaced
      /\ broker' = [broker EXCEPT ![b].status = "pending_replace", ![new] = rec]
  BY DEF AcceptReplace, Fresh
<1>3. rec.client = o /\ rec.replaces = b
  OBVIOUS
<1> HIDE DEF rec
<1>4. b # new
  BY <1>1, <1>2 DEF Open, NotPlaced, BrokerOpenStatuses
<1>5. /\ broker'[new] = rec
      /\ broker'[b].client = broker[b].client
      /\ \A a \in BrokerIds \ {b, new} : broker'[a] = broker[a]
      /\ \A a \in BrokerIds \ {new} : broker'[a].replaces = broker[a].replaces
      /\ \A a \in BrokerIds \ {new} : broker'[a].client = broker[a].client
  BY <1>1, <1>2, <1>4 DEF BrokerOrder
<1>6. \A a \in BrokerIds : Live(a, broker') => a \notin {b, new}
  BY <1>3, <1>5, NoBrokerIdAssumption DEF Live
<1>7. \A a \in BrokerIds : Live(a, broker') => StaysLive(a, broker, broker')
  <2>1. broker[new].replaces = NoBrokerId
    BY <1>2 DEF NotPlaced
  <2>2. \A a, c \in BrokerIds : broker[c].replaces = a => broker'[c].replaces = a
    BY <1>5, <2>1, NoBrokerIdAssumption
  <2> QED
    BY <1>5, <1>6, <2>2 DEF Live, StaysLive
<1>8. \A a \in BrokerIds : broker[a].client # NoOrder => broker'[a].client = broker[a].client
  <2>1. broker[new].client = NoOrder
    BY <1>2 DEF NotPlaced
  <2> QED
    BY <1>5, <2>1
<1> QED
  BY <1>3, <1>5, <1>6, <1>7, <1>8, BooksStayCovered

-----------------------------------------------------------------------------
(* Books                                                                   *)

\* Applying an update moves a record along one arc, and leaves the record of a
\* live order active and reserved.
LEMMA UpdateMoves ==
  ASSUME NEW brk \in [BrokerIds -> BrokerOrder],
         NEW o \in Orders, NEW r \in PendingOrderRecord, GoodRecord(o, r, brk),
         r.status # "absent",
         NEW u \in BrokerOrderUpdate, GoodUpdate(u, brk), CanApplyToRecord(r, u),
         r.brokerId \in {u.id, NoBrokerId}
  PROVE  LET a == AppliedToRecord(o, r, u) IN
         /\ a.status # "absent"
         /\ Same(r, a) \/ Fills(r, a) \/ Finishes(r, a)
         /\ /\ o \in BuyOrders /\ Active(r) /\ FullyReserved(r)
            /\ r.requested = u.quantity
            /\ brk[u.id].status \notin BrokerClosedStatuses
            => /\ Active(a) /\ FullyReserved(a)
               /\ a.requested = u.quantity
               /\ a.brokerId = u.id
<1> DEFINE m == Merged(r, u)
           a == AppliedToRecord(o, r, u)
<1>1. /\ m \in PendingOrderRecord
      /\ m.status = r.status
      /\ m.filled = r.filled
      /\ m.requested = u.quantity
      /\ m.brokerId = u.id
  BY MergedType
<1>2. m.reserved = r.reserved /\ m.slot = r.slot
  BY DEF Merged, PendingOrderRecord
<1>3. Valid(m)
  BY DEF CanApplyToRecord
<1>4. /\ u.status \in BrokerStatuses /\ u.filled \in Nat /\ u.quantity \in Nat
      /\ u.id \in BrokerIds
      /\ r.filled \in Nat
      /\ r.status \in ActiveStatuses \cup FinalStatuses
  BY DEF BrokerOrderUpdate, PendingOrderRecord
<1>5. u.status \in BrokerClosedStatuses => brk[u.id].status = u.status
  BY DEF GoodUpdate
<1>6. Active(r) /\ FullyReserved(r) /\ r.requested = u.quantity
        => Active(m) /\ FullyReserved(m)
  BY <1>1, <1>2 DEF Active, FullyReserved, Remaining
<1> HIDE DEF m
<1>7. CASE u.status \in {"accepted", "pending_cancel", "pending_replace"}
  <2>1. a = m
    BY <1>7 DEF AppliedToRecord, m
  <2> HIDE DEF a
  <2>2. Same(r, a)
    BY <1>1, <2>1 DEF Same
  <2>3. a.status # "absent"
    BY <1>1, <2>1
  <2> QED
    BY <1>1, <1>6, <2>1, <2>2, <2>3 DEF a
<1>8. CASE u.status = "partially_filled"
  <2>1. CASE MovesBackward(m, u)
    <3>1. a = m
      BY <1>8, <2>1 DEF AppliedToRecord, m
    <3> HIDE DEF a
    <3>2. Same(r, a)
      BY <1>1, <3>1 DEF Same
    <3>3. a.status # "absent"
      BY <1>1, <3>1
    <3> QED
      BY <1>1, <1>6, <3>1, <3>2, <3>3 DEF a
  <2>2. CASE ~MovesBackward(m, u)
    <3>1. a = WithFillProgress(o, m, u.filled)
      BY <1>8, <2>2 DEF AppliedToRecord, m
    <3>2. CanMarkPartiallyFilled(m, u.filled)
      BY <1>8, <2>2 DEF CanApplyToRecord, m
    <3> HIDE DEF a
    <3>3. a.status = "partially_filled" /\ a.filled = u.filled
      BY <1>1, <1>4, <3>1, <3>2, FillProgressType
    <3>4. Fills(r, a)
      BY <1>1, <3>2, <3>3 DEF Fills, CanMarkPartiallyFilled, Active
    <3>5. o \in BuyOrders /\ FullyReserved(m) =>
            /\ Active(a) /\ FullyReserved(a)
            /\ a.requested = u.quantity
            /\ a.brokerId = u.id
      BY <1>1, <1>4, <3>1, <3>2, FillKeepsReserve
    <3> QED
      BY <1>6, <3>3, <3>4, <3>5 DEF a
  <2> QED
    BY <2>1, <2>2
<1>9. CASE u.status = "replaced"
  <2>1. a = Released(m, "replaced")
    BY <1>9 DEF AppliedToRecord, m
  <2>2. a.status = "replaced" /\ a.filled = r.filled
    BY <1>1, <2>1, ReleasedType DEF FinalStatuses
  <2>3. brk[u.id].status = "replaced"
    BY <1>5, <1>9 DEF BrokerClosedStatuses
  <2>4. r.status \in ActiveStatuses \cup {"replaced"}
    <3>1. r.status \notin {"filled", "cancelled", "expired"}
      BY <2>3 DEF GoodRecord
    <3> QED
      BY <1>4, <3>1 DEF FinalStatuses
  <2> HIDE DEF a
  <2>5. Same(r, a) \/ Finishes(r, a)
    BY <1>4, <2>2, <2>4 DEF Same, Finishes, FinalStatuses
  <2> QED
    BY <2>2, <2>3, <2>5 DEF a, BrokerClosedStatuses
<1>10. CASE u.status \in {"filled", "cancelled", "rejected", "expired"}
  <2> DEFINE final == LocalFinal(u.status)
  <2>1. a = Finalized(m, final) /\ CanFinalize(m, final)
    BY <1>10 DEF AppliedToRecord, CanApplyToRecord, m
  <2>2. final \in FinalStatuses
    BY <1>10 DEF LocalFinal, FinalStatuses
  <2>3. brk[u.id].status \in BrokerClosedStatuses
    BY <1>5, <1>10 DEF BrokerClosedStatuses
  <2> HIDE DEF a, final
  <2>4. CASE m.status = final
    <3>1. a = m
      BY <2>1, <2>4 DEF Finalized
    <3>2. Same(r, a) /\ a.status # "absent"
      BY <1>1, <3>1 DEF Same
    <3> QED
      BY <2>3, <3>2 DEF a
  <2>5. CASE m.status # final
    <3>1. /\ a.status = final
          /\ a.filled = IF final = "filled" THEN m.requested ELSE m.filled
      <4> DEFINE rel == Released(m, final)
      <4>1. rel \in PendingOrderRecord /\ rel.status = final /\ rel.filled = m.filled
        BY <1>1, <2>2, ReleasedType
      <4> HIDE DEF rel
      <4>2. a = IF final = "filled" THEN [rel EXCEPT !.filled = m.requested] ELSE rel
        BY <2>1, <2>5 DEF Finalized, rel
      <4> QED
        BY <4>1, <4>2 DEF PendingOrderRecord
    <3>2. m.status \in ActiveStatuses /\ m.filled <= m.requested
      BY <1>3, <2>1, <2>5 DEF CanFinalize, Active, Valid
    <3>3. Finishes(r, a)
      BY <1>1, <1>4, <2>2, <3>1, <3>2 DEF Finishes
    <3>4. a.status # "absent"
      BY <2>2, <3>1 DEF FinalStatuses
    <3> QED
      BY <2>3, <3>3, <3>4 DEF a
  <2> QED
    BY <2>4, <2>5
<1> QED
  BY <1>4, <1>7, <1>8, <1>9, <1>10
  DEF BrokerStatuses, BrokerOpenStatuses, BrokerClosedStatuses

\* Applying an update touches the order it is about, and keeps the book covered.
LEMMA AppliedCovers ==
  ASSUME NEW brk \in [BrokerIds -> BrokerOrder], GoodBroker(brk),
         NEW book \in Books, GoodBook(book, brk), CoveredBook(book, brk),
         NEW u \in BrokerOrderUpdate, GoodUpdate(u, brk),
         Matching(book, u) # NoOrder, CanApply(book, Matching(book, u), u)
  PROVE  LET next == Applied(book, Matching(book, u), u) IN
         /\ u.client \in Orders
         /\ CoveredBook(next, brk)
         /\ \/ Same(book[u.client], next[u.client])
            \/ Fills(book[u.client], next[u.client])
            \/ Finishes(book[u.client], next[u.client])
         /\ \A other \in Orders \ {u.client} : next[other] = book[other]
<1> DEFINE o == u.client
           r == book[o]
           a == AppliedToRecord(o, r, u)
           next == Upsert(book, o, a)
<1>1. /\ Matching(book, u) = o
      /\ o \in Orders
      /\ brk[u.id].client = o
      /\ r.brokerId \in {u.id, NoBrokerId}
      /\ CanApply(book, o, u)
      /\ u.id \in BrokerIds /\ u.id # NoBrokerId
  BY MatchingIsRight, NoBrokerIdAssumption DEF BrokerOrderUpdate
<1>2. r \in PendingOrderRecord /\ GoodRecord(o, r, brk)
  BY <1>1 DEF Books, GoodBook
<1>3. r # Absent
  <2>1. CASE Linked(book, u) # {}
    <3>1. Matching(book, u) \in Linked(book, u)
      BY <2>1 DEF Matching
    <3>2. r.brokerId = u.id
      BY <1>1, <3>1 DEF Linked
    <3>3. Absent.brokerId = NoBrokerId
      BY DEF Absent
    <3> QED
      BY <1>1, <3>2, <3>3
  <2>2. CASE Linked(book, u) = {}
    BY <2>2 DEF Matching
  <2> QED
    BY <2>1, <2>2
<1>4. r.status # "absent"
  BY <1>1, <1>3 DEF CoveredBook
<1>5. CanApplyToRecord(r, u) /\ Valid(a)
  BY <1>1 DEF CanApply, CanUpsert
<1>6. /\ a.status # "absent"
      /\ Same(r, a) \/ Fills(r, a) \/ Finishes(r, a)
      /\ /\ o \in BuyOrders /\ Active(r) /\ FullyReserved(r)
         /\ r.requested = u.quantity
         /\ brk[u.id].status \notin BrokerClosedStatuses
         => /\ Active(a) /\ FullyReserved(a)
            /\ a.requested = u.quantity
            /\ a.brokerId = u.id
  BY <1>1, <1>2, <1>4, <1>5, UpdateMoves
<1> HIDE DEF a
<1>7. next[o] = a /\ \A other \in Orders \ {o} : next[other] = book[other]
  BY <1>1 DEF Upsert, Books
<1>8. Applied(book, Matching(book, u), u) = next
  BY <1>1 DEF Applied, a
<1> HIDE DEF next
<1>9. ASSUME NEW b \in BrokerIds, Live(b, brk)
      PROVE  Covers(next, b, brk)
  <2>1. brk[b].client \in Orders /\ Covers(book, b, brk)
    BY <1>9, BuyOrdersAssumption DEF CoveredBook, Live
  <2>2. CASE brk[b].client # o
    BY <1>7, <2>1, <2>2 DEF Covers
  <2>3. CASE brk[b].client = o
    <3>1. b = u.id
      BY <1>1, <2>3, NoOrderAssumption DEF GoodBroker
    <3>2. /\ brk[u.id].quantity = u.quantity
          /\ brk[u.id].status \notin BrokerClosedStatuses
      BY <1>9, <3>1 DEF Live, GoodUpdate, BrokerOpenStatuses, BrokerClosedStatuses
    <3>3. o \in BuyOrders /\ Active(r) /\ FullyReserved(r) /\ r.requested = u.quantity
      BY <1>9, <2>1, <2>3, <3>1, <3>2 DEF Covers, Live
    <3> QED
      BY <1>6, <1>7, <2>3, <3>1, <3>2, <3>3 DEF Covers
  <2> QED
    BY <2>2, <2>3
<1>10. \A x \in Orders : next[x] = Absent \/ (Valid(next[x]) /\ next[x].status # "absent")
  BY <1>5, <1>6, <1>7 DEF CoveredBook
<1>11. \A x \in BuyOrders : Unplaced(x, brk) /\ Active(next[x]) => FullyReserved(next[x])
  <2>1. ~Unplaced(o, brk)
    BY <1>1 DEF Unplaced
  <2> QED
    BY <1>7, <2>1, BuyOrdersAssumption DEF CoveredBook
<1> QED
  BY <1>1, <1>6, <1>7, <1>8, <1>9, <1>10, <1>11 DEF CoveredBook

\* An order that is marked as replaced is not active.
LEMMA ReplacedIsInactive ==
  ASSUME NEW r \in PendingOrderRecord
  PROVE  ~Active(Released(r, "replaced")) /\ Released(r, "replaced").status = "replaced"
BY ReleasedType DEF FinalStatuses, ActiveStatuses, Active

\* Staging an order that nothing is in the way of: it was not active, nothing else
\* changes but a SELL order of the same decision, and nothing gets in the way of
\* what is still to be staged.
LEMMA StagedCovers ==
  ASSUME NEW brk, NEW book \in Books, CoveredBook(book, brk),
         NEW todo \in SUBSET StagedOrders, NothingInTheWay(book, todo),
         NEW o \in todo, NEW q \in Nat, NEW next \in Staged(book, o, q)
  PROVE  /\ CoveredBook(next, brk)
         /\ Same(book[o], next[o]) \/ StagedAgain(book[o], next[o])
         /\ \A other \in Orders \ {o} :
              \/ next[other] = book[other]
              \/ /\ other \notin StagedOrders
                 /\ Active(book[other])
                 /\ next[other].status = "replaced"
                 /\ next[other].filled = book[other].filled
         /\ NothingInTheWay(next, todo \ {o})
<1> DEFINE r == NewRecord(o, q)
<1>1. o \in Orders /\ o \in BuyOrders
  BY StagedOrdersAssumption, StagedIdsAssumption
<1>2. r \in PendingOrderRecord /\ r.status = "pending" /\ r.filled = 0
  BY <1>1, NewRecordType DEF NewRecord
<1>3. FullyReserved(r)
  BY <1>1, NewRecordReserved
<1>4. r # Absent
  BY <1>2 DEF Absent
<1> HIDE DEF r
<1>5. ~Active(book[o]) /\ book[o].status \notin ActiveStatuses
  <2>1. ~Active(book[o])
    BY <1>1 DEF NothingInTheWay, ReservesCapacity
  <2>2. Absent.status \notin ActiveStatuses
    BY DEF Absent, ActiveStatuses
  <2>3. book[o] = Absent \/ Valid(book[o])
    BY <1>1 DEF CoveredBook
  <2> QED
    BY <2>1, <2>2, <2>3 DEF Valid, Active
<1>6. CASE next = Upsert(book, o, r) /\ (CanUpsert(book, o, r) \/ r = book[o])
  <2>1. Valid(r)
    BY <1>1, <1>4, <1>6 DEF CanUpsert, CoveredBook
  <2>2. next[o] = r /\ \A other \in Orders \ {o} : next[other] = book[other]
    BY <1>1, <1>2, <1>6, UpsertType
  <2>3. \A b \in BrokerIds : Live(b, brk) => Covers(next, b, brk)
    BY <1>1, <1>5, <2>2, BuyOrdersAssumption DEF CoveredBook, Covers, Live
  <2>4. CoveredBook(next, brk)
    BY <1>1, <1>2, <1>3, <2>1, <2>2, <2>3, BuyOrdersAssumption DEF CoveredBook
  <2>5. StagedAgain(book[o], next[o])
    BY <1>2, <1>5, <2>2 DEF StagedAgain
  <2>6. NothingInTheWay(next, todo \ {o})
    BY <2>2 DEF NothingInTheWay, ReservesCapacity
  <2> QED
    BY <2>2, <2>4, <2>5, <2>6
<1>7. ASSUME NEW e \in ActiveForDecision(book, o), CanReplace(book, e, o, r),
             next = Replaced(book, e, o, r), book[o] = Absent
      PROVE  /\ CoveredBook(next, brk)
             /\ StagedAgain(book[o], next[o])
             /\ \A other \in Orders \ {o} :
                  \/ next[other] = book[other]
                  \/ /\ other \notin StagedOrders
                     /\ Active(book[other])
                     /\ next[other].status = "replaced"
                     /\ next[other].filled = book[other].filled
             /\ NothingInTheWay(next, todo \ {o})
  <2>1. /\ e \in Orders /\ e # o /\ Active(book[e])
        /\ SymbolOf[e] = SymbolOf[o] /\ DecisionOf[e] = DecisionOf[o]
        /\ DecisionOf[o] # NoDecision
    BY <1>5 DEF ActiveForDecision
  <2>2. e \notin StagedOrders
    BY <2>1, StagedIdsAssumption
  <2>3. e \notin BuyOrders
    BY <2>1, <2>2 DEF NothingInTheWay, ReservesCapacity
  <2>4. /\ next[o] = r
        /\ next[e] = Released(book[e], "replaced")
        /\ \A other \in Orders \ {e, o} : next[other] = book[other]
    BY <1>1, <1>2, <1>7, <2>1, ReplacedType
  <2>5. book[e] \in PendingOrderRecord
    BY <2>1 DEF Books
  <2>6. /\ ~Active(next[e]) /\ next[e].status = "replaced"
        /\ next[e].filled = book[e].filled
    <3>1. "replaced" \in FinalStatuses
      BY DEF FinalStatuses
    <3> QED
      BY <2>4, <2>5, <3>1, ReplacedIsInactive, ReleasedType
  <2>7. Valid(next[e])
    BY <1>7, <2>4 DEF CanReplace, CanUpsert
  <2>8. Valid(r)
    <3>1. AfterReplaced(book, e)[o] = Absent
      BY <1>1, <1>7, <2>1 DEF AfterReplaced, Upsert, Books
    <3> QED
      BY <1>4, <1>7, <3>1 DEF CanReplace, CanCreate, CanUpsert
  <2>9. \A b \in BrokerIds : Live(b, brk) => Covers(next, b, brk)
    BY <1>1, <1>5, <2>3, <2>4, BuyOrdersAssumption DEF CoveredBook, Covers, Live
  <2>10. CoveredBook(next, brk)
    <3>1. \A x \in Orders : next[x] = Absent \/ (Valid(next[x]) /\ next[x].status # "absent")
      BY <1>2, <2>4, <2>6, <2>7, <2>8 DEF CoveredBook
    <3>2. \A x \in BuyOrders : Unplaced(x, brk) /\ Active(next[x]) => FullyReserved(next[x])
      BY <1>3, <2>3, <2>4, BuyOrdersAssumption DEF CoveredBook
    <3> QED
      BY <2>9, <3>1, <3>2 DEF CoveredBook
  <2>11. StagedAgain(book[o], next[o])
    BY <1>2, <1>5, <2>4 DEF StagedAgain
  <2>12. NothingInTheWay(next, todo \ {o})
    BY <2>4, <2>6 DEF NothingInTheWay, ReservesCapacity
  <2> QED
    BY <2>1, <2>2, <2>4, <2>6, <2>10, <2>11, <2>12
<1>8. \/ next = Upsert(book, o, r) /\ (CanUpsert(book, o, r) \/ r = book[o])
      \/ \E e \in ActiveForDecision(book, o) :
           /\ next = Replaced(book, e, o, r)
           /\ CanReplace(book, e, o, r)
           /\ book[o] = Absent
  <2>1. CASE book[o] # Absent
    BY <2>1 DEF Staged, r
  <2>2. CASE book[o] = Absent /\ ActiveForDecision(book, o) # {}
    BY <2>2 DEF Staged, r
  <2>3. CASE book[o] = Absent /\ ActiveForDecision(book, o) = {}
    BY <2>3 DEF Staged, CanCreate, r
  <2> QED
    BY <2>1, <2>2, <2>3
<1> QED
  BY <1>6, <1>7, <1>8

\* Recording a replacement: the replacing order starts from the fills of the
\* replaced one, and the broker's orders of the two are not live.
LEMMA ReplacementCovers ==
  ASSUME NEW brk \in [BrokerIds -> BrokerOrder], GoodBroker(brk),
         NEW book \in Books, CoveredBook(book, brk),
         NEW o \in Orders, NEW r \in Orders, NEW rec \in PendingOrderRecord,
         rec.status = "pending", rec.filled = book[o].filled,
         CanReplace(book, o, r, rec),
         NEW u \in BrokerOrderUpdate, u.status = "accepted",
         CanApply(Replaced(book, o, r, rec), r, u),
         NEW b \in BrokerIds, NEW new \in BrokerIds,
         brk[b].client = o, brk[new].client = r,
         \A a \in BrokerIds : Live(a, brk) => a \notin {b, new}
  PROVE  LET done == Applied(Replaced(book, o, r, rec), r, u) IN
         /\ CoveredBook(done, brk)
         /\ \A x \in Orders : Moves(x, book, done)
<1> DEFINE next == Replaced(book, o, r, rec)
           a == AppliedToRecord(r, rec, u)
           done == Applied(next, r, u)
<1>1. /\ next \in Books
      /\ next[r] = rec
      /\ next[o] = Released(book[o], "replaced")
      /\ \A other \in Orders \ {o, r} : next[other] = book[other]
  BY ReplacedType
<1>2. r # o /\ Active(book[o]) /\ Valid(next[o])
  BY <1>1 DEF CanReplace, CanUpsert
<1>3. Valid(a)
  BY <1>1 DEF CanApply, CanUpsert
<1>4. a = Merged(rec, u)
  BY DEF AppliedToRecord
<1> HIDE DEF next, a
<1>5. done[r] = a /\ \A other \in Orders \ {r} : done[other] = next[other]
  BY <1>1 DEF Applied, Upsert, Books, a
<1>6. a.status = "pending" /\ a.filled = book[o].filled
  BY <1>4, MergedType
<1>7. /\ ~Active(next[o]) /\ next[o].status = "replaced"
      /\ next[o].filled = book[o].filled
  <2>1. book[o] \in PendingOrderRecord /\ "replaced" \in FinalStatuses
    BY DEF Books, FinalStatuses
  <2> QED
    BY <1>1, <2>1, ReplacedIsInactive, ReleasedType
<1> HIDE DEF done
<1>8. \A c \in BrokerIds : Live(c, brk) => Covers(done, c, brk)
  <2> SUFFICES ASSUME NEW c \in BrokerIds, Live(c, brk)
               PROVE  Covers(done, c, brk)
    OBVIOUS
  <2>1. brk[c].client \in Orders
    BY BuyOrdersAssumption DEF Live
  <2>2. brk[c].client \notin {o, r}
    BY <2>1, NoOrderAssumption DEF GoodBroker
  <2> QED
    BY <1>1, <1>5, <2>1, <2>2 DEF CoveredBook, Covers
<1>9. \A x \in Orders : done[x] = Absent \/ (Valid(done[x]) /\ done[x].status # "absent")
  BY <1>1, <1>2, <1>3, <1>5, <1>6, <1>7 DEF CoveredBook
<1>10. \A x \in BuyOrders : Unplaced(x, brk) /\ Active(done[x]) => FullyReserved(done[x])
  <2>1. ~Unplaced(o, brk) /\ ~Unplaced(r, brk)
    BY DEF Unplaced
  <2> QED
    BY <1>1, <1>5, <2>1, BuyOrdersAssumption DEF CoveredBook
<1>11. Finishes(book[o], done[o])
  <2>1. book[o].filled \in Nat /\ book[o].status \in ActiveStatuses
    BY <1>2 DEF Books, PendingOrderRecord, Active
  <2> QED
    BY <1>2, <1>5, <1>7, <2>1 DEF Finishes, FinalStatuses
<1>12. Same(book[r], done[r]) \/ TakesOver(r, book, done)
  <2>1. AfterReplaced(book, o)[r] = book[r]
    BY <1>2 DEF AfterReplaced, Upsert, Books
  <2>2. book[r] = Absent \/ book[r] = rec
    BY <2>1 DEF CanReplace, CanCreate
  <2>3. CASE book[r] = rec
    BY <1>5, <1>6, <2>3 DEF Same
  <2>4. CASE book[r] = Absent
    <3>1. book[r].status = "absent"
      BY <2>4 DEF Absent
    <3>2. /\ book[o].status \in ActiveStatuses
          /\ done[o].status = "replaced"
          /\ done[r].filled = book[o].filled
      BY <1>2, <1>5, <1>6, <1>7 DEF Active
    <3> QED
      BY <1>5, <1>6, <3>1, <3>2 DEF TakesOver
  <2> QED
    BY <2>2, <2>3, <2>4
<1>13. \A x \in Orders \ {o, r} : Same(book[x], done[x])
  BY <1>1, <1>5 DEF Same
<1>14. \A x \in Orders : Moves(x, book, done)
  BY <1>11, <1>12, <1>13 DEF Moves
<1> QED
  BY <1>8, <1>9, <1>10, <1>14 DEF CoveredBook, done, next

-----------------------------------------------------------------------------
(* Steps of the one command                                                *)

\* What is known of the process that takes a step.
LEMMA SerialFacts ==
  ASSUME IInv, SerialInv, NEW p \in Procs
  PROVE  /\ cmd[p] \in Command
         /\ cmd[p].work \in Books /\ cmd[p].snap \in Books /\ orders \in Books
         /\ cmd[p].inbox \subseteq BrokerOrderUpdate
         /\ \A u \in cmd[p].inbox : GoodUpdate(u, broker)
         /\ broker \in [BrokerIds -> BrokerOrder] /\ BrokerTypeOK /\ GoodBroker(broker)
         /\ GoodBook(orders, broker) /\ GoodBook(cmd[p].work, broker)
         /\ CoveredBook(orders, broker)
         /\ SerialCommand(cmd[p], orders, broker)
BY CommandFacts DEF SerialInv

\* A process without a command says nothing of the file.
LEMMA IdleSerial ==
  ASSUME NEW file, NEW brk
  PROVE  SerialCommand(Idle, file, brk)
<1>1. Idle.pc = "idle" /\ Idle.inbox = {}
  BY DEF Idle
<1> QED
  BY <1>1 DEF SerialCommand

\* There is no other command whose book the step could make stale.
LEMMA SerialStep ==
  ASSUME OneAtATime, IInv, NEW p \in Procs, NEW c, Become(p, c),
         CoveredBook(orders', broker'), SerialCommand(c, orders', broker')
  PROVE  SerialInv'
<1>1. cmd' = [cmd EXCEPT ![p] = c] /\ cmd \in [Procs -> Command]
  BY DEF Become, IInv, TypeOK
<1>2. \A other \in Procs : cmd'[other] = c
  BY <1>1 DEF OneAtATime
<1> QED
  BY <1>2 DEF SerialInv

\* When neither the file nor the broker changes, only the new command matters.
LEMMA SerialLocalStep ==
  ASSUME OneAtATime, IInv, SerialInv, NEW p \in Procs, NEW c, Become(p, c),
         UNCHANGED <<orders, broker>>, SerialCommand(c, orders, broker)
  PROVE  SerialInv'
<1>1. orders' = orders /\ broker' = broker
  OBVIOUS
<1>2. CoveredBook(orders', broker') /\ SerialCommand(c, orders', broker')
  BY <1>1 DEF SerialInv
<1> QED
  BY <1>2, SerialStep

\* A command that ends without writing.
LEMMA EndSerial ==
  ASSUME OneAtATime, IInv, SerialInv, NEW p \in Procs, Become(p, Idle),
         UNCHANGED <<orders, broker>>
  PROVE  SerialInv'
BY IdleSerial, SerialLocalStep

\* A command whose book is the file's, before it has heard of the broker.
LEMMA LoadedSerial ==
  ASSUME NEW file, NEW brk, CoveredBook(file, brk), NEW c,
         c.snap = file, c.work = file, c.inbox = {},
         c.pc \in {"placing", "cancelling", "fetching", "replacing", "scanning", "reading"},
         c.pc = "placing" => Active(file[c.order])
  PROVE  SerialCommand(c, file, brk)
<1>1. \A o \in Orders : Moves(o, file, c.work)
  BY DEF Moves, Same
<1>2. InboxFresh(c)
  BY DEF InboxFresh
<1> QED
  BY <1>1, <1>2 DEF SerialCommand

\* The commands that begin.
LEMMA BeginSerial ==
  ASSUME OneAtATime, IInv, SerialInv, NEW p \in Procs, Begin(p)
  PROVE  SerialInv'
<1>1. ASSUME NEW S \in SUBSET StagedOrders, NEW q \in Quantities, BeginStage(p, S, q)
      PROVE  SerialInv'
  <2> DEFINE c == [Idle EXCEPT !.pc = "assessed", !.todo = S, !.quantity = q]
  <2>1. Become(p, c) /\ UNCHANGED <<orders, broker>>
    BY <1>1 DEF BeginStage
  <2>2. c.pc = "assessed" /\ c.inbox = {} /\ c.todo = S
    BY DEF Idle
  <2>3. NothingInTheWay(orders, S)
    BY <1>1 DEF BeginStage, NothingInTheWay
  <2> HIDE DEF c
  <2>4. SerialCommand(c, orders, broker)
    BY <2>2, <2>3 DEF SerialCommand
  <2> QED
    BY <2>1, <2>4, SerialLocalStep
<1>2. ASSUME NEW pc \in {"placing", "cancelling", "replacing", "scanning", "reading"},
             NEW o, NEW q, NEW S, Load(p, pc, o, q, S),
             pc = "placing" => Active(orders[o])
      PROVE  SerialInv'
  <2> DEFINE c == [ pc |-> pc, order |-> o, quantity |-> q, snap |-> orders,
                    work |-> orders, todo |-> S, inbox |-> {} ]
  <2>1. Become(p, c) /\ UNCHANGED <<orders, broker>>
    BY <1>2 DEF Load
  <2>2. SerialCommand(c, orders, broker)
    BY <1>2, LoadedSerial DEF SerialInv
  <2> HIDE DEF c
  <2> QED
    BY <2>1, <2>2, SerialLocalStep
<1>3. ASSUME NEW o \in Orders, BeginSubmit(p, o)
      PROVE  SerialInv'
  BY <1>2, <1>3 DEF BeginSubmit
<1>4. ASSUME NEW o \in Orders, BeginCancel(p, o)
      PROVE  SerialInv'
  BY <1>2, <1>4 DEF BeginCancel
<1>5. ASSUME NEW o \in Orders, NEW q \in Quantities, BeginReplace(p, o, q)
      PROVE  SerialInv'
  BY <1>2, <1>5 DEF BeginReplace
<1>6. ASSUME NEW S \in SUBSET Orders, BeginSync(p, S)
      PROVE  SerialInv'
  <2> DEFINE selected == {o \in Orders : Active(orders[o]) /\ (S = {} \/ o \in S)}
             pc == IF S = {} THEN "scanning" ELSE "reading"
  <2>1. Load(p, pc, NoOrder, 0, selected)
    BY <1>6 DEF BeginSync
  <2>2. pc \in {"scanning", "reading"}
    OBVIOUS
  <2> HIDE DEF selected, pc
  <2> QED
    BY <1>2, <2>1, <2>2
<1> QED
  BY <1>1, <1>3, <1>4, <1>5, <1>6 DEF Begin

\* The batch's book is the file's: nothing has changed since it was assessed.
LEMMA StageLoadSerial ==
  ASSUME OneAtATime, IInv, SerialInv, NEW p \in Procs, StageLoad(p)
  PROVE  SerialInv'
<1> DEFINE c == [cmd[p] EXCEPT !.pc = "staging", !.snap = orders, !.work = orders]
<1>1. Become(p, c) /\ UNCHANGED <<orders, broker>> /\ cmd[p].pc = "assessed"
  BY DEF StageLoad
<1>2. /\ c.pc = "staging" /\ c.snap = orders /\ c.work = orders
      /\ c.inbox = cmd[p].inbox /\ c.todo = cmd[p].todo
  BY SerialFacts DEF Command
<1> HIDE DEF c
<1>3. /\ c.inbox = {} /\ c.todo \subseteq StagedOrders
      /\ NothingInTheWay(orders, c.todo)
  BY <1>1, <1>2, SerialFacts DEF SerialCommand
<1>4. (\A o \in Orders : Moves(o, orders, c.work)) /\ InboxFresh(c) /\ StagedSoFar(c)
  BY <1>2, <1>3 DEF Moves, Same, InboxFresh, StagedSoFar
<1>5. SerialCommand(c, orders, broker)
  BY <1>2, <1>3, <1>4, SerialFacts DEF SerialCommand
<1> QED
  BY <1>1, <1>5, SerialLocalStep

\* One order of the batch is staged.
LEMMA StageOrderSerial ==
  ASSUME OneAtATime, IInv, SerialInv, NEW p \in Procs, NEW o \in Orders, StageOrder(p, o)
  PROVE  SerialInv'
<1> DEFINE work == cmd[p].work
           todo == cmd[p].todo
<1>1. PICK book \in Staged(work, o, cmd[p].quantity) :
        Become(p, [cmd[p] EXCEPT !.todo = @ \ {o}, !.work = book])
  BY DEF StageOrder
<1> DEFINE c == [cmd[p] EXCEPT !.todo = todo \ {o}, !.work = book]
<1>2. cmd[p].pc = "staging" /\ o \in todo /\ UNCHANGED <<orders, broker>>
  BY DEF StageOrder
<1>3. /\ work \in Books /\ CoveredBook(work, broker)
      /\ todo \in SUBSET StagedOrders /\ cmd[p].inbox = {}
      /\ NothingInTheWay(work, todo)
      /\ cmd[p].snap = orders
      /\ \A x \in Orders : Moves(x, orders, work)
      /\ StagedSoFar(cmd[p])
  BY <1>2, SerialFacts DEF SerialCommand
<1>4. cmd[p].quantity \in Nat
  BY CommandFacts
<1>5. /\ CoveredBook(book, broker)
      /\ Same(work[o], book[o]) \/ StagedAgain(work[o], book[o])
      /\ \A other \in Orders \ {o} :
           \/ book[other] = work[other]
           \/ /\ other \notin StagedOrders
              /\ Active(work[other])
              /\ book[other].status = "replaced"
              /\ book[other].filled = work[other].filled
      /\ NothingInTheWay(book, todo \ {o})
  <2> DEFINE q == cmd[p].quantity
  <2> HIDE DEF work, todo, q
  <2>1. book \in Staged(work, o, q)
    BY <1>1 DEF q
  <2>2. work \in Books /\ CoveredBook(work, broker) /\ q \in Nat
    BY <1>3, <1>4 DEF q
  <2>3. /\ todo \in SUBSET StagedOrders /\ NothingInTheWay(work, todo)
        /\ o \in todo
    BY <1>2, <1>3
  <2> QED
    BY <2>1, <2>2, <2>3, StagedCovers
<1>6. /\ c.pc = "staging" /\ c.snap = orders /\ c.work = book
      /\ c.inbox = {} /\ c.todo = todo \ {o}
  BY <1>2, <1>3, SerialFacts DEF Command
<1>7. work[o] = orders[o]
  BY <1>2, <1>3 DEF StagedSoFar
<1>8. \A x \in Orders \ StagedOrders : Active(work[x]) => work[x] = orders[x]
  BY <1>3 DEF StagedSoFar, Active, ActiveStatuses
<1>9. \A x \in Orders : Active(work[x]) => work[x].status # "replaced"
  BY DEF Active, ActiveStatuses
<1>10. ASSUME NEW x \in Orders
       PROVE  Moves(x, orders, book)
  <2>1. CASE x = o
    BY <1>5, <1>7, <2>1 DEF Moves
  <2>2. CASE x # o /\ book[x] = work[x]
    <3>1. CASE TakesOver(x, orders, work)
      <4>1. PICK e \in Orders : /\ orders[e].status \in ActiveStatuses
                                /\ work[e].status = "replaced"
                                /\ work[x].filled = orders[e].filled
        BY <3>1 DEF TakesOver
      <4>2. e # o
        BY <1>7, <4>1 DEF ActiveStatuses
      <4>3. book[e] = work[e]
        BY <1>5, <1>9, <4>1, <4>2
      <4> QED
        BY <2>2, <3>1, <4>1, <4>3 DEF Moves, TakesOver
    <3>2. CASE ~TakesOver(x, orders, work)
      BY <1>3, <2>2, <3>2 DEF Moves
    <3> QED
      BY <3>1, <3>2
  <2>3. CASE /\ x \notin StagedOrders
             /\ Active(work[x])
             /\ book[x].status = "replaced"
             /\ book[x].filled = work[x].filled
    <3>1. work[x] = orders[x] /\ work[x].filled \in Nat
      BY <1>3, <1>8, <2>3 DEF Books, PendingOrderRecord
    <3> QED
      BY <2>3, <3>1 DEF Moves, Finishes, Active, FinalStatuses
  <2> QED
    BY <1>5, <2>1, <2>2, <2>3
<1>11. StagedSoFar(c)
  <2>1. \A x \in todo \ {o} : book[x] = orders[x]
    BY <1>3, <1>5, StagedOrdersAssumption DEF StagedSoFar
  <2>2. \A x \in Orders \ StagedOrders : book[x] = orders[x] \/ book[x].status = "replaced"
    BY <1>2, <1>3, <1>5 DEF StagedSoFar
  <2> QED
    BY <1>6, <2>1, <2>2 DEF StagedSoFar
<1>12. Become(p, c)
  BY <1>1
<1> HIDE DEF c
<1>13. InboxFresh(c)
  BY <1>6 DEF InboxFresh
<1>14. SerialCommand(c, orders, broker)
  BY <1>3, <1>5, <1>6, <1>10, <1>11, <1>13 DEF SerialCommand
<1> QED
  BY <1>2, <1>12, <1>14, SerialLocalStep

-----------------------------------------------------------------------------
(* Requests to the broker                                                  *)

\* A command whose broker calls are over has answers about orders it has not
\* touched yet.
LEMMA ReconcileSerial ==
  ASSUME NEW file, NEW brk, NEW work, CoveredBook(work, brk),
         \A o \in Orders : Moves(o, file, work),
         NEW inbox, \A u, v \in inbox : u = v, \A u \in inbox : work = file
  PROVE  SerialCommand([Idle EXCEPT !.pc = "applying", !.snap = file,
                                    !.work = work, !.inbox = inbox], file, brk)
<1> DEFINE c == [Idle EXCEPT !.pc = "applying", !.snap = file,
                             !.work = work, !.inbox = inbox]
<1>1. /\ c.pc = "applying" /\ c.snap = file /\ c.work = work
      /\ c.inbox = inbox
  BY DEF Idle
<1> HIDE DEF c
<1>2. InboxFresh(c)
  BY <1>1 DEF InboxFresh
<1> QED
  BY <1>1, <1>2 DEF SerialCommand, c

\* The book a command has just loaded is the file's.
LEMMA LoadedFacts ==
  ASSUME IInv, SerialInv, NEW p \in Procs,
         cmd[p].pc \in {"placing", "cancelling", "fetching", "replacing", "scanning"}
  PROVE  /\ cmd[p].work = orders /\ cmd[p].snap = orders
         /\ cmd[p].inbox = {}
         /\ \A o \in Orders : Moves(o, orders, orders)
BY SerialFacts DEF SerialCommand, Moves, Same

\* The order that is submitted is covered by the record it was submitted from,
\* whether the answer arrives or not.
LEMMA PlaceOrderSerial ==
  ASSUME OneAtATime, IInv, SerialInv, NEW p \in Procs, NEW b \in BrokerIds, PlaceOrder(p, b)
  PROVE  SerialInv'
<1>1. /\ cmd[p].pc = "placing" /\ orders' = orders
      /\ AcceptOrder(b, cmd[p].order, Remaining(cmd[p].work[cmd[p].order]))
      /\ Reconcile(p, cmd[p].work, {Update(b, broker'[b])})
  BY DEF PlaceOrder
<1>2. PICK o \in Orders : o = cmd[p].order
  BY <1>1, CommandFacts DEF GoodCommand
<1>3. PICK file \in Books : file = orders
  BY SerialFacts
<1>4. cmd[p].work = file /\ cmd[p].snap = file /\ \A x \in Orders : Moves(x, file, file)
  BY <1>1, <1>3, LoadedFacts
<1>5. /\ GoodBook(file, broker) /\ CoveredBook(file, broker)
      /\ BrokerTypeOK /\ GoodBroker(broker)
  BY <1>3, SerialFacts
<1>6. Active(file[o])
  BY <1>1, <1>2, <1>4, SerialFacts DEF SerialCommand
<1>7. AcceptOrder(b, o, Remaining(file[o]))
  BY <1>1, <1>2, <1>4
<1>8. CoveredBook(file, broker')
  BY <1>5, <1>6, <1>7, PlacedIsCovered
<1> DEFINE inbox == {Update(b, broker'[b])}
           c == [Idle EXCEPT !.pc = "applying", !.snap = file,
                             !.work = file, !.inbox = inbox]
<1>9. Become(p, c)
  BY <1>1, <1>4 DEF Reconcile
<1>10. \A u, v \in inbox : u = v
  OBVIOUS
<1> HIDE DEF inbox
<1>11. SerialCommand(c, file, broker')
  BY <1>4, <1>8, <1>10, ReconcileSerial
<1> HIDE DEF c
<1>12. CoveredBook(orders', broker') /\ SerialCommand(c, orders', broker')
  BY <1>1, <1>3, <1>8, <1>11
<1> QED
  BY <1>9, <1>12, SerialStep

\* A cancel places nothing.
LEMMA SendCancelSerial ==
  ASSUME OneAtATime, IInv, SerialInv, NEW p \in Procs, SendCancel(p)
  PROVE  SerialInv'
<1> DEFINE c == [cmd[p] EXCEPT !.pc = "fetching"]
<1>1. /\ cmd[p].pc = "cancelling" /\ orders' = orders /\ Become(p, c)
      /\ AcceptCancel(cmd[p].work[cmd[p].order].brokerId)
  BY DEF SendCancel
<1>2. cmd[p].work[cmd[p].order].brokerId \in BrokerIds
  <2>1. cmd[p].order \in Orders /\ cmd[p].work[cmd[p].order].brokerId # NoBrokerId
    BY <1>1, CommandFacts DEF GoodCommand
  <2> QED
    BY <2>1, CommandFacts DEF Books, PendingOrderRecord
<1>3. Steady
  BY <1>1, <1>2, SerialFacts, BrokerIsSteady
<1>4. PICK file \in Books : file = orders
  BY SerialFacts
<1>5. CoveredBook(file, broker')
  BY <1>3, <1>4, SerialFacts, SteadyCovers
<1>6. /\ c.pc = "fetching" /\ c.snap = file /\ c.work = file
      /\ c.inbox = {}
  BY <1>1, <1>4, LoadedFacts, SerialFacts DEF Command
<1> HIDE DEF c
<1>7. SerialCommand(c, file, broker')
  BY <1>5, <1>6, LoadedSerial
<1>8. CoveredBook(orders', broker') /\ SerialCommand(c, orders', broker')
  BY <1>1, <1>4, <1>5, <1>7
<1> QED
  BY <1>1, <1>8, SerialStep

\* A cancelling command reads the order it is linked to.
LEMMA FetchSerial ==
  ASSUME OneAtATime, IInv, SerialInv, NEW p \in Procs, Fetch(p)
  PROVE  SerialInv'
<1> DEFINE b == cmd[p].work[cmd[p].order].brokerId
           inbox == {Update(b, broker[b])}
           c == [Idle EXCEPT !.pc = "applying", !.snap = orders,
                             !.work = orders, !.inbox = inbox]
<1>1. cmd[p].pc = "fetching" /\ UNCHANGED <<orders, broker>>
  BY DEF Fetch
<1>2. cmd[p].work = orders /\ cmd[p].snap = orders /\ \A x \in Orders : Moves(x, orders, orders)
  BY <1>1, LoadedFacts
<1>3. Become(p, c)
  BY <1>2 DEF Fetch, Reconcile
<1>4. \A u, v \in inbox : u = v
  OBVIOUS
<1> HIDE DEF b, inbox
<1>5. SerialCommand(c, orders, broker)
  BY <1>2, <1>4, SerialFacts, ReconcileSerial
<1> HIDE DEF c
<1> QED
  BY <1>1, <1>3, <1>5, SerialLocalStep

\* Without an answer the record is marked, and covers what it covered.
LEMMA FetchFailsSerial ==
  ASSUME OneAtATime, IInv, SerialInv, NEW p \in Procs, FetchFails(p)
  PROVE  SerialInv'
<1> DEFINE o == cmd[p].order
           r == [orders[o] EXCEPT !.brokerStatus = "pending_cancel"]
           next == [orders EXCEPT ![o].brokerStatus = "pending_cancel"]
           c == [Idle EXCEPT !.pc = "applying", !.snap = orders,
                             !.work = next, !.inbox = {}]
<1>1. cmd[p].pc = "fetching" /\ UNCHANGED <<orders, broker>>
  BY DEF FetchFails
<1>2. cmd[p].work = orders /\ cmd[p].snap = orders
  BY <1>1, LoadedFacts
<1>3. Become(p, c)
  BY <1>2 DEF FetchFails, Reconcile
<1>4. o \in Orders /\ orders[o].brokerId # NoBrokerId
  BY <1>1, <1>2, CommandFacts DEF GoodCommand
<1> HIDE DEF o
<1>5. /\ next[o] = r /\ \A other \in Orders \ {o} : next[other] = orders[other]
      /\ orders[o] \in PendingOrderRecord
  BY <1>4, SerialFacts DEF Books
<1>6. /\ r.brokerId = orders[o].brokerId /\ r.filled = orders[o].filled
      /\ r.status = orders[o].status /\ r.requested = orders[o].requested
      /\ r.reserved = orders[o].reserved /\ r.slot = orders[o].slot
  BY <1>5 DEF PendingOrderRecord
<1> HIDE DEF r, next
<1>7. orders[o] # Absent
  BY <1>4 DEF Absent
<1>8. /\ Remaining(r) = Remaining(orders[o])
      /\ Active(r) <=> Active(orders[o])
      /\ FullyReserved(r) <=> FullyReserved(orders[o])
      /\ Valid(r) <=> Valid(orders[o])
  BY <1>6 DEF Remaining, Active, FullyReserved, Valid
<1>9. CoveredBook(next, broker)
  <2>1. \A x \in Orders : next[x] = Absent \/ (Valid(next[x]) /\ next[x].status # "absent")
    BY <1>5, <1>6, <1>7, <1>8, SerialFacts DEF CoveredBook
  <2>2. ASSUME NEW b \in BrokerIds, Live(b, broker)
        PROVE  Covers(next, b, broker)
    <3>1. broker[b].client \in Orders /\ Covers(orders, b, broker)
      BY <2>2, SerialFacts, BuyOrdersAssumption DEF CoveredBook, Live
    <3> QED
      BY <1>5, <1>6, <1>8, <3>1 DEF Covers
  <2>3. \A x \in BuyOrders : Unplaced(x, broker) /\ Active(next[x]) => FullyReserved(next[x])
    BY <1>5, <1>8, SerialFacts, BuyOrdersAssumption DEF CoveredBook
  <2> QED
    BY <2>1, <2>2, <2>3 DEF CoveredBook
<1>10. \A x \in Orders : Moves(x, orders, next)
  BY <1>5, <1>6 DEF Moves, Same
<1>11. SerialCommand(c, orders, broker)
  BY <1>9, <1>10, ReconcileSerial
<1> HIDE DEF c
<1> QED
  BY <1>1, <1>3, <1>11, SerialLocalStep

\* The broker accepts a replacement: neither of its orders is live from then on,
\* and recording it keeps the book covered.
LEMMA SendReplaceSerial ==
  ASSUME OneAtATime, IInv, SerialInv, NEW p \in Procs, NEW new \in BrokerIds, SendReplace(p, new)
  PROVE  SerialInv'
<1>1. PICK file \in Books : file = orders
  BY SerialFacts
<1>2. cmd[p].pc = "replacing" /\ orders' = file
  BY <1>1 DEF SendReplace
<1>3. /\ cmd[p].work = file /\ cmd[p].snap = file
      /\ \A x \in Orders : Moves(x, file, file)
  BY <1>1, <1>2, LoadedFacts
<1>4. PICK o \in Orders, q \in Quantities : o = cmd[p].order /\ q = cmd[p].quantity
  BY <1>2, CommandFacts DEF GoodCommand
<1>5. q \in Nat /\ file[o] \in PendingOrderRecord
  BY DEF Quantities, Books
<1>6. PICK r \in Orders : r = Replacement[<<o, q>>]
  <2>1. <<o, q>> \in Orders \X Quantities
    OBVIOUS
  <2>2. Replacement[<<o, q>>] # NoOrder
    BY <1>2, <1>4, CommandFacts DEF GoodCommand
  <2> QED
    BY <2>1, <2>2, ReplacementAssumption
<1>7. PICK b \in BrokerIds : b = file[o].brokerId
  <2>1. file[o].brokerId # NoBrokerId
    BY <1>2, <1>3, <1>4, CommandFacts DEF GoodCommand
  <2> QED
    BY <1>5, <2>1 DEF PendingOrderRecord
<1>8. /\ BrokerTypeOK /\ GoodBroker(broker)
      /\ CoveredBook(file, broker) /\ broker[b].client = o
  BY <1>1, <1>7, SerialFacts, NoBrokerIdAssumption DEF GoodBook, GoodRecord
<1> DEFINE rec  == ReplacementRecord(file[o], r, q)
           next == Replaced(file, o, r, rec)
           u    == Update(new, broker'[new])
           done == Applied(next, r, u)
           c    == [Idle EXCEPT !.pc = "applying", !.snap = file,
                                !.work = done, !.inbox = {}]
<1>9. /\ AcceptReplace(b, new, r, q)
      /\ \/ /\ q > file[o].filled
            /\ CanReplace(file, o, r, rec)
            /\ CanApply(next, r, u)
            /\ Become(p, c)
         \/ Become(p, Idle)
  BY <1>3, <1>4, <1>6, <1>7 DEF SendReplace, Reconcile
<1>10. /\ CoveredBook(file, broker')
       /\ broker'[new].client = r
       /\ \A a \in BrokerIds : Live(a, broker') => a \notin {b, new}
       /\ broker'[b].client = o
  BY <1>8, <1>9, ReplacedIsCovered
<1>11. /\ broker' \in [BrokerIds -> BrokerOrder] /\ GoodBroker(broker')
       /\ broker'[new].status = "accepted"
  <2>1. /\ BrokerKept
        /\ broker'[new] = [ client |-> r, status |-> "accepted", quantity |-> q,
                            filled |-> broker[b].filled, replaces |-> b ]
    BY <1>5, <1>8, <1>9, AcceptReplaceKeeps
  <2> QED
    BY <2>1 DEF BrokerKept, BrokerTypeOK
<1>12. CASE Become(p, Idle)
  <2>1. CoveredBook(orders', broker') /\ SerialCommand(Idle, orders', broker')
    BY <1>2, <1>10, IdleSerial
  <2> QED
    BY <1>12, <2>1, SerialStep
<1>13. CASE /\ q > file[o].filled
            /\ CanReplace(file, o, r, rec)
            /\ CanApply(next, r, u)
            /\ Become(p, c)
  <2>1. rec \in PendingOrderRecord /\ rec.status = "pending" /\ rec.filled = file[o].filled
    BY <1>5, <1>13, ReplacementRecordType
  <2>2. u \in BrokerOrderUpdate
    BY <1>10, <1>11, ReadIsGood
  <2>3. u.status = "accepted"
    BY <1>11 DEF Update
  <2> HIDE DEF rec, u
  <2>4. CanReplace(file, o, r, rec) /\ CanApply(Replaced(file, o, r, rec), r, u)
    BY <1>13
  <2>5. /\ CoveredBook(done, broker')
        /\ \A x \in Orders : Moves(x, file, done)
    <3> HIDE DEF next
    <3>1. /\ CoveredBook(Applied(Replaced(file, o, r, rec), r, u), broker')
          /\ \A x \in Orders : Moves(x, file, Applied(Replaced(file, o, r, rec), r, u))
      BY <1>8, <1>10, <1>11, <2>1, <2>2, <2>3, <2>4, ReplacementCovers
    <3> QED
      BY <3>1 DEF next
  <2> HIDE DEF done
  <2>6. SerialCommand(c, file, broker')
    BY <2>5, ReconcileSerial
  <2> HIDE DEF c
  <2>7. CoveredBook(orders', broker') /\ SerialCommand(c, orders', broker')
    BY <1>2, <1>10, <2>6
  <2> QED
    BY <1>13, <2>7, SerialStep
<1> QED
  BY <1>9, <1>12, <1>13

-----------------------------------------------------------------------------
(* Reading the broker's orders, applying what was read, and writing        *)

\* The broker lists each of its orders once, and each is another order's here.
LEMMA ScanSerial ==
  ASSUME OneAtATime, IInv, SerialInv, NEW p \in Procs, Scan(p)
  PROVE  SerialInv'
<1> DEFINE listed == {Update(b, broker[b]) : b \in {b \in BrokerIds : Open(b)}}
           seen(o) == \E u \in listed : u.id = cmd[p].work[o].brokerId \/ u.client = o
           rest == {o \in cmd[p].todo : ~seen(o)}
           c == [cmd[p] EXCEPT !.pc = "reading", !.inbox = listed, !.todo = rest]
<1>1. cmd[p].pc = "scanning" /\ Become(p, c) /\ UNCHANGED <<orders, broker>>
  BY DEF Scan
<1>2. cmd[p].work = orders /\ cmd[p].snap = orders /\ \A x \in Orders : Moves(x, orders, orders)
  BY <1>1, LoadedFacts
<1>3. \A u, v \in listed : u.client = v.client => u = v
  <2> SUFFICES ASSUME NEW a \in BrokerIds, Open(a), NEW b \in BrokerIds, Open(b),
                      Update(a, broker[a]).client = Update(b, broker[b]).client
               PROVE  Update(a, broker[a]) = Update(b, broker[b])
    OBVIOUS
  <2>1. broker[a].client \in Orders /\ broker[a].client = broker[b].client
    BY SerialFacts, WorkingIsPlaced DEF Update
  <2>2. a = b
    BY <2>1, SerialFacts, NoOrderAssumption DEF GoodBroker
  <2> QED
    BY <2>2
<1> HIDE DEF listed, rest
<1>4. /\ c.pc = "reading" /\ c.snap = orders /\ c.work = orders
      /\ c.inbox = listed
  BY <1>2, SerialFacts DEF Command
<1> HIDE DEF c
<1>5. InboxFresh(c)
  BY <1>3, <1>4 DEF InboxFresh
<1>6. SerialCommand(c, orders, broker)
  BY <1>2, <1>4, <1>5, SerialFacts DEF SerialCommand
<1> QED
  BY <1>1, <1>6, SerialLocalStep

\* The listing fails, and the orders are read one by one.
LEMMA ScanFailsSerial ==
  ASSUME OneAtATime, IInv, SerialInv, NEW p \in Procs, ScanFails(p)
  PROVE  SerialInv'
<1> DEFINE c == [cmd[p] EXCEPT !.pc = "reading"]
<1>1. cmd[p].pc = "scanning" /\ Become(p, c) /\ UNCHANGED <<orders, broker>>
  BY DEF ScanFails
<1>2. /\ c.pc = "reading" /\ c.snap = orders /\ c.work = orders
      /\ c.inbox = {}
  BY <1>1, LoadedFacts, SerialFacts DEF Command
<1> HIDE DEF c
<1>3. SerialCommand(c, orders, broker)
  BY <1>2, LoadedSerial, SerialFacts
<1> QED
  BY <1>1, <1>3, SerialLocalStep

\* What a reading command knows of its book and its answers.
LEMMA ReadingFacts ==
  ASSUME IInv, SerialInv, NEW p \in Procs, cmd[p].pc = "reading"
  PROVE  /\ cmd[p].snap = orders
         /\ CoveredBook(cmd[p].work, broker)
         /\ \A o \in Orders : Moves(o, orders, cmd[p].work)
         /\ InboxFresh(cmd[p])
         /\ cmd[p].todo # {} => cmd[p].work = orders
BY SerialFacts DEF SerialCommand

\* The answer of an order read by its id takes the place of the listed one.
LEMMA ReadOrderSerial ==
  ASSUME OneAtATime, IInv, SerialInv, NEW p \in Procs, NEW o \in Orders, ReadOrder(p, o)
  PROVE  SerialInv'
<1>1. PICK b \in Found(p, o) :
        Become(p, [cmd[p] EXCEPT
          !.todo  = @ \ {o},
          !.inbox = {u \in @ : u.id # b} \cup {Update(b, broker[b])}])
  BY DEF ReadOrder
<1> DEFINE kept == {u \in cmd[p].inbox : u.id # b}
           inbox == kept \cup {Update(b, broker[b])}
           c == [cmd[p] EXCEPT !.todo = cmd[p].todo \ {o}, !.inbox = inbox]
<1>2. /\ cmd[p].pc = "reading" /\ cmd[p].todo # {}
      /\ UNCHANGED <<orders, broker>> /\ Become(p, c)
  BY <1>1 DEF ReadOrder
<1>3. b \in BrokerIds /\ broker[b].client \in Orders
  <2>1. CASE cmd[p].work[o].brokerId # NoBrokerId
    <3>1. cmd[p].work[o].brokerId \in BrokerIds
      BY <2>1, CommandFacts DEF Books, PendingOrderRecord
    <3>2. broker[cmd[p].work[o].brokerId].client = o
      BY <2>1, CommandFacts DEF GoodBook, GoodRecord
    <3> QED
      BY <1>1, <2>1, <3>1, <3>2 DEF Found
  <2>2. CASE cmd[p].work[o].brokerId = NoBrokerId
    BY <1>1, <2>2 DEF Found
  <2> QED
    BY <2>1, <2>2
<1>4. \A u \in kept : u.client # broker[b].client
  <2> SUFFICES ASSUME NEW u \in cmd[p].inbox, u.client = broker[b].client
               PROVE  u.id = b
    OBVIOUS
  <2>1. broker[u.id].client = u.client /\ u.id \in BrokerIds
    BY SerialFacts DEF GoodUpdate, BrokerOrderUpdate
  <2> QED
    BY <1>3, <2>1, SerialFacts, NoOrderAssumption DEF GoodBroker
<1>5. Update(b, broker[b]).client = broker[b].client
  BY DEF Update
<1>6. \A u, v \in inbox : u.client = v.client => u = v
  <2>1. \A u, v \in kept : u.client = v.client => u = v
    BY <1>2, ReadingFacts DEF InboxFresh
  <2> HIDE DEF kept
  <2> QED
    BY <1>4, <1>5, <2>1
<1> HIDE DEF inbox
<1>7. /\ c.pc = "reading" /\ c.snap = orders /\ c.work = orders
      /\ c.inbox = inbox
  BY <1>2, ReadingFacts, SerialFacts DEF Command
<1> HIDE DEF c
<1>8. InboxFresh(c)
  BY <1>6, <1>7 DEF InboxFresh
<1>9. \A x \in Orders : Moves(x, orders, orders)
  BY DEF Moves, Same
<1>10. SerialCommand(c, orders, broker)
  BY <1>7, <1>8, <1>9, SerialFacts DEF SerialCommand
<1> QED
  BY <1>2, <1>10, SerialLocalStep

\* An order the broker does not know, or cannot be asked about, is skipped.
LEMMA SkipOrderSerial ==
  ASSUME OneAtATime, IInv, SerialInv, NEW p \in Procs, NEW o \in Orders, SkipOrder(p, o)
  PROVE  SerialInv'
<1> DEFINE c == [cmd[p] EXCEPT !.todo = cmd[p].todo \ {o}]
<1>1. /\ cmd[p].pc = "reading" /\ cmd[p].todo # {}
      /\ UNCHANGED <<orders, broker>> /\ Become(p, c)
  BY DEF SkipOrder
<1>2. /\ c.pc = "reading" /\ c.snap = orders /\ c.work = orders
      /\ c.inbox = cmd[p].inbox /\ cmd[p].work = orders /\ cmd[p].snap = orders
  BY <1>1, ReadingFacts, SerialFacts DEF Command
<1> HIDE DEF c
<1>3. InboxFresh(c)
  BY <1>1, <1>2, ReadingFacts DEF InboxFresh
<1>4. \A x \in Orders : Moves(x, orders, orders)
  BY DEF Moves, Same
<1>5. SerialCommand(c, orders, broker)
  BY <1>2, <1>3, <1>4, SerialFacts DEF SerialCommand
<1> QED
  BY <1>1, <1>5, SerialLocalStep

\* One update is applied, or matches nothing: its order has not moved before, and
\* no other order moves.
LEMMA ApplyUpdateSerial ==
  ASSUME OneAtATime, IInv, SerialInv, NEW p \in Procs, NEW u \in cmd[p].inbox, ApplyUpdate(p, u)
  PROVE  SerialInv'
<1>1. PICK v \in BrokerOrderUpdate : v = u
  BY SerialFacts
<1>2. PICK work \in Books : work = cmd[p].work
  BY SerialFacts
<1> DEFINE rest == cmd[p].inbox \ {v}
           o == Matching(work, v)
           next == Applied(work, o, v)
<1>3. /\ cmd[p].pc \in {"reading", "applying"} /\ cmd[p].todo = {}
      /\ UNCHANGED <<orders, broker>>
  BY SerialFacts DEF ApplyUpdate, Computing, SerialCommand
<1>4. /\ cmd[p].snap = orders /\ CoveredBook(work, broker)
      /\ \A x \in Orders : Moves(x, orders, work)
      /\ InboxFresh(cmd[p])
  BY <1>2, <1>3, SerialFacts DEF SerialCommand
<1>5. \A w \in rest : w.client \in Orders /\ w.client # v.client /\ work[w.client] = orders[w.client]
  BY <1>1, <1>2, <1>4, SerialFacts DEF InboxFresh, BrokerOrderUpdate
<1>6. work[v.client] = orders[v.client] /\ v.client \in Orders
  BY <1>1, <1>2, <1>4 DEF InboxFresh, BrokerOrderUpdate
<1>7. \A x, y \in rest : x.client = y.client => x = y
  BY <1>4 DEF InboxFresh
<1>8. CASE Become(p, [cmd[p] EXCEPT !.inbox = rest])
  <2> DEFINE c == [cmd[p] EXCEPT !.inbox = rest]
  <2> HIDE DEF rest
  <2>1. /\ c.pc \in {"reading", "applying"} /\ c.snap = orders /\ c.work = work
        /\ c.inbox = rest /\ c.todo = {}
    BY <1>2, <1>3, <1>4, SerialFacts DEF Command
  <2>2. Become(p, c)
    BY <1>8
  <2> HIDE DEF c
  <2>3. InboxFresh(c)
    BY <1>5, <1>7, <2>1 DEF InboxFresh
  <2>4. SerialCommand(c, orders, broker)
    BY <1>4, <2>1, <2>3 DEF SerialCommand
  <2> QED
    BY <1>3, <2>2, <2>4, SerialLocalStep
<1>9. CASE /\ o # NoOrder
           /\ CanApply(work, o, v)
           /\ Become(p, [cmd[p] EXCEPT !.inbox = rest, !.work = next])
  <2> DEFINE c == [cmd[p] EXCEPT !.inbox = rest, !.work = next]
  <2>1. Become(p, c)
    BY <1>9
  <2>2. /\ CoveredBook(next, broker)
        /\ \/ Same(work[v.client], next[v.client])
           \/ Fills(work[v.client], next[v.client])
           \/ Finishes(work[v.client], next[v.client])
        /\ \A other \in Orders \ {v.client} : next[other] = work[other]
    <3>1. GoodBook(work, broker) /\ GoodUpdate(v, broker)
      BY <1>1, <1>2, SerialFacts
    <3>2. Matching(work, v) # NoOrder /\ CanApply(work, Matching(work, v), v)
      BY <1>9
    <3> QED
      BY <1>4, <3>1, <3>2, SerialFacts, AppliedCovers
  <2> HIDE DEF rest, next
  <2>3. /\ c.pc \in {"reading", "applying"} /\ c.snap = orders /\ c.work = next
        /\ c.inbox = rest /\ c.todo = {}
    BY <1>3, <1>4, SerialFacts DEF Command
  <2> HIDE DEF c
  <2>4. InboxFresh(c)
    BY <1>5, <1>7, <2>2, <2>3 DEF InboxFresh
  <2>5. ASSUME NEW x \in Orders
        PROVE  Moves(x, orders, next)
    <3>1. CASE x = v.client
      BY <1>6, <2>2, <3>1 DEF Moves
    <3>2. CASE x # v.client /\ TakesOver(x, orders, work)
      <4>1. PICK e \in Orders : /\ orders[e].status \in ActiveStatuses
                                /\ work[e].status = "replaced"
                                /\ work[x].filled = orders[e].filled
        BY <3>2 DEF TakesOver
      <4>2. e # v.client
        BY <1>6, <4>1 DEF ActiveStatuses
      <4> QED
        BY <2>2, <3>2, <4>1, <4>2 DEF Moves, TakesOver
    <3>3. CASE x # v.client /\ ~TakesOver(x, orders, work)
      BY <1>4, <2>2, <3>3 DEF Moves
    <3> QED
      BY <3>1, <3>2, <3>3
  <2>6. SerialCommand(c, orders, broker)
    BY <2>2, <2>3, <2>4, <2>5 DEF SerialCommand
  <2> QED
    BY <1>3, <2>1, <2>6, SerialLocalStep
<1> QED
  BY <1>1, <1>2, <1>8, <1>9 DEF ApplyUpdate

\* The book that is written is the file's, moved along.
LEMMA SaveFacts ==
  ASSUME IInv, SerialInv, NEW p \in Procs, Save(p)
  PROVE  /\ orders' \in {orders, cmd[p].work}
         /\ CoveredBook(cmd[p].work, broker)
         /\ \A o \in Orders : Moves(o, orders, cmd[p].work)
         /\ Become(p, Idle) /\ broker' = broker
BY SerialFacts DEF Save, Computing, SerialCommand

LEMMA SaveSerial ==
  ASSUME OneAtATime, IInv, SerialInv, NEW p \in Procs, Save(p)
  PROVE  SerialInv'
<1>1. CoveredBook(orders', broker')
  <2>1. CASE orders' = orders
    BY <2>1, SaveFacts, SerialFacts
  <2>2. CASE orders' = cmd[p].work
    BY <2>2, SaveFacts
  <2> QED
    BY <2>1, <2>2, SaveFacts
<1>2. SerialCommand(Idle, orders', broker')
  BY IdleSerial
<1> QED
  BY <1>1, <1>2, SaveFacts, SerialStep

-----------------------------------------------------------------------------
(* The invariant                                                           *)

\* The broker acts on its own: what it closes or fills needs no less cover.
LEMMA BrokerStepSerial ==
  ASSUME IInv, SerialInv, BrokerStep, UNCHANGED <<orders, cmd>>
  PROVE  SerialInv'
<1>1. Steady
  BY BrokerIsSteady DEF IInv, TypeOK, BrokerTypeOK
<1>2. CoveredBook(orders, broker')
  <2>1. PICK file : file = orders
    OBVIOUS
  <2>2. CoveredBook(file, broker')
    BY <1>1, <2>1, SteadyCovers DEF SerialInv
  <2> QED
    BY <2>1, <2>2
<1>3. ASSUME NEW p \in Procs
      PROVE  SerialCommand(cmd[p], orders, broker')
  <2>1. SerialCommand(cmd[p], orders, broker)
    BY DEF SerialInv
  <2>2. PICK work : work = cmd[p].work
    OBVIOUS
  <2>3. CoveredBook(work, broker) => CoveredBook(work, broker')
    BY <1>1, SteadyCovers
  <2> QED
    BY <2>1, <2>2, <2>3 DEF SerialCommand
<1> QED
  BY <1>2, <1>3 DEF SerialInv

\* Every step of the system keeps what holds with one command at a time.
LEMMA SerialNextKeeps ==
  ASSUME OneAtATime, IInv, SerialInv, [Next]_vars
  PROVE  SerialInv'
<1>1. ASSUME NEW p \in Procs, Begin(p)
      PROVE  SerialInv'
  BY <1>1, BeginSerial
<1>2. ASSUME NEW p \in Procs, Proceed(p)
      PROVE  SerialInv'
  <2>1. CASE StageLoad(p)
    BY <2>1, StageLoadSerial
  <2>2. ASSUME NEW o \in Orders, StageOrder(p, o)
        PROVE  SerialInv'
    BY <2>2, StageOrderSerial
  <2>3. ASSUME NEW o \in Orders, RaiseOnStage(p, o)
        PROVE  SerialInv'
    BY <2>3, EndSerial DEF RaiseOnStage
  <2>4. ASSUME NEW o \in Orders, ReadOrder(p, o)
        PROVE  SerialInv'
    BY <2>4, ReadOrderSerial
  <2>5. ASSUME NEW o \in Orders, UnknownOrder(p, o)
        PROVE  SerialInv'
    BY <2>5, SkipOrderSerial DEF UnknownOrder
  <2>6. ASSUME NEW b \in BrokerIds, PlaceOrder(p, b)
        PROVE  SerialInv'
    BY <2>6, PlaceOrderSerial
  <2>7. ASSUME NEW b \in BrokerIds, SendReplace(p, b)
        PROVE  SerialInv'
    BY <2>7, SendReplaceSerial
  <2>8. CASE CallFails(p)
    BY <2>8, EndSerial DEF CallFails
  <2>9. CASE SendCancel(p)
    BY <2>9, SendCancelSerial
  <2>10. CASE Fetch(p)
    BY <2>10, FetchSerial
  <2>11. CASE Scan(p)
    BY <2>11, ScanSerial
  <2>12. ASSUME NEW u \in cmd[p].inbox, ApplyUpdate(p, u)
         PROVE  SerialInv'
    BY <2>12, ApplyUpdateSerial
  <2>13. ASSUME NEW u \in cmd[p].inbox, RaiseOnUpdate(p, u)
         PROVE  SerialInv'
    BY <2>13, EndSerial DEF RaiseOnUpdate
  <2>14. CASE Save(p)
    BY <2>14, SaveSerial
  <2> QED
    BY <1>2, <2>1, <2>2, <2>3, <2>4, <2>5, <2>6, <2>7, <2>8, <2>9, <2>10,
       <2>11, <2>12, <2>13, <2>14
    DEF Proceed
<1>3. ASSUME NEW p \in Procs, Fails(p)
      PROVE  SerialInv'
  <2>1. CASE Abandon(p)
    BY <2>1, EndSerial DEF Abandon
  <2>2. CASE FetchFails(p)
    BY <2>2, FetchFailsSerial
  <2>3. CASE ScanFails(p)
    BY <2>3, ScanFailsSerial
  <2>4. ASSUME NEW o \in Orders, ReadFails(p, o)
        PROVE  SerialInv'
    BY <2>4, SkipOrderSerial DEF ReadFails
  <2> QED
    BY <1>3, <2>1, <2>2, <2>3, <2>4 DEF Fails
<1>4. CASE BrokerStep /\ UNCHANGED <<orders, cmd>>
  BY <1>4, BrokerStepSerial
<1>5. CASE UNCHANGED vars
  BY <1>5 DEF vars, SerialInv
<1> QED
  BY <1>1, <1>2, <1>3, <1>4, <1>5 DEF Next

\* At the start there is nothing to cover.
LEMMA SerialInit == Init => SerialInv
<1> SUFFICES ASSUME Init
             PROVE  SerialInv
  OBVIOUS
<1>1. \A b \in BrokerIds : ~Live(b, broker)
  BY DEF Init, BrokerInit, NotPlaced, Live, BrokerOpenStatuses
<1>2. \A o \in Orders : orders[o] = Absent /\ ~Active(orders[o])
  BY DEF Init, NoBook, Absent, Active, ActiveStatuses
<1>3. CoveredBook(orders, broker)
  BY <1>1, <1>2, BuyOrdersAssumption DEF CoveredBook
<1>4. \A p \in Procs : SerialCommand(cmd[p], orders, broker)
  BY IdleSerial DEF Init
<1> QED
  BY <1>3, <1>4 DEF SerialInv

\* One command at a time keeps the file's cover of the broker's orders.
THEOREM SerialInvariantHolds ==
  ASSUME OneAtATime
  PROVE  Spec => [](IInv /\ SerialInv)
<1>1. Init => IInv /\ SerialInv
  BY InitGood, SerialInit
<1>2. IInv /\ SerialInv /\ [Next]_vars => (IInv /\ SerialInv)'
  BY NextKeeps, SerialNextKeeps
<1> QED
  BY <1>1, <1>2, PTL DEF Spec

-----------------------------------------------------------------------------
(* The properties                                                          *)

\* What the broker can still buy on a submitted order is reserved in the file,
\* although answers get lost, reads fail and commands die in the middle: the
\* file's record is never the one with less left to buy.
THEOREM CapitalIsReserved ==
  ASSUME OneAtATime
  PROVE  Spec => []OpenOrdersReserved
<1>1. IInv /\ SerialInv => OpenOrdersReserved
  <2> SUFFICES ASSUME IInv, SerialInv, NEW b \in BrokerIds, Open(b), NeverReplaced(b),
                      broker[b].client \in BuyOrders
               PROVE  LET r == orders[broker[b].client] IN
                      /\ Active(r)
                      /\ r.brokerId \in {b, NoBrokerId}
                      /\ r.slot
                      /\ r.reserved >= (broker[b].quantity - broker[b].filled) * UnitPrice
    BY DEF OpenOrdersReserved
  <2> DEFINE o == broker[b].client
             r == orders[o]
             n == broker[b].quantity - broker[b].filled
  <2>1. Live(b, broker)
    BY DEF Open, NeverReplaced, Live
  <2>2. /\ CoveredBook(orders, broker) /\ orders \in Books /\ GoodBook(orders, broker)
        /\ broker \in [BrokerIds -> BrokerOrder]
    BY DEF SerialInv, IInv, TypeOK, BrokerTypeOK
  <2>3. o \in Orders /\ r \in PendingOrderRecord /\ GoodRecord(o, r, broker)
    BY <2>2, BuyOrdersAssumption DEF Books, GoodBook
  <2>4. /\ Active(r) /\ r.brokerId \in {b, NoBrokerId}
        /\ r.requested = broker[b].quantity
        /\ FullyReserved(r)
    BY <2>1, <2>2 DEF CoveredBook, Covers
  <2>5. broker[b].filled \in Nat /\ broker[b].quantity \in Nat
    BY <2>2 DEF BrokerOrder
  <2>6. r.filled <= broker[b].filled
    BY <2>3, <2>4, <2>5 DEF GoodRecord
  <2> HIDE DEF r
  <2>7. Remaining(r) \in Nat /\ n \in Int /\ n <= Remaining(r)
    BY <2>3, <2>4, <2>5, <2>6 DEF Remaining, PendingOrderRecord, Active
  <2>8. r.reserved \in Nat /\ UnitPrice \in Nat
    BY <2>3, UnitPriceAssumption DEF PendingOrderRecord
  <2> HIDE DEF n
  <2>9. n * UnitPrice <= Remaining(r) * UnitPrice
    BY <2>7, <2>8, CostOrder
  <2>10. r.slot /\ r.reserved >= Remaining(r) * UnitPrice
    BY <2>4 DEF FullyReserved
  <2>11. n * UnitPrice \in Int /\ Remaining(r) * UnitPrice \in Int
    BY <2>7, <2>8
  <2>12. r.reserved >= n * UnitPrice
    BY <2>8, <2>9, <2>10, <2>11
  <2> QED
    BY <2>4, <2>10, <2>12 DEF r, n
<1> QED
  BY <1>1, SerialInvariantHolds, PTL

\* No other step of a command touches the file.
LEMMA OnlySaveWrites ==
  ASSUME [Next]_vars
  PROVE  orders' = orders \/ \E p \in Procs : Save(p)
<1>1. ASSUME NEW p \in Procs, Begin(p)
      PROVE  orders' = orders
  BY <1>1 DEF Begin, BeginStage, BeginSubmit, BeginCancel, BeginReplace, BeginSync, Load
<1>2. ASSUME NEW p \in Procs, Proceed(p)
      PROVE  orders' = orders \/ Save(p)
  <2>1. ASSUME NEW o \in Orders,
               \/ StageOrder(p, o) \/ RaiseOnStage(p, o) \/ ReadOrder(p, o)
               \/ UnknownOrder(p, o)
        PROVE  orders' = orders
    BY <2>1 DEF StageOrder, RaiseOnStage, ReadOrder, UnknownOrder, SkipOrder
  <2>2. ASSUME NEW b \in BrokerIds, PlaceOrder(p, b) \/ SendReplace(p, b)
        PROVE  orders' = orders
    BY <2>2 DEF PlaceOrder, SendReplace
  <2>3. ASSUME NEW u \in cmd[p].inbox, ApplyUpdate(p, u) \/ RaiseOnUpdate(p, u)
        PROVE  orders' = orders
    BY <2>3 DEF ApplyUpdate, RaiseOnUpdate
  <2>4. ASSUME StageLoad(p) \/ CallFails(p) \/ SendCancel(p) \/ Fetch(p) \/ Scan(p)
        PROVE  orders' = orders
    BY <2>4 DEF StageLoad, CallFails, SendCancel, Fetch, Scan
  <2> QED
    BY <1>2, <2>1, <2>2, <2>3, <2>4 DEF Proceed
<1>3. ASSUME NEW p \in Procs, Fails(p)
      PROVE  orders' = orders
  BY <1>3 DEF Fails, Abandon, FetchFails, ScanFails, ReadFails, SkipOrder
<1> QED
  BY <1>1, <1>2, <1>3 DEF Next, vars

\* A write moves each order along one arc of the ledger.
LEMMA LedgerStep ==
  ASSUME IInv, SerialInv, IInv', [Next]_vars
  PROVE  [Ledger!LedgerNext]_LedgerView
<1>1. orders' \in Books
  BY DEF IInv, TypeOK
<1>2. \A o \in Orders : LedgerView[o] = [phase |-> orders[o].status, filled |-> orders[o].filled]
  BY DEF LedgerView
<1>3. \A o \in Orders :
        LedgerView'[o] = [phase |-> orders'[o].status, filled |-> orders'[o].filled]
  BY DEF LedgerView
<1>4. \A o \in Orders : /\ LedgerView[o].phase = orders[o].status
                        /\ LedgerView[o].filled = orders[o].filled
                        /\ LedgerView'[o].phase = orders'[o].status
                        /\ LedgerView'[o].filled = orders'[o].filled
  <2> DEFINE entry(r) == [phase |-> r.status, filled |-> r.filled]
  <2>1. \A r \in PendingOrderRecord : entry(r).phase = r.status /\ entry(r).filled = r.filled
    BY DEF PendingOrderRecord
  <2>2. \A o \in Orders : orders[o] \in PendingOrderRecord /\ orders'[o] \in PendingOrderRecord
    BY <1>1 DEF IInv, TypeOK, Books
  <2>3. \A o \in Orders : LedgerView[o] = entry(orders[o]) /\ LedgerView'[o] = entry(orders'[o])
    BY <1>2, <1>3
  <2> HIDE DEF entry
  <2> QED
    BY <2>1, <2>2, <2>3
<1>5. LedgerView' \in [Orders -> Ledger!Entry]
  <2>1. \A o \in Orders : orders'[o] \in PendingOrderRecord
    BY <1>1 DEF Books
  <2> QED
    BY <2>1 DEF LedgerView, Ledger!Entry, Ledger!ActivePhases, Ledger!FinalPhases,
                PendingOrderRecord, ActiveStatuses, FinalStatuses
<1>6. CASE orders' = orders
  BY <1>6 DEF LedgerView
<1>7. ASSUME NEW p \in Procs, Save(p)
      PROVE  [Ledger!LedgerNext]_LedgerView
  <2>1. CASE orders' = cmd[p].work
    <3>1. ASSUME NEW o \in Orders
          PROVE  Ledger!Evolves(o)
      <4>1. Moves(o, orders, orders')
        BY <1>7, <2>1, SaveFacts
      <4>2. CASE Same(orders[o], orders'[o])
        BY <1>2, <1>3, <4>2 DEF Same, Ledger!Evolves
      <4>3. CASE StagedAgain(orders[o], orders'[o])
        <5>1. Ledger!Stages(o)
          BY <1>2, <1>3, <1>4, <4>3
          DEF StagedAgain, Ledger!Stages, ActiveStatuses, Ledger!ActivePhases
        <5> QED
          BY <5>1 DEF Ledger!Evolves
      <4>4. CASE Fills(orders[o], orders'[o])
        <5>1. Ledger!Progresses(o)
          BY <1>4, <4>4
          DEF Fills, Ledger!Progresses, ActiveStatuses, Ledger!ActivePhases
        <5> QED
          BY <5>1 DEF Ledger!Evolves
      <4>5. CASE Finishes(orders[o], orders'[o])
        <5>1. Ledger!Ends(o)
          BY <1>4, <4>5
          DEF Finishes, Ledger!Ends, ActiveStatuses, Ledger!ActivePhases,
              FinalStatuses, Ledger!FinalPhases
        <5> QED
          BY <5>1 DEF Ledger!Evolves
      <4>6. CASE TakesOver(o, orders, orders')
        <5>1. Ledger!Replaces(o)
          BY <1>4, <4>6
          DEF TakesOver, Ledger!Replaces, ActiveStatuses, Ledger!ActivePhases
        <5> QED
          BY <5>1 DEF Ledger!Evolves
      <4> QED
        BY <4>1, <4>2, <4>3, <4>4, <4>5, <4>6 DEF Moves
    <3> QED
      BY <1>5, <3>1 DEF Ledger!LedgerNext
  <2> QED
    BY <1>6, <1>7, <2>1, SaveFacts
<1>8. orders' = orders \/ \E p \in Procs : Save(p)
  BY OnlySaveWrites
<1> QED
  BY <1>6, <1>7, <1>8

\* The order file implements the order lifecycle: between any two writes, an
\* order has moved along one arc of the ledger at most.
THEOREM FileIsLedger ==
  ASSUME OneAtATime
  PROVE  Spec => IsLedger
<1>1. Init => Ledger!LedgerInit
  BY DEF Init, NoBook, Absent, Ledger!LedgerInit, LedgerView
<1>2. (IInv /\ SerialInv) /\ (IInv /\ SerialInv)' /\ [Next]_vars => [Ledger!LedgerNext]_LedgerView
  BY LedgerStep
<1> QED
  BY <1>1, <1>2, SerialInvariantHolds, PTL DEF Spec, IsLedger, Ledger!LedgerSpec
=============================================================================
