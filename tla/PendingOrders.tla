--------------------------- MODULE PendingOrders ---------------------------
(***************************************************************************)
(* The order records of src/src/bot/data/pending_orders.py and the pure    *)
(* lifecycle helpers over them.  An order book is the "orders" mapping of  *)
(* PendingOrderState: a function from order ids to records, where an id    *)
(* that is not a key of the mapping holds the record Absent.               *)
(*                                                                         *)
(* A helper that raises ValueError in the code is split in two: a          *)
(* predicate that says when it returns, and the record it returns then.    *)
(* An order id is a hash over symbol, side and decision id, and a          *)
(* replacement inherits all three, so they are functions of the id here.   *)
(* Notional amounts are whole multiples of a tick; UnitPrice ticks are the *)
(* price of one share, the same for every order.                           *)
(***************************************************************************)
EXTENDS Integers

CONSTANTS
  Orders,       \* local order ids
  BuyOrders,    \* the ids whose side is BUY; the others are SELL
  SymbolOf,     \* order id -> symbol
  DecisionOf,   \* order id -> linked decision id, or NoDecision
  NoDecision,
  BrokerIds,    \* broker order ids
  NoBrokerId,   \* broker_order_id is None
  UnitPrice     \* ticks per share

ASSUME BuyOrdersAssumption == BuyOrders \subseteq Orders
ASSUME NoBrokerIdAssumption == NoBrokerId \notin BrokerIds
ASSUME UnitPriceAssumption == UnitPrice \in Nat \ {0}

ActiveStatuses == {"pending", "partially_filled"}
FinalStatuses  == {"filled", "cancelled", "expired", "replaced"}

\* What a broker reports of an order.  "accepted" stands for every status
\* that reconciliation only records: done_for_day, stopped, suspended, unknown.
BrokerOpenStatuses ==
  {"accepted", "partially_filled", "pending_cancel", "pending_replace"}
BrokerClosedStatuses ==
  {"filled", "cancelled", "expired", "rejected", "replaced"}
BrokerStatuses == BrokerOpenStatuses \cup BrokerClosedStatuses

PendingOrderRecord ==
  [ status       : ActiveStatuses \cup FinalStatuses \cup {"absent"},
    requested    : Nat,
    filled       : Nat,
    reserved     : Nat,
    slot         : BOOLEAN,
    brokerId     : BrokerIds \cup {NoBrokerId},
    brokerStatus : BrokerStatuses \cup {"none"} ]

\* An id that is not in the mapping.
Absent ==
  [ status |-> "absent", requested |-> 0, filled |-> 0, reserved |-> 0,
    slot |-> FALSE, brokerId |-> NoBrokerId, brokerStatus |-> "none" ]

Books == [Orders -> PendingOrderRecord]

-----------------------------------------------------------------------------
(* Views of one record and of a book                                       *)

Remaining(r) == IF r.filled < r.requested THEN r.requested - r.filled ELSE 0

Active(r) == r.status \in ActiveStatuses /\ Remaining(r) > 0

\* PendingOrderRecord.__post_init__ accepts the record.
Valid(r) ==
  /\ r.requested > 0
  /\ r.filled <= r.requested
  /\ r.status \in ActiveStatuses => Remaining(r) > 0
  /\ r.status \in FinalStatuses => r.reserved = 0 /\ ~r.slot

ReservesCapacity(book, o) == Active(book[o]) /\ o \in BuyOrders

\* _validate_active_buy_order_uniqueness returns.
UniqueActiveBuys(book) ==
  \A o1, o2 \in Orders :
    /\ ReservesCapacity(book, o1)
    /\ ReservesCapacity(book, o2)
    /\ SymbolOf[o1] = SymbolOf[o2]
    => o1 = o2

Upsert(book, o, r) == [book EXCEPT ![o] = r]

\* Only the record is checked, not the book it makes.
CanUpsertUnchecked(book, o, r) == Valid(r)

\* upsert_pending_order_state(book, r) returns.
CanUpsert(book, o, r) == Valid(r) /\ UniqueActiveBuys(Upsert(book, o, r))

-----------------------------------------------------------------------------
(* Building and advancing one record                                       *)

\* build_pending_order_record_from_execution_order
NewRecord(o, q) ==
  [ status       |-> "pending",
    requested    |-> q,
    filled       |-> 0,
    reserved     |-> IF o \in BuyOrders THEN q * UnitPrice ELSE 0,
    slot         |-> o \in BuyOrders,
    brokerId     |-> NoBrokerId,
    brokerStatus |-> "none" ]

ReservationPrice(r) ==
  IF Remaining(r) > 0 /\ r.reserved > 0
  THEN r.reserved \div Remaining(r)
  ELSE UnitPrice

\* An order that has ended is taken up again.
CanMarkAnyPartiallyFilled(r, q) == q > 0 /\ q < r.requested /\ q >= r.filled

CanMarkPartiallyFilled(r, q) ==
  /\ Active(r)
  /\ q > 0
  /\ q < r.requested
  /\ q >= r.filled

WithSlotFreed(o, r, q) ==
  [r EXCEPT !.status   = "partially_filled",
            !.filled   = q,
            !.reserved = (r.requested - q) * ReservationPrice(r),
            !.slot     = FALSE]

\* _with_fill_progress
WithFillProgress(o, r, q) ==
  [r EXCEPT !.status   = "partially_filled",
            !.filled   = q,
            !.reserved = IF o \in BuyOrders
                         THEN (r.requested - q) * ReservationPrice(r)
                         ELSE 0,
            !.slot     = o \in BuyOrders]

\* The order leaves the book's active part and gives its reservation back.
Released(r, status) ==
  [r EXCEPT !.status = status, !.reserved = 0, !.slot = FALSE]

\* mark_pending_order_filled, and _finalize_pending_order for the other final
\* statuses: a repeated call returns the book unchanged, otherwise the order
\* must be active.
CanFinalize(r, status) == r.status = status \/ Active(r)

\* Every order that ends is taken for filled.
FinalizedInFull(r, status) ==
  IF r.status = status THEN r
  ELSE [Released(r, status) EXCEPT !.filled = r.requested]

Finalized(r, status) ==
  IF r.status = status THEN r
  ELSE IF status = "filled"
       THEN [Released(r, status) EXCEPT !.filled = r.requested]
       ELSE Released(r, status)

-----------------------------------------------------------------------------
(* Operations on a book                                                    *)

\* create_pending_order returns: the id is new, or holds the same record.
CanCreate(book, o, r) ==
  \/ book[o] = Absent /\ CanUpsert(book, o, r)
  \/ book[o] = r

\* replace_pending_order: the existing order becomes "replaced" and the
\* replacement is created in the resulting book.
AfterReplaced(book, o) == Upsert(book, o, Released(book[o], "replaced"))

CanReplace(book, o, new, r) ==
  /\ Active(book[o])
  /\ new # o
  /\ CanUpsert(book, o, Released(book[o], "replaced"))
  /\ CanCreate(AfterReplaced(book, o), new, r)

Replaced(book, o, new, r) == Upsert(AfterReplaced(book, o), new, r)
=============================================================================
