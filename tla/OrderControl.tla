---------------------------- MODULE OrderControl ----------------------------
(***************************************************************************)
(* The commands that move orders: staging an execution batch, and the      *)
(* submit, cancel, replace and sync commands of the operator control       *)
(* service (src/src/bot/api/control_api.py, src/src/bot/main.py).          *)
(*                                                                         *)
(* Each process runs one command at a time.  A command loads the order     *)
(* file once, calls the broker, computes a new book from what it loaded    *)
(* and what the broker answered, and writes the whole book back.  Nothing  *)
(* locks the file: the HTTP server answers every request on a thread of    *)
(* its own and the CLI commands are other processes, so that the broker    *)
(* and other commands act between any two steps of a command.  A command   *)
(* whose checks reject it changes nothing and is left out; the policy      *)
(* checks of the safety state are the module SafetyPolicy's.               *)
(***************************************************************************)
EXTENDS BrokerOrders

CONSTANTS
  Procs,         \* command processes and server threads
  Commands,      \* process -> the commands it is given
  StagedOrders,  \* the ids execution batches give to orders
  MaxQty,        \* bound on the quantity of a staged or replacing order
  Replacement    \* <<order id, quantity>> -> id of the replacing order

Quantities == 1 .. MaxQty

ASSUME MaxQtyAssumption == MaxQty \in Nat
ASSUME StagedOrdersAssumption == StagedOrders \subseteq Orders
\* The strategies only ever buy, and the id of a staged order is a hash over what
\* a decision is made of: one decision about a symbol makes one id.
ASSUME StagedIdsAssumption ==
  /\ StagedOrders \subseteq BuyOrders
  /\ \A o, e \in StagedOrders :
       SymbolOf[o] = SymbolOf[e] /\ DecisionOf[o] = DecisionOf[e] /\ DecisionOf[o] # NoDecision
         => o = e
ASSUME ReplacementAssumption ==
  Replacement \in [Orders \X Quantities -> (Orders \ StagedOrders) \cup {NoOrder}]
ASSUME ReplacementInherits ==
  \A o \in Orders, q \in Quantities :
    LET r == Replacement[<<o, q>>] IN
    r # NoOrder => /\ r # o
                   /\ SymbolOf[r] = SymbolOf[o]
                   /\ DecisionOf[r] = DecisionOf[o]
                   /\ r \in BuyOrders <=> o \in BuyOrders

VARIABLES
  orders,   \* pending_orders.json
  cmd       \* process -> the command it runs

vars == <<orders, broker, cmd>>

NoBook == [o \in Orders |-> Absent]

Command ==
  [ pc       : {"idle", "assessed", "staging", "placing", "cancelling",
                "fetching", "replacing", "scanning", "reading", "applying"},
    order    : Orders \cup {NoOrder},
    quantity : Nat,
    snap     : Books,                  \* the book as loaded
    work     : Books,                  \* the book to be written
    todo     : SUBSET Orders,          \* orders still to be staged or read
    inbox    : SUBSET BrokerOrderUpdate ]  \* updates still to be applied

Idle ==
  [ pc |-> "idle", order |-> NoOrder, quantity |-> 0, snap |-> NoBook,
    work |-> NoBook, todo |-> {}, inbox |-> {} ]

TypeOK ==
  /\ orders \in Books
  /\ BrokerTypeOK
  /\ cmd \in [Procs -> Command]

Init ==
  /\ orders = NoBook
  /\ BrokerInit
  /\ cmd = [p \in Procs |-> Idle]

-----------------------------------------------------------------------------
(* Steps every command is made of                                          *)

Become(p, c) == cmd' = [cmd EXCEPT ![p] = c]

Load(p, pc, o, q, S) ==
  /\ cmd[p].pc = "idle"
  /\ Become(p, [ pc |-> pc, order |-> o, quantity |-> q, snap |-> orders,
                 work |-> orders, todo |-> S, inbox |-> {} ])
  /\ UNCHANGED <<orders, broker>>

\* The broker calls are over and these updates are left to reconcile.
Reconcile(p, work, updates) ==
  Become(p, [Idle EXCEPT !.pc = "applying", !.snap = cmd[p].snap,
                         !.work = work, !.inbox = updates])

Computing(p) ==
  cmd[p].pc \in {"staging", "reading", "applying"} /\ cmd[p].todo = {}

\* reconcile_broker_order_updates, one update.  The updates are sorted by a
\* timestamp of the broker's, which the local order of things says nothing of.
ApplyUpdate(p, u) ==
  /\ Computing(p)
  /\ u \in cmd[p].inbox
  /\ LET o == Matching(cmd[p].work, u) IN
     \/ /\ o = NoOrder
        /\ Become(p, [cmd[p] EXCEPT !.inbox = @ \ {u}])
     \/ /\ o # NoOrder
        /\ CanApply(cmd[p].work, o, u)
        /\ Become(p, [cmd[p] EXCEPT !.inbox = @ \ {u},
                                    !.work = Applied(cmd[p].work, o, u)])
  /\ UNCHANGED <<orders, broker>>

\* A ValueError ends the command: no update of the batch is saved.
RaiseOnUpdate(p, u) ==
  /\ Computing(p)
  /\ u \in cmd[p].inbox
  /\ LET o == Matching(cmd[p].work, u) IN
     o # NoOrder /\ ~CanApply(cmd[p].work, o, u)
  /\ Become(p, Idle)
  /\ UNCHANGED <<orders, broker>>

\* _save_pending_order_state_if_changed: the whole book is written.
Save(p) ==
  /\ Computing(p)
  /\ cmd[p].inbox = {}
  /\ orders' = IF cmd[p].work = cmd[p].snap THEN orders ELSE cmd[p].work
  /\ Become(p, Idle)
  /\ UNCHANGED broker

\* A broker call that fails leaves the book unsaved and ends the command.
CallFails(p) ==
  /\ cmd[p].pc \in {"placing", "cancelling", "replacing"}
  /\ Become(p, Idle)
  /\ UNCHANGED <<orders, broker>>

\* The process dies, or the answer to a request that the broker has carried
\* out never arrives.
Abandon(p) ==
  /\ cmd[p].pc # "idle"
  /\ Become(p, Idle)
  /\ UNCHANGED <<orders, broker>>

-----------------------------------------------------------------------------
(* generate-orders: assess candidates, then stage the batch                *)

\* Candidates whose symbol has an active BUY order are not actionable, judged
\* by the file as it is when the batch is assessed.
BeginStage(p, S, q) ==
  /\ cmd[p].pc = "idle"
  /\ S # {}
  /\ \A o \in S, other \in Orders :
       ReservesCapacity(orders, other) => SymbolOf[other] # SymbolOf[o]
  /\ Become(p, [Idle EXCEPT !.pc = "assessed", !.todo = S, !.quantity = q])
  /\ UNCHANGED <<orders, broker>>

StageLoad(p) ==
  /\ cmd[p].pc = "assessed"
  /\ Become(p, [cmd[p] EXCEPT !.pc = "staging", !.snap = orders, !.work = orders])
  /\ UNCHANGED <<orders, broker>>

\* _find_active_pending_order_for_decision
ActiveForDecision(book, o) ==
  { e \in Orders : /\ Active(book[e])
                   /\ DecisionOf[o] # NoDecision
                   /\ SymbolOf[e] = SymbolOf[o]
                   /\ DecisionOf[e] = DecisionOf[o] }

\* The books staging one order may lead to; none when a helper raises.  An id
\* that is already in the book is overwritten by the new record.
Staged(book, o, q) ==
  LET r      == NewRecord(o, q)
      active == ActiveForDecision(book, o)
  IN  IF book[o] # Absent
      THEN IF r = book[o] \/ CanUpsert(book, o, r) THEN {Upsert(book, o, r)} ELSE {}
      ELSE IF active # {}
      THEN {Replaced(book, e, o, r) : e \in {e \in active : CanReplace(book, e, o, r)}}
      ELSE IF CanCreate(book, o, r) THEN {Upsert(book, o, r)} ELSE {}

StageOrder(p, o) ==
  /\ cmd[p].pc = "staging"
  /\ o \in cmd[p].todo
  /\ \E book \in Staged(cmd[p].work, o, cmd[p].quantity) :
       Become(p, [cmd[p] EXCEPT !.todo = @ \ {o}, !.work = book])
  /\ UNCHANGED <<orders, broker>>

RaiseOnStage(p, o) ==
  /\ cmd[p].pc = "staging"
  /\ o \in cmd[p].todo
  /\ Staged(cmd[p].work, o, cmd[p].quantity) = {}
  /\ Become(p, Idle)
  /\ UNCHANGED <<orders, broker>>

-----------------------------------------------------------------------------
(* submit_pending_order                                                    *)

\* Not linked to a broker order that may still be alive.
Submittable(r) ==
  \/ r.brokerId = NoBrokerId
  \/ r.brokerStatus \in {"cancelled", "expired", "replaced", "rejected"}

BeginSubmit(p, o) ==
  /\ Active(orders[o])
  /\ Submittable(orders[o])
  /\ Load(p, "placing", o, 0, {})

PlaceOrder(p, b) ==
  /\ cmd[p].pc = "placing"
  /\ AcceptOrder(b, cmd[p].order, Remaining(cmd[p].work[cmd[p].order]))
  /\ Reconcile(p, cmd[p].work, {Update(b, broker'[b])})
  /\ UNCHANGED orders

-----------------------------------------------------------------------------
(* cancel_pending_order: DELETE, then GET                                  *)

BeginCancel(p, o) ==
  /\ Active(orders[o])
  /\ orders[o].brokerId # NoBrokerId
  /\ Load(p, "cancelling", o, 0, {})

SendCancel(p) ==
  /\ cmd[p].pc = "cancelling"
  /\ AcceptCancel(cmd[p].work[cmd[p].order].brokerId)
  /\ Become(p, [cmd[p] EXCEPT !.pc = "fetching"])
  /\ UNCHANGED orders

Fetch(p) ==
  /\ cmd[p].pc = "fetching"
  /\ LET b == cmd[p].work[cmd[p].order].brokerId IN
     Reconcile(p, cmd[p].work, {Update(b, broker[b])})
  /\ UNCHANGED <<orders, broker>>

\* _mark_pending_order_broker_cancel_pending
FetchFails(p) ==
  /\ cmd[p].pc = "fetching"
  /\ Reconcile(p, [cmd[p].work EXCEPT ![cmd[p].order].brokerStatus = "pending_cancel"], {})
  /\ UNCHANGED <<orders, broker>>

-----------------------------------------------------------------------------
(* replace_pending_order                                                   *)

BeginReplace(p, o, q) ==
  /\ Active(orders[o])
  /\ orders[o].brokerStatus # "pending_cancel"
  /\ orders[o].brokerId # NoBrokerId
  /\ Replacement[<<o, q>>] # NoOrder
  /\ Load(p, "replacing", o, q, {})

\* _build_replacement_pending_order_record
ReplacementRecord(existing, new, q) ==
  [NewRecord(new, q) EXCEPT
     !.filled   = existing.filled,
     !.reserved = IF new \in BuyOrders THEN (q - existing.filled) * UnitPrice ELSE 0]

\* The replacement is recorded after the broker has accepted it; a helper
\* that raises at this point leaves the broker's new order unknown here.
SendReplace(p, new) ==
  /\ cmd[p].pc = "replacing"
  /\ LET book == cmd[p].work
         o    == cmd[p].order
         q    == cmd[p].quantity
         r    == Replacement[<<o, q>>]
         rec  == ReplacementRecord(book[o], r, q)
         next == Replaced(book, o, r, rec)
         u    == Update(new, broker'[new])
     IN  /\ AcceptReplace(book[o].brokerId, new, r, q)
         /\ IF /\ q > book[o].filled
               /\ CanReplace(book, o, r, rec)
               /\ CanApply(next, r, u)
            THEN Reconcile(p, Applied(next, r, u), {})
            ELSE Become(p, Idle)
  /\ UNCHANGED orders

-----------------------------------------------------------------------------
(* force_broker_sync                                                       *)

\* No ids: the broker's open orders, then the active orders it did not list.
BeginSync(p, S) ==
  LET selected == {o \in Orders : Active(orders[o]) /\ (S = {} \/ o \in S)} IN
  /\ S # {} => selected # {}
  /\ Load(p, IF S = {} THEN "scanning" ELSE "reading", NoOrder, 0, selected)

Scan(p) ==
  LET listed == {Update(b, broker[b]) : b \in {b \in BrokerIds : Open(b)}}
      seen(o) == \E u \in listed : u.id = cmd[p].work[o].brokerId \/ u.client = o
  IN
  /\ cmd[p].pc = "scanning"
  /\ Become(p, [cmd[p] EXCEPT !.pc = "reading", !.inbox = listed,
                              !.todo = {o \in @ : ~seen(o)}])
  /\ UNCHANGED <<orders, broker>>

ScanFails(p) ==
  /\ cmd[p].pc = "scanning"
  /\ Become(p, [cmd[p] EXCEPT !.pc = "reading"])
  /\ UNCHANGED <<orders, broker>>

\* Only orders that are linked are asked about.
FoundByLink(p, o) == {b \in BrokerIds : b = cmd[p].work[o].brokerId}

\* get_order by broker id, or by client order id when there is none.
Found(p, o) ==
  { b \in BrokerIds :
      IF cmd[p].work[o].brokerId # NoBrokerId
      THEN b = cmd[p].work[o].brokerId
      ELSE broker[b].client = o }

ReadOrder(p, o) ==
  /\ cmd[p].pc = "reading"
  /\ o \in cmd[p].todo
  /\ \E b \in Found(p, o) :
       Become(p, [cmd[p] EXCEPT
         !.todo  = @ \ {o},
         !.inbox = {u \in @ : u.id # b} \cup {Update(b, broker[b])}])
  /\ UNCHANGED <<orders, broker>>

SkipOrder(p, o) ==
  /\ cmd[p].pc = "reading"
  /\ o \in cmd[p].todo
  /\ Become(p, [cmd[p] EXCEPT !.todo = @ \ {o}])
  /\ UNCHANGED <<orders, broker>>

UnknownOrder(p, o) == SkipOrder(p, o) /\ Found(p, o) = {}
ReadFails(p, o)    == SkipOrder(p, o) /\ Found(p, o) # {}

-----------------------------------------------------------------------------
(* The specification                                                       *)

Begin(p) ==
  \/ /\ "stage" \in Commands[p]
     /\ \E S \in SUBSET StagedOrders, q \in Quantities : BeginStage(p, S, q)
  \/ /\ "submit" \in Commands[p]
     /\ \E o \in Orders : BeginSubmit(p, o)
  \/ /\ "cancel" \in Commands[p]
     /\ \E o \in Orders : BeginCancel(p, o)
  \/ /\ "replace" \in Commands[p]
     /\ \E o \in Orders, q \in Quantities : BeginReplace(p, o, q)
  \/ /\ "sync" \in Commands[p]
     /\ \E S \in SUBSET Orders : BeginSync(p, S)

\* The steps that take a command to its end.
Proceed(p) ==
  \/ StageLoad(p)
  \/ \E o \in Orders :
       StageOrder(p, o) \/ RaiseOnStage(p, o) \/ ReadOrder(p, o) \/ UnknownOrder(p, o)
  \/ \E b \in BrokerIds : PlaceOrder(p, b) \/ SendReplace(p, b)
  \/ CallFails(p)
  \/ SendCancel(p)
  \/ Fetch(p)
  \/ Scan(p)
  \/ \E u \in cmd[p].inbox : ApplyUpdate(p, u) \/ RaiseOnUpdate(p, u)
  \/ Save(p)

\* The process, or a read of the broker, fails.
Fails(p) ==
  \/ Abandon(p)
  \/ FetchFails(p)
  \/ ScanFails(p)
  \/ \E o \in Orders : ReadFails(p, o)

Next ==
  \/ \E p \in Procs : Begin(p) \/ Proceed(p) \/ Fails(p)
  \/ BrokerStep /\ UNCHANGED <<orders, cmd>>

Spec == Init /\ [][Next]_vars
=============================================================================
