--------------------------- MODULE OrderLifecycle ---------------------------
(***************************************************************************)
(* What the order file promises its readers (reports, the dashboard, the   *)
(* reservation state), whatever the broker and the operator do: an order's *)
(* life as a phase and a count of filled shares.  One write of the file    *)
(* may move any number of orders, each along one of these arcs.            *)
(***************************************************************************)
EXTENDS Integers

CONSTANT Orders

VARIABLE ledger   \* order id -> its phase and the shares it has filled

ActivePhases == {"pending", "partially_filled"}
FinalPhases  == {"filled", "cancelled", "expired", "replaced"}

Entry == [phase : ActivePhases \cup FinalPhases \cup {"absent"}, filled : Nat]

LedgerInit == ledger = [o \in Orders |-> [phase |-> "absent", filled |-> 0]]

\* A batch stages a new order, or one that has come to its end.
Stages(o) ==
  /\ ledger[o].phase \notin ActivePhases
  /\ ledger'[o] = [phase |-> "pending", filled |-> 0]

\* A replacing order starts with the fills of the order it replaces, which
\* leaves the book in the same write.
Replaces(o) ==
  /\ ledger[o].phase = "absent"
  /\ ledger'[o].phase = "pending"
  /\ \E e \in Orders : /\ ledger[e].phase \in ActivePhases
                       /\ ledger'[e].phase = "replaced"
                       /\ ledger'[o].filled = ledger[e].filled

\* Fills are only ever added.
Progresses(o) ==
  /\ ledger[o].phase \in ActivePhases
  /\ ledger'[o].phase = "partially_filled"
  /\ ledger'[o].filled > 0
  /\ ledger'[o].filled >= ledger[o].filled

Ends(o) ==
  /\ ledger[o].phase \in ActivePhases
  /\ ledger'[o].phase \in FinalPhases
  /\ ledger'[o].filled >= ledger[o].filled
  /\ ledger'[o].phase # "filled" => ledger'[o].filled = ledger[o].filled

Evolves(o) ==
  \/ ledger'[o] = ledger[o]
  \/ Stages(o)
  \/ Replaces(o)
  \/ Progresses(o)
  \/ Ends(o)

LedgerNext == ledger' \in [Orders -> Entry] /\ \A o \in Orders : Evolves(o)

LedgerSpec == LedgerInit /\ [][LedgerNext]_ledger
=============================================================================
