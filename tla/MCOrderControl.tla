--------------------------- MODULE MCOrderControl ---------------------------
(***************************************************************************)
(* Small instances of OrderControl.  Every order is a BUY order of one     *)
(* symbol, staged for a decision of its own; r1 inherits s1's.  Replacing  *)
(* s1 by MaxQty shares makes r1, and no other replacement is asked for.    *)
(***************************************************************************)
EXTENDS OrderProperties

CONSTANTS s1, s2, r1, symbol, decision, another, operator, second

MCSymbolOf    == [o \in Orders |-> symbol]
MCDecisionOf  == [o \in Orders |-> IF o = s2 THEN another ELSE decision]
MCReplacement ==
  [oq \in Orders \X Quantities |->
     IF oq = <<s1, MaxQty>> THEN r1 ELSE NoOrder]

AllCommands == {"stage", "submit", "cancel", "replace", "sync"}

MCOneOperator  == [p \in Procs |-> AllCommands]
MCTwoOperators ==
  [p \in Procs |-> IF p = operator THEN {"stage", "submit", "replace"}
                   ELSE {"stage", "submit", "cancel", "sync"}]
=============================================================================
