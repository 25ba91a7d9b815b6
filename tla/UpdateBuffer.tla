--------------------------- MODULE UpdateBuffer ----------------------------
(***************************************************************************)
(* The stream adapter's buffer (LiveUpdateBuffer and                       *)
(* _build_cycle_ingestion in src/src/bot/ingestion/streaming.py): the last *)
(* update of each type, with the symbols of the earlier ones of its date,  *)
(* and how long it has held something no cycle has seen.                   *)
(***************************************************************************)
EXTENDS Integers

CONSTANTS
  UpdateTypes,    \* the types the feed's messages are turned into
  Symbols,
  Dates,
  Session,        \* the date the service was started for
  Held,           \* symbols of the portfolio file
  Review,         \* the cycle reviews the portfolio
  FlushInterval,  \* age at which the buffer is due
  None

ASSUME SessionAssumption == Session \in Dates
ASSUME FlushIntervalAssumption == FlushInterval \in Nat \ {0}
ASSUME NoneAssumption == None \notin Nat
ASSUME HeldAssumption == Held \subseteq Symbols

Updates == [date : Dates, symbols : SUBSET Symbols]

ASSUME NoUpdateAssumption == None \notin Updates

\* Ages are counted up to the bound the code compares them with.
Age(bound) == 0 .. bound \cup {None}

Older(age, ticks, bound) ==
  IF age = None THEN None ELSE IF age + ticks < bound THEN age + ticks ELSE bound

Buffer ==
  [latest : [UpdateTypes -> Updates \cup {None}], dirty : Age(FlushInterval)]

EmptyBuffer == [latest |-> [t \in UpdateTypes |-> None], dirty |-> None]

\* The newer update takes the older one's place.
LastUpdate(existing, incoming) == incoming

\* _merge_updates
MergeUpdates(existing, incoming) ==
  IF existing = None THEN incoming
  ELSE IF existing.date # incoming.date THEN incoming
  ELSE [date |-> incoming.date, symbols |-> existing.symbols \cup incoming.symbols]

\* Every update starts the interval anew.
AddUpdateRestarting(buffer, type, update) ==
  [latest |-> [buffer.latest EXCEPT ![type] = MergeUpdates(@, update)],
   dirty |-> 0]

\* LiveUpdateBuffer.add_update
AddUpdate(buffer, type, update) ==
  [latest |-> [buffer.latest EXCEPT ![type] = MergeUpdates(@, update)],
   dirty |-> IF buffer.dirty = None THEN 0 ELSE buffer.dirty]

\* LiveUpdateBuffer.current_updates: the types with something for the session
CurrentTypes(buffer) ==
  {t \in UpdateTypes : /\ buffer.latest[t] # None
                       /\ buffer.latest[t].date = Session}

\* LiveUpdateBuffer.flush_due
FlushDue(buffer) ==
  /\ buffer.dirty # None
  /\ CurrentTypes(buffer) # {}
  /\ buffer.dirty >= FlushInterval

\* _resolved_monitor_updates: quote bars stand for a refresh of the candidates,
\* and of the portfolio if they are about a position, or there is none.
ResolvedTypes(buffer) ==
  LET current == CurrentTypes(buffer)
      bars == "quote_bar_batch_refresh"
  IN current
     \cup {t \in {"candidate_universe_refresh_batch"} : bars \in current}
     \cup {t \in {"portfolio_symbol_refresh_batch"} :
             /\ Review /\ bars \in current
             /\ Held = {} \/ buffer.latest[bars].symbols \cap Held # {}}

\* required_ingestion_update_types
RequiredTypes ==
  {"candidate_universe_refresh_batch"}
  \cup {t \in {"portfolio_symbol_refresh_batch"} : Review}

\* _build_cycle_ingestion finds every update type the request needs.
Complete(buffer) == RequiredTypes \subseteq ResolvedTypes(buffer)

\* LiveUpdateBuffer.mark_flushed
MarkFlushed(buffer) == [buffer EXCEPT !.dirty = None]

BufferOlder(buffer, ticks) ==
  [buffer EXCEPT !.dirty = Older(@, ticks, FlushInterval)]
=============================================================================
