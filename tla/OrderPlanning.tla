--------------------------- MODULE OrderPlanning ---------------------------
(***************************************************************************)
(* generate-orders (src/src/bot/main.py), with what happens to the orders  *)
(* and to the portfolio file between its runs.                             *)
(*                                                                         *)
(* A run loads the portfolio file and the order book, assesses the signals *)
(* of the day, ranks them and stages what fits, into the book as it is by  *)
(* then; the broker and the operator act in between.  There is one run at  *)
(* a time.  Fills reach the book by the broker sync; the portfolio file is *)
(* changed by the operator alone.                                          *)
(***************************************************************************)
EXTENDS ExecutionPriority

CONSTANTS
  MaxDay,     \* bound on the days
  MaxSheets,  \* bound on the runs that find something to stage
  MaxEdits    \* bound on the operator's changes of the portfolio file

\* The strategies only enter (_generate_orders), and the id of an order names its symbol.
ASSUME IdsAssumption ==
  /\ Orders = Symbols \X (1 .. MaxDay) /\ BuyOrders = Orders
  /\ \A o \in Orders : SymbolOf[o] = o[1]
  /\ DOMAIN DecisionOf = Orders

ASSUME PlanBoundsAssumption == MaxDay \in Nat \ {0} /\ MaxSheets \in Nat /\ MaxEdits \in Nat

VARIABLES
  day,         \* today
  portfolio,   \* the portfolio file
  edits,       \* the operator's changes of it so far
  book,        \* pending_orders.json
  held,        \* symbol -> shares at the broker
  sheet,       \* what the run in progress is about to stage, or NoSheet
  sheets       \* runs that found something so far

planVars == <<day, portfolio, edits, book, held, sheet, sheets>>

NoSheet == [batch |-> <<>>, informed |-> FALSE]

PlanInit ==
  /\ day = 1
  /\ portfolio = [s \in Symbols |-> NoPosition]
  /\ edits = 0
  /\ book = [o \in Orders |-> Absent]
  /\ held = [s \in Symbols |-> 0]
  /\ sheet = NoSheet
  /\ sheets = 0

-----------------------------------------------------------------------------
(* The command                                                             *)

\* Every share that no active order accounts for is in the portfolio file.
Informed ==
  \A s \in Symbols :
    held[s] <= portfolio[s].shares
                 + SumFunction([o \in {x \in Reserving(book) : SymbolOf[x] = s} |->
                                  book[o].filled - Absorbed(portfolio, book, o)])

GenerateOrders(signals, market) ==
  /\ sheet = NoSheet /\ sheets < MaxSheets
  /\ sheets' = sheets + 1
  /\ LET batch == ExecutionBatch(
                    Ranking(AssessAll(Evaluations(signals, 1, {}), market, portfolio, book),
                            ReservationState(portfolio, book)))
     IN /\ batch # <<>>
        /\ sheet' = [ batch    |-> [i \in DOMAIN batch |->
                                      [ order  |-> <<batch[i].candidate.signal.symbol, day>>,
                                        shares |-> batch[i].candidate.sizing.shares ]],
                      informed |-> Informed ]
  /\ UNCHANGED <<day, portfolio, edits, book, held>>

\* The book with the first orders of the batch: an id that is staged again takes
\* the place of its record, a new one is created.
Staged(b, batch) ==
  LET after[n \in 0 .. Len(batch)] ==
        IF n = 0 THEN b
        ELSE LET e == batch[n]
             IN Upsert(after[n - 1], e.order, NewRecord(e.order, e.shares))
  IN after

\* _stage_execution_batch_pending_orders loads the book again.  It raises, and
\* saves nothing, where the book already has an active order for a symbol.
Stage ==
  /\ sheet # NoSheet
  /\ LET staged == Staged(book, sheet.batch)
     IN book' = IF \A n \in DOMAIN sheet.batch :
                     LET e == sheet.batch[n]
                     IN CanUpsert(staged[n - 1], e.order, NewRecord(e.order, e.shares))
                THEN staged[Len(sheet.batch)]
                ELSE book
  /\ sheet' = NoSheet
  /\ UNCHANGED <<day, portfolio, edits, held, sheets>>

-----------------------------------------------------------------------------
(* The broker and the operator                                             *)

\* The broker has filled more, up to the whole order, and the sync takes it into
\* the book: _finalize_pending_order or _with_fill_progress.
Fill(o, q) ==
  /\ Active(book[o]) /\ q > book[o].filled /\ q <= book[o].requested
  /\ book' = [book EXCEPT ![o] = IF q = book[o].requested THEN Finalized(book[o], "filled")
                                 ELSE WithFillProgress(o, book[o], q)]
  /\ held' = [held EXCEPT ![SymbolOf[o]] = @ + q - book[o].filled]
  /\ UNCHANGED <<day, portfolio, edits, sheet, sheets>>

\* The order is cancelled or expires.
OrderEnds(o) ==
  /\ Active(book[o])
  /\ book' = [book EXCEPT ![o] = Finalized(book[o], "cancelled")]
  /\ UNCHANGED <<day, portfolio, edits, held, sheet, sheets>>

\* upsert-position: the operator enters what the broker shows, with or without
\* the decision of an order; the decision of the position before is kept.
UpsertPosition(s, decision) ==
  /\ held[s] > 0 /\ edits < MaxEdits
  /\ edits' = edits + 1
  /\ portfolio' = [portfolio EXCEPT ![s] =
        [ shares   |-> held[s],
          decision |-> IF decision # NoDecision THEN decision ELSE @.decision ]]
  /\ UNCHANGED <<day, book, held, sheet, sheets>>

\* The shares are sold and remove-position is run.
SellPosition(s) ==
  /\ portfolio[s].shares > 0 /\ edits < MaxEdits
  /\ edits' = edits + 1
  /\ held' = [held EXCEPT ![s] = 0]
  /\ portfolio' = [portfolio EXCEPT ![s] = NoPosition]
  /\ UNCHANGED <<day, book, sheet, sheets>>

NextDay ==
  /\ day < MaxDay
  /\ sheet = NoSheet
  /\ day' = day + 1
  /\ UNCHANGED <<portfolio, edits, book, held, sheet, sheets>>

PlanNext ==
  \/ \E signals \in SignalSets, market \in Markets : GenerateOrders(signals, market)
  \/ Stage
  \/ \E o \in Orders : \E q \in {1, book[o].requested} : Fill(o, q)
  \/ \E o \in Orders : OrderEnds(o)
  \/ \E s \in Symbols :
       \E d \in {DecisionOf[o] : o \in {x \in Orders : SymbolOf[x] = s /\ book[x] # Absent}}
                \cup {NoDecision} :
         UpsertPosition(s, d)
  \/ \E s \in Symbols : SellPosition(s)
  \/ NextDay

PlanSpec == PlanInit /\ [][PlanNext]_planVars

-----------------------------------------------------------------------------
(* Properties                                                              *)

PlanTypeOK ==
  /\ day \in 1 .. MaxDay /\ edits \in 0 .. MaxEdits /\ sheets \in 0 .. MaxSheets
  /\ portfolio \in [Symbols -> [shares : Nat, decision : Range(DecisionOf) \cup {NoDecision}]]
  /\ \A o \in Orders : book[o] = Absent \/ Valid(book[o])
  /\ held \in [Symbols -> Nat]

\* Spent on shares or reserved for orders, whatever the files say of it.
Committed ==
  SumFunction([s \in Symbols |-> held[s] * UnitPrice]) + Reserved(book, Reserving(book))

SheetCost == SumFunction([i \in DOMAIN sheet.batch |-> sheet.batch[i].shares * UnitPrice])

SheetSymbols == {SymbolOf[sheet.batch[i].order] : i \in DOMAIN sheet.batch}

Occupied == {s \in Symbols : held[s] > 0} \cup {SymbolOf[o] : o \in Reserving(book)}

\* Capital and slots (annotate_execution_priority over the reservation state):
\* what a run orders fits beside everything bought and ordered by the time it
\* is staged, partial fills, positions entered without their decision and
\* changes between planning and staging included, as long as the portfolio
\* file had the shares of ended orders when the run was planned.
SheetFits ==
  sheet.informed =>
    /\ Committed + SheetCost <= Account.equity
    /\ Cardinality(Occupied) + Len(sheet.batch) <= Limits.positions

\* Sector limits (the exposures that are rolled forward during a run): no run
\* brings more symbols of a sector into the portfolio than are allowed.
SectorsSpread ==
  sheet.informed =>
    \A s \in SheetSymbols :
      Known(SectorOf[s]) /\ Known(Limits.perSector) =>
        Cardinality({x \in Occupied \cup SheetSymbols : SectorOf[x] = SectorOf[s]})
          <= Limits.perSector
=============================================================================
