------------------------- MODULE ExecutionPriority -------------------------
(***************************************************************************)
(* What pending orders and holdings leave for new entries                  *)
(* (build_order_reservation_state in src/src/bot/data/pending_orders.py),  *)
(* and the queue of approved candidates that share it                      *)
(* (src/src/bot/execution/prioritization.py).                              *)
(*                                                                         *)
(* An order id is a pair of its symbol and the day of its decision.  The   *)
(* portfolio file maps each symbol to a position; shares = 0 says that the *)
(* file has none.  Every share costs UnitPrice.  The weights of the score  *)
(* keep the order of the code's, not their size.                           *)
(***************************************************************************)
EXTENDS PendingOrders, CandidateRisk, SequencesExt

CONSTANTS
  SectorOf,     \* symbol -> sector, or NoValue
  Universe,     \* sequence of symbols in the order they are screened
  Presets,      \* sequence of risks per trade, that of generate-orders first
  SignalSets,   \* set of functions from symbols to signals or NoValue
  Markets,      \* what the market context can be
  Account,      \* equity and drawdown
  Limits        \* the portfolio constraints and the entry rules

Symbols == ToSet(Universe)

ASSUME UniverseAssumption ==
  Universe \in Seq(Symbols) /\ Presets \in Seq(Nat) /\ Presets # <<>>

\* The strategies give a symbol no signal, or one with a strength.
IsSignal(x) ==
  /\ DOMAIN x = {"stop", "strength", "sectorPassed", "sectorLead", "earningsIn", "earnings"}
  /\ x.stop \in Int \cup {NoValue} /\ x.strength \in Nat

ASSUME SignalsAssumption ==
  \A signals \in SignalSets : \A s \in Symbols : signals[s] # NoValue => IsSignal(signals[s])

\* PortfolioConstraints refuses other limits.
ASSUME LimitsAssumption ==
  /\ Account.equity \in Nat
  /\ Limits.positions \in Nat /\ Limits.reduction \in Nat \ {0}
  /\ Limits.positionPct \in Nat \cup {NoValue} /\ Limits.perSector \in Nat \cup {NoValue}

NoPosition == [shares |-> 0, decision |-> NoDecision]

AtLeastZero(x) == Max({x, 0})

Held(portfolio) == {s \in DOMAIN portfolio : portfolio[s].shares > 0}

HoldingCost(portfolio) ==
  SumFunction([s \in Held(portfolio) |-> portfolio[s].shares * UnitPrice])

\* Set aside for the orders of a book that are still to be filled.
Reserved(book, orders) == SumFunction([o \in orders |-> book[o].reserved])

-----------------------------------------------------------------------------
(* The reservation view                                                    *)

Reserving(book) == {o \in BuyOrders : Active(book[o])}

\* _absorbed_filled_quantity: fills that the portfolio file already shows, in
\* a position that names the order's decision.
Absorbed(portfolio, book, o) ==
  LET p == portfolio[SymbolOf[o]] IN
  IF p.shares > 0 /\ p.decision = DecisionOf[o]
  THEN Min({p.shares, book[o].filled})
  ELSE 0

\* _pending_fill_notional: bought, and not in the portfolio file yet.
PendingFillNotional(portfolio, book, o) ==
  (book[o].filled - Absorbed(portfolio, book, o)) * ReservationPrice(book[o])

\* _reserves_unmatched_slot
ReservesSlot(portfolio, book, o) ==
  book[o].slot /\ Absorbed(portfolio, book, o) = 0

\* A form that forgets the fills.
FillsForgotten(portfolio, book) ==
  [ capital  |-> AtLeastZero(Account.equity - HoldingCost(portfolio)
                   - Reserved(book, Reserving(book))),
    slots    |-> AtLeastZero(Limits.positions - Cardinality(Held(portfolio))
                   - Cardinality({o \in Reserving(book) :
                                    ReservesSlot(portfolio, book, o)})),
    symbols  |-> {SymbolOf[o] : o \in Reserving(book)} ]

\* build_order_reservation_state
ReservationState(portfolio, book) ==
  [ capital  |-> AtLeastZero(Account.equity - HoldingCost(portfolio)
                   - Reserved(book, Reserving(book))
                   - SumFunction([o \in Reserving(book) |->
                                    PendingFillNotional(portfolio, book, o)])),
    slots    |-> AtLeastZero(Limits.positions - Cardinality(Held(portfolio))
                   - Cardinality({o \in Reserving(book) :
                                    ReservesSlot(portfolio, book, o)})),
    symbols  |-> {SymbolOf[o] : o \in Reserving(book)} ]

\* _build_portfolio_holding_exposures, and build_pending_order_holding_exposures
\* that is added to it.
Exposures(portfolio, book) ==
  { [ key |-> <<s, 0>>, notional |-> portfolio[s].shares * UnitPrice,
      sector |-> SectorOf[s], industry |-> NoValue ] : s \in Held(portfolio) }
  \cup
  { [ key |-> o,
      notional |-> book[o].reserved + PendingFillNotional(portfolio, book, o),
      sector |-> SectorOf[SymbolOf[o]], industry |-> NoValue ] : o \in Reserving(book) }

\* A form that counts no approval.
NotRolled(exposures, c) == exposures

\* _roll_forward_portfolio_holding_exposures: an approved candidate counts for
\* those assessed after it, once for its symbol.
RollForward(exposures, c) ==
  IF c.disposition \in Actionable /\ <<c.signal.symbol, 0>> \notin {e.key : e \in exposures}
  THEN exposures \cup
       { [ key |-> <<c.signal.symbol, 0>>, notional |-> c.sizing.notional,
           sector |-> c.signal.sector, industry |-> c.signal.industry ] }
  ELSE exposures

-----------------------------------------------------------------------------
(* One run over the universe                                               *)

\* The k-th evaluation of the presets, symbol by symbol.
Evaluation(signals, k) ==
  LET s == Universe[((k - 1) % Len(Universe)) + 1]
  IN [ risk   |-> Presets[((k - 1) \div Len(Universe)) + 1], index |-> k,
       symbol |-> s, signal |-> signals[s] ]

\* The signals of the first n presets, in the order they are assessed.  A
\* symbol in skip gives no signal.
Evaluations(signals, n, skip) ==
  LET first[k \in 0 .. n * Len(Universe)] ==
        IF k = 0 THEN <<>>
        ELSE LET x == Evaluation(signals, k)
             IN IF x.signal # NoValue /\ x.symbol \notin skip
                THEN Append(first[k - 1], x) ELSE first[k - 1]
  IN first[n * Len(Universe)]

\* The signal of an evaluation with what is known of its symbol.
Described(x) ==
  [ symbol |-> x.symbol, sector |-> SectorOf[x.symbol], industry |-> NoValue,
    entry |-> UnitPrice, stop |-> x.signal.stop, strength |-> x.signal.strength,
    sectorPassed |-> x.signal.sectorPassed, sectorLead |-> x.signal.sectorLead,
    earningsIn |-> x.signal.earningsIn, earnings |-> x.signal.earnings ]

\* What is kept of an assessment.  The features are built before any memory is
\* looked up: they have no setup quality.
Retained(x, assessed) ==
  [ signal |-> assessed.signal, sizing |-> assessed.sizing, crowd |-> assessed.crowd,
    blockers |-> assessed.blockers, disposition |-> assessed.disposition,
    index |-> x.index, quality |-> 0, memory |-> 0 ]

\* The candidate takes its place among those assessed.
Follow(run, c) ==
  [ exposures |-> RollForward(run.exposures, c), out |-> Append(run.out, c) ]

\* One turn of the loop over the evaluations.
AssessNext(run, x, market, held) ==
  Follow(run, Retained(x, Assess(Described(x), x.risk, Account, market, held,
                                 run.exposures, Limits)))

\* The loop, with the exposures that grow with each approval.
AssessAll(evaluations, market, portfolio, book) ==
  LET run[n \in 0 .. Len(evaluations)] ==
        IF n = 0 THEN [exposures |-> Exposures(portfolio, book), out |-> <<>>]
        ELSE AssessNext(run[n - 1], evaluations[n], market, Held(portfolio))
  IN run[Len(evaluations)].out

-----------------------------------------------------------------------------
(* The queue                                                               *)

SectorSupport(c) ==
  CASE c.signal.sectorPassed = TRUE  -> 1
    [] c.signal.sectorPassed = FALSE -> -1
    [] OTHER                         -> 0

\* score_risk_candidate_opportunity: the setup quality is that of the features,
\* which were built before the candidate memory was looked up.
Opportunity(c) == 100 * c.signal.strength + c.sizing.shares + 2 * c.quality

\* annotate_execution_priority: the score that orders the queue.
PriorityScore(c) == Opportunity(c) + c.quality + SectorSupport(c) - 2 * c.crowd

\* The last tie is broken by strategy and symbol, which is what index stands for.
Before(a, b) ==
  \/ PriorityScore(a) > PriorityScore(b)
  \/ /\ PriorityScore(a) = PriorityScore(b)
     /\ \/ Opportunity(a) > Opportunity(b)
        \/ Opportunity(a) = Opportunity(b) /\ a.index < b.index

\* The entries of a sequence at some of its places, each after those before it.
Arranged(seq, places, before(_, _)) ==
  [ n \in 1 .. Cardinality(places) |->
      seq[CHOOSE i \in places : Cardinality({j \in places : before(j, i)}) = n - 1] ]

\* The entries at some places, as they come.
Picked(seq, places) == Arranged(seq, places, <)

\* One approved candidate takes its share of the slots and the capital left.
Take(view, queue, c) ==
  LET now == /\ c.signal.symbol \notin view.symbols
             /\ queue.taken < view.slots
             /\ c.sizing.notional <= view.capital - queue.used
  IN [ taken |-> queue.taken + IF now THEN 1 ELSE 0,
       used  |-> queue.used + IF now THEN c.sizing.notional ELSE 0,
       out   |-> Append(queue.out, [candidate |-> c, now |-> now]) ]

\* annotate_execution_priority over the assessed candidates.
Prioritized(assessed, view) ==
  LET places   == {i \in DOMAIN assessed : assessed[i].disposition \in OperatorApproved}
      approved == Arranged(assessed, places, LAMBDA i, j : Before(assessed[i], assessed[j]))
      queue[n \in 0 .. Cardinality(places)] ==
        IF n = 0 THEN [taken |-> 0, used |-> 0, out |-> <<>>]
        ELSE Take(view, queue[n - 1], approved[n])
  IN queue[Cardinality(places)].out

\* risk_candidate_sort_key: what can be ordered now, then what is approved,
\* then the rest by its opportunity.
Ranking(assessed, view) ==
  LET queue == Prioritized(assessed, view)
      now   == {i \in DOMAIN queue : queue[i].now}
      rest  == Arranged(assessed,
                        {i \in DOMAIN assessed : assessed[i].disposition \notin OperatorApproved},
                        LAMBDA i, j : LET c == assessed[i]
                                          d == assessed[j]
                                      IN \/ Opportunity(c) > Opportunity(d)
                                         \/ Opportunity(c) = Opportunity(d) /\ c.index < d.index)
  IN Picked(queue, now) \o Picked(queue, DOMAIN queue \ now)
     \o [i \in DOMAIN rest |-> [candidate |-> rest[i], now |-> FALSE]]

\* ManualExecutor.build_execution_batch
ExecutionBatch(ranking) ==
  Picked(ranking, {i \in DOMAIN ranking :
                     ranking[i].candidate.disposition \in Actionable /\ ranking[i].now})
=============================================================================
