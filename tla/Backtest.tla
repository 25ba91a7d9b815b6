------------------------------ MODULE Backtest ------------------------------
(***************************************************************************)
(* The daily-bar backtest (src/src/bot/backtest/engine.py, its costs in    *)
(* slippage_costs.py) and the command that runs it (_handle_backtest of    *)
(* src/src/bot/main.py).                                                   *)
(*                                                                         *)
(* A day of the engine runs stops at the open, entries at the open, stops  *)
(* within the day, marks, orders at the close, and raised stops, in that   *)
(* order.  Each is an operator on the engine's record, so that a whole run *)
(* is a fold over the calendar and the machine takes one day per step.     *)
(* Fractions of a cent are cut off.                                        *)
(***************************************************************************)
EXTENDS BreakoutMomentum

CONSTANTS
  Tickers,    \* the candidate list, in alphabetical order
  Markets,    \* what a provider may return: [tapes, benchmark, from, to]
  Setups      \* [strategy, limits, risk, cash, bps, marketFee, stopFee, closeOut]

\* A candidate is listed once (_dedupe_symbols).
ASSUME TickersAssumption ==
  /\ Len(Tickers) \in Nat /\ DOMAIN Tickers = 1 .. Len(Tickers)
  /\ \A i, j \in DOMAIN Tickers : Tickers[i] = Tickers[j] => i = j

IsMarket(m) ==
  /\ DOMAIN m = {"tapes", "benchmark", "from", "to"}
  /\ DOMAIN m.tapes \subseteq Range(Tickers)
  /\ \A s \in DOMAIN m.tapes : IsTape(m.tapes[s])
  /\ IsTape(m.benchmark)
  /\ m.from \in Nat /\ m.to \in Nat

ASSUME MarketsAssumption == \A m \in Markets : IsMarket(m)

\* BreakoutMomentumSettings and the indicators' windows refuse other values.
IsStrategy(settings) ==
  /\ DOMAIN settings = { "lookback", "volumeWindow", "volumePct", "confirm", "atrWindow",
                         "stopAtr", "trailingAtr", "regime", "mode", "fast", "slow" }
  /\ settings.atrWindow \in Nat \ {0} /\ settings.slow \in Nat \ {0}
  /\ settings.stopAtr \in Nat /\ settings.trailingAtr \in Nat

\* So do DailyBarBacktestEngine, TransactionCostModel and PortfolioConstraints.
IsSetup(costs) ==
  /\ DOMAIN costs = { "strategy", "limits", "risk", "cash", "bps", "marketFee", "stopFee",
                      "closeOut" }
  /\ IsStrategy(costs.strategy)
  /\ costs.cash \in Nat \ {0} /\ costs.risk \in Nat
  /\ costs.bps \in Nat /\ costs.marketFee \in Nat /\ costs.stopFee \in Nat
  /\ costs.limits.positions \in Nat /\ costs.limits.reduction \in Nat \ {0}
  /\ costs.limits.positionPct \in Nat \cup {NoValue}

ASSUME SetupsAssumption == \A c \in Setups : IsSetup(c)

\* A sale does not slip by more than its whole price.
ASSUME SlippageAssumption == \A c \in Setups : c.bps <= 10000

VARIABLES data, setup, engine, today

backtestVars == <<data, setup, engine, today>>

NoContext == [breadth |-> NoValue, vix |-> NoValue, riskOff |-> FALSE]

NoDay == 0

-----------------------------------------------------------------------------
(* Data                                                                    *)

\* _handle_backtest: a symbol the provider fails on, or has no bars of, is
\* skipped.
Tested(market) == {s \in DOMAIN market.tapes : DOMAIN market.tapes[s] # {}}

\* _build_trading_calendar
Calendar(market) ==
  {d \in (UNION {DOMAIN market.tapes[s] : s \in Tested(market)})
           \cup DOMAIN market.benchmark :
     market.from <= d /\ d <= market.to}

Traded(market, day) == {s \in DOMAIN market.tapes : day \in DOMAIN market.tapes[s]}

\* The days of the run after this one on which a symbol trades.
Later(tape, day, last) == {d \in DOMAIN tape : day < d /\ d <= last}

\* _next_available_trade_date: the day the symbol trades next, if the run
\* lasts until then.
NextBar(tape, day, last) ==
  LET later == Later(tape, day, last)
  IN IF later = {} THEN NoDay ELSE Min(later)

\* All that the engine is told on a day: of each symbol that trades, its bar,
\* the day of its next one, and what the strategy says.
Session(market, day, settings) ==
  LET traded == Traded(market, day)
  IN [ date      |-> day,
       traded    |-> traded,
       bar       |-> [s \in traded |-> market.tapes[s][day]],
       next      |-> [s \in traded |-> NextBar(market.tapes[s], day, market.to)],
       signals   |-> [s \in traded |->
                        Signals(market.tapes[s], market.benchmark, day, settings)],
       candidate |-> [s \in traded |-> Candidate(s, market.tapes[s], day, settings)],
       range     |-> [s \in traded |-> Atr(market.tapes[s], day, settings.atrWindow)] ]

-----------------------------------------------------------------------------
(* Costs                                                                   *)

BuyFill(price, costs)  == (price * (10000 + costs.bps)) \div 10000
SellFill(price, costs) == (price * (10000 - costs.bps)) \div 10000

\* _affordable_share_count
Affordable(cash, price, fee) ==
  IF cash <= fee \/ price <= 0 THEN 0 ELSE (cash - fee) \div price

-----------------------------------------------------------------------------
(* The engine                                                              *)

NoTrades == <<>>
NoPositions == [s \in {} |-> 0]

NewEngine(costs) ==
  [ cash |-> costs.cash, realized |-> 0, peak |-> costs.cash, equity |-> costs.cash,
    open |-> NoPositions, pending |-> {}, trades |-> NoTrades, curve |-> <<>> ]

\* The entry commission is left out of what a trade earned.
NetOfExit(p, price, fee) == p.shares * (price - p.entry) - fee

NetPnl(p, price, fee) == p.shares * (price - p.entry) - p.fee - fee

\* _close_position
Close(e, s, day, price, reason, fee) ==
  LET p   == e.open[s]
      net == NetPnl(p, price, fee)
  IN [e EXCEPT !.cash = @ + p.shares * price - fee,
               !.realized = @ + net,
               !.open = [other \in DOMAIN @ \ {s} |-> @[other]],
               !.trades = Append(@, [symbol |-> s, since |-> p.since, day |-> day,
                                     reason |-> reason, price |-> price,
                                     stop |-> p.stop, net |-> net])]

StopReason(p) == IF p.stop > p.initial THEN "trailing_stop" ELSE "initial_stop"

StopOut(e, s, day, price, costs) ==
  Close(e, s, day, SellFill(price, costs), StopReason(e.open[s]), costs.stopFee)

\* _symbols_with_gap_stop_exit: the day opens at the stop or under it.
GapsThrough(e, s, session) ==
  s \in DOMAIN e.open \cap session.traded /\ session.bar[s].open <= e.open[s].stop

\* Then the position is sold at the open.
GapExit(e, s, session, costs) ==
  IF GapsThrough(e, s, session) THEN StopOut(e, s, session.date, session.bar[s].open, costs)
  ELSE e

\* The entries that have waited for this day.
Due(e, s, day) == {p \in e.pending : p.symbol = s /\ p.fill = day}

\* One approved signal at the open it waited for: as many shares as the cash
\* that is left pays for, none where the price has fallen to the stop.  It waits
\* no longer, whether it is filled or not.
FillEntry(e, s, session, costs) ==
  LET due    == Due(e, s, session.date)
      entry  == CHOOSE p \in due : TRUE
      bar    == session.bar[s]
      fill   == BuyFill(bar.open, costs)
      shares == Min({entry.shares, Affordable(e.cash, fill, costs.marketFee)})
      freed  == [e EXCEPT !.pending = @ \ due]
  IN IF \/ due = {} \/ s \in DOMAIN e.open \/ s \notin session.traded
        \/ fill <= entry.stop
        \/ shares <= 0
     THEN freed
     ELSE [freed EXCEPT
             !.cash = @ - (shares * fill + costs.marketFee),
             !.open = [other \in DOMAIN @ \cup {s} |->
                         IF other # s THEN @[other]
                         ELSE [ shares |-> shares, entry |-> fill, initial |-> entry.stop,
                                stop |-> entry.stop, high |-> entry.close,
                                fee |-> costs.marketFee, last |-> bar.close,
                                since |-> session.date ]]]

\* _symbols_with_intraday_stop_exit: the day trades at the stop after it opened
\* above it.
TradesThrough(e, s, session) ==
  /\ s \in DOMAIN e.open \cap session.traded
  /\ session.bar[s].open > e.open[s].stop
  /\ session.bar[s].low <= e.open[s].stop

\* Then the position is sold at the stop.
IntradayExit(e, s, session, costs) ==
  IF TradesThrough(e, s, session) THEN StopOut(e, s, session.date, e.open[s].stop, costs)
  ELSE e

Waiting(e) == {p.symbol : p \in e.pending}

\* _positions_snapshot without the entries that are still to be filled.
FilledOnly(e) == DOMAIN e.open

\* _positions_snapshot
Taken(e) == DOMAIN e.open \cup Waiting(e)

\* The drawdown in whole percents of the highest equity so far.
Drawdown(e) == (100 * (e.peak - e.equity)) \div e.peak

\* A candidate that is approved waits for the symbol's next bar.
OrderNext(e, s, session, assessed) ==
  IF assessed.disposition \in Actionable
  THEN [e EXCEPT !.pending = @ \cup
          {[ symbol |-> s, shares |-> assessed.sizing.shares,
             stop |-> session.candidate[s].stop, close |-> session.candidate[s].entry,
             fill |-> session.next[s] ]}]
  ELSE e

\* The close of one symbol: a signal is assessed on what is held and ordered
\* already.
OrderSignal(e, s, session, costs) ==
  IF /\ s \in session.traded \ Taken(e)
     /\ session.next[s] # NoDay
     /\ session.signals[s]
  THEN OrderNext(e, s, session,
                 Assess(session.candidate[s], costs.risk,
                        [equity |-> e.equity, drawdown |-> Drawdown(e)], NoContext,
                        Taken(e), {}, costs.limits))
  ELSE e

\* A position left at the end is sold at the last close known.
FinalExit(e, s, session, costs) ==
  IF s \in DOMAIN e.open
  THEN Close(e, s, session.date, SellFill(e.open[s].last, costs), "end_of_data",
             costs.marketFee)
  ELSE e

\* What one of the engine's loops does with a symbol.
Turn(loop, e, s, session, costs) ==
  CASE loop = "gap"      -> GapExit(e, s, session, costs)
    [] loop = "entries"  -> FillEntry(e, s, session, costs)
    [] loop = "intraday" -> IntradayExit(e, s, session, costs)
    [] loop = "signals"  -> OrderSignal(e, s, session, costs)
    [] loop = "final"    -> FinalExit(e, s, session, costs)

\* The loop over all symbols, in alphabetical order.
Each(loop, e, session, costs) ==
  LET after[n \in 0 .. Len(Tickers)] ==
        IF n = 0 THEN e ELSE Turn(loop, after[n - 1], Tickers[n], session, costs)
  IN after[Len(Tickers)]

\* What a function of symbols adds up to.
SumOf(f) ==
  SumUpTo([n \in {i \in DOMAIN Tickers : Tickers[i] \in DOMAIN f} |-> f[Tickers[n]]],
          Len(Tickers))

MarketValue(e) == SumOf([s \in DOMAIN e.open |-> e.open[s].shares * e.open[s].last])

Row(e, day) ==
  [day |-> day, equity |-> e.equity, realized |-> e.realized, drawdown |-> Drawdown(e)]

\* _mark_positions and the day's row of the equity curve.
Mark(e, session) ==
  LET marked == [e EXCEPT !.open = [s \in DOMAIN @ |->
                   IF s \in session.traded
                   THEN [@[s] EXCEPT !.last = session.bar[s].close]
                   ELSE @[s]]]
      worth  == marked.cash + MarketValue(marked)
      valued == [marked EXCEPT !.equity = worth, !.peak = Max({@, worth})]
  IN [valued EXCEPT !.curve = Append(@, Row(valued, session.date))]

\* A stop follows the highest close and never falls.
Trail(p, close, range, settings) ==
  LET high == Max({p.high, close})
  IN [p EXCEPT !.high = high,
               !.stop = IF Known(range)
                        THEN Max({@, Below(high, range, settings.trailingAtr)})
                        ELSE @]

\* _update_trailing_stops
UpdateStops(e, session, costs) ==
  [e EXCEPT !.open = [s \in DOMAIN @ |->
     IF s \in session.traded
     THEN Trail(@[s], session.bar[s].close, session.range[s], costs.strategy)
     ELSE @[s]]]

\* What a day's bars do: stops at the open, entries due, stops within the day.
TradeBars(e, session, costs) ==
  Each("intraday", Each("entries", Each("gap", e, session, costs), session, costs),
       session, costs)

\* The close: marks, signals and orders, raised stops.
AtClose(e, session, costs) ==
  UpdateStops(Each("signals", Mark(e, session), session, costs), session, costs)

\* A day on which the stops within the day are looked at before the entries.
WorkStopsFirst(e, session, costs) ==
  AtClose(Each("entries", Each("intraday", Each("gap", e, session, costs), session, costs),
               session, costs),
          session, costs)

\* One turn of the loop over the calendar.
Work(e, session, costs) == AtClose(TradeBars(e, session, costs), session, costs)

Day(e, market, day, costs) == Work(e, Session(market, day, costs.strategy), costs)

Valued(e) == [e EXCEPT !.equity = e.cash, !.peak = Max({@, e.cash})]

\* The last row of the curve is written anew.
Rewritten(e, day) == [e EXCEPT !.curve = Append(Front(@), Row(e, day))]

CloseAll(e, day, costs) ==
  Rewritten(Valued(Each("final", e, [date |-> day], costs)), day)

Finish(e, last, costs) ==
  IF costs.closeOut /\ DOMAIN e.open # {} THEN CloseAll(e, last, costs) ELSE e

\* The loop over the sessions of a calendar: the engine after each of them.
WorkAll(sessions, costs) ==
  Finish(Last(FoldLeft(LAMBDA past, day :
                         Append(past, Work(Last(past), sessions[day], costs)),
                       <<NewEngine(costs)>>,
                       SetToSortSeq(DOMAIN sessions, LAMBDA x, y : x < y))),
         Max(DOMAIN sessions), costs)

\* DailyBarBacktestEngine.run
Run(market, costs) ==
  WorkAll([day \in Calendar(market) |-> Session(market, day, costs.strategy)], costs)

-----------------------------------------------------------------------------
(* The run, day by day                                                     *)

BacktestInit ==
  /\ data \in {m \in Markets : Tested(m) # {} /\ Calendar(m) # {}}
  /\ setup \in Setups
  /\ engine = NewEngine(setup)
  /\ today = Min(Calendar(data))

Ahead == {d \in Calendar(data) : d > today}

TradeDay ==
  /\ today # NoDay
  /\ engine' = Day(engine, data, today, setup)
  /\ today' = IF Ahead = {} THEN NoDay ELSE Min(Ahead)
  /\ UNCHANGED <<data, setup>>

CloseOut ==
  /\ today = NoDay
  /\ setup.closeOut
  /\ DOMAIN engine.open # {}
  /\ engine' = Finish(engine, Max(Calendar(data)), setup)
  /\ UNCHANGED <<data, setup, today>>

BacktestNext == TradeDay \/ CloseOut

BacktestSpec == BacktestInit /\ [][BacktestNext]_backtestVars

-----------------------------------------------------------------------------
(* Properties                                                              *)

Position ==
  [ shares : Nat \ {0}, entry : Nat, initial : Int, stop : Int, high : Nat, fee : Nat,
    last : Nat, since : Nat ]

Entry == [symbol : Range(Tickers), shares : Nat \ {0}, stop : Int, close : Nat, fill : Nat]

BacktestTypeOK ==
  /\ engine.cash \in Int /\ engine.realized \in Int
  /\ engine.peak \in Nat /\ engine.equity \in Int
  /\ DOMAIN engine.open \subseteq Tested(data)
  /\ \A s \in DOMAIN engine.open : engine.open[s] \in Position
  /\ engine.pending \subseteq Entry
  /\ today \in Calendar(data) \cup {NoDay}

\* Every cent is accounted for on every day, whatever was stopped out, filled
\* for fewer shares than ordered or sold at the end: the cash is what the run
\* began with and what its trades earned, less what the open positions cost with
\* the commissions paid for them.  The entries of one morning, each sized on the
\* equity of the evening before, never spend more than there is: the cash is gone
\* only where some sale did not bring its own commission.
CashReconciles ==
  /\ engine.cash = setup.cash + engine.realized
       - SumOf([s \in DOMAIN engine.open |->
                  engine.open[s].shares * engine.open[s].entry + engine.open[s].fee])
  /\ engine.cash < 0 =>
       \E i \in DOMAIN engine.trades :
         engine.trades[i].price < Max({setup.marketFee, setup.stopFee})

\* Orders that wait for a bar several days away count against the limit on
\* positions along with what is held, and no symbol is ordered twice or while
\* it is held.
SlotsRespected ==
  /\ Cardinality(Waiting(engine) \cup DOMAIN engine.open) <= setup.limits.positions
  /\ Waiting(engine) \cap DOMAIN engine.open = {}
  /\ Cardinality(Waiting(engine)) = Cardinality(engine.pending)

\* The stop that a position opens the day with: an entry brings its own.
StopOfDay(s) ==
  IF s \in DOMAIN engine.open THEN engine.open[s].stop
  ELSE engine'.open[s].initial

\* A position is not held through a day that trades at its stop, from the day
\* of its entry on; and a stop never sells for more than the stop paid on that
\* day.  (An entry whose open is at or under the stop, and whose fill is above
\* it by the slippage, is the one case the engine leaves alone.)
StopsHonoured ==
  [][ today # NoDay /\ today' # today =>
        /\ \A s \in DOMAIN engine'.open :
             s \in Traded(data, today) =>
               LET bar == data.tapes[s][today]
               IN \/ bar.low > StopOfDay(s)
                  \/ engine'.open[s].since = today /\ bar.open <= StopOfDay(s)
        /\ \A i \in Len(engine.trades) + 1 .. Len(engine'.trades) :
             engine'.trades[i].price <= SellFill(engine'.trades[i].stop, setup)
    ]_backtestVars

Blank == [open |-> 2, high |-> 3, low |-> 1, close |-> 2, volume |-> 0]

Blanked(tape, day) == [d \in DOMAIN tape |-> IF d <= day THEN tape[d] ELSE Blank]

BlankedMarket(market, day) ==
  [market EXCEPT
     !.tapes = [s \in DOMAIN @ |-> Blanked(@[s], day)],
     !.benchmark = Blanked(@, day)]

\* "The backtest engine uses decision-on-close and fill-on-next-open semantics
\* to avoid look-ahead bias" (src/README.md): nothing a day does depends on what
\* a later bar says.  (That a symbol trades again, and when, the engine does
\* know: an order is only made for a day it will be filled on.)
LooksBackOnly ==
  [][ today # NoDay /\ today' # today =>
        engine' = Day(engine, BlankedMarket(data, today), today, setup) ]_backtestVars
=============================================================================
