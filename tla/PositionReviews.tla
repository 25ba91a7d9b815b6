-------------------------- MODULE PositionReviews --------------------------
(***************************************************************************)
(* The life of held positions: the portfolio commands, the daily and the   *)
(* intraday review of src/src/bot/main.py with the journals they keep, and *)
(* the trade feedback log (src/src/bot/data/trade_feedback.py).            *)
(*                                                                         *)
(* A portfolio command writes the portfolio file and then appends to the   *)
(* log; it may be killed in between, and reviews run at any time.  Reviews *)
(* may be repeated and a daily one may be made for an earlier day.         *)
(***************************************************************************)
EXTENDS PositionRules

CONSTANTS
  Holdings,       \* symbols
  Entries,        \* positions an operator enters: records [entry, stop, reference]
  Stops,          \* stops an operator sets
  Histories,      \* set of functions from Holdings to price histories or NoValue
  Tapes,          \* the same of records [bars, benchmark, context] of a session
  LastDay,        \* bound on the days of daily reviews
  LastDate,       \* bound on the dates of commands
  LastBar,        \* bound on the bars of the session
  MaxSteps        \* bound on commands and reviews

ASSUME HoldingsAssumption == IsFiniteSet(Holdings)
ASSUME BoundsAssumption == LastDay \in Nat /\ LastDate \in Nat /\ LastBar \in Nat

\* A trade is the symbol, the day and the price of its first entry.
Trades == Holdings \X (1 .. LastDate) \X Nat

ExistingPosition ==
  [ entry : Nat, stop : Int \cup {NoValue}, reference : Int \cup {NoValue}, trade : Trades ]

TradeFeedbackEvent ==
  [ type : {"executed", "stop_raised", "stop_updated", "closed", "reviewed", "polled"},
    symbol : Holdings, at : Int, trade : Trades, stop : Int \cup {NoValue} ]

\* None is no number, no position and no event.
ASSUME NoValueAssumption == NoValue \notin Int \cup ExistingPosition \cup TradeFeedbackEvent
ASSUME EntriesAssumption ==
  /\ Entries \subseteq [entry : Nat, stop : Int \cup {NoValue}, reference : Int \cup {NoValue}]
  /\ Stops \subseteq Int
\* A history that there is has a close, and the settings are numbers.
ASSUME HistoriesAssumption ==
  \A histories \in Histories, s \in Holdings :
    histories[s] # NoValue =>
      /\ histories[s].closes \in Seq(Nat) \ {<<>>}
      /\ histories[s].atr \in Int \cup {NoValue}
ASSUME RulesAssumption == Rules.watchExit \in Nat \ {0} /\ Rules.trailingAtr \in Int

VARIABLES
  positions,      \* the portfolio file: symbol -> position or NoValue
  log,            \* trade_feedback.jsonl: its events
  unlogged,       \* the event of a command that has written its file, or NoValue
  trajectories,   \* position_trajectory.json: symbol -> journal
  session,        \* the intraday journal of the session
  report,         \* the rows of the last review
  steps,
  untold,         \* symbols whose last event the log misses: its command died or the append
                  \* failed, or the event repeats one of its day
  told            \* <<kind, symbol, time>> -> action of the last review of that time,
                  \* since the symbol's journal began

positionVars ==
  <<positions, log, unlogged, trajectories, session, report, steps, untold, told>>

NoReport == [ kind |-> "none", at |-> 0, positions |-> NoValue, readings |-> NoValue,
              rows |-> [s \in {} |-> NoValue] ]

ReviewInit ==
  /\ positions = [s \in Holdings |-> NoValue]
  /\ log = <<>> /\ unlogged = NoValue
  /\ trajectories = [s \in Holdings |-> NoObservations]
  /\ session = [s \in Holdings |-> NoObservations]
  /\ report = NoReport
  /\ steps = 0
  /\ untold = {}
  /\ told = [k \in {} |-> NoValue]

HeldSymbols == {s \in Holdings : positions[s] # NoValue}

Step == steps < MaxSteps /\ steps' = steps + 1

-----------------------------------------------------------------------------
(* The portfolio commands                                                  *)

\* build_trade_id: a position that is entered again keeps its trade.
TradeId(s, p, day) ==
  IF positions[s] # NoValue THEN positions[s].trade ELSE <<s, day, p.entry>>

FeedbackEvent(type, s, day, trade, stop) ==
  [type |-> type, symbol |-> s, at |-> day, trade |-> trade, stop |-> stop]

AboutStops == {"stop_updated", "stop_raised"}

\* A form of the id that leaves every stop out.
IdWithoutStop(e) == [e EXCEPT !.stop = NoValue]

\* build_trade_feedback_event_id: what tells two events apart.  The quantity
\* does not, and the stop only for the events about stops.
EventId(e) == [e EXCEPT !.stop = IF e.type \in AboutStops THEN @ ELSE NoValue]

\* A command writes the portfolio file and has its event still to append.
Write(s, position, event) ==
  /\ unlogged = NoValue
  /\ Step
  /\ positions' = [positions EXCEPT ![s] = position]
  /\ unlogged' = event

\* The metadata that a new entry does not name is kept from the old one.
MergedReference(s, p) ==
  IF Known(p.reference) \/ positions[s] = NoValue THEN p.reference ELSE positions[s].reference

\* upsert-position
UpsertHolding(s, p, day) ==
  LET trade == TradeId(s, p, day) IN
  /\ Write(s, [ entry |-> p.entry, stop |-> p.stop, reference |-> MergedReference(s, p),
                trade |-> trade ],
              FeedbackEvent("executed", s, day, trade, p.stop))
  /\ UNCHANGED <<log, trajectories, session, report, untold, told>>

\* update-stop: the stop may move either way.
UpdateStop(s, stop, day) ==
  /\ s \in HeldSymbols
  /\ LET p == positions[s]
         type == IF Known(p.stop) /\ stop > p.stop THEN "stop_raised" ELSE "stop_updated"
     IN Write(s, [p EXCEPT !.stop = stop], FeedbackEvent(type, s, day, p.trade, stop))
  /\ UNCHANGED <<log, trajectories, session, report, untold, told>>

\* remove-position
RemoveHolding(s, day) ==
  /\ s \in HeldSymbols
  /\ LET p == positions[s]
     IN Write(s, NoValue, FeedbackEvent("closed", s, day, p.trade, p.stop))
  /\ UNCHANGED <<log, trajectories, session, report, untold, told>>

Logged(events, e) == \E i \in DOMAIN events : EventId(events[i]) = EventId(e)

\* append_trade_feedback_events
AppendEvent(events, e) == IF Logged(events, e) THEN events ELSE Append(events, e)

AppendEvents(events, more) == events \o SetToSeq({e \in more : ~Logged(events, e)})

\* The same was said of the same trade on the same day, of a stop the same stop.
Repeats(e, other) ==
  /\ e.type = other.type /\ e.symbol = other.symbol /\ e.at = other.at /\ e.trade = other.trade
  /\ e.type \in AboutStops => e.stop = other.stop

LogEvent ==
  /\ unlogged # NoValue
  /\ log' = AppendEvent(log, unlogged)
  /\ unlogged' = NoValue
  /\ untold' = IF log' # log THEN untold \ {unlogged.symbol}
               ELSE IF \E i \in DOMAIN log : Repeats(log[i], unlogged)
               THEN untold \cup {unlogged.symbol}
               ELSE untold
  /\ UNCHANGED <<positions, trajectories, session, report, steps, told>>

\* The command dies, or _append_trade_feedback_events_safe gives up.
Killed ==
  /\ unlogged # NoValue
  /\ unlogged' = NoValue
  /\ untold' = untold \cup {unlogged.symbol}
  /\ UNCHANGED <<positions, log, trajectories, session, report, steps, told>>

-----------------------------------------------------------------------------
(* Reviews.  Every row is an event of the log; the outcome event that goes *)
(* with the row of a daily review is left out, and so is the row's stop.   *)

\* The symbols of a review that do not raise for want of data; the loops of
\* both workflows skip the others.
Reviewed(data) == {s \in HeldSymbols : data[s] # NoValue}

\* A position's entry date is that of its first upsert.
Entered(p) == p.trade[2]

\* _portfolio_review_decision_event
Decision(type, s, time) == FeedbackEvent(type, s, time, positions[s].trade, NoValue)

\* The row's action is no part of the id: the first review of a time is kept.
LogDecisions(type, time, rows) ==
  log' = AppendEvents(log, {Decision(type, s, time) : s \in DOMAIN rows})

Report(kind, time, rows, dropped) ==
  /\ report' = [ kind      |-> kind,
                 at        |-> time,
                 positions |-> positions,
                 readings  |-> [s \in DOMAIN rows |-> rows[s].reading],
                 rows      |-> [s \in DOMAIN rows |-> rows[s].decision] ]
  /\ told' =
       LET now  == {<<kind, s, time>> : s \in DOMAIN rows}
           gone == {k \in DOMAIN told : k[1] = kind /\ k[2] \in dropped}
       IN [ k \in (DOMAIN told \ gone) \cup now |->
              IF k \in now THEN rows[k[2]].decision.action ELSE told[k] ]

\* update_position_trajectory_journal: what is not held any more is dropped.
UpdateTrajectories(day, rows) ==
  trajectories' =
    [ s \in Holdings |->
        IF s \in DOMAIN rows THEN Merge(trajectories[s], day, rows[s].observation)
        ELSE IF s \in HeldSymbols THEN trajectories[s]
        ELSE NoObservations ]

\* update_intraday_state_journal: nothing is dropped.
UpdateSession(bar, rows) ==
  session' =
    [ s \in Holdings |->
        IF s \in DOMAIN rows THEN Merge(session[s], bar, rows[s].observation) ELSE session[s] ]

\* A form that journals the observation as it was before the decision.
UnsettledRow(p, journal, reading, day) ==
  LET seen == DailyObservation(PositionFeatures(p, reading), Unresolved)
  IN [ reading |-> reading, observation |-> seen,
       decision |-> ReviewDecision(p, reading, PreviewTrajectory(journal, day, seen)) ]

\* _build_portfolio_review_row: the decision is made on the journal as it
\* would be with the observation, which then takes the decision's action.
PortfolioRow(p, journal, reading, day) ==
  LET seen(action) == DailyObservation(PositionFeatures(p, reading), action)
      decision == ReviewDecision(p, reading, PreviewTrajectory(journal, day, seen(Unresolved)))
  IN [reading |-> reading, decision |-> decision, observation |-> seen(decision.action)]

\* _build_portfolio_review_intraday_row
IntradayRow(p, journal, reading, bar) ==
  LET seen(action) == IntradayObservation(IntradayFeatures(p, reading), action)
      decision == IntradayDecision(p, reading, PreviewSession(journal, bar, seen(Unresolved)))
  IN [reading |-> reading, decision |-> decision, observation |-> seen(decision.action)]

\* _run_portfolio_review_workflow.  It returns early while nothing is held.
PortfolioWorkflow(day, rows) ==
  IF HeldSymbols = {}
  THEN /\ UNCHANGED trajectories
       /\ Report("daily", day, rows, {})
  ELSE /\ UpdateTrajectories(day, rows)
       /\ Report("daily", day, rows, Holdings \ HeldSymbols)

\* _run_portfolio_review_intraday_workflow.  It raises, before it saves the
\* journal, when no symbol has a bar; the time is that of the latest bar.
IntradayWorkflow(bar, rows) ==
  /\ DOMAIN rows # {}
  /\ UpdateSession(bar, rows)
  /\ Report("intraday", bar, rows, {})

\* review-portfolio
ReviewPortfolio(histories, day) ==
  LET reading(s) == DailyReading(Entered(positions[s]), histories[s], day)
      rows == [ s \in Reviewed(histories) |->
                  PortfolioRow(positions[s], trajectories[s], reading(s), day) ]
  IN /\ Step
     /\ PortfolioWorkflow(day, rows)
     /\ LogDecisions("reviewed", day, rows)
     /\ UNCHANGED <<positions, unlogged, session, untold>>

\* review-portfolio-intraday
ReviewIntraday(tapes, bar) ==
  LET reading(s) == SessionReading(SubSeq(tapes[s].bars, 1, bar), tapes[s].benchmark,
                                   tapes[s].context)
      rows == [ s \in Reviewed(tapes) |->
                  IntradayRow(positions[s], session[s], reading(s), bar) ]
  IN /\ Step
     /\ IntradayWorkflow(bar, rows)
     /\ LogDecisions("polled", bar, rows)
     /\ UNCHANGED <<positions, unlogged, trajectories, untold>>

ReviewNext ==
  \/ \E s \in Holdings, p \in Entries, day \in 1 .. LastDate : UpsertHolding(s, p, day)
  \/ \E s \in Holdings, stop \in Stops, day \in 1 .. LastDate : UpdateStop(s, stop, day)
  \/ \E s \in Holdings, day \in 1 .. LastDate : RemoveHolding(s, day)
  \/ LogEvent
  \/ Killed
  \/ \E histories \in Histories, day \in 1 .. LastDay : ReviewPortfolio(histories, day)
  \/ \E tapes \in Tapes, bar \in 1 .. LastBar : ReviewIntraday(tapes, bar)

ReviewSpec == ReviewInit /\ [][ReviewNext]_positionVars

-----------------------------------------------------------------------------
(* Properties                                                              *)

ReviewTypeOK ==
  /\ \A s \in Holdings : \A t \in DOMAIN trajectories[s] :
       t \in 1 .. LastDay /\ trajectories[s][t].action \in Actions
  /\ \A s \in Holdings : \A t \in DOMAIN session[s] :
       t \in 1 .. LastBar /\ session[s][t].action \in Actions
  /\ \A s \in DOMAIN report.rows : report.rows[s].action \in Actions
  /\ \A s \in HeldSymbols : positions[s].trade \in Trades

IsReview == steps' # steps /\ unlogged' = unlogged

\* The times of earlier reviews that reported a symbol.
Earlier(kind, s, time) ==
  {k[3] : k \in {k \in DOMAIN told : k[1] = kind /\ k[2] = s /\ k[3] < time}}

\* No later time was reviewed, so the report speaks of the present.
UpToDate(kind, s, time) == \A k \in DOMAIN told : k[1] = kind /\ k[2] = s => k[3] <= time

AtOnce(kind, p, r) == IF kind = "daily" THEN ExitsAtOnce(p, r) ELSE IntradayExitsAtOnce(p, r)

\* A review that tells the operator to sell for no reason of its own reading
\* has told WATCH CLOSELY at each of the last watchExit times the symbol was
\* reviewed: days reviewed out of order, repeated reviews and reviews that
\* settled on something else never add up to an exit
\* (review_existing_long_position and its intraday twin).
ExitsEarned ==
  [][ IsReview =>
        \A s \in DOMAIN report'.rows :
          LET kind == report'.kind
              time == report'.at
              earlier == Earlier(kind, s, time)
          IN /\ report'.rows[s].action = "EXIT CANDIDATE"
             /\ ~AtOnce(kind, positions[s], report'.readings[s])
             /\ UpToDate(kind, s, time)
             => /\ Cardinality(earlier) >= Rules.watchExit
                /\ \A t \in earlier :
                     \/ told[<<kind, s, t>>] = "WATCH CLOSELY"
                     \/ Cardinality({u \in earlier : u > t}) >= Rules.watchExit
    ]_positionVars

Repeated == /\ report'.kind = report.kind /\ report'.at = report.at
            /\ report'.readings = report.readings

\* A review that is run again on the same reading and the same positions says
\* the same: its own first run, already in the journal, does not count towards
\* the second (preview_position_trajectory_features).
ReplayAgrees ==
  [][ IsReview /\ Repeated /\ report.positions = positions => report'.rows = report.rows
    ]_positionVars

\* An operator who sets the stop a review suggests is not told on the same
\* reading to sell or to raise the stop again (suggest_long_stop_update).
AdviceSettles ==
  [][ IsReview /\ Repeated =>
        \A s \in DOMAIN report'.rows \cap DOMAIN report.rows :
          /\ report.rows[s].action = "RAISE STOP"
          /\ positions[s] = [report.positions[s] EXCEPT !.stop = report.rows[s].stop]
          => report'.rows[s].action \in {"HOLD", "WATCH CLOSELY"}
    ]_positionVars

\* The places in the log of what happened to the holding of a symbol.
TradeEvents(s) ==
  {i \in DOMAIN log : log[i].symbol = s /\ log[i].type \notin {"reviewed", "polled"}}

\* The event is true of what is now held of its symbol.
Tells(e, p) ==
  IF e.type = "closed" THEN p = NoValue
  ELSE p # NoValue /\ p.trade = e.trade /\ p.stop = e.stop

\* The last logged trade event of a symbol is true of it.
LogTells(s) ==
  \/ TradeEvents(s) = {} /\ positions[s] = NoValue
  \/ \E i \in TradeEvents(s) :
       Tells(log[i], positions[s]) /\ \A j \in TradeEvents(s) : j <= i

\* Reading the log to its end gives the portfolio file: which symbols are held, by
\* which trade and with which stop.  Excepted is a symbol, until its next event,
\* whose command died before it appended or whose last event repeats an earlier
\* one of its day; nothing else may be taken for a duplicate
\* (append_trade_feedback_events, build_trade_feedback_event_id).
LogTellsHoldings ==
  unlogged = NoValue => \A s \in Holdings \ untold : LogTells(s)
=============================================================================
