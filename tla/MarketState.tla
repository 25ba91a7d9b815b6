----------------------------- MODULE MarketState -----------------------------
(***************************************************************************)
(* The live market snapshot and what is said of its changes                *)
(* (src/src/bot/state/market_state.py).  A snapshot is put together from   *)
(* the reports of the latest cycle; a section no report covers is carried  *)
(* over from the snapshot before.  Two snapshots are compared subject by   *)
(* subject, and each kind of subject has its own rule for what is worth a  *)
(* transition.                                                             *)
(*                                                                         *)
(* Prices, ranks, percentages, presets and texts are left out: no          *)
(* transition and no alert depends on them.                                *)
(***************************************************************************)
EXTENDS Naturals, FiniteSets

CONSTANTS
  Symbols, Sectors,
  None,             \* an optional value that is absent
  BreadthStates,    \* values of market_breadth_state
  VolatilityStates  \* values of volatility_regime_state

ASSUME NoneAssumption ==
  None \notin Symbols \cup Sectors \cup BreadthStates \cup VolatilityStates

-----------------------------------------------------------------------------
(* What a snapshot holds                                                   *)

ActionsBySeverity == <<"HOLD", "RAISE STOP", "WATCH CLOSELY", "EXIT CANDIDATE">>
Actions == {ActionsBySeverity[i] : i \in 1..4}
Severity(a) == CHOOSE i \in 1..4 : ActionsBySeverity[i] = a

BreadthContext == BreadthStates \cup {None}

VolatilityContext ==
  [state : VolatilityStates \cup {None}, riskOff : BOOLEAN \cup {None}]

NoVolatility == [state |-> None, riskOff |-> None]

MarketContext == [breadth : BreadthContext, volatility : VolatilityContext]

CandidateState ==
  [symbol : Symbols,
   sector : Sectors \cup {None},
   actionable : BOOLEAN,
   bucket : {"top_priority", "other"}]

SectorSummary == [approved : Nat, actionable : Nat, blocked : Nat]

ReviewSummary == [urgent : SUBSET Symbols, held : SUBSET Symbols]

MarketStateSnapshot ==
  [context : MarketContext,
   queue : SUBSET CandidateState,
   sectors : UNION {[seen -> SectorSummary] : seen \in SUBSET Sectors},
   portfolio : ReviewSummary \cup {None},
   intraday : ReviewSummary \cup {None},
   actions : [Symbols -> Actions \cup {None}]]

\* A row of the daily summary: one candidate, approved or not, and whether
\* the portfolio's heat blocks it.
SummaryRow ==
  [symbol : Symbols,
   sector : Sectors \cup {None},
   approved : BOOLEAN,
   actionable : BOOLEAN,
   bucket : {"top_priority", "other"},
   heat : BOOLEAN]

DailySummary == [context : MarketContext \cup {None}, rows : SUBSET SummaryRow]

ReviewRow == [symbol : Symbols, action : Actions]
Review == SUBSET ReviewRow

Report ==
  [daily : DailySummary \cup {None},
   portfolio : Review \cup {None},
   intraday : Review \cup {None}]

\* An absent value is told from every snapshot and from what one says of a subject.
ASSUME NoSnapshotAssumption ==
  /\ None \notin MarketStateSnapshot
  /\ None \notin Actions \cup {"in", "out", "blocked", "clear"}

-----------------------------------------------------------------------------
(* build_market_state_snapshot                                             *)

\* _market_context_sections
ContextSections(context) ==
  IF context = None THEN [breadth |-> None, volatility |-> NoVolatility] ELSE context

\* _approved_candidate_queue
ApprovedQueue(rows) ==
  {[symbol |-> r.symbol, sector |-> r.sector,
    actionable |-> r.actionable, bucket |-> r.bucket] : r \in {q \in rows : q.approved}}

\* _sector_context_summary
SectorContext(rows) ==
  LET Of(sector) == {r \in rows : r.sector = sector}
  IN [sector \in {r.sector : r \in rows} \ {None} |->
       [approved |-> Cardinality({r \in Of(sector) : r.approved}),
        actionable |-> Cardinality({r \in Of(sector) : r.approved /\ r.actionable}),
        blocked |-> Cardinality({r \in Of(sector) : r.heat})]]

\* _portfolio_review_summary, _intraday_review_summary
SummaryOfReview(rows) ==
  [urgent |-> {r.symbol : r \in {q \in rows : q.action # "HOLD"}},
   held |-> {r.symbol : r \in {q \in rows : q.action = "HOLD"}}]

\* Of a symbol's rows the least severe one counts.
LeastSevereStates(rows) ==
  [s \in Symbols |->
    LET mine == {r \in rows : r.symbol = s}
    IN IF mine = {} THEN None
       ELSE (CHOOSE r \in mine :
              \A q \in mine : Severity(q.action) >= Severity(r.action)).action]

\* _action_states_from_rows: of a symbol's rows the most severe one counts.
ActionStates(rows) ==
  [s \in Symbols |->
    LET mine == {r \in rows : r.symbol = s}
    IN IF mine = {} THEN None
       ELSE (CHOOSE r \in mine :
              \A q \in mine : Severity(r.action) >= Severity(q.action)).action]

EmptySnapshot ==
  [context |-> [breadth |-> None, volatility |-> NoVolatility],
   queue |-> {}, sectors |-> [s \in {} |-> [approved |-> 0, actionable |-> 0, blocked |-> 0]],
   portfolio |-> None, intraday |-> None,
   actions |-> [s \in Symbols |-> None]]

\* The intraday review has the last word on actions.
Build(previous, report) ==
  LET base == IF previous = None THEN EmptySnapshot ELSE previous
      daily == report.daily
  IN [context |-> IF daily = None THEN base.context ELSE ContextSections(daily.context),
      queue |-> IF daily = None THEN base.queue ELSE ApprovedQueue(daily.rows),
      sectors |-> IF daily = None THEN base.sectors ELSE SectorContext(daily.rows),
      portfolio |-> IF report.portfolio = None THEN base.portfolio
                    ELSE SummaryOfReview(report.portfolio),
      intraday |-> IF report.intraday = None THEN base.intraday
                   ELSE SummaryOfReview(report.intraday),
      actions |-> CASE report.intraday # None -> ActionStates(report.intraday)
                    [] report.intraday = None /\ report.portfolio # None ->
                         ActionStates(report.portfolio)
                    [] OTHER -> base.actions]

-----------------------------------------------------------------------------
(* Alertable states                                                        *)

TopPriority(snapshot) ==
  {c.symbol : c \in {q \in snapshot.queue : q.actionable /\ q.bucket = "top_priority"}}

\* blocked_by_portfolio_heat
BlockedSectors(snapshot) ==
  {s \in DOMAIN snapshot.sectors : snapshot.sectors[s].blocked > 0}

\* _alertable_states: <<category, what it is about>>
AlertableStates(snapshot) ==
  {<<snapshot.actions[s], s>> :
     s \in {t \in Symbols : snapshot.actions[t] \notin {None, "HOLD"}}}
  \cup {<<"BUY CANDIDATE", s>> : s \in TopPriority(snapshot)}
  \cup {<<"SECTOR BLOCK", s>> : s \in BlockedSectors(snapshot)}

-----------------------------------------------------------------------------
(* diff_market_state_snapshots                                             *)

Subjects ==
  ({"action", "top"} \X Symbols) \cup ({"block"} \X Sectors)
  \cup {<<"breadth", "market">>, <<"volatility", "market">>}

\* What a snapshot says of a subject.
View(snapshot, subject) ==
  CASE subject[1] = "action"  -> snapshot.actions[subject[2]]
    [] subject[1] = "top"     -> IF subject[2] \in TopPriority(snapshot) THEN "in" ELSE "out"
    [] subject[1] = "block"   ->
         IF subject[2] \in BlockedSectors(snapshot) THEN "blocked" ELSE "clear"
    [] subject[1] = "breadth" -> snapshot.context.breadth
    [] OTHER                  -> snapshot.context.volatility

\* _portfolio_transition_type
PortfolioTransitionType(from, to) ==
  CASE from = "HOLD" /\ to = "WATCH CLOSELY" -> "HOLD_TO_WATCH_CLOSELY"
    [] from = "WATCH CLOSELY" /\ to = "EXIT CANDIDATE" -> "WATCH_CLOSELY_TO_EXIT_CANDIDATE"
    [] Severity(to) < Severity(from) -> "POSITION_RISK_EASED"
    [] OTHER -> "POSITION_ACTION_ESCALATED"

\* MarketStateTransition
Transition(type, subject, from, to) ==
  [type |-> type, subject |-> subject, from |-> from, to |-> to]

Change(previous, current, subject, type) ==
  Transition(type, subject, View(previous, subject), View(current, subject))

Differs(previous, current, subject) ==
  View(previous, subject) # View(current, subject)

\* _portfolio_action_transitions: positions that come and go are the trade
\* log's business.
ActionTransitions(previous, current) ==
  {Change(previous, current, <<"action", s>>,
          PortfolioTransitionType(previous.actions[s], current.actions[s])) :
     s \in {t \in Symbols : /\ Differs(previous, current, <<"action", t>>)
                            /\ previous.actions[t] # None
                            /\ current.actions[t] # None}}

\* Only the entries are reported.
TopEntries(previous, current) ==
  {Change(previous, current, <<"top", s>>, "TOP_PRIORITY_CANDIDATE_ENTERED") :
     s \in TopPriority(current) \ TopPriority(previous)}

\* _top_priority_candidate_transitions
TopTransitions(previous, current) ==
  {Change(previous, current, <<"top", s>>, "TOP_PRIORITY_CANDIDATE_ENTERED") :
     s \in TopPriority(current) \ TopPriority(previous)}
  \cup {Change(previous, current, <<"top", s>>, "TOP_PRIORITY_CANDIDATE_EXITED") :
     s \in TopPriority(previous) \ TopPriority(current)}

\* A breadth that has not changed is reported too.
BreadthTransitionsAlways(previous, current) ==
  IF current.context.breadth = None THEN {}
  ELSE {Change(previous, current, <<"breadth", "market">>, "BREADTH_REGIME_CHANGED")}

\* A breadth is reported when it becomes known.
BreadthLearnt(previous, current) ==
  IF previous.context.breadth = None /\ current.context.breadth # None
  THEN {Change(previous, current, <<"breadth", "market">>, "BREADTH_REGIME_CHANGED")}
  ELSE {}

\* _breadth_transitions: nothing is said when the new state is not known.
BreadthTransitions(previous, current) ==
  LET subject == <<"breadth", "market">>
  IN IF Differs(previous, current, subject) /\ current.context.breadth # None
     THEN {Change(previous, current, subject, "BREADTH_REGIME_CHANGED")}
     ELSE {}

\* _volatility_transitions
VolatilityTransitions(previous, current) ==
  LET subject == <<"volatility", "market">>
  IN IF /\ Differs(previous, current, subject)
        /\ current.context.volatility # NoVolatility
     THEN {Change(previous, current, subject, "VOLATILITY_REGIME_CHANGED")}
     ELSE {}

\* _sector_block_transitions
SectorTransitions(previous, current) ==
  {Change(previous, current, <<"block", s>>, "SECTOR_BLOCK_ENTERED") :
     s \in BlockedSectors(current) \ BlockedSectors(previous)}
  \cup {Change(previous, current, <<"block", s>>, "SECTOR_BLOCK_CLEARED") :
     s \in BlockedSectors(previous) \ BlockedSectors(current)}

\* No transitions when the baseline is established.
Diff(previous, current) ==
  IF previous = None THEN {}
  ELSE UNION {ActionTransitions(previous, current), TopTransitions(previous, current),
              BreadthTransitions(previous, current), VolatilityTransitions(previous, current),
              SectorTransitions(previous, current)}

-----------------------------------------------------------------------------
(* The notices about transitions                                           *)

\* Only the first step to a worse action is a warning.
NoticeSeverityNamed(transition) ==
  IF transition.type \in
       {"HOLD_TO_WATCH_CLOSELY", "BREADTH_REGIME_CHANGED",
        "VOLATILITY_REGIME_CHANGED", "SECTOR_BLOCK_ENTERED"}
  THEN "warning" ELSE "info"

\* _market_state_transition_severity
NoticeSeverity(transition) ==
  IF transition.type \in
       {"HOLD_TO_WATCH_CLOSELY", "WATCH_CLOSELY_TO_EXIT_CANDIDATE",
        "POSITION_ACTION_ESCALATED", "BREADTH_REGIME_CHANGED",
        "VOLATILITY_REGIME_CHANGED", "SECTOR_BLOCK_ENTERED"}
  THEN "warning" ELSE "info"

\* NotificationRoute.matches, for a route with a minimum severity
PassesRoute(minimum, transition) ==
  minimum = "warning" => NoticeSeverity(transition) = "warning"
=============================================================================
