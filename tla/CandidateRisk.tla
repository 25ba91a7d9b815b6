--------------------------- MODULE CandidateRisk ---------------------------
(***************************************************************************)
(* The pure assessment of one entry candidate: position sizing             *)
(* (src/src/bot/risk/position_sizing.py), portfolio heat                   *)
(* (src/src/bot/data/portfolio_heat.py), the blockers of                   *)
(* src/src/bot/risk/portfolio_rules.py and the disposition they lead to    *)
(* (src/src/bot/risk/candidate_outcome.py).                                *)
(*                                                                         *)
(* Prices, notional amounts and equity are whole numbers of one unit,      *)
(* rates are percentages.  NoValue is Python's None.  The wording of       *)
(* reasons is left out; a blocker is its category and its severity.        *)
(***************************************************************************)
EXTENDS Integers, FiniteSets, FiniteSetsExt

CONSTANT NoValue

Known(x) == x # NoValue

Categories ==
  { "capacity", "duplicate_position", "sizing", "earnings", "volatility",
    "market_breadth", "sector_regime", "sector_relative_strength",
    "sector_exposure", "industry_exposure", "sector_notional_exposure" }

CandidateBlocker == [category : Categories, severity : {"soft", "hard"}]

Soft(category) == [category |-> category, severity |-> "soft"]
Hard(category) == [category |-> category, severity |-> "hard"]

\* The blocker, where the condition holds.
When(condition, blocker) == IF condition THEN {blocker} ELSE {}

CandidateDispositions ==
  { "actionable", "degraded_approved", "approved_capacity_blocked",
    "soft_gated", "hard_rejected" }

Actionable       == {"actionable", "degraded_approved"}
OperatorApproved == Actionable \cup {"approved_capacity_blocked"}

-----------------------------------------------------------------------------
(* Sizing                                                                  *)

\* The stop an ATR distance below a price: the initial stop at the entry, the
\* trailing stop at a later close.
AtrStop(price, atr, multiple) == price - atr * multiple

\* apply_drawdown_risk_adjustment, with the reduction factor as a divisor.
AdjustedRisk(risk, drawdown, limits) ==
  IF Known(limits.drawdown) /\ drawdown >= limits.drawdown
  THEN risk \div limits.reduction
  ELSE risk

Unsized == [valid |-> FALSE, shares |-> 0, notional |-> 0]

\* size_position, and the branch of assess_signal_candidate without a stop:
\* as many shares as the risk budget pays for and the cap on the notional allows.
SizePosition(equity, risk, entry, stop, cap) ==
  IF ~Known(stop) \/ stop >= entry THEN Unsized
  ELSE LET byRisk == (equity * risk) \div (100 * (entry - stop))
           shares == IF Known(cap)
                     THEN Min({byRisk, (equity * cap) \div (100 * entry)})
                     ELSE byRisk
       IN IF shares <= 0 THEN Unsized
          ELSE [valid |-> TRUE, shares |-> shares, notional |-> shares * entry]

-----------------------------------------------------------------------------
(* Portfolio heat: exposures are records [key, notional, sector, industry] *)

TotalNotional(exposures) == MapThenSumSet(LAMBDA e : e.notional, exposures)

SameSector(exposures, c)   == {e \in exposures : Known(c.sector) /\ e.sector = c.sector}
SameIndustry(exposures, c) ==
  {e \in exposures : Known(c.industry) /\ e.industry = c.industry}

\* build_portfolio_heat_context counts the candidate in before it compares.
SectorCrowded(exposures, c, limits) ==
  /\ Known(c.sector) /\ Known(limits.perSector)
  /\ Cardinality(SameSector(exposures, c)) + 1 > limits.perSector

IndustryCrowded(exposures, c, limits) ==
  /\ Known(c.industry) /\ Known(limits.perIndustry)
  /\ Cardinality(SameIndustry(exposures, c)) + 1 > limits.perIndustry

\* project_portfolio_heat_context: the sector's share once the candidate is in.
SectorHeavy(exposures, c, notional, limits) ==
  /\ Known(c.sector) /\ Known(limits.sectorPct)
  /\ 100 * (TotalNotional(SameSector(exposures, c)) + notional)
       > limits.sectorPct * (TotalNotional(exposures) + notional)

-----------------------------------------------------------------------------
(* Assessment                                                              *)

\* evaluate_portfolio_rules: no second entry in a symbol that is held, and no
\* entry in another one while every position is taken.
PortfolioRules(c, held, limits) ==
  IF c.symbol \in held THEN {Hard("duplicate_position")}
  ELSE When(Cardinality(held) >= limits.positions, Soft("capacity"))

\* The entry blocks of the market as a whole.
MarketBlockers(market, limits) ==
  When(/\ Known(limits.breadthFloor) /\ Known(market.breadth)
       /\ market.breadth < limits.breadthFloor,
       Hard("market_breadth"))
  \cup
  When(/\ Known(limits.vixBlock)
       /\ \/ market.riskOff
          \/ Known(market.vix) /\ market.vix >= limits.vixBlock,
       Hard("volatility"))

\* The entry blocks of the symbol and of its sector.
SymbolBlockers(c, limits) ==
  When(/\ Known(c.earningsIn) /\ Known(limits.earningsDays)
       /\ c.earningsIn <= limits.earningsDays,
       Hard("earnings"))
  \cup
  When(limits.sectorRegime /\ c.sectorPassed = FALSE, Soft("sector_regime"))
  \cup
  When(/\ Known(c.sectorLead) /\ Known(limits.sectorLag)
       /\ c.sectorLead <= limits.sectorLag,
       Soft("sector_relative_strength"))

HeatBlockers(c, sizing, exposures, limits) ==
  When(SectorCrowded(exposures, c, limits), Hard("sector_exposure"))
  \cup
  When(sizing.valid /\ SectorHeavy(exposures, c, sizing.notional, limits),
       Hard("sector_notional_exposure"))
  \cup
  When(IndustryCrowded(exposures, c, limits), Hard("industry_exposure"))

\* _assess_signal_candidate_from_features, in the order of its checks.
Blockers(c, sizing, market, held, exposures, limits) ==
  (IF sizing.valid THEN PortfolioRules(c, held, limits) ELSE {Hard("sizing")})
  \cup SymbolBlockers(c, limits)
  \cup MarketBlockers(market, limits)
  \cup HeatBlockers(c, sizing, exposures, limits)

\* _candidate_context_availability: the optional inputs that are known to be
\* missing.  A symbol without a sector has no sector context.
MissingContexts(c, market) ==
  {k \in {"sector", "volatility", "earnings", "market_breadth"} :
     \/ k = "sector" /\ ~Known(c.sector)
     \/ k = "volatility" /\ ~Known(market.vix) /\ ~market.riskOff
     \/ k = "earnings" /\ c.earnings \in {"degraded", "unavailable"}
     \/ k = "market_breadth" /\ ~Known(market.breadth)}

\* CandidateOutcome.from_blockers
Disposition(blockers, missing) ==
  CASE \E b \in blockers : b.severity = "hard" -> "hard_rejected"
    [] blockers = {Soft("capacity")}           -> "approved_capacity_blocked"
    [] blockers # {} /\ blockers # {Soft("capacity")}
       /\ \A b \in blockers : b.severity = "soft" -> "soft_gated"
    [] blockers = {} /\ missing # {}           -> "degraded_approved"
    [] blockers = {} /\ missing = {}           -> "actionable"

\* operator_candidate_disposition: what is left of it in the queue.
OperatorDisposition(disposition, actionableNow) ==
  IF disposition \in OperatorApproved /\ ~actionableNow
  THEN "approved_capacity_blocked"
  ELSE disposition

\* assess_signal_candidate for one signal and the risk per trade of its preset.
Assess(c, risk, account, market, held, exposures, limits) ==
  LET sizing   == SizePosition(account.equity,
                               AdjustedRisk(risk, account.drawdown, limits),
                               c.entry, c.stop, limits.positionPct)
      blockers == Blockers(c, sizing, market, held, exposures, limits)
  IN [ signal      |-> c,
       sizing      |-> sizing,
       crowd       |-> Cardinality(SameSector(exposures, c)),
       blockers    |-> blockers,
       disposition |-> Disposition(blockers, MissingContexts(c, market)) ]
=============================================================================
