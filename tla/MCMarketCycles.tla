--------------------------- MODULE MCMarketCycles ---------------------------
(* A small instance of MarketCycles for TLC: one position, one sector, three *)
(* daily summaries and four reviews.                                        *)
EXTENDS MarketCycles

CONSTANTS s1, x1, live, cli

Row(approved, actionable, bucket, heat) ==
  [symbol |-> s1, sector |-> x1, approved |-> approved,
   actionable |-> actionable, bucket |-> bucket, heat |-> heat]

Context(breadth, state, riskOff) ==
  [breadth |-> breadth, volatility |-> [state |-> state, riskOff |-> riskOff]]

MCSummaries ==
  { [context |-> Context("weak", "calm", FALSE),
     rows |-> {Row(TRUE, TRUE, "top_priority", FALSE)}],
    [context |-> Context("strong", None, TRUE),
     rows |-> {Row(TRUE, FALSE, "top_priority", TRUE)}],
    [context |-> None, rows |-> {}] }

MCReviews ==
  { {},
    {[symbol |-> s1, action |-> "HOLD"]},
    {[symbol |-> s1, action |-> "WATCH CLOSELY"], [symbol |-> s1, action |-> "HOLD"]},
    {[symbol |-> s1, action |-> "EXIT CANDIDATE"]} }

MCRequests ==
  [p \in Procs |->
    IF p = Live THEN [include |-> {"daily", "portfolio"}, required |-> {"daily"}]
    ELSE [include |-> {"intraday"}, required |-> {"intraday"}]]
=============================================================================
