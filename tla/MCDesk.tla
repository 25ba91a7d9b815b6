------------------------------- MODULE MCDesk -------------------------------
(* Small instances of the operator's desk for TLC.  The machines share no   *)
(* state: each behaviour runs one of them and leaves the others where they   *)
(* start.                                                                   *)
EXTENDS OrderPlanning, DailySummary, PositionReviews

CONSTANTS sa, sb, sc, tech

VARIABLE part

Signal(stop, strength, passed, lead, days, earnings) ==
  [ stop |-> stop, strength |-> strength, sectorPassed |-> passed,
    sectorLead |-> lead, earningsIn |-> days, earnings |-> earnings ]

Good(stop, strength) == Signal(stop, strength, TRUE, 0, NoValue, "available")

MCSectorOf == (sa :> tech) @@ (sb :> tech) @@ (sc :> NoValue)
MCUniverse == <<sa, sb, sc>>
MCPresets  == <<40, 20>>
MCOrders   == {sa, sb, sc} \X (1 .. MaxDay)
MCSymbolOf == [o \in MCOrders |-> o[1]]
MCDecisionOf == [o \in MCOrders |-> o]

Signals3(x, y, z) == (sa :> x) @@ (sb :> y) @@ (sc :> z)

Tied    == Signals3(Good(1, 5), Good(1, 4), Good(1, 4))
Pair    == Signals3(Good(1, 5), Good(0, 4), NoValue)
Even    == Signals3(Good(0, 4), NoValue, Good(0, 4))
Late    == Signals3(NoValue, Good(1, 5), Good(0, 5))
Gated   == Signals3(Signal(1, 5, FALSE, 0, NoValue, "degraded"), NoValue, Good(1, 3))
Lagging == Signals3(Signal(1, 5, TRUE, -1, 1, "available"), Good(0, 5), NoValue)

MCSignalSets == {Tied, Pair, Late, Gated}

Market(breadth, vix, riskOff) == [breadth |-> breadth, vix |-> vix, riskOff |-> riskOff]

Calm  == Market(50, 20, FALSE)
Dark  == Market(NoValue, NoValue, FALSE)
Panic == Market(30, 20, TRUE)

MCMarkets == {Calm, Dark, Panic}

MCAccount == [equity |-> 10, drawdown |-> 0]
MCLimits ==
  [ positions |-> 2, positionPct |-> 60, perSector |-> 1, perIndustry |-> NoValue,
    sectorPct |-> NoValue, earningsDays |-> 2, breadthFloor |-> 40, vixBlock |-> 30,
    sectorRegime |-> TRUE, sectorLag |-> -1, drawdown |-> 5, reduction |-> 2 ]

NoBook == [o \in Orders |-> Absent]
NoHoldings == [s \in Symbols |-> NoPosition]

Screen(signals, market, holdings, orders) ==
  [signals |-> signals, market |-> market, portfolio |-> holdings, book |-> orders]

OneHeld    == [NoHoldings EXCEPT ![sa] = [shares |-> 1, decision |-> NoDecision]]
OnePending == [NoBook EXCEPT ![<<sb, 1>>] = NewRecord(<<sb, 1>>, 2)]

MCScreens ==
  { Screen(Tied, Calm, NoHoldings, NoBook), Screen(Late, Calm, NoHoldings, NoBook),
    Screen(Even, Calm, NoHoldings, NoBook),
    Screen(Tied, Panic, NoHoldings, NoBook), Screen(Gated, Dark, OneHeld, OnePending),
    Screen(Lagging, Dark, NoHoldings, NoBook) }

Sector == [earningsIn |-> NoValue, sectorPassed |-> TRUE, sectorLead |-> NoValue]

History(closes, atr, regime) ==
  [ closes |-> closes, benchmark |-> <<100, 100, 101>>, atr |-> atr,
    context |-> [regime |-> regime] @@ Sector ]

MCHistories ==
  { [s \in Holdings |-> h] : h \in
      { History(<<100, 108, 112, 110>>, NoValue, TRUE),  \* strong
        History(<<100, 108, 115, 110>>, 3, TRUE),        \* its stop may be raised
        History(<<100, 118, 115, 102>>, 4, TRUE),        \* fallen through that stop
        History(<<100, 101, 99, 96>>, NoValue, TRUE),    \* weak
        History(<<100, 101, 99, 96>>, 3, TRUE),          \* weak, with a stop to raise
        History(<<100, 99>>, NoValue, FALSE) } }         \* young, in a bad market

Bar(open, high, low, close) ==
  [open |-> open, high |-> high, low |-> low, close |-> close, volume |-> 1, vwap |-> close]

Tape(bars) == [bars |-> bars, benchmark |-> 0, context |-> Sector]

MCTapes ==
  { [s \in Holdings |-> t] : t \in
      { Tape(<<Bar(100, 101, 99, 101), Bar(101, 102, 100, 102), Bar(102, 102, 101, 102)>>),
        Tape(<<Bar(100, 108, 99, 103), Bar(103, 104, 101, 102), Bar(102, 103, 99, 101)>>),
        Tape(<<Bar(100, 101, 97, 98), Bar(98, 99, 96, 97), Bar(97, 98, 94, 96)>>),
        Tape(<<Bar(100, 101, 99, 100), Bar(100, 100, 88, 92), Bar(92, 99, 91, 99)>>) } }

MCHoldings == {sa}
MCEntries  == {[entry |-> 100, stop |-> 90, reference |-> NoValue]}

MCRules ==
  [ earningsDays |-> 7, sectorLag |-> -5, watchDistance |-> 3, staleDays |-> 3,
    strengthDays |-> 2, trailingAtr |-> 3,
    strengthWatch |-> -5, minProfit |-> 10, giveback |-> 10, weakDays |-> 3, watchExit |-> 2,
    leadWatch |-> -2, earlyStrength |-> 3, profit |-> 5, watchGiveback |-> 4, worsening |-> 1,
    allSession |-> 3, highProfit |-> 15, highGiveback |-> 7, weakPolls |-> 3 ]

Init ==
  /\ part \in {"planning", "summary", "reviews"}
  /\ PlanInit /\ SummaryInit /\ ReviewInit

Next ==
  \/ part = "planning" /\ PlanNext /\ UNCHANGED <<part, summaryVars, positionVars>>
  \/ part = "summary" /\ SummaryNext /\ UNCHANGED <<part, planVars, positionVars>>
  \/ part = "reviews" /\ ReviewNext /\ UNCHANGED <<part, planVars, summaryVars>>

Spec == Init /\ [][Next]_<<part, planVars, summaryVars, positionVars>>

TypeOK == PlanTypeOK /\ SummaryTypeOK /\ ReviewTypeOK
=============================================================================
