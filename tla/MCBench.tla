------------------------------ MODULE MCBench ------------------------------
(* Small instances for TLC of the machines that run beside the desk: the    *)
(* file every store is saved to, the safety policy, proving runs with their *)
(* threads and their operators, the backtests and the providers' caches.    *)
(* Each behaviour runs one of them and leaves the others where they start.  *)
EXTENDS StateFile, PaperValidation, WalkForward, ProviderCaches

CONSTANTS
  control, dashboard, a, b,
  Machines   \* the machines of this instance

VARIABLE part

MCServers == <<control, dashboard>>

-----------------------------------------------------------------------------
(* Markets                                                                  *)

MCTickers == <<a, b>>

Bar(open, high, low, close) ==
  [open |-> open, high |-> high, low |-> low, close |-> close, volume |-> 10]

Flat  == Bar(1000, 1010, 990, 1000)
Rise  == Bar(1010, 1060, 1005, 1050)
Surge == [Bar(1080, 1150, 1075, 1140) EXCEPT !.volume = 30]
Gap   == Bar(900, 920, 880, 890)
Dip   == Bar(1050, 1055, 900, 1040)

\* Two days before the first day of a run.
TapeOf(bars) == <<Flat, Flat>> \o bars

FreeTapes == {TapeOf(<<w, x, y, z>>) : w \in {Rise, Surge}, x, y, z \in {Flat, Rise, Surge, Gap, Dip}}

Rising == TapeOf(<<Rise, Surge, Surge, Surge>>)

\* Rising, without bars on some days.
Without(days) == [d \in DOMAIN Rising \ days |-> Rising[d]]

OtherTapes == {Rising, Without({4, 5}), Without({5, 6}), <<>>}

MCBenchmark == [d \in 1 .. 6 |-> IF d = 5 THEN Flat ELSE [Flat EXCEPT !.close = 1000 + d]]

MarketOf(tapes, to) == [tapes |-> tapes, benchmark |-> MCBenchmark, from |-> 3, to |-> to]

MCMarkets == {MarketOf((a :> x) @@ (b :> y), 6) : x \in FreeTapes, y \in OtherTapes}

MCStrategy ==
  [ lookback |-> 2, volumeWindow |-> 2, volumePct |-> 150, confirm |-> FALSE,
    atrWindow |-> 2, stopAtr |-> 100, trailingAtr |-> 100, regime |-> TRUE,
    mode |-> "close_above_slow", fast |-> 1, slow |-> 2 ]

MCLimits ==
  [ positions |-> 2, positionPct |-> 60, perSector |-> NoValue, perIndustry |-> NoValue,
    sectorPct |-> NoValue, earningsDays |-> NoValue, breadthFloor |-> NoValue,
    vixBlock |-> NoValue, sectorRegime |-> FALSE, sectorLag |-> NoValue,
    drawdown |-> 2, reduction |-> 2 ]

MCSetup ==
  [ strategy |-> MCStrategy, limits |-> MCLimits, risk |-> 10, cash |-> 20000,
    bps |-> 100, marketFee |-> 7, stopFee |-> 11, closeOut |-> TRUE ]

MCSetups ==
  { MCSetup,
    [MCSetup EXCEPT !.strategy.regime = FALSE, !.closeOut = FALSE,
                    !.limits.positions = 1, !.strategy.confirm = TRUE] }

-----------------------------------------------------------------------------
(* Studies                                                                  *)

LongMarkets ==
  { [tapes |-> (a :> TapeOf(<<Rise, x, y, Surge, Dip, Gap>>)) @@ (b :> other),
     benchmark |-> TapeOf(<<Flat, Flat, Flat, Flat, Flat, Flat>>), from |-> 3, to |-> 8] :
      x \in {Surge, Gap}, y \in {Rise, Dip}, other \in {Without({4}), <<>>} }

Sweep ==
  [ command |-> "walkforward", market |-> 0, costs |-> [MCSetup EXCEPT !.strategy.regime = FALSE],
    train |-> 2, test |-> 2, expanding |-> FALSE, objective |-> "return", top |-> 2,
    lookbacks |-> {1, 2}, volumes |-> {100}, stops |-> {100}, trails |-> {100, 300},
    risks |-> {10}, names |-> {}, configured |-> NoPositions, force |-> FALSE,
    base |-> Preset(2, 100, 100, 200, 4, FALSE, "either") ]

MCPlans ==
  { [Sweep EXCEPT !.market = m, !.train = train, !.test = test, !.expanding = expanding,
                  !.objective = objective] :
      m \in LongMarkets, train \in {2, 6}, test \in {1, 3}, expanding \in BOOLEAN,
      objective \in Objectives \ {"starting", "averageWin", "averageLoss"} }
  \cup
  { [Sweep EXCEPT !.command = "compare", !.market = m, !.names = names] :
      m \in LongMarkets, names \in {{}, {"standard_breakout"}, {"unknown"}} }

-----------------------------------------------------------------------------
(* Requests, of a weekend day and the day after it                          *)

AskFor(kind, from, to) == [kind |-> kind, from |-> from, to |-> to]

MCAsked ==
  { AskFor("bars", 1, 2), AskFor("grouped", 2, 2), AskFor("earnings", 1, 2),
    AskFor("earnings", 2, 2) }

-----------------------------------------------------------------------------
(* Proving runs, in two scopes: all that the threads of one process can do,  *)
(* with nobody changing the policy; and all that operators, drills and kills *)
(* can do to the policy, beside a process in which nothing fails.           *)

Saved == status'.online = service'.online /\ status'.progress = service'.progress

\* A server that serves answers the smoke run's probe.
Answers ==
  At("probing") /\ command'.step = command.step + 1 /\ thread[Servers[command.step]] = "serving"
    => Servers[command.step] \in command'.answered

\* The status that an ended process leaves to the next one tells, if there is one,
\* of a cycle.
ThreadsOnly ==
  /\ UNCHANGED editor /\ Answers
  /\ command'.pc = "off" /\ status.exists => status.progress = "cycled"
  /\ service'.online = (service'.progress = "cycled" /\ supervisor' = "running")
  /\ supervisor' = "running" /\ service' # service => Saved

AtRest == command.pc \in {"off", "waiting", "reading", "judging", "done"}

\* To operators and drills the validation command is a smoke command without a
\* verdict.
ChangesOnly ==
  /\ ~lost /\ command'.kind # "validation"
  /\ service' = Fresh /\ ~status'.own
  /\ \A s \in ServerNames : thread'[s] # "failing"
  /\ ~command'.problem
  /\ At("probing") => command'.answered # command.answered
  /\ At("reviewing") => command'.reviewed
  /\ command.pc \in {"starting", "probing"} => command'.pc # "stopping"
  /\ editor' # editor \/ (~At("off") /\ command'.pc = "off") => AtRest
  /\ Cardinality({e \in Editors : editor'[e].pc # "idle"}) <= 2

-----------------------------------------------------------------------------

\* What operators have been told is left out.
NobodyTold ==
  /\ file = Missing
  /\ request = [p \in Procs |-> NoRequest]
  /\ told = [s \in Switches |-> BOOLEAN]

NoRun ==
  /\ data = MarketOf((a :> Rising) @@ (b :> Rising), 6)
  /\ setup = MCSetup
  /\ engine = NewEngine(setup)
  /\ today = NoDay

NoStudy ==
  /\ plan = Sweep
  /\ study = Unstarted(plan)

Init ==
  /\ part \in Machines
  /\ FileInit /\ CleanRoot
  /\ IF part = "policy" THEN PolicyInit ELSE NobodyTold
  /\ IF part = "backtest" THEN BacktestInit ELSE NoRun
  /\ IF part = "study" THEN StudyInit ELSE NoStudy
  /\ CacheInit
  /\ part = "data" \/ announced = [c \in Companies |-> NoEvent]

Next ==
  /\ UNCHANGED part
  /\ \/ part = "file" /\ FileNext
        /\ UNCHANGED <<policyVars, rootVars, backtestVars, studyVars, cacheVars>>
     \/ part = "policy" /\ PolicyNext
        /\ UNCHANGED <<fileVars, rootVars, backtestVars, studyVars, cacheVars>>
     \/ part = "threads" /\ PaperNext /\ ThreadsOnly
        /\ UNCHANGED <<fileVars, backtestVars, studyVars, cacheVars>>
     \/ part = "changes" /\ PaperNext /\ ChangesOnly
        /\ UNCHANGED <<fileVars, backtestVars, studyVars, cacheVars>>
     \/ part = "backtest" /\ BacktestNext
        /\ UNCHANGED <<fileVars, policyVars, rootVars, studyVars, cacheVars>>
     \/ part = "study" /\ StudyNext
        /\ UNCHANGED <<fileVars, policyVars, rootVars, backtestVars, cacheVars>>
     \/ part = "data" /\ CacheNext
        /\ UNCHANGED <<fileVars, policyVars, rootVars, backtestVars, studyVars>>

vars == <<part, fileVars, policyVars, rootVars, backtestVars, studyVars, cacheVars>>

Beside == UNCHANGED <<part, request, told, fileVars, backtestVars, studyVars, cacheVars>>

\* The command's main thread and the servers' threads go on.
Fairness ==
  /\ WF_rootVars(part = "threads" /\ Proceed /\ Beside)
  /\ \A i \in DOMAIN Servers :
       WF_rootVars(part = "threads" /\ ServerGoesOn(Servers[i]) /\ Beside)

Spec == Init /\ [][Next]_vars /\ Fairness

-----------------------------------------------------------------------------
(* Properties                                                               *)

TypeOK ==
  /\ FileTypeOK /\ PolicyTypeOK /\ PaperTypeOK
  /\ part = "backtest" => BacktestTypeOK
  /\ StudyTypeOK /\ CacheTypeOK

\* Once a server has failed, the supervisor has ended or the command has been
\* interrupted, the command comes to its end, whichever of its threads failed
\* when, and although the threads shut each other down.
CommandEnds == (part = "threads" /\ HasToEnd) ~> HasEnded
=============================================================================
