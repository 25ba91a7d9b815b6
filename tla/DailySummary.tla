---------------------------- MODULE DailySummary ----------------------------
(***************************************************************************)
(* daily-summary (_run_daily_summary_workflow in src/src/bot/main.py): the *)
(* candidates of several presets are assessed, given the memory of the     *)
(* candidate journal, ranked and remembered.  The market monitor runs the  *)
(* same workflow.  Runs may be repeated, days skipped, and a run made for a *)
(* day before that of the last one.  What a run reads of the portfolio and *)
(* of the order book is any of Screens.                                    *)
(***************************************************************************)
EXTENDS ExecutionPriority, CandidateJournal

CONSTANTS
  MaxAsOf,     \* bound on the days of runs
  MaxRuns,     \* bound on the number of runs
  Screens      \* what a run can read: signals, market, portfolio and book

\* A date is never mistaken for a missing one.
ASSUME NoDateAssumption == NoDate \notin Int

VARIABLES
  scores,      \* candidate_scores.json
  asOf,        \* the day of the last run
  forward,     \* no run was for an earlier day than the one before it
  runs,        \* runs so far
  queue,       \* the ranked candidates of the last run that can be ordered now
  approvals,   \* symbol -> days of runs that approved it, since its entry began
  sightings    \* symbol -> <<day, rank>> of runs that saw it, since then

summaryVars == <<scores, asOf, forward, runs, queue, approvals, sightings>>

SummaryInit ==
  /\ scores = [s \in Symbols |-> NoEntry]
  /\ asOf = 1
  /\ forward = TRUE
  /\ runs = 0
  /\ queue = <<>>
  /\ approvals = [s \in Symbols |-> {}]
  /\ sightings = [s \in Symbols |-> {}]

\* _candidate_journal_observations: one per symbol, over its presets.
Observations(ranking) ==
  [ s \in {ranking[i].candidate.signal.symbol : i \in 1 .. Len(ranking)} |->
      LET mine == {i \in 1 .. Len(ranking) : ranking[i].candidate.signal.symbol = s}
      IN [ approved |-> \E i \in mine : ranking[i].candidate.disposition \in OperatorApproved,
           strength |-> Max({ranking[i].candidate.signal.strength : i \in mine}),
           rank     |-> Min(mine) ] ]

\* _apply_candidate_memory_to_evaluations: the memory goes into the metadata of
\* the signal; the features that the score reads are left as they are.
WithMemory(assessed, j, today) ==
  LET seen == Observations([i \in DOMAIN assessed |-> [candidate |-> assessed[i]]])
  IN FoldLeft(LAMBDA out, c : Append(out, [c EXCEPT !.memory =
                Memory(j[c.signal.symbol], seen[c.signal.symbol], today)]),
              <<>>, assessed)

\* What is kept of a candidate of the queue.
Remembered(e) ==
  [ signal |-> e.candidate.signal, shares |-> e.candidate.sizing.shares,
    crowd  |-> e.candidate.crowd,  memory |-> e.candidate.memory ]

\* The candidates of every preset, each assessed with the ones before it in the
\* way: what is held and what earlier candidates would add.
Assessed(screen) ==
  AssessAll(Evaluations(screen.signals, Len(Presets), Held(screen.portfolio)),
            screen.market, screen.portfolio, screen.book)

\* The ranking reads the journal as the last run left it.
Ranked(screen, today) ==
  Ranking(WithMemory(Assessed(screen), scores, today),
          ReservationState(screen.portfolio, screen.book))

\* _run_daily_summary_workflow
Summarize(screen, today) ==
  LET ranking == Ranked(screen, today)
      batch   == ExecutionBatch(ranking)
      seen    == Observations(ranking)
      kept(s) == scores[s] # NoEntry /\ scores'[s] # NoEntry
  IN /\ runs < MaxRuns
     /\ scores' = UpdateJournal(scores, seen, today)
     /\ asOf' = today
     /\ forward' = (forward /\ today >= asOf)
     /\ runs' = runs + 1
     /\ queue' = [i \in DOMAIN batch |-> Remembered(batch[i])]
     /\ approvals' = [s \in Symbols |->
           (IF kept(s) THEN approvals[s] ELSE {})
           \cup (IF s \in DOMAIN seen /\ seen[s].approved THEN {today} ELSE {})]
     /\ sightings' = [s \in Symbols |->
           (IF kept(s) THEN sightings[s] ELSE {})
           \cup (IF s \in DOMAIN seen THEN {<<today, seen[s].rank>>} ELSE {})]

\* daily-summary.  What it writes for a reader and adds to the trade log is left
\* out.
SummaryNext ==
  \E screen \in Screens, today \in 1 .. MaxAsOf : Summarize(screen, today)

SummarySpec == SummaryInit /\ [][SummaryNext]_summaryVars

-----------------------------------------------------------------------------
(* Properties                                                              *)

SummaryTypeOK ==
  \A s \in Symbols : scores[s] # NoEntry =>
    scores[s] \in CandidateJournalEntry(1 .. MaxAsOf, 1 .. Len(Universe) * Len(Presets), Nat)

\* The candidate journal over repeated, skipped and back-dated runs: no day of
\* approval is forgotten, and none is counted twice while runs go forward in
\* time; the best rank and the last day are those of all runs, and the days
\* near the breakout are never more than the days the symbol was seen.
JournalTrue ==
  \A s \in Symbols :
    scores[s] # NoEntry =>
      /\ scores[s].daysApproved >= Cardinality(approvals[s])
      /\ forward => scores[s].daysApproved = Cardinality(approvals[s])
      /\ scores[s].bestRank = Min({x[2] : x \in sightings[s]})
      /\ scores[s].lastSeen = Max({x[1] : x \in sightings[s]})
      /\ scores[s].daysNear <= Cardinality({x[1] : x \in sightings[s]})

\* Candidates that differ in their memory alone.
Comparable(x, y) ==
  /\ [x.signal EXCEPT !.symbol = y.signal.symbol, !.sector = y.signal.sector] = y.signal
  /\ x.crowd = y.crowd /\ x.shares = y.shares

\* The memory-enhanced ranking (_apply_candidate_memory_to_evaluations): of two
\* such candidates, the one that has been near its breakout and approved for
\* longer is ordered first.
MemoryBreaksTies ==
  \A i, j \in DOMAIN queue :
    Comparable(queue[i], queue[j]) /\ queue[i].memory > queue[j].memory => i < j
=============================================================================
