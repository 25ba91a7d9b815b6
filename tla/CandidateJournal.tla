------------------------- MODULE CandidateJournal -------------------------
(***************************************************************************)
(* The candidate score journal: what daily summaries remember of a symbol  *)
(* (src/src/bot/data/candidate_journal.py).  A journal maps each symbol to *)
(* an entry or to NoEntry.  Dates are whole numbers of days; the two peaks *)
(* are kept as one, the sector of the last observation is left out.        *)
(***************************************************************************)
EXTENDS Integers, FiniteSets, FiniteSetsExt

CONSTANTS
  NoEntry,         \* the symbol is not in the journal
  NoDate,          \* an optional date that is None
  StaleAfterDays,  \* entries not seen for longer are dropped
  GapResetDays     \* a longer gap ends a run of days near the breakout

CandidateJournalEntry(Dates, Ranks, Peaks) ==
  [ lastSeen     : Dates,
    daysNear     : Nat \ {0},
    daysApproved : Nat,
    lastRank     : Ranks,
    bestRank     : Ranks,
    peak         : Peaks,
    lastApproved : Dates \cup {NoDate} ]

\* The entry of a symbol that is seen for the first time.
FirstEntry(obs, day) ==
  [ lastSeen     |-> day,
    daysNear     |-> 1,
    daysApproved |-> IF obs.approved THEN 1 ELSE 0,
    lastRank     |-> obs.rank,
    bestRank     |-> obs.rank,
    peak         |-> obs.strength,
    lastApproved |-> IF obs.approved THEN day ELSE NoDate ]

\* _next_days_near_breakout
DaysNear(entry, day) ==
  IF day <= entry.lastSeen THEN entry.daysNear
  ELSE IF day - entry.lastSeen <= GapResetDays THEN entry.daysNear + 1
  ELSE 1

\* A form that counts every run.
CountsEveryApproval(entry, obs, day) == obs.approved

CountsApproval(entry, obs, day) == obs.approved /\ entry.lastApproved # day

LastSeen(entry, day) == Max({day, entry.lastSeen})

\* _next_candidate_journal_entry
NextEntry(entry, obs, day) ==
  IF entry = NoEntry THEN FirstEntry(obs, day)
  ELSE [ lastSeen     |-> LastSeen(entry, day),
         daysNear     |-> DaysNear(entry, day),
         daysApproved |-> entry.daysApproved
                            + IF CountsApproval(entry, obs, day) THEN 1 ELSE 0,
         lastRank     |-> obs.rank,
         bestRank     |-> Min({entry.bestRank, obs.rank}),
         peak         |-> Max({entry.peak, obs.strength}),
         lastApproved |-> IF CountsApproval(entry, obs, day)
                          THEN day ELSE entry.lastApproved ]

Stale(entry, day) == day - entry.lastSeen > StaleAfterDays

\* update_candidate_score_journal: the observations of one run.
UpdateJournal(journal, observations, day) ==
  [ s \in DOMAIN journal |->
      IF s \in DOMAIN observations THEN NextEntry(journal[s], observations[s], day)
      ELSE IF journal[s] # NoEntry /\ Stale(journal[s], day) THEN NoEntry
      ELSE journal[s] ]

\* _candidate_setup_quality_score, in hundredths: capped days near the breakout
\* and approvals, and the peak.
SetupQuality(entry) ==
  12 * Min({entry.daysNear, 6}) + 12 * Min({entry.daysApproved, 3}) + entry.peak

\* build_candidate_memory_features: the memory as it will be after this run.
Memory(entry, obs, day) == SetupQuality(NextEntry(entry, obs, day))
=============================================================================
