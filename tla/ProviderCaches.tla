--------------------------- MODULE ProviderCaches ---------------------------
(***************************************************************************)
(* What the providers of market data answer, and the files they cache      *)
(* their answers in (src/src/bot/data/providers.py, earnings.py and        *)
(* reference.py): the bars of a symbol (daily and intraday bars are kept   *)
(* alike, in files of their own), the grouped bars of a day, and the       *)
(* earnings calendar.                                                      *)
(*                                                                         *)
(* An answer is saved in place, unlike the state files: the file is        *)
(* truncated and written, and other processes may read it, or save it too, *)
(* in between.  Bars are kept as CSV, of which a part is read as if it     *)
(* were all; the others as JSON, of which no part can be read.             *)
(*                                                                         *)
(* The clock ticks twice a day: 2d - 1 is the session of day d and 2d the  *)
(* evening after it.  Prices are left out: a bar is the bar so far, or the *)
(* final one.  A request takes no time on this clock.                      *)
(***************************************************************************)
EXTENDS Integers, FiniteSets, FiniteSetsExt

CONSTANTS
  Companies,   \* symbols with an earnings calendar
  Clients,     \* processes that ask the providers
  Asked,       \* the requests they make: [kind, from, to]
  Weekend,     \* days without a session
  Ttl,         \* EARNINGS_CACHE_TTL in ticks
  EventDays,   \* days earnings are announced for
  RiskDays,    \* earnings so many trading days ahead are a risk
  NoEvent,     \* no earnings are announced
  LastTick,    \* bound on the clock
  MaxCalls,    \* bound on the calls of providers
  MaxMoves     \* bound on the changes of earnings dates

VARIABLES
  clock,
  announced,   \* company -> its next earnings day, as it stands now
  past,        \* history: the calendars there have been, with their ticks
  cache,       \* the files
  fetch,       \* what each process is about to save, or NoFetch
  answer,      \* what the last step gave a process, or NoAnswer
  calls, moves

cacheVars == <<clock, announced, past, cache, fetch, answer, calls, moves>>

ASSUME CacheAssumption == Ttl \in Nat /\ LastTick \in Nat \ {0} /\ NoEvent \notin EventDays

\* cache_path, _window_path, _grouped_daily_path: one file for each window.
FileOf(r) == <<r.kind, r.from, r.to>>

\* Each of the three caches has its own cache_path.
Files == {FileOf(r) : r \in Asked}

-----------------------------------------------------------------------------
(* Answers                                                                 *)

\* What there is of each day at a tick.
BarsAt(tick) ==
  [ d \in {d \in 1 .. tick : d \notin Weekend /\ 2 * d - 1 <= tick} |->
      IF tick = 2 * d - 1 THEN "so far" ELSE "final" ]

\* filter_daily_bars_by_date, filter_intraday_bars_by_session_date
Window(bars, r) == [d \in DOMAIN bars \cap r.from .. r.to |-> bars[d]]

\* _fetch_upcoming_earnings_from_api
Upcoming(dates, r) ==
  {<<c, dates[c]>> : c \in {c \in Companies : dates[c] # NoEvent /\ dates[c] \in r.from .. r.to}}

\* What the provider sends at a tick on which the calendar is as given: the daily
\* and the grouped bars of a window, or the earnings announced for it.
Sent(r, tick, dates) ==
  IF r.kind = "earnings" THEN Upcoming(dates, r) ELSE Window(BarsAt(tick), r)

\* _normalize_earnings_records: the earliest event of a symbol.
EventOf(calendar, c) ==
  LET dates == {e[2] : e \in {e \in calendar : e[1] = c}}
  IN IF dates = {} THEN NoEvent ELSE Min(dates)

\* trading_days_until
TradingDaysUntil(from, to) == Cardinality({d \in from .. to - 1 : d \notin Weekend})

\* build_earnings_risk_contexts, for the day the calendar begins with
RiskContext(calendar, c, day) ==
  LET event == EventOf(calendar, c)
      away  == IF event = NoEvent THEN NoEvent ELSE TradingDaysUntil(day, event)
  IN [date |-> event, away |-> away, risk |-> away # NoEvent /\ away <= RiskDays]

\* What the workflows make of an answer.
Understood(r, value) ==
  IF r.kind = "earnings" THEN [c \in Companies |-> RiskContext(value, c, r.from)] ELSE value

-----------------------------------------------------------------------------
(* Files                                                                   *)

NoFile == [state |-> "missing"]

\* A file that was truncated and not, or not only, been written by its last saver.
TornFile == [state |-> "torn"]

WholeFile(value, stamp) == [state |-> "whole", value |-> value, stamp |-> stamp]

IsCsv(r) == r.kind = "bars"

\* A form of what follows without the time.
ServesAnyAge(r, file) == file.state = "whole"

\* load_window: a calendar has its time, bars have not.
Serves(r, file) ==
  file.state = "whole" /\ (r.kind = "earnings" => clock - file.stamp <= Ttl)

\* What can be read of torn CSV: the first bars of a window, whatever they say.
Pieces(r) == {[d \in {d \in r.from .. n : d \notin Weekend} |-> "cut"] : n \in r.from - 1 .. r.to}

-----------------------------------------------------------------------------
(* Requests                                                                *)

NoFetch == [pc |-> "quiet"]
NoAnswer == [ok |-> FALSE]

CacheInit ==
  /\ clock = 1
  /\ announced \in [Companies -> {NoEvent} \cup EventDays]
  /\ past = {[tick |-> 1, dates |-> announced]}
  /\ cache = [f \in Files |-> NoFile]
  /\ fetch = [p \in Clients |-> NoFetch]
  /\ answer = NoAnswer
  /\ calls = 0 /\ moves = 0

\* The provider is called if the cache is to be refreshed, or has no answer.
Calls(p, r, refresh) ==
  /\ fetch[p] = NoFetch
  /\ refresh \/ (~Serves(r, cache[FileOf(r)]) /\ cache[FileOf(r)] # TornFile)
  /\ calls < MaxCalls /\ calls' = calls + 1

\* whole: the file was not being written, or left behind by a process that died.
Give(r, value, refresh, whole) ==
  answer' = [ ok |-> TRUE, request |-> r, value |-> Understood(r, value),
              refresh |-> refresh, whole |-> whole ]

GiveNothing == answer' = NoAnswer

\* fetch_daily_bars, fetch_intraday_bars, fetch_grouped_daily_market and
\* fetch_upcoming_earnings: the cache comes first.
ServeCached(p, r) ==
  /\ fetch[p] = NoFetch
  /\ Serves(r, cache[FileOf(r)])
  /\ Give(r, cache[FileOf(r)].value, FALSE, TRUE)
  /\ UNCHANGED <<clock, announced, past, cache, fetch, calls, moves>>

\* A torn file is no reason to ask the provider: of JSON it raises until the
\* cache is refreshed, of CSV it may as well be served.
ServeTorn(p, r) ==
  /\ fetch[p] = NoFetch
  /\ cache[FileOf(r)] = TornFile
  /\ \/ GiveNothing
     \/ IsCsv(r) /\ \E part \in Pieces(r) : Give(r, part, FALSE, FALSE)
  /\ UNCHANGED <<clock, announced, past, cache, fetch, calls, moves>>

\* The grouped bars of a day without a session come without results: they are
\* answered, and not kept.
Unkept(r, value) == r.kind = "grouped" /\ value = <<>>

\* The provider is asked; what it sends has still to be saved.
CallProvider(p, r, refresh) ==
  /\ Calls(p, r, refresh)
  /\ LET value == Sent(r, clock, announced)
     IN IF Unkept(r, value)
        THEN Give(r, value, refresh, TRUE) /\ UNCHANGED fetch
        ELSE /\ fetch' = [fetch EXCEPT ![p] =
                  [pc |-> "called", request |-> r, value |-> value, refresh |-> refresh]]
             /\ GiveNothing
  /\ UNCHANGED <<clock, announced, past, cache, moves>>

\* _get_json: the request fails, times out or brings an error; no file is
\* touched.
CallFails(p, r, refresh) ==
  /\ Calls(p, r, refresh)
  /\ GiveNothing
  /\ UNCHANGED <<clock, announced, past, cache, fetch, moves>>

\* to_csv, write_text: the file is opened for writing ...
OpenCache(p) ==
  /\ fetch[p].pc = "called"
  /\ cache' = [cache EXCEPT ![FileOf(fetch[p].request)] = TornFile]
  /\ fetch' = [fetch EXCEPT ![p].pc = "opened"]
  /\ GiveNothing
  /\ UNCHANGED <<clock, announced, past, calls, moves>>

\* Another process has the file open too, or has written it since.
Contended(p) ==
  LET f == FileOf(fetch[p].request)
  IN \/ cache[f] # TornFile
     \/ \E q \in Clients \ {p} : fetch[q].pc = "opened" /\ FileOf(fetch[q].request) = f

\* ... and written; the process gives what it was sent, not what is there.
WriteCache(p) ==
  /\ fetch[p].pc = "opened"
  /\ LET r == fetch[p].request
         whole == WholeFile(fetch[p].value, clock)
     IN /\ \E file \in IF Contended(p) THEN {whole, TornFile} ELSE {whole} :
             cache' = [cache EXCEPT ![FileOf(r)] = file]
        /\ Give(r, fetch[p].value, fetch[p].refresh, TRUE)
  /\ fetch' = [fetch EXCEPT ![p] = NoFetch]
  /\ UNCHANGED <<clock, announced, past, calls, moves>>

\* The process is killed, or the save fails: the file stays as it is.
SaverDies(p) ==
  /\ fetch[p] # NoFetch
  /\ fetch' = [fetch EXCEPT ![p] = NoFetch]
  /\ GiveNothing
  /\ UNCHANGED <<clock, announced, past, cache, calls, moves>>

Tick ==
  /\ clock < LastTick /\ \A p \in Clients : fetch[p] = NoFetch
  /\ clock' = clock + 1
  /\ past' = past \cup {[tick |-> clock', dates |-> announced]}
  /\ GiveNothing
  /\ UNCHANGED <<announced, cache, fetch, calls, moves>>

\* A company announces, moves or calls off its earnings day.
Move(c, day) ==
  /\ moves < MaxMoves /\ moves' = moves + 1
  /\ announced' = [announced EXCEPT ![c] = day]
  /\ past' = past \cup {[tick |-> clock, dates |-> announced']}
  /\ GiveNothing
  /\ UNCHANGED <<clock, cache, fetch, calls>>

CacheNext ==
  \/ \E p \in Clients :
       \/ \E r \in Asked :
            \/ ServeCached(p, r) \/ ServeTorn(p, r)
            \/ \E refresh \in BOOLEAN : CallProvider(p, r, refresh) \/ CallFails(p, r, refresh)
       \/ OpenCache(p) \/ WriteCache(p) \/ SaverDies(p)
  \/ Tick
  \/ \E c \in Companies, day \in {NoEvent} \cup EventDays : Move(c, day)

CacheSpec == CacheInit /\ [][CacheNext]_cacheVars

-----------------------------------------------------------------------------
(* Properties                                                              *)

CacheTypeOK ==
  /\ clock \in 1 .. LastTick
  /\ announced \in [Companies -> {NoEvent} \cup EventDays]
  /\ \A f \in Files : cache[f].state = "whole" => cache[f].stamp \in 1 .. clock
  /\ \A p \in Clients : fetch[p] # NoFetch => fetch[p].request \in Asked

\* What a workflow is given, from the provider or from a file that other
\* processes may have saved, is what the provider sends for exactly the window
\* that was asked for: as it is now if the cache was to be refreshed, and never
\* from a calendar older than its time, although days pass and earnings dates
\* move.  Processes that die while they save, or save at once, can only make it
\* a part of CSV (the caches of DailyBarProvider and EarningsCalendarProvider).
AnswersAsSent ==
  answer.ok =>
    LET r == answer.request IN
    \/ ~answer.whole /\ IsCsv(r)
    \/ \E then \in past :
         /\ answer.refresh => then.tick = clock
         /\ r.kind = "earnings" => clock - then.tick <= Ttl
         /\ answer.value = Understood(r, Sent(r, then.tick, then.dates))
=============================================================================
