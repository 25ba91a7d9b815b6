---------------------------- MODULE LiveService ----------------------------
(***************************************************************************)
(* The live market service: LiveMarketSupervisor                           *)
(* (src/src/bot/service/live_market_service.py) over the stream adapter    *)
(* (src/src/bot/ingestion/streaming.py) and its websocket transport.  One  *)
(* thread connects, reads a batch of messages into the buffer, runs a      *)
(* market cycle when the buffer is due, drops a connection that has been   *)
(* silent for too long, tells the operator when the connection is lost or  *)
(* back, saves its status and sleeps.  The feed, the disk, the webhook and *)
(* Ctrl-C are out of its hands.                                            *)
(*                                                                         *)
(* Time is counted in ticks, and only its comparisons with the thresholds  *)
(* matter: the state holds the ages of what the code stamps, each up to    *)
(* its threshold.  Counters and texts of the status are left out.          *)
(***************************************************************************)
EXTENDS UpdateBuffer, NotificationRouting

CONSTANTS
  Messages,       \* what the feed may send
  StaleAfter,     \* silence after which a connection is dropped
  PollInterval, InitialDelay, Multiplier, MaxDelay,
  MaxExponent,    \* Multiplier to a larger power is no float (1023 for 2.0)
  MaxLag,         \* bound on the ticks an iteration takes besides its sleep
  MaxBatch,       \* bound on the messages of one poll
  MaxStarts,      \* bound on the times the process is started
  BadPortfolio    \* the portfolio file may be unreadable

ASSUME ThresholdsAssumption ==
  /\ {PollInterval, MaxLag, MaxBatch, MaxExponent, MaxStarts} \subseteq Nat
  /\ {StaleAfter, InitialDelay, MaxDelay} \subseteq Nat \ {0}
  /\ InitialDelay <= MaxDelay
  /\ Multiplier \in Nat /\ Multiplier > 1  \* with 1 the delay is constant

ASSUME BadPortfolioAssumption == BadPortfolio \in BOOLEAN

ControlTypes == {"status", "disconnect"}

ASSUME MessagesAssumption ==
  /\ Messages \subseteq [type : UpdateTypes, update : Updates] \cup [type : ControlTypes]
  /\ UpdateTypes \cap ControlTypes = {}

VARIABLES
  feed,      \* what the other end did when it was last called
  pc,        \* where the service's thread is
  status,    \* LiveMarketServiceStatus
  socket,    \* WebsocketIngestionAdapter.connected
  buffer,    \* LiveUpdateBuffer
  left,      \* messages of the batch that was read still to be taken in
  owed,      \* updates of the session taken in that no cycle has been given
  previous,  \* the service state at the top of the iteration
  artifact,  \* live_market_service_status.json
  mail,      \* notification_delivery_state.json and the operator's mailbox
  disk,      \* writes to the disk succeed
  stop,      \* _stop_requested
  ending,    \* why run() ended, or that it has not
  starts

link == <<feed, socket>>
data == <<buffer, left, owed>>
process == <<disk, stop, ending, starts>>

vars == <<pc, status, previous, artifact, mail, link, data, process>>

Feeds == {"live", "quiet", "faulty", "down"}

States == {"starting", "connected", "stale", "retrying", "stopped"}

Status ==
  [state : States, connected : BOOLEAN, stale : BOOLEAN,
   attempts : 0 .. MaxExponent + 2,  \* reconnect_attempt_count
   heard : BOOLEAN,                  \* last_raw_message_at_utc is set
   silence : Age(StaleAfter)]        \* its age, or else last_connected_at_utc's

FreshStatus ==
  [state |-> "starting", connected |-> FALSE, stale |-> FALSE, attempts |-> 0,
   heard |-> FALSE, silence |-> None]

Report(s) == [state |-> s.state, connected |-> s.connected, stale |-> s.stale]

Loop == {"top", "connect", "read", "ingest", "flush", "cycle", "settle", "sleep"}

TypeOK ==
  /\ feed \in Feeds
  /\ pc \in Loop \cup {"off", "shutdown", "closing"}
  /\ status \in Status
  /\ socket \in BOOLEAN
  /\ buffer \in Buffer
  /\ left \in 0 .. MaxBatch
  /\ owed \subseteq UpdateTypes \X Symbols
  /\ previous \in States
  /\ artifact \in [state : States, connected : BOOLEAN, stale : BOOLEAN]
  /\ mail \in Mailbox
  /\ disk \in BOOLEAN
  /\ stop \in BOOLEAN
  /\ ending \in {"none", "stopped", "interrupted", "error", "killed"}
  /\ starts \in 0 .. MaxStarts

Init ==
  /\ feed = "down"
  /\ pc = "off"
  /\ status = FreshStatus
  /\ socket = FALSE
  /\ buffer = EmptyBuffer
  /\ left = 0
  /\ owed = {}
  /\ previous = "starting"
  /\ artifact = Report(FreshStatus)
  /\ mail = EmptyMailbox
  /\ disk = TRUE
  /\ stop = FALSE
  /\ ending = "none"
  /\ starts = 0

-----------------------------------------------------------------------------
(* Status                                                                  *)

\* A lost connection is still reported as connected.
LostConnected(s, stale) ==
  [s EXCEPT !.state = "retrying", !.stale = stale, !.attempts = @ + 1]

\* The connection is lost, or was not made: the next attempt is one more.
Lost(s, stale) ==
  [s EXCEPT !.state = "retrying", !.connected = FALSE, !.stale = stale,
            !.attempts = @ + 1]

\* The warnings a step may have to record: none, or one.
SomeWarnings == {{}} \cup {{Warning(w)} : w \in Warnings}

Warn(sent) ==
  \E warnings \in SomeWarnings : mail' = RouteEvents(mail, warnings, sent, disk)

\* _persist_status: a write that fails is logged.
Persist(s, writes) == artifact' = IF writes THEN Report(s) ELSE artifact

\* The end of run_once: the warnings left to record, _notify_service_state_change
\* and the status file.
Finish(s, warnings, sent) ==
  /\ pc' = "sleep"
  /\ status' = s
  /\ mail' = RouteEvents(RouteEvents(mail, warnings, sent, disk),
                         StateNotice(previous, s.state), sent, disk)
  /\ Persist(s, disk)

-----------------------------------------------------------------------------
(* run_once                                                                *)

\* The startup warnings are recorded in the first iteration.
Begin(sent) ==
  /\ pc = "top" /\ ~stop
  /\ pc' = IF socket THEN "read" ELSE "connect"
  /\ previous' = status.state
  /\ IF status.state = "starting" THEN Warn(sent) ELSE UNCHANGED mail
  /\ UNCHANGED <<status, artifact, link, data, process>>

\* _attempt_connect.  Silence is counted from the connection only as long as no
\* connection has brought a message.
Connect ==
  /\ pc = "connect"
  /\ pc' = "read"
  /\ feed' \in Feeds \ {"down"}
  /\ socket' = TRUE
  /\ status' = [status EXCEPT !.state = "connected", !.connected = TRUE,
                              !.stale = FALSE, !.attempts = 0,
                              !.silence = IF status.heard THEN @ ELSE 0]
  /\ UNCHANGED <<previous, artifact, mail, data, process>>

\* _attempt_connect with an OSError, whose warning is not routed.
ConnectFails(sent) ==
  /\ pc = "connect"
  /\ feed' = "down"
  /\ Finish(Lost(status, FALSE), {}, sent)
  /\ UNCHANGED <<socket, previous, data, process>>

\* Messages are no sign of life.
ReadUnheard(n) ==
  /\ pc = "read"
  /\ pc' = "ingest"
  /\ feed' \in IF n = 0 THEN {"quiet"} ELSE {"live", "faulty"}
  /\ left' = n
  /\ UNCHANGED <<status, socket, buffer, owed, previous, artifact, mail, process>>

\* poll_messages: read_messages returns n messages, whatever becomes of them.
Read(n) ==
  /\ pc = "read"
  /\ pc' = "ingest"
  /\ feed' \in IF n = 0 THEN {"quiet"} ELSE {"live", "faulty"}
  /\ left' = n
  /\ status' = IF n = 0 THEN status
               ELSE [status EXCEPT !.heard = TRUE, !.silence = 0]
  /\ UNCHANGED <<socket, buffer, owed, previous, artifact, mail, process>>

\* poll_messages: read_messages raises OSError, and what it had read is gone.
ReadFails(sent) ==
  /\ pc = "read"
  /\ feed' = "down"
  /\ socket' = FALSE
  /\ Finish(Lost(status, FALSE), {}, sent)
  /\ UNCHANGED <<previous, data, process>>

\* poll_messages: a market update goes to the buffer.  One of another date
\* takes the place of the session's.
TakeUpdate(m) ==
  /\ pc = "ingest" /\ left > 0 /\ m.type \in UpdateTypes
  /\ left' = left - 1
  /\ buffer' = AddUpdate(buffer, m.type, m.update)
  /\ owed' = IF m.update.date = Session
             THEN owed \cup ({m.type} \X m.update.symbols)
             ELSE {o \in owed : o[1] # m.type}
  /\ UNCHANGED <<pc, status, previous, artifact, mail, link, process>>

\* A status or reconnect message, or one that is dropped or malformed.
SkipMessage(m) ==
  /\ pc = "ingest" /\ left > 0 /\ m.type = "status"
  /\ left' = left - 1
  /\ UNCHANGED <<pc, status, buffer, owed, previous, artifact, mail, link, process>>

\* The provider's error frame: the rest of the batch is not looked at.
TakeDisconnect(m) ==
  /\ pc = "ingest" /\ left > 0 /\ m.type = "disconnect" /\ feed = "faulty"
  /\ left' = 0
  /\ socket' = FALSE
  /\ UNCHANGED <<pc, feed, status, buffer, owed, previous, artifact, mail, process>>

\* The batch is taken in, and the connection stands.
Polled(sent) ==
  /\ pc = "ingest" /\ left = 0 /\ socket
  /\ pc' = "flush"
  /\ IF feed # "quiet" THEN Warn(sent) ELSE UNCHANGED mail
  /\ UNCHANGED <<status, previous, artifact, link, data, process>>

\* The provider has closed it.
PolledLost(sent) ==
  /\ pc = "ingest" /\ left = 0 /\ ~socket
  /\ \E warnings \in SomeWarnings : Finish(Lost(status, FALSE), warnings, sent)
  /\ UNCHANGED <<previous, link, data, process>>

\* flush_ready_cycle_ingestion returns None.
NotReady ==
  /\ pc = "flush"
  /\ ~(FlushDue(buffer) /\ Complete(buffer))
  /\ pc' = "settle"
  /\ UNCHANGED <<status, previous, artifact, mail, link, data, process>>

\* The buffer is marked when the envelope is built, before the cycle runs.
Flush ==
  /\ pc = "flush"
  /\ FlushDue(buffer) /\ Complete(buffer)
  /\ pc' = "cycle"
  /\ buffer' = MarkFlushed(buffer)
  /\ owed' = {}
  /\ UNCHANGED <<left, status, previous, artifact, mail, link, process>>

\* run_cycle and handle_cycle_result, which report what changed in the market,
\* or what failed; a failure leaves the buffer as a success does.
RunCycle(sent) ==
  /\ pc = "cycle"
  /\ pc' = "settle"
  /\ Warn(sent)
  /\ UNCHANGED <<status, previous, artifact, link, data, process>>

\* _refresh_liveness of an open connection
Silent(s) == s.silence # None /\ s.silence >= StaleAfter

\* _recover_from_stale_connection
DropStale(sent) ==
  /\ pc = "settle" /\ Silent(status)
  /\ socket' = FALSE
  /\ \E w \in Warnings : Finish(Lost(status, TRUE), {Warning(w)}, sent)
  /\ UNCHANGED <<feed, previous, data, process>>

Settle(sent) ==
  /\ pc = "settle" /\ ~Silent(status)
  /\ Finish([status EXCEPT !.state = "connected", !.connected = TRUE, !.stale = FALSE],
            {}, sent)
  /\ UNCHANGED <<previous, link, data, process>>

-----------------------------------------------------------------------------
(* run                                                                     *)

\* ReconnectBackoffPolicy.delay_for_attempt
DelayForAttempt(n) ==
  LET delay == InitialDelay * Multiplier ^ (n - 1)
  IN IF delay \in 1 .. MaxDelay THEN delay ELSE MaxDelay

\* delay_for_attempt computes the power before it compares it with the longest
\* delay: OverflowError.
Overflows(s) == s.state = "retrying" /\ s.attempts - 1 > MaxExponent

\* _sleep_delay_seconds
SleepDelay(s) ==
  IF s.state = "retrying" THEN DelayForAttempt(s.attempts) ELSE PollInterval

\* sleep, and the time the iteration itself takes
Sleep(lag) ==
  /\ pc = "sleep" /\ ~stop /\ ~Overflows(status)
  /\ pc' = "top"
  /\ LET ticks == SleepDelay(status) + lag
     IN /\ status' = [status EXCEPT !.silence = Older(@, ticks, StaleAfter)]
        /\ buffer' = BufferOlder(buffer, ticks)
  /\ UNCHANGED <<left, owed, previous, artifact, mail, link, process>>

\* The loop is left for the finally clause of run().
Leave(why) ==
  /\ pc' = "shutdown"
  /\ ending' = why
  /\ UNCHANGED <<status, previous, artifact, mail, link, data, disk, stop, starts>>

SeeStop == pc \in {"top", "sleep"} /\ stop /\ Leave("stopped")

DelayOverflows == pc = "sleep" /\ ~stop /\ Overflows(status) /\ Leave("error")

\* flush_ready_cycle_ingestion raises, and no one catches it.
PortfolioUnreadable ==
  /\ pc = "flush" /\ BadPortfolio
  /\ FlushDue(buffer) /\ (Review \/ Complete(buffer))
  /\ Leave("error")

\* KeyboardInterrupt, whose warning is not routed
Interrupt == pc \in Loop /\ Leave("interrupted")

\* _flush_on_shutdown.  What cannot be built into a cycle, or whose cycle
\* fails, is given up.
FlushOnShutdown(sent) ==
  /\ pc = "shutdown"
  /\ pc' = "closing"
  /\ \/ /\ buffer.dirty # None /\ Complete(buffer)
        /\ buffer' = MarkFlushed(buffer)
        /\ owed' = {}
        /\ Warn(sent)
     \/ /\ buffer.dirty = None \/ ~Complete(buffer) \/ BadPortfolio
        /\ UNCHANGED <<buffer, owed, mail>>
  /\ UNCHANGED <<left, status, previous, artifact, link, process>>

\* The process is gone, and with it all but its files.
Gone ==
  /\ pc' = "off"
  /\ status' = FreshStatus
  /\ socket' = FALSE
  /\ buffer' = EmptyBuffer
  /\ left' = 0
  /\ owed' = {}
  /\ previous' = "starting"
  /\ stop' = FALSE
  /\ UNCHANGED <<feed, mail, disk, starts>>

\* The end of _shutdown, and of the process.
Close ==
  /\ pc = "closing"
  /\ Persist([state |-> "stopped", connected |-> FALSE, stale |-> FALSE], disk)
  /\ Gone
  /\ UNCHANGED ending

Kill ==
  /\ pc # "off"
  /\ ending' = "killed"
  /\ Gone
  /\ UNCHANGED artifact

\* A new process: run() saves a fresh status.  It does not know that an outage
\* was announced, so it will not announce the end of it.  Its disk takes writes,
\* as it did before, or has stopped doing so.
Start ==
  /\ pc = "off" /\ starts < MaxStarts
  /\ starts' = starts + 1
  /\ pc' = "top"
  /\ ending' = "none"
  /\ disk' \in {disk, FALSE}
  /\ mail' = [mail EXCEPT !.missed = @ \/ mail.told \in Conditions]
  /\ Persist(status, disk')
  /\ UNCHANGED <<status, previous, stop, link, data>>

\* stop(), from another thread
RequestStop ==
  /\ pc \in Loop /\ ~stop
  /\ stop' = TRUE
  /\ UNCHANGED <<pc, status, previous, artifact, mail, link, data, disk, ending, starts>>

\* What the service's thread does by itself.
Work ==
  \/ Connect \/ NotReady \/ Flush
  \/ SeeStop \/ DelayOverflows \/ PortfolioUnreadable \/ Close
  \/ \E n \in 0 .. MaxBatch : Read(n)
  \/ \E m \in Messages : TakeUpdate(m) \/ SkipMessage(m) \/ TakeDisconnect(m)
  \/ \E lag \in 0 .. MaxLag : Sleep(lag)
  \/ \E sent \in BOOLEAN :
       \/ Begin(sent) \/ ConnectFails(sent) \/ ReadFails(sent)
       \/ Polled(sent) \/ PolledLost(sent) \/ RunCycle(sent)
       \/ DropStale(sent) \/ Settle(sent) \/ FlushOnShutdown(sent)

Next == Work \/ Interrupt \/ Kill \/ RequestStop \/ Start

\* The thread runs; nothing is asked of the feed, the disk or the webhook.
Spec == Init /\ [][Next]_vars /\ WF_vars(Work)

-----------------------------------------------------------------------------
(* Properties                                                              *)

\* Between two iterations of the loop, not before the first.
Settled == pc \in {"sleep", "top"} /\ status.state # "starting"

\* Between two iterations the status says what is so of the connection, and the
\* status file says what the status does: every path through run_once, the early
\* returns too, ends in step with the adapter.
StatusTruthful ==
  Settled =>
    /\ status.connected = socket
    /\ status.state = IF socket THEN "connected" ELSE "retrying"
    /\ status.attempts = 0 <=> socket
    /\ status.stale => ~socket
    /\ disk => artifact = Report(status)

\* An update of the session that was taken in is in the buffer until a cycle is
\* given it, and the buffer knows that it holds something new: no reconnect,
\* failed poll, cut batch or cycle in between loses it.  (An update of another
\* date does, and so does the end of the process.)
NothingForgotten ==
  \A o \in owed :
    /\ buffer.dirty # None
    /\ o[1] \in CurrentTypes(buffer)
    /\ o[2] \in buffer.latest[o[1]].symbols

\* Between two iterations the operator has been told what the connection is:
\* retrying, or not.  The exceptions are a notice that no channel took, a
\* process that was started after an outage was announced, and a disk that
\* refuses writes.
OperatorKnows ==
  (Settled /\ ~mail.missed /\ disk) =>
    (mail.told = "retrying" <=> status.state = "retrying")

\* No warning is delivered twice, and no outage or recovery is announced twice
\* in a row, also across restarts and lost deliveries, unless the disk refuses
\* writes.
NotNoisy == mail.repeated => ~disk

\* A feed that takes connections and goes on sending, whatever it sends short of
\* an error frame, is in the end followed, or the service has ended.
Recovers ==
  <>[](feed = "live") => <>[](pc = "off" \/ status.state = "connected")

\* As long as the service goes on reading, a buffer with what a cycle needs is
\* not kept for ever: a busy feed does not put the cycle off.
FlushNotStarved ==
  []<>(pc = "flush") => []<>~(buffer.dirty # None /\ Complete(buffer))

\* "Run the long-lived service loop until stopped or interrupted."
RunsUntilStopped == ending # "error"
=============================================================================
