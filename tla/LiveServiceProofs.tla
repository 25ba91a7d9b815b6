------------------------- MODULE LiveServiceProofs -------------------------
(***************************************************************************)
(* The safety properties of the live service, for every feed, every set of *)
(* symbols, dates and warnings, and all thresholds.  Lemmas about the      *)
(* buffer and the mailbox come first, then one lemma per action.           *)
(***************************************************************************)
EXTENDS LiveServiceInvariant, TLAPS

-----------------------------------------------------------------------------
(* The buffer                                                              *)

\* An age that is set stays set and within its bound.
LEMMA AgeGrows ==
  ASSUME NEW bound \in Nat, NEW ticks \in Nat, NEW age \in Age(bound)
  PROVE  /\ Older(age, ticks, bound) \in Age(bound)
         /\ age # None => Older(age, ticks, bound) # None
BY NoneAssumption DEF Older, Age

\* Merging gives an update that is no less than the newer one.
LEMMA MergeKeeps ==
  ASSUME NEW existing \in Updates \cup {None}, NEW incoming \in Updates
  PROVE  /\ MergeUpdates(existing, incoming) \in Updates
         /\ MergeUpdates(existing, incoming).date = incoming.date
         /\ incoming.symbols \subseteq MergeUpdates(existing, incoming).symbols
         /\ (existing # None /\ existing.date = incoming.date) =>
              existing.symbols \subseteq MergeUpdates(existing, incoming).symbols
BY NoUpdateAssumption DEF MergeUpdates, Updates

LEMMA AddKeeps ==
  ASSUME NEW b \in Buffer, NEW type \in UpdateTypes, NEW update \in Updates
  PROVE  /\ AddUpdate(b, type, update) \in Buffer
         /\ AddUpdate(b, type, update).dirty # None
         /\ AddUpdate(b, type, update).latest[type]
              = MergeUpdates(b.latest[type], update)
         /\ \A t \in UpdateTypes \ {type} :
              AddUpdate(b, type, update).latest[t] = b.latest[t]
<1> DEFINE merged == MergeUpdates(b.latest[type], update)
           added == AddUpdate(b, type, update)
<1>1. b.latest \in [UpdateTypes -> Updates \cup {None}] /\ b.dirty \in Age(FlushInterval)
  BY DEF Buffer
<1>2. merged \in Updates
  BY <1>1, MergeKeeps
<1>3. added.latest = [b.latest EXCEPT ![type] = merged]
  BY DEF AddUpdate
<1>4. added.latest \in [UpdateTypes -> Updates \cup {None}]
  BY <1>1, <1>2, <1>3
<1>5. added.dirty = IF b.dirty = None THEN 0 ELSE b.dirty
  BY DEF AddUpdate
<1>6. added.dirty \in Age(FlushInterval) /\ added.dirty # None
  BY <1>1, <1>5, FlushIntervalAssumption, NoneAssumption DEF Age
<1>7. added \in Buffer
  BY <1>4, <1>6 DEF AddUpdate, Buffer
<1> QED
  BY <1>1, <1>3, <1>6, <1>7

LEMMA FlushKeeps ==
  ASSUME NEW b \in Buffer
  PROVE  MarkFlushed(b) \in Buffer
BY DEF MarkFlushed, Buffer, Age

LEMMA EmptyIsBuffer == EmptyBuffer \in Buffer
BY DEF EmptyBuffer, Buffer, Age

LEMMA BufferAges ==
  ASSUME NEW b \in Buffer, NEW ticks \in Nat
  PROVE  /\ BufferOlder(b, ticks) \in Buffer
         /\ BufferOlder(b, ticks).latest = b.latest
         /\ b.dirty # None => BufferOlder(b, ticks).dirty # None
BY AgeGrows, FlushIntervalAssumption DEF BufferOlder, Buffer

-----------------------------------------------------------------------------
(* The mailbox                                                             *)

LEMMA EmptyMailboxTrue == EmptyMailbox \in Mailbox /\ MailTrue(EmptyMailbox)
BY DEF EmptyMailbox, Mailbox, DeliveryState, Conditions, MailTrue

\* A warning changes nothing in what the operator knows of the connection.
LEMMA WarningRouted ==
  ASSUME NEW m \in Mailbox, NEW w \in Warnings,
         NEW sent \in BOOLEAN, NEW saved \in BOOLEAN,
         NEW r, r = RouteEvent(m, Warning(w), sent, saved)
  PROVE  /\ r \in Mailbox
         /\ saved /\ MailTrue(m) => MailTrue(r)
         /\ r.told = m.told /\ r.missed = m.missed
<1> DEFINE e == Warning(w)
           due == ShouldDeliver(m.file, e)
<1>1. e.scope = "once" /\ e.key = w /\ e.clears = {}
  BY DEF Warning
<1>2. /\ m.file \in DeliveryState
      /\ m.told \in Conditions \cup {"nothing", "recovered"}
      /\ m.missed \in BOOLEAN /\ m.repeated \in BOOLEAN
      /\ m.seen \subseteq Warnings
  BY DEF Mailbox
<1>3. /\ Advance(m.file, e).active = m.file.active
      /\ Advance(m.file, e).once = m.file.once \cup {w}
      /\ Advance(m.file, e) \in DeliveryState
  BY <1>1, <1>2 DEF Advance, DeliveryState
<1>4. due => w \notin m.file.once
  BY <1>1 DEF ShouldDeliver
<1>5. /\ r.file = IF due /\ sent /\ saved THEN Advance(m.file, e) ELSE m.file
      /\ r.told = m.told /\ r.missed = m.missed
      /\ r.seen = IF due /\ sent THEN m.seen \cup {w} ELSE m.seen
      /\ r.repeated = (m.repeated \/ (due /\ sent /\ w \in m.seen \cup {m.told}))
      /\ r = [file |-> r.file, told |-> r.told, missed |-> r.missed,
              seen |-> r.seen, repeated |-> r.repeated]
  BY <1>1 DEF RouteEvent
<1> HIDE DEF e, due
<1>6. r.file \in DeliveryState /\ r.seen \subseteq Warnings /\ r.repeated \in BOOLEAN
  BY <1>2, <1>3, <1>5
<1>7. r \in Mailbox
  BY <1>2, <1>5, <1>6 DEF Mailbox
<1>8. w # m.told
  BY <1>2, WarningsAssumption
<1>9. ASSUME saved, MailTrue(m) PROVE MailTrue(r)
  <2>1. r.seen \subseteq r.file.once
    BY <1>3, <1>5, <1>9 DEF MailTrue
  <2>2. ~r.repeated
    BY <1>4, <1>5, <1>8, <1>9 DEF MailTrue
  <2> QED
    BY <1>3, <1>5, <1>9, <2>1, <2>2 DEF MailTrue
<1> QED
  BY <1>5, <1>7, <1>9

LEMMA WarningsRouted ==
  ASSUME NEW m \in Mailbox, NEW events \in SomeWarnings,
         NEW sent \in BOOLEAN, NEW saved \in BOOLEAN,
         NEW r, r = RouteEvents(m, events, sent, saved)
  PROVE  /\ r \in Mailbox
         /\ saved /\ MailTrue(m) => MailTrue(r)
         /\ r.told = m.told /\ r.missed = m.missed
<1>1. CASE events = {}
  BY <1>1 DEF RouteEvents
<1>2. CASE events # {}
  <2>1. PICK w \in Warnings : events = {Warning(w)}
    BY <1>2 DEF SomeWarnings
  <2>2. r = RouteEvent(m, Warning(w), sent, saved)
    BY <1>2, <2>1 DEF RouteEvents
  <2> QED
    BY <2>2, WarningRouted
<1> QED
  BY <1>1, <1>2

\* What becomes of a notice about the connection.
LEMMA RoutedFields ==
  ASSUME NEW m \in Mailbox, NEW e, e.scope # "once",
         NEW sent \in BOOLEAN, NEW saved \in BOOLEAN,
         NEW r, r = RouteEvent(m, e, sent, saved)
  PROVE  LET due == ShouldDeliver(m.file, e)
         IN  /\ r.file = IF due /\ sent /\ saved THEN Advance(m.file, e) ELSE m.file
             /\ r.told = IF due /\ sent THEN e.key ELSE m.told
             /\ r.missed = (due /\ ~sent)
             /\ r.seen = m.seen
             /\ r.repeated = (m.repeated \/ (due /\ sent /\ e.key \in m.seen \cup {m.told}))
             /\ r = [file |-> r.file, told |-> r.told, missed |-> r.missed,
                     seen |-> r.seen, repeated |-> r.repeated]
BY DEF RouteEvent

\* The notice of a change of state, or that there is none: afterwards the
\* operator knows the new state, if he knew the old one.
LEMMA NoticeRouted ==
  ASSUME NEW m \in Mailbox, NEW before \in States \ {"stale"},
         NEW after \in {"retrying", "connected"},
         NEW sent \in BOOLEAN, NEW saved \in BOOLEAN,
         NEW r, r = RouteEvents(m, StateNotice(before, after), sent, saved)
  PROVE  /\ r \in Mailbox
         /\ saved /\ MailTrue(m) => MailTrue(r)
         /\ saved /\ MailTrue(m) /\ Knows(m, before) => Knows(r, after)
<1>0. /\ m.file \in DeliveryState
      /\ m.told \in Conditions \cup {"nothing", "recovered"}
      /\ m.missed \in BOOLEAN /\ m.repeated \in BOOLEAN
      /\ m.seen \subseteq Warnings
  BY DEF Mailbox
<1>1. CASE after = "retrying" /\ before # "retrying"
  <2> DEFINE e == [scope |-> "active", key |-> "retrying", clears |-> {}]
             due == ShouldDeliver(m.file, e)
  <2>1. StateNotice(before, after) = {e}
    BY <1>1 DEF StateNotice, Conditions
  <2>2. r = RouteEvent(m, e, sent, saved)
    BY <2>1 DEF RouteEvents
  <2>3. due <=> "retrying" \notin m.file.active
    BY DEF ShouldDeliver
  <2>4. /\ Advance(m.file, e).active = m.file.active \cup {"retrying"}
        /\ Advance(m.file, e).once = m.file.once
        /\ Advance(m.file, e) \in DeliveryState
    BY <1>0 DEF Advance, DeliveryState, Conditions
  <2>0. e.scope # "once" /\ e.key = "retrying"
    OBVIOUS
  <2> HIDE DEF e, due
  <2>5. /\ r.file = IF due /\ sent /\ saved THEN Advance(m.file, e) ELSE m.file
        /\ r.told = IF due /\ sent THEN e.key ELSE m.told
        /\ r.missed = (due /\ ~sent)
        /\ r.seen = m.seen
        /\ r.repeated = (m.repeated \/ (due /\ sent /\ e.key \in m.seen \cup {m.told}))
        /\ r = [file |-> r.file, told |-> r.told, missed |-> r.missed,
                seen |-> r.seen, repeated |-> r.repeated]
    BY <2>0, <2>2, RoutedFields DEF due
  <2>6. r \in Mailbox
    <3>1. r.file \in DeliveryState /\ r.told \in Conditions \cup {"nothing", "recovered"}
      BY <1>0, <2>0, <2>4, <2>5 DEF Conditions
    <3>2. r.missed \in BOOLEAN /\ r.repeated \in BOOLEAN
      BY <1>0, <2>5
    <3> QED
      BY <1>0, <2>5, <3>1, <3>2 DEF Mailbox
  <2>7. ASSUME saved, MailTrue(m) PROVE MailTrue(r) /\ Knows(r, after)
    <3>1. "retrying" \notin m.seen
      BY <1>0, WarningsAssumption DEF Conditions
    <3>2. due <=> m.told # "retrying"
      BY <2>3, <2>7 DEF MailTrue, Conditions
    <3>3. r.told = "retrying" \/ ~sent
      BY <2>0, <2>5, <3>2
    <3>4. r.file.active = Conditions \cap {r.told}
      BY <2>0, <2>4, <2>5, <2>7, <3>2 DEF MailTrue, Conditions
    <3>5. r.file.once = m.file.once
      BY <2>4, <2>5
    <3>6. ~r.repeated /\ r.told # "stale"
      BY <2>0, <2>5, <2>7, <3>1, <3>2 DEF MailTrue
    <3>7. MailTrue(r)
      BY <2>5, <2>7, <3>4, <3>5, <3>6 DEF MailTrue
    <3>8. Knows(r, after)
      BY <1>1, <2>5, <3>2, <3>3 DEF Knows
    <3> QED
      BY <3>7, <3>8
  <2> QED
    BY <2>6, <2>7
<1>2. CASE after = "connected" /\ before = "retrying"
  <2> DEFINE e == [scope |-> "none", key |-> "recovered", clears |-> Conditions]
             due == ShouldDeliver(m.file, e)
  <2>1. StateNotice(before, after) = {e}
    BY <1>2 DEF StateNotice, Conditions
  <2>2. r = RouteEvent(m, e, sent, saved)
    BY <2>1 DEF RouteEvents
  <2>3. due <=> Conditions \cap m.file.active # {}
    BY DEF ShouldDeliver, Conditions
  <2>4. /\ Advance(m.file, e).active = m.file.active \ Conditions
        /\ Advance(m.file, e).once = m.file.once
        /\ Advance(m.file, e) \in DeliveryState
    BY <1>0 DEF Advance, DeliveryState
  <2>0. e.scope # "once" /\ e.key = "recovered"
    OBVIOUS
  <2> HIDE DEF e, due
  <2>5. /\ r.file = IF due /\ sent /\ saved THEN Advance(m.file, e) ELSE m.file
        /\ r.told = IF due /\ sent THEN e.key ELSE m.told
        /\ r.missed = (due /\ ~sent)
        /\ r.seen = m.seen
        /\ r.repeated = (m.repeated \/ (due /\ sent /\ e.key \in m.seen \cup {m.told}))
        /\ r = [file |-> r.file, told |-> r.told, missed |-> r.missed,
                seen |-> r.seen, repeated |-> r.repeated]
    BY <2>0, <2>2, RoutedFields DEF due
  <2>6. r \in Mailbox
    <3>1. r.file \in DeliveryState /\ r.told \in Conditions \cup {"nothing", "recovered"}
      BY <1>0, <2>0, <2>4, <2>5
    <3>2. r.missed \in BOOLEAN /\ r.repeated \in BOOLEAN
      BY <1>0, <2>5
    <3> QED
      BY <1>0, <2>5, <3>1, <3>2 DEF Mailbox
  <2>7. ASSUME saved, MailTrue(m) PROVE MailTrue(r) /\ Knows(r, after)
    <3>1. "recovered" \notin m.seen
      BY <1>0, WarningsAssumption
    <3>2. due <=> m.told = "retrying"
      BY <2>3, <2>7 DEF MailTrue, Conditions
    <3>3. m.file.active \ Conditions = {}
      BY <1>0 DEF DeliveryState
    <3>4. r.file.active = Conditions \cap {r.told}
      BY <2>0, <2>4, <2>5, <2>7, <3>2, <3>3 DEF MailTrue, Conditions
    <3>5. r.file.once = m.file.once
      BY <2>4, <2>5
    <3>6. ~r.repeated /\ r.told # "stale"
      BY <2>0, <2>5, <2>7, <3>1, <3>2 DEF MailTrue
    <3>7. MailTrue(r)
      BY <2>5, <2>7, <3>4, <3>5, <3>6 DEF MailTrue
    <3>8. Knows(r, after)
      BY <1>2, <2>0, <2>5, <3>2 DEF Knows
    <3> QED
      BY <3>7, <3>8
  <2> QED
    BY <2>6, <2>7
<1>3. CASE ~(after = "retrying" /\ before # "retrying") /\ ~(after = "connected" /\ before = "retrying")
  <2>1. StateNotice(before, after) = {}
    BY <1>3 DEF StateNotice, Conditions
  <2>2. r = m
    BY <2>1 DEF RouteEvents
  <2> QED
    BY <1>3, <2>2 DEF Knows
<1> QED
  BY <1>1, <1>2, <1>3

-----------------------------------------------------------------------------
(* The steps of run_once                                                   *)

LEMMA Thresholds ==
  /\ PollInterval \in Nat /\ MaxLag \in Nat /\ MaxBatch \in Nat
  /\ MaxExponent \in Nat /\ MaxStarts \in Nat
  /\ StaleAfter \in Nat /\ MaxDelay \in Nat
BY ThresholdsAssumption

LEMMA FreshTyped ==
  /\ FreshStatus \in Status
  /\ Report(FreshStatus) \in [state : States, connected : BOOLEAN, stale : BOOLEAN]
BY Thresholds DEF FreshStatus, Status, Report, States, Age

LEMMA ReportTyped ==
  ASSUME NEW s \in Status
  PROVE  Report(s) \in [state : States, connected : BOOLEAN, stale : BOOLEAN]
BY DEF Status, Report

LEMMA LostTyped ==
  ASSUME NEW s \in Status, s.attempts <= MaxExponent + 1, NEW stale \in BOOLEAN
  PROVE  /\ Lost(s, stale) \in Status
         /\ Lost(s, stale).state = "retrying" /\ ~Lost(s, stale).connected
         /\ Lost(s, stale).attempts > 0
<1>1. s.attempts + 1 \in 0 .. MaxExponent + 2 /\ s.attempts + 1 > 0
  BY Thresholds DEF Status
<1>2. Lost(s, stale) \in Status
  BY <1>1 DEF Lost, Status, States
<1>3. /\ Lost(s, stale).state = "retrying" /\ ~Lost(s, stale).connected
      /\ Lost(s, stale).attempts = s.attempts + 1
  BY DEF Lost, Status
<1> QED
  BY <1>1, <1>2, <1>3

\* Updates owed stay in a buffer that stays.
LEMMA DataKept ==
  ASSUME NothingForgotten, UNCHANGED <<buffer, owed>>
  PROVE  NothingForgotten'
BY DEF NothingForgotten, CurrentTypes

\* The end of run_once, whichever way it was reached.
LEMMA FinishKeeps ==
  ASSUME IInv, NEW s \in Status, NEW warnings \in SomeWarnings, NEW sent \in BOOLEAN,
         Finish(s, warnings, sent), UNCHANGED <<previous, disk>>,
         pc \in Loop \ {"top", "sleep"},
         \/ s.state = "retrying" /\ ~s.connected /\ s.attempts > 0 /\ ~socket'
         \/ /\ s.state = "connected" /\ s.connected /\ ~s.stale /\ s.attempts = 0
            /\ socket'
  PROVE  /\ pc' = "sleep" /\ status' \in Status /\ mail' \in Mailbox
         /\ artifact' \in [state : States, connected : BOOLEAN, stale : BOOLEAN]
         /\ InStep' /\ MailInStep' /\ NoticesInStep'
<1> DEFINE warned == RouteEvents(mail, warnings, sent, disk)
<1>1. /\ pc' = "sleep" /\ status' = s
      /\ mail' = RouteEvents(warned, StateNotice(previous, s.state), sent, disk)
      /\ artifact' = IF disk THEN Report(s) ELSE artifact
      /\ previous' = previous /\ disk' = disk
  BY DEF Finish, Persist
<1>2. /\ mail \in Mailbox /\ disk \in BOOLEAN /\ previous \in States
      /\ artifact \in [state : States, connected : BOOLEAN, stale : BOOLEAN]
  BY DEF IInv, TypeOK
<1>3. /\ previous # "stale" /\ Known(previous)
      /\ disk => MailTrue(mail)
  BY DEF IInv, NoticesInStep, MailInStep
<1>0. warned = RouteEvents(mail, warnings, sent, disk)
  OBVIOUS
<1> HIDE DEF warned
<1>4. /\ warned \in Mailbox
      /\ disk /\ MailTrue(mail) => MailTrue(warned)
      /\ warned.told = mail.told /\ warned.missed = mail.missed
  <2>1. warned \in Mailbox
    BY <1>0, <1>2, WarningsRouted
  <2>2. disk /\ MailTrue(mail) => MailTrue(warned)
    BY <1>0, <1>2, WarningsRouted
  <2>3. warned.told = mail.told /\ warned.missed = mail.missed
    BY <1>0, <1>2, WarningsRouted
  <2> QED
    BY <2>1, <2>2, <2>3
<1>5. disk => Knows(warned, previous)
  BY <1>3, <1>4 DEF Known, Knows
<1>6. /\ mail' \in Mailbox
      /\ disk /\ MailTrue(warned) => MailTrue(mail')
      /\ disk /\ MailTrue(warned) /\ Knows(warned, previous) => Knows(mail', s.state)
  <2>1. s.state \in {"retrying", "connected"} /\ previous \in States \ {"stale"}
    BY <1>2, <1>3
  <2> QED
    BY <1>0, <1>1, <1>2, <1>4, <2>1, NoticeRouted
<1>7. MailInStep' /\ NoticesInStep'
  BY <1>1, <1>3, <1>4, <1>5, <1>6 DEF MailInStep, NoticesInStep, Known, Loop
<1>8. artifact' \in [state : States, connected : BOOLEAN, stale : BOOLEAN]
  BY <1>1, <1>2, ReportTyped
<1>9. InStep'
  BY <1>1 DEF InStep, Retrying, Standing
<1> QED
  BY <1>1, <1>6, <1>7, <1>8, <1>9

\* A step that records a warning, or none.
LEMMA WarnKeeps ==
  ASSUME IInv, NEW sent \in BOOLEAN, Warn(sent) \/ UNCHANGED mail
  PROVE  /\ mail' \in Mailbox
         /\ disk /\ MailTrue(mail) => MailTrue(mail')
         /\ mail'.told = mail.told /\ mail'.missed = mail.missed
<1>1. mail \in Mailbox /\ disk \in BOOLEAN
  BY DEF IInv, TypeOK
<1>2. CASE UNCHANGED mail
  BY <1>1, <1>2
<1>3. CASE Warn(sent)
  <2>1. PICK warnings \in SomeWarnings : mail' = RouteEvents(mail, warnings, sent, disk)
    BY <1>3 DEF Warn
  <2>2. mail' \in Mailbox
    BY <1>1, <2>1, WarningsRouted
  <2>3. disk /\ MailTrue(mail) => MailTrue(mail')
    BY <1>1, <2>1, WarningsRouted
  <2>4. mail'.told = mail.told /\ mail'.missed = mail.missed
    BY <1>1, <2>1, WarningsRouted
  <2> QED
    BY <2>2, <2>3, <2>4
<1> QED
  BY <1>2, <1>3

LEMMA BeginKeeps ==
  ASSUME IInv, NEW sent \in BOOLEAN, Begin(sent)
  PROVE  IInv'
<1> USE DEF link, data, process
<1>1. /\ pc = "top" /\ pc' = (IF socket THEN "read" ELSE "connect")
      /\ previous' = status.state
      /\ UNCHANGED <<status, artifact, link, data, process>>
  BY DEF Begin
<1>2. /\ mail' \in Mailbox
      /\ disk /\ MailTrue(mail) => MailTrue(mail')
      /\ mail'.told = mail.told /\ mail'.missed = mail.missed
  BY WarnKeeps DEF Begin
<1>3. TypeOK'
  BY <1>1, <1>2 DEF IInv, TypeOK, Loop, Status
<1>4. InStep'
  BY <1>1 DEF IInv, InStep, Unmade, Retrying, Standing, CountFits, FreshStatus
<1>5. NothingForgotten'
  BY <1>1, DataKept DEF IInv
<1>6. MailInStep' /\ NoticesInStep'
  BY <1>1, <1>2 DEF IInv, InStep, Unmade, Retrying, Standing, FreshStatus,
                    MailInStep, NoticesInStep, Known, Knows, Loop
<1> QED
  BY <1>3, <1>4, <1>5, <1>6 DEF IInv

LEMMA ConnectKeeps ==
  ASSUME IInv, Connect
  PROVE  IInv'
<1> USE DEF link, data, process
<1>1. /\ pc = "connect" /\ pc' = "read" /\ feed' \in Feeds /\ socket' = TRUE
      /\ status' = [status EXCEPT !.state = "connected", !.connected = TRUE,
                                  !.stale = FALSE, !.attempts = 0,
                                  !.silence = IF status.heard THEN @ ELSE 0]
      /\ UNCHANGED <<previous, artifact, mail, data, process>>
  BY DEF Connect
<1>2. status \in Status /\ 0 \in Age(StaleAfter) /\ 0 \in 0 .. MaxExponent + 2
  BY Thresholds DEF IInv, TypeOK, Age
<1>3. status' \in Status
  BY <1>1, <1>2 DEF Status, States
<1>4. /\ status'.state = "connected" /\ status'.connected /\ ~status'.stale
      /\ status'.attempts = 0
  BY <1>1, <1>2 DEF Status
<1>5. TypeOK'
  BY <1>1, <1>3 DEF IInv, TypeOK, Loop
<1>6. InStep'
  BY <1>1, <1>4 DEF InStep, Standing
<1>7. NothingForgotten'
  BY <1>1, DataKept DEF IInv
<1>8. MailInStep' /\ NoticesInStep'
  BY <1>1 DEF IInv, MailInStep, NoticesInStep, Known, Knows, Loop
<1> QED
  BY <1>5, <1>6, <1>7, <1>8 DEF IInv

LEMMA ConnectFailsKeeps ==
  ASSUME IInv, NEW sent \in BOOLEAN, ConnectFails(sent)
  PROVE  IInv'
<1> USE DEF data, process
<1>1. /\ pc = "connect" /\ feed' = "down"
      /\ Finish(Lost(status, FALSE), {}, sent)
      /\ UNCHANGED <<socket, previous, data, process>>
  BY DEF ConnectFails
<1>2. status \in Status /\ status.attempts <= MaxExponent + 1 /\ ~socket
  BY <1>1 DEF IInv, TypeOK, InStep, CountFits
<1>3. /\ Lost(status, FALSE) \in Status
      /\ Lost(status, FALSE).state = "retrying" /\ ~Lost(status, FALSE).connected
      /\ Lost(status, FALSE).attempts > 0
  BY <1>2, LostTyped
<1>4. {} \in SomeWarnings /\ pc \in Loop \ {"top", "sleep"}
  BY <1>1 DEF SomeWarnings, Loop
<1>5. /\ pc' = "sleep" /\ status' \in Status /\ mail' \in Mailbox
      /\ artifact' \in [state : States, connected : BOOLEAN, stale : BOOLEAN]
      /\ InStep' /\ MailInStep' /\ NoticesInStep'
  BY <1>1, <1>2, <1>3, <1>4, FinishKeeps
<1>6. TypeOK'
  BY <1>1, <1>5 DEF IInv, TypeOK, Loop, Feeds
<1>7. NothingForgotten'
  BY <1>1, DataKept DEF IInv
<1> QED
  BY <1>5, <1>6, <1>7 DEF IInv

LEMMA ReadKeeps ==
  ASSUME IInv, NEW n \in 0 .. MaxBatch, Read(n)
  PROVE  IInv'
<1> USE DEF process
<1>1. /\ pc = "read" /\ pc' = "ingest" /\ left' = n /\ feed' \in Feeds
      /\ status' = IF n = 0 THEN status
                   ELSE [status EXCEPT !.heard = TRUE, !.silence = 0]
      /\ UNCHANGED <<socket, buffer, owed, previous, artifact, mail, process>>
  BY DEF Read, Feeds
<1>2. status \in Status /\ 0 \in Age(StaleAfter)
  BY Thresholds DEF IInv, TypeOK, Age
<1>3. /\ status' \in Status
      /\ status'.state = status.state /\ status'.connected = status.connected
      /\ status'.stale = status.stale /\ status'.attempts = status.attempts
  BY <1>1, <1>2 DEF Status
<1>4. TypeOK'
  BY <1>1, <1>3 DEF IInv, TypeOK, Loop
<1>5. InStep'
  BY <1>1, <1>3 DEF IInv, InStep, Standing
<1>6. NothingForgotten'
  BY <1>1, DataKept DEF IInv
<1>7. MailInStep' /\ NoticesInStep'
  BY <1>1 DEF IInv, MailInStep, NoticesInStep, Known, Knows, Loop
<1> QED
  BY <1>4, <1>5, <1>6, <1>7 DEF IInv

\* The connection is found lost in the middle of an iteration.
LEMMA LossKeeps ==
  ASSUME IInv, NEW sent \in BOOLEAN, NEW warnings \in SomeWarnings,
         NEW stale \in BOOLEAN, pc \in {"read", "ingest", "settle"},
         Finish(Lost(status, stale), warnings, sent),
         socket' = FALSE, feed' \in Feeds, UNCHANGED <<previous, data, process>>
  PROVE  IInv'
<1> USE DEF data, process
<1>1. status \in Status /\ status.attempts <= MaxExponent + 1
  BY Thresholds DEF IInv, TypeOK, InStep, Standing
<1>2. /\ Lost(status, stale) \in Status
      /\ Lost(status, stale).state = "retrying" /\ ~Lost(status, stale).connected
      /\ Lost(status, stale).attempts > 0
  BY <1>1, LostTyped
<1>3. pc \in Loop \ {"top", "sleep"}
  BY DEF Loop
<1>4. /\ pc' = "sleep" /\ status' \in Status /\ mail' \in Mailbox
      /\ artifact' \in [state : States, connected : BOOLEAN, stale : BOOLEAN]
      /\ InStep' /\ MailInStep' /\ NoticesInStep'
  BY <1>2, <1>3, FinishKeeps
<1>5. TypeOK'
  BY <1>4 DEF IInv, TypeOK, Loop
<1>6. NothingForgotten'
  BY DataKept DEF IInv
<1> QED
  BY <1>4, <1>5, <1>6 DEF IInv

LEMMA ReadFailsKeeps ==
  ASSUME IInv, NEW sent \in BOOLEAN, ReadFails(sent)
  PROVE  IInv'
<1>1. {} \in SomeWarnings
  BY DEF SomeWarnings
<1> QED
  BY <1>1, LossKeeps DEF ReadFails, Feeds

LEMMA PolledLostKeeps ==
  ASSUME IInv, NEW sent \in BOOLEAN, PolledLost(sent)
  PROVE  IInv'
<1>1. PICK warnings \in SomeWarnings : Finish(Lost(status, FALSE), warnings, sent)
  BY DEF PolledLost
<1>2. socket' = FALSE /\ feed' \in Feeds
  BY DEF PolledLost, link, IInv, TypeOK
<1> QED
  BY <1>1, <1>2, LossKeeps DEF PolledLost

LEMMA DropStaleKeeps ==
  ASSUME IInv, NEW sent \in BOOLEAN, DropStale(sent)
  PROVE  IInv'
<1>1. PICK w \in Warnings : Finish(Lost(status, TRUE), {Warning(w)}, sent)
  BY DEF DropStale
<1>2. {Warning(w)} \in SomeWarnings
  BY DEF SomeWarnings
<1>3. feed' \in Feeds
  BY DEF DropStale, IInv, TypeOK
<1> QED
  BY <1>1, <1>2, <1>3, LossKeeps DEF DropStale

LEMMA SettleKeeps ==
  ASSUME IInv, NEW sent \in BOOLEAN, Settle(sent)
  PROVE  IInv'
<1> DEFINE s == [status EXCEPT !.state = "connected", !.connected = TRUE, !.stale = FALSE]
<1> USE DEF link, data, process
<1>1. pc = "settle" /\ Finish(s, {}, sent) /\ UNCHANGED <<previous, link, data, process>>
  BY DEF Settle
<1>2. status \in Status /\ Standing /\ socket = TRUE
  BY <1>1 DEF IInv, TypeOK, InStep
<1>3. /\ s \in Status /\ s.state = "connected" /\ s.connected /\ ~s.stale
      /\ s.attempts = 0
  BY <1>2 DEF Status, States, Standing
<1> HIDE DEF s
<1>4. {} \in SomeWarnings /\ pc \in Loop \ {"top", "sleep"}
  BY <1>1 DEF SomeWarnings, Loop
<1>5. /\ pc' = "sleep" /\ status' \in Status /\ mail' \in Mailbox
      /\ artifact' \in [state : States, connected : BOOLEAN, stale : BOOLEAN]
      /\ InStep' /\ MailInStep' /\ NoticesInStep'
  BY <1>1, <1>2, <1>3, <1>4, FinishKeeps
<1>6. TypeOK'
  BY <1>1, <1>5 DEF IInv, TypeOK, Loop
<1>7. NothingForgotten'
  BY <1>1, DataKept DEF IInv
<1> QED
  BY <1>5, <1>6, <1>7 DEF IInv

-----------------------------------------------------------------------------
(* The steps on the batch and the buffer                                   *)

\* A step within an iteration that leaves status, previous and artifact alone.
LEMMA WithinKeeps ==
  ASSUME IInv, UNCHANGED <<status, previous, artifact, process>>,
         pc \in Loop \ {"top", "sleep", "connect"},
         pc' \in {"ingest", "flush", "cycle", "settle"},
         pc' # "ingest" => socket',
         mail' \in Mailbox, disk /\ MailTrue(mail) => MailTrue(mail'),
         mail'.told = mail.told, mail'.missed = mail.missed
  PROVE  InStep' /\ MailInStep' /\ NoticesInStep'
<1> USE DEF process
<1>1. Standing
  BY DEF IInv, InStep, Loop
<1>2. InStep'
  BY <1>1 DEF InStep, Standing
<1>3. MailInStep'
  BY DEF IInv, MailInStep
<1>4. NoticesInStep'
  BY DEF IInv, NoticesInStep, Known, Knows, Loop
<1> QED
  BY <1>2, <1>3, <1>4

LEMMA TakeUpdateKeeps ==
  ASSUME IInv, NEW m \in Messages, TakeUpdate(m)
  PROVE  IInv'
<1> USE DEF link, process
<1>1. /\ pc = "ingest" /\ left > 0 /\ m.type \in UpdateTypes
      /\ left' = left - 1
      /\ buffer' = AddUpdate(buffer, m.type, m.update)
      /\ owed' = IF m.update.date = Session
                 THEN owed \cup ({m.type} \X m.update.symbols)
                 ELSE {o \in owed : o[1] # m.type}
      /\ UNCHANGED <<pc, status, previous, artifact, mail, link, process>>
  BY DEF TakeUpdate
<1>2. m.update \in Updates
  BY <1>1, MessagesAssumption
<1>3. buffer \in Buffer /\ owed \subseteq UpdateTypes \X Symbols /\ mail \in Mailbox
  BY DEF IInv, TypeOK
<1> DEFINE old == buffer.latest[m.type]
           new == buffer'.latest[m.type]
<1>4. /\ buffer' \in Buffer /\ buffer'.dirty # None
      /\ new = MergeUpdates(old, m.update)
      /\ \A t \in UpdateTypes \ {m.type} : buffer'.latest[t] = buffer.latest[t]
  BY <1>1, <1>2, <1>3, AddKeeps
<1>5. old \in Updates \cup {None}
  BY <1>1, <1>3 DEF Buffer
<1>6. /\ new \in Updates /\ new.date = m.update.date
      /\ m.update.symbols \subseteq new.symbols
      /\ (old # None /\ old.date = m.update.date) => old.symbols \subseteq new.symbols
  BY <1>2, <1>4, <1>5, MergeKeeps
<1>7. new # None
  BY <1>6, NoUpdateAssumption
<1>8. owed' \subseteq UpdateTypes \X Symbols
  BY <1>1, <1>2, <1>3 DEF Updates
<1>9. NothingForgotten'
  <2> SUFFICES ASSUME NEW o \in owed'
               PROVE  o[1] \in CurrentTypes(buffer') /\ o[2] \in buffer'.latest[o[1]].symbols
    BY <1>4 DEF NothingForgotten
  <2>1. o[1] \in UpdateTypes
    BY <1>8
  <2>2. CASE o \in owed /\ o[1] # m.type
    <3>1. o[1] \in CurrentTypes(buffer) /\ o[2] \in buffer.latest[o[1]].symbols
      BY <2>2 DEF IInv, NothingForgotten
    <3> QED
      BY <1>4, <2>1, <2>2, <3>1 DEF CurrentTypes
  <2>3. CASE o \in owed /\ o[1] = m.type
    <3>1. /\ m.type \in CurrentTypes(buffer) /\ o[2] \in old.symbols
          /\ m.update.date = Session
      BY <1>1, <2>3 DEF IInv, NothingForgotten
    <3>2. old # None /\ old.date = Session
      BY <3>1 DEF CurrentTypes
    <3> QED
      BY <1>1, <1>6, <1>7, <2>3, <3>1, <3>2 DEF CurrentTypes
  <2>4. CASE o \notin owed
    <3>1. m.update.date = Session /\ o[1] = m.type /\ o[2] \in m.update.symbols
      BY <1>1, <2>4
    <3> QED
      BY <1>1, <1>6, <1>7, <3>1 DEF CurrentTypes
  <2> QED
    BY <2>2, <2>3, <2>4
<1>10. TypeOK'
  <2>1. left' \in 0 .. MaxBatch
    BY <1>1, Thresholds DEF IInv, TypeOK
  <2> QED
    BY <1>1, <1>4, <1>8, <2>1 DEF IInv, TypeOK
<1>11. InStep' /\ MailInStep' /\ NoticesInStep'
  BY <1>1, <1>3, WithinKeeps DEF Loop
<1> QED
  BY <1>9, <1>10, <1>11 DEF IInv

LEMMA SkipMessageKeeps ==
  ASSUME IInv, NEW m \in Messages, SkipMessage(m)
  PROVE  IInv'
<1> USE DEF link, process
<1>1. /\ pc = "ingest" /\ left > 0 /\ left' = left - 1
      /\ UNCHANGED <<pc, status, buffer, owed, previous, artifact, mail, link, process>>
  BY DEF SkipMessage
<1>2. left' \in 0 .. MaxBatch /\ mail \in Mailbox
  BY <1>1, Thresholds DEF IInv, TypeOK
<1>3. TypeOK'
  BY <1>1, <1>2 DEF IInv, TypeOK
<1>4. NothingForgotten'
  BY <1>1, DataKept DEF IInv
<1>5. InStep' /\ MailInStep' /\ NoticesInStep'
  BY <1>1, <1>2, WithinKeeps DEF Loop
<1> QED
  BY <1>3, <1>4, <1>5 DEF IInv

LEMMA TakeDisconnectKeeps ==
  ASSUME IInv, NEW m \in Messages, TakeDisconnect(m)
  PROVE  IInv'
<1> USE DEF process
<1>1. /\ pc = "ingest" /\ left' = 0 /\ socket' = FALSE
      /\ UNCHANGED <<pc, feed, status, buffer, owed, previous, artifact, mail, process>>
  BY DEF TakeDisconnect
<1>2. left' \in 0 .. MaxBatch /\ mail \in Mailbox
  BY <1>1, Thresholds DEF IInv, TypeOK
<1>3. TypeOK'
  BY <1>1, <1>2 DEF IInv, TypeOK
<1>4. NothingForgotten'
  BY <1>1, DataKept DEF IInv
<1>5. InStep' /\ MailInStep' /\ NoticesInStep'
  BY <1>1, <1>2, WithinKeeps DEF Loop
<1> QED
  BY <1>3, <1>4, <1>5 DEF IInv

LEMMA PolledKeeps ==
  ASSUME IInv, NEW sent \in BOOLEAN, Polled(sent)
  PROVE  IInv'
<1> USE DEF link, data, process
<1>1. /\ pc = "ingest" /\ pc' = "flush" /\ socket
      /\ UNCHANGED <<status, previous, artifact, link, data, process>>
  BY DEF Polled
<1>2. /\ mail' \in Mailbox
      /\ disk /\ MailTrue(mail) => MailTrue(mail')
      /\ mail'.told = mail.told /\ mail'.missed = mail.missed
  BY WarnKeeps DEF Polled
<1>3. TypeOK'
  BY <1>1, <1>2 DEF IInv, TypeOK, Loop
<1>4. NothingForgotten'
  BY <1>1, DataKept DEF IInv
<1>5. InStep' /\ MailInStep' /\ NoticesInStep'
  BY <1>1, <1>2, WithinKeeps DEF Loop
<1> QED
  BY <1>3, <1>4, <1>5 DEF IInv

LEMMA NotReadyKeeps ==
  ASSUME IInv, NotReady
  PROVE  IInv'
<1> USE DEF link, data, process
<1>1. /\ pc = "flush" /\ pc' = "settle"
      /\ UNCHANGED <<status, previous, artifact, mail, link, data, process>>
  BY DEF NotReady
<1>2. mail \in Mailbox /\ socket
  BY <1>1 DEF IInv, TypeOK, InStep
<1>3. TypeOK'
  BY <1>1 DEF IInv, TypeOK, Loop
<1>4. NothingForgotten'
  BY <1>1, DataKept DEF IInv
<1>5. InStep' /\ MailInStep' /\ NoticesInStep'
  BY <1>1, <1>2, WithinKeeps DEF Loop
<1> QED
  BY <1>3, <1>4, <1>5 DEF IInv

LEMMA FlushesKeep ==
  ASSUME IInv, Flush
  PROVE  IInv'
<1> USE DEF link, process
<1>1. /\ pc = "flush" /\ pc' = "cycle"
      /\ buffer' = MarkFlushed(buffer) /\ owed' = {}
      /\ UNCHANGED <<left, status, previous, artifact, mail, link, process>>
  BY DEF Flush
<1>2. mail \in Mailbox /\ socket /\ buffer \in Buffer
  BY <1>1 DEF IInv, TypeOK, InStep
<1>3. buffer' \in Buffer
  BY <1>1, <1>2, FlushKeeps
<1>4. TypeOK'
  BY <1>1, <1>3 DEF IInv, TypeOK, Loop
<1>5. NothingForgotten'
  BY <1>1 DEF NothingForgotten
<1>6. InStep' /\ MailInStep' /\ NoticesInStep'
  BY <1>1, <1>2, WithinKeeps DEF Loop
<1> QED
  BY <1>4, <1>5, <1>6 DEF IInv

LEMMA RunCycleKeeps ==
  ASSUME IInv, NEW sent \in BOOLEAN, RunCycle(sent)
  PROVE  IInv'
<1> USE DEF link, data, process
<1>1. /\ pc = "cycle" /\ pc' = "settle"
      /\ UNCHANGED <<status, previous, artifact, link, data, process>>
  BY DEF RunCycle
<1>2. /\ mail' \in Mailbox
      /\ disk /\ MailTrue(mail) => MailTrue(mail')
      /\ mail'.told = mail.told /\ mail'.missed = mail.missed
  BY WarnKeeps DEF RunCycle
<1>3. socket
  BY <1>1 DEF IInv, InStep
<1>4. TypeOK'
  BY <1>1, <1>2 DEF IInv, TypeOK, Loop
<1>5. NothingForgotten'
  BY <1>1, DataKept DEF IInv
<1>6. InStep' /\ MailInStep' /\ NoticesInStep'
  BY <1>1, <1>2, <1>3, WithinKeeps DEF Loop
<1> QED
  BY <1>4, <1>5, <1>6 DEF IInv

-----------------------------------------------------------------------------
(* The steps of run, and of its environment                                *)

\* Both delays are numbers, whatever the power is.
LEMMA DelayIsNat == SleepDelay(status) \in Nat
BY Thresholds DEF SleepDelay, DelayForAttempt

LEMMA SleepKeeps ==
  ASSUME IInv, NEW lag \in 0 .. MaxLag, Sleep(lag)
  PROVE  IInv'
<1> USE DEF link, process
<1> DEFINE ticks == SleepDelay(status) + lag
<1>1. /\ pc = "sleep" /\ ~Overflows(status) /\ pc' = "top"
      /\ status' = [status EXCEPT !.silence = Older(@, ticks, StaleAfter)]
      /\ buffer' = BufferOlder(buffer, ticks)
      /\ UNCHANGED <<left, owed, previous, artifact, mail, link, process>>
  BY DEF Sleep
<1>2. ticks \in Nat
  BY DelayIsNat, Thresholds
<1> HIDE DEF ticks
<1>3. status \in Status /\ buffer \in Buffer
  BY DEF IInv, TypeOK
<1>4. Older(status.silence, ticks, StaleAfter) \in Age(StaleAfter)
  BY <1>2, <1>3, AgeGrows, Thresholds DEF Status
<1>5. /\ status' \in Status
      /\ status'.state = status.state /\ status'.connected = status.connected
      /\ status'.stale = status.stale /\ status'.attempts = status.attempts
  BY <1>1, <1>3, <1>4 DEF Status
<1>6. /\ buffer' \in Buffer /\ buffer'.latest = buffer.latest
      /\ buffer.dirty # None => buffer'.dirty # None
  BY <1>1, <1>2, <1>3, BufferAges
<1>7. TypeOK'
  BY <1>1, <1>5, <1>6 DEF IInv, TypeOK, Loop
<1>8. InStep'
  <2>1. status.state # "starting" /\ (Unmade => status.state = "starting")
    BY <1>1 DEF IInv, InStep, Unmade, FreshStatus
  <2>2. (Retrying /\ ~socket) \/ (Standing /\ socket)
    BY <1>1, <2>1 DEF IInv, InStep
  <2>3. (Retrying' /\ ~socket') \/ (Standing' /\ socket')
    BY <1>1, <1>5, <2>2 DEF Retrying, Standing
  <2>4. CountFits'
    <3>1. CASE Standing
      BY <1>5, <3>1, Thresholds DEF CountFits, Standing
    <3>2. CASE Retrying
      <4>1. ~(status.attempts - 1 > MaxExponent)
        BY <1>1, <3>2 DEF Overflows, Retrying
      <4>2. status.attempts <= MaxExponent + 1
        BY <1>3, <4>1, Thresholds DEF Status
      <4> QED
        BY <1>5, <4>2 DEF CountFits
    <3> QED
      BY <2>2, <3>1, <3>2
  <2>5. disk' => artifact' = Report(status')
    BY <1>1, <1>5 DEF IInv, InStep, Report
  <2> QED
    BY <1>1, <2>3, <2>4, <2>5 DEF InStep
<1>9. NothingForgotten'
  BY <1>1, <1>6 DEF IInv, NothingForgotten, CurrentTypes
<1>10. MailInStep' /\ NoticesInStep'
  BY <1>1, <1>5 DEF IInv, MailInStep, NoticesInStep, Known, Loop
<1> QED
  BY <1>7, <1>8, <1>9, <1>10 DEF IInv

\* The loop is left.
LEMMA LeaveKeeps ==
  ASSUME IInv, NEW why \in {"stopped", "interrupted", "error"}, Leave(why)
  PROVE  IInv'
<1> USE DEF link, data
<1>1. /\ pc' = "shutdown" /\ ending' = why
      /\ UNCHANGED <<status, previous, artifact, mail, link, data, disk, stop, starts>>
  BY DEF Leave
<1>2. TypeOK'
  BY <1>1 DEF IInv, TypeOK
<1>3. InStep'
  BY <1>1 DEF InStep
<1>4. NothingForgotten'
  BY <1>1, DataKept DEF IInv
<1>5. MailInStep' /\ NoticesInStep'
  BY <1>1 DEF IInv, MailInStep, NoticesInStep, Loop
<1> QED
  BY <1>2, <1>3, <1>4, <1>5 DEF IInv

LEMMA EndingsKeep ==
  ASSUME IInv, SeeStop \/ DelayOverflows \/ PortfolioUnreadable \/ Interrupt
  PROVE  IInv'
BY LeaveKeeps DEF SeeStop, DelayOverflows, PortfolioUnreadable, Interrupt

LEMMA FlushOnShutdownKeeps ==
  ASSUME IInv, NEW sent \in BOOLEAN, FlushOnShutdown(sent)
  PROVE  IInv'
<1> USE DEF link, process
<1>1. /\ pc = "shutdown" /\ pc' = "closing"
      /\ UNCHANGED <<left, status, previous, artifact, link, process>>
  BY DEF FlushOnShutdown
<1>2. /\ mail' \in Mailbox
      /\ disk /\ MailTrue(mail) => MailTrue(mail')
  BY WarnKeeps DEF FlushOnShutdown
<1>3. buffer' \in Buffer /\ NothingForgotten' /\ owed' \subseteq UpdateTypes \X Symbols
  <2>1. CASE buffer' = MarkFlushed(buffer) /\ owed' = {}
    BY <2>1, FlushKeeps DEF IInv, TypeOK, NothingForgotten
  <2>2. CASE UNCHANGED <<buffer, owed>>
    BY <2>2, DataKept DEF IInv, TypeOK
  <2> QED
    BY <2>1, <2>2 DEF FlushOnShutdown
<1>4. TypeOK'
  BY <1>1, <1>2, <1>3 DEF IInv, TypeOK
<1>5. InStep'
  BY <1>1 DEF InStep
<1>6. MailInStep' /\ NoticesInStep'
  BY <1>1, <1>2 DEF IInv, MailInStep, NoticesInStep, Loop
<1> QED
  BY <1>3, <1>4, <1>5, <1>6 DEF IInv

\* The process ends.
LEMMA GoneKeeps ==
  ASSUME IInv, Gone, ending' \in {"none", "stopped", "interrupted", "error", "killed"},
         artifact' \in [state : States, connected : BOOLEAN, stale : BOOLEAN]
  PROVE  IInv'
<1>1. /\ pc' = "off" /\ status' = FreshStatus /\ socket' = FALSE
      /\ buffer' = EmptyBuffer /\ left' = 0 /\ owed' = {}
      /\ previous' = "starting" /\ stop' = FALSE
      /\ UNCHANGED <<feed, mail, disk, starts>>
  BY DEF Gone
<1>2. TypeOK'
  <2>1. 0 \in 0 .. MaxBatch /\ previous' \in States
    BY <1>1, Thresholds DEF States
  <2> QED
    BY <1>1, <2>1, FreshTyped, EmptyIsBuffer DEF IInv, TypeOK
<1>3. InStep'
  BY <1>1 DEF InStep
<1>4. NothingForgotten'
  BY <1>1 DEF NothingForgotten
<1>5. MailInStep' /\ NoticesInStep'
  BY <1>1 DEF IInv, MailInStep, NoticesInStep, Loop
<1> QED
  BY <1>2, <1>3, <1>4, <1>5 DEF IInv

LEMMA CloseKeeps ==
  ASSUME IInv, Close
  PROVE  IInv'
<1> DEFINE s == [state |-> "stopped", connected |-> FALSE, stale |-> FALSE]
<1>1. Gone /\ UNCHANGED ending /\ artifact' = IF disk THEN Report(s) ELSE artifact
  BY DEF Close, Persist
<1>2. Report(s) \in [state : States, connected : BOOLEAN, stale : BOOLEAN]
  BY DEF Report, States
<1>3. artifact' \in [state : States, connected : BOOLEAN, stale : BOOLEAN]
  BY <1>1, <1>2 DEF IInv, TypeOK
<1>4. ending' \in {"none", "stopped", "interrupted", "error", "killed"}
  BY <1>1 DEF IInv, TypeOK
<1> QED
  BY <1>1, <1>3, <1>4, GoneKeeps

LEMMA KillKeeps ==
  ASSUME IInv, Kill
  PROVE  IInv'
<1>1. /\ Gone /\ ending' = "killed"
      /\ artifact' \in [state : States, connected : BOOLEAN, stale : BOOLEAN]
  BY DEF Kill, IInv, TypeOK
<1> QED
  BY <1>1, GoneKeeps

LEMMA StartKeeps ==
  ASSUME IInv, Start
  PROVE  IInv'
<1> USE DEF link, data
<1>1. /\ pc = "off" /\ starts < MaxStarts /\ starts' = starts + 1
      /\ pc' = "top" /\ ending' = "none" /\ disk' \in {disk, FALSE}
      /\ mail' = [mail EXCEPT !.missed = @ \/ mail.told \in Conditions]
      /\ artifact' = IF disk' THEN Report(status) ELSE artifact
      /\ UNCHANGED <<status, previous, stop, link, data>>
  BY DEF Start, Persist
<1>2. /\ status = FreshStatus /\ ~socket /\ mail \in Mailbox /\ disk \in BOOLEAN
      /\ starts \in 0 .. MaxStarts
  BY <1>1 DEF IInv, InStep, TypeOK
<1>3. /\ mail' \in Mailbox
      /\ mail'.told = mail.told /\ mail'.file = mail.file
      /\ mail'.seen = mail.seen /\ mail'.repeated = mail.repeated
      /\ ~mail'.missed => mail.told \notin Conditions
  BY <1>1, <1>2 DEF Mailbox
<1>4. starts' \in 0 .. MaxStarts
  BY <1>1, <1>2, Thresholds
<1>5. artifact' \in [state : States, connected : BOOLEAN, stale : BOOLEAN]
  BY <1>1, <1>2, FreshTyped DEF IInv, TypeOK
<1>6. TypeOK'
  BY <1>1, <1>2, <1>3, <1>4, <1>5 DEF IInv, TypeOK, Loop
<1>7. InStep'
  <2>1. Unmade'
    BY <1>1, <1>2 DEF Unmade, FreshStatus
  <2>2. CountFits'
    BY <1>1, <1>2, Thresholds DEF CountFits, FreshStatus
  <2> QED
    BY <1>1, <1>2, <2>1, <2>2 DEF InStep
<1>8. NothingForgotten'
  BY <1>1, DataKept DEF IInv
<1>9. MailInStep'
  BY <1>1, <1>3 DEF IInv, MailInStep, MailTrue
<1>10. NoticesInStep'
  <2>1. ~mail'.missed => mail'.told # "retrying"
    BY <1>3 DEF Conditions
  <2>2. status'.state = "starting"
    BY <1>1, <1>2 DEF FreshStatus
  <2> QED
    BY <1>1, <2>1, <2>2 DEF NoticesInStep, Known, Knows, Loop
<1> QED
  BY <1>6, <1>7, <1>8, <1>9, <1>10 DEF IInv

LEMMA RequestStopKeeps ==
  ASSUME IInv, RequestStop
  PROVE  IInv'
<1> USE DEF link, data
<1>1. /\ stop' = TRUE
      /\ UNCHANGED <<pc, status, previous, artifact, mail, link, data, disk, ending, starts>>
  BY DEF RequestStop
<1>2. TypeOK'
  BY <1>1 DEF IInv, TypeOK
<1>3. InStep'
  BY <1>1 DEF IInv, InStep, Unmade, Retrying, Standing, CountFits
<1>4. NothingForgotten'
  BY <1>1, DataKept DEF IInv
<1>5. MailInStep' /\ NoticesInStep'
  BY <1>1 DEF IInv, MailInStep, NoticesInStep, Known
<1> QED
  BY <1>2, <1>3, <1>4, <1>5 DEF IInv

-----------------------------------------------------------------------------
(* The theorems                                                            *)

LEMMA InitHolds == Init => IInv
<1> SUFFICES ASSUME Init PROVE IInv
  OBVIOUS
<1>1. TypeOK
  <2>1. 0 \in 0 .. MaxBatch /\ 0 \in 0 .. MaxStarts /\ "starting" \in States
    BY Thresholds DEF States
  <2> QED
    BY <2>1, FreshTyped, EmptyIsBuffer, EmptyMailboxTrue DEF Init, TypeOK, Feeds
<1>2. InStep
  BY DEF Init, InStep
<1>3. NothingForgotten
  BY DEF Init, NothingForgotten
<1>4. MailInStep /\ NoticesInStep
  BY EmptyMailboxTrue DEF Init, MailInStep, NoticesInStep, Loop
<1> QED
  BY <1>1, <1>2, <1>3, <1>4 DEF IInv

LEMMA StepKeeps == IInv /\ [Next]_vars => IInv'
<1> SUFFICES ASSUME IInv, [Next]_vars PROVE IInv'
  OBVIOUS
<1>1. CASE Work
  <2>1. CASE Connect \/ NotReady \/ Flush \/ SeeStop \/ DelayOverflows
             \/ PortfolioUnreadable \/ Close
    BY <2>1, ConnectKeeps, NotReadyKeeps, FlushesKeep, EndingsKeep, CloseKeeps
  <2>2. CASE \E n \in 0 .. MaxBatch : Read(n)
    BY <2>2, ReadKeeps
  <2>3. CASE \E m \in Messages : TakeUpdate(m) \/ SkipMessage(m) \/ TakeDisconnect(m)
    BY <2>3, TakeUpdateKeeps, SkipMessageKeeps, TakeDisconnectKeeps
  <2>4. CASE \E lag \in 0 .. MaxLag : Sleep(lag)
    BY <2>4, SleepKeeps
  <2>5. CASE \E sent \in BOOLEAN :
               \/ Begin(sent) \/ ConnectFails(sent) \/ ReadFails(sent)
               \/ Polled(sent) \/ PolledLost(sent) \/ RunCycle(sent)
               \/ DropStale(sent) \/ Settle(sent) \/ FlushOnShutdown(sent)
    BY <2>5, BeginKeeps, ConnectFailsKeeps, ReadFailsKeeps, PolledKeeps,
       PolledLostKeeps, RunCycleKeeps, DropStaleKeeps, SettleKeeps,
       FlushOnShutdownKeeps
  <2> QED
    BY <1>1, <2>1, <2>2, <2>3, <2>4, <2>5 DEF Work
<1>2. CASE Interrupt \/ Kill \/ RequestStop \/ Start
  BY <1>2, EndingsKeep, KillKeeps, RequestStopKeeps, StartKeeps
<1>3. CASE UNCHANGED vars
  <2> USE <1>3 DEF vars, link, data, process
  <2>1. TypeOK'
    BY DEF IInv, TypeOK
  <2>2. InStep'
    BY DEF IInv, InStep, Unmade, Retrying, Standing, CountFits
  <2>3. NothingForgotten'
    BY DataKept DEF IInv
  <2>4. MailInStep' /\ NoticesInStep'
    BY DEF IInv, MailInStep, NoticesInStep, Known
  <2> QED
    BY <2>1, <2>2, <2>3, <2>4 DEF IInv
<1> QED
  BY <1>1, <1>2, <1>3 DEF Next

\* The invariant of the live service holds in every reachable state.
THEOREM ServiceInvariant == Spec => []IInv
<1> QED
  BY InitHolds, StepKeeps, PTL DEF Spec

\* Every variable of the live service keeps its type; in particular the number
\* of failed attempts stays within what the back-off can compute, or the loop
\* has been left.
THEOREM ServiceTypeCorrect == Spec => []TypeOK
<1>1. IInv => TypeOK
  BY DEF IInv
<1> QED
  BY <1>1, ServiceInvariant, PTL

\* Between two iterations status and status file say what is so of the
\* connection.
THEOREM StatusIsTruthful == Spec => []StatusTruthful
<1>1. IInv => StatusTruthful
  <2> SUFFICES ASSUME IInv, Settled PROVE StatusTruthful
    BY DEF StatusTruthful
  <2>1. (Retrying /\ ~socket) \/ (Standing /\ socket)
    BY DEF IInv, InStep, Settled, Unmade, FreshStatus
  <2>2. disk => artifact = Report(status)
    BY DEF IInv, InStep, Settled
  <2>3. status.connected \in BOOLEAN /\ socket \in BOOLEAN /\ status.attempts \in Nat
    BY DEF IInv, TypeOK, Status
  <2> QED
    BY <2>1, <2>2, <2>3 DEF StatusTruthful, Retrying, Standing
<1> QED
  BY <1>1, ServiceInvariant, PTL

\* No update of the session is lost between its message and a cycle.
THEOREM UpdatesAreKept == Spec => []NothingForgotten
<1>1. IInv => NothingForgotten
  BY DEF IInv
<1> QED
  BY <1>1, ServiceInvariant, PTL

\* Between two iterations the operator knows of an outage if there is one.
THEOREM OperatorIsTold == Spec => []OperatorKnows
<1>1. IInv => OperatorKnows
  BY DEF IInv, NoticesInStep, Known, Knows, OperatorKnows, Settled
<1> QED
  BY <1>1, ServiceInvariant, PTL

\* Nothing is delivered twice while the disk takes writes.
THEOREM ToldOnce == Spec => []NotNoisy
<1>1. IInv => NotNoisy
  BY DEF IInv, MailInStep, MailTrue, NotNoisy
<1> QED
  BY <1>1, ServiceInvariant, PTL
=============================================================================
