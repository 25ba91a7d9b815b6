----------------------------- MODULE BenchProofs -----------------------------
(***************************************************************************)
(* What a state file holds, proved for any number of processes, documents  *)
(* and files (StateFile).                                                  *)
(*                                                                         *)
(* The temporary file never becomes the file itself but by a rename, so a  *)
(* save that is alone truncates and writes only what nobody reads, and     *)
(* what it renames is what it has written: FInv says so of every process   *)
(* in the middle of a save.                                                *)
(*                                                                         *)
(* And what the providers' caches answer, proved for any requests, clients *)
(* and calendars (ProviderCaches): a whole file holds what was sent at its *)
(* stamp, and a process saves what it was sent since the clock last        *)
(* ticked (CInv).                                                          *)
(*                                                                         *)
(* What the safety policy keeps of its promises, proved for any number of  *)
(* server threads and CLI processes (SafetyPolicy).                        *)
(*                                                                         *)
(* The promises hold as long as one thread at a time changes settings and  *)
(* no command takes the defaults for a file that is missing.  Without the  *)
(* first, the run pause_lost shows how they break.                         *)
(*                                                                         *)
(* What the verdict of a proving run is worth, proved for any number of    *)
(* servers, restarts, changes of the policy and drills (PaperValidation).  *)
(*                                                                         *)
(* Each change of the policy is followed by its record before the same     *)
(* operator changes anything again, so what strayed is in the evidence, is *)
(* about to be, or was lost (Traced).  And a smoke run that has had no     *)
(* problem judges the status its own supervisor saved (Judged).            *)
(***************************************************************************)
EXTENDS StateFile, ProviderCaches, PaperValidation, TLAPS
-----------------------------------------------------------------------------
(* State files                                                             *)

\* A process has a file open only while it writes, and what it is to save is
\* a document.
WritesDoc ==
  \A p \in Writers :
    /\ proc[p].fd # None <=> proc[p].pc = "opened"
    /\ MidSave(p) => proc[p].doc \in Docs

\* The file and the temporary file are two files.
Apart == path # None => path # tmp

\* Of the saves that have not met another: there is one at a time, the file it
\* writes is the temporary one, and when it is done that holds its document.
Alone ==
  /\ \A p, q \in Writers : MidSave(p) /\ MidSave(q) => p = q
  /\ \A p \in Writers :
       /\ proc[p].pc = "opened" => proc[p].fd = tmp
       /\ proc[p].pc = "written" => tmp # None /\ content[tmp] = proc[p].doc

FInv ==
  /\ FileTypeOK
  /\ WritesDoc
  /\ Apart
  /\ ~clash => Alone /\ NeverTorn

LEMMA FileInitHolds == FileInit => FInv
<1> SUFFICES ASSUME FileInit PROVE FInv
  OBVIOUS
<1>1. \A p \in Writers : proc[p] = Idle
  BY DEF FileInit
<1>2. FileTypeOK
  BY DEF FileInit, FileTypeOK, Idle
<1>3. WritesDoc /\ Alone
  BY <1>1 DEF WritesDoc, Alone, MidSave, Idle
<1>4. Apart /\ NeverTorn
  BY DEF FileInit, Apart, NeverTorn
<1> QED
  BY <1>2, <1>3, <1>4 DEF FInv

-----------------------------------------------------------------------------
(* The steps                                                               *)

\* The calls that leave the files alone keep the invariant: loading, giving up,
\* dying and a rename that fails (load_json_mapping_file).
LEMMA CallKeeps ==
  ASSUME FInv, NEW p \in Writers,
         NEW r \in [ pc : {"idle", "loaded"}, fd : {None}, doc : Docs \cup {Nothing} ],
         Call(p, r), UNCHANGED <<path, tmp, content, clash>>
  PROVE  FInv'
<1>1. FileTypeOK'
  BY DEF FInv, FileTypeOK, Call
<1>2. \A q \in Writers : MidSave(q)' => q # p /\ MidSave(q) /\ proc'[q] = proc[q]
  BY DEF FInv, FileTypeOK, Call, MidSave
<1>3. WritesDoc'
  BY <1>2 DEF FInv, FileTypeOK, WritesDoc, Call, MidSave
<1>4. Apart'
  BY DEF FInv, Apart
<1>5. ~clash' => Alone' /\ NeverTorn'
  BY <1>2 DEF FInv, Alone, NeverTorn, MidSave, FileTypeOK, Call
<1> QED
  BY <1>1, <1>3, <1>4, <1>5 DEF FInv

LEMMA ParsedIsNothingOrDoc ==
  ASSUME FileTypeOK
  PROVE  Parsed \in Docs \cup {Nothing}
BY DEF FileTypeOK, Parsed

LEMMA LoadKeeps ==
  ASSUME FInv, NEW p \in Writers, Load(p)
  PROVE  FInv'
<1>1. [Idle EXCEPT !.pc = "loaded", !.doc = Parsed]
        \in [ pc : {"idle", "loaded"}, fd : {None}, doc : Docs \cup {Nothing} ]
  BY ParsedIsNothingOrDoc DEF Idle, FInv
<1> QED
  BY <1>1, CallKeeps DEF Load

LEMMA GivingUpKeeps ==
  ASSUME FInv, NEW p \in Writers, Done(p) \/ WriterDies(p) \/ RenameFails(p)
  PROVE  FInv'
<1>1. Idle \in [ pc : {"idle", "loaded"}, fd : {None}, doc : Docs \cup {Nothing} ]
  BY DEF Idle
<1> QED
  BY <1>1, CallKeeps DEF Done, WriterDies, RenameFails

\* write_text truncates the temporary file that is there, or a new one.
LEMMA OpenKeeps ==
  ASSUME FInv, NEW p \in Writers, NEW doc \in Docs, NEW i \in Inodes, Open(p, doc, i)
  PROVE  FInv' /\ i # path
<1> USE DEF Open
<1>1. i # path
  BY NamesAssumption DEF FInv, Apart, InUse
<1>2. FileTypeOK'
  BY DEF FInv, FileTypeOK, Call
<1>3. proc'[p] = [pc |-> "opened", fd |-> i, doc |-> doc]
      /\ \A q \in Writers \ {p} : proc'[q] = proc[q]
  BY DEF FInv, FileTypeOK, Call
<1>4. WritesDoc'
  BY <1>3, NamesAssumption DEF FInv, WritesDoc, MidSave
<1>5. Apart'
  BY <1>1 DEF FInv, Apart
<1>6. ASSUME ~clash' PROVE Alone' /\ NeverTorn'
  <2>1. ~clash /\ \A q \in Writers : ~MidSave(q)
    BY <1>6
  <2>2. \A q \in Writers : MidSave(q)' => q = p
    BY <2>1, <1>3 DEF MidSave
  <2>3. Alone'
    BY <2>2, <1>3 DEF Alone, MidSave
  <2>4. NeverTorn'
    BY <2>1, <1>1 DEF FInv, NeverTorn, FileTypeOK
  <2> QED
    BY <2>3, <2>4
<1> QED
  BY <1>1, <1>2, <1>4, <1>5, <1>6 DEF FInv

LEMMA WriteKeeps ==
  ASSUME FInv, NEW p \in Writers, Write(p)
  PROVE  FInv'
<1> USE DEF Write
<1>0. proc[p].fd \in Inodes /\ proc[p].doc \in Docs
  BY DEF FInv, WritesDoc, FileTypeOK, MidSave
<1>1. FileTypeOK'
  BY <1>0 DEF FInv, FileTypeOK, Call
<1>2. /\ proc'[p].pc = "written" /\ proc'[p].fd = None /\ proc'[p].doc = proc[p].doc
      /\ \A q \in Writers \ {p} : proc'[q] = proc[q]
  BY DEF FInv, FileTypeOK, Call
<1>3. WritesDoc'
  BY <1>0, <1>2 DEF FInv, WritesDoc, MidSave
<1>4. Apart'
  BY DEF FInv, Apart
<1>5. ASSUME ~clash' PROVE Alone' /\ NeverTorn'
  <2>1. ~clash /\ Alone /\ NeverTorn
    BY <1>5 DEF FInv
  <2>2. proc[p].fd = tmp /\ tmp # None
    BY <2>1, <1>0, NamesAssumption DEF Alone
  <2>3. content'[tmp] = proc[p].doc
    BY <2>2, <1>0 DEF FInv, FileTypeOK
  <2>4. \A q \in Writers : MidSave(q)' => q = p
    BY <2>1, <1>2 DEF Alone, MidSave
  <2>5. Alone'
    BY <2>2, <2>3, <2>4, <1>2 DEF Alone, MidSave
  <2>6. NeverTorn'
    BY <2>1, <2>2 DEF FInv, NeverTorn, Apart, FileTypeOK
  <2> QED
    BY <2>5, <2>6
<1> QED
  BY <1>1, <1>3, <1>4, <1>5 DEF FInv

LEMMA RenameKeeps ==
  ASSUME FInv, NEW p \in Writers, Rename(p)
  PROVE  FInv' /\ (~clash => path' # None /\ content'[path'] = proc[p].doc
                             /\ proc[p].doc \in Docs)
<1> USE DEF Rename
<1>1. FileTypeOK'
  BY DEF FInv, FileTypeOK, Call, Idle
<1>2. proc'[p] = Idle /\ \A q \in Writers \ {p} : proc'[q] = proc[q]
  BY DEF FInv, FileTypeOK, Call
<1>3. WritesDoc'
  BY <1>2 DEF FInv, WritesDoc, MidSave, Idle
<1>4. Apart'
  BY DEF Apart
<1>5. ~clash => path' # None /\ content'[path'] = proc[p].doc /\ proc[p].doc \in Docs
  BY DEF FInv, Alone, WritesDoc, MidSave
<1>6. ~clash' => Alone' /\ NeverTorn'
  BY <1>2, <1>5 DEF FInv, Alone, NeverTorn, MidSave, Idle
<1> QED
  BY <1>1, <1>3, <1>4, <1>5, <1>6 DEF FInv

-----------------------------------------------------------------------------
(* The theorems                                                            *)

LEMMA FileStepKeeps == FInv /\ [FileNext]_fileVars => FInv'
<1> SUFFICES ASSUME FInv, [FileNext]_fileVars PROVE FInv'
  OBVIOUS
<1>1. CASE UNCHANGED fileVars
  BY <1>1 DEF fileVars, FInv, FileTypeOK, WritesDoc, Apart, Alone, NeverTorn, MidSave
<1>2. CASE FileNext
  BY <1>2, LoadKeeps, GivingUpKeeps, OpenKeeps, WriteKeeps, RenameKeeps DEF FileNext
<1> QED
  BY <1>1, <1>2

\* The invariant of the file's users (write_json_file, load_json_mapping_file).
THEOREM FileInvariant == FileSpec => []FInv
BY FileInitHolds, FileStepKeeps, PTL DEF FileSpec

\* What each process loads and saves is a document or nothing, and the files are
\* files: no process ever works on what does not parse (load_json_mapping_file).
THEOREM FileTypeCorrect == FileSpec => []FileTypeOK
<1>1. FInv => FileTypeOK
  BY DEF FInv
<1> QED
  BY <1>1, FileInvariant, PTL

\* "Write JSON atomically in the destination directory.": as long as no two
\* saves have met, whoever opens the file finds a whole document, whatever
\* crashed at any point (write_json_file).
THEOREM SavesAreWhole == FileSpec => []AtomicAlone
<1>1. FInv => AtomicAlone
  BY DEF FInv, AtomicAlone
<1> QED
  BY <1>1, FileInvariant, PTL

\* Until two saves meet, the file only changes to the document a writer that is
\* done writing was asked to save: no left-over temporary file is ever
\* published (write_json_file).
THEOREM SavesOnlyReplace == FileSpec => SavesReplace
<1> DEFINE Replaced == ~clash' /\ Parsed' # Parsed =>
             \E p \in Writers : /\ proc[p].pc = "written" /\ proc'[p].pc = "idle"
                                 /\ Parsed' = proc[p].doc
<1>1. FInv /\ [FileNext]_fileVars => [Replaced]_fileVars
  <2> SUFFICES ASSUME FInv, FileNext, ~clash', Parsed' # Parsed
               PROVE  \E p \in Writers : /\ proc[p].pc = "written" /\ proc'[p].pc = "idle"
                                          /\ Parsed' = proc[p].doc
    BY DEF Replaced
  <2>1. PICK p \in Writers :
          \/ Load(p) \/ Done(p) \/ WriterDies(p) \/ RenameFails(p)
          \/ \E doc \in Docs, i \in Inodes : Open(p, doc, i)
          \/ Write(p)
          \/ Rename(p)
    BY DEF FileNext
  <2>2. CASE Load(p) \/ Done(p) \/ WriterDies(p) \/ RenameFails(p)
    BY <2>2 DEF Parsed, Load, Done, WriterDies, RenameFails
  <2>3. CASE \E doc \in Docs, i \in Inodes : Open(p, doc, i)
    <3>1. PICK doc \in Docs, i \in Inodes : Open(p, doc, i)
      BY <2>3
    <3>2. i # path
      BY <3>1, OpenKeeps
    <3> QED
      BY <3>1, <3>2 DEF FInv, FileTypeOK, Open, Parsed
  <2>4. CASE Write(p)
    <3>1. proc[p].fd # path
      BY <2>4, NamesAssumption DEF Write, FInv, Alone, Apart, WritesDoc
    <3> QED
      BY <2>4, <3>1 DEF FInv, FileTypeOK, Write, Parsed
  <2>5. CASE Rename(p)
    <3>1. ~clash
      BY <2>5 DEF Rename
    <3>2. /\ path' # None /\ content'[path'] = proc[p].doc
          /\ proc[p].doc \in Docs
      BY <2>5, <3>1, RenameKeeps
    <3>3. Parsed' = proc[p].doc
      BY <3>2, NamesAssumption DEF Parsed
    <3>4. proc'[p].pc = "idle" /\ proc[p].pc = "written"
      BY <2>5 DEF Rename, Call, Idle, FInv, FileTypeOK
    <3> QED
      BY <3>3, <3>4
  <2> QED
    BY <2>1, <2>2, <2>3, <2>4, <2>5
<1> QED
  BY <1>1, FileInvariant, PTL DEF FileSpec, SavesReplace

-----------------------------------------------------------------------------
(* What the providers' caches hold                                         *)

\* A value is what the provider sent at a tick, with a calendar of that tick.
WasSent(r, value, tick) ==
  \E then \in past : then.tick = tick /\ value = Sent(r, tick, then.dates)

\* A whole file holds what was sent for every request it is kept for, with the
\* time it was sent.
FileTrue(f) ==
  \/ cache[f] = NoFile
  \/ cache[f] = TornFile
  \/ /\ cache[f] = WholeFile(cache[f].value, cache[f].stamp)
     /\ cache[f].stamp \in 1 .. clock
     /\ \A r \in Asked : FileOf(r) = f => WasSent(r, cache[f].value, cache[f].stamp)

\* A process is about to save what it has been sent since the clock last ticked.
FetchTrue(p) ==
  \/ fetch[p] = NoFetch
  \/ /\ fetch[p].pc \in {"called", "opened"}
     /\ fetch[p].request \in Asked
     /\ fetch[p].refresh \in BOOLEAN
     /\ WasSent(fetch[p].request, fetch[p].value, clock)

CInv ==
  /\ clock \in 1 .. LastTick
  /\ announced \in [Companies -> {NoEvent} \cup EventDays]
  /\ [tick |-> clock, dates |-> announced] \in past
  /\ DOMAIN cache = Files /\ DOMAIN fetch = Clients
  /\ \A f \in Files : FileTrue(f)
  /\ \A p \in Clients : FetchTrue(p)
  /\ AnswersAsSent

-----------------------------------------------------------------------------

LEMMA StatesOfFiles ==
  /\ NoFile.state = "missing"
  /\ TornFile.state = "torn"
  /\ \A v, s : /\ WholeFile(v, s).state = "whole"
               /\ WholeFile(v, s).value = v
               /\ WholeFile(v, s).stamp = s
BY DEF NoFile, TornFile, WholeFile

\* Requests that share a file are sent the same.
LEMMA SentOfFile ==
  ASSUME NEW r, NEW q, FileOf(r) = FileOf(q), NEW tick, NEW dates
  PROVE  Sent(r, tick, dates) = Sent(q, tick, dates)
<1>1. r.kind = q.kind /\ r.from = q.from /\ r.to = q.to
  BY DEF FileOf
<1> QED
  BY <1>1 DEF Sent, Upcoming, Window

LEMMA CacheInitTrue == CacheInit => CInv
<1> SUFFICES ASSUME CacheInit PROVE CInv
  OBVIOUS
<1>1. 1 \in 1 .. LastTick
  BY CacheAssumption
<1>2. ~answer.ok
  BY DEF CacheInit, NoAnswer
<1>3. /\ \A f \in Files : cache[f] = NoFile
      /\ \A p \in Clients : fetch[p] = NoFetch
      /\ DOMAIN cache = Files /\ DOMAIN fetch = Clients
  BY DEF CacheInit
<1> QED
  BY <1>1, <1>2, <1>3 DEF CacheInit, CInv, FileTrue, FetchTrue, AnswersAsSent

\* What was sent was sent, whatever calendars come.
LEMMA SentStays ==
  ASSUME NEW r, NEW value, NEW tick, WasSent(r, value, tick), past \subseteq past'
  PROVE  WasSent(r, value, tick)'
BY DEF WasSent

\* Files and fetches that a step leaves alone stay true.
LEMMA LeftTrue ==
  ASSUME CInv, past \subseteq past', clock' \in Int, clock' >= clock
  PROVE  /\ \A f \in Files : cache'[f] = cache[f] => FileTrue(f)'
         /\ \A p \in Clients : /\ fetch'[p] = fetch[p]
                               /\ clock' = clock \/ fetch[p] = NoFetch
                               => FetchTrue(p)'
<1>1. clock \in Int
  BY DEF CInv
<1>2. ASSUME NEW f \in Files, cache'[f] = cache[f] PROVE FileTrue(f)'
  <2>1. FileTrue(f)
    BY DEF CInv
  <2>2. CASE cache[f] = NoFile \/ cache[f] = TornFile
    BY <1>2, <2>2 DEF FileTrue
  <2>3. CASE cache[f] # NoFile /\ cache[f] # TornFile
    <3>1. /\ cache'[f] = WholeFile(cache'[f].value, cache'[f].stamp)
          /\ cache'[f].stamp \in 1 .. clock'
          /\ \A r \in Asked : FileOf(r) = f => WasSent(r, cache[f].value, cache[f].stamp)
      BY <1>1, <1>2, <2>1, <2>3 DEF FileTrue
    <3>2. \A r \in Asked : FileOf(r) = f =>
            \E then \in past' : /\ then.tick = cache'[f].stamp
                                /\ cache'[f].value = Sent(r, cache'[f].stamp, then.dates)
      BY <1>2, <3>1 DEF WasSent
    <3> QED
      BY <3>1, <3>2 DEF FileTrue, WasSent
  <2> QED
    BY <2>2, <2>3
<1>3. ASSUME NEW p \in Clients, fetch'[p] = fetch[p], clock' = clock \/ fetch[p] = NoFetch
      PROVE  FetchTrue(p)'
  <2>1. FetchTrue(p)
    BY DEF CInv
  <2> QED
    BY <1>3, <2>1 DEF FetchTrue, WasSent
<1> QED
  BY <1>2, <1>3

\* An answer that is as sent.
LEMMA GivenAsSent ==
  ASSUME NEW r, NEW value, NEW refresh \in BOOLEAN, NEW tick,
         WasSent(r, value, tick)', Give(r, value, refresh, TRUE),
         refresh => tick = clock', r.kind = "earnings" => clock' - tick <= Ttl
  PROVE  AnswersAsSent'
<1>1. /\ answer'.request = r /\ answer'.refresh = refresh
      /\ answer'.value = Understood(r, value)
  BY DEF Give
<1>2. PICK then \in past' : then.tick = tick /\ value = Sent(r, tick, then.dates)
  BY DEF WasSent
<1> QED
  BY <1>1, <1>2 DEF AnswersAsSent

LEMMA CacheStepTrue ==
  ASSUME CInv, [CacheNext]_cacheVars
  PROVE  CInv'
<1>1. /\ clock \in 1 .. LastTick /\ clock \in Int /\ clock - clock <= Ttl
      /\ announced \in [Companies -> {NoEvent} \cup EventDays]
      /\ [tick |-> clock, dates |-> announced] \in past
      /\ DOMAIN cache = Files /\ DOMAIN fetch = Clients
      /\ \A f \in Files : FileTrue(f)
      /\ \A p \in Clients : FetchTrue(p)
  BY CacheAssumption DEF CInv
<1>2. \A r \in Asked : FileOf(r) \in Files
  BY DEF Files
<1>3. NoFetch.pc = "quiet" /\ ~NoAnswer.ok
  BY DEF NoFetch, NoAnswer
<1>4. GiveNothing => AnswersAsSent'
  BY <1>3 DEF GiveNothing, AnswersAsSent
<1>5. ASSUME NEW p \in Clients, NEW r \in Asked, ServeCached(p, r) PROVE CInv'
  <2>1. /\ UNCHANGED <<clock, announced, past, cache, fetch>>
        /\ Serves(r, cache[FileOf(r)])
        /\ Give(r, cache[FileOf(r)].value, FALSE, TRUE)
    BY <1>5 DEF ServeCached
  <2>2. /\ cache[FileOf(r)].state = "whole"
        /\ r.kind = "earnings" => clock - cache[FileOf(r)].stamp <= Ttl
    BY <2>1 DEF Serves
  <2>3. WasSent(r, cache[FileOf(r)].value, cache[FileOf(r)].stamp)
    BY <1>1, <1>2, <2>2, StatesOfFiles DEF FileTrue
  <2>4. WasSent(r, cache[FileOf(r)].value, cache[FileOf(r)].stamp)'
    BY <2>1, <2>3 DEF WasSent
  <2>5. AnswersAsSent'
    BY <2>1, <2>2, <2>4, GivenAsSent
  <2> QED
    BY <1>1, <2>1, <2>5, LeftTrue DEF CInv
<1>6. ASSUME NEW p \in Clients, NEW r \in Asked, ServeTorn(p, r) PROVE CInv'
  <2>1. UNCHANGED <<clock, announced, past, cache, fetch>>
    BY <1>6 DEF ServeTorn
  <2>2. AnswersAsSent'
    <3>1. CASE GiveNothing
      BY <1>4, <3>1
    <3>2. CASE IsCsv(r) /\ \E part \in Pieces(r) : Give(r, part, FALSE, FALSE)
      BY <3>2 DEF Give, AnswersAsSent
    <3> QED
      BY <1>6, <3>1, <3>2 DEF ServeTorn
  <2> QED
    BY <1>1, <2>1, <2>2, LeftTrue DEF CInv
<1>7. ASSUME NEW p \in Clients, NEW r \in Asked, NEW refresh \in BOOLEAN,
             CallProvider(p, r, refresh)
      PROVE  CInv'
  <2> DEFINE value == Sent(r, clock, announced)
  <2>1. UNCHANGED <<clock, announced, past, cache>>
    BY <1>7 DEF CallProvider
  <2>2. WasSent(r, value, clock)'
    BY <1>1, <2>1 DEF WasSent
  <2>3. CASE Unkept(r, value)
    <3>1. UNCHANGED fetch /\ Give(r, value, refresh, TRUE)
      BY <1>7, <2>3 DEF CallProvider
    <3>2. AnswersAsSent'
      BY <1>1, <2>1, <2>2, <3>1, GivenAsSent
    <3> QED
      BY <1>1, <2>1, <3>1, <3>2, LeftTrue DEF CInv
  <2>4. CASE ~Unkept(r, value)
    <3>1. /\ fetch' = [fetch EXCEPT ![p] =
               [pc |-> "called", request |-> r, value |-> value, refresh |-> refresh]]
          /\ GiveNothing
      BY <1>7, <2>4 DEF CallProvider
    <3> HIDE DEF value
    <3>2. FetchTrue(p)'
      <4>1. /\ fetch'[p].pc = "called" /\ fetch'[p].request = r /\ fetch'[p].value = value
          /\ fetch'[p].refresh = refresh
        BY <1>1, <3>1
      <4>2. WasSent(r, value, clock) /\ past' = past /\ clock' = clock
        BY <1>1, <2>1 DEF WasSent, value
      <4> QED
        BY <4>1, <4>2 DEF FetchTrue, WasSent
    <3>3. \A q \in Clients \ {p} : fetch'[q] = fetch[q]
      BY <1>1, <3>1
    <3>4. DOMAIN fetch' = Clients /\ \A q \in Clients : FetchTrue(q)'
      BY <1>1, <2>1, <3>1, <3>2, <3>3, LeftTrue
    <3> QED
      BY <1>1, <1>4, <2>1, <3>1, <3>4, LeftTrue DEF CInv
  <2> QED
    BY <2>3, <2>4
<1>8. ASSUME NEW p \in Clients, NEW r \in Asked, NEW refresh \in BOOLEAN,
             CallFails(p, r, refresh)
      PROVE  CInv'
  BY <1>1, <1>4, <1>8, LeftTrue DEF CallFails, CInv
<1>9. ASSUME NEW p \in Clients, OpenCache(p) PROVE CInv'
  <2> DEFINE f == FileOf(fetch[p].request)
  <2>1. /\ fetch[p].pc = "called"
        /\ cache' = [cache EXCEPT ![f] = TornFile]
        /\ fetch' = [fetch EXCEPT ![p].pc = "opened"]
        /\ GiveNothing
        /\ UNCHANGED <<clock, announced, past>>
    BY <1>9 DEF OpenCache
  <2>2. /\ fetch[p].request \in Asked /\ fetch[p].refresh \in BOOLEAN
        /\ WasSent(fetch[p].request, fetch[p].value, clock)
    BY <1>1, <1>3, <2>1 DEF FetchTrue
  <2>3. /\ fetch'[p].pc = "opened" /\ fetch'[p].request = fetch[p].request
        /\ fetch'[p].value = fetch[p].value /\ fetch'[p].refresh = fetch[p].refresh
        /\ \A q \in Clients \ {p} : fetch'[q] = fetch[q]
        /\ DOMAIN fetch' = Clients
    BY <1>1, <2>1
  <2>4. \A q \in Clients : FetchTrue(q)'
    <3>1. FetchTrue(p)'
      BY <2>1, <2>2, <2>3 DEF FetchTrue, WasSent
    <3> QED
      BY <1>1, <2>1, <2>3, <3>1, LeftTrue
  <2>5. DOMAIN cache' = Files /\ \A g \in Files : FileTrue(g)'
    <3>1. \A g \in Files : cache'[g] = IF g = f THEN TornFile ELSE cache[g]
      BY <1>1, <2>1
    <3> QED
      BY <1>1, <2>1, <3>1, LeftTrue DEF FileTrue
  <2> QED
    BY <1>1, <1>4, <2>1, <2>3, <2>4, <2>5 DEF CInv
<1>10. ASSUME NEW p \in Clients, WriteCache(p) PROVE CInv'
  <2> PICK r, value, refresh :
        r = fetch[p].request /\ value = fetch[p].value /\ refresh = fetch[p].refresh
    OBVIOUS
  <2> PICK now : now = clock
    OBVIOUS
  <2>1. PICK left \in {WholeFile(value, now), TornFile} :
          cache' = [cache EXCEPT ![FileOf(r)] = left]
    BY <1>10 DEF WriteCache
  <2>2. /\ fetch[p].pc = "opened"
        /\ Give(r, value, refresh, TRUE)
        /\ fetch' = [fetch EXCEPT ![p] = NoFetch]
        /\ UNCHANGED <<clock, announced, past>>
    BY <1>10 DEF WriteCache
  <2>3. r \in Asked /\ refresh \in BOOLEAN /\ WasSent(r, value, now)
    BY <1>1, <1>3, <2>2 DEF FetchTrue
  <2>4. DOMAIN fetch' = Clients /\ \A q \in Clients : FetchTrue(q)'
    <3>1. \A q \in Clients : fetch'[q] = IF q = p THEN NoFetch ELSE fetch[q]
      BY <1>1, <2>2
    <3> QED
      BY <1>1, <2>2, <3>1, LeftTrue DEF FetchTrue
  <2>5. DOMAIN cache' = Files /\ \A g \in Files : FileTrue(g)'
    <3>1. \A g \in Files : cache'[g] = IF g = FileOf(r) THEN left ELSE cache[g]
      BY <1>1, <2>1
    <3>2. \A q \in Asked : FileOf(q) = FileOf(r) => WasSent(q, value, now)
      BY <2>3, SentOfFile DEF WasSent
    <3>3. ASSUME NEW g \in Files, g = FileOf(r) PROVE FileTrue(g)'
      <4>1. CASE left = TornFile
        BY <3>1, <3>3, <4>1 DEF FileTrue
      <4>2. CASE left = WholeFile(value, now)
        <5>1. /\ cache'[g] = WholeFile(value, now)
              /\ cache'[g].value = value /\ cache'[g].stamp = now
          BY <3>1, <3>3, <4>2, StatesOfFiles
        <5>2. \A q \in Asked : FileOf(q) = g => WasSent(q, value, now)'
          BY <2>2, <3>2, <3>3 DEF WasSent
        <5> QED
          BY <1>1, <2>2, <5>1, <5>2 DEF FileTrue, WasSent
      <4> QED
        BY <4>1, <4>2
    <3>4. ASSUME NEW g \in Files, g # FileOf(r) PROVE FileTrue(g)'
      BY <1>1, <2>2, <3>1, <3>4, LeftTrue
    <3> QED
      BY <1>1, <2>1, <3>3, <3>4
  <2>6. WasSent(r, value, now)' /\ clock' - now <= Ttl
    BY <1>1, <2>2, <2>3 DEF WasSent
  <2>7. AnswersAsSent'
    BY <2>2, <2>3, <2>6, GivenAsSent
  <2> QED
    BY <1>1, <2>2, <2>4, <2>5, <2>7 DEF CInv
<1>11. ASSUME NEW p \in Clients, SaverDies(p) PROVE CInv'
  <2>1. /\ fetch' = [fetch EXCEPT ![p] = NoFetch] /\ GiveNothing
        /\ UNCHANGED <<clock, announced, past, cache>>
    BY <1>11 DEF SaverDies
  <2>2. DOMAIN fetch' = Clients /\ \A q \in Clients : FetchTrue(q)'
    <3>1. \A q \in Clients : fetch'[q] = IF q = p THEN NoFetch ELSE fetch[q]
      BY <1>1, <2>1
    <3> QED
      BY <1>1, <2>1, <3>1, LeftTrue DEF FetchTrue
  <2> QED
    BY <1>1, <1>4, <2>1, <2>2, LeftTrue DEF CInv
<1>12. ASSUME Tick PROVE CInv'
  <2>1. /\ clock' = clock + 1 /\ clock < LastTick
        /\ \A p \in Clients : fetch[p] = NoFetch
        /\ past' = past \cup {[tick |-> clock', dates |-> announced]}
        /\ GiveNothing /\ UNCHANGED <<announced, cache, fetch>>
    BY <1>12 DEF Tick
  <2>2. clock' \in 1 .. LastTick /\ clock' >= clock /\ clock' \in Int
    BY <1>1, <2>1, CacheAssumption
  <2> QED
    BY <1>1, <1>4, <2>1, <2>2, LeftTrue DEF CInv
<1>13. ASSUME NEW c \in Companies, NEW day \in {NoEvent} \cup EventDays, Move(c, day)
       PROVE  CInv'
  <2>1. /\ announced' = [announced EXCEPT ![c] = day]
        /\ past' = past \cup {[tick |-> clock, dates |-> announced']}
        /\ GiveNothing /\ UNCHANGED <<clock, cache, fetch>>
    BY <1>13 DEF Move
  <2> QED
    BY <1>1, <1>4, <2>1, LeftTrue DEF CInv
<1>14. CASE UNCHANGED cacheVars
  <2>1. AnswersAsSent'
    BY <1>14 DEF cacheVars, CInv, AnswersAsSent
  <2> QED
    BY <1>1, <1>14, <2>1, LeftTrue DEF cacheVars, CInv
<1> QED
  BY <1>5, <1>6, <1>7, <1>8, <1>9, <1>10, <1>11, <1>12, <1>13, <1>14 DEF CacheNext

LEMMA CachesTrue == CacheSpec => []CInv
BY CacheInitTrue, CacheStepTrue, PTL DEF CacheSpec

\* Every answer is what the provider sends for exactly the window asked for, as it is
\* now or, of earnings, no older than their time, although other processes save the
\* same files, die over it, days pass and earnings dates move; only a part of CSV may
\* be served after a death or a race (DailyBarProvider, EarningsCalendarProvider).
THEOREM AnswersHold == CacheSpec => []AnswersAsSent
<1>1. CInv => AnswersAsSent
  BY DEF CInv
<1> QED
  BY CachesTrue, <1>1, PTL

\* No file is stamped later than the clock, and what is to be saved was asked for.
THEOREM CacheTyped == CacheSpec => []CacheTypeOK
<1>1. ASSUME CInv PROVE CacheTypeOK
  <2>1. \A f \in Files : cache[f].state = "whole" => cache[f].stamp \in 1 .. clock
    BY <1>1, StatesOfFiles DEF CInv, FileTrue
  <2> QED
    BY <1>1, <2>1 DEF CInv, FetchTrue, CacheTypeOK
<1> QED
  BY CachesTrue, <1>1, PTL

-----------------------------------------------------------------------------
(* The safety policy                                                       *)

\* One thread changes settings, and its service fails closed.
OneAdmin ==
  /\ \A p, q \in Admins : p = q
  /\ Admins \subseteq FailClosed

\* Every switch of a policy is in a position operators have been told of.
Known(policy) == \A s \in Switches : policy[s] \in told[s]

\* A settings command is the admin's, and what it is about to write is known.
WritesKnown ==
  \A p \in Procs :
    request[p].pc = "saving" => p \in Admins /\ Known(request[p].policy)

PInv ==
  /\ PolicyTypeOK
  /\ WritesKnown
  /\ ToldIsInForce

LEMMA DefaultIsPolicy == DefaultPolicy \in Policy
BY DEF DefaultPolicy, Policy

LEMMA PolicyInitHolds == PolicyInit => PInv
<1> SUFFICES ASSUME PolicyInit PROVE PInv
  OBVIOUS
<1>1. \A s \in Switches : DefaultPolicy[s] \in BOOLEAN
  BY DEF DefaultPolicy
<1>2. PolicyTypeOK
  BY <1>1, DefaultIsPolicy DEF PolicyInit, PolicyTypeOK, Requests
<1>3. WritesKnown
  BY DEF PolicyInit, WritesKnown, NoRequest
<1>4. ToldIsInForce
  BY UnreadableAssumption DEF PolicyInit, ToldIsInForce
<1> QED
  BY <1>2, <1>3, <1>4 DEF PInv

-----------------------------------------------------------------------------
(* The steps                                                               *)

\* A settings command changes one switch of a policy it has read.
LEMMA ChangedIsPolicy ==
  ASSUME NEW policy \in Policy, NEW s \in Switches, NEW v \in BOOLEAN
  PROVE  /\ Changed(policy, s, v) \in Policy
         /\ Changed(policy, s, v)[s] = v
         /\ \A x \in Switches \ {s} : Changed(policy, s, v)[x] = policy[x]
BY DEF Changed, Policy

\* What a fail-closed service can work with is in the file
\* (_load_operator_control_state_result).
LEMMA LoadedIsInFile ==
  ASSUME PolicyTypeOK, NEW p \in FailClosed, NEW policy \in Loaded(p)
  PROVE  policy = file /\ file \in Policy
BY DEF Loaded, PolicyTypeOK

LEMMA SetKeeps ==
  ASSUME OneAdmin, PInv, NEW p \in Admins, NEW s \in Switches, NEW v \in BOOLEAN,
         Set(p, s, v)
  PROVE  PInv'
<1>1. p \in Procs /\ p \in FailClosed
  BY AdminsAssumption DEF OneAdmin
<1>2. PICK policy \in Loaded(p) :
        Become(p, [pc |-> "saving", switch |-> s, policy |-> Changed(policy, s, v)])
  BY DEF Set
<1>3. policy = file /\ file \in Policy
  BY <1>1, <1>2, LoadedIsInFile DEF PInv
<1> DEFINE r == [pc |-> "saving", switch |-> s, policy |-> Changed(policy, s, v)]
<1>4. r \in Requests
  BY <1>3, ChangedIsPolicy DEF Requests
<1>5. told' \in [Switches -> SUBSET BOOLEAN]
  BY DEF Set, PInv, PolicyTypeOK
<1>6. file' = file
  BY DEF Set
<1>7. request' \in [Procs -> Requests]
  BY <1>2, <1>4 DEF Become, PInv, PolicyTypeOK
<1>8. /\ told'[s] = BOOLEAN
      /\ \A x \in Switches \ {s} : told'[x] = told[x]
  BY DEF Set, PInv, PolicyTypeOK
<1>9. Known(file)
  BY <1>3 DEF PInv, ToldIsInForce, Known
<1>10. \A policy2 \in Policy : (\A x \in Switches \ {s} : policy2[x] \in told[x]) => Known(policy2)'
  BY <1>8 DEF Known, Policy
<1>11. Known(Changed(file, s, v))'
  BY <1>3, <1>6, <1>9, <1>10, ChangedIsPolicy DEF Known
<1>12. Known(file)'
  BY <1>3, <1>6, <1>9, <1>10 DEF Known
<1>13. request'[p] = r /\ \A q \in Procs \ {p} : request'[q] = request[q]
  <2>1. request' = [request EXCEPT ![p] = r]
    BY <1>2, <1>3 DEF Become
  <2> HIDE DEF r
  <2> QED
    BY <1>1, <2>1 DEF PInv, PolicyTypeOK
<1>14. \A q \in Procs \ {p} : request[q].pc # "saving"
  BY DEF OneAdmin, PInv, WritesKnown
<1>15. WritesKnown'
  <2> SUFFICES ASSUME NEW q \in Procs, request'[q].pc = "saving"
               PROVE  q \in Admins /\ Known(request[q].policy)'
    BY DEF WritesKnown
  <2>1. q = p
    BY <1>13, <1>14
  <2>2. request'[q].policy = Changed(file, s, v)
    BY <2>1, <1>3, <1>13
  <2>3. \A x \in Switches : Changed(file, s, v)[x] \in told'[x]
    BY <1>6, <1>11 DEF Known
  <2> QED
    BY <2>1, <2>2, <2>3 DEF Known
<1> QED
  BY <1>3, <1>5, <1>6, <1>7, <1>12, <1>15 DEF PInv, PolicyTypeOK, ToldIsInForce, Known

LEMMA SetNoOpKeeps ==
  ASSUME OneAdmin, PInv, NEW p \in Admins, NEW s \in Switches, NEW v \in BOOLEAN,
         SetNoOp(p, s, v)
  PROVE  PInv'
<1>1. p \in Procs /\ p \in FailClosed
  BY AdminsAssumption DEF OneAdmin
<1>2. PICK policy \in Loaded(p) : policy[s] = v
  BY DEF SetNoOp
<1>3. policy = file /\ file \in Policy
  BY <1>1, <1>2, LoadedIsInFile DEF PInv
<1>4. told' \in [Switches -> SUBSET BOOLEAN]
  BY DEF SetNoOp, PInv, PolicyTypeOK
<1>5. PolicyTypeOK'
  BY <1>4 DEF SetNoOp, PInv, PolicyTypeOK
<1>6. \A q \in Procs : request[q].pc # "saving"
  BY DEF OneAdmin, PInv, WritesKnown, SetNoOp
<1>7. WritesKnown'
  BY <1>6 DEF WritesKnown, SetNoOp
<1>8. \A x \in Switches : file[x] \in told[x]
  BY <1>3 DEF PInv, ToldIsInForce
<1>9. \A x \in Switches : told'[x] = IF x = s THEN {v} ELSE told[x]
  BY DEF SetNoOp, PInv, PolicyTypeOK
<1>10. \A x \in Switches : file[x] \in told'[x]
  BY <1>2, <1>3, <1>8, <1>9
<1>11. ToldIsInForce'
  BY <1>10 DEF ToldIsInForce, SetNoOp
<1> QED
  BY <1>5, <1>7, <1>11 DEF PInv

LEMMA SaveSetKeeps ==
  ASSUME OneAdmin, PInv, NEW p \in Procs, SaveSet(p)
  PROVE  PInv'
<1>1. p \in Admins /\ Known(request[p].policy)
  BY DEF SaveSet, PInv, WritesKnown
<1>2. request[p].policy \in Policy /\ request[p].switch \in Switches
  BY DEF SaveSet, PInv, PolicyTypeOK, Requests, NoRequest
<1> DEFINE policy == request[p].policy
           s == request[p].switch
<1>3. policy[s] \in BOOLEAN
  BY <1>2 DEF Policy
<1>4. told' \in [Switches -> SUBSET BOOLEAN]
  BY <1>3 DEF SaveSet, PInv, PolicyTypeOK
<1>5. request' = [request EXCEPT ![p] = NoRequest] /\ file' = policy
  BY DEF SaveSet, Become
<1>6. NoRequest \in Requests
  BY DEF Requests
<1>7. PolicyTypeOK'
  BY <1>2, <1>4, <1>5, <1>6 DEF PInv, PolicyTypeOK
<1>8. \A q \in Procs : request'[q].pc # "saving"
  BY <1>1, <1>5 DEF OneAdmin, PInv, PolicyTypeOK, WritesKnown, NoRequest
<1>9. WritesKnown'
  BY <1>8 DEF WritesKnown
<1>10. \A x \in Switches : told'[x] = IF x = s THEN {policy[s]} ELSE told[x]
  BY DEF SaveSet, PInv, PolicyTypeOK
<1>11. ToldIsInForce'
  BY <1>1, <1>5, <1>10 DEF ToldIsInForce, Known
<1> QED
  BY <1>7, <1>9, <1>11 DEF PInv

\* A request comes to its next step and leaves the file as it is.
LEMMA RequestKeeps ==
  ASSUME PInv, NEW p \in Procs, NEW r \in Requests, r.pc # "saving",
         Become(p, r), UNCHANGED <<file, told>>
  PROVE  PInv'
<1>1. PolicyTypeOK'
  BY DEF PInv, PolicyTypeOK, Become
<1>2. \A q \in Procs : request'[q].pc = "saving" => q # p /\ request'[q] = request[q]
  BY DEF PInv, PolicyTypeOK, Become
<1>3. WritesKnown'
  BY <1>2 DEF PInv, WritesKnown, Known
<1>4. ToldIsInForce'
  BY DEF PInv, ToldIsInForce
<1> QED
  BY <1>1, <1>3, <1>4 DEF PInv

LEMMA AskKeeps ==
  ASSUME PInv, NEW p \in Procs, NEW kind \in Kinds, NEW confirmed \in BOOLEAN,
         Ask(p, kind, confirmed)
  PROVE  PInv'
<1>1. Expected(kind, confirmed) \in BOOLEAN
  BY DEF Expected
<1>2. [pc |-> "sending", kind |-> kind, expected |-> Expected(kind, confirmed)] \in Requests
  BY <1>1 DEF Requests
<1> QED
  BY <1>2, RequestKeeps DEF Ask

LEMMA EndKeeps ==
  ASSUME PInv, NEW p \in Procs, Send(p) \/ Crash(p)
  PROVE  PInv'
<1>1. NoRequest \in Requests /\ NoRequest.pc # "saving"
  BY DEF Requests, NoRequest
<1> QED
  BY <1>1, RequestKeeps DEF Send, Crash

\* The drills that damage the file: nothing is in force then.
LEMMA DamageKeeps ==
  ASSUME PInv, NEW how \in {Missing, Corrupt}, Damage(how)
  PROVE  PInv'
<1>1. PolicyTypeOK'
  BY DEF PInv, PolicyTypeOK, Damage
<1>2. WritesKnown'
  BY DEF PInv, WritesKnown, Damage, Known
<1>3. ToldIsInForce'
  BY UnreadableAssumption DEF ToldIsInForce, Damage
<1> QED
  BY <1>1, <1>2, <1>3 DEF PInv

LEMMA ResetKeeps ==
  ASSUME OneAdmin, PInv, NEW p \in Admins, Reset(p)
  PROVE  PInv'
<1>1. \A s \in Switches : DefaultPolicy[s] \in BOOLEAN
  BY DEF DefaultPolicy
<1>2. PolicyTypeOK'
  BY <1>1, DefaultIsPolicy DEF PInv, PolicyTypeOK, Reset
<1>3. \A q \in Procs : request[q].pc # "saving"
  BY DEF OneAdmin, PInv, WritesKnown, Reset
<1>4. WritesKnown'
  BY <1>3 DEF WritesKnown, Reset
<1>5. ToldIsInForce'
  BY DEF ToldIsInForce, Reset
<1> QED
  BY <1>2, <1>4, <1>5 DEF PInv

LEMMA PolicyStepKeeps == OneAdmin /\ PInv /\ [PolicyNext]_policyVars => PInv'
<1> SUFFICES ASSUME OneAdmin, PInv, [PolicyNext]_policyVars PROVE PInv'
  OBVIOUS
<1>1. CASE UNCHANGED policyVars
  BY <1>1 DEF policyVars, PInv, PolicyTypeOK, WritesKnown, Known, ToldIsInForce
<1>2. CASE PolicyNext
  BY <1>2, SetKeeps, SetNoOpKeeps, SaveSetKeeps, AskKeeps, EndKeeps, DamageKeeps, ResetKeeps
     DEF PolicyNext
<1> QED
  BY <1>1, <1>2

-----------------------------------------------------------------------------
(* The theorems                                                            *)

\* The invariant of the control file and the commands on it (the settings
\* commands of OperatorControlService).
THEOREM PolicyInvariant ==
  ASSUME OneAdmin
  PROVE  PolicySpec => []PInv
<1>1. OneAdmin /\ PInv /\ [PolicyNext]_policyVars => PInv'
  BY PolicyStepKeeps
<1>2. PInv /\ [PolicyNext]_policyVars => PInv'
  BY <1>1
<1> QED
  BY <1>2, PolicyInitHolds, PTL DEF PolicySpec

\* The control file holds a whole policy or is missing or damaged, and a command
\* never writes anything but a policy (OperatorControlState).
THEOREM PolicyTypeCorrect ==
  ASSUME OneAdmin
  PROVE  PolicySpec => []PolicyTypeOK
<1>1. PInv => PolicyTypeOK
  BY DEF PInv
<1> QED
  BY <1>1, PolicyInvariant, PTL

\* No switch moves back by itself: each is in a position the operators have been
\* told of, although every command rewrites all four (pause, resume and the
\* other settings commands).
THEOREM SwitchesAreAsTold ==
  ASSUME OneAdmin
  PROVE  PolicySpec => []ToldIsInForce
<1>1. PInv => ToldIsInForce
  BY DEF PInv
<1> QED
  BY <1>1, PolicyInvariant, PTL

\* A request that is judged to go out is one the operators expect to, by what
\* they have been told (_reject_if_broker_mutation_not_allowed).
LEMMA AskedIsExpected ==
  ASSUME PInv, NEW p \in FailClosed, NEW kind \in Kinds, NEW confirmed \in BOOLEAN,
         NEW policy \in Loaded(p), Allowed(policy, kind, confirmed)
  PROVE  Expected(kind, confirmed)
<1>1. policy = file /\ file \in Policy
  BY LoadedIsInFile DEF PInv
<1>2. \A s \in Switches : policy[s] \in told[s]
  BY <1>1 DEF PInv, ToldIsInForce
<1> QED
  BY <1>1, <1>2 DEF Expected

\* Nothing goes out that the policy as the operators knew it did not allow, when
\* every service fails closed: nothing is submitted while they take it to be
\* paused, nothing live unconfirmed or with trading off
\* (_reject_if_broker_mutation_not_allowed).
THEOREM RequestsAreAllowed ==
  ASSUME OneAdmin, Procs \subseteq FailClosed
  PROVE  PolicySpec => []PolicyHolds
<1>1. PolicyInit => PolicyHolds
  BY DEF PolicyInit, PolicyHolds, NoRequest
<1>2. PInv /\ PolicyHolds /\ [PolicyNext]_policyVars => PolicyHolds'
  <2> SUFFICES ASSUME PInv, PolicyHolds, [PolicyNext]_policyVars,
                      NEW p \in Procs, request'[p].pc = "sending"
               PROVE  request'[p].expected
    BY DEF PolicyHolds
  <2>1. CASE request'[p] = request[p]
    BY <2>1 DEF PolicyHolds
  <2>2. CASE request'[p] # request[p]
    <3>1. PICK kind \in Kinds, confirmed \in BOOLEAN : Ask(p, kind, confirmed)
      BY <2>2, AdminsAssumption
         DEF PolicyNext, policyVars, Set, SetNoOp, SaveSet, Ask, Send, Crash, Damage, Reset,
             Become, NoRequest, PInv, PolicyTypeOK
    <3>2. Expected(kind, confirmed)
      BY <3>1, AskedIsExpected DEF Ask
    <3>3. request'[p] =
            [pc |-> "sending", kind |-> kind, expected |-> Expected(kind, confirmed)]
      BY <3>1 DEF Ask, Become, PInv, PolicyTypeOK
    <3> QED
      BY <3>2, <3>3
  <2> QED
    BY <2>1, <2>2
<1> QED
  BY <1>1, <1>2, PolicyInvariant, PTL DEF PolicySpec

-----------------------------------------------------------------------------
(* The verdict of a proving run                                            *)

\* What fails the integrity check.
Bad(item) == item.live \/ item.trading \/ item.degraded

\* A policy that has left paper mode or safety has left a trace.
Traced ==
  strayed =>
    \/ lost
    \/ \E e \in Editors : editor[e].pc = "recording" /\ Bad(editor[e].item)
    \/ \E item \in evidence : Bad(item)

TraceInv ==
  /\ DOMAIN editor = Editors
  /\ DOMAIN command = DOMAIN Off
  /\ Traced

TraceVars == <<editor, evidence, strayed, lost>>

-----------------------------------------------------------------------------
(* Actions by what they touch                                              *)

\* The stages of the command, its servers and its supervisor leave the evidence
\* alone.
RunsOn ==
  \/ \E kind \in Commands, preserve \in BOOLEAN : Create(kind, preserve)
  \/ Proceed
  \/ MainFails
  \/ \E s \in ServerNames : ServerGoesOn(s) \/ ServerFails(s)
  \/ Poll \/ RunEnds \/ RunRaises

LEMMA NextIs == PaperNext => RunsOn \/ Exit \/ Operate
BY DEF PaperNext, RunsOn

LEMMA ProceedIsQuiet == Proceed => UNCHANGED TraceVars
<1>1. StartNext \/ Probe => UNCHANGED TraceVars
  BY DEF StartNext, Probe, TraceVars
<1>2. WaitRaises \/ SupervisorDone \/ Settled => UNCHANGED TraceVars
  BY DEF WaitRaises, SupervisorDone, Settled, Quiet, TraceVars
<1>3. StopSupervisor \/ Joined \/ AskToClose \/ Closed => UNCHANGED TraceVars
  BY DEF StopSupervisor, Joined, AskToClose, Closed, Quiet, TraceVars
<1>4. Review \/ Read \/ Judge => UNCHANGED TraceVars
  BY DEF Review, Read, Judge, Quiet, TraceVars
<1> QED
  BY <1>1, <1>2, <1>3, <1>4 DEF Proceed

LEMMA RunsOnIsQuiet == RunsOn => UNCHANGED TraceVars
<1>1. ASSUME NEW kind \in Commands, NEW preserve \in BOOLEAN, Create(kind, preserve)
      PROVE  UNCHANGED TraceVars
  BY <1>1 DEF Create, TraceVars
<1>2. MainFails => UNCHANGED TraceVars
  BY DEF MainFails, CreateFails, Interrupt, CloseFails, SummaryFails, Quiet, TraceVars
<1>3. ASSUME NEW s \in ServerNames, ServerGoesOn(s) \/ ServerFails(s)
      PROVE  UNCHANGED TraceVars
  BY <1>3 DEF ServerGoesOn, ServerFails, ServersOnly, TraceVars
<1>4. Poll \/ RunEnds \/ RunRaises => UNCHANGED TraceVars
  BY DEF Poll, RunEnds, RunRaises, Leave, ServiceOnly, TraceVars
<1> QED
  BY <1>1, <1>2, <1>3, <1>4, ProceedIsQuiet DEF RunsOn

-----------------------------------------------------------------------------
(* Traced                                                                  *)

LEMMA TraceInitHolds == PaperInit => TraceInv
BY DEF PaperInit, CleanRoot, TraceInv, Traced

LEMMA QuietKeepsTrace == Traced /\ UNCHANGED TraceVars => Traced'
BY DEF Traced, TraceVars

\* An operator who is idle starts on something: nobody's record is overwritten.
LEMMA EditKeepsTrace ==
  ASSUME TraceInv, NEW e \in Editors, NEW what, Edit(e, what), editor[e].pc # "recording",
         UNCHANGED <<evidence, lost>>,
         strayed' => strayed \/ (what.pc = "recording" /\ Bad(what.item))
  PROVE  Traced'
<1>1. editor'[e] = what /\ \A x \in Editors \ {e} : editor'[x] = editor[x]
  BY DEF TraceInv, Edit
<1> QED
  BY <1>1 DEF TraceInv, Traced

\* set_execution_mode and set_broker_trading_enabled, answered at once.
LEMMA RefuseKeeps ==
  ASSUME TraceInv, NEW e \in Editors, NEW s, NEW v, Refuse(e, s, v)
  PROVE  Traced'
<1>1. PICK what : Edit(e, what)
  BY DEF Refuse
<1>2. editor[e].pc = "idle" /\ UNCHANGED <<evidence, lost, strayed>>
  BY DEF Refuse, CanAct
<1> QED
  BY <1>1, <1>2, EditKeepsTrace

LEMMA AcceptKeeps ==
  ASSUME TraceInv, NEW e \in Editors, NEW s, NEW v, Accept(e, s, v)
  PROVE  Traced'
<1>1. PICK what : Edit(e, what)
  BY DEF Accept
<1>2. editor[e].pc = "idle" /\ UNCHANGED <<evidence, lost, strayed>>
  BY DEF Accept, CanAct
<1> QED
  BY <1>1, <1>2, EditKeepsTrace

\* A policy that leaves paper mode has its record made next.
LEMMA SaveKeeps ==
  ASSUME TraceInv, NEW e \in Editors, Save(e)
  PROVE  Traced'
<1> DEFINE what == Recording(Audit(editor[e].policy, FALSE))
<1>1. Edit(e, what) /\ editor[e].pc # "recording" /\ UNCHANGED <<evidence, lost>>
  BY DEF Save
<1>2. what.pc = "recording"
      /\ what.item.live = file'["live"] /\ what.item.trading = file'["trading"]
  BY DEF Save, Recording, Audit
<1>3. strayed' => strayed \/ (what.pc = "recording" /\ Bad(what.item))
  BY <1>2 DEF Save, Bad
<1> HIDE DEF what
<1> QED
  BY <1>1, <1>3, EditKeepsTrace

\* corrupt_safety_state, delete_safety_state and reset_safety_state
LEMMA DrillKeeps ==
  ASSUME TraceInv, NEW how, DrillDamage(how) \/ DrillReset
  PROVE  Traced'
<1>1. Drills \in Editors
  BY DEF Editors
<1>2. CASE DrillDamage(how)
  <2> DEFINE what == Recording(Event(TRUE))
  <2>1. Edit(Drills, what) /\ editor[Drills].pc # "recording" /\ UNCHANGED <<evidence, lost>>
    BY <1>2 DEF DrillDamage, CanAct
  <2>2. what.pc = "recording" /\ Bad(what.item)
    BY DEF Recording, Event, Bad
  <2> HIDE DEF what
  <2> QED
    BY <1>1, <2>1, <2>2, EditKeepsTrace
<1>3. CASE DrillReset
  <2>1. PICK what : Edit(Drills, what)
    BY <1>3 DEF DrillReset
  <2>2. editor[Drills].pc # "recording" /\ UNCHANGED <<evidence, lost, strayed>>
    BY <1>3 DEF DrillReset, CanAct
  <2> QED
    BY <1>1, <2>1, <2>2, EditKeepsTrace
<1> QED
  BY <1>2, <1>3

\* The record is appended, or the append fails (_finalize_result, _record_event).
LEMMA RecordKeeps ==
  ASSUME TraceInv, NEW e \in Editors, Record(e)
  PROVE  Traced'
<1>1. editor'[e] = Free /\ \A x \in Editors \ {e} : editor'[x] = editor[x]
  BY DEF TraceInv, Record, Edit
<1>2. strayed' = strayed /\ (lost' \/ (evidence' = evidence \cup {editor[e].item} /\ lost' = lost))
  BY DEF Record
<1>3. evidence \subseteq evidence' /\ (lost => lost')
  BY DEF Record
<1> QED
  BY <1>1, <1>2, <1>3 DEF TraceInv, Traced

\* A kill between the save and the append loses the record.
LEMMA KillKeeps ==
  ASSUME TraceInv, Exit \/ CliDies
  PROVE  Traced'
<1>1. ASSUME NEW e \in Editors, editor[e].pc = "recording", ~lost'
      PROVE  editor'[e] = editor[e]
  BY <1>1 DEF Exit, CliDies, Edit, TraceInv, Editors
<1>2. UNCHANGED <<evidence, strayed>> /\ (lost => lost')
  BY DEF Exit, CliDies
<1> QED
  BY <1>1, <1>2 DEF TraceInv, Traced

LEMMA OperateKeeps == TraceInv /\ Operate => Traced'
<1> SUFFICES ASSUME TraceInv, Operate PROVE Traced'
  OBVIOUS
<1>1. {Api, Cli} \subseteq Editors
  BY DEF Editors
<1> QED
  BY <1>1, RefuseKeeps, AcceptKeeps, SaveKeeps, RecordKeeps, DrillKeeps, KillKeeps DEF Operate

-----------------------------------------------------------------------------
(* The shape of command and editor                                         *)

LEMMA EditorKeeps ==
  ASSUME DOMAIN editor = Editors, PaperNext
  PROVE  DOMAIN editor' = Editors
<1>1. CASE RunsOn
  BY <1>1, RunsOnIsQuiet DEF TraceVars
<1>2. CASE Exit
  BY <1>2 DEF Exit
<1>3. CASE Operate
  BY <1>3 DEF Operate, Refuse, Accept, Save, Record, DrillDamage, DrillReset, CliDies, Edit
<1> QED
  BY <1>1, <1>2, <1>3, NextIs

LEMMA CommandKeeps ==
  ASSUME DOMAIN command = DOMAIN Off, PaperNext
  PROVE  DOMAIN command' = DOMAIN Off
<1>1. ASSUME NEW kind \in Commands, NEW preserve \in BOOLEAN, Create(kind, preserve)
      PROVE  DOMAIN command' = DOMAIN Off
  BY <1>1 DEF Create
<1>2. StartNext \/ Probe => DOMAIN command' = DOMAIN Off
  BY DEF StartNext, Probe
<1>3. WaitRaises \/ SupervisorDone \/ Settled => DOMAIN command' = DOMAIN Off
  BY DEF WaitRaises, SupervisorDone, Settled, Stop, Goto
<1>4. StopSupervisor \/ Joined \/ AskToClose \/ Closed => DOMAIN command' = DOMAIN Off
  BY DEF StopSupervisor, Joined, AskToClose, Closed, Goto
<1>5. Review \/ Read \/ Judge => DOMAIN command' = DOMAIN Off
  BY DEF Review, Read, Judge
<1>6. MainFails => DOMAIN command' = DOMAIN Off
  BY DEF MainFails, CreateFails, Interrupt, CloseFails, SummaryFails, Stop
<1>7. ASSUME NEW s \in ServerNames, ServerGoesOn(s) \/ ServerFails(s)
      PROVE  DOMAIN command' = DOMAIN Off
  BY <1>7 DEF ServerGoesOn, ServerFails, ServersOnly
<1>8. Poll \/ RunEnds \/ RunRaises => DOMAIN command' = DOMAIN Off
  BY DEF Poll, RunEnds, RunRaises, Leave, ServiceOnly
<1>9. Exit => DOMAIN command' = DOMAIN Off
  BY DEF Exit
<1>10. Operate => DOMAIN command' = DOMAIN Off
  BY DEF Operate, Refuse, Accept, Save, Record, DrillDamage, DrillReset, CliDies
<1> QED
  BY <1>1, <1>2, <1>3, <1>4, <1>5, <1>6, <1>7, <1>8, <1>9, <1>10 DEF PaperNext, Proceed

LEMMA TraceStepKeeps == TraceInv /\ [PaperNext]_paperVars => TraceInv'
<1> SUFFICES ASSUME TraceInv, [PaperNext]_paperVars PROVE TraceInv'
  OBVIOUS
<1>1. CASE UNCHANGED paperVars
  BY <1>1 DEF paperVars, rootVars, TraceInv, Traced
<1>2. CASE PaperNext
  <2>1. Traced'
    BY <1>2, NextIs, RunsOnIsQuiet, QuietKeepsTrace, OperateKeeps, KillKeeps DEF TraceInv
  <2> QED
    BY <1>2, <2>1, EditorKeeps, CommandKeeps DEF TraceInv
<1> QED
  BY <1>1, <1>2

\* Evidence is never behind by more than what operators and drills are at (the
\* audit log and the journal of a proving run).
THEOREM EvidenceTraces == PaperSpec => []TraceInv
BY TraceInitHolds, TraceStepKeeps, PTL DEF PaperSpec

-----------------------------------------------------------------------------
(* The integrity verdict                                                   *)

\* A command that is judging is done by a verdict.
LEMMA JudgingEnds ==
  ASSUME PaperNext, At("judging"), command'.pc = "done"
  PROVE  Judge \/ SummaryFails
<1>1. command' # command
  BY DEF At
<1>2. ~Exit
  BY DEF Exit, Off
<1>3. ~Operate
  BY <1>1 DEF Operate, Refuse, Accept, Save, Record, DrillDamage, DrillReset, CliDies
<1>4. ~(Poll \/ RunEnds \/ RunRaises)
  BY <1>1 DEF Poll, RunEnds, RunRaises, Leave, ServiceOnly
<1>5. \A s \in ServerNames : ~(ServerGoesOn(s) \/ ServerFails(s))
  BY <1>1 DEF ServerGoesOn, ServerFails, ServersOnly
<1>6. \A kind \in Commands, preserve \in BOOLEAN : ~Create(kind, preserve)
  BY DEF Create, At
<1>7. MainFails => SummaryFails
  BY DEF MainFails, CreateFails, Interrupt, CloseFails, At
<1>8. Proceed => Judge
  BY DEF Proceed, StartNext, Probe, WaitRaises, SupervisorDone, Settled, StopSupervisor, Joined,
         AskToClose, Closed, Review, Read, At
<1> QED
  BY <1>2, <1>3, <1>4, <1>5, <1>6, <1>7, <1>8 DEF PaperNext

\* A verdict without the integrity issue has found nothing in the evidence
\* (_build_paper_integrity_summary).
LEMMA VerdictHasRead ==
  ASSUME DOMAIN command = DOMAIN Off, Judge, "integrity" \notin command'.issues
  PROVE  \A item \in evidence : ~Bad(item)
<1>1. command'.issues = BlockingIssues(command.seen, command.health)
  BY DEF Judge, Off
<1>2. Intact(command.seen, evidence)
  BY <1>1 DEF BlockingIssues, Issue
<1> QED
  BY <1>2 DEF Intact, Bad

\* A verdict without the integrity issue means that the policy never strayed
\* since the root was made, unless evidence is lost or still to be recorded,
\* over any number of restarts, operators' changes and drills
\* (build_local_paper_validation_smoke_result).
THEOREM VerdictsAreEarned == PaperSpec => IntactIsTrue
<1> DEFINE Earned ==
      At("judging") /\ command'.pc = "done"
        /\ command'.issues \cap {"integrity", "summary"} = {}
      => \/ ~strayed
         \/ lost
         \/ \E e \in Editors : editor[e].pc = "recording"
<1>1. TraceInv /\ [PaperNext]_paperVars => [Earned]_paperVars
  <2> SUFFICES ASSUME TraceInv, PaperNext, At("judging"), command'.pc = "done",
                      command'.issues \cap {"integrity", "summary"} = {}
               PROVE  \/ ~strayed
                      \/ lost
                      \/ \E e \in Editors : editor[e].pc = "recording"
    BY DEF Earned
  <2>1. ~SummaryFails
    BY DEF SummaryFails, TraceInv, Off
  <2>2. Judge
    BY <2>1, JudgingEnds
  <2>3. \A item \in evidence : ~Bad(item)
    BY <2>2, VerdictHasRead DEF TraceInv
  <2> QED
    BY <2>3 DEF TraceInv, Traced
<1> QED
  BY <1>1, EvidenceTraces, PTL DEF PaperSpec, IntactIsTrue

-----------------------------------------------------------------------------
(* The smoke verdict                                                       *)

\* The stages of a command from its stop on.
Late == {"stopping", "joining", "asking", "closing", "reviewing", "reading", "judging"}

Unspoilt == command.kind = "smoke" /\ ~command.problem

\* What a smoke command judges without a problem is what its own supervisor,
\* which has ended by then, has last saved.
Judged ==
  /\ At("settling") => supervisor = "ended"
  /\ command.pc \in Late /\ Unspoilt => supervisor = "ended"
  /\ At("judging") /\ Unspoilt => command.health = status
  /\ ~At("off") /\ status.own /\ status.progress = "cycled" => service.progress = "cycled"

SmokeInv ==
  /\ DOMAIN command = DOMAIN Off
  /\ DOMAIN status = DOMAIN NoStatus
  /\ Judged
  /\ SmokeEarned

SmokeVars == <<command, supervisor, service, status>>

LEMMA SmokeInitHolds == PaperInit => SmokeInv
BY DEF PaperInit, CleanRoot, SmokeInv, Judged, Late, SmokeEarned, At, Off

LEMMA StillSmoke == SmokeInv /\ UNCHANGED SmokeVars => SmokeInv'
BY DEF SmokeInv, SmokeVars, Judged, Unspoilt, SmokeEarned, At

\* Servers, operators and drills leave the verdict's sources alone.
LEMMA OthersKeepSmoke ==
  ASSUME SmokeInv,
         Operate \/ \E s \in ServerNames : ServerGoesOn(s) \/ ServerFails(s)
  PROVE  SmokeInv'
<1>1. Operate => UNCHANGED SmokeVars
  BY DEF Operate, Refuse, Accept, Save, Record, DrillDamage, DrillReset, CliDies, stackVars,
         SmokeVars
<1>2. ASSUME NEW s \in ServerNames, ServerGoesOn(s) \/ ServerFails(s)
      PROVE  UNCHANGED SmokeVars
  <2>1. UNCHANGED <<command, service, status>>
    BY <1>2 DEF ServerGoesOn, ServerFails, ServersOnly
  <2>2. UNCHANGED supervisor
    BY <1>2 DEF ServerGoesOn, ServerFails, ServerStep, LeaveLoop, LoopRaises, RecordFirst,
                RecordAnother, BringDown, AllBroughtDown
  <2> QED
    BY <2>1, <2>2 DEF SmokeVars
<1> QED
  BY <1>1, <1>2, StillSmoke

\* The supervisor works: a cycle it has completed stays completed.
LEMMA SupervisorKeepsSmoke ==
  ASSUME SmokeInv, Poll \/ RunEnds \/ RunRaises
  PROVE  SmokeInv'
<1>1. supervisor = "running" /\ UNCHANGED command
  BY DEF Poll, RunEnds, RunRaises, Leave, ServiceOnly
<1>2. service.progress = "cycled" => service'.progress = "cycled"
  BY DEF Poll, RunEnds, RunRaises, Leave, Further
<1>3. \/ status' = status
      \/ DOMAIN status' = DOMAIN NoStatus /\ status'.progress = service'.progress
  BY DEF Poll, RunEnds, RunRaises, Leave, Persist, NoStatus
<1>4. ~At("settling") /\ ~(command.pc \in Late /\ Unspoilt)
  BY <1>1 DEF SmokeInv, Judged
<1>5. ~(At("done") /\ command.kind = "smoke" /\ command.issues = {})
  BY <1>1 DEF SmokeInv, SmokeEarned
<1>6. Judged'
  BY <1>1, <1>2, <1>3, <1>4 DEF SmokeInv, Judged, Unspoilt, Late, At
<1>7. SmokeEarned'
  BY <1>1, <1>5 DEF SmokeEarned, At
<1> QED
  BY <1>1, <1>3, <1>6, <1>7 DEF SmokeInv

\* A runtime is created or its process ends: nothing of an earlier run counts.
LEMMA BeginningKeepsSmoke ==
  ASSUME SmokeInv,
         \/ \E kind \in Commands, preserve \in BOOLEAN : Create(kind, preserve)
         \/ CreateFails
         \/ Exit
  PROVE  SmokeInv'
<1>1. CASE \E kind \in Commands, preserve \in BOOLEAN : Create(kind, preserve)
  <2>1. command'.pc = "starting" /\ DOMAIN command' = DOMAIN Off
    BY <1>1 DEF Create, Off
  <2>2. ~status'.own /\ DOMAIN status' = DOMAIN NoStatus
    BY <1>1 DEF Create, SmokeInv, NoStatus
  <2> QED
    BY <2>1, <2>2 DEF SmokeInv, Judged, SmokeEarned, Late, At
<1>2. CASE CreateFails
  <2>1. command'.pc = "reading" /\ command'.problem /\ DOMAIN command' = DOMAIN Off
    BY <1>2 DEF CreateFails, Off
  <2>2. ~status'.own /\ DOMAIN status' = DOMAIN NoStatus
    BY <1>2 DEF CreateFails, SmokeInv, NoStatus
  <2> QED
    BY <2>1, <2>2 DEF SmokeInv, Judged, SmokeEarned, Unspoilt, At
<1>3. CASE Exit
  <2>1. command' = Off /\ UNCHANGED status
    BY <1>3 DEF Exit
  <2> QED
    BY <2>1 DEF SmokeInv, Judged, SmokeEarned, Late, At, Off
<1> QED
  BY <1>1, <1>2, <1>3

\* A stage of the command that does not bring it to its stop or its verdict.
LEMMA EarlyKeepsSmoke ==
  ASSUME SmokeInv, StartNext \/ Probe
  PROVE  SmokeInv'
<1>1. DOMAIN command' = DOMAIN Off /\ command'.pc \in {"starting", "probing", "waiting"}
  BY DEF StartNext, Probe, SmokeInv, At, Off
<1>2. UNCHANGED <<service, status>> /\ ~At("off")
  BY DEF StartNext, Probe, At
<1> QED
  BY <1>1, <1>2 DEF SmokeInv, Judged, SmokeEarned, Late, At

\* wait_for_stack
LEMMA WaitKeepsSmoke ==
  ASSUME SmokeInv, WaitRaises \/ SupervisorDone \/ Settled \/ Interrupt
  PROVE  SmokeInv'
<1>1. UNCHANGED <<supervisor, service, status>> /\ ~At("off")
  BY DEF WaitRaises, SupervisorDone, Settled, Interrupt, Quiet, stackVars, At
<1>2. DOMAIN command' = DOMAIN Off /\ command'.kind = command.kind
  BY DEF WaitRaises, SupervisorDone, Settled, Interrupt, Stop, Goto, SmokeInv, Off
<1>3. command'.pc \in {"settling", "stopping"}
  BY DEF WaitRaises, SupervisorDone, Settled, Interrupt, Stop, Goto, SmokeInv, Off
<1>4. command'.pc = "settling" => supervisor = "ended"
  BY DEF WaitRaises, SupervisorDone, Settled, Interrupt, Stop, Goto, SmokeInv, Off, EndsWell
<1>5. command'.pc = "stopping" /\ ~command'.problem /\ command.kind = "smoke"
        => supervisor = "ended"
  BY DEF WaitRaises, SupervisorDone, Settled, Interrupt, Stop, Goto, SmokeInv, Off, Judged, At
<1>6. Judged'
  BY <1>1, <1>2, <1>3, <1>4, <1>5 DEF SmokeInv, Judged, Unspoilt, At
<1> QED
  BY <1>1, <1>2, <1>3, <1>6 DEF SmokeInv, SmokeEarned, At

\* stop, and the review: a smoke command goes on to its verdict.
LEMMA StopKeepsSmoke ==
  ASSUME SmokeInv,
         StopSupervisor \/ Joined \/ AskToClose \/ Closed \/ CloseFails \/ Review
  PROVE  SmokeInv'
<1>1. command.pc \in Late \ {"judging"}
  BY DEF StopSupervisor, Joined, AskToClose, Closed, CloseFails, Review, Late, At
<1>2. UNCHANGED <<supervisor, service, status>>
  BY DEF StopSupervisor, Joined, AskToClose, Closed, CloseFails, Review, Quiet, stackVars
<1>3. DOMAIN command' = DOMAIN Off /\ command'.kind = command.kind
      /\ (command.problem => command'.problem)
  BY DEF StopSupervisor, Joined, AskToClose, Closed, CloseFails, Review, Goto, SmokeInv, Off
<1>4. command'.pc \in (Late \ {"judging"}) \cup {"done"}
  BY DEF StopSupervisor, Joined, AskToClose, Closed, CloseFails, Review, Goto, SmokeInv, Off,
         Late, AfterStop
<1>5. command.kind = "smoke" => command'.pc # "done"
  BY DEF StopSupervisor, Joined, AskToClose, Closed, CloseFails, Review, Goto, SmokeInv, Off,
         AfterStop
<1>6. Judged'
  BY <1>1, <1>2, <1>3, <1>4 DEF SmokeInv, Judged, Unspoilt, Late, At
<1>7. SmokeEarned'
  BY <1>3, <1>5 DEF SmokeEarned, At
<1> QED
  BY <1>2, <1>3, <1>6, <1>7 DEF SmokeInv

LEMMA ReadKeepsSmoke ==
  ASSUME SmokeInv, Read
  PROVE  SmokeInv'
<1>1. UNCHANGED <<supervisor, service, status>> /\ command.pc = "reading"
  BY DEF Read, Quiet, stackVars, At
<1>2. /\ DOMAIN command' = DOMAIN Off /\ command'.pc = "judging"
      /\ command'.kind = command.kind /\ command'.problem = command.problem
      /\ command'.health = status
  BY DEF Read, SmokeInv, Off
<1>3. Judged'
  BY <1>1, <1>2 DEF SmokeInv, Judged, Unspoilt, Late, At
<1> QED
  BY <1>1, <1>2, <1>3 DEF SmokeInv, SmokeEarned, At

\* build_local_paper_validation_smoke_result
LEMMA VerdictKeepsSmoke ==
  ASSUME ~TestStream, SmokeInv, Judge \/ SummaryFails
  PROVE  SmokeInv'
<1>1. UNCHANGED <<supervisor, service, status>> /\ command.pc = "judging"
  BY DEF Judge, SummaryFails, Quiet, stackVars, At
<1>2. /\ DOMAIN command' = DOMAIN Off /\ command'.pc = "done" /\ command'.kind = command.kind
  BY DEF Judge, SummaryFails, SmokeInv, Off
<1>3. Judged'
  BY <1>1, <1>2 DEF SmokeInv, Judged, Late, At
<1>4. SmokeEarned'
  <2> SUFFICES ASSUME command.kind = "smoke", command'.issues = {}
               PROVE  /\ supervisor = "ended"
                      /\ service.progress = "cycled" \/ ~status.own
    BY <1>1, <1>2 DEF SmokeEarned
  <2> DEFINE blocking == BlockingIssues(command.seen, command.health)
  <2>a. "issues" \in DOMAIN command
    BY DEF SmokeInv, Off
  <2> HIDE DEF blocking
  <2>b. \/ command' = [command EXCEPT !.pc = "done", !.issues = blocking]
        \/ command' = [command EXCEPT !.pc = "done", !.issues = {"summary"}]
    BY DEF Judge, SummaryFails, blocking
  <2>c. command'.issues = blocking \/ command'.issues = {"summary"}
    BY <2>a, <2>b
  <2>1. BlockingIssues(command.seen, command.health) = {}
    BY <2>c DEF blocking
  <2>2. ~command.problem /\ command.health.progress = "cycled"
    BY <2>1 DEF BlockingIssues, Issue, GapExcused
  <2>3. supervisor = "ended" /\ command.health = status
    BY <1>1, <2>2 DEF SmokeInv, Judged, Unspoilt, Late, At
  <2> QED
    BY <1>1, <2>2, <2>3 DEF SmokeInv, Judged, At
<1> QED
  BY <1>1, <1>2, <1>3, <1>4 DEF SmokeInv

LEMMA SmokeStepKeeps == ~TestStream /\ SmokeInv /\ [PaperNext]_paperVars => SmokeInv'
<1> SUFFICES ASSUME ~TestStream, SmokeInv, [PaperNext]_paperVars PROVE SmokeInv'
  OBVIOUS
<1>1. CASE UNCHANGED paperVars
  BY <1>1, StillSmoke DEF paperVars, rootVars, stackVars, SmokeVars
<1>2. CASE PaperNext
  BY <1>2, OthersKeepSmoke, SupervisorKeepsSmoke, BeginningKeepsSmoke, EarlyKeepsSmoke,
     WaitKeepsSmoke, StopKeepsSmoke, ReadKeepsSmoke, VerdictKeepsSmoke
     DEF PaperNext, Proceed, MainFails
<1> QED
  BY <1>1, <1>2

\* Away from the test stream a smoke run passes on its own merits: its
\* supervisor ended without an exception and completed a cycle, whatever was in
\* the status file before and whatever failed meanwhile
\* (build_local_paper_validation_smoke_result).
THEOREM PassesAreEarned ==
  ASSUME ~TestStream
  PROVE  PaperSpec => []SmokeEarned
<1>1. SmokeInv /\ [PaperNext]_paperVars => SmokeInv'
  BY SmokeStepKeeps
<1>2. SmokeInv => SmokeEarned
  BY DEF SmokeInv
<1> QED
  BY <1>1, <1>2, SmokeInitHolds, PTL DEF PaperSpec
=============================================================================
