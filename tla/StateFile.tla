----------------------------- MODULE StateFile -----------------------------
(***************************************************************************)
(* write_json_file and load_json_mapping_file of                           *)
(* src/src/bot/data/state_persistence.py, one step per file system call.   *)
(* Every state store of the program saves through them, and every command  *)
(* loads the file, works on what it read and saves it again.               *)
(*                                                                         *)
(* A save writes <path>.tmp, the same name in every process, and renames   *)
(* it.  An inode is a file's contents apart from its names: a writer that  *)
(* has the temporary file open goes on writing to it after another writer  *)
(* has renamed it.                                                         *)
(***************************************************************************)
EXTENDS Naturals

CONSTANTS
  Writers,   \* processes and threads that load and save the file
  Docs,      \* documents to be saved
  Inodes,    \* bound on the files that exist at once
  None,      \* no file of that name, no file open
  Torn,      \* contents that do not parse: truncated, or half written
  Nothing    \* the empty value of the store

ASSUME NamesAssumption ==
  None \notin Inodes /\ Torn \notin Docs /\ Nothing \notin Docs

VARIABLES
  path,     \* the inode named <path>
  tmp,      \* the inode named <path>.tmp
  content,  \* inode -> what it holds
  proc,     \* process -> the call it is in
  clash     \* history: two saves have been under way at once

fileVars == <<path, tmp, content, proc, clash>>

Idle == [pc |-> "idle", fd |-> None, doc |-> Nothing]

FileTypeOK ==
  /\ path \in Inodes \cup {None}
  /\ tmp \in Inodes \cup {None}
  /\ content \in [Inodes -> Docs \cup {Torn}]
  /\ proc \in [Writers ->
       [ pc  : {"idle", "opened", "written", "loaded"},
         fd  : Inodes \cup {None},
         doc : Docs \cup {Nothing} ]]
  /\ clash \in BOOLEAN

Call(p, r) == proc' = [proc EXCEPT ![p] = r]

MidSave(p) == proc[p].pc \in {"opened", "written"}

InUse == {path, tmp} \cup {proc[p].fd : p \in Writers}

-----------------------------------------------------------------------------
(* load_json_mapping_file                                                  *)

\* The contents are taken as they are.
ParsedUnchecked == IF path = None THEN Nothing ELSE content[path]

\* A file that is missing and one that does not parse both load as nothing.
Parsed ==
  IF path = None THEN Nothing
  ELSE IF content[path] = Torn THEN Nothing
  ELSE content[path]

Load(p) ==
  /\ proc[p].pc = "idle"
  /\ Call(p, [Idle EXCEPT !.pc = "loaded", !.doc = Parsed])
  /\ UNCHANGED <<path, tmp, content, clash>>

\* The command ends without a save.
Done(p) ==
  /\ proc[p].pc = "loaded"
  /\ Call(p, Idle)
  /\ UNCHANGED <<path, tmp, content, clash>>

-----------------------------------------------------------------------------
(* write_json_file                                                         *)

\* The file itself is opened, without a temporary one.
OpenInPlace(p, doc, i) ==
  /\ proc[p].pc = "loaded"
  /\ IF path # None THEN i = path ELSE i \notin InUse
  /\ tmp' = i
  /\ content' = [content EXCEPT ![i] = Torn]
  /\ Call(p, [pc |-> "opened", fd |-> i, doc |-> doc])
  /\ clash' = (clash \/ \E other \in Writers : MidSave(other))
  /\ UNCHANGED path

\* write_text opens the temporary file: an existing one is truncated.
Open(p, doc, i) ==
  /\ proc[p].pc = "loaded"
  /\ IF tmp # None THEN i = tmp ELSE i \notin InUse
  /\ tmp' = i
  /\ content' = [content EXCEPT ![i] = Torn]
  /\ Call(p, [pc |-> "opened", fd |-> i, doc |-> doc])
  /\ clash' = (clash \/ \E other \in Writers : MidSave(other))
  /\ UNCHANGED path

Write(p) ==
  /\ proc[p].pc = "opened"
  /\ content' = [content EXCEPT ![proc[p].fd] = proc[p].doc]
  /\ Call(p, [proc[p] EXCEPT !.pc = "written", !.fd = None])
  /\ UNCHANGED <<path, tmp, clash>>

Rename(p) ==
  /\ proc[p].pc = "written"
  /\ tmp # None
  /\ path' = tmp
  /\ tmp' = None
  /\ Call(p, Idle)
  /\ UNCHANGED <<content, clash>>

\* FileNotFoundError: another writer has renamed the file.
RenameFails(p) ==
  /\ proc[p].pc = "written"
  /\ tmp = None
  /\ Call(p, Idle)
  /\ UNCHANGED <<path, tmp, content, clash>>

\* The process dies; a temporary file stays behind.
WriterDies(p) ==
  /\ proc[p].pc # "idle"
  /\ Call(p, Idle)
  /\ UNCHANGED <<path, tmp, content, clash>>

FileInit ==
  /\ path = None
  /\ tmp = None
  /\ content = [i \in Inodes |-> Torn]
  /\ proc = [p \in Writers |-> Idle]
  /\ clash = FALSE

FileNext ==
  \E p \in Writers :
       \/ Load(p) \/ Done(p) \/ WriterDies(p)
       \/ \E doc \in Docs, i \in Inodes : Open(p, doc, i)
       \/ Write(p)
       \/ Rename(p)
       \/ RenameFails(p)

FileSpec == FileInit /\ [][FileNext]_fileVars

-----------------------------------------------------------------------------
(* Properties                                                              *)

\* "Write JSON atomically": whoever opens the file finds a whole document.
NeverTorn == path # None => content[path] \in Docs

\* It is so as long as no two saves have met, whatever crashed and whatever
\* temporary files the crashes have left behind.
AtomicAlone == ~clash => NeverTorn

\* Until two saves meet, the file only changes when a writer that is done
\* writing gives it the document it was asked to save.
SavesReplace ==
  [][ ~clash' /\ Parsed' # Parsed =>
        \E p \in Writers : /\ proc[p].pc = "written" /\ proc'[p].pc = "idle"
                            /\ Parsed' = proc[p].doc ]_fileVars
=============================================================================
