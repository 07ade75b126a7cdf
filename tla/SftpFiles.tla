----------------------------- MODULE SftpFiles ------------------------------
(***************************************************************************)
(* The SFTP file manager of the client (client/appservice.go): sessions,   *)
(* uploads, uploads in chunks, the text editor, downloads, and the user's  *)
(* own removals and renames.                                               *)
(*                                                                         *)
(* A call looks its session up, waits for the session's mutex and keeps it *)
(* until it returns, so that one call at a time runs in a session.  One    *)
(* step of a call is one request to the server, which may be refused, and  *)
(* the connection may break.  Two sessions of one server share its files   *)
(* and no mutex.                                                           *)
(*                                                                         *)
(* A file is the version it is of and the chunks of it that are there.     *)
(* Every upload has a temporary file of a random name: that of version v   *)
(* is called v.                                                            *)
(***************************************************************************)
EXTENDS Naturals, FiniteSets

CONSTANTS Sessions, Paths,
          MaxVersions,   \* bounds the uploads
          Chunks,        \* of every upload
          Idle, None

VARIABLES remote,   \* the server's files
          sess,     \* sftpRec: closed, and whether its connection is up
          uploads,  \* sftpRec.uploads, by version instead of upload ID
          call,     \* the local variables of the call that has sftpRec.mu
          issued,   \* versions made so far
          touched,  \* history: versions whose temporary file was removed in use
          troubled, \* history: versions a request about which has failed
          hidden    \* history: what a replacement took away last

vars == <<remote, sess, uploads, call, issued, touched, troubled, hidden>>

Versions == 1..MaxVersions
Names    == Paths \cup Versions   \* of files on the server

Contents(v) == [of : {v}, parts : SUBSET (1..Chunks)]
Piece(v, parts) == [of |-> v, parts |-> parts]
Whole(v)    == Piece(v, 1..Chunks)
Old         == Whole(0)           \* the files that were there before
Content     == UNION {Contents(v) : v \in Versions \cup {0}}

Replacing == {"lstat", "rename", "remove", "renameAgain"}   \* in finalizeRemoteReplace

\* from is the version being sent, to where it goes, todo the rest of a directory.
Call == [op : {"upload", "chunk", "read"},
         pc : {"open", "write", "cleanup", "copy"} \cup Replacing,
         from : Versions \cup {None}, to : Paths, todo : SUBSET Paths]

ASSUME SftpAssumption ==
  /\ MaxVersions \in Nat /\ Chunks \in Nat \ {0}
  /\ Paths \cap Nat = {} /\ None \notin Names \cup Content
  /\ None \notin [path : Paths, next : 0..Chunks] \cup [path : Paths, version : Versions]
  /\ Idle \notin Call

-----------------------------------------------------------------------------
At(s, pc) == call[s] # Idle /\ call[s].pc = pc

Exists(name) == remote[name] # None

Goto(s, pc) == call' = [call EXCEPT ![s].pc = pc]

\* The call returns and its deferred unlock runs.
Return(s) == call' = [call EXCEPT ![s] = Idle]

\* A request that is not answered with success; it has had no effect.
Refused(s) ==
  /\ troubled' = troubled \cup ({call[s].from} \cap Versions)
  /\ UNCHANGED <<remote, sess, uploads, issued, touched, hidden>>

Served(s) == sess[s].connected /\ UNCHANGED troubled

\* Another name for a file; what is at the new name, if anything, is replaced.
Moved(a, b) == [[remote EXCEPT ![b] = remote[a]] EXCEPT ![a] = None]

-----------------------------------------------------------------------------
(* Sessions *)

ConnectSFTP(s) ==
  /\ sess[s].closed
  /\ sess' = [sess EXCEPT ![s] = [closed |-> FALSE, connected |-> TRUE]]
  /\ UNCHANGED <<remote, uploads, call, issued, touched, troubled, hidden>>

\* External: the connection breaks.
Disconnect(s) ==
  /\ sess[s].connected
  /\ sess' = [sess EXCEPT ![s].connected = FALSE]
  /\ troubled' = troubled \cup {v \in Versions : uploads[s][v] # None}
  /\ UNCHANGED <<remote, uploads, call, issued, touched, hidden>>

\* A call may have looked the record up long ago; with the mutex, which no other
\* call of the session has, it asks whether the session was closed meanwhile.
lockedSFTP(s) == call[s] = Idle /\ ~sess[s].closed

Start(s, op, pc, from, to, todo) ==
  call' = [call EXCEPT ![s] = [op |-> op, pc |-> pc, from |-> from, to |-> to, todo |-> todo]]

\* Faulty variant: temporary files are left to the server.
CloseWithoutRemoving(s) ==
  /\ lockedSFTP(s)
  /\ uploads' = [uploads EXCEPT ![s] = [v \in Versions |-> None]]
  /\ sess' = [sess EXCEPT ![s] = [closed |-> TRUE, connected |-> FALSE]]
  /\ UNCHANGED <<remote, call, issued, touched, troubled, hidden>>

\* With the mutex, CloseSFTP removes the temporary files of the unfinished uploads,
\* each with a request that may fail, and hangs up.
CloseSFTP(s) ==
  LET tmps == {v \in Versions : uploads[s][v] # None /\ Exists(v)}
  IN  /\ lockedSFTP(s)
      /\ \E gone \in SUBSET tmps :
           /\ gone # {} => sess[s].connected
           /\ remote' = [n \in Names |-> IF n \in gone THEN None ELSE remote[n]]
           /\ troubled' = (troubled \ gone) \cup (tmps \ gone)
      /\ uploads' = [uploads EXCEPT ![s] = [v \in Versions |-> None]]
      /\ sess' = [sess EXCEPT ![s] = [closed |-> TRUE, connected |-> FALSE]]
      /\ UNCHANGED <<call, issued, touched, hidden>>

-----------------------------------------------------------------------------
(* uploadFileSFTP and WriteTextSFTP *)

\* The temporary file is created.  The checks before it, ensureRemoteParentDir
\* among them, are requests that fail like this one.
OpenTemp ==
  /\ issued < MaxVersions
  /\ issued' = issued + 1
  /\ remote' = [remote EXCEPT ![issued + 1] = [of |-> issued + 1, parts |-> {}]]

\* UploadSFTP of a file or, with todo, of a directory
UploadSFTP(s, p, todo) ==
  /\ lockedSFTP(s)
  /\ p \notin todo
  /\ Served(s)
  /\ OpenTemp
  /\ Start(s, "upload", "write", issued + 1, p, todo)
  /\ UNCHANGED <<sess, uploads, touched, hidden>>

\* The editor saves a file like an upload of one.
WriteTextSFTP(s, p) == UploadSFTP(s, p, {})

\* uploadAnySFTP goes on with the next file of the directory.
OpenNext(s) ==
  /\ At(s, "open")
  /\ \/ /\ Served(s)
        /\ OpenTemp
        /\ call' = [call EXCEPT ![s].pc = "write", ![s].from = issued + 1]
        /\ UNCHANGED <<sess, uploads, touched, hidden>>
     \/ Refused(s) /\ Return(s)

\* What a write leaves in a file: what was there and the chunks written.
Written(s, parts) ==
  IF Exists(call[s].from)
  THEN [remote EXCEPT ![call[s].from].parts = @ \cup parts]
  ELSE remote   \* the file was removed or renamed while it was open

\* Faulty variant: an error while copying is not looked at.
WriteTempAnyhow(s) ==
  /\ At(s, "write")
  /\ \E n \in 0..Chunks : remote' = Written(s, 1..n)
  /\ Goto(s, "lstat")
  /\ UNCHANGED <<sess, uploads, issued, touched, troubled, hidden>>

\* io.Copy: all of it, or an error after part of it.
WriteTemp(s) ==
  /\ At(s, "write")
  /\ \/ /\ Served(s)
        /\ remote' = Written(s, 1..Chunks)
        /\ Goto(s, "lstat")
     \/ /\ \E n \in 0..Chunks - 1 : remote' = Written(s, 1..n)
        /\ troubled' = troubled \cup {call[s].from}
        /\ Goto(s, "cleanup")
  /\ UNCHANGED <<sess, uploads, issued, touched, hidden>>

Cleanup(s) ==
  /\ At(s, "cleanup")
  /\ \/ /\ sess[s].connected
        /\ remote' = [remote EXCEPT ![call[s].from] = None]
        /\ troubled' = troubled \ {call[s].from}
        /\ UNCHANGED <<sess, uploads, issued, touched, hidden>>
     \/ Refused(s)
  /\ Return(s)

-----------------------------------------------------------------------------
(* finalizeRemoteReplace *)

\* What follows a replacement: the next file of a directory, or the return.
\* An upload in chunks leaves the list.
Replaced(s) ==
  /\ IF call[s].todo = {}
     THEN Return(s)
     ELSE \E p \in call[s].todo :
            call' = [call EXCEPT ![s].pc = "open", ![s].from = None, ![s].to = p,
                                 ![s].todo = @ \ {p}]
  /\ uploads' = IF call[s].op = "chunk"
                THEN [uploads EXCEPT ![s][call[s].from] = None] ELSE uploads

\* Faulty variant: the destination is removed at once.
LstatAndRemove(s) ==
  /\ At(s, "lstat")
  /\ IF Exists(call[s].from)
     THEN remote' = [remote EXCEPT ![call[s].to] = None] /\ Goto(s, "rename")
     ELSE UNCHANGED remote /\ Return(s)
  /\ UNCHANGED <<sess, uploads, issued, touched, troubled, hidden>>

Lstat(s) ==
  /\ At(s, "lstat")
  /\ \/ /\ Served(s) /\ Exists(call[s].from)
        /\ Goto(s, "rename")
        /\ UNCHANGED <<remote, sess, uploads, issued, touched, hidden>>
     \/ Refused(s) /\ Return(s)

\* Faulty variant: the temporary file is removed whatever came of the rename.
RenameAndRemove(s) ==
  /\ At(s, "rename") \/ At(s, "renameAgain")
  /\ \/ /\ sess[s].connected /\ Exists(call[s].from)
        /\ remote' = Moved(call[s].from, call[s].to)
        /\ Replaced(s)
     \/ /\ At(s, "rename") /\ Goto(s, "remove")
        /\ UNCHANGED <<remote, uploads>>
     \/ /\ At(s, "renameAgain") /\ Return(s)
        /\ remote' = [remote EXCEPT ![call[s].from] = None]
        /\ UNCHANGED uploads
  /\ UNCHANGED <<sess, issued, touched, troubled, hidden>>

\* Some servers replace a file by a rename, most refuse it.
Rename(s) ==
  /\ At(s, "rename") \/ At(s, "renameAgain")
  /\ \/ /\ sess[s].connected /\ Exists(call[s].from)
        /\ remote' = Moved(call[s].from, call[s].to)
        /\ Replaced(s)
        /\ troubled' = troubled \ {call[s].from}
        /\ hidden' = [hidden EXCEPT ![call[s].to] = None]
        /\ UNCHANGED <<sess, issued, touched>>
     \/ /\ At(s, "rename")
        /\ Refused(s)
        /\ Goto(s, "remove")
     \/ /\ At(s, "renameAgain")
        /\ troubled' = troubled \cup {call[s].from}
        /\ hidden' = IF \E r \in Sessions \ {s} : At(r, "renameAgain") /\ call[r].to = call[s].to
                     THEN hidden ELSE [hidden EXCEPT ![call[s].to] = None]
        /\ Return(s)
        /\ UNCHANGED <<remote, sess, uploads, issued, touched>>

RemoveDest(s) ==
  /\ At(s, "remove")
  /\ \/ /\ Served(s) /\ Exists(call[s].to)
        /\ remote' = [remote EXCEPT ![call[s].to] = None]
        /\ hidden' = [hidden EXCEPT ![call[s].to] = remote[call[s].to]]
        /\ Goto(s, "renameAgain")
        /\ UNCHANGED <<sess, uploads, issued, touched>>
     \/ Refused(s) /\ Return(s)

-----------------------------------------------------------------------------
(* UploadSFTPChunk *)

\* The chunk at offset 0 starts an upload, or starts the one with ID v anew, in a
\* temporary file of its own.  The file may not be opened, or not be written.
FirstChunk(s, v, p) ==
  LET new == issued + 1
      stale == {u \in {v} \cap Versions : Exists(u)}
  IN  /\ lockedSFTP(s) /\ sess[s].connected
      /\ v # None => uploads[s][v] # None
      /\ issued < MaxVersions
      /\ issued' = new
      /\ \E gone \in SUBSET stale, file \in {None} \cup [of : {new}, parts : {{}, {1}}] :
           /\ remote' = [n \in Names |-> IF n = new THEN file
                                         ELSE IF n \in gone THEN None ELSE remote[n]]
           /\ uploads' = [uploads EXCEPT ![s] = [u \in Versions |->
                IF u = new THEN [path |-> p, next |-> IF file = Piece(new, {1}) THEN 1 ELSE 0]
                ELSE IF u = v THEN None ELSE @[u]]]
           /\ troubled' = (troubled \ gone) \cup (stale \ gone)
      /\ UNCHANGED <<sess, call, touched, hidden>>

\* What is in the temporary file after a chunk.  It is opened without O_TRUNC and
\* with O_CREATE: a file that is gone starts again, with a hole.
Extended(v, parts) ==
  [remote EXCEPT ![v] = Piece(v, parts \cup (IF Exists(v) THEN @.parts ELSE {}))]

Continues(s, v, p, off) ==
  /\ uploads[s][v] # None
  /\ uploads[s][v].path = p /\ uploads[s][v].next = off

\* The others continue where the last one ended.
NextChunk(s, v, p, off) ==
  /\ lockedSFTP(s) /\ Served(s)
  /\ Continues(s, v, p, off)
  /\ remote' = Extended(v, {off + 1})
  /\ uploads' = [uploads EXCEPT ![s][v].next = off + 1]
  /\ UNCHANGED <<sess, call, issued, touched, hidden>>

\* Faulty variant: an empty chunk is counted.
LastChunkCounted(s, v, p, off) ==
  /\ lockedSFTP(s) /\ Served(s)
  /\ Continues(s, v, p, off)
  /\ remote' = Extended(v, {})
  /\ uploads' = [uploads EXCEPT ![s][v].next = @ + 1]
  /\ Start(s, "chunk", "lstat", v, p, {})
  /\ UNCHANGED <<sess, issued, touched, hidden>>

\* The empty chunk at the end
LastChunk(s, v, p, off) ==
  /\ lockedSFTP(s) /\ Served(s)
  /\ Continues(s, v, p, off)
  /\ remote' = Extended(v, {})
  /\ Start(s, "chunk", "lstat", v, p, {})
  /\ UNCHANGED <<sess, uploads, issued, touched, hidden>>

-----------------------------------------------------------------------------
(* Downloads and the user's own operations *)

\* An open file stays the file it was, so what is read is what was there.
DownloadSFTP(s, p) ==
  /\ lockedSFTP(s) /\ Served(s) /\ Exists(p)
  /\ Start(s, "read", "copy", None, p, {})
  /\ UNCHANGED <<remote, sess, uploads, issued, touched, hidden>>

ReadTextSFTP(s, p) == DownloadSFTP(s, p)

PropertiesChecksumSFTP(s, p) == DownloadSFTP(s, p)

Copy(s) ==
  /\ At(s, "copy")
  /\ Return(s)
  /\ UNCHANGED <<remote, sess, uploads, issued, touched, troubled, hidden>>

RemoveSFTP(s, p) ==
  /\ lockedSFTP(s) /\ Served(s) /\ Exists(p)
  /\ remote' = [remote EXCEPT ![p] = None]
  /\ hidden' = [hidden EXCEPT ![p] = None]
  /\ UNCHANGED <<sess, uploads, call, issued, touched>>

RenameSFTP(s, p, q) ==
  /\ lockedSFTP(s) /\ Served(s) /\ Exists(p) /\ p # q
  /\ remote' = Moved(p, q)
  /\ hidden' = [hidden EXCEPT ![p] = None, ![q] = None]
  /\ UNCHANGED <<sess, uploads, call, issued, touched>>

\* An upload of version v is not over.
InUse(v) ==
  \/ \E s \in Sessions : uploads[s][v] # None
  \/ \E s \in Sessions : call[s] # Idle /\ call[s].op = "upload" /\ call[s].from = v

\* The list shows temporary files like any others, and the user, here or at
\* another client, may remove one.  That they rename one is left out.
RemoveTemp(v) ==
  /\ Exists(v)
  /\ remote' = [remote EXCEPT ![v] = None]
  /\ touched' = IF InUse(v) THEN touched \cup {v} ELSE touched
  /\ troubled' = troubled \ {v}
  /\ UNCHANGED <<sess, uploads, call, issued, hidden>>

-----------------------------------------------------------------------------
Init ==
  /\ remote \in [Names -> {Old, None}] /\ \A v \in Versions : remote[v] = None
  /\ sess = [s \in Sessions |-> [closed |-> TRUE, connected |-> FALSE]]
  /\ uploads = [s \in Sessions |-> [v \in Versions |-> None]]
  /\ call = [s \in Sessions |-> Idle]
  /\ issued = 0 /\ touched = {} /\ troubled = {}
  /\ hidden = [p \in Paths |-> None]

Next ==
  \/ \E s \in Sessions :
       \/ ConnectSFTP(s) \/ Disconnect(s) \/ CloseSFTP(s)
       \/ OpenNext(s) \/ WriteTemp(s) \/ Cleanup(s)
       \/ Lstat(s) \/ Rename(s) \/ RemoveDest(s)
       \/ Copy(s)
       \/ \E p \in Paths :
            \/ \E todo \in SUBSET Paths : UploadSFTP(s, p, todo)
            \/ \E v \in Versions \cup {None} : FirstChunk(s, v, p)
            \/ \E v \in Versions, off \in 1..Chunks - 1 : NextChunk(s, v, p, off)
            \/ \E v \in Versions : LastChunk(s, v, p, Chunks)
            \/ WriteTextSFTP(s, p)
            \/ DownloadSFTP(s, p) \/ ReadTextSFTP(s, p) \/ PropertiesChecksumSFTP(s, p)
            \/ RemoveSFTP(s, p)
            \/ \E q \in Paths : RenameSFTP(s, p, q)
  \/ \E v \in Versions : RemoveTemp(v)

Spec == Init /\ [][Next]_vars

-----------------------------------------------------------------------------
(* Properties *)

\* Everything is of its type: the call that has a mutex is at a step of its
\* method, with the arguments this step reads.
TypeOK ==
  /\ remote \in [Names -> Content \cup {None}]
  /\ sess \in [Sessions -> [closed : BOOLEAN, connected : BOOLEAN]]
  /\ uploads \in [Sessions -> [Versions -> [path : Paths, next : 0..Chunks] \cup {None}]]
  /\ call \in [Sessions -> Call \cup {Idle}]
  /\ issued \in 0..MaxVersions
  /\ touched \in SUBSET Versions /\ troubled \in SUBSET Versions
  /\ hidden \in [Paths -> Content \cup {None}]

\* "for _, up := range r.uploads" of CloseSFTP (appservice.go:1813): a temporary
\* file is being written, or an upload of an open session knows it, or a request
\* about it failed.
NoLitter == \A v \in Versions : Exists(v) => v \in troubled \/ InUse(v)

Finalizing(s) == call[s] # Idle /\ call[s].pc \in Replacing

\* A replacement that has removed the file and not yet put the new one there
\* counts as not having happened.
Visible ==
  [p \in Paths |->
     IF Exists(p) THEN remote[p]
     ELSE IF \E s \in Sessions : At(s, "renameAgain") /\ call[s].to = p THEN hidden[p]
     ELSE None]

Promise == INSTANCE RemoteFiles WITH
  Writers <- Sessions,
  Contents <- Contents,
  Whole <- Whole,
  files <- Visible,
  writing <- [s \in Sessions |-> IF Finalizing(s)
                                 THEN [path |-> call[s].to, version |-> call[s].from] ELSE None]

\* uploadFileSFTP, WriteTextSFTP and UploadSFTPChunk write to a temporary file and
\* finalizeRemoteReplace renames it: they keep the promise of RemoteFiles.  What is
\* at a path, for a download or an editor to read, is a whole version, unless
\* somebody removed its temporary file on the way.
KeepsPromise == Promise!Spec

\* What is at a path goes, and no replacement has it in hand.
Lost(p) == ~Exists(p)' /\ Visible[p] # None /\ Visible'[p] = None

\* The user removes or renames it, or the second rename fails and the new version
\* stays under its temporary name.
LossExplained(p) ==
  \E s \in Sessions :
    \/ RemoveSFTP(s, p) \/ \E q \in Paths : RenameSFTP(s, p, q)
    \/ /\ At(s, "renameAgain") /\ call[s].to = p
       /\ call[s].from \in touched \/ remote'[call[s].from] = Whole(call[s].from)

\* finalizeRemoteReplace removes the destination only to rename once more, and
\* leaves the temporary file when that fails: a file that is lost, other than by
\* its user, leaves its whole new version behind.
LossLeavesNewVersion == [][\A p \in Paths : Lost(p) => LossExplained(p)]_vars
=============================================================================
