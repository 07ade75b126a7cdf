---------------------------- MODULE RemoteFiles -----------------------------
(***************************************************************************)
(* What the SFTP file manager promises about the files of a server: a file *)
(* is replaced in one step by one whole new version, or not at all.  It is *)
(* lost only when a replacement that has begun comes to nothing, or by the *)
(* user of a session that replaces nothing at the time.  SftpFiles, the    *)
(* translation of the code, implements this specification.                 *)
(*                                                                         *)
(* Writers are the sessions.  A version that somebody has touched on the   *)
(* way, while it was a temporary file, is not promised to be whole.        *)
(***************************************************************************)
CONSTANTS Paths, Writers, Versions, None,
          Old,           \* what the files hold at first
          Contents(_),   \* what can become of a version that was touched
          Whole(_)       \* a version as it was sent

VARIABLES files,    \* what a path holds, None if nothing
          writing,  \* the replacement a writer has begun
          touched   \* versions touched by the user

vars == <<files, writing, touched>>

Init ==
  /\ files \in [Paths -> {Old, None}]
  /\ writing = [w \in Writers |-> None]
  /\ touched = {}

Begin(w, p, v) ==
  /\ writing[w] = None
  /\ writing' = [writing EXCEPT ![w] = [path |-> p, version |-> v]]
  /\ UNCHANGED <<files, touched>>

\* The new version is there, all of it.
Commit(w) ==
  /\ writing[w] # None
  /\ LET v == writing[w].version
     IN  \E new \in (IF v \in touched THEN Contents(v) ELSE {Whole(v)}) :
           files' = [files EXCEPT ![writing[w].path] = new]
  /\ writing' = [writing EXCEPT ![w] = None]
  /\ UNCHANGED touched

\* The replacement comes to nothing: the path keeps its file or loses it.
Abort(w) ==
  /\ writing[w] # None
  /\ writing' = [writing EXCEPT ![w] = None]
  /\ \/ files' = [files EXCEPT ![writing[w].path] = None]
     \/ UNCHANGED files
  /\ UNCHANGED touched

\* The user's own operations wait for the transfer of their session.
Remove(w, p) ==
  /\ writing[w] = None
  /\ files' = [files EXCEPT ![p] = None]
  /\ UNCHANGED <<writing, touched>>

Rename(w, p, q) ==
  /\ writing[w] = None
  /\ files' = [[files EXCEPT ![q] = files[p]] EXCEPT ![p] = None]
  /\ UNCHANGED <<writing, touched>>

Touch(v) ==
  /\ touched' = touched \cup {v}
  /\ UNCHANGED <<files, writing>>

Next ==
  \/ \E w \in Writers :
       \/ Commit(w) \/ Abort(w)
       \/ \E p \in Paths, v \in Versions : Begin(w, p, v)
       \/ \E p \in Paths : Remove(w, p) \/ \E q \in Paths \ {p} : Rename(w, p, q)
  \/ \E v \in Versions : Touch(v)

Spec == Init /\ [][Next]_vars
=============================================================================
