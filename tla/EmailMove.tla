------------------------------ MODULE EmailMove ------------------------------
(***************************************************************************)
(* moveAccountEmail of server/server.mjs, one file operation at a time.    *)
(* The handler is synchronous, so no other request runs in between; but    *)
(* any operation may fail, which runs the rollback of its catch block, and *)
(* the process may die after any operation, which runs nothing.            *)
(*                                                                         *)
(* A user is the identity behind an account record.  The sync file and the *)
(* backups of an address are known by the user whose blobs they hold.      *)
(***************************************************************************)
EXTENDS FiniteSets

CONSTANTS Users, Addresses,
          Nobody,       \* no file
          Idle          \* no move is running

VARIABLES acc,   \* whose account file an address has
          sync,  \* whose sync file
          bak,   \* whose backup directory
          job,   \* the local variables of moveAccountEmail
          kept,  \* users who stored data and have not deleted it since
          undone \* users whose data the rollback of a failed last unlink took
                 \* away, and who have stored none since

vars == <<acc, sync, bak, job, kept, undone>>

Forward  == {"newAccount", "newSync", "backups", "unlinkSync", "unlinkAccount"}
Rollback == {"rmAccount", "rmSync", "backupsBack"}

Files == [Addresses -> Users \cup {Nobody}]
\* For the properties only, a job remembers the operation that threw and the
\* files at its beginning.
Job   == [step : Forward \cup Rollback, failed : Forward \cup {"none"},
          from : Addresses, to : Addresses, rec : Users,
          syncPayload : Users \cup {Nobody}, before : Files \X Files \X Files]

ASSUME FilesAssumption ==
  /\ Nobody \notin Users
  /\ Idle \notin Job

-----------------------------------------------------------------------------
(* What the rest of the server does between moves. *)

\* Faulty variant: the record is filed under its own address.
RegisterAddress(u, a) ==
  /\ job = Idle
  /\ acc[a] = Nobody /\ \A b \in Addresses : acc[b] # u
  /\ acc' = [acc EXCEPT ![a] = a]
  /\ UNCHANGED <<sync, bak, job, kept, undone>>

Register(u, a) ==
  /\ job = Idle
  /\ acc[a] = Nobody /\ \A b \in Addresses : acc[b] # u
  /\ acc' = [acc EXCEPT ![a] = u]
  /\ UNCHANGED <<sync, bak, job, kept, undone>>

writeSyncRecord(a) ==
  /\ job = Idle
  /\ acc[a] # Nobody
  /\ bak' = IF sync[a] = Nobody THEN bak ELSE [bak EXCEPT ![a] = sync[a]]
  /\ sync' = [sync EXCEPT ![a] = acc[a]]
  /\ kept' = kept \cup {acc[a]}
  /\ undone' = undone \ {acc[a]}
  /\ UNCHANGED <<acc, job>>

\* Deletes the account or only its data; the user keeps what another address has.
deleteSyncData(a, withAccount) ==
  /\ job = Idle
  /\ acc[a] # Nobody
  /\ acc' = IF withAccount THEN [acc EXCEPT ![a] = Nobody] ELSE acc
  /\ sync' = [sync EXCEPT ![a] = Nobody]
  /\ bak' = [bak EXCEPT ![a] = Nobody]
  /\ kept' = IF \E b \in Addresses \ {a} : acc[b] = acc[a] /\ sync[b] = acc[a]
             THEN kept ELSE kept \ {acc[a]}
  /\ UNCHANGED <<job, undone>>

-----------------------------------------------------------------------------
(* The move *)

Begin(a, b) ==
  /\ job = Idle
  /\ a # b
  /\ acc[a] # Nobody
  /\ acc[b] = Nobody /\ sync[b] = Nobody /\ bak[b] = Nobody
  /\ job' = [step |-> "newAccount", failed |-> "none", from |-> a, to |-> b,
             rec |-> acc[a], syncPayload |-> sync[a], before |-> <<acc, sync, bak>>]
  /\ UNCHANGED <<acc, sync, bak, kept, undone>>

At(s) == job # Idle /\ job.step = s

Goto(s) == job' = [job EXCEPT !.step = s]

NewAccount ==
  /\ At("newAccount")
  /\ acc' = [acc EXCEPT ![job.to] = job.rec]
  /\ Goto("newSync")
  /\ UNCHANGED <<sync, bak, kept, undone>>

\* Faulty variant: the sync file is renamed, not copied.
NewSyncRenames ==
  /\ At("newSync")
  /\ sync' = IF job.syncPayload = Nobody THEN sync
             ELSE [sync EXCEPT ![job.to] = job.syncPayload, ![job.from] = Nobody]
  /\ Goto("backups")
  /\ UNCHANGED <<acc, bak, kept, undone>>

NewSync ==
  /\ At("newSync")
  /\ sync' = IF job.syncPayload = Nobody THEN sync
             ELSE [sync EXCEPT ![job.to] = job.syncPayload]
  /\ Goto("backups")
  /\ UNCHANGED <<acc, bak, kept, undone>>

RenameBackups(a, b) ==
  bak' = IF bak[a] = Nobody THEN bak ELSE [bak EXCEPT ![a] = Nobody, ![b] = bak[a]]

Backups ==
  /\ At("backups")
  /\ RenameBackups(job.from, job.to)
  /\ Goto("unlinkSync")
  /\ UNCHANGED <<acc, sync, kept, undone>>

UnlinkSync ==
  /\ At("unlinkSync")
  /\ sync' = IF job.syncPayload = Nobody THEN sync ELSE [sync EXCEPT ![job.from] = Nobody]
  /\ Goto("unlinkAccount")
  /\ UNCHANGED <<acc, bak, kept, undone>>

UnlinkAccount ==
  /\ At("unlinkAccount")
  /\ acc' = [acc EXCEPT ![job.from] = Nobody]
  /\ job' = Idle
  /\ UNCHANGED <<sync, bak, kept, undone>>

\* The step has a file to work on.
Operates ==
  CASE job.step \in {"newSync", "unlinkSync"} -> job.syncPayload # Nobody
    [] job.step = "backups"                  -> bak[job.from] # Nobody
    [] OTHER                                 -> TRUE

\* An operation throws without effect and the catch block begins.
Fails ==
  /\ job # Idle /\ job.step \in Forward /\ Operates
  /\ job' = [job EXCEPT !.step = "rmAccount", !.failed = job.step]
  /\ UNCHANGED <<acc, sync, bak, kept, undone>>

RmAccount ==
  /\ At("rmAccount")
  /\ acc' = [acc EXCEPT ![job.to] = Nobody]
  /\ undone' = IF job.failed = "unlinkAccount" /\ job.syncPayload = job.rec
               THEN undone \cup {job.rec} ELSE undone
  /\ Goto("rmSync")
  /\ UNCHANGED <<sync, bak, kept>>

RmSync ==
  /\ At("rmSync")
  /\ sync' = [sync EXCEPT ![job.to] = Nobody]
  /\ Goto("backupsBack")
  /\ UNCHANGED <<acc, bak, kept, undone>>

\* Faulty variant: the rollback leaves the backups at the new address.
BackupsStay ==
  /\ At("backupsBack")
  /\ job' = Idle
  /\ UNCHANGED <<acc, sync, bak, kept, undone>>

BackupsBack ==
  /\ At("backupsBack")
  /\ IF bak[job.from] = Nobody THEN RenameBackups(job.to, job.from) ELSE UNCHANGED bak
  /\ job' = Idle
  /\ UNCHANGED <<acc, sync, kept, undone>>

\* The process dies, or an operation of the catch block throws.
Crash ==
  /\ job # Idle
  /\ job' = Idle
  /\ UNCHANGED <<acc, sync, bak, kept, undone>>

-----------------------------------------------------------------------------
Init ==
  /\ acc = [a \in Addresses |-> Nobody]
  /\ sync = [a \in Addresses |-> Nobody]
  /\ bak = [a \in Addresses |-> Nobody]
  /\ job = Idle
  /\ kept = {}
  /\ undone = {}

Next ==
  \/ \E u \in Users, a \in Addresses : Register(u, a)
  \/ \E a \in Addresses : writeSyncRecord(a)
  \/ \E a \in Addresses, withAccount \in BOOLEAN : deleteSyncData(a, withAccount)
  \/ \E a, b \in Addresses : Begin(a, b)
  \/ NewAccount
  \/ NewSync
  \/ Backups
  \/ UnlinkSync
  \/ UnlinkAccount
  \/ Fails
  \/ RmAccount
  \/ RmSync
  \/ BackupsBack
  \/ Crash

Spec == Init /\ [][Next]_vars

-----------------------------------------------------------------------------
(* Properties *)

\* Files and local variables of the move have their shapes.
TypeOK ==
  /\ acc \in Files
  /\ sync \in Files
  /\ bak \in Files
  /\ job \in Job \cup {Idle}
  /\ kept \in SUBSET Users
  /\ undone \in SUBSET Users

\* Whatever fails and whenever the process dies, a user who stored data can log
\* in to an address that has it, with one exception: when the last operation, the
\* unlink of the old account file (server.mjs:732), throws, the old sync file is
\* gone already and the rollback removes the new one.
DataReachable ==
  \A u \in kept \ undone : \E a \in Addresses : acc[a] = u /\ sync[a] = u

\* A rollback that runs to its end leaves every file as it was before the move,
\* but for the old sync file when the operation that threw was the last one:
\* that file was removed before it and does not come back.
RollbackRestores ==
  [][BackupsBack =>
       /\ acc' = job.before[1]
       /\ sync' = IF job.failed = "unlinkAccount"
                  THEN [job.before[2] EXCEPT ![job.from] = Nobody] ELSE job.before[2]
       /\ bak' = job.before[3]]_vars

(* What a test promises, and the code does not keep. *)

\* "self email change preserves uniqueness and moves sync data"
\* (server.test.mjs:586): the data is within reach, without exception.
MoveKeepsData == \A u \in kept : \E a \in Addresses : acc[a] = u /\ sync[a] = u
=============================================================================
