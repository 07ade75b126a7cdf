--------------------------- MODULE EmailMoveProofs ---------------------------
(***************************************************************************)
(* What the failures and crashes of moveAccountEmail leave of a user's     *)
(* sync data.  The invariant says, for each step of a running move and for *)
(* each operation that may have thrown, how the files differ from those at *)
(* its beginning.                                                          *)
(***************************************************************************)
EXTENDS EmailMove, TLAPS

AccBefore  == job.before[1]
SyncBefore == job.before[2]
BakBefore  == job.before[3]

AccMoved  == [AccBefore EXCEPT ![job.to] = job.rec]
SyncMoved == IF job.syncPayload = Nobody THEN SyncBefore
             ELSE [SyncBefore EXCEPT ![job.to] = job.syncPayload]
BakMoved  == IF BakBefore[job.from] = Nobody THEN BakBefore
             ELSE [BakBefore EXCEPT ![job.from] = Nobody, ![job.to] = BakBefore[job.from]]

\* What the sync files are when the new one is removed: after a failure of the
\* last operation the old one is gone.
SyncRestored == IF job.failed = "unlinkAccount"
                THEN [SyncBefore EXCEPT ![job.from] = Nobody] ELSE SyncBefore

\* A move starts from an account to an address without any file.
StartOK ==
  /\ job.from # job.to
  /\ AccBefore[job.from] = job.rec
  /\ SyncBefore[job.from] = job.syncPayload
  /\ AccBefore[job.to] = Nobody
  /\ SyncBefore[job.to] = Nobody
  /\ BakBefore[job.to] = Nobody

AccOK ==
  CASE job.step \in {"newAccount", "rmSync", "backupsBack"} -> acc = AccBefore
    [] job.step = "rmAccount" -> acc \in {AccBefore, AccMoved}
    [] OTHER                  -> acc = AccMoved

SyncOK ==
  CASE job.step \in {"newAccount", "newSync"} -> sync = SyncBefore
    [] job.step = "backupsBack" -> sync = SyncRestored
    [] job.step \in {"rmAccount", "rmSync"} ->
         IF job.failed = "unlinkAccount" THEN sync = [SyncMoved EXCEPT ![job.from] = Nobody]
         ELSE sync \in {SyncBefore, SyncMoved}
    [] job.step = "unlinkAccount" -> sync = [SyncMoved EXCEPT ![job.from] = Nobody]
    [] OTHER -> sync = SyncMoved

BakOK ==
  CASE job.step \in {"newAccount", "newSync", "backups"} -> bak = BakBefore
    [] job.step \in Rollback -> bak \in {BakBefore, BakMoved}
    [] OTHER -> bak = BakMoved

JobOK == job # Idle => StartOK /\ AccOK /\ SyncOK /\ BakOK

IInv == TypeOK /\ JobOK /\ DataReachable

-----------------------------------------------------------------------------
\* Goto changes the step and no other local variable.
LEMMA GotoEffect ==
  ASSUME job \in Job, NEW s \in Forward \cup Rollback, Goto(s)
  PROVE  /\ job' \in Job
         /\ job'.step = s
         /\ job'.from = job.from /\ job'.to = job.to /\ job'.rec = job.rec
         /\ job'.syncPayload = job.syncPayload /\ job'.before = job.before
         /\ job'.failed = job.failed
         /\ job' # Idle
  BY FilesAssumption DEF Goto, Job

\* A failure changes the step and remembers the one it was at.
LEMMA FailsEffect ==
  ASSUME job \in Job, Fails
  PROVE  /\ job' \in Job /\ job' # Idle
         /\ job'.step = "rmAccount" /\ job'.failed = job.step /\ job.step \in Forward
         /\ job'.from = job.from /\ job'.to = job.to /\ job'.rec = job.rec
         /\ job'.syncPayload = job.syncPayload /\ job'.before = job.before
  BY FilesAssumption DEF Fails, Job, Rollback

\* The move begins with the files as they are.
LEMMA BeginEffect ==
  ASSUME TypeOK, NEW a \in Addresses, NEW b \in Addresses, Begin(a, b)
  PROVE  /\ job' \in Job /\ job' # Idle
         /\ job'.step = "newAccount" /\ job'.from = a /\ job'.to = b
         /\ job'.rec = acc[a] /\ job'.syncPayload = sync[a]
         /\ job'.before[1] = acc /\ job'.before[2] = sync /\ job'.before[3] = bak
  <1>1. acc[a] \in Users /\ sync[a] \in Users \cup {Nobody}
    BY DEF TypeOK, Files, Begin
  <1>2. <<acc, sync, bak>> \in Files \X Files \X Files
    BY DEF TypeOK
  <1>3. job' \in Job
    BY <1>1, <1>2 DEF Begin, Job, Forward
  <1>. QED  BY <1>3, FilesAssumption DEF Begin

-----------------------------------------------------------------------------
(* Type correctness *)

LEMMA TypeStep == TypeOK /\ [Next]_vars => TypeOK'
  <1>. SUFFICES ASSUME TypeOK, [Next]_vars PROVE TypeOK'
    OBVIOUS
  <1>1. ASSUME NEW u \in Users, NEW a \in Addresses, Register(u, a) PROVE TypeOK'
    BY <1>1 DEF Register, TypeOK, Files
  <1>2. ASSUME NEW a \in Addresses, writeSyncRecord(a) PROVE TypeOK'
    BY <1>2 DEF writeSyncRecord, TypeOK, Files
  <1>3. ASSUME NEW a \in Addresses, NEW w \in BOOLEAN, deleteSyncData(a, w) PROVE TypeOK'
    BY <1>3 DEF deleteSyncData, TypeOK, Files
  <1>4. ASSUME NEW a \in Addresses, NEW b \in Addresses, Begin(a, b) PROVE TypeOK'
    BY <1>4, BeginEffect DEF Begin, TypeOK
  <1>5. CASE NewAccount
    <2>1. job \in Job BY <1>5 DEF NewAccount, At, TypeOK
    <2>2. job' \in Job BY <1>5, <2>1, GotoEffect DEF NewAccount, Forward
    <2>. QED BY <1>5, <2>1, <2>2 DEF NewAccount, TypeOK, Files, Job
  <1>6. CASE NewSync
    <2>1. job \in Job BY <1>6 DEF NewSync, At, TypeOK
    <2>2. job' \in Job BY <1>6, <2>1, GotoEffect DEF NewSync, Forward
    <2>. QED BY <1>6, <2>1, <2>2 DEF NewSync, TypeOK, Files, Job
  <1>7. CASE Backups
    <2>1. job \in Job BY <1>7 DEF Backups, At, TypeOK
    <2>2. job' \in Job BY <1>7, <2>1, GotoEffect DEF Backups, Forward
    <2>. QED BY <1>7, <2>1, <2>2 DEF Backups, RenameBackups, TypeOK, Files, Job
  <1>8. CASE UnlinkSync
    <2>1. job \in Job BY <1>8 DEF UnlinkSync, At, TypeOK
    <2>2. job' \in Job BY <1>8, <2>1, GotoEffect DEF UnlinkSync, Forward
    <2>. QED BY <1>8, <2>1, <2>2 DEF UnlinkSync, TypeOK, Files, Job
  <1>9. CASE UnlinkAccount
    <2>1. job \in Job BY <1>9 DEF UnlinkAccount, At, TypeOK
    <2>. QED BY <1>9, <2>1 DEF UnlinkAccount, TypeOK, Files, Job
  <1>10. CASE Fails
    <2>1. job \in Job BY <1>10 DEF Fails, TypeOK
    <2>2. job' \in Job BY <1>10, <2>1, FailsEffect
    <2>. QED BY <1>10, <2>2 DEF Fails, TypeOK
  <1>11. CASE RmAccount
    <2>1. job \in Job BY <1>11 DEF RmAccount, At, TypeOK
    <2>2. job' \in Job BY <1>11, <2>1, GotoEffect DEF RmAccount, Rollback
    <2>. QED BY <1>11, <2>1, <2>2 DEF RmAccount, TypeOK, Files, Job
  <1>12. CASE RmSync
    <2>1. job \in Job BY <1>12 DEF RmSync, At, TypeOK
    <2>2. job' \in Job BY <1>12, <2>1, GotoEffect DEF RmSync, Rollback
    <2>. QED BY <1>12, <2>1, <2>2 DEF RmSync, TypeOK, Files, Job
  <1>13. CASE BackupsBack
    <2>1. job \in Job BY <1>13 DEF BackupsBack, At, TypeOK
    <2>. QED BY <1>13, <2>1 DEF BackupsBack, RenameBackups, TypeOK, Files, Job
  <1>14. CASE Crash
    BY <1>14 DEF Crash, TypeOK
  <1>15. CASE UNCHANGED vars
    BY <1>15 DEF vars, TypeOK
  <1>. QED
    BY <1>1, <1>2, <1>3, <1>4, <1>5, <1>6, <1>7, <1>8, <1>9, <1>10, <1>11, <1>12, <1>13,
       <1>14, <1>15 DEF Next

\* Every reachable state has the shapes of TypeOK, whatever fails.
THEOREM TypeCorrect == Spec => []TypeOK
  <1>1. Init => TypeOK
    BY DEF Init, TypeOK, Files
  <1>. QED  BY <1>1, TypeStep, PTL DEF Spec

-----------------------------------------------------------------------------
(* The files during a move *)

\* StartOK speaks of local variables only, and Goto keeps them.
LEMMA StartKept ==
  ASSUME job \in Job, StartOK, NEW s \in Forward \cup Rollback, Goto(s)
  PROVE  /\ StartOK'
         /\ AccBefore' = AccBefore /\ SyncBefore' = SyncBefore /\ BakBefore' = BakBefore
         /\ AccMoved' = AccMoved /\ SyncMoved' = SyncMoved /\ BakMoved' = BakMoved
         /\ SyncRestored' = SyncRestored
  BY GotoEffect DEF StartOK, AccBefore, SyncBefore, BakBefore, AccMoved, SyncMoved, BakMoved,
                    SyncRestored

LEMMA BeforeType ==
  ASSUME job \in Job
  PROVE  /\ AccBefore \in Files /\ SyncBefore \in Files /\ BakBefore \in Files
         /\ AccMoved \in Files /\ SyncMoved \in Files /\ BakMoved \in Files
         /\ job.from \in Addresses /\ job.to \in Addresses /\ job.rec \in Users
         /\ job.syncPayload \in Users \cup {Nobody}
  BY DEF Job, Files, AccBefore, SyncBefore, BakBefore, AccMoved, SyncMoved, BakMoved

\* Every step of a move leaves the files as AccOK, SyncOK and BakOK say.
LEMMA JobStep ==
  ASSUME TypeOK, JobOK, [Next]_vars
  PROVE  JobOK'
  <1>. USE DEF AccOK, SyncOK, BakOK
  <1>1. ASSUME NEW u \in Users, NEW a \in Addresses, Register(u, a) PROVE JobOK'
    BY <1>1 DEF Register, JobOK
  <1>2. ASSUME NEW a \in Addresses, writeSyncRecord(a) PROVE JobOK'
    BY <1>2 DEF writeSyncRecord, JobOK
  <1>3. ASSUME NEW a \in Addresses, NEW w \in BOOLEAN, deleteSyncData(a, w) PROVE JobOK'
    BY <1>3 DEF deleteSyncData, JobOK
  <1>4. ASSUME NEW a \in Addresses, NEW b \in Addresses, Begin(a, b) PROVE JobOK'
    <2>1. StartOK'
      BY <1>4, BeginEffect DEF Begin, StartOK, AccBefore, SyncBefore, BakBefore
    <2>2. AccOK' /\ SyncOK' /\ BakOK'
      BY <1>4, BeginEffect DEF Begin, AccBefore, SyncBefore, BakBefore
    <2>. QED BY <2>1, <2>2 DEF JobOK
  <1>5. CASE NewAccount
    <2>1. job \in Job /\ StartOK /\ AccOK /\ SyncOK /\ BakOK
      BY <1>5 DEF NewAccount, At, TypeOK, JobOK
    <2>2. StartOK' /\ AccOK' /\ SyncOK' /\ BakOK'
      BY <1>5, <2>1, StartKept, GotoEffect DEF NewAccount, At, Forward, Rollback, AccMoved
    <2>. QED BY <2>2 DEF JobOK
  <1>6. CASE NewSync
    <2>1. job \in Job /\ StartOK /\ AccOK /\ SyncOK /\ BakOK
      BY <1>6 DEF NewSync, At, TypeOK, JobOK
    <2>2. StartOK' /\ AccOK' /\ SyncOK' /\ BakOK'
      BY <1>6, <2>1, StartKept, GotoEffect DEF NewSync, At, Forward, Rollback, SyncMoved
    <2>. QED BY <2>2 DEF JobOK
  <1>7. CASE Backups
    <2>1. job \in Job /\ StartOK /\ AccOK /\ SyncOK /\ BakOK
      BY <1>7 DEF Backups, At, TypeOK, JobOK
    <2>2. StartOK' /\ AccOK' /\ SyncOK' /\ BakOK'
      BY <1>7, <2>1, StartKept, GotoEffect
         DEF Backups, RenameBackups, At, Forward, Rollback, BakMoved
    <2>. QED BY <2>2 DEF JobOK
  <1>8. CASE UnlinkSync
    <2>1. job \in Job /\ StartOK /\ AccOK /\ SyncOK /\ BakOK
      BY <1>8 DEF UnlinkSync, At, TypeOK, JobOK
    <2>2. job.syncPayload = Nobody => SyncMoved = [SyncMoved EXCEPT ![job.from] = Nobody]
      BY <2>1, BeforeType DEF StartOK, SyncMoved, Files
    <2>3. sync' = [SyncMoved EXCEPT ![job.from] = Nobody]
      BY <1>8, <2>1, <2>2 DEF UnlinkSync, At, Rollback
    <2>4. /\ SyncMoved' = SyncMoved /\ job'.from = job.from
          /\ job'.step = "unlinkAccount"
      BY <1>8, <2>1, StartKept, GotoEffect DEF UnlinkSync, Forward
    <2>5. SyncOK'
      BY <2>3, <2>4
    <2>6. StartOK' /\ AccOK' /\ BakOK'
      BY <1>8, <2>1, <2>4, StartKept DEF UnlinkSync, At, Forward, Rollback
    <2>. QED BY <2>5, <2>6 DEF JobOK
  <1>9. CASE UnlinkAccount
    BY <1>9 DEF UnlinkAccount, JobOK
  <1>10. CASE Fails
    <2>1. job \in Job /\ StartOK /\ AccOK /\ SyncOK /\ BakOK
      BY <1>10 DEF Fails, TypeOK, JobOK
    <2>2. /\ StartOK' /\ job'.step = "rmAccount" /\ job'.failed = job.step
          /\ job'.from = job.from /\ job.step \in Forward
          /\ AccBefore' = AccBefore /\ SyncBefore' = SyncBefore /\ BakBefore' = BakBefore
          /\ AccMoved' = AccMoved /\ SyncMoved' = SyncMoved /\ BakMoved' = BakMoved
      BY <1>10, <2>1, FailsEffect
         DEF StartOK, AccBefore, SyncBefore, BakBefore, AccMoved, SyncMoved, BakMoved
    <2>3. AccOK' /\ BakOK'
      BY <1>10, <2>1, <2>2 DEF Fails, Forward, Rollback
    <2>4. SyncOK'
      BY <1>10, <2>1, <2>2 DEF Fails, Forward
    <2>. QED BY <2>2, <2>3, <2>4 DEF JobOK
  <1>11. CASE RmAccount
    <2>1. job \in Job /\ StartOK /\ AccOK /\ SyncOK /\ BakOK
      BY <1>11 DEF RmAccount, At, TypeOK, JobOK
    <2>2. acc' = AccBefore
      BY <1>11, <2>1, BeforeType DEF RmAccount, At, StartOK, AccMoved, Files
    <2>3. StartOK' /\ AccOK' /\ SyncOK' /\ BakOK'
      BY <1>11, <2>1, <2>2, StartKept, GotoEffect DEF RmAccount, At, Rollback
    <2>. QED BY <2>3 DEF JobOK
  <1>12. CASE RmSync
    <2>1. job \in Job /\ StartOK /\ AccOK /\ SyncOK /\ BakOK
      BY <1>12 DEF RmSync, At, TypeOK, JobOK
    <2>2. sync' = SyncRestored
      <3>1. sync' = [sync EXCEPT ![job.to] = Nobody]
        BY <1>12 DEF RmSync
      <3>2. CASE job.failed = "unlinkAccount"
        <4>1. sync = [SyncMoved EXCEPT ![job.from] = Nobody]
          BY <1>12, <2>1, <3>2 DEF RmSync, At
        <4>. QED BY <2>1, <3>1, <3>2, <4>1, BeforeType DEF StartOK, SyncMoved, SyncRestored, Files
      <3>3. CASE job.failed # "unlinkAccount"
        <4>1. sync \in {SyncBefore, SyncMoved}
          BY <1>12, <2>1, <3>3 DEF RmSync, At
        <4>. QED BY <2>1, <3>1, <3>3, <4>1, BeforeType DEF StartOK, SyncMoved, SyncRestored, Files
      <3>. QED BY <3>2, <3>3
    <2>3. StartOK' /\ AccOK' /\ SyncOK' /\ BakOK'
      BY <1>12, <2>1, <2>2, StartKept, GotoEffect DEF RmSync, At, Rollback
    <2>. QED BY <2>3 DEF JobOK
  <1>13. CASE BackupsBack
    BY <1>13 DEF BackupsBack, JobOK
  <1>14. CASE Crash
    BY <1>14 DEF Crash, JobOK
  <1>15. CASE UNCHANGED vars
    BY <1>15 DEF vars, JobOK, StartOK, AccBefore, SyncBefore, BakBefore, AccMoved,
                 SyncMoved, BakMoved, SyncRestored
  <1>. QED
    BY <1>1, <1>2, <1>3, <1>4, <1>5, <1>6, <1>7, <1>8, <1>9, <1>10, <1>11, <1>12, <1>13,
       <1>14, <1>15 DEF Next

-----------------------------------------------------------------------------
(* The data of a user *)

Reachable(u) == \E a \in Addresses : acc[a] = u /\ sync[a] = u

LEMMA ReachableStep ==
  ASSUME IInv, [Next]_vars
  PROVE  DataReachable'
  <1>. USE DEF IInv
  <1>. SUFFICES ASSUME NEW u \in kept', u \notin undone' PROVE Reachable(u)'
    BY DEF DataReachable, Reachable
  <1>0. u \in Users /\ (u \in kept /\ u \notin undone => Reachable(u))
    BY TypeStep DEF TypeOK, DataReachable, Reachable
  <1>k. Nobody \notin Users
    BY FilesAssumption
  <1>1. ASSUME NEW v \in Users, NEW a \in Addresses, Register(v, a) PROVE Reachable(u)'
    BY <1>1, <1>0, <1>k DEF Register, TypeOK, Files, Reachable
  <1>2. ASSUME NEW a \in Addresses, writeSyncRecord(a) PROVE Reachable(u)'
    BY <1>2, <1>0, <1>k DEF writeSyncRecord, TypeOK, Files, Reachable
  <1>3. ASSUME NEW a \in Addresses, NEW w \in BOOLEAN, deleteSyncData(a, w)
        PROVE  Reachable(u)'
    <2>1. CASE u = acc[a]
      <3>1. \E b \in Addresses \ {a} : acc[b] = acc[a] /\ sync[b] = acc[a]
        BY <1>3, <2>1 DEF deleteSyncData
      <3>. QED BY <3>1, <1>3, <2>1 DEF deleteSyncData, TypeOK, Files, Reachable
    <2>2. CASE u # acc[a]
      <3>1. u \in kept /\ u \notin undone
        BY <1>3, <2>2 DEF deleteSyncData
      <3>2. PICK b \in Addresses : acc[b] = u /\ sync[b] = u
        BY <3>1, <1>0 DEF Reachable
      <3>. QED BY <3>2, <1>3, <2>2 DEF deleteSyncData, TypeOK, Files, Reachable
    <2>. QED BY <2>1, <2>2
  <1>4. ASSUME NEW a \in Addresses, NEW b \in Addresses, Begin(a, b) PROVE Reachable(u)'
    BY <1>4, <1>0 DEF Begin, Reachable
  <1>j. ASSUME job # Idle
        PROVE  job \in Job /\ StartOK /\ AccOK /\ SyncOK
    BY <1>j DEF TypeOK, JobOK
  <1>5. CASE NewAccount
    <2>1. acc[job.to] = Nobody
      BY <1>5, <1>j DEF NewAccount, At, AccOK, StartOK
    <2>. QED BY <2>1, <1>5, <1>0, <1>k DEF NewAccount, TypeOK, Files, Reachable
  <1>6. CASE NewSync
    <2>1. sync[job.to] = Nobody
      BY <1>6, <1>j DEF NewSync, At, SyncOK, StartOK
    <2>. QED BY <2>1, <1>6, <1>0, <1>k DEF NewSync, TypeOK, Files, Reachable
  <1>7. CASE Backups
    BY <1>7, <1>0 DEF Backups, Reachable
  <1>8. CASE UnlinkSync
    <2>1. PICK b \in Addresses : acc[b] = u /\ sync[b] = u
      BY <1>8, <1>0 DEF UnlinkSync, Reachable
    <2>2. job \in Job /\ StartOK /\ acc = AccMoved /\ sync = SyncMoved
      BY <1>8, <1>j DEF UnlinkSync, At, AccOK, SyncOK, Rollback
    <2>3. CASE job.syncPayload = Nobody \/ b # job.from
      BY <2>1, <2>3, <1>8 DEF UnlinkSync, TypeOK, Files, Reachable
    <2>4. CASE job.syncPayload # Nobody /\ b = job.from
      <3>1. u = job.rec /\ u = job.syncPayload
        BY <2>1, <2>2, <2>4, BeforeType DEF StartOK, AccMoved, SyncMoved, Files
      <3>2. acc[job.to] = u /\ sync[job.to] = u
        BY <3>1, <2>2, <2>4, BeforeType DEF AccMoved, SyncMoved, Files
      <3>3. acc'[job.to] = u /\ sync'[job.to] = u
        BY <3>2, <2>2, <1>8 DEF UnlinkSync, StartOK, TypeOK, Files
      <3>. QED BY <3>3, <2>2, BeforeType DEF Reachable
    <2>. QED BY <2>3, <2>4
  <1>9. CASE UnlinkAccount
    <2>1. sync[job.from] = Nobody
      BY <1>9, <1>j, BeforeType DEF UnlinkAccount, At, SyncOK, Rollback, Files
    <2>. QED BY <2>1, <1>9, <1>0, <1>k DEF UnlinkAccount, TypeOK, Files, Reachable
  <1>10. CASE Fails
    BY <1>10, <1>0 DEF Fails, Reachable
  <1>11. CASE RmAccount
    <2>0. u \in kept /\ u \notin undone
      BY <1>11 DEF RmAccount
    <2>1. PICK b \in Addresses : acc[b] = u /\ sync[b] = u
      BY <2>0, <1>0 DEF Reachable
    <2>2. job \in Job /\ StartOK /\ acc \in {AccBefore, AccMoved} /\ SyncOK
      BY <1>11, <1>j DEF RmAccount, At, AccOK
    <2>3. CASE b # job.to
      BY <2>1, <2>3, <1>11 DEF RmAccount, TypeOK, Files, Reachable
    <2>4. CASE b = job.to
      <3>0. sync \in {SyncBefore, SyncMoved, [SyncMoved EXCEPT ![job.from] = Nobody]}
        BY <2>2, <1>11 DEF SyncOK, RmAccount, At
      <3>1. u = job.rec /\ u = job.syncPayload
        BY <2>1, <2>2, <2>4, <3>0, <1>0, <1>k, BeforeType
           DEF StartOK, AccMoved, SyncMoved, Files
      <3>2. job.failed # "unlinkAccount"
        BY <1>11, <3>1 DEF RmAccount
      <3>3. sync \in {SyncBefore, SyncMoved}
        BY <2>2, <3>2, <1>11 DEF SyncOK, RmAccount, At
      <3>4. acc[job.from] = u /\ sync[job.from] = u
        BY <3>1, <3>3, <2>2, BeforeType DEF StartOK, AccMoved, SyncMoved, Files
      <3>5. acc'[job.from] = u /\ sync'[job.from] = u
        BY <3>4, <2>2, <1>11 DEF RmAccount, StartOK, TypeOK, Files
      <3>. QED BY <3>5, <2>2, BeforeType DEF Reachable
    <2>. QED BY <2>3, <2>4
  <1>12. CASE RmSync
    <2>1. acc[job.to] = Nobody
      BY <1>12, <1>j DEF RmSync, At, AccOK, StartOK
    <2>. QED BY <2>1, <1>12, <1>0, <1>k DEF RmSync, TypeOK, Files, Reachable
  <1>13. CASE BackupsBack
    BY <1>13, <1>0 DEF BackupsBack, Reachable
  <1>14. CASE Crash
    BY <1>14, <1>0 DEF Crash, Reachable
  <1>15. CASE UNCHANGED vars
    BY <1>15, <1>0 DEF vars, Reachable
  <1>. QED
    BY <1>1, <1>2, <1>3, <1>4, <1>5, <1>6, <1>7, <1>8, <1>9, <1>10, <1>11, <1>12, <1>13,
       <1>14, <1>15 DEF Next

LEMMA Invariance == Spec => []IInv
  <1>1. Init => IInv
    BY DEF Init, IInv, TypeOK, JobOK, DataReachable, Files
  <1>2. IInv /\ [Next]_vars => IInv'
    BY TypeStep, JobStep, ReachableStep DEF IInv
  <1>. QED  BY <1>1, <1>2, PTL DEF Spec

\* Crashes at any point and failures of any operation take a user's sync data
\* out of reach only where the rollback of a failed last unlink removes it.
THEOREM DataStaysReachable == Spec => []DataReachable
  <1>1. IInv => DataReachable
    BY DEF IInv
  <1>. QED  BY <1>1, Invariance, PTL

\* A rollback that runs to its end restores every file but the old sync file, and
\* that one too unless the last operation had failed.
THEOREM RollbackRestoresAll == Spec => RollbackRestores
  <1>1. ASSUME IInv, BackupsBack
        PROVE  /\ acc' = job.before[1]
               /\ sync' = IF job.failed = "unlinkAccount"
                          THEN [job.before[2] EXCEPT ![job.from] = Nobody] ELSE job.before[2]
               /\ bak' = job.before[3]
    <2>1. job \in Job /\ StartOK /\ AccOK /\ SyncOK /\ BakOK
      BY <1>1 DEF BackupsBack, At, IInv, TypeOK, JobOK
    <2>2. acc' = AccBefore /\ sync' = SyncRestored
      BY <1>1, <2>1 DEF BackupsBack, At, AccOK, SyncOK
    <2>3. bak \in {BakBefore, BakMoved}
      BY <1>1, <2>1 DEF BackupsBack, At, BakOK, Rollback
    <2>4. bak' = BakBefore
      BY <1>1, <2>1, <2>3, BeforeType, FilesAssumption
         DEF BackupsBack, RenameBackups, StartOK, BakMoved, Files
    <2>. QED BY <2>2, <2>4 DEF AccBefore, SyncBefore, BakBefore, SyncRestored
  <1>. QED  BY <1>1, Invariance, PTL DEF Spec, RollbackRestores
=============================================================================
