------------------------------ MODULE SyncStore ------------------------------
(***************************************************************************)
(* The sync data of server/server.mjs: for each account one file with the  *)
(* newest encrypted blob and a directory of backups, one for each version  *)
(* that was overwritten.  Only sizes are kept: a blob is its size, which   *)
(* stands for the ciphertext length of the guards and for the file size of *)
(* the quotas, and 0 is "no file".  The handlers run up to their await of  *)
(* the body (PutBegin) and then to their end in one go, so PUTs of the     *)
(* same account overlap.                                                   *)
(***************************************************************************)
EXTENDS Naturals, SequencesExt

CONSTANTS Accounts,
          Requests,       \* slots for PUTs that wait for their body
          Idle,           \* a free slot
          Sizes,          \* sizes of blobs
          MinCipher,      \* smallest ciphertext accepted over existing data
          ShrinkFrom,     \* existing size from which shrinking is guarded
          MaxBackups,     \* SSH_VAULT2_SYNC_BACKUP_MAX_COUNT
          MaxBackupBytes, \* SSH_VAULT2_SYNC_BACKUP_BYTES_MAX, 0 for no limit
          MaxAccount,     \* SSH_VAULT2_SYNC_ACCOUNT_BYTES_MAX
          MaxGlobal,      \* SSH_VAULT2_SYNC_GLOBAL_BYTES_MAX
          MaxLitter       \* bound on what interrupted writes leave behind

VARIABLES file,     \* size of sync/<account>.json
          backups,  \* sizes in sync-backups/<account>/, by name: oldest first
          stamped,  \* accounts whose newest backup is named after this millisecond
          reqs,     \* PUTs between reading the file and having the body
          litter,   \* bytes of temporary files whose rename never happened
          torn      \* accounts with a write interrupted and none completed since

vars == <<file, backups, stamped, reqs, litter, torn>>

\* What the headers say of the payload: host and vault counts, both 0, or that
\* an empty payload is meant.
Counts == {"some", "none", "allow-empty"}

PutCtx == [account : Accounts, current : Sizes \cup {0}, allowShrink : BOOLEAN]

ASSUME SizesAssumption ==
  /\ Sizes \subseteq Nat \ {0}
  /\ MaxBackups \in Nat \ {0}
  /\ {MinCipher, ShrinkFrom, MaxBackupBytes, MaxAccount, MaxGlobal, MaxLitter} \subseteq Nat
  /\ Idle \notin PutCtx

\* readBody limits a body, so there is a largest size.
ASSUME StoreAssumption ==
  /\ IsFiniteSet(Accounts)
  /\ \E s \in Sizes : \A t \in Sizes : t <= s

-----------------------------------------------------------------------------
(* Retention and quotas *)

Bytes(bs) == FoldSeq(+, 0, bs)

\* Faulty variants, here and below, for the mutation checks: the byte limit is
\* tested before the entry is counted; the oldest entries win; a
\* backup is taken to be there after a copy.
FitsOff(size, kept) ==
  MaxBackupBytes = 0 \/ Bytes(kept) <= MaxBackupBytes

\* retainedBackupEntries passes over an entry that does not fit.
Fits(size, kept) ==
  MaxBackupBytes = 0 \/ Bytes(kept) + size <= MaxBackupBytes

retainedOldest(bs) ==
  LET oldest == SubSeq(bs, 1, IF Len(bs) < MaxBackups THEN Len(bs) ELSE MaxBackups)
  IN  FoldLeft(LAMBDA kept, size : IF Fits(size, kept) THEN Append(kept, size) ELSE kept,
               <<>>, oldest)

\* The newest MaxBackups entries, of which the newest that fit.
retainedBackupEntries(bs) ==
  LET newest == SubSeq(bs, IF Len(bs) > MaxBackups THEN Len(bs) - MaxBackups + 1 ELSE 1,
                       Len(bs))
  IN  FoldRight(LAMBDA size, kept : IF Fits(size, kept) THEN <<size>> \o kept ELSE kept,
                newest, <<>>)

\* retainedBackupEntries sorts with localeCompare, and "~pending-new-backup.json"
\* comes before the time stamps there: the pending entry counts as the oldest.
projectedBackupBytes(a) ==
  Bytes(retainedBackupEntries(IF file[a] > 0 THEN <<file[a]>> \o backups[a]
                                             ELSE backups[a]))

AccountBytes(a) == file[a] + Bytes(backups[a])

\* What dirBytes finds outside the account's own file and backups.
otherBytes(a) == litter + SumFunction([b \in Accounts \ {a} |-> AccountBytes(b)])

\* Faulty variant: the global limit only sees the account's own data.
enforceAccountQuotaOnly(a, size) == size + projectedBackupBytes(a) <= MaxAccount

enforceSyncStorageQuota(a, size) ==
  LET accountProjected == size + projectedBackupBytes(a) IN
  /\ accountProjected <= MaxAccount
  /\ otherBytes(a) + accountProjected <= MaxGlobal

\* backupSyncFile names the copy after the current millisecond: a second backup
\* in the same one replaces the first.
copied(a) ==
  Append(IF a \in stamped THEN Front(backups[a]) ELSE backups[a], file[a])

backupTaken(a) == file[a] > 0

backupKept(a) == file[a] > 0 /\ Fits(file[a], <<>>)

\* backupSyncFile with its pruneSyncBackups.
backupSyncFile(a) ==
  IF file[a] = 0 THEN UNCHANGED <<backups, stamped>>
  ELSE /\ backups' = [backups EXCEPT ![a] = retainedBackupEntries(copied(a))]
       /\ stamped' = IF backupKept(a) THEN stamped \cup {a} ELSE stamped \ {a}

writeSyncRecord(a, size) ==
  /\ enforceSyncStorageQuota(a, size)
  /\ backupSyncFile(a)
  /\ file' = [file EXCEPT ![a] = size]
  /\ torn' = torn \ {a}
  /\ UNCHANGED litter

\* writeSyncRecord stopped by a full disk or a crash: after the copy, before the
\* prune; or with the temporary file written but not renamed.
writeSyncRecordInterrupted(a, size) ==
  /\ enforceSyncStorageQuota(a, size)
  /\ torn' = torn \cup {a}
  /\ \/ /\ file[a] > 0
        /\ Len(backups[a]) <= MaxBackups
        /\ backups' = [backups EXCEPT ![a] = copied(a)]
        /\ stamped' = stamped \cup {a}
        /\ UNCHANGED litter
     \/ /\ backupSyncFile(a)
        /\ litter + size <= MaxLitter
        /\ litter' = litter + size
  /\ UNCHANGED file

-----------------------------------------------------------------------------
Init ==
  /\ file = [a \in Accounts |-> 0]
  /\ backups = [a \in Accounts |-> <<>>]
  /\ stamped = {}
  /\ reqs = [r \in Requests |-> Idle]
  /\ litter = 0
  /\ torn = {}

Finish(r) == reqs' = [reqs EXCEPT ![r] = Idle]

TooMuchSmaller(old, new) == old >= ShrinkFrom /\ new < old \div 2

\* handleSync up to the await: the file is read.
PutBegin(r, a, allowShrink) ==
  /\ reqs[r] = Idle
  /\ reqs' = [reqs EXCEPT ![r] = [account |-> a, current |-> file[a],
                                  allowShrink |-> allowShrink]]
  /\ UNCHANGED <<file, backups, stamped, litter, torn>>

\* The guards against a client that lost its data, on the file as it was.
overwriteAllowed(c, counts, size) ==
  /\ (c.current > 0 /\ counts # "allow-empty") => (counts = "some" /\ size >= MinCipher)
  /\ TooMuchSmaller(c.current, size) => c.allowShrink

PutEnd(r, counts, size) ==
  /\ reqs[r] # Idle
  /\ overwriteAllowed(reqs[r], counts, size)
  /\ writeSyncRecord(reqs[r].account, size)
  /\ Finish(r)

PutInterrupted(r, counts, size) ==
  /\ reqs[r] # Idle
  /\ overwriteAllowed(reqs[r], counts, size)
  /\ writeSyncRecordInterrupted(reqs[r].account, size)
  /\ Finish(r)

\* Rejected, or the client never completes its body.
PutFails(r) ==
  /\ reqs[r] # Idle
  /\ Finish(r)
  /\ UNCHANGED <<file, backups, stamped, litter, torn>>

\* POST /api/v1/self/import reads the file after the await.
importOwnData(a, size, allowShrink) ==
  /\ size >= MinCipher
  /\ TooMuchSmaller(file[a], size) => allowShrink
  /\ writeSyncRecord(a, size) \/ writeSyncRecordInterrupted(a, size)
  /\ UNCHANGED reqs

\* Deleting the data, by the user or with the account.
deleteSyncData(a) ==
  /\ file' = [file EXCEPT ![a] = 0]
  /\ backups' = [backups EXCEPT ![a] = <<>>]
  /\ stamped' = stamped \ {a}
  /\ torn' = torn \ {a}
  /\ UNCHANGED <<reqs, litter>>

\* The sync part of moveAccountEmail.
moveSyncData(a, b) ==
  LET moved(S) == IF a \in S THEN (S \ {a}) \cup {b} ELSE S IN
  /\ a # b /\ file[b] = 0 /\ backups[b] = <<>>
  /\ file' = [file EXCEPT ![a] = 0, ![b] = file[a]]
  /\ backups' = [backups EXCEPT ![a] = <<>>, ![b] = backups[a]]
  /\ stamped' = moved(stamped)
  /\ torn' = moved(torn)
  /\ UNCHANGED <<reqs, litter>>

\* The next millisecond.
Tick ==
  /\ stamped # {}
  /\ stamped' = {}
  /\ UNCHANGED <<file, backups, reqs, litter, torn>>

Restart ==
  /\ reqs' = [r \in Requests |-> Idle]
  /\ UNCHANGED <<file, backups, stamped, litter, torn>>

Next ==
  \/ \E r \in Requests :
       \/ \E a \in Accounts, allowShrink \in BOOLEAN : PutBegin(r, a, allowShrink)
       \/ \E counts \in Counts, size \in Sizes :
            PutEnd(r, counts, size) \/ PutInterrupted(r, counts, size)
       \/ PutFails(r)
  \/ \E a \in Accounts, size \in Sizes, allowShrink \in BOOLEAN :
       importOwnData(a, size, allowShrink)
  \/ \E a \in Accounts : deleteSyncData(a)
  \/ \E a, b \in Accounts : moveSyncData(a, b)
  \/ Tick
  \/ Restart

Spec == Init /\ [][Next]_vars

-----------------------------------------------------------------------------
(* Properties *)

\* Sizes are sizes of blobs and the newest backup of a stamped account exists.
TypeOK ==
  /\ file \in [Accounts -> Sizes \cup {0}]
  /\ backups \in [Accounts -> Seq(Sizes)]
  /\ stamped \in SUBSET {a \in Accounts : backups[a] # <<>>}
  /\ reqs \in [Requests -> PutCtx \cup {Idle}]
  /\ litter \in 0..MaxLitter
  /\ torn \in SUBSET Accounts

\* The limits on number and bytes of backups hold whenever the account's last
\* write was completed: a backup taken between a copy and a crash is pruned by
\* the next one.
RetentionHolds ==
  \A a \in Accounts \ torn :
    /\ Len(backups[a]) <= MaxBackups
    /\ MaxBackupBytes > 0 => Bytes(backups[a]) <= MaxBackupBytes

\* A version that is overwritten is the newest backup afterwards, unless it
\* alone exceeds the byte limit: whichever request overwrites it, in the same
\* millisecond or after interrupted writes.
PreviousVersionKept ==
  [][\A a \in Accounts :
       (file[a] > 0 /\ file'[a] > 0 /\ file'[a] # file[a] /\ Fits(file[a], <<>>))
         => (backups'[a] # <<>> /\ Last(backups'[a]) = file[a])]_vars

LargestSize == CHOOSE s \in Sizes : \A t \in Sizes : t <= s

\* With the pending backup sorted as the oldest, a quota can be exceeded, but
\* only by the version that was overwritten last.
QuotasExceededByOneVersion ==
  /\ \A a \in Accounts \ torn : AccountBytes(a) <= MaxAccount + LargestSize
  /\ torn = {} =>
       litter + SumFunction([a \in Accounts |-> AccountBytes(a)]) <= MaxGlobal + LargestSize

(* What the tests and messages promise, and the code does not keep. *)

\* "sync write enforces per-account quota" (server.test.mjs:174).
AccountWithinQuota ==
  \A a \in Accounts \ torn : AccountBytes(a) <= MaxAccount

\* "sync overwrite rejected: new encrypted payload is much smaller than existing
\* server payload" (server.mjs:697) unless the client consents.
ShrinkNeedsConsent ==
  [][\A r \in Requests :
       (reqs[r] # Idle /\ reqs'[r] = Idle /\ ~reqs[r].allowShrink)
         => LET a == reqs[r].account IN
            file'[a] > 0 => ~TooMuchSmaller(file[a], file'[a])]_vars
=============================================================================
