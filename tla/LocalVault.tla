----------------------------- MODULE LocalVault ------------------------------
(***************************************************************************)
(* The local vault of the client (client/appservice.go): the key derived   *)
(* from the passphrase, which lives in AppService.localKey, and a file of  *)
(* records whose secrets are encrypted under it.  hosts.json and           *)
(* vault.json are treated alike; the model has one file.  The token and    *)
(* the automatic passphrase of sync.json, which are saved together, are    *)
(* one secret.                                                             *)
(*                                                                         *)
(* The methods of AppService are called from the user interface, each call *)
(* in a goroutine of its own.  Only some hold dataMu.  Each secret is      *)
(* encrypted or decrypted with the key that is in memory at that moment,   *)
(* so one step of a call is: reading the file, one secret, the key check,  *)
(* or writing the file.                                                    *)
(*                                                                         *)
(* A secret is known by the key it is encrypted under.                     *)
(***************************************************************************)
EXTENDS Naturals

CONSTANTS Records,     \* host and credential IDs
          Keys,        \* one key for each passphrase; the salt never changes
          Calls,       \* slots for running calls
          Ops,         \* the methods that are called
          NoKey, Blank, Plain, Absent, Idle, Nobody

VARIABLES key,    \* AppService.localKey
          file,   \* the records on disk
          conf,   \* the secret of sync.json
          mu,     \* who holds dataMu
          calls,  \* the local variables of running calls
          \* history, for the properties:
          disturbed,    \* the calls during which the key was changed or not verified yet
          overwritten,  \* the calls during which another wrote the file, one of the two
                        \* without dataMu
          mixed         \* a disturbed call wrote: the key need not open the file

vars == <<key, file, conf, mu, calls, disturbed, overwritten, mixed>>

LockedOps   == {"EncryptExisting", "Save", "Delete", "Export", "ImportLocal",
                "SyncLogin", "SaveSync"}
UnlockedOps == {"Unlock", "ImportKeyFile", "ImportSSHConfig", "SyncPush", "SyncPull"}

Secret  == {Blank, Plain} \cup Keys   \* none, in the clear, encrypted
Content == [Records -> Secret \cup {Absent}]

\* data is what the call has read or will write, read what the file held when
\* it read it, incoming what it merges; changes are the records it is meant to
\* replace.
Ctx == [op : LockedOps \cup UnlockedOps, pc : {"verify", "decrypt", "encrypt", "saveConf"},
        data : Content, read : Content, incoming : Content, changes : SUBSET Records]

ASSUME VaultAssumption ==
  /\ Ops \subseteq LockedOps \cup UnlockedOps
  /\ {NoKey, Blank, Plain, Absent} \cap Keys = {}
  /\ Blank # Plain /\ Blank # Absent /\ Plain # Absent
  /\ Idle \notin Ctx /\ Nobody \notin Calls

-----------------------------------------------------------------------------
Encrypted(data) == {r \in Records : data[r] \in Keys}

Nothing == [r \in Records |-> Absent]

KeysInUse == {file[r] : r \in Encrypted(file)} \cup ({conf} \cap Keys)

HasSecret(data, r) == data[r] \in Keys \cup {Plain}

Running(c, op) == calls[c] # Idle /\ calls[c].op = op

At(c, pc) == calls[c] # Idle /\ calls[c].pc = pc

\* Faulty variant: nobody takes dataMu.
StartUnlocked(c, op, pc, data, incoming, changes) ==
  /\ op \in Ops
  /\ calls[c] = Idle
  /\ calls' = [calls EXCEPT ![c] =
       [op |-> op, pc |-> pc, data |-> data,
        read |-> IF op \in LockedOps \cup {"SyncPush"} THEN file ELSE Nothing,
        incoming |-> incoming, changes |-> changes]]
  /\ UNCHANGED mu

\* A call starts with what it has read; the locking ones take dataMu.  SyncPull
\* does not read the file at all.
Start(c, op, pc, data, incoming, changes) ==
  /\ op \in Ops
  /\ calls[c] = Idle
  /\ op \in LockedOps => mu = Nobody
  /\ mu' = IF op \in LockedOps THEN c ELSE mu
  /\ calls' = [calls EXCEPT ![c] =
       [op |-> op, pc |-> pc, data |-> data,
        read |-> IF op \in LockedOps \cup {"SyncPush"} THEN file ELSE Nothing,
        incoming |-> incoming, changes |-> changes]]

Finish(c) ==
  /\ calls' = [calls EXCEPT ![c] = Idle]
  /\ mu' = IF mu = c THEN Nobody ELSE mu

\* All that is left to the call is to save the secret of sync.json.
ConfLeft(c) ==
  /\ calls' = [calls EXCEPT ![c] =
       [@ EXCEPT !.pc = "saveConf", !.data = Nothing, !.read = Nothing,
                 !.incoming = Nothing, !.changes = {}]]
  /\ UNCHANGED mu

-----------------------------------------------------------------------------
(* The key *)

\* LocalVaultUnlock, alone or at the start of LocalVaultEncryptExisting, sets
\* the key before it is verified.
Unlock(c, op, k) ==
  /\ op \in {"Unlock", "EncryptExisting"}
  /\ Start(c, op, "verify", Nothing, Nothing, {})
  /\ key' = k
  /\ UNCHANGED <<file, conf>>

\* Faulty variant: the wrong key stays.
VerifyKeepsKey(c) ==
  /\ At(c, "verify")
  /\ IF Running(c, "Unlock") THEN Finish(c)
     ELSE /\ calls' = [calls EXCEPT ![c].pc = "encrypt", ![c].data = file, ![c].read = file]
          /\ UNCHANGED mu
  /\ UNCHANGED <<key, file, conf>>

\* One encrypted value is tried: that of sync.json, or the first in the file.
Tried == IF conf \in Keys THEN {conf} ELSE KeysInUse

Verify(c) ==
  /\ At(c, "verify")
  /\ \/ /\ Tried = {} \/ key \in Tried
        /\ IF Running(c, "Unlock") THEN Finish(c)
           ELSE /\ calls' = [calls EXCEPT ![c].pc = "encrypt", ![c].data = file,
                                          ![c].read = file]
                /\ UNCHANGED mu
        /\ UNCHANGED key
     \/ /\ \E v \in Tried : v # key
        /\ Finish(c)
        /\ key' = NoKey
  /\ UNCHANGED <<file, conf>>

LocalVaultLock(c) ==
  /\ calls[c] = Idle
  /\ key' = NoKey
  /\ UNCHANGED <<file, conf, mu, calls>>

-----------------------------------------------------------------------------
(* Calls that read the file and write it back *)

\* Faulty variant: a field that is left empty is saved as empty.
SaveBlanks(c, r, withSecret, switches) ==
  /\ Start(c, "Save", "encrypt",
           [file EXCEPT ![r] = IF withSecret THEN Plain ELSE Blank], Nothing,
           IF withSecret \/ switches THEN {r} ELSE {})
  /\ UNCHANGED <<key, file, conf>>

\* SaveHost and SaveVault: the renderer never sees a secret, an empty field
\* keeps the stored one, unless the host switches to another protocol.
Save(c, r, withSecret, switches) ==
  /\ Start(c, "Save", "encrypt",
           [file EXCEPT ![r] = IF withSecret THEN Plain
                               ELSE IF @ = Absent \/ switches THEN Blank ELSE @],
           Nothing, IF withSecret \/ switches THEN {r} ELSE {})
  /\ UNCHANGED <<key, file, conf>>

\* DeleteHost and DeleteVault
Delete(c, r) ==
  /\ Start(c, "Delete", "encrypt", [file EXCEPT ![r] = Absent], Nothing, {r})
  /\ UNCHANGED <<key, file, conf>>

\* ImportVaultKeyFile puts the key of a file into a credential that is there.
ImportVaultKeyFile(c, r) ==
  /\ file[r] # Absent
  /\ Start(c, "ImportKeyFile", "encrypt", [file EXCEPT ![r] = Plain], Nothing, {r})
  /\ UNCHANGED <<key, file, conf>>

\* What ListHosts returns: no record has a secret.
sanitized(data) == [r \in Records |-> IF data[r] = Absent THEN Absent ELSE Blank]

\* ImportSSHConfig appends to what ListHosts returns.
ImportSSHConfig(c, new) ==
  /\ new # {} /\ \A r \in new : file[r] = Absent
  /\ Start(c, "ImportSSHConfig", "encrypt",
           [r \in Records |-> IF r \in new THEN Blank ELSE sanitized(file)[r]], Nothing, {})
  /\ UNCHANGED <<key, file, conf>>

\* Locked while something is encrypted.
Locked == key = NoKey /\ KeysInUse # {}

Incoming == {data \in [Records -> {Absent, Blank, Plain}] : \E r \in Records : data[r] # Absent}

ImportLocalData(c, incoming, replace) ==
  /\ ~Locked
  /\ LET changes == {r \in Records : replace \/ incoming[r] # Absent}
     IN  Start(c, "ImportLocal", IF replace THEN "encrypt" ELSE "decrypt",
               IF replace THEN incoming ELSE file,
               IF replace THEN Nothing ELSE incoming, changes)
  /\ UNCHANGED <<key, file, conf>>

\* What a sync asks of the vault is only its own token.
ConfOpens == conf = Plain \/ (conf \in Keys /\ conf = key)

\* The payload comes from the server; the file is not read at all.
SyncPull(c, incoming) ==
  /\ ConfOpens
  /\ Start(c, "SyncPull", "encrypt", incoming, Nothing, Records)
  /\ UNCHANGED <<key, file, conf>>

-----------------------------------------------------------------------------
(* Calls that only read *)

\* Faulty variant: neither the status of the vault nor the token is asked.
ExportAnyway(c, op) ==
  /\ op \in {"Export", "SyncPush"}
  /\ Start(c, op, "decrypt", file, Nothing, {})
  /\ UNCHANGED <<key, file, conf>>

\* ExportLocalData asks the status of the vault; SyncPush decrypts its token.
Export(c, op) ==
  /\ \/ op = "Export" /\ ~Locked
     \/ op = "SyncPush" /\ ConfOpens
  /\ Start(c, op, "decrypt", file, Nothing, {})
  /\ UNCHANGED <<key, file, conf>>

\* listHostsDecrypted drops the error of a secret it cannot decrypt, and what
\* is left of the record has none.
DecryptOne(c, r) ==
  /\ At(c, "decrypt") /\ calls[c].data[r] \in Keys
  /\ calls' = [calls EXCEPT ![c].data[r] = IF @ = key THEN Plain ELSE Blank]
  /\ UNCHANGED <<key, file, conf, mu>>

Decrypted(c) == At(c, "decrypt") /\ Encrypted(calls[c].data) = {}

\* The export is written, or the payload sent; an upload may fail, and does
\* when there are no records.
Exported(c) ==
  /\ Decrypted(c)
  /\ \/ (Running(c, "Export") \/ Running(c, "SyncPush")) /\ Finish(c)
     \/ Running(c, "SyncPush") /\ calls[c].data # Nothing /\ ConfLeft(c)
  /\ UNCHANGED <<key, file, conf>>

\* mergeHosts: an incoming record replaces the whole one it matches.
Merge(c) ==
  /\ Decrypted(c)
  /\ Running(c, "ImportLocal")
  /\ calls' = [calls EXCEPT
       ![c].pc = "encrypt", ![c].incoming = Nothing,
       ![c].data = [r \in Records |-> IF calls[c].incoming[r] # Absent
                                      THEN calls[c].incoming[r] ELSE @[r]]]
  /\ UNCHANGED <<key, file, conf, mu>>

-----------------------------------------------------------------------------
(* writeHostsRaw *)

\* Faulty variant: a locked vault writes the secret as it is.
EncryptOneOrPlain(c, r) ==
  /\ At(c, "encrypt") /\ calls[c].data[r] = Plain
  /\ calls' = [calls EXCEPT ![c].data[r] = key]
  /\ UNCHANGED <<key, file, conf, mu>>

EncryptOne(c, r) ==
  /\ At(c, "encrypt") /\ calls[c].data[r] = Plain
  /\ key # NoKey
  /\ calls' = [calls EXCEPT ![c].data[r] = key]
  /\ UNCHANGED <<key, file, conf, mu>>

\* A secret to encrypt and the vault is locked: the call returns the error.
EncryptFails(c) ==
  /\ At(c, "encrypt") /\ key = NoKey
  /\ \E r \in Records : calls[c].data[r] = Plain
  /\ Finish(c)
  /\ UNCHANGED <<key, file, conf>>

\* SyncPull and LocalVaultEncryptExisting then save sync.json.
Write(c) ==
  /\ At(c, "encrypt")
  /\ \A r \in Records : calls[c].data[r] # Plain
  /\ file' = calls[c].data
  /\ IF Running(c, "SyncPull") \/ Running(c, "EncryptExisting") THEN ConfLeft(c) ELSE Finish(c)
  /\ UNCHANGED <<key, conf>>

-----------------------------------------------------------------------------
(* sync.json *)

\* With a new token, from SyncLogin or the form, or with what is stored.
SaveSyncConfig(c, op) ==
  /\ op \in {"SyncLogin", "SaveSync"}
  /\ Start(c, op, "saveConf", Nothing, Nothing, {})
  /\ UNCHANGED <<key, file, conf>>

\* saveSyncConfigRaw, under dataMu, for every method that saves sync.json: a
\* token that the call brings, or one that is stored in the clear, is encrypted;
\* while the vault is locked nothing is written.
SaveConf(c) ==
  /\ At(c, "saveConf")
  /\ mu \in {c, Nobody}
  /\ conf' = IF key # NoKey /\ (conf = Plain \/ calls[c].op \in {"SyncPush", "SyncPull", "SyncLogin"})
             THEN key ELSE conf
  /\ Finish(c)
  /\ UNCHANGED <<key, file>>

\* The program ends and is started again.
Restart ==
  /\ key' = NoKey
  /\ mu' = Nobody
  /\ calls' = [c \in Calls |-> Idle]
  /\ UNCHANGED <<file, conf>>

-----------------------------------------------------------------------------
\* Older versions left secrets in the clear.
Init ==
  /\ key = NoKey
  /\ file \in [Records -> {Absent, Blank, Plain}]
  /\ conf \in {Blank, Plain}
  /\ mu = Nobody
  /\ calls = [c \in Calls |-> Idle]
  /\ disturbed = {} /\ overwritten = {} /\ mixed = FALSE

\* What the history keeps of a step: it belongs to one call, and concerns those
\* that were running and still are.
Remember ==
  LET going   == {c \in Calls : calls[c] # Idle /\ calls'[c] # Idle}
      writers == {c \in Calls : /\ calls[c] # Idle /\ calls'[c] # calls[c]
                                /\ file' # file \/ conf' # conf}
  IN  /\ disturbed' =
           {c \in going : c \in disturbed \/ (key' # key /\ calls' = calls)}
             \cup {c \in Calls : calls'[c] # Idle /\ \E d \in Calls \ {c} : At(d, "verify")'}
      /\ overwritten' =
           {c \in going : \/ c \in overwritten
                          \/ /\ file' # file
                             /\ \E d \in writers \ {c} : \/ calls[d].op \in UnlockedOps
                                                        \/ calls[c].op \in UnlockedOps}
      /\ mixed' = (mixed \/ writers \cap disturbed # {})

StartNext(c) ==
  \/ \E op \in Ops, k \in Keys : Unlock(c, op, k) /\ Remember
  \/ LocalVaultLock(c) /\ Remember
  \/ \E r \in Records, withSecret, switches \in BOOLEAN :
       Save(c, r, withSecret, switches) /\ Remember
  \/ \E r \in Records : (Delete(c, r) \/ ImportVaultKeyFile(c, r)) /\ Remember
  \/ \E new \in SUBSET Records : ImportSSHConfig(c, new) /\ Remember
  \/ \E incoming \in Incoming, replace \in BOOLEAN :
       ImportLocalData(c, incoming, replace) /\ Remember
  \/ \E incoming \in Incoming : SyncPull(c, incoming) /\ Remember
  \/ \E op \in Ops : (Export(c, op) \/ SaveSyncConfig(c, op)) /\ Remember

ContinueNext(c) ==
  \/ Verify(c) /\ Remember
  \/ \E r \in Records : (DecryptOne(c, r) \/ EncryptOne(c, r)) /\ Remember
  \/ Exported(c) /\ Remember
  \/ Merge(c) /\ Remember
  \/ EncryptFails(c) /\ Remember
  \/ Write(c) /\ Remember
  \/ SaveConf(c) /\ Remember

Next ==
  \/ \E c \in Calls : calls[c] = Idle /\ StartNext(c)
  \/ \E c \in Calls : calls[c] # Idle /\ ContinueNext(c)
  \/ Restart /\ Remember

Spec == Init /\ [][Next]_vars

-----------------------------------------------------------------------------
(* Properties *)

\* The file only ever holds records with no secret, a secret left in the clear
\* by an older version, or one encrypted under a real key.
TypeOK ==
  /\ key \in Keys \cup {NoKey}
  /\ file \in Content
  /\ conf \in Secret
  /\ mu \in Calls \cup {Nobody}
  /\ calls \in [Calls -> Ctx \cup {Idle}]
  /\ disturbed \subseteq Calls /\ overwritten \subseteq Calls /\ mixed \in BOOLEAN

\* "verify against first encrypted value, if present" (appservice.go:1003): one
\* value decides, so all of them, the token of sync.json included, must be encrypted
\* under one key.  They are, unless a call wrote during which another one put a key
\* in service or took it away.
OneKey == ~mixed => \A k, l \in KeysInUse : k = l

\* "vor Export entsperren, sonst fehlen Tresor-Secrets" (appservice.go:3481): an
\* export or upload that succeeds has every secret of the file, with the same
\* exception, and unless the key was changed while it ran.  An upload asks for
\* nothing but its own token; left out is the one whose token an older version
\* left in the clear, which goes through with a locked vault, without the secrets.
ExportComplete ==
  [][\A c \in Calls \ disturbed :
       (Exported(c) /\ ~mixed /\ ~(Running(c, "SyncPush") /\ conf = Plain /\ key = NoKey)) =>
         \A r \in Records : HasSecret(calls[c].read, r) => calls[c].data[r] = Plain]_vars

\* What ExportComplete says without the exception for uploads, of which the message
\* quoted there (appservice.go:3481) would be true as well.  It is false.
UploadComplete ==
  [][\A c \in Calls \ disturbed : (Exported(c) /\ ~mixed) =>
       \A r \in Records : HasSecret(calls[c].read, r) => calls[c].data[r] = Plain]_vars

\* A secret disappears from the file only in the write of a call that was to
\* replace or delete its record or to save it for another protocol, of
\* ImportSSHConfig, of an import that merged with a key that does not open the
\* file, or of one that had read it before another write.
SecretsKept ==
  [][\A r \in Records : (HasSecret(file, r) /\ ~HasSecret(file', r)) =>
       \E c \in Calls :
         /\ Write(c)
         /\ \/ r \in calls[c].changes
            \/ Running(c, "ImportSSHConfig")
            \/ Running(c, "ImportLocal") /\ (mixed \/ c \in disturbed)
            \/ c \in overwritten]_vars

\* "Export- und Importpfade behandeln Secrets vorsichtiger." (changelog.md:140):
\* an import keeps the secrets of the hosts that are there.
ImportKeepsSecrets ==
  [][\A c \in Calls, r \in Records :
       (Write(c) /\ Running(c, "ImportSSHConfig") /\ HasSecret(file, r)) => HasSecret(file', r)]_vars

\* A call that holds dataMu writes over the file it has read, unless a sync or an
\* import of an SSH config, which take no mutex, wrote in between.
LockedWritesFresh ==
  [][\A c \in Calls \ overwritten :
       (Write(c) /\ calls[c].op \in LockedOps) => file = calls[c].read]_vars
=============================================================================
