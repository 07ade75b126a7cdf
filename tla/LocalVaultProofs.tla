-------------------------- MODULE LocalVaultProofs ---------------------------
(***************************************************************************)
(* The vault keeps all secrets under one key, exports are complete         *)
(* (uploads as far as ExportComplete goes), calls with dataMu write over   *)
(* what they have read, and secrets are lost in the cases that             *)
(* SecretsKept names only, for any number of records, keys and             *)
(* overlapping calls.                                                      *)
(***************************************************************************)
EXTENDS LocalVault, TLAPS

Verifying(c) == At(c, "verify")

Working(c) == At(c, "decrypt") \/ At(c, "encrypt")

\* A call that no key change and no verification by another one has disturbed.
Calm(c) == calls[c] # Idle /\ c \notin disturbed

AllUnder(data, k) == \A r \in Encrypted(data) : data[r] = k

ConfUnder(k) == conf \in Keys => conf = k

\* The file, the secret of sync.json, what undisturbed calls have in hand, and a key that
\* is not being verified go together.
Under(k) ==
  /\ AllUnder(file, k)
  /\ ConfUnder(k)
  /\ \A c \in Calls : (Calm(c) /\ ~Verifying(c)) => AllUnder(calls[c].data, k)
  /\ (key # NoKey /\ \A c \in Calls : ~Verifying(c)) => key = k

OneKeyEverywhere == mixed \/ \E k : Under(k)

Decrypts(c) == calls[c].op \in {"Export", "SyncPush", "ImportLocal"}

Exports(c) == calls[c].op \in {"Export", "SyncPush"}

\* An upload of a locked vault, with a token in the clear.
Unasked(c) == calls[c].op = "SyncPush" /\ conf = Plain /\ key = NoKey

\* Where a call is: what is done at each of its points by which methods.
PointOK(c) ==
  calls[c] # Idle =>
    /\ Verifying(c) => calls[c].op \in {"Unlock", "EncryptExisting"}
    /\ At(c, "decrypt") => Decrypts(c)
    /\ At(c, "encrypt") => ~Exports(c) /\ calls[c].op # "Unlock"

\* dataMu, and the file as it was when a call that holds it has read it.
MutexOK(c) ==
  (calls[c] # Idle /\ calls[c].op \in LockedOps) =>
    /\ mu = c
    /\ (c \notin overwritten /\ Working(c)) => calls[c].read = file

\* A call is disturbed while another one verifies a key.
DisturbedOK(c) ==
  (calls[c] # Idle /\ \E d \in Calls \ {c} : Verifying(d)) => c \in disturbed

\* What is imported is in the clear, and is about the records that are to change.
IncomingOK(c) ==
  calls[c] # Idle =>
    \A r \in Records :
      /\ calls[c].incoming[r] \notin Keys
      /\ calls[c].incoming[r] # Absent => r \in calls[c].changes

\* An undisturbed call decrypts with the key of the file, or has nothing to decrypt.
OpenOK(c) ==
  (Calm(c) /\ ~mixed /\ At(c, "decrypt") /\ ~Unasked(c) /\ key = NoKey) =>
    Encrypted(calls[c].data) = {}

\* An undisturbed export has had every secret.
ExportOK(c) ==
  (Calm(c) /\ ~mixed /\ Exports(c) /\ At(c, "decrypt") /\ ~Unasked(c)) =>
    \A r \in Records : HasSecret(calls[c].read, r) => HasSecret(calls[c].data, r)

\* What a call is going to write has the secrets of the file.
KeepsOK(c) ==
  (/\ calls[c] # Idle /\ c \notin overwritten /\ Working(c)
   /\ ~Exports(c) /\ calls[c].op # "ImportSSHConfig"
   /\ calls[c].op = "ImportLocal" => c \notin disturbed /\ ~mixed) =>
    \A r \in Records \ calls[c].changes :
      HasSecret(file, r) => HasSecret(calls[c].data, r)

CallOK(c) ==
  /\ PointOK(c) /\ MutexOK(c) /\ DisturbedOK(c) /\ IncomingOK(c)
  /\ OpenOK(c) /\ ExportOK(c) /\ KeepsOK(c)

IInv == TypeOK /\ OneKeyEverywhere /\ \A c \in Calls : CallOK(c)

-----------------------------------------------------------------------------
(* What a step of one call means for the others *)

\* A step of c leaves the other calls as they are, and they are disturbed, or have been
\* written over, where that matters.
Frame(c) ==
  /\ \A d \in Calls \ {c} :
       /\ calls'[d] = calls[d]
       /\ mu = d => mu' = d
       /\ (calls[d] # Idle /\ d \notin disturbed') =>
            /\ d \notin disturbed /\ key' = key
            /\ \A e \in Calls \ {d} : ~Verifying(e)'
       /\ (calls[d] # Idle /\ d \notin overwritten') =>
            /\ d \notin overwritten
            /\ \/ file' = file
               \/ calls[c] # Idle /\ {calls[c].op, calls[d].op} \subseteq LockedOps
  /\ mixed => mixed'
  /\ (file' # file \/ conf' # conf) => mixed' \/ (calls[c] # Idle /\ c \notin disturbed)
  /\ conf' # conf => key # NoKey

\* What Remember does to the history of a call.
LEMMA Remembered ==
  ASSUME Remember
  PROVE  /\ \A d \in Calls : (calls[d] # Idle /\ calls'[d] # Idle) =>
              /\ d \in disturbed => d \in disturbed'
              /\ (key' # key /\ calls' = calls) => d \in disturbed'
              /\ d \in overwritten => d \in overwritten'
         /\ \A d \in Calls, e \in Calls :
              (calls'[d] # Idle /\ e # d /\ Verifying(e)') => d \in disturbed'
         /\ \A d \in Calls, e \in Calls :
              (/\ calls[d] # Idle /\ calls'[d] # Idle
               /\ e # d /\ calls[e] # Idle /\ calls'[e] # calls[e] /\ file' # file
               /\ calls[e].op \in UnlockedOps \/ calls[d].op \in UnlockedOps) => d \in overwritten'
         /\ mixed => mixed'
         /\ \A e \in Calls :
              (/\ calls[e] # Idle /\ calls'[e] # calls[e]
               /\ file' # file \/ conf' # conf
               /\ e \in disturbed) => mixed'
  BY DEF Remember, Verifying

LEMMA FrameFrom ==
  ASSUME IInv, Remember, NEW c \in Calls,
         \A d \in Calls \ {c} : calls'[d] = calls[d] /\ (mu = d => mu' = d),
         key' = key \/ Verifying(c) \/ Verifying(c)' \/ calls' = calls,
         (file' = file /\ conf' = conf) \/ (calls[c] # Idle /\ calls'[c] # calls[c]),
         conf' = conf \/ key # NoKey
  PROVE  Frame(c)
<1>1. ASSUME NEW d \in Calls \ {c}, calls[d] # Idle, d \notin disturbed'
      PROVE  d \notin disturbed /\ key' = key /\ \A e \in Calls \ {d} : ~Verifying(e)'
  <2>1. d \notin disturbed /\ \A e \in Calls \ {d} : ~Verifying(e)'
    BY <1>1, Remembered
  <2>2. DisturbedOK(d)
    BY DEF IInv, CallOK
  <2>3. ~Verifying(c)
    BY <1>1, <2>1, <2>2 DEF DisturbedOK
  <2>4. ~(key' # key /\ calls' = calls)
    BY <1>1, Remembered
  <2> QED BY <2>1, <2>3, <2>4
<1>2. ASSUME NEW d \in Calls \ {c}, calls[d] # Idle, d \notin overwritten'
      PROVE  /\ d \notin overwritten
             /\ \/ file' = file
                \/ calls[c] # Idle /\ {calls[c].op, calls[d].op} \subseteq LockedOps
  <2>1. d \notin overwritten
    BY <1>2, Remembered
  <2>2. ASSUME file' # file
        PROVE  calls[c] # Idle /\ {calls[c].op, calls[d].op} \subseteq LockedOps
    <3>1. calls[c].op \notin UnlockedOps /\ calls[d].op \notin UnlockedOps
      BY <1>2, <2>2, Remembered
    <3>2. calls[c] \in Ctx /\ calls[d] \in Ctx
      BY <1>2, <2>2 DEF IInv, TypeOK
    <3> QED BY <2>2, <3>1, <3>2 DEF Ctx
  <2> QED BY <2>1, <2>2
<1>3. mixed => mixed'
  BY Remembered
<1>4. (file' # file \/ conf' # conf) => mixed' \/ (calls[c] # Idle /\ c \notin disturbed)
  BY Remembered
<1> QED BY <1>1, <1>2, <1>3, <1>4 DEF Frame

\* Every other call stays as it should be.
LEMMA OtherCalls ==
  ASSUME IInv, NEW c \in Calls, Frame(c), NEW d \in Calls \ {c}
  PROVE  CallOK(d)'
<1>1. CallOK(d) /\ calls'[d] = calls[d] /\ (mixed => mixed')
  BY DEF IInv, Frame
<1>2. PointOK(d)' /\ IncomingOK(d)'
  BY <1>1 DEF CallOK, PointOK, IncomingOK, Verifying, At, Decrypts, Exports
<1>3. ASSUME calls[d] # Idle, calls[d].op \in LockedOps, d \notin overwritten'
      PROVE  file' = file /\ d \notin overwritten
  <2>1. mu = d
    BY <1>1, <1>3 DEF CallOK, MutexOK
  <2>2. (calls[c] # Idle /\ calls[c].op \in LockedOps) => mu = c
    BY DEF IInv, CallOK, MutexOK
  <2> QED BY <1>3, <2>1, <2>2 DEF Frame
<1>4. MutexOK(d)'
  BY <1>1, <1>3 DEF CallOK, MutexOK, Frame, Working, At
<1>5. DisturbedOK(d)'
  BY <1>1 DEF DisturbedOK, Frame
<1>6. OpenOK(d)' /\ ExportOK(d)'
  <2>1. ASSUME Calm(d)', ~Unasked(d)'
        PROVE  Calm(d) /\ ~Unasked(d) /\ key' = key
    BY <1>1, <2>1 DEF Frame, Calm, Unasked
  <2> QED BY <1>1, <2>1 DEF CallOK, OpenOK, ExportOK, At, Exports, Encrypted, HasSecret
<1>7. KeepsOK(d)'
  <2>1. ASSUME calls[d] # Idle, d \notin overwritten'
        PROVE  file' = file /\ d \notin overwritten
    BY <1>3, <2>1 DEF Frame
  <2>2. (calls[d] # Idle /\ d \notin disturbed') => d \notin disturbed
    BY DEF Frame
  <2> QED BY <1>1, <2>1, <2>2 DEF CallOK, KeepsOK, Working, At, Exports, HasSecret
<1> QED BY <1>2, <1>4, <1>5, <1>6, <1>7 DEF CallOK

-----------------------------------------------------------------------------
(* One key *)

\* An undisturbed call uses the key that everything is under.
LEMMA Settled ==
  ASSUME IInv, NEW c \in Calls, Calm(c), ~Verifying(c), NEW k, Under(k), key # NoKey
  PROVE  key = k
<1>1. \A d \in Calls : ~Verifying(d)
  BY DEF IInv, CallOK, DisturbedOK, Calm
<1> QED BY <1>1 DEF Under

LEMMA UnderFrom ==
  ASSUME IInv, NEW c \in Calls, Frame(c), NEW k, Under(k),
         AllUnder(file', k), ConfUnder(k)',
         (Calm(c)' /\ ~Verifying(c)') => AllUnder(calls'[c].data, k),
         (key' # NoKey /\ \A d \in Calls : ~Verifying(d)') => key' = k
  PROVE  OneKeyEverywhere'
<1>1. ASSUME NEW d \in Calls, Calm(d)', ~Verifying(d)'
      PROVE  AllUnder(calls'[d].data, k)
  <2>1. CASE d = c
    BY <1>1, <2>1
  <2>2. CASE d # c
    <3>1. calls'[d] = calls[d] /\ Calm(d) /\ ~Verifying(d)
      BY <1>1, <2>2 DEF Frame, Calm, Verifying, At
    <3> QED BY <3>1 DEF Under
  <2> QED BY <2>1, <2>2
<1>2. Under(k)'
  BY <1>1 DEF Under, AllUnder
<1> QED BY <1>2 DEF OneKeyEverywhere

\* A step that changes neither the key nor the file, at the end of which the call has
\* only secrets of the file in hand, or none.
LEMMA UnderSame ==
  ASSUME IInv, NEW c \in Calls, Frame(c), key' = key, file' = file, conf' = conf, ~Verifying(c),
         (Calm(c)' /\ ~Verifying(c)') =>
           \A r \in Records : calls'[c].data[r] \in Keys => calls'[c].data[r] = file[r]
  PROVE  OneKeyEverywhere'
<1>1. CASE mixed
  BY <1>1 DEF Frame, OneKeyEverywhere
<1>2. CASE ~mixed
  <2>1. PICK k : Under(k)
    BY <1>2 DEF IInv, OneKeyEverywhere
  <2>2. (Calm(c)' /\ ~Verifying(c)') => AllUnder(calls'[c].data, k)
    BY <2>1 DEF Under, AllUnder, Encrypted
  <2>3. ASSUME key' # NoKey, \A d \in Calls : ~Verifying(d)'
        PROVE  key' = k
    <3>1. \A d \in Calls : ~Verifying(d)
      BY <2>3 DEF Frame, Verifying, At
    <3> QED BY <2>1, <2>3, <3>1 DEF Under
  <2>4. AllUnder(file', k) /\ ConfUnder(k)'
    BY <2>1 DEF Under, ConfUnder
  <2> QED BY <2>1, <2>2, <2>3, <2>4, UnderFrom
<1> QED BY <1>1, <1>2

-----------------------------------------------------------------------------
(* Calls that begin *)

LEMMA StartStep ==
  ASSUME IInv, Remember, NEW c \in Calls, NEW op \in LockedOps \cup UnlockedOps,
         NEW pc \in {"decrypt", "encrypt", "saveConf"},
         NEW data \in Content, NEW incoming \in Content, NEW changes \in SUBSET Records,
         Start(c, op, pc, data, incoming, changes),
         key' = key, file' = file, conf' = conf,
         \A r \in Records : data[r] \in Keys => data[r] = file[r],
         \A r \in Records : incoming[r] \notin Keys
                            /\ (incoming[r] # Absent => r \in changes),
         op \notin {"Unlock", "EncryptExisting"},
         pc = "decrypt" => op \in {"Export", "SyncPush", "ImportLocal"}
                           /\ (key = NoKey => \/ Encrypted(data) = {}
                                              \/ op = "SyncPush" /\ conf = Plain),
         pc = "encrypt" => op \notin {"Export", "SyncPush"},
         op \in {"Export", "SyncPush"} => data = file,
         (op # "ImportSSHConfig" /\ pc # "saveConf") =>
           \A r \in Records \ changes : HasSecret(file, r) => HasSecret(data, r)
  PROVE  IInv'
<1> DEFINE v == [op |-> op, pc |-> pc, data |-> data,
                 read |-> IF op \in LockedOps \cup {"SyncPush"} THEN file ELSE Nothing,
                 incoming |-> incoming, changes |-> changes]
<1>1. TypeOK /\ file \in Content
  BY DEF IInv, TypeOK
<1>2. v \in Ctx
  <2>1. Nothing \in Content
    BY DEF Nothing, Content
  <2> QED BY <1>1, <2>1 DEF Ctx
<1>3. /\ v.op = op /\ v.pc = pc /\ v.data = data /\ v.incoming = incoming
      /\ v.changes = changes
      /\ v.read = IF op \in LockedOps \cup {"SyncPush"} THEN file ELSE Nothing
  OBVIOUS
<1> HIDE DEF v
<1>4. calls[c] = Idle /\ calls' = [calls EXCEPT ![c] = v]
      /\ (op \in LockedOps => mu = Nobody) /\ mu' = IF op \in LockedOps THEN c ELSE mu
  BY DEF Start, v
<1>5. calls'[c] = v /\ v # Idle /\ \A d \in Calls \ {c} : calls'[d] = calls[d]
  BY <1>1, <1>2, <1>4, VaultAssumption DEF TypeOK
<1>6. TypeOK'
  BY <1>1, <1>2, <1>4 DEF TypeOK, Remember
<1>7. \A d \in Calls \ {c} : mu = d => mu' = d
  BY <1>4, VaultAssumption
<1>8. Frame(c)
  BY <1>5, <1>7, FrameFrom
<1>9. PointOK(c)' /\ IncomingOK(c)'
  BY <1>3, <1>5 DEF PointOK, IncomingOK, Verifying, At, Decrypts, Exports
<1>10. MutexOK(c)'
  BY <1>3, <1>4, <1>5 DEF MutexOK
<1>11. DisturbedOK(c)'
  BY Remembered DEF DisturbedOK
<1>12. OpenOK(c)' /\ ExportOK(c)'
  BY <1>3, <1>5 DEF OpenOK, ExportOK, Unasked, At, Exports, Encrypted, HasSecret, LockedOps
<1>13. KeepsOK(c)'
  BY <1>3, <1>5 DEF KeepsOK, Working, At, Exports, HasSecret
<1>14. OneKeyEverywhere'
  <2>1. ~Verifying(c)
    BY <1>4 DEF Verifying, At
  <2> QED BY <1>3, <1>5, <1>8, <2>1, UnderSame
<1>15. \A d \in Calls : CallOK(d)'
  BY <1>8, <1>9, <1>10, <1>11, <1>12, <1>13, OtherCalls DEF CallOK
<1> QED BY <1>6, <1>14, <1>15 DEF IInv

\* The methods that start with what they have read.
LEMMA BeginStep ==
  ASSUME IInv, Remember, NEW c \in Calls,
         \/ \E r \in Records, withSecret, switches \in BOOLEAN : Save(c, r, withSecret, switches)
         \/ \E r \in Records : Delete(c, r) \/ ImportVaultKeyFile(c, r)
         \/ \E new \in SUBSET Records : ImportSSHConfig(c, new)
         \/ \E incoming \in Incoming, replace \in BOOLEAN : ImportLocalData(c, incoming, replace)
         \/ \E incoming \in Incoming : SyncPull(c, incoming)
         \/ \E op \in Ops : Export(c, op) \/ SaveSyncConfig(c, op)
  PROVE  IInv'
<1>1. file \in Content
  BY DEF IInv, TypeOK
<1>2. Nothing \in Content /\ \A r \in Records : Nothing[r] = Absent /\ Absent \notin Keys
  BY VaultAssumption DEF Nothing, Content
<1>3. ASSUME NEW incoming \in Incoming
      PROVE  incoming \in Content /\ \A r \in Records : incoming[r] \notin Keys
  BY VaultAssumption DEF Incoming, Content, Secret
<1>4. Plain \notin Keys /\ Blank \notin Keys /\ Plain \in Secret /\ Blank \in Secret
  BY VaultAssumption DEF Secret
<1>5. ASSUME NEW r \in Records, NEW withSecret \in BOOLEAN, NEW switches \in BOOLEAN,
             Save(c, r, withSecret, switches)
      PROVE  IInv'
  <2> DEFINE data == [file EXCEPT ![r] = IF withSecret THEN Plain
                                         ELSE IF @ = Absent \/ switches THEN Blank ELSE @]
             changes == IF withSecret \/ switches THEN {r} ELSE {}
  <2>1. data \in Content /\ \A q \in Records : data[q] \in Keys => data[q] = file[q]
    BY <1>1, <1>4 DEF Content
  <2>2. \A q \in Records \ changes : HasSecret(file, q) => HasSecret(data, q)
    BY <1>1, <1>4, VaultAssumption DEF Content, HasSecret
  <2>3. changes \in SUBSET Records
    OBVIOUS
  <2>4. Start(c, "Save", "encrypt", data, Nothing, changes) /\ key' = key /\ file' = file /\ conf' = conf
    BY <1>5 DEF Save
  <2> HIDE DEF data, changes
  <2> QED BY <1>2, <2>1, <2>2, <2>3, <2>4, StartStep DEF LockedOps
<1>6. ASSUME NEW r \in Records, Delete(c, r)
      PROVE  IInv'
  <2> DEFINE data == [file EXCEPT ![r] = Absent]
  <2>1. data \in Content /\ \A q \in Records : data[q] \in Keys => data[q] = file[q]
    BY <1>1, <1>2 DEF Content
  <2>2. \A q \in Records \ {r} : HasSecret(file, q) => HasSecret(data, q)
    BY <1>1 DEF Content, HasSecret
  <2>3. Start(c, "Delete", "encrypt", data, Nothing, {r}) /\ key' = key /\ file' = file /\ conf' = conf
    BY <1>6 DEF Delete
  <2> HIDE DEF data
  <2> QED BY <1>2, <2>1, <2>2, <2>3, StartStep DEF LockedOps
<1>7. ASSUME NEW r \in Records, ImportVaultKeyFile(c, r)
      PROVE  IInv'
  <2> DEFINE data == [file EXCEPT ![r] = Plain]
  <2>1. data \in Content /\ \A q \in Records : data[q] \in Keys => data[q] = file[q]
    BY <1>1, <1>4 DEF Content
  <2>2. \A q \in Records \ {r} : HasSecret(file, q) => HasSecret(data, q)
    BY <1>1 DEF Content, HasSecret
  <2>3. Start(c, "ImportKeyFile", "encrypt", data, Nothing, {r}) /\ key' = key /\ file' = file /\ conf' = conf
    BY <1>7 DEF ImportVaultKeyFile
  <2>4. "ImportKeyFile" \in LockedOps \cup UnlockedOps
    BY DEF UnlockedOps
  <2> HIDE DEF data
  <2> QED BY <1>2, <2>1, <2>2, <2>3, <2>4, StartStep
<1>8. ASSUME NEW new \in SUBSET Records, ImportSSHConfig(c, new)
      PROVE  IInv'
  <2> DEFINE data == [r \in Records |-> IF r \in new THEN Blank ELSE sanitized(file)[r]]
             none == {}
  <2>1. data \in Content /\ \A q \in Records : data[q] \notin Keys
    BY <1>2, <1>4 DEF Content, sanitized
  <2>2. Start(c, "ImportSSHConfig", "encrypt", data, Nothing, none) /\ key' = key /\ file' = file /\ conf' = conf
    BY <1>8 DEF ImportSSHConfig
  <2> HIDE DEF data
  <2>3. none \in SUBSET Records /\ "ImportSSHConfig" \in LockedOps \cup UnlockedOps
    BY DEF UnlockedOps
  <2>4. \A q \in Records : data[q] \in Keys => data[q] = file[q]
    BY <2>1
  <2> HIDE DEF none
  <2> QED BY <1>2, <2>2, <2>3, <2>4, <2>1, StartStep
<1>9. ASSUME NEW incoming \in Incoming, ImportLocalData(c, incoming, TRUE)
      PROVE  IInv'
  <2>1. Start(c, "ImportLocal", "encrypt", incoming, Nothing, Records)
        /\ key' = key /\ file' = file /\ conf' = conf
    BY <1>9 DEF ImportLocalData
  <2> QED BY <1>2, <1>3, <2>1, StartStep DEF LockedOps
<1>10. ASSUME NEW incoming \in Incoming, ImportLocalData(c, incoming, FALSE)
       PROVE  IInv'
  <2> DEFINE changes == {r \in Records : FALSE \/ incoming[r] # Absent}
  <2>1. Start(c, "ImportLocal", "decrypt", file, incoming, changes)
        /\ key' = key /\ file' = file /\ conf' = conf /\ (key = NoKey => Encrypted(file) = {})
    BY <1>10 DEF ImportLocalData, Locked, KeysInUse
  <2>2. changes \in SUBSET Records /\ \A r \in Records : incoming[r] # Absent => r \in changes
    OBVIOUS
  <2> HIDE DEF changes
  <2> QED BY <1>1, <1>3, <2>1, <2>2, StartStep DEF LockedOps
<1>11. ASSUME NEW incoming \in Incoming, SyncPull(c, incoming)
       PROVE  IInv'
  <2>1. Start(c, "SyncPull", "encrypt", incoming, Nothing, Records) /\ key' = key /\ file' = file /\ conf' = conf
    BY <1>11 DEF SyncPull
  <2>2. "SyncPull" \in LockedOps \cup UnlockedOps
    BY DEF UnlockedOps
  <2> QED BY <1>2, <1>3, <2>1, <2>2, StartStep
<1>12. ASSUME NEW op \in Ops, Export(c, op)
       PROVE  IInv'
  <2> DEFINE none == {}
  <2>1. Start(c, op, "decrypt", file, Nothing, none) /\ key' = key /\ file' = file /\ conf' = conf
        /\ op \in {"Export", "SyncPush"}
        /\ (key = NoKey => Encrypted(file) = {} \/ (op = "SyncPush" /\ conf = Plain))
    BY <1>12, VaultAssumption DEF Export, Locked, KeysInUse, ConfOpens
  <2>2. none \in SUBSET Records /\ op \in LockedOps \cup UnlockedOps
    BY <2>1 DEF LockedOps, UnlockedOps
  <2>3. \A r \in Records \ none : HasSecret(file, r) => HasSecret(file, r)
    OBVIOUS
  <2> HIDE DEF none
  <2> QED BY <1>1, <1>2, <2>1, <2>2, <2>3, StartStep
<1>13. ASSUME NEW op \in Ops, SaveSyncConfig(c, op)
       PROVE  IInv'
  <2> DEFINE none == {}
  <2>1. Start(c, op, "saveConf", Nothing, Nothing, none) /\ key' = key /\ file' = file /\ conf' = conf
        /\ op \in {"SyncLogin", "SaveSync"}
    BY <1>13 DEF SaveSyncConfig
  <2>2. none \in SUBSET Records /\ op \in LockedOps \cup UnlockedOps
    BY <2>1 DEF LockedOps
  <2> HIDE DEF none
  <2> QED BY <1>2, <2>1, <2>2, StartStep
<1> QED BY <1>5, <1>6, <1>7, <1>8, <1>9, <1>10, <1>11, <1>12, <1>13

\* A key is put in service, and whoever runs is disturbed.
LEMMA UnlockStep ==
  ASSUME IInv, Remember, NEW c \in Calls, NEW op \in Ops, NEW k \in Keys, Unlock(c, op, k)
  PROVE  IInv'
<1> DEFINE v == [op |-> op, pc |-> "verify", data |-> Nothing,
                 read |-> IF op \in LockedOps \cup {"SyncPush"} THEN file ELSE Nothing,
                 incoming |-> Nothing, changes |-> {}]
<1>1. TypeOK /\ file \in Content /\ op \in {"Unlock", "EncryptExisting"}
  BY DEF IInv, TypeOK, Unlock
<1>2. Nothing \in Content /\ \A r \in Records : Nothing[r] = Absent /\ Absent \notin Keys
  BY VaultAssumption DEF Nothing, Content
<1>3. v \in Ctx
  BY <1>1, <1>2 DEF Ctx, LockedOps, UnlockedOps
<1>4. v.op = op /\ v.pc = "verify" /\ v.incoming = Nothing
  OBVIOUS
<1> HIDE DEF v
<1>5. /\ calls[c] = Idle /\ calls' = [calls EXCEPT ![c] = v]
      /\ (op \in LockedOps => mu = Nobody) /\ mu' = IF op \in LockedOps THEN c ELSE mu
      /\ key' = k /\ file' = file /\ conf' = conf
  BY DEF Unlock, Start, v
<1>6. calls'[c] = v /\ v # Idle /\ Verifying(c)' /\ \A d \in Calls \ {c} : calls'[d] = calls[d]
  BY <1>1, <1>3, <1>4, <1>5, VaultAssumption DEF TypeOK, Verifying, At
<1>7. TypeOK'
  BY <1>1, <1>3, <1>5 DEF TypeOK, Remember
<1>8. Frame(c)
  <2>1. \A d \in Calls \ {c} : mu = d => mu' = d
    BY <1>5, VaultAssumption
  <2> QED BY <1>5, <1>6, <2>1, FrameFrom
<1>9. CallOK(c)'
  <2>1. PointOK(c)' /\ IncomingOK(c)'
    BY <1>1, <1>2, <1>4, <1>6 DEF PointOK, IncomingOK, Verifying, At
  <2>2. MutexOK(c)' /\ KeepsOK(c)'
    BY <1>4, <1>5, <1>6 DEF MutexOK, KeepsOK, Working, At
  <2>3. DisturbedOK(c)'
    BY Remembered DEF DisturbedOK
  <2>4. OpenOK(c)' /\ ExportOK(c)'
    BY <1>1, <1>4, <1>6 DEF OpenOK, ExportOK, At, Exports
  <2> QED BY <2>1, <2>2, <2>3, <2>4 DEF CallOK
<1>10. OneKeyEverywhere'
  <2>1. CASE mixed
    BY <1>8, <2>1 DEF Frame, OneKeyEverywhere
  <2>2. CASE ~mixed
    <3>1. PICK j : Under(j)
      BY <2>2 DEF IInv, OneKeyEverywhere
    <3>2. AllUnder(file', j) /\ ConfUnder(j)'
      BY <1>5, <3>1 DEF Under, ConfUnder
    <3> QED BY <1>6, <1>8, <3>1, <3>2, UnderFrom
  <2> QED BY <2>1, <2>2
<1> QED BY <1>7, <1>8, <1>9, <1>10, OtherCalls DEF IInv

-----------------------------------------------------------------------------
(* Calls that end *)

\* The call ends, or has nothing left to do but to save the secret of sync.json.
Ends(c) == Finish(c) \/ (Working(c) /\ ConfLeft(c))

\* What a call that has nothing more to write has in hand.
EmptyHanded(c) == calls[c] # Idle => Encrypted(calls[c].data) = {}

LEMMA Ended ==
  ASSUME IInv, NEW c \in Calls, calls[c] # Idle, Ends(c)
  PROVE  /\ calls' \in [Calls -> Ctx \cup {Idle}] /\ mu' \in Calls \cup {Nobody}
         /\ \A d \in Calls \ {c} : calls'[d] = calls[d] /\ (mu = d => mu' = d)
         /\ calls'[c] # calls[c]
         /\ \/ calls'[c] = Idle
            \/ /\ calls'[c].op = calls[c].op /\ calls'[c].pc = "saveConf" /\ mu' = mu
               /\ calls'[c].data = Nothing /\ calls'[c].incoming = Nothing
<1>1. TypeOK /\ calls[c] \in Ctx
  BY DEF IInv, TypeOK
<1>2. CASE Finish(c)
  BY <1>1, <1>2 DEF Finish, TypeOK
<1>3. CASE Working(c) /\ ConfLeft(c)
  <2> DEFINE v == [calls[c] EXCEPT !.pc = "saveConf", !.data = Nothing, !.read = Nothing,
                                   !.incoming = Nothing, !.changes = {}]
  <2>1. Nothing \in Content
    BY DEF Nothing, Content
  <2>2. /\ v \in Ctx /\ v.op = calls[c].op /\ v.pc = "saveConf"
        /\ v.data = Nothing /\ v.incoming = Nothing
    BY <1>1, <2>1 DEF Ctx
  <2> HIDE DEF v
  <2>3. calls' = [calls EXCEPT ![c] = v] /\ mu' = mu
    BY <1>1, <1>3 DEF ConfLeft, TypeOK, v
  <2>4. calls[c].pc # "saveConf"
    BY <1>3 DEF Working, At
  <2> QED BY <1>1, <2>2, <2>3, <2>4 DEF TypeOK
<1> QED BY <1>2, <1>3 DEF Ends

\* The frame of a call that ends.
LEMMA EndFrame ==
  ASSUME IInv, Remember, NEW c \in Calls, calls[c] # Idle, Ends(c),
         key' = key \/ Verifying(c),
         conf' = conf \/ key # NoKey
  PROVE  Frame(c) /\ EmptyHanded(c)' /\ ~Verifying(c)'
<1>1. Frame(c)
  BY Ended, FrameFrom
<1>2. \A r \in Records : Nothing[r] = Absent /\ Absent \notin Keys
  BY VaultAssumption DEF Nothing
<1> QED BY <1>1, <1>2, Ended DEF EmptyHanded, Encrypted, Verifying, At

\* The call ends; what is stored and the key are as given.
LEMMA EndStep ==
  ASSUME IInv, Remember, NEW c \in Calls, calls[c] # Idle, Ends(c),
         key' \in Keys \cup {NoKey}, file' \in Content, conf' \in Secret,
         key' = key \/ Verifying(c),
         conf' = conf \/ key # NoKey,
         OneKeyEverywhere'
  PROVE  IInv'
<1>1. TypeOK'
  BY Ended DEF IInv, TypeOK, Remember
<1>2. Frame(c) /\ ~Verifying(c)'
  BY EndFrame
<1>3. CallOK(c)'
  <2>1. CASE calls'[c] = Idle
    BY <2>1 DEF CallOK, PointOK, MutexOK, DisturbedOK, IncomingOK, OpenOK, ExportOK, KeepsOK, Calm
  <2>2. CASE calls'[c] # Idle
    <3>1. /\ calls'[c].op = calls[c].op /\ calls'[c].pc = "saveConf" /\ mu' = mu
          /\ calls'[c].incoming = Nothing
      BY <2>2, Ended
    <3>2. ~At(c, "decrypt")' /\ ~At(c, "encrypt")' /\ ~Working(c)'
      BY <3>1 DEF At, Working
    <3>3. PointOK(c)' /\ OpenOK(c)' /\ ExportOK(c)' /\ KeepsOK(c)'
      BY <1>2, <3>2 DEF PointOK, OpenOK, ExportOK, KeepsOK
    <3>4. MutexOK(c)'
      BY <3>1, <3>2 DEF IInv, CallOK, MutexOK
    <3>5. DisturbedOK(c)'
      BY Remembered DEF DisturbedOK
    <3>6. IncomingOK(c)'
      BY <3>1, VaultAssumption DEF IncomingOK, Nothing
    <3> QED BY <3>3, <3>4, <3>5, <3>6 DEF CallOK
  <2> QED BY <2>1, <2>2
<1> QED BY <1>1, <1>2, <1>3, OtherCalls DEF IInv

\* An export is written, or an encryption fails.
LEMMA LeaveStep ==
  ASSUME IInv, Remember, NEW c \in Calls, Exported(c) \/ EncryptFails(c)
  PROVE  IInv'
<1>1. /\ calls[c] # Idle /\ Ends(c) /\ ~Verifying(c)
      /\ key' = key /\ file' = file /\ conf' = conf
  BY DEF Exported, EncryptFails, Decrypted, At, Verifying, Ends, Working
<1>2. Frame(c) /\ EmptyHanded(c)'
  BY <1>1, EndFrame
<1>3. OneKeyEverywhere'
  <2>1. Calm(c)' => \A r \in Records : calls'[c].data[r] \notin Keys
    BY <1>2 DEF EmptyHanded, Encrypted, Calm
  <2> QED BY <1>1, <1>2, <2>1, UnderSame
<1> QED BY <1>1, <1>3, EndStep DEF IInv, TypeOK

\* A call that has nothing more in hand ends; what it has written is under the key.
LEMMA EndUnder ==
  ASSUME IInv, Remember, NEW c \in Calls, calls[c] # Idle, ~Verifying(c), Ends(c), key' = key,
         conf' = conf \/ key # NoKey,
         ASSUME Calm(c), ~mixed, NEW k, Under(k) PROVE AllUnder(file', k) /\ ConfUnder(k)'
  PROVE  OneKeyEverywhere'
<1>1. Frame(c) /\ EmptyHanded(c)'
  BY EndFrame
<1>2. CASE mixed'
  BY <1>2 DEF OneKeyEverywhere
<1>3. CASE ~mixed'
  <2>1. ~mixed /\ ((file' = file /\ conf' = conf) \/ c \notin disturbed)
    BY <1>1, <1>3 DEF Frame
  <2>2. PICK k : Under(k)
    BY <2>1 DEF IInv, OneKeyEverywhere
  <2>3. AllUnder(file', k) /\ ConfUnder(k)'
    <3>1. CASE c \notin disturbed
      BY <2>1, <2>2, <3>1 DEF Calm
    <3>2. CASE file' = file /\ conf' = conf
      BY <2>2, <3>2 DEF Under, ConfUnder
    <3> QED BY <2>1, <3>1, <3>2
  <2>4. ASSUME key' # NoKey, \A d \in Calls : ~Verifying(d)'
        PROVE  key' = k
    <3>1. \A d \in Calls : ~Verifying(d)
      BY <1>1, <2>4 DEF Frame, Verifying, At
    <3> QED BY <2>2, <2>4, <3>1 DEF Under
  <2>5. Calm(c)' => AllUnder(calls'[c].data, k)
    BY <1>1 DEF EmptyHanded, AllUnder, Calm
  <2> QED BY <1>1, <2>2, <2>3, <2>4, <2>5, UnderFrom
<1> QED BY <1>2, <1>3

\* What a call writes is under the key, or the vault is no longer known to have one.
LEMMA WriteStep ==
  ASSUME IInv, Remember, NEW c \in Calls, Write(c)
  PROVE  IInv'
<1>1. /\ calls[c] # Idle /\ Ends(c) /\ ~Verifying(c)
      /\ key' = key /\ file' = calls[c].data /\ conf' = conf
  BY DEF Write, At, Verifying, Ends, Working
<1>2. ASSUME Calm(c), NEW k, Under(k)
      PROVE  AllUnder(file', k) /\ ConfUnder(k)'
  BY <1>1, <1>2 DEF Under, ConfUnder
<1>3. OneKeyEverywhere'
  BY <1>1, <1>2, EndUnder
<1>4. key' \in Keys \cup {NoKey} /\ file' \in Content /\ conf' \in Secret
  BY <1>1 DEF IInv, TypeOK, Ctx
<1> QED BY <1>1, <1>3, <1>4, EndStep

\* So is what saveSyncConfigRaw writes.
LEMMA SaveConfStep ==
  ASSUME IInv, Remember, NEW c \in Calls, SaveConf(c)
  PROVE  IInv'
<1>1. /\ calls[c] # Idle /\ Ends(c) /\ ~Verifying(c) /\ key' = key /\ file' = file
      /\ conf' = conf \/ (key # NoKey /\ conf' = key)
  BY DEF SaveConf, At, Verifying, Ends
<1>2. ASSUME Calm(c), NEW k, Under(k)
      PROVE  AllUnder(file', k) /\ ConfUnder(k)'
  <2>1. key # NoKey => key = k
    BY <1>1, <1>2, Settled
  <2> QED BY <1>1, <1>2, <2>1 DEF Under, ConfUnder
<1>3. OneKeyEverywhere'
  BY <1>1, <1>2, EndUnder
<1>4. key' \in Keys \cup {NoKey} /\ file' \in Content /\ conf' \in Secret
  BY <1>1 DEF IInv, TypeOK, Secret
<1> QED BY <1>1, <1>3, <1>4, EndStep

\* While a key is verified nobody else is undisturbed, so that the key it opens the file
\* with is the one everything is under.
LEMMA VerifiedUnder ==
  ASSUME IInv, NEW c \in Calls, Verifying(c), ~mixed, NEW k, AllUnder(file, k), ConfUnder(k)
  PROVE  Under(k)
<1>1. ASSUME NEW d \in Calls, Calm(d)
      PROVE  d = c
  BY <1>1 DEF IInv, CallOK, DisturbedOK, Calm
<1> QED BY <1>1 DEF Under

\* The value that is tried opens with the key: everything is under it.
LEMMA TriedUnder ==
  ASSUME IInv, ~mixed, Tried = {} \/ key \in Tried
  PROVE  AllUnder(file, key) /\ ConfUnder(key)
<1>1. PICK k : Under(k)
  BY DEF IInv, OneKeyEverywhere
<1>2. CASE Tried = {}
  BY <1>2 DEF Tried, KeysInUse, AllUnder, ConfUnder
<1>3. CASE key \in Tried
  <2>1. key = k
    BY <1>1, <1>3 DEF Tried, KeysInUse, Under, AllUnder, ConfUnder
  <2> QED BY <1>1, <2>1 DEF Under
<1> QED BY <1>2, <1>3

LEMMA VerifyStep ==
  ASSUME IInv, Remember, NEW c \in Calls, Verify(c)
  PROVE  IInv'
<1>1. /\ calls[c] # Idle /\ calls[c] \in Ctx /\ Verifying(c)
      /\ file' = file /\ conf' = conf /\ file \in Content /\ conf \in Secret
      /\ key \in Keys \cup {NoKey}
  BY DEF Verify, At, Verifying, IInv, TypeOK
<1>2. ASSUME NEW k, Frame(c), EmptyHanded(c)' \/ (Calm(c)' => AllUnder(calls'[c].data, k)),
             AllUnder(file, k), ConfUnder(k),
             (key' # NoKey /\ \A d \in Calls : ~Verifying(d)') => key' = k
      PROVE  Under(k) => OneKeyEverywhere'
  <2>1. AllUnder(file', k) /\ ConfUnder(k)'
    BY <1>1, <1>2 DEF ConfUnder
  <2>2. Calm(c)' => AllUnder(calls'[c].data, k)
    BY <1>2 DEF EmptyHanded, AllUnder, Calm
  <2> QED BY <1>2, <2>1, <2>2, UnderFrom
<1>3. CASE (Tried = {} \/ key \in Tried) /\ key' = key /\ Finish(c)
  <2>1. Ends(c) /\ Frame(c) /\ EmptyHanded(c)'
    BY <1>1, <1>3, EndFrame DEF Ends
  <2>2. OneKeyEverywhere'
    <3>1. CASE mixed
      BY <2>1, <3>1 DEF Frame, OneKeyEverywhere
    <3>2. CASE ~mixed
      <4>1. AllUnder(file, key) /\ ConfUnder(key) /\ Under(key)
        BY <1>1, <1>3, <3>2, TriedUnder, VerifiedUnder
      <4> QED BY <1>2, <1>3, <2>1, <4>1
    <3> QED BY <3>1, <3>2
  <2> QED BY <1>1, <1>3, <2>1, <2>2, EndStep
<1>4. CASE key' = NoKey /\ Finish(c)
  <2>1. Ends(c) /\ Frame(c) /\ EmptyHanded(c)'
    BY <1>1, <1>4, EndFrame DEF Ends
  <2>2. OneKeyEverywhere'
    <3>1. CASE mixed
      BY <2>1, <3>1 DEF Frame, OneKeyEverywhere
    <3>2. CASE ~mixed
      <4>1. PICK k : Under(k)
        BY <3>2 DEF IInv, OneKeyEverywhere
      <4>2. AllUnder(file, k) /\ ConfUnder(k)
        BY <4>1 DEF Under
      <4> QED BY <1>2, <1>4, <2>1, <4>1, <4>2
    <3> QED BY <3>1, <3>2
  <2> QED BY <1>1, <1>4, <2>1, <2>2, EndStep
<1>5. CASE /\ Tried = {} \/ key \in Tried
           /\ key' = key /\ mu' = mu /\ calls[c].op # "Unlock"
           /\ calls' = [calls EXCEPT ![c].pc = "encrypt", ![c].data = file, ![c].read = file]
  <2> DEFINE v == [calls[c] EXCEPT !.pc = "encrypt", !.data = file, !.read = file]
  <2>1. /\ v \in Ctx /\ v.op = calls[c].op /\ v.pc = "encrypt" /\ v.data = file /\ v.read = file
        /\ v.incoming = calls[c].incoming /\ v.changes = calls[c].changes
    BY <1>1 DEF Ctx
  <2> HIDE DEF v
  <2>2. calls' = [calls EXCEPT ![c] = v]
    BY <1>1, <1>5 DEF v, IInv, TypeOK
  <2>3. calls'[c] = v /\ v # Idle /\ \A d \in Calls \ {c} : calls'[d] = calls[d]
    BY <2>1, <2>2, VaultAssumption DEF IInv, TypeOK
  <2>4. TypeOK'
    BY <1>1, <1>5, <2>1, <2>2, ZenonT(60) DEF IInv, TypeOK, Remember
  <2>5. Frame(c)
    BY <1>1, <1>5, <2>3, FrameFrom
  <2>6. v.op = "EncryptExisting"
    BY <1>1, <1>5, <2>1 DEF IInv, CallOK, PointOK
  <2>7. CallOK(c)'
    <3>1. PointOK(c)'
      BY <2>1, <2>3, <2>6 DEF PointOK, Verifying, At, Exports
    <3>2. MutexOK(c)'
      BY <1>1, <1>5, <2>1, <2>3 DEF IInv, CallOK, MutexOK
    <3>3. DisturbedOK(c)'
      BY Remembered DEF DisturbedOK
    <3>4. IncomingOK(c)'
      BY <1>1, <2>1, <2>3 DEF IInv, CallOK, IncomingOK
    <3>5. OpenOK(c)' /\ ExportOK(c)'
      BY <2>1, <2>3, <2>6 DEF OpenOK, ExportOK, At, Exports
    <3>6. KeepsOK(c)'
      BY <1>1, <2>1, <2>3 DEF KeepsOK, HasSecret
    <3> QED BY <3>1, <3>2, <3>3, <3>4, <3>5, <3>6 DEF CallOK
  <2>8. OneKeyEverywhere'
    <3>1. CASE mixed
      BY <2>5, <3>1 DEF Frame, OneKeyEverywhere
    <3>2. CASE ~mixed
      <4>1. AllUnder(file, key) /\ ConfUnder(key) /\ Under(key)
        BY <1>1, <1>5, <3>2, TriedUnder, VerifiedUnder
      <4>2. AllUnder(calls'[c].data, key)
        BY <2>1, <2>3, <4>1
      <4> QED BY <1>2, <1>5, <2>5, <4>1, <4>2
    <3> QED BY <3>1, <3>2
  <2> QED BY <2>4, <2>5, <2>7, <2>8, OtherCalls DEF IInv
<1> QED BY <1>1, <1>3, <1>4, <1>5 DEF Verify, Running

-----------------------------------------------------------------------------
(* Calls that go on *)

\* A call goes on with other data, which has the secrets it had, but those it is meant
\* to replace.
LEMMA GoOnStep ==
  ASSUME IInv, Remember, NEW c \in Calls, Working(c), NEW v \in Ctx,
         calls' = [calls EXCEPT ![c] = v], key' = key, file' = file, conf' = conf, mu' = mu,
         v.op = calls[c].op, v.read = calls[c].read, v.changes = calls[c].changes,
         \/ v.pc = calls[c].pc /\ v.incoming = calls[c].incoming
         \/ v.pc = "encrypt" /\ v.op = "ImportLocal" /\ v.incoming = Nothing,
         (Calm(c) /\ ~mixed /\ ~Unasked(c) /\ key = NoKey /\ v.pc = "decrypt") =>
           Encrypted(v.data) = {},
         (\/ ~Exports(c) /\ (v.op = "ImportLocal" => Calm(c) /\ ~mixed)
          \/ Exports(c) /\ Calm(c) /\ ~mixed /\ ~Unasked(c)) =>
           \A r \in Records : HasSecret(calls[c].data, r) =>
             HasSecret(v.data, r) \/ (r \in v.changes /\ ~Exports(c)),
         \A k : (Under(k) /\ Calm(c) /\ ~mixed) => AllUnder(v.data, k)
  PROVE  IInv'
<1>1. TypeOK /\ CallOK(c) /\ v # Idle /\ calls[c] # Idle /\ ~Verifying(c)
  BY VaultAssumption DEF IInv, Working, Verifying, At
<1>2. calls'[c] = v /\ \A d \in Calls \ {c} : calls'[d] = calls[d]
  BY <1>1 DEF TypeOK
<1>3. TypeOK'
  BY <1>1 DEF TypeOK, Remember
<1>4. Frame(c)
  BY <1>2, FrameFrom
<1>5. /\ c \in disturbed => c \in disturbed'
      /\ c \in overwritten => c \in overwritten'
      /\ mixed => mixed'
  BY <1>1, <1>2, Remembered
<1>6. v.pc \in {"decrypt", "encrypt"} /\ ~Verifying(c)'
  BY <1>2 DEF Working, Verifying, At
<1>7. PointOK(c)'
  BY <1>1, <1>2, <1>6 DEF CallOK, PointOK, Verifying, At, Decrypts, Exports
<1>8. MutexOK(c)'
  BY <1>1, <1>2, <1>5 DEF CallOK, MutexOK
<1>9. DisturbedOK(c)'
  BY Remembered DEF DisturbedOK
<1>10. IncomingOK(c)'
  <2>1. \A r \in Records : Nothing[r] = Absent /\ Absent \notin Keys
    BY VaultAssumption DEF Nothing
  <2> QED BY <1>1, <1>2, <2>1 DEF CallOK, IncomingOK
<1>11. OpenOK(c)'
  BY <1>1, <1>2, <1>5 DEF OpenOK, Calm, Unasked, At, Encrypted
<1>12. ExportOK(c)'
  BY <1>1, <1>2, <1>5, <1>7 DEF CallOK, ExportOK, PointOK, Calm, Unasked, At, Working, Exports, HasSecret
<1>13. KeepsOK(c)'
  BY <1>1, <1>2, <1>5 DEF CallOK, KeepsOK, Calm, Exports, HasSecret
<1>14. OneKeyEverywhere'
  <2>1. CASE mixed
    BY <1>5, <2>1 DEF OneKeyEverywhere
  <2>2. CASE ~mixed
    <3>1. PICK k : Under(k)
      BY <2>2 DEF IInv, OneKeyEverywhere
    <3>2. Calm(c)' => AllUnder(calls'[c].data, k)
      BY <1>1, <1>2, <1>5, <2>2, <3>1 DEF Calm
    <3>3. AllUnder(file', k) /\ ConfUnder(k)'
      BY <3>1 DEF Under, ConfUnder
    <3>4. ASSUME key' # NoKey, \A d \in Calls : ~Verifying(d)'
          PROVE  key' = k
      <4>1. \A d \in Calls : ~Verifying(d)
        BY <1>1, <1>4, <3>4 DEF Frame, Verifying, At
      <4> QED BY <3>1, <3>4, <4>1 DEF Under
    <3> QED BY <1>4, <3>1, <3>2, <3>3, <3>4, UnderFrom
  <2> QED BY <2>1, <2>2
<1> QED BY <1>3, <1>4, <1>7, <1>8, <1>9, <1>10, <1>11, <1>12, <1>13, <1>14, OtherCalls DEF IInv, CallOK

\* What an undisturbed call has in hand is under the key in service, if there is one.
LEMMA Opens ==
  ASSUME IInv, NEW c \in Calls, Calm(c), ~mixed, ~Verifying(c),
         NEW r \in Records, calls[c].data[r] \in Keys, key # NoKey
  PROVE  calls[c].data[r] = key
<1>1. PICK k : Under(k)
  BY DEF IInv, OneKeyEverywhere
<1>2. key = k
  BY <1>1, Settled
<1> QED BY <1>1, <1>2 DEF Under, AllUnder, Encrypted

LEMMA DecryptStep ==
  ASSUME IInv, Remember, NEW c \in Calls, NEW r \in Records, DecryptOne(c, r)
  PROVE  IInv'
<1> DEFINE new == [calls[c].data EXCEPT ![r] = IF @ = key THEN Plain ELSE Blank]
           v   == [calls[c] EXCEPT !.data = new]
<1>1. /\ calls[c] # Idle /\ calls[c] \in Ctx /\ calls[c].pc = "decrypt" /\ ~Verifying(c)
      /\ At(c, "decrypt") /\ calls[c].data \in Content /\ calls[c].data[r] \in Keys
  BY DEF IInv, TypeOK, DecryptOne, At, Verifying, Ctx
<1>2. Plain \notin Keys /\ Blank \notin Keys /\ Plain \in Secret /\ Blank \in Secret
  BY VaultAssumption DEF Secret
<1>3. new \in Content /\ new[r] = (IF calls[c].data[r] = key THEN Plain ELSE Blank)
      /\ \A q \in Records \ {r} : new[q] = calls[c].data[q]
  BY <1>1, <1>2 DEF Content
<1> HIDE DEF new
<1>4. /\ v \in Ctx /\ v.op = calls[c].op /\ v.read = calls[c].read /\ v.pc = calls[c].pc
      /\ v.changes = calls[c].changes /\ v.incoming = calls[c].incoming /\ v.data = new
  BY <1>1, <1>3 DEF Ctx
<1>5. calls' = [calls EXCEPT ![c] = v]
  BY <1>1 DEF DecryptOne, IInv, TypeOK, Ctx, new
<1> HIDE DEF v
<1>6. OpenOK(c)
  BY DEF IInv, CallOK
<1>7. (Calm(c) /\ ~mixed /\ ~Unasked(c)) => key # NoKey
  BY <1>1, <1>6 DEF OpenOK, Encrypted
<1>8. ASSUME Calm(c), ~mixed, ~Unasked(c)
      PROVE  \A q \in Records : HasSecret(calls[c].data, q) => HasSecret(v.data, q)
  <2>1. calls[c].data[r] = key
    BY <1>1, <1>7, <1>8, Opens
  <2> QED BY <1>2, <1>3, <1>4, <2>1 DEF HasSecret
<1>9. \A k : (Under(k) /\ Calm(c)) => AllUnder(v.data, k)
  BY <1>1, <1>2, <1>3, <1>4, ZenonT(60) DEF Under, AllUnder, Encrypted
<1>10. /\ Exports(c) \/ (calls[c].op = "ImportLocal" /\ ~Unasked(c))
       /\ Working(c)
  BY <1>1 DEF IInv, CallOK, PointOK, Decrypts, Exports, Unasked, Working
<1>11. key' = key /\ file' = file /\ conf' = conf /\ mu' = mu
  BY DEF DecryptOne
<1> QED BY <1>1, <1>4, <1>5, <1>7, <1>8, <1>9, <1>10, <1>11, GoOnStep

LEMMA EncryptStep ==
  ASSUME IInv, Remember, NEW c \in Calls, NEW r \in Records, EncryptOne(c, r)
  PROVE  IInv'
<1> DEFINE new == [calls[c].data EXCEPT ![r] = key]
           v   == [calls[c] EXCEPT !.data = new]
<1>1. /\ calls[c] # Idle /\ calls[c] \in Ctx /\ calls[c].pc = "encrypt" /\ ~Verifying(c)
      /\ Working(c) /\ calls[c].data \in Content /\ key \in Keys /\ key # NoKey
  BY DEF IInv, TypeOK, EncryptOne, At, Verifying, Working, Ctx
<1>2. new \in Content /\ new[r] = key /\ \A q \in Records \ {r} : new[q] = calls[c].data[q]
  BY <1>1 DEF Content, Secret
<1> HIDE DEF new
<1>3. /\ v \in Ctx /\ v.op = calls[c].op /\ v.read = calls[c].read /\ v.pc = calls[c].pc
      /\ v.changes = calls[c].changes /\ v.incoming = calls[c].incoming /\ v.data = new
  BY <1>1, <1>2 DEF Ctx
<1>4. calls' = [calls EXCEPT ![c] = v]
  BY <1>1 DEF EncryptOne, IInv, TypeOK, Ctx, new
<1> HIDE DEF v
<1>5. \A q \in Records : HasSecret(calls[c].data, q) => HasSecret(v.data, q)
  BY <1>1, <1>2, <1>3 DEF HasSecret
<1>6. \A k : (Under(k) /\ Calm(c)) => AllUnder(v.data, k)
  <2> TAKE k
  <2> HAVE Under(k) /\ Calm(c)
  <2>1. key = k
    BY <1>1, Settled
  <2> QED BY <1>1, <1>2, <1>3, <2>1 DEF Under, AllUnder, Encrypted
<1>7. key' = key /\ file' = file /\ conf' = conf /\ mu' = mu
  BY DEF EncryptOne
<1> QED BY <1>1, <1>3, <1>4, <1>5, <1>6, <1>7, GoOnStep

LEMMA MergeStep ==
  ASSUME IInv, Remember, NEW c \in Calls, Merge(c)
  PROVE  IInv'
<1> DEFINE new == [r \in Records |-> IF calls[c].incoming[r] # Absent
                                     THEN calls[c].incoming[r] ELSE calls[c].data[r]]
           v   == [calls[c] EXCEPT !.pc = "encrypt", !.incoming = Nothing, !.data = new]
<1>1. /\ calls[c] # Idle /\ calls[c] \in Ctx /\ calls[c].op = "ImportLocal" /\ Working(c)
      /\ calls[c].data \in Content /\ calls[c].incoming \in Content
      /\ Encrypted(calls[c].data) = {} /\ ~Exports(c)
  BY DEF IInv, TypeOK, Merge, Decrypted, Running, At, Working, Exports, Ctx
<1>2. Nothing \in Content /\ new \in Content
  BY <1>1 DEF Nothing, Content
<1>3. \A r \in Records : new[r] \notin Keys
                         /\ (r \notin calls[c].changes => new[r] = calls[c].data[r])
  BY <1>1 DEF IInv, CallOK, IncomingOK, Encrypted
<1>4. calls' = [calls EXCEPT ![c] = v]
  BY <1>1 DEF Merge, IInv, TypeOK, Ctx
<1> HIDE DEF new
<1>5. /\ v \in Ctx /\ v.op = calls[c].op /\ v.read = calls[c].read /\ v.pc = "encrypt"
      /\ v.changes = calls[c].changes /\ v.incoming = Nothing /\ v.data = new
  BY <1>1, <1>2 DEF Ctx
<1> HIDE DEF v
<1>6. \A k : AllUnder(v.data, k)
  BY <1>3, <1>5 DEF AllUnder, Encrypted
<1>7. \A r \in Records : HasSecret(calls[c].data, r) => HasSecret(v.data, r) \/ r \in v.changes
  BY <1>3, <1>5 DEF HasSecret
<1>8. key' = key /\ file' = file /\ conf' = conf /\ mu' = mu
  BY DEF Merge
<1> QED BY <1>1, <1>4, <1>5, <1>6, <1>7, <1>8, GoOnStep

-----------------------------------------------------------------------------
(* Steps of no call *)

LEMMA IdleOK ==
  ASSUME NEW c \in Calls, calls[c] = Idle
  PROVE  CallOK(c)
  BY DEF CallOK, PointOK, MutexOK, DisturbedOK, IncomingOK, OpenOK, ExportOK, KeepsOK, Calm

\* LocalVaultLock takes the key away, which disturbs every call.
LEMMA LockStep ==
  ASSUME IInv, Remember, NEW c \in Calls, LocalVaultLock(c)
  PROVE  IInv'
<1>1. /\ calls' = calls /\ key' = NoKey /\ mu' = mu /\ file' = file /\ conf' = conf
      /\ calls[c] = Idle /\ calls'[c] = Idle
  BY DEF LocalVaultLock
<1>2. TypeOK'
  BY <1>1 DEF IInv, TypeOK, Remember
<1>3. Frame(c)
  BY <1>1, FrameFrom
<1>4. CallOK(c)'
  BY <1>1 DEF CallOK, PointOK, MutexOK, DisturbedOK, IncomingOK, OpenOK, ExportOK, KeepsOK, Calm
<1>5. OneKeyEverywhere'
  <2>1. CASE mixed
    BY <1>3, <2>1 DEF Frame, OneKeyEverywhere
  <2>2. CASE ~mixed
    <3>1. PICK k : Under(k)
      BY <2>2 DEF IInv, OneKeyEverywhere
    <3>2. AllUnder(file', k) /\ ConfUnder(k)' /\ ~Calm(c)'
      BY <1>1, <3>1 DEF Under, ConfUnder, Calm
    <3> QED BY <1>1, <1>3, <3>1, <3>2, UnderFrom
  <2> QED BY <2>1, <2>2
<1> QED BY <1>2, <1>3, <1>4, <1>5, OtherCalls DEF IInv

LEMMA RestartStep ==
  ASSUME IInv, Remember, Restart
  PROVE  IInv'
<1>1. /\ calls' = [c \in Calls |-> Idle] /\ key' = NoKey /\ mu' = Nobody /\ file' = file /\ conf' = conf
      /\ \A c \in Calls : calls'[c] = Idle
  BY DEF Restart
<1>2. TypeOK'
  BY <1>1 DEF IInv, TypeOK, Remember
<1>3. \A c \in Calls : CallOK(c)'
  BY <1>1 DEF CallOK, PointOK, MutexOK, DisturbedOK, IncomingOK, OpenOK, ExportOK, KeepsOK, Calm
<1>4. OneKeyEverywhere'
  <2>1. CASE mixed
    BY <2>1, Remembered DEF OneKeyEverywhere
  <2>2. CASE ~mixed
    <3>1. PICK k : Under(k)
      BY <2>2 DEF IInv, OneKeyEverywhere
    <3>2. AllUnder(file', k) /\ ConfUnder(k)' /\ key' = NoKey /\ \A c \in Calls : ~Calm(c)'
      BY <1>1, <3>1 DEF Under, ConfUnder, Calm
    <3>3. Under(k)'
      BY <3>2 DEF Under, AllUnder
    <3> QED BY <3>3 DEF OneKeyEverywhere
  <2> QED BY <2>1, <2>2
<1> QED BY <1>2, <1>3, <1>4 DEF IInv

-----------------------------------------------------------------------------
(* The invariant *)

LEMMA InitOK == Init => IInv
<1> SUFFICES ASSUME Init PROVE IInv
  OBVIOUS
<1>1. file \in Content /\ Encrypted(file) = {} /\ conf \in Secret \ Keys /\ key = NoKey
      /\ \A c \in Calls : calls[c] = Idle
  BY VaultAssumption DEF Init, Content, Secret, Encrypted
<1>2. TypeOK
  BY <1>1 DEF Init, TypeOK
<1>3. Under(NoKey)
  BY <1>1 DEF Under, AllUnder, ConfUnder, Calm
<1> QED BY <1>1, <1>2, <1>3, IdleOK DEF IInv, OneKeyEverywhere

LEMMA StartNextOK ==
  ASSUME IInv, NEW c \in Calls, StartNext(c)
  PROVE  IInv'
<1>1. CASE \E op \in Ops, k \in Keys : Unlock(c, op, k) /\ Remember
  BY <1>1, UnlockStep
<1>2. CASE LocalVaultLock(c) /\ Remember
  BY <1>2, LockStep
<1>3. CASE \E r \in Records, withSecret, switches \in BOOLEAN :
             Save(c, r, withSecret, switches) /\ Remember
  BY <1>3, BeginStep
<1>4. CASE \E r \in Records : (Delete(c, r) \/ ImportVaultKeyFile(c, r)) /\ Remember
  BY <1>4, BeginStep
<1>5. CASE \E new \in SUBSET Records : ImportSSHConfig(c, new) /\ Remember
  BY <1>5, BeginStep
<1>6. CASE \E incoming \in Incoming, replace \in BOOLEAN :
             ImportLocalData(c, incoming, replace) /\ Remember
  BY <1>6, BeginStep
<1>7. CASE \E incoming \in Incoming : SyncPull(c, incoming) /\ Remember
  BY <1>7, BeginStep
<1>8. CASE \E op \in Ops : (Export(c, op) \/ SaveSyncConfig(c, op)) /\ Remember
  BY <1>8, BeginStep
<1> QED BY <1>1, <1>2, <1>3, <1>4, <1>5, <1>6, <1>7, <1>8 DEF StartNext

LEMMA ContinueNextOK ==
  ASSUME IInv, NEW c \in Calls, ContinueNext(c)
  PROVE  IInv'
  BY VerifyStep, DecryptStep, EncryptStep, LeaveStep, MergeStep, WriteStep, SaveConfStep
     DEF ContinueNext

LEMMA StutterOK ==
  ASSUME IInv, UNCHANGED vars
  PROVE  IInv'
  BY DEF vars, IInv, TypeOK, OneKeyEverywhere, Under, AllUnder, ConfUnder, Encrypted, Calm,
         Verifying, Working, At, Unasked,
         CallOK, PointOK, MutexOK, DisturbedOK, IncomingOK, OpenOK, ExportOK, KeepsOK,
         Decrypts, Exports, HasSecret

LEMMA NextOK == IInv /\ [Next]_vars => IInv'
  BY StartNextOK, ContinueNextOK, RestartStep, StutterOK DEF Next

LEMMA VaultInvariant == Spec => []IInv
  BY InitOK, NextOK, PTL DEF Spec

-----------------------------------------------------------------------------
(* Theorems *)

\* The records of the file hold no secret, one left in the clear, or one under a real key;
\* the calls are at points of their methods (readHostsRaw, encryptSecret).
THEOREM VaultTypes == Spec => []TypeOK
<1>1. IInv => TypeOK
  BY DEF IInv
<1> QED BY <1>1, VaultInvariant, PTL

\* LocalVaultUnlock tries one value; all are under one key, unless a call wrote during
\* which another one put a key in service or took it away.
THEOREM OneKeyHolds == Spec => []OneKey
<1>1. IInv => OneKey
  BY DEF IInv, OneKeyEverywhere, Under, AllUnder, ConfUnder, OneKey, KeysInUse
<1> QED BY <1>1, VaultInvariant, PTL

\* SaveHost, SaveVault, the deletions and ImportLocalData, which hold dataMu, write over
\* the file they have read, unless a method without it wrote in between.
THEOREM LockedWrites == Spec => LockedWritesFresh
<1>1. IInv => [\A c \in Calls \ overwritten :
                 (Write(c) /\ calls[c].op \in LockedOps) => file = calls[c].read]_vars
  BY DEF IInv, CallOK, MutexOK, Working, Write, At
<1> QED BY <1>1, VaultInvariant, PTL DEF LockedWritesFresh

\* ExportLocalData and SyncPush hand out every secret of the file, unless the key was
\* changed while they ran or need not open the file, or SyncPush finds its token in the
\* clear and the vault locked.
THEOREM ExportsComplete == Spec => ExportComplete
<1>1. ASSUME IInv, NEW c \in Calls \ disturbed, Exported(c), ~mixed,
             ~(Running(c, "SyncPush") /\ conf = Plain /\ key = NoKey),
             NEW r \in Records, HasSecret(calls[c].read, r)
      PROVE  calls[c].data[r] = Plain
  <2>1. /\ ExportOK(c) /\ Calm(c) /\ Exports(c) /\ At(c, "decrypt") /\ ~Unasked(c)
        /\ Encrypted(calls[c].data) = {}
    BY <1>1 DEF IInv, CallOK, Exported, Decrypted, At, Running, Calm, Exports, Unasked
  <2>2. HasSecret(calls[c].data, r)
    BY <1>1, <2>1 DEF ExportOK
  <2> QED BY <2>1, <2>2 DEF HasSecret, Encrypted
<1>2. IInv => [\A c \in Calls \ disturbed :
                 (Exported(c) /\ ~mixed /\ ~(Running(c, "SyncPush") /\ conf = Plain /\ key = NoKey)) =>
                   \A r \in Records :
                     HasSecret(calls[c].read, r) => calls[c].data[r] = Plain]_vars
  BY <1>1
<1> QED BY <1>2, VaultInvariant, PTL DEF ExportComplete

\* Only writes change the file.
LEMMA FileWritten ==
  ASSUME IInv, [Next]_vars, file' # file
  PROVE  \E c \in Calls : Write(c)
<1>1. \A c \in Calls : ~StartNext(c)
  BY DEF StartNext, Unlock, LocalVaultLock, Save, Delete, ImportVaultKeyFile, ImportSSHConfig,
         ImportLocalData, SyncPull, Export, SaveSyncConfig
<1>2. ASSUME NEW c \in Calls, ContinueNext(c)
      PROVE  Write(c)
  BY <1>2 DEF ContinueNext, Verify, DecryptOne, EncryptOne, Exported, Merge, EncryptFails,
                SaveConf
<1> QED BY <1>1, <1>2 DEF Next, Restart, vars

\* A secret goes only where writeHostsRaw was to replace its record, where ImportSSHConfig
\* writes, where an import merged with a key that does not open the file, or where the call
\* had read the file before another wrote it.
THEOREM SecretsStay == Spec => SecretsKept
<1>1. ASSUME IInv, [Next]_vars, NEW r \in Records, HasSecret(file, r), ~HasSecret(file', r)
      PROVE  \E c \in Calls :
               /\ Write(c)
               /\ \/ r \in calls[c].changes
                  \/ Running(c, "ImportSSHConfig")
                  \/ Running(c, "ImportLocal") /\ (mixed \/ c \in disturbed)
                  \/ c \in overwritten
  <2>1. file' # file
    BY <1>1
  <2>2. PICK c \in Calls : Write(c)
    BY <1>1, <2>1, FileWritten
  <2>3. /\ calls[c] # Idle /\ file' = calls[c].data /\ At(c, "encrypt") /\ Working(c)
    BY <2>2 DEF Write, At, Working
  <2>4. ~Exports(c) /\ KeepsOK(c)
    BY <1>1, <2>3 DEF IInv, CallOK, PointOK
  <2>5. ~HasSecret(calls[c].data, r)
    BY <1>1, <2>3
  <2> QED BY <1>1, <2>2, <2>3, <2>4, <2>5 DEF KeepsOK, Running
<1>2. IInv /\ [Next]_vars =>
        [\A r \in Records : (HasSecret(file, r) /\ ~HasSecret(file', r)) =>
           \E c \in Calls :
             /\ Write(c)
             /\ \/ r \in calls[c].changes
                \/ Running(c, "ImportSSHConfig")
                \/ Running(c, "ImportLocal") /\ (mixed \/ c \in disturbed)
                \/ c \in overwritten]_vars
  BY <1>1
<1> QED BY <1>2, VaultInvariant, PTL DEF SecretsKept, Spec
=============================================================================
