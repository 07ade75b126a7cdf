--------------------------- MODULE SyncSystemProofs ---------------------------
(***************************************************************************)
(* The two files of a client, and those in the blob, are of one state, and *)
(* settings survive the exchanges that begin after them, for any number of *)
(* clients, exchanges and changes.                                         *)
(***************************************************************************)
EXTENDS SyncSystem, TLAPS

\* What an exchange has in hand.  A clean one that reads has seen hosts.json as it is, and
\* nobody is about to write vault.json under it; a clean one that writes has all of one state.
SlotOK(c, s) ==
  ex[c][s] # Idle =>
    /\ ex[c][s].fresh => conf[c].enabled = TRUE /\ conf[c].token = ex[c][s].token
    /\ ex[c][s].pc = "put" => ex[c][s].data # InState(0)
    /\ ex[c][s].clean =>
         /\ ex[c][s].pc \in {"put", "hosts", "vault"} => OfOneState(ex[c][s].data)
         /\ ex[c][s].pc \in {"read", "vault"} => ex[c][s].data.hosts = disk[c].hosts
         /\ ex[c][s].pc = "read" => c \notin torn /\ ~HalfWritten(c)

DiskOK(c) == c \in torn \/ HalfWritten(c) \/ OfOneState(disk[c])

ClientOK(c) == DiskOK(c) /\ \A s \in Slots : SlotOK(c, s)

BlobOK == (blob # None /\ blob.clean) => OfOneState(blob.data)

IInv == TypeOK /\ BlobOK /\ \A c \in Clients : ClientOK(c)

-----------------------------------------------------------------------------
(* Steps of one client *)

\* A client that a step leaves alone stays as it should be.
LEMMA OtherClient ==
  ASSUME NEW c, ClientOK(c), ex'[c] = ex[c], disk'[c] = disk[c], conf'[c] = conf[c],
         c \in torn' <=> c \in torn
  PROVE  ClientOK(c)'
  BY DEF ClientOK, DiskOK, SlotOK, HalfWritten, At, OfOneState

\* A step of c; x is what its exchanges, and cfg what its configuration and files are then.
LEMMA StepOf ==
  ASSUME IInv, NEW c \in Clients,
         NEW x \in [Slots -> Exchange \cup {Idle}], NEW files \in Data, NEW cfg \in SyncConfig,
         ex' = [ex EXCEPT ![c] = x], disk' = [disk EXCEPT ![c] = files],
         conf' = [conf EXCEPT ![c] = cfg],
         torn' \subseteq Clients, \A d \in Clients \ {c} : d \in torn' <=> d \in torn,
         changes' \in 0..MaxChanges,
         blob' \in [data : Data \ {InState(0)}, clean : BOOLEAN] \cup {None}, BlobOK',
         ClientOK(c)'
  PROVE  IInv'
<1>1. TypeOK'
  BY DEF IInv, TypeOK
<1>2. ASSUME NEW d \in Clients, d # c
      PROVE  ClientOK(d)'
  <2>1. ex'[d] = ex[d] /\ disk'[d] = disk[d] /\ conf'[d] = conf[d] /\ (d \in torn' <=> d \in torn)
    BY <1>2 DEF IInv, TypeOK
  <2> QED BY <2>1, OtherClient DEF IInv
<1> QED BY <1>1, <1>2 DEF IInv

\* Types of a client, and what a step has set.
LEMMA Typed ==
  ASSUME TypeOK, NEW c \in Clients
  PROVE  /\ ex[c] \in [Slots -> Exchange \cup {Idle}]
         /\ disk[c] \in Data /\ conf[c] \in SyncConfig
         /\ ex = [ex EXCEPT ![c] = ex[c]] /\ disk = [disk EXCEPT ![c] = disk[c]]
         /\ conf = [conf EXCEPT ![c] = conf[c]]
         /\ \A x : [ex EXCEPT ![c] = x][c] = x
         /\ \A files : [disk EXCEPT ![c] = files][c] = files
         /\ \A cfg : [conf EXCEPT ![c] = cfg][c] = cfg
  BY DEF TypeOK

LEMMA OutdatedFacts ==
  ASSUME TypeOK, NEW c \in Clients, NEW x, x = Outdated(c)
  PROVE  /\ x \in [Slots -> Exchange \cup {Idle}]
         /\ \A t \in Slots : x[t] # Idle =>
              /\ ex[c][t] # Idle /\ ~x[t].fresh /\ x[t].pc = ex[c][t].pc
              /\ x[t].data = ex[c][t].data /\ x[t].clean = ex[c][t].clean
         /\ \A t \in Slots : x[t] = Idle => ex[c][t] = Idle
<1>1. \A s \in Slots : x[s] = IF ex[c][s] = Idle THEN Idle ELSE [ex[c][s] EXCEPT !.fresh = FALSE]
  BY DEF Outdated
<1>2. \A e \in Exchange : /\ [e EXCEPT !.fresh = FALSE] \in Exchange
                          /\ ~[e EXCEPT !.fresh = FALSE].fresh
                          /\ [e EXCEPT !.fresh = FALSE].pc = e.pc
                          /\ [e EXCEPT !.fresh = FALSE].data = e.data
                          /\ [e EXCEPT !.fresh = FALSE].clean = e.clean
  BY DEF Exchange
<1>3. \A s \in Slots : ex[c][s] \in Exchange \cup {Idle}
  BY Typed
<1>4. x = [s \in Slots |-> x[s]]
  BY DEF Outdated
<1>5. \A s \in Slots : ex[c][s] = Idle => x[s] = Idle
  BY <1>1
<1>6. \A s \in Slots : ex[c][s] # Idle =>
        ex[c][s] \in Exchange /\ x[s] = [ex[c][s] EXCEPT !.fresh = FALSE]
  BY <1>1, <1>3
<1>7. \A s \in Slots : x[s] \in Exchange \cup {Idle}
  BY <1>2, <1>5, <1>6
<1>8. Idle \notin Exchange
  BY SyncAssumption
<1>9. x \in [Slots -> Exchange \cup {Idle}]
  BY <1>4, <1>7
<1>10. ASSUME NEW s \in Slots, x[s] # Idle
       PROVE  /\ ex[c][s] # Idle /\ ~x[s].fresh /\ x[s].pc = ex[c][s].pc
              /\ x[s].data = ex[c][s].data /\ x[s].clean = ex[c][s].clean
  <2>1. ex[c][s] # Idle
    BY <1>5, <1>10
  <2>2. ex[c][s] \in Exchange /\ x[s] = [ex[c][s] EXCEPT !.fresh = FALSE]
    BY <1>6, <2>1
  <2> QED BY <1>2, <2>1, <2>2
<1>11. ASSUME NEW s \in Slots, x[s] = Idle, ex[c][s] # Idle
       PROVE  FALSE
  BY <1>2, <1>6, <1>8, <1>11
<1> QED BY <1>9, <1>10, <1>11

\* The configuration changes, and no exchange is fresh any longer.
LEMMA ChangeSettings ==
  ASSUME IInv, NEW c \in Clients, NEW cfg \in SyncConfig, Change,
         conf' = [conf EXCEPT ![c] = cfg], ex' = [ex EXCEPT ![c] = Outdated(c)],
         UNCHANGED <<disk, blob, torn>>
  PROVE  IInv'
<1> DEFINE x == Outdated(c)
<1>1. TypeOK /\ ClientOK(c) /\ BlobOK
  BY DEF IInv
<1>2. /\ x \in [Slots -> Exchange \cup {Idle}]
      /\ \A t \in Slots : x[t] # Idle =>
           /\ ex[c][t] # Idle /\ ~x[t].fresh /\ x[t].pc = ex[c][t].pc
           /\ x[t].data = ex[c][t].data /\ x[t].clean = ex[c][t].clean
      /\ \A t \in Slots : x[t] = Idle => ex[c][t] = Idle
  BY <1>1, OutdatedFacts
<1> HIDE DEF x
<1>3. ex'[c] = x /\ disk'[c] = disk[c]
  BY <1>1, Typed DEF x
<1>4. HalfWritten(c)' <=> HalfWritten(c)
  BY <1>2, <1>3 DEF HalfWritten, At
<1>5. ClientOK(c)'
  BY <1>1, <1>2, <1>3, <1>4 DEF ClientOK, DiskOK, SlotOK, OfOneState
<1>6. changes' \in 0..MaxChanges
  BY <1>1, SyncAssumption DEF Change, TypeOK
<1>7. ex' = [ex EXCEPT ![c] = x] /\ disk' = [disk EXCEPT ![c] = disk[c]] /\ disk[c] \in Data
  BY <1>1, Typed DEF x
<1> QED BY <1>1, <1>2, <1>5, <1>6, <1>7, StepOf, ZenonT(60) DEF TypeOK, BlobOK

\* A step of one exchange that leaves the files alone and does not begin or end to write.
LEMMA QuietStep ==
  ASSUME IInv, NEW c \in Clients, NEW s \in Slots, NEW v \in Exchange \cup {Idle},
         ex' = [ex EXCEPT ![c][s] = v],
         UNCHANGED <<disk, conf, changes, torn>>,
         ~At(c, s, "vault"), v # Idle => v.pc # "vault",
         v # Idle =>
           /\ v.fresh => conf[c].enabled = TRUE /\ conf[c].token = v.token
           /\ v.pc = "put" => v.data # InState(0)
           /\ v.clean => /\ v.pc \in {"put", "hosts"} => OfOneState(v.data)
                         /\ v.pc = "read" => /\ v.data.hosts = disk[c].hosts
                                             /\ c \notin torn /\ ~HalfWritten(c),
         blob' \in [data : Data \ {InState(0)}, clean : BOOLEAN] \cup {None}, BlobOK'
  PROVE  IInv'
<1>1. TypeOK /\ ClientOK(c)
  BY DEF IInv
<1>2. /\ ex'[c] \in [Slots -> Exchange \cup {Idle}] /\ ex' = [ex EXCEPT ![c] = ex'[c]]
      /\ ex'[c][s] = v /\ \A t \in Slots \ {s} : ex'[c][t] = ex[c][t]
  BY <1>1 DEF TypeOK
<1>10. HalfWritten(c)' <=> HalfWritten(c)
  BY <1>2 DEF HalfWritten, At
<1>3. SlotOK(c, s)'
  BY <1>2, <1>10 DEF SlotOK, OfOneState
<1>4. ASSUME NEW t \in Slots \ {s}
      PROVE  SlotOK(c, t)'
  BY <1>1, <1>2, <1>10 DEF ClientOK, SlotOK, OfOneState
<1>5. DiskOK(c)'
  BY <1>1, <1>2, <1>10 DEF ClientOK, DiskOK, OfOneState
<1>6. ClientOK(c)'
  BY <1>3, <1>4, <1>5 DEF ClientOK
<1>7. PICK x \in [Slots -> Exchange \cup {Idle}] : x = ex'[c] /\ ex' = [ex EXCEPT ![c] = x]
  BY <1>2
<1>8. changes' \in 0..MaxChanges /\ torn' \subseteq Clients
  BY <1>1 DEF TypeOK
<1>9. /\ disk[c] \in Data /\ conf[c] \in SyncConfig
      /\ disk' = [disk EXCEPT ![c] = disk[c]] /\ conf' = [conf EXCEPT ![c] = conf[c]]
  BY <1>1, Typed
<1> QED BY <1>6, <1>7, <1>8, <1>9, StepOf, ZenonT(60)

-----------------------------------------------------------------------------
(* The actions *)

LEMMA MergedType ==
  ASSUME TypeOK, NEW c \in Clients, NEW new \in SyncConfig
  PROVE  Merged(c, new) \in SyncConfig
<1>1. conf[c] \in SyncConfig
  BY DEF TypeOK
<1> QED BY <1>1 DEF Merged, SyncConfig

LEMMA SettingsStep ==
  ASSUME IInv, NEW c \in Clients, SyncLogin(c) \/ \E enabled \in BOOLEAN : saveSync(c, enabled)
  PROVE  IInv'
<1>1. TypeOK /\ MaxChanges \in Nat
  BY SyncAssumption DEF IInv
<1>2. CASE SyncLogin(c)
  <2>1. PICK n \in 0..MaxChanges : n = changes'
    BY <1>1, <1>2 DEF SyncLogin, Change, TypeOK
  <2>2. [enabled |-> TRUE, token |-> n] \in SyncConfig
    BY DEF SyncConfig
  <2>3. Merged(c, [enabled |-> TRUE, token |-> n]) \in SyncConfig
    BY <1>1, <2>2, MergedType
  <2>4. conf' = [conf EXCEPT ![c] = Merged(c, [enabled |-> TRUE, token |-> n])]
    BY <1>2, <2>1 DEF SyncLogin, SaveSyncConfig
  <2> QED BY <1>2, <2>3, <2>4, ChangeSettings DEF SyncLogin
<1>3. ASSUME NEW enabled \in BOOLEAN, saveSync(c, enabled)
      PROVE  IInv'
  <2>1. [enabled |-> enabled, token |-> 0] \in SyncConfig
    BY <1>1 DEF SyncConfig
  <2>2. Merged(c, [enabled |-> enabled, token |-> 0]) \in SyncConfig
    BY <1>1, <2>1, MergedType
  <2> QED BY <1>3, <2>2, ChangeSettings DEF saveSync, SaveSyncConfig
<1> QED BY <1>2, <1>3

LEMMA BeginStep ==
  ASSUME IInv, NEW c \in Clients, NEW s \in Slots, NEW op \in {"push", "pull"}, Begin(c, s, op)
  PROVE  IInv'
<1> DEFINE v == Started(c, op)
<1>1. TypeOK /\ BlobOK /\ disk[c] \in Data /\ conf[c] \in SyncConfig /\ 0 \in Versions
  BY SyncAssumption DEF IInv, TypeOK, Versions
<1>2. v \in Exchange
  BY <1>1 DEF Started, Exchange, Data, InState, SyncConfig
<1>3. /\ v.pc = (IF op = "push" THEN "read" ELSE "get") /\ v.token = conf[c].token
      /\ op = "push" => v.data.hosts = disk[c].hosts /\ (v.clean => c \notin torn /\ ~HalfWritten(c))
  BY DEF Started
<1>4. conf[c].enabled = TRUE
  BY <1>1 DEF Begin, syncURL, SyncConfig
<1> HIDE DEF v
<1>5. ex' = [ex EXCEPT ![c][s] = v] /\ UNCHANGED <<disk, conf, changes, torn, blob>>
  BY DEF Begin, v
<1>6. ~At(c, s, "vault")
  BY DEF Begin, At
<1>7. BlobOK' /\ blob' \in [data : Data \ {InState(0)}, clean : BOOLEAN] \cup {None}
  BY <1>1, <1>5 DEF BlobOK, TypeOK
<1>8. v.pc \in {"read", "get"} /\ (v.pc = "read" => op = "push")
  BY <1>3
<1> QED BY <1>2, <1>3, <1>4, <1>5, <1>6, <1>7, <1>8, QuietStep

LEMMA ReadVaultStep ==
  ASSUME IInv, NEW c \in Clients, NEW s \in Slots, ReadVault(c, s)
  PROVE  IInv'
<1> DEFINE v == [ex[c][s] EXCEPT !.pc = "put", !.data.vault = disk[c].vault]
<1>1. /\ TypeOK /\ BlobOK /\ SlotOK(c, s) /\ DiskOK(c) /\ disk[c] \in Data
      /\ ex[c][s] # Idle /\ ex[c][s] \in Exchange /\ ex[c][s].pc = "read"
      /\ ex[c][s].data \in Data
  BY DEF IInv, ClientOK, TypeOK, ReadVault, At, Exchange
<1>2. /\ v \in Exchange /\ v.pc = "put" /\ v.token = ex[c][s].token
      /\ v.data.hosts = ex[c][s].data.hosts /\ v.data.vault = disk[c].vault
      /\ v.fresh = ex[c][s].fresh /\ v.clean = ex[c][s].clean
  BY <1>1 DEF Exchange, Data
<1>3. v.data # InState(0)
  BY <1>1, <1>2 DEF ReadVault, InState
<1>4. ex' = [ex EXCEPT ![c][s] = v] /\ UNCHANGED <<disk, conf, changes, torn, blob>>
  <2> DEFINE e == [ex EXCEPT ![c][s].pc = "put"]
  <2>1. e = [ex EXCEPT ![c][s] = [ex[c][s] EXCEPT !.pc = "put"]]
    BY <1>1 DEF TypeOK
  <2>2. e[c][s] = [ex[c][s] EXCEPT !.pc = "put"] /\ e[c][s].data = ex[c][s].data
    BY <1>1, <2>1 DEF TypeOK, Exchange
  <2>3. ex' = [e EXCEPT ![c][s].data.vault = disk[c].vault]
    BY DEF ReadVault
  <2>4. v = [e[c][s] EXCEPT !.data.vault = disk[c].vault]
    BY <1>1, <2>2 DEF Exchange
  <2> HIDE DEF e, v
  <2>5. ex' = [e EXCEPT ![c][s] = v]
    BY <2>3, <2>4
  <2>6. [e EXCEPT ![c][s] = v] = [ex EXCEPT ![c][s] = v]
    BY <1>1, <2>1 DEF TypeOK
  <2> QED BY <2>5, <2>6 DEF ReadVault
<1> HIDE DEF v
<1>5. v.clean => OfOneState(v.data)
  BY <1>1, <1>2 DEF SlotOK, DiskOK, OfOneState
<1>6. ~At(c, s, "vault")
  BY <1>1 DEF At
<1>7. BlobOK' /\ blob' \in [data : Data \ {InState(0)}, clean : BOOLEAN] \cup {None}
  BY <1>1, <1>4 DEF BlobOK, TypeOK
<1>8. v.fresh => conf[c].enabled = TRUE /\ conf[c].token = v.token
  BY <1>1, <1>2 DEF SlotOK
<1> QED BY <1>2, <1>3, <1>4, <1>5, <1>6, <1>7, <1>8, QuietStep

\* What an exchange holds once its data is where it belongs.
LEMMA DoneType ==
  ASSUME TypeOK, NEW c \in Clients, NEW s \in Slots, ex[c][s] # Idle, Done(c, s)
  PROVE  \E v \in Exchange :
           /\ ex' = [ex EXCEPT ![c][s] = v] /\ v.pc = "save" /\ v.token = ex[c][s].token
           /\ v.fresh = ex[c][s].fresh
<1> DEFINE v == [ex[c][s] EXCEPT !.pc = "save", !.data = InState(0), !.clean = TRUE]
<1>1. ex[c][s] \in Exchange /\ InState(0) \in Data
  BY SyncAssumption DEF TypeOK, InState, Data, Versions
<1>2. v \in Exchange /\ v.pc = "save" /\ v.token = ex[c][s].token /\ v.fresh = ex[c][s].fresh
  BY <1>1 DEF Exchange
<1>3. ex' = [ex EXCEPT ![c][s] = v]
  BY DEF Done
<1> HIDE DEF v
<1> QED BY <1>2, <1>3

LEMMA PutStep ==
  ASSUME IInv, NEW c \in Clients, NEW s \in Slots, Put(c, s)
  PROVE  IInv'
<1>1. /\ TypeOK /\ SlotOK(c, s) /\ ex[c][s] # Idle /\ ex[c][s] \in Exchange
      /\ ex[c][s].pc = "put" /\ ~At(c, s, "vault")
      /\ UNCHANGED <<disk, conf, changes, torn>>
      /\ blob' = [data |-> ex[c][s].data, clean |-> ex[c][s].clean]
  BY DEF IInv, ClientOK, TypeOK, Put, At
<1>2. blob' \in [data : Data \ {InState(0)}, clean : BOOLEAN] \cup {None}
  BY <1>1 DEF SlotOK, Exchange
<1>3. BlobOK'
  BY <1>1 DEF BlobOK, SlotOK
<1>4. CASE Done(c, s)
  <2>1. PICK v \in Exchange :
          /\ ex' = [ex EXCEPT ![c][s] = v] /\ v.pc = "save" /\ v.token = ex[c][s].token
          /\ v.fresh = ex[c][s].fresh
    BY <1>1, <1>4, DoneType
  <2>2. v.fresh => conf[c].enabled = TRUE /\ conf[c].token = v.token
    BY <1>1, <2>1 DEF SlotOK
  <2> QED BY <1>1, <1>2, <1>3, <2>1, <2>2, QuietStep
<1>5. CASE End(c, s)
  <2>1. PICK v \in Exchange \cup {Idle} : v = Idle /\ ex' = [ex EXCEPT ![c][s] = v]
    BY <1>5 DEF End
  <2> QED BY <1>1, <1>2, <1>3, <2>1, QuietStep
<1> QED BY <1>4, <1>5 DEF Put

LEMMA GetStep ==
  ASSUME IInv, NEW c \in Clients, NEW s \in Slots, Get(c, s)
  PROVE  IInv'
<1> DEFINE v == [ex[c][s] EXCEPT !.pc = "hosts", !.data = blob.data, !.clean = blob.clean]
<1>1. /\ TypeOK /\ BlobOK /\ SlotOK(c, s) /\ ex[c][s] # Idle /\ ex[c][s] \in Exchange
      /\ ex[c][s].pc = "get" /\ ~At(c, s, "vault") /\ blob # None
      /\ blob.data \in Data /\ blob.clean \in BOOLEAN
  BY DEF IInv, ClientOK, TypeOK, Get, At
<1>2. /\ v \in Exchange /\ v.pc = "hosts" /\ v.token = ex[c][s].token
      /\ v.data = blob.data /\ v.fresh = ex[c][s].fresh /\ v.clean = blob.clean
  BY <1>1 DEF Exchange
<1>3. ex' = [ex EXCEPT ![c][s] = v] /\ UNCHANGED <<disk, conf, changes, torn, blob>>
  BY <1>1 DEF Get, TypeOK
<1> HIDE DEF v
<1>4. v.clean => OfOneState(v.data)
  BY <1>1, <1>2 DEF BlobOK
<1>5. BlobOK' /\ blob' \in [data : Data \ {InState(0)}, clean : BOOLEAN] \cup {None}
  BY <1>1, <1>3 DEF BlobOK, TypeOK
<1>6. v.fresh => conf[c].enabled = TRUE /\ conf[c].token = v.token
  BY <1>1, <1>2 DEF SlotOK
<1> QED BY <1>1, <1>2, <1>3, <1>4, <1>5, <1>6, QuietStep

\* Exchanges between their two reads or two writes are not clean any longer.
LEMMA MixingFacts ==
  ASSUME TypeOK, NEW c \in Clients, NEW x, x = Mixing(c)
  PROVE  /\ x \in [Slots -> Exchange \cup {Idle}]
         /\ \A s \in Slots : (x[s] = Idle) <=> (ex[c][s] = Idle)
         /\ \A s \in Slots : x[s] # Idle =>
              /\ x[s].fresh = ex[c][s].fresh /\ x[s].pc = ex[c][s].pc
              /\ x[s].token = ex[c][s].token /\ x[s].data = ex[c][s].data
              /\ x[s].clean => ex[c][s].clean /\ ex[c][s].pc \notin {"read", "vault"}
<1>1. \A s \in Slots : ex[c][s] \in Exchange \cup {Idle} /\ Idle \notin Exchange
  BY SyncAssumption DEF TypeOK
<1>2. \A e \in Exchange : /\ [e EXCEPT !.clean = FALSE] \in Exchange
                          /\ [e EXCEPT !.clean = FALSE].fresh = e.fresh
                          /\ [e EXCEPT !.clean = FALSE].pc = e.pc
                          /\ [e EXCEPT !.clean = FALSE].token = e.token
                          /\ [e EXCEPT !.clean = FALSE].data = e.data
                          /\ [e EXCEPT !.clean = FALSE].clean = FALSE
  BY DEF Exchange
<1>3. ASSUME NEW s \in Slots
      PROVE  /\ x[s] \in Exchange \cup {Idle}
             /\ (x[s] = Idle) <=> (ex[c][s] = Idle)
             /\ x[s] # Idle =>
                  /\ x[s].fresh = ex[c][s].fresh /\ x[s].pc = ex[c][s].pc
                  /\ x[s].token = ex[c][s].token /\ x[s].data = ex[c][s].data
                  /\ x[s].clean => ex[c][s].clean /\ ex[c][s].pc \notin {"read", "vault"}
  <2>1. CASE At(c, s, "read") \/ At(c, s, "vault")
    <3>1. x[s] = [ex[c][s] EXCEPT !.clean = FALSE] /\ ex[c][s] \in Exchange
      BY <1>1, <2>1 DEF Mixing, At
    <3> QED BY <1>1, <1>2, <3>1
  <2>2. CASE ~(At(c, s, "read") \/ At(c, s, "vault"))
    <3>1. x[s] = ex[c][s]
      BY <2>2 DEF Mixing
    <3> QED BY <1>1, <2>2, <3>1 DEF At
  <2> QED BY <2>1, <2>2
<1>4. x = [s \in Slots |-> x[s]]
  BY DEF Mixing
<1> QED BY <1>3, <1>4

LEMMA WriteHostsStep ==
  ASSUME IInv, NEW c \in Clients, NEW s \in Slots, WriteHosts(c, s)
  PROVE  IInv'
<1>1. /\ TypeOK /\ BlobOK /\ ClientOK(c) /\ ex[c][s] # Idle /\ ex[c][s].pc = "hosts"
      /\ ex[c][s] \in Exchange /\ ex[c][s].data \in Data /\ disk[c] \in Data
      /\ UNCHANGED <<conf, blob, changes, torn>>
  BY DEF IInv, TypeOK, WriteHosts, At, Exchange
<1>2. PICK m : m = Mixing(c)
  OBVIOUS
<1>3. /\ m \in [Slots -> Exchange \cup {Idle}]
      /\ \A t \in Slots : (m[t] = Idle) <=> (ex[c][t] = Idle)
      /\ \A t \in Slots : m[t] # Idle =>
           /\ m[t].fresh = ex[c][t].fresh /\ m[t].pc = ex[c][t].pc
           /\ m[t].token = ex[c][t].token /\ m[t].data = ex[c][t].data
           /\ m[t].clean => ex[c][t].clean /\ ex[c][t].pc \notin {"read", "vault"}
  BY <1>1, <1>2, MixingFacts
<1>4. m[s] \in Exchange /\ m[s] # Idle
  BY <1>1, <1>3
<1> DEFINE v == [m[s] EXCEPT !.pc = "vault"]
           x == [m EXCEPT ![s] = v]
           files == [disk[c] EXCEPT !.hosts = ex[c][s].data.hosts]
<1>5. /\ v \in Exchange /\ v.pc = "vault" /\ v.fresh = m[s].fresh /\ v.token = m[s].token
      /\ v.data = m[s].data /\ v.clean = m[s].clean
  BY <1>4 DEF Exchange
<1>6. files \in Data /\ files.hosts = ex[c][s].data.hosts
  BY <1>1 DEF Data
<1>7. ex' = [ex EXCEPT ![c] = x] /\ disk' = [disk EXCEPT ![c] = files]
  BY <1>1, <1>2, <1>3 DEF WriteHosts, TypeOK
<1> HIDE DEF v, files
<1>8. /\ x \in [Slots -> Exchange \cup {Idle}] /\ x[s] = v
      /\ \A t \in Slots \ {s} : x[t] = m[t]
  BY <1>3, <1>5
<1> HIDE DEF x
<1>9. ex'[c] = x /\ disk'[c] = files /\ conf'[c] = conf[c]
  BY <1>1, <1>7 DEF TypeOK
<1>10. HalfWritten(c)'
  BY <1>5, <1>8, <1>9, SyncAssumption DEF HalfWritten, At
<1>11. SlotOK(c, s)'
  BY <1>1, <1>3, <1>4, <1>5, <1>6, <1>8, <1>9 DEF ClientOK, SlotOK, OfOneState
<1>12. ASSUME NEW t \in Slots \ {s}
       PROVE  SlotOK(c, t)'
  BY <1>1, <1>3, <1>8, <1>9 DEF ClientOK, SlotOK, OfOneState
<1>13. ClientOK(c)'
  BY <1>10, <1>11, <1>12 DEF ClientOK, DiskOK
<1>14. conf' = [conf EXCEPT ![c] = conf[c]] /\ conf[c] \in SyncConfig
  BY <1>1, Typed
<1> QED BY <1>1, <1>6, <1>7, <1>8, <1>13, <1>14, StepOf DEF TypeOK, BlobOK

LEMMA WriteVaultStep ==
  ASSUME IInv, NEW c \in Clients, NEW s \in Slots, WriteVault(c, s)
  PROVE  IInv'
<1>1. /\ TypeOK /\ BlobOK /\ ClientOK(c) /\ ex[c][s] # Idle /\ ex[c][s].pc = "vault"
      /\ ex[c][s] \in Exchange /\ ex[c][s].data \in Data /\ disk[c] \in Data
      /\ UNCHANGED <<conf, blob, changes>> /\ HalfWritten(c)
      /\ torn' = IF ex[c][s].clean THEN torn \ {c} ELSE torn \cup {c}
  BY DEF IInv, TypeOK, WriteVault, At, Exchange, HalfWritten
<1>2. PICK v \in Exchange :
        /\ ex' = [ex EXCEPT ![c][s] = v] /\ v.pc = "save" /\ v.token = ex[c][s].token
        /\ v.fresh = ex[c][s].fresh
  BY <1>1, DoneType DEF WriteVault
<1> DEFINE x == [ex[c] EXCEPT ![s] = v]
           files == [disk[c] EXCEPT !.vault = ex[c][s].data.vault]
<1>3. files \in Data /\ files.vault = ex[c][s].data.vault /\ files.hosts = disk[c].hosts
  BY <1>1 DEF Data
<1>4. ex' = [ex EXCEPT ![c] = x] /\ disk' = [disk EXCEPT ![c] = files]
  BY <1>1, <1>2 DEF WriteVault, TypeOK
<1> HIDE DEF files
<1>5. /\ x \in [Slots -> Exchange \cup {Idle}] /\ x[s] = v
      /\ \A t \in Slots \ {s} : x[t] = ex[c][t]
  BY <1>1, Typed
<1> HIDE DEF x
<1>6. ex'[c] = x /\ disk'[c] = files /\ conf'[c] = conf[c]
  BY <1>1, <1>4 DEF TypeOK
<1>7. SlotOK(c, s)'
  BY <1>1, <1>2, <1>5, <1>6 DEF ClientOK, SlotOK
<1>8. ASSUME NEW t \in Slots \ {s}
      PROVE  SlotOK(c, t)'
  BY <1>1, <1>3, <1>5, <1>6 DEF ClientOK, SlotOK, OfOneState
<1>9. DiskOK(c)'
  <2>1. CASE ex[c][s].clean
    BY <1>1, <1>3, <1>6, <2>1 DEF ClientOK, SlotOK, DiskOK, OfOneState
  <2>2. CASE ~ex[c][s].clean
    BY <1>1, <2>2 DEF DiskOK
  <2> QED BY <2>1, <2>2
<1>10. ClientOK(c)'
  BY <1>7, <1>8, <1>9 DEF ClientOK
<1>11. conf' = [conf EXCEPT ![c] = conf[c]] /\ conf[c] \in SyncConfig
  BY <1>1, Typed
<1>12. torn' \subseteq Clients /\ \A d \in Clients \ {c} : d \in torn' <=> d \in torn
  BY <1>1 DEF TypeOK
<1> QED BY <1>1, <1>3, <1>4, <1>5, <1>10, <1>11, <1>12, StepOf DEF TypeOK, BlobOK

\* A fresh exchange saves what is there.
LEMMA FreshSaves ==
  ASSUME IInv, NEW c \in Clients, NEW s \in Slots, SaveLastSync(c, s), ex[c][s].fresh
  PROVE  conf' = conf
<1>1. /\ TypeOK /\ SlotOK(c, s) /\ ex[c][s] # Idle /\ conf[c] \in SyncConfig
  BY DEF IInv, ClientOK, TypeOK, SaveLastSync, At
<1>2. conf[c].enabled = TRUE /\ conf[c].token = ex[c][s].token
  BY <1>1 DEF SlotOK
<1>3. conf[c] = [enabled |-> TRUE, token |-> ex[c][s].token]
  BY <1>1, <1>2 DEF SyncConfig
<1>4. Merged(c, [enabled |-> TRUE, token |-> ex[c][s].token]) = conf[c]
  BY <1>3 DEF Merged
<1>5. conf' = [conf EXCEPT ![c] = conf[c]]
  BY <1>4 DEF SaveLastSync, SaveSyncConfig
<1> QED BY <1>1, <1>5 DEF TypeOK

LEMMA SaveLastSyncStep ==
  ASSUME IInv, NEW c \in Clients, NEW s \in Slots, SaveLastSync(c, s)
  PROVE  IInv'
<1>1. /\ TypeOK /\ BlobOK /\ ClientOK(c) /\ ex[c][s] # Idle /\ ex[c][s].pc = "save"
      /\ ex[c][s] \in Exchange /\ UNCHANGED <<disk, blob, changes, torn>>
  BY DEF IInv, TypeOK, SaveLastSync, At
<1>2. PICK rest : rest = IF ex[c][s].fresh THEN ex[c] ELSE Outdated(c)
  OBVIOUS
<1> DEFINE x == [rest EXCEPT ![s] = Idle]
<1>3. /\ rest \in [Slots -> Exchange \cup {Idle}]
      /\ \A t \in Slots : rest[t] # Idle =>
           /\ ex[c][t] # Idle /\ rest[t].pc = ex[c][t].pc
           /\ rest[t].data = ex[c][t].data /\ rest[t].clean = ex[c][t].clean
           /\ rest[t].fresh => ex[c][s].fresh /\ rest[t] = ex[c][t]
      /\ \A t \in Slots : rest[t] = Idle => ex[c][t] = Idle
  <2>1. CASE ex[c][s].fresh
    BY <1>1, <1>2, <2>1, Typed
  <2>2. CASE ~ex[c][s].fresh
    <3>1. TypeOK /\ rest = Outdated(c)
      BY <1>1, <1>2, <2>2
    <3> QED BY <2>2, <3>1, OutdatedFacts
  <2> QED BY <2>1, <2>2
<1>4. /\ x \in [Slots -> Exchange \cup {Idle}] /\ x[s] = Idle
      /\ \A t \in Slots \ {s} : x[t] = rest[t]
  BY <1>3
<1>5. ex' = [ex EXCEPT ![c] = x]
  BY <1>2 DEF SaveLastSync
<1> HIDE DEF x
<1>6. PICK cfg \in SyncConfig : conf' = [conf EXCEPT ![c] = cfg]
  <2>1. [enabled |-> TRUE, token |-> ex[c][s].token] \in SyncConfig
    BY <1>1 DEF Exchange, SyncConfig
  <2>2. Merged(c, [enabled |-> TRUE, token |-> ex[c][s].token]) \in SyncConfig
    BY <1>1, <2>1, MergedType
  <2> QED BY <2>2 DEF SaveLastSync, SaveSyncConfig
<1>7. ex'[c] = x /\ disk'[c] = disk[c]
  BY <1>1, <1>5 DEF TypeOK
<1>8. HalfWritten(c)' <=> HalfWritten(c)
  <2>1. \A t \in Slots : At(c, t, "vault")' <=> At(c, t, "vault")
    BY <1>1, <1>3, <1>4, <1>7 DEF At
  <2> QED BY <2>1 DEF HalfWritten
<1>9. ASSUME NEW t \in Slots
      PROVE  SlotOK(c, t)'
  <2>1. CASE x[t] = Idle
    BY <1>7, <2>1 DEF SlotOK
  <2>2. CASE x[t] # Idle
    <3>1. t # s /\ x[t] = rest[t] /\ SlotOK(c, t)
      BY <1>1, <1>4, <2>2 DEF ClientOK
    <3>2. /\ ex[c][t] # Idle /\ x[t].pc = ex[c][t].pc
          /\ x[t].data = ex[c][t].data /\ x[t].clean = ex[c][t].clean
          /\ x[t].fresh => ex[c][s].fresh /\ x[t] = ex[c][t]
      BY <1>3, <2>2, <3>1
    <3>3. ex[c][s].fresh => conf' = conf
      BY FreshSaves
    <3> QED BY <1>1, <1>7, <1>8, <3>1, <3>2, <3>3 DEF SlotOK, OfOneState
  <2> QED BY <2>1, <2>2
<1>10. ClientOK(c)'
  BY <1>1, <1>7, <1>8, <1>9 DEF ClientOK, DiskOK, OfOneState
<1>11. disk' = [disk EXCEPT ![c] = disk[c]] /\ disk[c] \in Data
  BY <1>1, Typed
<1> QED BY <1>1, <1>4, <1>5, <1>6, <1>10, <1>11, StepOf DEF TypeOK, BlobOK

LEMMA FailStep ==
  ASSUME IInv, NEW c \in Clients, NEW s \in Slots, Fail(c, s)
  PROVE  IInv'
<1>1. /\ TypeOK /\ BlobOK /\ ClientOK(c) /\ ex[c][s] # Idle
      /\ UNCHANGED <<disk, conf, blob, changes>>
      /\ torn' = IF At(c, s, "vault") THEN torn \cup {c} ELSE torn
  BY DEF IInv, Fail
<1>2. PICK v \in Exchange \cup {Idle} : v = Idle /\ ex' = [ex EXCEPT ![c][s] = v]
  BY DEF Fail, End
<1>3. BlobOK' /\ blob' \in [data : Data \ {InState(0)}, clean : BOOLEAN] \cup {None}
  BY <1>1 DEF BlobOK, TypeOK
<1>4. CASE ~At(c, s, "vault")
  BY <1>1, <1>2, <1>3, <1>4, QuietStep
<1>5. CASE At(c, s, "vault")
  <2> DEFINE x == [ex[c] EXCEPT ![s] = Idle]
  <2>1. /\ x \in [Slots -> Exchange \cup {Idle}] /\ x[s] = Idle
        /\ \A t \in Slots \ {s} : x[t] = ex[c][t]
    BY <1>1, Typed
  <2>2. ex' = [ex EXCEPT ![c] = x]
    BY DEF Fail, End
  <2> HIDE DEF x
  <2>3. ex'[c] = x /\ disk'[c] = disk[c] /\ conf'[c] = conf[c] /\ HalfWritten(c) /\ c \in torn'
    BY <1>1, <1>5, <2>2 DEF TypeOK, HalfWritten
  <2>4. \A t \in Slots : SlotOK(c, t)'
    BY <1>1, <2>1, <2>3 DEF ClientOK, SlotOK, OfOneState
  <2>5. ClientOK(c)'
    BY <2>3, <2>4 DEF ClientOK, DiskOK
  <2>6. /\ disk' = [disk EXCEPT ![c] = disk[c]] /\ disk[c] \in Data
        /\ conf' = [conf EXCEPT ![c] = conf[c]] /\ conf[c] \in SyncConfig
    BY <1>1, Typed
  <2>7. torn' \subseteq Clients /\ \A d \in Clients \ {c} : d \in torn' <=> d \in torn
    BY <1>1 DEF TypeOK
  <2> QED BY <1>1, <1>3, <2>1, <2>2, <2>5, <2>6, <2>7, StepOf DEF TypeOK
<1> QED BY <1>4, <1>5

LEMMA EditStep ==
  ASSUME IInv, NEW c \in Clients, Edit(c)
  PROVE  IInv'
<1>1. TypeOK /\ BlobOK /\ ClientOK(c) /\ UNCHANGED <<conf, blob>> /\ torn' = torn \ {c}
  BY DEF IInv, Edit
<1>2. PICK n \in Versions : n = changes' /\ changes' \in 0..MaxChanges
  BY <1>1, SyncAssumption DEF Edit, Change, TypeOK, Versions
<1>3. PICK m : m = Mixing(c)
  OBVIOUS
<1>4. /\ m \in [Slots -> Exchange \cup {Idle}]
      /\ \A t \in Slots : (m[t] = Idle) <=> (ex[c][t] = Idle)
      /\ \A t \in Slots : m[t] # Idle =>
           /\ m[t].fresh = ex[c][t].fresh /\ m[t].pc = ex[c][t].pc
           /\ m[t].token = ex[c][t].token /\ m[t].data = ex[c][t].data
           /\ m[t].clean => ex[c][t].clean /\ ex[c][t].pc \notin {"read", "vault"}
  BY <1>1, <1>3, MixingFacts
<1>5. InState(n) \in Data /\ OfOneState(InState(n))
  BY DEF InState, Data, OfOneState
<1>6. ex' = [ex EXCEPT ![c] = m] /\ disk' = [disk EXCEPT ![c] = InState(n)]
  BY <1>2, <1>3 DEF Edit
<1>7. ex'[c] = m /\ disk'[c] = InState(n) /\ conf'[c] = conf[c]
  BY <1>1, <1>6 DEF TypeOK
<1>8. \A t \in Slots : SlotOK(c, t)'
  BY <1>1, <1>4, <1>7 DEF ClientOK, SlotOK, OfOneState
<1>9. ClientOK(c)'
  BY <1>5, <1>7, <1>8 DEF ClientOK, DiskOK, OfOneState
<1>10. conf' = [conf EXCEPT ![c] = conf[c]] /\ conf[c] \in SyncConfig
  BY <1>1, Typed
<1> QED BY <1>1, <1>2, <1>4, <1>5, <1>6, <1>9, <1>10, StepOf DEF TypeOK, BlobOK

LEMMA RestartStep ==
  ASSUME IInv, NEW c \in Clients, Restart(c)
  PROVE  IInv'
<1> DEFINE x == [s \in Slots |-> Idle]
<1>1. /\ TypeOK /\ BlobOK /\ ClientOK(c) /\ UNCHANGED <<disk, conf, blob, changes>>
      /\ torn' = IF HalfWritten(c) THEN torn \cup {c} ELSE torn
      /\ ex' = [ex EXCEPT ![c] = x]
  BY DEF IInv, Restart
<1>2. x \in [Slots -> Exchange \cup {Idle}] /\ \A s \in Slots : x[s] = Idle
  OBVIOUS
<1> HIDE DEF x
<1>3. ex'[c] = x /\ disk'[c] = disk[c]
  BY <1>1 DEF TypeOK
<1>4. DiskOK(c)'
  BY <1>1, <1>3 DEF ClientOK, DiskOK, OfOneState
<1>5. ClientOK(c)'
  BY <1>2, <1>3, <1>4 DEF ClientOK, SlotOK
<1>6. /\ disk' = [disk EXCEPT ![c] = disk[c]] /\ disk[c] \in Data
      /\ conf' = [conf EXCEPT ![c] = conf[c]] /\ conf[c] \in SyncConfig
  BY <1>1, Typed
<1>7. torn' \subseteq Clients /\ \A d \in Clients \ {c} : d \in torn' <=> d \in torn
  BY <1>1 DEF TypeOK
<1> QED BY <1>1, <1>2, <1>5, <1>6, <1>7, StepOf DEF TypeOK, BlobOK

-----------------------------------------------------------------------------
(* The invariant *)

LEMMA InitOK == Init => IInv
<1> SUFFICES ASSUME Init PROVE IInv
  OBVIOUS
<1>1. 1 \in Versions /\ 0 \in Versions /\ 1 \in 0..MaxChanges
  BY SyncAssumption DEF Versions
<1>2. InState(0) \in Data /\ InState(1) \in Data
      /\ OfOneState(InState(0)) /\ OfOneState(InState(1))
  BY <1>1 DEF InState, Data, OfOneState
<1>3. TypeOK
  BY <1>1, <1>2 DEF Init, TypeOK, SyncConfig
<1>4. \A c \in Clients : ClientOK(c)
  BY <1>2 DEF Init, ClientOK, DiskOK, SlotOK
<1> QED BY <1>3, <1>4 DEF Init, IInv, BlobOK

LEMMA NextOK == IInv /\ [Next]_vars => IInv'
<1>1. ASSUME IInv, UNCHANGED vars
      PROVE  IInv'
  BY <1>1 DEF vars, IInv, TypeOK, BlobOK, ClientOK, DiskOK, SlotOK, HalfWritten, At, OfOneState
<1> QED BY <1>1, SettingsStep, BeginStep, ReadVaultStep, PutStep, GetStep, WriteHostsStep,
           WriteVaultStep, SaveLastSyncStep, FailStep, EditStep, RestartStep DEF Next

LEMMA SyncInvariant == Spec => []IInv
  BY InitOK, NextOK, PTL DEF Spec

-----------------------------------------------------------------------------
(* Theorems *)

\* Everything is of its type, and SyncPush never uploads an empty state.
THEOREM SyncTypes == Spec => []TypeOK
<1>1. IInv => TypeOK
  BY DEF IInv
<1> QED BY <1>1, SyncInvariant, PTL

\* hosts.json and vault.json, and the two parts of the blob, are of one state, unless a
\* SyncPull has ended between its writes or hosts.json was written between two reads or
\* writes of an exchange.
THEOREM FilesMatch == Spec => []FilesOfOneState
<1>1. IInv => FilesOfOneState
  BY DEF IInv, BlobOK, ClientOK, DiskOK, FilesOfOneState
<1> QED BY <1>1, SyncInvariant, PTL

\* SaveSyncConfig changes the account or the switch only for SyncLogin, for the form, and
\* for an exchange that had begun before one of them.
THEOREM SettingsLast == Spec => SettingsSurvive
<1>1. ASSUME IInv, Next, NEW c \in Clients, conf'[c] # conf[c]
      PROVE  \/ SyncLogin(c)
             \/ \E s \in Slots : SaveLastSync(c, s) /\ ~ex[c][s].fresh
             \/ \E on \in BOOLEAN : saveSync(c, on) /\ conf'[c].token = conf[c].token
  <2>1. ASSUME NEW d \in Clients, d # c, NEW cfg, conf' = [conf EXCEPT ![d] = cfg]
        PROVE  FALSE
    BY <1>1, <2>1 DEF IInv, TypeOK
  <2>2. ASSUME NEW d \in Clients, SyncLogin(d)
        PROVE  d = c
    BY <2>1, <2>2 DEF SyncLogin, SaveSyncConfig
  <2>3. ASSUME NEW d \in Clients, NEW on \in BOOLEAN, saveSync(d, on)
        PROVE  d = c /\ conf'[c].token = conf[c].token
    <3>1. d = c
      BY <2>1, <2>3 DEF saveSync, SaveSyncConfig
    <3>2. conf'[c] = Merged(c, [enabled |-> on, token |-> 0])
      BY <1>1, <2>3, <3>1 DEF saveSync, SaveSyncConfig, IInv, TypeOK
    <3> QED BY <3>1, <3>2 DEF Merged
  <2>4. ASSUME NEW d \in Clients, NEW s \in Slots, SaveLastSync(d, s)
        PROVE  d = c /\ ~ex[c][s].fresh
    <3>1. d = c
      BY <2>1, <2>4 DEF SaveLastSync, SaveSyncConfig
    <3> QED BY <1>1, <2>4, <3>1, FreshSaves
  <2>5. ASSUME UNCHANGED conf
        PROVE  FALSE
    BY <1>1, <2>5
  <2>6. PICK d \in Clients :
          \/ SyncLogin(d)
          \/ \E enabled \in BOOLEAN : saveSync(d, enabled)
          \/ \E s \in Slots : SaveLastSync(d, s)
          \/ UNCHANGED conf
    <3>1. \A d \in Clients : Edit(d) \/ Restart(d) => UNCHANGED conf
      BY DEF Edit, Restart
    <3>2. ASSUME NEW d \in Clients, NEW s \in Slots
          PROVE  /\ \A op \in {"push", "pull"} : Begin(d, s, op) => UNCHANGED conf
                 /\ ReadVault(d, s) \/ Put(d, s) \/ Get(d, s) \/ WriteHosts(d, s)
                      \/ WriteVault(d, s) \/ Fail(d, s) => UNCHANGED conf
      BY DEF Begin, ReadVault, Put, Get, WriteHosts, WriteVault, Fail
    <3> QED BY <1>1, <3>1, <3>2 DEF Next
  <2>7. CASE SyncLogin(d)
    BY <2>2, <2>7
  <2>8. CASE \E enabled \in BOOLEAN : saveSync(d, enabled)
    BY <2>3, <2>8
  <2>9. CASE \E s \in Slots : SaveLastSync(d, s)
    BY <2>4, <2>9
  <2> QED BY <2>5, <2>6, <2>7, <2>8, <2>9
<1>2. IInv /\ [Next]_vars =>
        [\A c \in Clients :
           LET Stale == \E s \in Slots : SaveLastSync(c, s) /\ ~ex[c][s].fresh
           IN  /\ conf'[c].token # conf[c].token => SyncLogin(c) \/ Stale
               /\ conf'[c].enabled # conf[c].enabled =>
                    SyncLogin(c) \/ (\E on \in BOOLEAN : saveSync(c, on)) \/ Stale]_vars
  BY <1>1 DEF vars
<1> QED BY <1>2, SyncInvariant, PTL DEF SettingsSurvive, Spec
=============================================================================
