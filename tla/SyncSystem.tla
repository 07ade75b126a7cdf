----------------------------- MODULE SyncSystem -----------------------------
(***************************************************************************)
(* Several clients that keep one account in sync: SyncPush, SyncPull,      *)
(* SyncLogin and the configuration in sync.json (client/appservice.go),    *)
(* autoSync and the buttons of the user interface (App.tsx), and the       *)
(* account's blob on the server, whose details are in SyncStore.           *)
(*                                                                         *)
(* An exchange is a running SyncPush or SyncPull.  It takes no mutex: it   *)
(* works on the copy of the configuration it has read, reads hosts.json    *)
(* and vault.json one after the other, and writes them so.  autoSync and a *)
(* button may each start one at a client, so that they overlap.            *)
(*                                                                         *)
(* Every edit leaves hosts.json and vault.json in a new state; what a file *)
(* holds is the number of its state.  Two numbers in the two files of a    *)
(* client, or in a blob, are of no state any user has left.  0 is empty.   *)
(* A token stands for endpoint, account and passphrase, too.  That the     *)
(* server refuses one, that a blob cannot be decrypted or the local vault  *)
(* is locked are failures like any others.  LastSync is left out: autoSync *)
(* uploads only if it is set, a button whether or not.                     *)
(***************************************************************************)
EXTENDS Naturals, FiniteSets

CONSTANTS Clients,
          MaxChanges, \* bound on logins, edits and switching sync on or off
          Slots,      \* for the exchanges of a client
          MaxRunning, \* bound on exchanges that run at the same time
          None, Idle

VARIABLES disk,     \* hosts.json and vault.json of a client
          conf,     \* its sync.json
          ex,       \* its exchanges
          blob,     \* the sync data on the server
          changes,  \* changes so far, the number of the last one
          torn      \* history: clients whose files an exchange has left in two states

vars == <<disk, conf, ex, blob, changes, torn>>

Versions == 0..MaxChanges
Data == [hosts : Versions, vault : Versions]
InState(n) == [hosts |-> n, vault |-> n]

\* Token 0 is none.
SyncConfig == [enabled : BOOLEAN, token : 0..MaxChanges]

\* fresh is history: the configuration has not been changed since the exchange read it.
\* clean, too, is history: nothing has mixed two states in what it has read or written.
Exchange == [pc : {"read", "put", "get", "hosts", "vault", "save"}, token : 0..MaxChanges,
             data : Data, fresh : BOOLEAN, clean : BOOLEAN]

\* The configuration the clients have been set up with is change 1.
ASSUME SyncAssumption ==
  /\ MaxChanges \in Nat \ {0} /\ MaxRunning \in Nat
  /\ Idle \notin Exchange /\ None \notin [data : Data, clean : BOOLEAN]

-----------------------------------------------------------------------------
(* The configuration *)

\* Faulty variant: an empty field is saved as empty.
MergedBlank(c, new) == new

\* SaveSyncConfig: the user interface never sees the secrets, an empty field keeps
\* what is in the file.
Merged(c, new) == [new EXCEPT !.token = IF @ = 0 THEN conf[c].token ELSE @]

SaveSyncConfig(c, new) == conf' = [conf EXCEPT ![c] = Merged(c, new)]

\* The settings change: what the exchanges of the client have read is older.
Outdated(c) ==
  [s \in Slots |-> IF ex[c][s] = Idle THEN Idle ELSE [ex[c][s] EXCEPT !.fresh = FALSE]]

\* The user does something.
Change == changes < MaxChanges /\ changes' = changes + 1

\* SyncLogin, once the server has sent a token
SyncLogin(c) ==
  /\ Change
  /\ SaveSyncConfig(c, [enabled |-> TRUE, token |-> changes'])
  /\ ex' = [ex EXCEPT ![c] = Outdated(c)]
  /\ UNCHANGED <<disk, blob, torn>>

\* saveSync of the user interface, which does not have the token
saveSync(c, enabled) ==
  /\ Change
  /\ SaveSyncConfig(c, [enabled |-> enabled, token |-> 0])
  /\ ex' = [ex EXCEPT ![c] = Outdated(c)]
  /\ UNCHANGED <<disk, blob, torn>>

-----------------------------------------------------------------------------
(* Exchanges *)

\* A configuration that is switched off or has no account is refused.
syncURL(cfg) == cfg.enabled /\ cfg.token # 0

At(c, s, pc) == ex[c][s] # Idle /\ ex[c][s].pc = pc

\* An exchange is between its two writes.
HalfWritten(c) == \E s \in Slots : At(c, s, "vault")

\* A push has read hosts.json.
Started(c, op) ==
  [pc |-> IF op = "push" THEN "read" ELSE "get", token |-> conf[c].token,
   data |-> IF op = "push" THEN [hosts |-> disk[c].hosts, vault |-> 0] ELSE InState(0),
   fresh |-> TRUE, clean |-> op = "push" => c \notin torn /\ ~HalfWritten(c)]

Running == {x \in Clients \X Slots : ex[x[1]][x[2]] # Idle}

\* autoSync, pushSync and pullSync call SyncPush or SyncPull.
Begin(c, s, op) ==
  /\ ex[c][s] = Idle /\ Cardinality(Running) < MaxRunning
  /\ syncURL(conf[c])
  /\ ex' = [ex EXCEPT ![c][s] = Started(c, op)]
  /\ UNCHANGED <<disk, conf, blob, changes, torn>>

End(c, s) == ex' = [ex EXCEPT ![c][s] = Idle]

\* The data is where it belongs.
Done(c, s) ==
  ex' = [ex EXCEPT ![c][s] = [@ EXCEPT !.pc = "save", !.data = InState(0), !.clean = TRUE]]

\* The call returns an error: the network, the server or a file fails, or the vault
\* has been locked.
Fail(c, s) ==
  /\ ex[c][s] # Idle
  /\ End(c, s)
  /\ torn' = IF At(c, s, "vault") THEN torn \cup {c} ELSE torn
  /\ UNCHANGED <<disk, conf, blob, changes>>

\* Faulty variant: an empty device uploads, too.
ReadVaultOfAny(c, s) ==
  /\ At(c, s, "read")
  /\ ex' = [ex EXCEPT ![c][s].pc = "put", ![c][s].data.vault = disk[c].vault]
  /\ UNCHANGED <<disk, conf, blob, changes, torn>>

\* SyncPush reads vault.json.  Nothing to upload is an error.
ReadVault(c, s) ==
  /\ At(c, s, "read")
  /\ ex[c][s].data.hosts # 0 \/ disk[c].vault # 0
  /\ ex' = [ex EXCEPT ![c][s].pc = "put", ![c][s].data.vault = disk[c].vault]
  /\ UNCHANGED <<disk, conf, blob, changes, torn>>

\* The server stores the blob; the answer may be lost.
Put(c, s) ==
  /\ At(c, s, "put")
  /\ blob' = [data |-> ex[c][s].data, clean |-> ex[c][s].clean]
  /\ Done(c, s) \/ End(c, s)
  /\ UNCHANGED <<disk, conf, changes, torn>>

\* The server sends its blob, and the client can decrypt it.
Get(c, s) ==
  /\ At(c, s, "get")
  /\ blob # None
  /\ ex' = [ex EXCEPT ![c][s].pc = "hosts", ![c][s].data = blob.data, ![c][s].clean = blob.clean]
  /\ UNCHANGED <<disk, conf, blob, changes, torn>>

\* hosts.json changes under the exchanges that are between its file and the other.
Mixing(c) ==
  [s \in Slots |-> IF At(c, s, "read") \/ At(c, s, "vault")
                   THEN [ex[c][s] EXCEPT !.clean = FALSE] ELSE ex[c][s]]

\* Faulty variant: the error of the first write is not looked at.
WriteHostsOrNot(c, s) ==
  /\ At(c, s, "hosts")
  /\ disk' = [disk EXCEPT ![c].hosts = ex[c][s].data.hosts] \/ UNCHANGED disk
  /\ ex' = [ex EXCEPT ![c] = [Mixing(c) EXCEPT ![s].pc = "vault"]]
  /\ UNCHANGED <<conf, blob, changes, torn>>

WriteHosts(c, s) ==
  /\ At(c, s, "hosts")
  /\ disk' = [disk EXCEPT ![c].hosts = ex[c][s].data.hosts]
  /\ ex' = [ex EXCEPT ![c] = [Mixing(c) EXCEPT ![s].pc = "vault"]]
  /\ UNCHANGED <<conf, blob, changes, torn>>

WriteVault(c, s) ==
  /\ At(c, s, "vault")
  /\ disk' = [disk EXCEPT ![c].vault = ex[c][s].data.vault]
  /\ Done(c, s)
  /\ torn' = IF ex[c][s].clean THEN torn \ {c} ELSE torn \cup {c}
  /\ UNCHANGED <<conf, blob, changes>>

\* The configuration that was read at the beginning, when sync was on, is saved with
\* LastSync; an error is dropped.
SaveLastSync(c, s) ==
  /\ At(c, s, "save")
  /\ SaveSyncConfig(c, [enabled |-> TRUE, token |-> ex[c][s].token])
  /\ LET rest == IF ex[c][s].fresh THEN ex[c] ELSE Outdated(c)
     IN  ex' = [ex EXCEPT ![c] = [rest EXCEPT ![s] = Idle]]
  /\ UNCHANGED <<disk, blob, changes, torn>>

-----------------------------------------------------------------------------
(* The rest of the world *)

\* SaveHost, SaveVault and the deletions
Edit(c) ==
  /\ Change
  /\ disk' = [disk EXCEPT ![c] = InState(changes')]
  /\ ex' = [ex EXCEPT ![c] = Mixing(c)]
  /\ torn' = torn \ {c}
  /\ UNCHANGED <<conf, blob>>

\* The client ends, and is started again.
Restart(c) ==
  /\ ex' = [ex EXCEPT ![c] = [s \in Slots |-> Idle]]
  /\ torn' = IF HalfWritten(c) THEN torn \cup {c} ELSE torn
  /\ UNCHANGED <<disk, conf, blob, changes>>

\* Clients that have been set up, with or without data
Init ==
  /\ disk \in [Clients -> {InState(0), InState(1)}]
  /\ conf = [c \in Clients |-> [enabled |-> TRUE, token |-> 1]]
  /\ ex = [c \in Clients |-> [s \in Slots |-> Idle]]
  /\ blob = None /\ changes = 1
  /\ torn = {}

Next ==
  \/ \E c \in Clients :
       \/ SyncLogin(c)
       \/ \E enabled \in BOOLEAN : saveSync(c, enabled)
       \/ \E s \in Slots :
            \/ \E op \in {"push", "pull"} : Begin(c, s, op)
            \/ ReadVault(c, s) \/ Put(c, s)
            \/ Get(c, s) \/ WriteHosts(c, s) \/ WriteVault(c, s)
            \/ SaveLastSync(c, s) \/ Fail(c, s)
       \/ Edit(c) \/ Restart(c)

Spec == Init /\ [][Next]_vars

-----------------------------------------------------------------------------
(* Properties *)

\* Everything is of its type; the blob is never empty: "Leerer lokaler Stand wird
\* nicht hochgeladen" (appservice.go:3633).
TypeOK ==
  /\ disk \in [Clients -> Data]
  /\ conf \in [Clients -> SyncConfig]
  /\ ex \in [Clients -> [Slots -> Exchange \cup {Idle}]]
  /\ blob \in [data : Data \ {InState(0)}, clean : BOOLEAN] \cup {None}
  /\ changes \in 0..MaxChanges
  /\ torn \subseteq Clients

\* SaveSyncConfig has three callers: SyncLogin, the form of the user interface, which
\* does not have the token and must not lose it, and an exchange, which saves a copy
\* and so undoes the others, but only if it had begun before.
SettingsSurvive ==
  [][\A c \in Clients :
       LET Stale == \E s \in Slots : SaveLastSync(c, s) /\ ~ex[c][s].fresh
       IN  /\ conf'[c].token # conf[c].token => SyncLogin(c) \/ Stale
           /\ conf'[c].enabled # conf[c].enabled =>
                SyncLogin(c) \/ (\E on \in BOOLEAN : saveSync(c, on)) \/ Stale]_vars

OfOneState(data) == data.hosts = data.vault

\* Hosts name their credentials in the vault.  hosts.json and vault.json of a client
\* are of one state, and so is the blob, unless SyncPull has failed between its
\* writes, or hosts.json was written between two reads or writes of an exchange.
FilesOfOneState ==
  /\ \A c \in Clients \ torn : HalfWritten(c) \/ OfOneState(disk[c])
  /\ (blob # None /\ blob.clean) => OfOneState(blob.data)
=============================================================================
