----------------------------- MODULE KnownHosts -----------------------------
(***************************************************************************)
(* Host keys of SSH servers: the file known_hosts of the client, the check *)
(* of a key, and what the user confirms (client/appservice.go), in the two *)
(* flows of the user interface that connect, for SSH and for SFTP          *)
(* (App.tsx).                                                              *)
(*                                                                         *)
(* A flow connects.  If the key is unknown the user is asked, TrustSSHHost *)
(* saves it, and the flow connects once more.  ConnectSSH, ConnectSFTP and *)
(* TrustSSHHost make the file if there is none, read it, and dial; the key *)
(* the server shows then is checked against what has been read.  No mutex  *)
(* keeps the two flows, or the user's editor, from the file in between.    *)
(***************************************************************************)
EXTENDS Naturals, SequencesExt

CONSTANTS Hosts,      \* addresses of hosts, by name or by number
          Remote,     \* the address by number that a host has
          Keys,
          Flows,
          MaxLines,   \* bound on the lines of the file
          MaxChanges, \* bound on the changes of keys
          NoFile, Idle

VARIABLES file,      \* known_hosts
          serverKey, \* what the server at an address shows
          flow,      \* the flows of the user interface and their running call
          confirmed, \* history: hosts and keys the user has confirmed
          changes    \* changes of keys so far

vars == <<file, serverKey, flow, confirmed, changes>>

Line == [names : SUBSET Hosts, key : Keys]

\* again: the user has been asked.  db is what the call has read, fp the key the user
\* has been asked about.
Flow == [pc : {"stat", "create", "new", "dial", "ask"}, trust : BOOLEAN, again : BOOLEAN,
         host : Hosts, fp : Keys, db : Seq(Line)]

ASSUME HostsAssumption ==
  /\ Remote \in [Hosts -> Hosts]
  /\ {MaxLines, MaxChanges} \subseteq Nat
  /\ NoFile \notin Seq(Line) /\ Idle \notin Flow

-----------------------------------------------------------------------------
At(f, pc) == flow[f] # Idle /\ flow[f].pc = pc

Goto(f, pc) == flow' = [flow EXCEPT ![f].pc = pc]

\* Faulty variant: a flow that ends is still taken for running.
EndsRunning(f) == flow' = [flow EXCEPT ![f].pc = "ended"]

\* setConnectingSSH(false), setConnectingSFTP(false)
End(f) == flow' = [flow EXCEPT ![f] = Idle]

lines == IF file = NoFile THEN <<>> ELSE file

Shown(f) == serverKey[Remote[flow[f].host]]

\* External (package knownhosts): the first line of a host decides.
Verdict(db, h, k) ==
  LET of == {i \in DOMAIN db : h \in db[i].names}
  IN  CASE of = {} -> "unknown"
        [] \E i \in of : db[i].key = k /\ \A j \in of : i <= j -> "known"
        [] OTHER -> "changed"

-----------------------------------------------------------------------------
(* The calls *)

\* connectSSH and connectSFTP
Connect(f, h) ==
  /\ flow[f] = Idle
  /\ \E k \in Keys :
       flow' = [flow EXCEPT ![f] = [pc |-> "stat", trust |-> FALSE, again |-> FALSE,
                                    host |-> h, fp |-> k, db |-> <<>>]]
  /\ UNCHANGED <<file, serverKey, confirmed, changes>>

\* hostKeyCallbackWithExpectedFingerprint
Stat(f) ==
  /\ At(f, "stat")
  /\ Goto(f, IF file = NoFile THEN "create" ELSE "new")
  /\ UNCHANGED <<file, serverKey, confirmed, changes>>

\* A temporary file is renamed to its place: it replaces what is there, all at once, or
\* (Fail) nothing is changed.
secureWriteFile(content) == file' = content

\* The file that was not there is made, whatever is there by now.
Create(f) ==
  /\ At(f, "create")
  /\ secureWriteFile(<<>>)
  /\ Goto(f, "new")
  /\ UNCHANGED <<serverKey, confirmed, changes>>

New(f) ==
  /\ At(f, "new")
  /\ file # NoFile
  /\ flow' = [flow EXCEPT ![f].pc = "dial", ![f].db = file]
  /\ UNCHANGED <<file, serverKey, confirmed, changes>>

\* The call returns an error before the key is checked: no credentials, no file, no
\* connection.  After reading the file TrustSSHHost has another way to fail.
Fail(f) ==
  /\ flow[f] # Idle /\ ~At(f, "ask")
  /\ At(f, "dial") => ~flow[f].trust
  /\ End(f)
  /\ UNCHANGED <<file, serverKey, confirmed, changes>>

\* TrustSSHHost has returned without error, and the flow connects once more.
ConnectAgain(f) ==
  flow' = [flow EXCEPT ![f].pc = "stat", ![f].trust = FALSE, ![f].again = TRUE, ![f].db = <<>>]

\* Every error but two is taken for one of the time after the key was saved.
DialFails(f) ==
  /\ At(f, "dial") /\ flow[f].trust
  /\ ConnectAgain(f)
  /\ UNCHANGED <<file, serverKey, confirmed, changes>>

\* The key is known, which ends a flow, or what TrustSSHHost does.
Known(f) ==
  /\ At(f, "dial")
  /\ Verdict(flow[f].db, flow[f].host, Shown(f)) = "known"
  /\ IF flow[f].trust THEN ConnectAgain(f) ELSE End(f)
  /\ UNCHANGED <<file, serverKey, confirmed, changes>>

\* Another key is: "Verbindung blockiert".
Changed(f) ==
  /\ At(f, "dial")
  /\ Verdict(flow[f].db, flow[f].host, Shown(f)) = "changed"
  /\ End(f)
  /\ UNCHANGED <<file, serverKey, confirmed, changes>>

\* hostKeyUnknownError: the user is asked, once.
Unknown(f) ==
  /\ At(f, "dial") /\ ~flow[f].trust
  /\ Verdict(flow[f].db, flow[f].host, Shown(f)) = "unknown"
  /\ IF flow[f].again THEN End(f)
     ELSE flow' = [flow EXCEPT ![f].pc = "ask", ![f].fp = Shown(f), ![f].db = <<>>]
  /\ UNCHANGED <<file, serverKey, confirmed, changes>>

\* Faulty variant: the key is not compared with what the user was asked about.
ExpectedAny(f) == TRUE

Expected(f) == Shown(f) = flow[f].fp

\* Faulty variant: a key that has changed is added.
UntrustedOrChanged(f) == Verdict(flow[f].db, flow[f].host, Shown(f)) # "known"

Untrusted(f) == Verdict(flow[f].db, flow[f].host, Shown(f)) = "unknown"

\* appendKnownHost, if it is the key the user has confirmed
appendKnownHost(f) ==
  /\ At(f, "dial") /\ flow[f].trust
  /\ Untrusted(f) /\ Expected(f)
  /\ Len(lines) < MaxLines
  /\ LET line == [names |-> {flow[f].host, Remote[flow[f].host]}, key |-> Shown(f)]
     IN  file' = Append(lines, line)
  /\ ConnectAgain(f)
  /\ UNCHANGED <<serverKey, confirmed, changes>>

-----------------------------------------------------------------------------
(* The user and the servers *)

\* hostKeyDecision
Confirm(f) ==
  /\ At(f, "ask")
  /\ confirmed' = confirmed \cup {<<flow[f].host, flow[f].fp>>}
  /\ flow' = [flow EXCEPT ![f].pc = "stat", ![f].trust = TRUE]
  /\ UNCHANGED <<file, serverKey, changes>>

Decline(f) ==
  /\ At(f, "ask")
  /\ End(f)
  /\ UNCHANGED <<file, serverKey, confirmed, changes>>

\* External: the user removes an entry with an editor, as the error tells them, or
\* the file.
RemoveEntry(i) ==
  /\ file' = RemoveAt(lines, i)
  /\ UNCHANGED <<serverKey, flow, confirmed, changes>>

RemoveFile ==
  /\ file # NoFile
  /\ file' = NoFile
  /\ UNCHANGED <<serverKey, flow, confirmed, changes>>

\* External: a server is set up anew.
ChangeKey(a, k) ==
  /\ changes < MaxChanges /\ changes' = changes + 1
  /\ k # serverKey[a]
  /\ serverKey' = [serverKey EXCEPT ![a] = k]
  /\ UNCHANGED <<file, flow, confirmed>>

-----------------------------------------------------------------------------
Init ==
  /\ file = NoFile
  /\ serverKey \in [{Remote[h] : h \in Hosts} -> Keys]
  /\ flow = [f \in Flows |-> Idle]
  /\ confirmed = {} /\ changes = 0

Next ==
  \/ \E f \in Flows :
       \/ \E h \in Hosts : Connect(f, h)
       \/ Stat(f) \/ Create(f) \/ New(f) \/ Fail(f) \/ DialFails(f)
       \/ Known(f) \/ Changed(f) \/ Unknown(f) \/ appendKnownHost(f)
       \/ Confirm(f) \/ Decline(f)
  \/ \E i \in DOMAIN lines : RemoveEntry(i)
  \/ RemoveFile
  \/ \E h \in Hosts, k \in Keys : ChangeKey(Remote[h], k)

Spec == Init /\ [][Next]_vars

-----------------------------------------------------------------------------
(* Properties *)

ConfirmedLines == {[names |-> {c[1], Remote[c[1]]}, key |-> c[2]] : c \in confirmed}

\* Everything is of its type.
TypeOK ==
  /\ file \in Seq(Line) \cup {NoFile}
  /\ serverKey \in [{Remote[h] : h \in Hosts} -> Keys]
  /\ flow \in [Flows -> Flow \cup {Idle}]
  /\ confirmed \subseteq Hosts \X Keys
  /\ changes \in 0..MaxChanges

\* The callback is given the fingerprint the user was asked about, and a server may
\* show another key by then: no line of known_hosts, nor of what a running call has
\* read of it, holds a key that the user has not confirmed for a host of that line.
OnlyConfirmed ==
  /\ lines \in Seq(ConfirmedLines)
  /\ \A f \in Flows : flow[f] # Idle => flow[f].db \in Seq(ConfirmedLines)

\* "SSH Host-Key geaendert [...] Verbindung blockiert" (appservice.go:1446): a call
\* comes through, or adds a line, only if known_hosts has the key for the host then,
\* unless the file is not what the call has read any more.
ChangedKeyBlocked ==
  [][\A f \in Flows :
       (Known(f) \/ (flow'[f] # flow[f] /\ At(f, "dial") /\ file' # file)) =>
         flow[f].db # file \/ Verdict(file', flow[f].host, Shown(f)) = "known"]_vars

(* What a message says, and the code does not do. *)

\* "SSH Host-Key gespeichert" (appservice.go:1541, 1546), which TrustSSHHost returns
\* without error: then known_hosts has the key.
SavedMeansSaved ==
  [][\A f \in Flows :
       (At(f, "dial") /\ flow[f].trust /\ flow'[f] # Idle /\ ~flow'[f].trust) =>
         Verdict(file', flow[f].host, flow[f].fp) = "known"]_vars
=============================================================================
