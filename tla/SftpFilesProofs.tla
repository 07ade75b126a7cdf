--------------------------- MODULE SftpFilesProofs ---------------------------
(***************************************************************************)
(* The SFTP file manager keeps the promise of RemoteFiles and leaves no    *)
(* litter, for any number of sessions, paths, uploads and chunks.          *)
(***************************************************************************)
EXTENDS SftpFiles, TLAPS

Listed(s, v) == uploads[s][v] # None

\* The call of s writes version v, which is in no list.
Sends(s, v) == call[s] # Idle /\ call[s].op = "upload" /\ call[s].from = v

Owns(s, v) == Listed(s, v) \/ Sends(s, v)

\* The step of a call fits its method.
CallOK(s) ==
  call[s] # Idle =>
    /\ call[s].pc \in {"open", "write", "cleanup"} => call[s].op = "upload"
    /\ call[s].pc \in {"open", "copy"} => call[s].from = None
    /\ call[s].pc \in {"write", "cleanup"} \cup Replacing => call[s].from \in Versions
    /\ call[s].pc = "copy" <=> call[s].op = "read"
    /\ call[s].op = "chunk" => /\ call[s].todo = {} /\ Listed(s, call[s].from)
                               /\ uploads[s][call[s].from].next = Chunks

\* A temporary file is known to one session only, and holds what this session has sent,
\* unless somebody has removed it.
VersionOK(v) ==
  /\ Exists(v) => /\ v <= issued /\ remote[v] \in Contents(v)
                  /\ v \in troubled \/ InUse(v)
  /\ \A r, s \in Sessions : Owns(r, v) /\ Owns(s, v) => r = s
  /\ \A s \in Sessions :
       /\ Listed(s, v) =>
            /\ v <= issued
            /\ v \notin touched /\ uploads[s][v].next > 0 =>
                 remote[v] = Piece(v, 1..uploads[s][v].next)
       /\ Sends(s, v) =>
            /\ v <= issued /\ ~Listed(s, v)
            /\ v \notin touched =>
                 /\ call[s].pc = "write" => remote[v] = Piece(v, {})
                 /\ call[s].pc \in Replacing => remote[v] = Whole(v)

IInv ==
  /\ TypeOK
  /\ \A s \in Sessions : CallOK(s)
  /\ \A v \in Versions : VersionOK(v)

-----------------------------------------------------------------------------
(* Files and records *)

LEMMA ContentFacts ==
  ASSUME NEW v \in Versions \cup {0}
  PROVE  /\ Contents(v) \subseteq Content /\ None \notin Contents(v)
         /\ \A parts \in SUBSET (1..Chunks) :
              Piece(v, parts) \in Contents(v) /\ Piece(v, parts).parts = parts
         /\ Whole(v) \in Contents(v)
<1>1. Contents(v) \subseteq Content /\ None \notin Content
  BY SftpAssumption DEF Content
<1>2. \A parts \in SUBSET (1..Chunks) :
        Piece(v, parts) \in Contents(v) /\ Piece(v, parts).parts = parts
  BY DEF Piece, Contents
<1> QED BY <1>1, <1>2 DEF Whole

LEMMA NameFacts ==
  /\ Versions \subseteq Nat /\ Paths \cap Versions = {} /\ None \notin Names
  /\ Paths \subseteq Names /\ Versions \subseteq Names
  BY SftpAssumption DEF Versions, Names

\* The one who owns a version is alone with it, and nobody owns one not made yet.
LEMMA NobodyElse ==
  ASSUME IInv, NEW s \in Sessions, NEW v \in Versions, Owns(s, v)
  PROVE  \A r \in Sessions \ {s} : ~Owns(r, v)
  BY DEF IInv, VersionOK

LEMMA NotYetOwned ==
  ASSUME IInv, NEW v \in Versions, v > issued
  PROVE  remote[v] = None /\ \A r \in Sessions : ~Owns(r, v)
<1>1. ~(v <= issued)
  BY NameFacts DEF IInv, TypeOK
<1> QED BY <1>1 DEF IInv, VersionOK, Owns, Exists

-----------------------------------------------------------------------------
(* Steps of one session *)

\* The version is as before to everybody.
LEMMA SameVersion ==
  ASSUME NEW v \in Versions, VersionOK(v), v <= issued => v <= issued',
         remote'[v] = remote[v], v \in touched => v \in touched',
         v \in troubled => v \in troubled',
         \A s \in Sessions : /\ uploads'[s][v] = uploads[s][v]
                             /\ Sends(s, v)' <=> Sends(s, v)
                             /\ Sends(s, v) => call'[s].pc = call[s].pc
  PROVE  VersionOK(v)'
<1>1. \A s \in Sessions : (Listed(s, v)' <=> Listed(s, v)) /\ (Owns(s, v)' <=> Owns(s, v))
  BY DEF Listed, Owns
<1>2. InUse(v) => InUse(v)'
  BY <1>1 DEF InUse, Owns, Listed, Sends
<1> QED BY <1>1, <1>2 DEF VersionOK, Exists

OthersSame(s) == \A r \in Sessions \ {s} : call'[r] = call[r] /\ uploads'[r] = uploads[r]

\* What s knows of version v.
KnownOK(s, v) ==
  /\ remote[v] # None => /\ v <= issued /\ remote[v] \in Contents(v)
                         /\ v \in troubled \/ Owns(s, v)
  /\ Listed(s, v) =>
       /\ v <= issued
       /\ v \notin touched /\ uploads[s][v].next > 0 =>
            remote[v] = Piece(v, 1..uploads[s][v].next)
  /\ Sends(s, v) =>
       /\ v <= issued /\ ~Listed(s, v)
       /\ v \notin touched =>
            /\ call[s].pc = "write" => remote[v] = Piece(v, {})
            /\ call[s].pc \in Replacing => remote[v] = Whole(v)

\* A version that no other session has.
LEMMA OwnVersion ==
  ASSUME NEW s \in Sessions, NEW v \in Versions, OthersSame(s),
         \A r \in Sessions \ {s} : ~Owns(r, v), KnownOK(s, v)'
  PROVE  VersionOK(v)'
<1>1. \A r \in Sessions \ {s} : ~Owns(r, v)'
  BY DEF OthersSame, Owns, Listed, Sends
<1>2. Owns(s, v)' => InUse(v)'
  BY DEF Owns, Listed, Sends, InUse
<1>3. \A r \in Sessions \ {s} : ~Listed(r, v)' /\ ~Sends(r, v)'
  BY <1>1 DEF Owns
<1>4. \A q, r \in Sessions : Owns(q, v)' /\ Owns(r, v)' => q = r
  BY <1>1
<1> QED BY <1>2, <1>3, <1>4 DEF VersionOK, KnownOK, Exists

\* What a step of s leaves of a session r stays as it should be.
LEMMA OtherCall ==
  ASSUME NEW r, CallOK(r), call'[r] = call[r], uploads'[r] = uploads[r]
  PROVE  CallOK(r)'
  BY DEF CallOK, Listed

\* A step of s does not concern version v.
Leaves(s, v) ==
  /\ remote'[v] = remote[v] /\ uploads'[s][v] = uploads[s][v]
  /\ v \in troubled => v \in troubled'
  /\ Sends(s, v)' <=> Sends(s, v)
  /\ Sends(s, v) => call'[s].pc = call[s].pc

LEMMA StepOf ==
  ASSUME IInv, TypeOK', NEW s \in Sessions, OthersSame(s), CallOK(s)',
         issued <= issued', touched' = touched,
         \A v \in Versions : Leaves(s, v) \/ VersionOK(v)'
  PROVE  IInv'
<1>1. ASSUME NEW r \in Sessions
      PROVE  CallOK(r)'
  BY OtherCall DEF IInv, OthersSame
<1>2. ASSUME NEW v \in Versions, Leaves(s, v)
      PROVE  VersionOK(v)'
  <2>1. v <= issued => v <= issued'
    BY NameFacts DEF IInv, TypeOK
  <2>2. \A r \in Sessions : /\ uploads'[r][v] = uploads[r][v]
                            /\ Sends(r, v)' <=> Sends(r, v)
                            /\ Sends(r, v) => call'[r].pc = call[r].pc
    BY <1>2 DEF Sends, Leaves, OthersSame
  <2> QED BY <1>2, <2>1, <2>2, SameVersion DEF IInv, Leaves
<1> QED BY <1>1, <1>2 DEF IInv

\* A step of s about version v, which no other session has.
LEMMA OwnStep ==
  ASSUME IInv, TypeOK', NEW s \in Sessions, NEW v \in Versions, OthersSame(s), CallOK(s)',
         issued <= issued', touched' = touched,
         \A r \in Sessions \ {s} : ~Owns(r, v), KnownOK(s, v)',
         \A w \in Versions \ {v} : Leaves(s, w)
  PROVE  IInv'
  BY OwnVersion, StepOf

-----------------------------------------------------------------------------
(* Sessions, downloads and what the user does *)

LEMMA LineStep ==
  ASSUME IInv, TypeOK', NEW s \in Sessions, ConnectSFTP(s) \/ Disconnect(s)
  PROVE  IInv'
<1>1. TypeOK /\ CallOK(s) /\ issued <= issued
  BY NameFacts, SftpAssumption DEF IInv, TypeOK
<1>2. UNCHANGED <<uploads, issued, touched, call, remote, hidden>> /\ troubled \subseteq troubled'
  BY DEF ConnectSFTP, Disconnect
<1>3. OthersSame(s) /\ CallOK(s)' /\ issued <= issued' /\ touched' = touched
  BY <1>1, <1>2 DEF CallOK, Listed, OthersSame
<1>4. \A v \in Versions : Leaves(s, v)
  BY <1>2 DEF Sends, Leaves
<1> QED BY <1>3, <1>4, StepOf

\* The call that begins is as it was called.
LEMMA Started ==
  ASSUME TypeOK, NEW s \in Sessions, NEW op, NEW pc, NEW from, NEW to, NEW todo,
         Start(s, op, pc, from, to, todo)
  PROVE  /\ call'[s] = [op |-> op, pc |-> pc, from |-> from, to |-> to, todo |-> todo]
         /\ call'[s].op = op /\ call'[s].pc = pc /\ call'[s].from = from
         /\ \A r \in Sessions \ {s} : call'[r] = call[r]
  BY DEF Start, TypeOK

LEMMA ReadStep ==
  ASSUME IInv, TypeOK', NEW s \in Sessions, NEW p \in Paths, DownloadSFTP(s, p) \/ Copy(s)
  PROVE  IInv'
<1>1. TypeOK /\ CallOK(s) /\ issued <= issued
  BY NameFacts, SftpAssumption DEF IInv, TypeOK
<1>2. /\ UNCHANGED <<uploads, issued, touched, remote, hidden, sess, troubled>>
      /\ \A v \in Versions : ~Sends(s, v)
  BY <1>1 DEF DownloadSFTP, Copy, Served, lockedSFTP, Sends, At, CallOK
<1>3. /\ call'[s] # Idle => call'[s].op = "read" /\ call'[s].pc = "copy" /\ call'[s].from = None
      /\ \A r \in Sessions \ {s} : call'[r] = call[r]
  <2>1. CASE Copy(s)
    BY <1>1, <2>1 DEF Copy, Return, TypeOK
  <2>2. CASE DownloadSFTP(s, p)
    <3>1. Start(s, "read", "copy", None, p, {})
      BY <2>2 DEF DownloadSFTP
    <3>2. PICK c : c = [op |-> "read", pc |-> "copy", from |-> None, to |-> p, todo |-> {}]
      OBVIOUS
    <3>3. call' = [call EXCEPT ![s] = c]
      BY <3>1, <3>2 DEF Start
    <3>4. c.op = "read" /\ c.pc = "copy" /\ c.from = None
      BY <3>2
    <3> QED BY <1>1, <3>3, <3>4 DEF TypeOK
  <2> QED BY <2>1, <2>2
<1>4. CallOK(s)' /\ \A v \in Versions : ~Sends(s, v)'
  BY <1>3 DEF CallOK, Sends, Replacing
<1>5. OthersSame(s) /\ issued <= issued' /\ touched' = touched
  BY <1>1, <1>2, <1>3 DEF OthersSame
<1>6. \A v \in Versions : Leaves(s, v)
  BY <1>2, <1>4 DEF Leaves
<1> QED BY <1>4, <1>5, <1>6, StepOf

LEMMA UserStep ==
  ASSUME IInv, TypeOK', NEW s \in Sessions, NEW p \in Paths, NEW q \in Paths,
         RemoveSFTP(s, p) \/ RenameSFTP(s, p, q)
  PROVE  IInv'
<1>1. TypeOK /\ CallOK(s) /\ issued <= issued
  BY NameFacts, SftpAssumption DEF IInv, TypeOK
<1>2. UNCHANGED <<uploads, issued, touched, call, sess, troubled>>
  BY DEF RemoveSFTP, RenameSFTP, Served
<1>3. \A v \in Versions : remote'[v] = remote[v]
  BY <1>1, NameFacts DEF RemoveSFTP, RenameSFTP, Moved, TypeOK
<1>4. OthersSame(s) /\ CallOK(s)' /\ issued <= issued' /\ touched' = touched
  BY <1>1, <1>2 DEF CallOK, Listed, OthersSame
<1>5. \A v \in Versions : Leaves(s, v)
  BY <1>2, <1>3 DEF Sends, Leaves
<1> QED BY <1>4, <1>5, StepOf

\* CloseSFTP knows the temporary files of its session only.
LEMMA CloseStep ==
  ASSUME IInv, TypeOK', NEW s \in Sessions, CloseSFTP(s)
  PROVE  IInv'
<1>1. /\ TypeOK /\ call[s] = Idle /\ UNCHANGED <<call, issued, touched, hidden>>
      /\ issued <= issued'
  BY NameFacts, SftpAssumption DEF IInv, TypeOK, CloseSFTP, lockedSFTP
<1> DEFINE tmps == {v \in Versions : uploads[s][v] # None /\ Exists(v)}
<1>2. PICK gone \in SUBSET tmps :
        /\ remote' = [n \in Names |-> IF n \in gone THEN None ELSE remote[n]]
        /\ troubled' = (troubled \ gone) \cup (tmps \ gone)
  BY DEF CloseSFTP
<1>3. OthersSame(s) /\ \A v \in Versions : uploads'[s][v] = None
  BY <1>1 DEF CloseSFTP, TypeOK, OthersSame
<1>4. \A v \in Versions : v \in tmps <=> Listed(s, v) /\ Exists(v)
  BY DEF Listed
<1> HIDE DEF tmps
<1>5. \A v \in Versions : remote'[v] = IF v \in gone THEN None ELSE remote[v]
  BY <1>2, NameFacts
<1>6. CallOK(s)' /\ \A v \in Versions : ~Sends(s, v)' /\ ~Sends(s, v) /\ ~Listed(s, v)'
  BY <1>1, <1>3 DEF CallOK, Sends, Listed
<1>7. ASSUME NEW v \in Versions, Listed(s, v)
      PROVE  VersionOK(v)'
  <2>1. \A r \in Sessions \ {s} : ~Owns(r, v)
    BY <1>7, NobodyElse DEF Owns
  <2>2. remote'[v] # None => /\ v <= issued' /\ remote'[v] \in Contents(v) /\ v \in troubled'
    BY <1>1, <1>2, <1>4, <1>5, <1>7 DEF IInv, VersionOK, Exists
  <2>3. KnownOK(s, v)'
    BY <1>6, <2>2 DEF KnownOK
  <2> QED BY <1>3, <2>1, <2>3, OwnVersion
<1>8. ASSUME NEW v \in Versions, ~Listed(s, v)
      PROVE  Leaves(s, v)
  BY <1>2, <1>3, <1>4, <1>5, <1>6, <1>8 DEF Leaves, Listed
<1> QED BY <1>1, <1>3, <1>6, <1>7, <1>8, StepOf

-----------------------------------------------------------------------------
(* Uploads of files *)

LEMMA Typed ==
  ASSUME TypeOK
  PROVE  /\ issued \in Nat /\ issued <= issued
         /\ \A s \in Sessions : call[s] \in Call \cup {Idle}
         /\ \A n \in Names : remote[n] \in Content \cup {None}
         /\ None \notin Versions /\ Chunks \in Nat \ {0}
  BY NameFacts, SftpAssumption DEF TypeOK, Names

\* A new temporary file, about which a call of s goes on or begins.
LEMMA OpenStep ==
  ASSUME IInv, TypeOK', NEW s \in Sessions, OpenTemp, OthersSame(s),
         UNCHANGED <<uploads, touched, troubled>>,
         call'[s] # Idle, call'[s].op = "upload", call'[s].pc = "write",
         call'[s].from = issued + 1,
         \A v \in Versions : ~Sends(s, v)
  PROVE  IInv'
<1>1. PICK v \in Versions : v = issued + 1 /\ v > issued
  BY Typed, SftpAssumption DEF IInv, OpenTemp, Versions
<1>2. /\ issued <= issued' /\ v <= issued'
      /\ remote'[v] = Piece(v, {}) /\ \A w \in Versions \ {v} : remote'[w] = remote[w]
  BY <1>1, Typed, NameFacts DEF IInv, OpenTemp, TypeOK, Piece
<1>3. \A r \in Sessions : ~Owns(r, v)
  BY <1>1, NotYetOwned
<1>4. CallOK(s)'
  BY <1>1 DEF CallOK, Replacing
<1>5. ~Listed(s, v)' /\ \A w \in Versions \ {v} : ~Sends(s, w)'
  BY <1>1, <1>3 DEF Owns, Listed, Sends
<1>6. KnownOK(s, v)'
  <2>1. remote'[v] # None => v \in troubled' \/ Owns(s, v)'
    BY <1>1 DEF Owns, Sends
  <2>2. remote'[v] \in Contents(v)
    BY <1>2, ContentFacts
  <2> QED BY <1>2, <1>5, <2>1, <2>2 DEF KnownOK, Replacing
<1>7. \A w \in Versions \ {v} : Leaves(s, w)
  BY <1>2, <1>5 DEF Leaves
<1> QED BY <1>2, <1>3, <1>4, <1>6, <1>7, OwnStep

LEMMA UploadStep ==
  ASSUME IInv, TypeOK', NEW s \in Sessions, NEW p \in Paths, NEW todo \in SUBSET Paths,
         UploadSFTP(s, p, todo)
  PROVE  IInv'
<1>1. TypeOK /\ call[s] = Idle
  BY DEF IInv, UploadSFTP, lockedSFTP
<1>2. OpenTemp /\ UNCHANGED <<uploads, touched, troubled>>
  BY DEF UploadSFTP, Served
<1>3. /\ call'[s] # Idle
      /\ call'[s].op = "upload" /\ call'[s].pc = "write" /\ call'[s].from = issued + 1
      /\ \A r \in Sessions \ {s} : call'[r] = call[r]
  <2>1. issued + 1 \in Versions
    BY <1>1, <1>2, Typed, SftpAssumption DEF OpenTemp, Versions
  <2>2. [op |-> "upload", pc |-> "write", from |-> issued + 1, to |-> p, todo |-> todo] \in Call
    BY <2>1 DEF Call
  <2> QED BY <1>1, <2>2, Started, SftpAssumption DEF UploadSFTP
<1>4. OthersSame(s) /\ \A v \in Versions : ~Sends(s, v)
  BY <1>1, <1>2, <1>3 DEF OthersSame, Sends
<1> QED BY <1>2, <1>3, <1>4, OpenStep

LEMMA OpenNextStep ==
  ASSUME IInv, TypeOK', NEW s \in Sessions, OpenNext(s)
  PROVE  IInv'
<1>1. /\ TypeOK /\ CallOK(s) /\ call[s] \in Call /\ call[s].pc = "open"
      /\ call[s].op = "upload" /\ call[s].from = None
  BY DEF IInv, OpenNext, At, CallOK, TypeOK
<1>2. \A v \in Versions : ~Sends(s, v)
  BY <1>1, Typed DEF Sends
<1>3. CASE Refused(s) /\ Return(s)
  <2>1. UNCHANGED <<remote, uploads, issued, touched, troubled>>
    BY <1>1, <1>3, Typed DEF Refused
  <2>2. call'[s] = Idle /\ OthersSame(s)
    BY <1>1, <1>3, <2>1 DEF Return, OthersSame, TypeOK
  <2>3. CallOK(s)' /\ \A v \in Versions : ~Sends(s, v)'
    BY <2>2 DEF CallOK, Sends
  <2>4. \A v \in Versions : Leaves(s, v)
    BY <1>2, <2>1, <2>3 DEF Leaves
  <2>5. issued <= issued' /\ touched' = touched
    BY <1>1, <2>1, Typed
  <2> QED BY <2>2, <2>3, <2>4, <2>5, StepOf
<1>4. CASE /\ Served(s) /\ OpenTemp
           /\ call' = [call EXCEPT ![s].pc = "write", ![s].from = issued + 1]
           /\ UNCHANGED <<sess, uploads, touched, hidden>>
  <2>1. issued + 1 \in Versions
    BY <1>1, <1>4, Typed, SftpAssumption DEF OpenTemp, Versions
  <2> DEFINE c == [call[s] EXCEPT !.pc = "write", !.from = issued + 1]
  <2>2. c \in Call /\ c.op = "upload" /\ c.pc = "write" /\ c.from = issued + 1
    BY <1>1, <2>1 DEF Call
  <2>3. call' = [call EXCEPT ![s] = c]
    BY <1>4
  <2> HIDE DEF c
  <2>4. /\ call'[s] # Idle
        /\ call'[s].op = "upload" /\ call'[s].pc = "write" /\ call'[s].from = issued + 1
        /\ \A r \in Sessions \ {s} : call'[r] = call[r]
    BY <1>1, <2>2, <2>3, SftpAssumption DEF TypeOK
  <2>5. OthersSame(s) /\ UNCHANGED <<uploads, touched, troubled>> /\ OpenTemp
    BY <1>4, <2>4 DEF OthersSame, Served
  <2> QED BY <1>2, <2>4, <2>5, OpenStep
<1> QED BY <1>3, <1>4 DEF OpenNext

\* A step of a call about its version.
LEMMA BusyStep ==
  ASSUME IInv, TypeOK', NEW s \in Sessions, NEW v \in Versions, Owns(s, v),
         call[s] # Idle, call[s].from = v, call'[s] # Idle => call'[s].from \in {v, None},
         OthersSame(s), CallOK(s)', KnownOK(s, v)', UNCHANGED <<issued, touched>>,
         \A w \in Versions \ {v} :
           /\ remote'[w] = remote[w] /\ uploads'[s][w] = uploads[s][w]
           /\ w \in troubled => w \in troubled'
  PROVE  IInv'
<1>1. \A r \in Sessions \ {s} : ~Owns(r, v)
  BY NobodyElse
<1>2. \A w \in Versions \ {v} : ~Sends(s, w) /\ ~Sends(s, w)'
  BY Typed DEF Sends, IInv
<1>3. \A w \in Versions \ {v} : Leaves(s, w)
  BY <1>2 DEF Leaves
<1>4. issued <= issued'
  BY Typed DEF IInv
<1> QED BY <1>1, <1>3, <1>4, OwnStep

\* The step of the call changes, or it returns.
LEMMA Going ==
  ASSUME TypeOK, NEW s \in Sessions, call[s] # Idle,
         NEW pc \in {"cleanup"} \cup Replacing, Goto(s, pc)
  PROVE  /\ call'[s] # Idle
         /\ call'[s].pc = pc /\ call'[s].op = call[s].op /\ call'[s].from = call[s].from
         /\ call'[s].to = call[s].to /\ call'[s].todo = call[s].todo
         /\ \A r \in Sessions \ {s} : call'[r] = call[r]
<1> DEFINE c == [call[s] EXCEPT !.pc = pc]
<1>1. call[s] \in Call
  BY DEF TypeOK
<1>2. c \in Call /\ c.pc = pc /\ c.op = call[s].op /\ c.from = call[s].from
      /\ c.to = call[s].to /\ c.todo = call[s].todo
  BY <1>1 DEF Call, Replacing
<1>3. call' = [call EXCEPT ![s] = c]
  BY DEF Goto
<1> HIDE DEF c
<1> QED BY <1>2, <1>3, SftpAssumption DEF TypeOK

LEMMA Returning ==
  ASSUME TypeOK, NEW s \in Sessions, Return(s)
  PROVE  call'[s] = Idle /\ \A r \in Sessions \ {s} : call'[r] = call[r]
  BY DEF Return, TypeOK

\* The call of s that writes a temporary file.
LEMMA WritingFacts ==
  ASSUME IInv, NEW s \in Sessions, At(s, "write") \/ At(s, "cleanup")
  PROVE  /\ call[s] \in Call /\ call[s] # Idle /\ call[s].op = "upload"
         /\ call[s].from \in Versions /\ Sends(s, call[s].from) /\ Owns(s, call[s].from)
         /\ VersionOK(call[s].from) /\ ~Listed(s, call[s].from)
<1>1. /\ call[s] \in Call /\ call[s] # Idle /\ call[s].op = "upload"
      /\ call[s].from \in Versions
  BY DEF IInv, TypeOK, At, CallOK
<1>2. Sends(s, call[s].from) /\ VersionOK(call[s].from)
  BY <1>1 DEF Sends, IInv
<1> QED BY <1>1, <1>2 DEF VersionOK, Owns

\* What remains if the call of s has left version v behind.
LEMMA LeftBehind ==
  ASSUME NEW s \in Sessions, NEW v \in Versions, VersionOK(v), issued' = issued,
         remote'[v] = remote[v] \/ remote'[v] = None, v \in troubled' \/ remote'[v] = None,
         ~Listed(s, v)', ~Sends(s, v)'
  PROVE  KnownOK(s, v)'
  BY DEF KnownOK, VersionOK, Exists

LEMMA CleanupStep ==
  ASSUME IInv, TypeOK', NEW s \in Sessions, Cleanup(s)
  PROVE  IInv'
<1>1. TypeOK
  BY DEF IInv
<1>2. PICK v \in Versions : /\ v = call[s].from /\ call[s] # Idle /\ Sends(s, v) /\ Owns(s, v)
                            /\ VersionOK(v) /\ ~Listed(s, v)
  BY WritingFacts DEF Cleanup
<1>3. call'[s] = Idle /\ OthersSame(s) /\ UNCHANGED <<uploads, issued, touched>>
  BY <1>1, Returning DEF Cleanup, Refused, OthersSame
<1>4. \/ remote' = [remote EXCEPT ![v] = None] /\ troubled' = troubled \ {v}
      \/ remote' = remote /\ troubled' = troubled \cup {v}
  BY <1>2 DEF Cleanup, Refused
<1>5. /\ \A w \in Versions \ {v} : /\ remote'[w] = remote[w] /\ uploads'[s][w] = uploads[s][w]
                                   /\ w \in troubled => w \in troubled'
      /\ remote'[v] = remote[v] \/ remote'[v] = None
      /\ v \in troubled' \/ remote'[v] = None
  BY <1>1, <1>3, <1>4, NameFacts DEF TypeOK
<1>6. CallOK(s)' /\ ~Listed(s, v)' /\ ~Sends(s, v)'
  BY <1>2, <1>3 DEF CallOK, Listed, Sends
<1>7. KnownOK(s, v)'
  BY <1>2, <1>3, <1>5, <1>6, LeftBehind
<1> QED BY <1>2, <1>3, <1>5, <1>6, <1>7, BusyStep

LEMMA WriteStep ==
  ASSUME IInv, TypeOK', NEW s \in Sessions, WriteTemp(s)
  PROVE  IInv'
<1>1. TypeOK
  BY DEF IInv
<1>2. PICK v \in Versions :
        /\ v = call[s].from /\ call[s] \in Call /\ call[s] # Idle /\ call[s].op = "upload"
        /\ Sends(s, v) /\ Owns(s, v) /\ VersionOK(v) /\ ~Listed(s, v)
  BY WritingFacts DEF WriteTemp
<1>3. PICK parts \in SUBSET (1..Chunks), pc \in {"lstat", "cleanup"} :
        /\ remote' = Written(s, parts) /\ Goto(s, pc)
        /\ pc = "lstat" => parts = 1..Chunks
        /\ troubled \subseteq troubled'
        /\ UNCHANGED <<sess, uploads, issued, touched, hidden>>
  <2>1. CASE Served(s) /\ remote' = Written(s, 1..Chunks) /\ Goto(s, "lstat")
    BY <2>1 DEF WriteTemp, Served
  <2>2. CASE /\ \E n \in 0..Chunks - 1 : remote' = Written(s, 1..n)
             /\ troubled' = troubled \cup {call[s].from}
             /\ Goto(s, "cleanup")
    <3>1. PICK n \in 0..Chunks - 1 : remote' = Written(s, 1..n)
      BY <2>2
    <3>2. 1..n \in SUBSET (1..Chunks)
      BY SftpAssumption
    <3> QED BY <2>2, <3>1, <3>2 DEF WriteTemp
  <2> QED BY <2>1, <2>2 DEF WriteTemp
<1>4. /\ call'[s] # Idle
      /\ call'[s].pc = pc /\ call'[s].op = "upload" /\ call'[s].from = v
      /\ OthersSame(s)
  BY <1>1, <1>2, <1>3, Going DEF OthersSame, Replacing
<1>5. CallOK(s)'
  BY <1>3, <1>4 DEF CallOK, Replacing
<1>6. remote[v] # None => remote[v] \in Contents(v) /\ v <= issued
  BY <1>2 DEF VersionOK, Exists
<1>7. /\ \A w \in Versions \ {v} : remote'[w] = remote[w]
      /\ remote[v] = None => remote'[v] = None
      /\ remote[v] # None => remote'[v] = Piece(v, remote[v].parts \cup parts)
  <2>1. CASE remote[v] = None
    BY <1>2, <1>3, <2>1 DEF Written, Exists
  <2>2. CASE remote[v] # None
    <3>1. remote' = [remote EXCEPT ![v] = [remote[v] EXCEPT !.parts = remote[v].parts \cup parts]]
      BY <1>2, <1>3, <2>2 DEF Written, Exists
    <3>2. [remote[v] EXCEPT !.parts = remote[v].parts \cup parts] = Piece(v, remote[v].parts \cup parts)
      BY <1>6, <2>2 DEF Contents, Piece
    <3> QED BY <1>1, <2>2, <3>1, <3>2, NameFacts DEF TypeOK
  <2> QED BY <2>1, <2>2
<1>8. remote'[v] # None => remote'[v] \in Contents(v)
  <2>1. remote[v] # None => remote[v].parts \in SUBSET (1..Chunks)
    BY <1>6 DEF Contents
  <2> QED BY <1>3, <1>7, <2>1, ContentFacts
<1>9. v \notin touched /\ pc = "lstat" => remote'[v] = Whole(v)
  <2>1. ASSUME v \notin touched, pc = "lstat"
        PROVE  remote'[v] = Whole(v)
    <3>1. remote[v] = Piece(v, {})
      BY <1>2, <2>1 DEF VersionOK, WriteTemp, At
    <3>2. remote[v].parts = {} /\ remote[v] # None
      BY <3>1, ContentFacts
    <3> QED BY <1>3, <1>7, <2>1, <3>2 DEF Whole
  <2> QED BY <2>1
<1>10. Owns(s, v)' /\ ~Listed(s, v)' /\ v <= issued'
  BY <1>2, <1>3, <1>4 DEF Owns, Sends, Listed, VersionOK
<1>11. KnownOK(s, v)'
  BY <1>3, <1>4, <1>6, <1>8, <1>9, <1>10 DEF KnownOK, Replacing
<1>12. \A w \in Versions \ {v} : /\ remote'[w] = remote[w] /\ uploads'[s][w] = uploads[s][w]
                                 /\ w \in troubled => w \in troubled'
  BY <1>3, <1>7
<1> QED BY <1>2, <1>3, <1>4, <1>5, <1>11, <1>12, BusyStep

-----------------------------------------------------------------------------
(* finalizeRemoteReplace *)

\* What finalizeRemoteReplace is called with: a whole version, unless somebody was at it.
LEMMA ReplacingFacts ==
  ASSUME IInv, NEW s \in Sessions, Finalizing(s)
  PROVE  /\ call[s] \in Call /\ call[s].from \in Versions /\ call[s].to \in Paths
         /\ call[s].op \in {"upload", "chunk"}
         /\ Owns(s, call[s].from) /\ VersionOK(call[s].from) /\ call[s].from <= issued
         /\ call[s].from \notin touched => remote[call[s].from] = Whole(call[s].from)
<1>1. call[s] \in Call /\ call[s] # Idle /\ call[s].pc \in Replacing
  BY DEF IInv, TypeOK, Finalizing
<1>2. CallOK(s) /\ call[s].from \in Versions /\ call[s].to \in Paths
  BY <1>1 DEF IInv, CallOK, Call
<1>3. call[s].op \in {"upload", "chunk"}
  BY <1>1, <1>2 DEF CallOK, Call, Replacing
<1>4. PICK v \in Versions : v = call[s].from /\ VersionOK(v)
  BY <1>2 DEF IInv
<1>5. CASE call[s].op = "upload"
  <2>1. Sends(s, v)
    BY <1>1, <1>4, <1>5 DEF Sends
  <2> QED BY <1>1, <1>2, <1>3, <1>4, <2>1 DEF Owns, VersionOK
<1>6. CASE call[s].op = "chunk"
  <2>1. Listed(s, v) /\ uploads[s][v].next = Chunks /\ Chunks > 0
    BY <1>1, <1>2, <1>4, <1>6, SftpAssumption DEF CallOK
  <2>2. v <= issued /\ (v \notin touched => remote[v] = Whole(v))
    BY <1>4, <2>1 DEF VersionOK, Whole
  <2> QED BY <1>1, <1>2, <1>3, <1>4, <2>1, <2>2 DEF Owns
<1> QED BY <1>3, <1>5, <1>6

\* The replacement goes on, the temporary file is as it was.
LEMMA ReplaceGoesOn ==
  ASSUME IInv, TypeOK', NEW s \in Sessions, Finalizing(s), NEW pc \in Replacing, Goto(s, pc),
         UNCHANGED <<uploads, issued, touched>>, troubled \subseteq troubled',
         \A v \in Versions : remote'[v] = remote[v]
  PROVE  IInv'
<1>1. TypeOK /\ call[s] # Idle
  BY DEF IInv, Finalizing
<1>2. PICK v \in Versions :
        /\ v = call[s].from /\ call[s].op \in {"upload", "chunk"}
        /\ Owns(s, v) /\ VersionOK(v) /\ v <= issued
        /\ v \notin touched => remote[v] = Whole(v)
  BY ReplacingFacts
<1>3. /\ call'[s] # Idle /\ call'[s].pc = pc /\ call'[s].op = call[s].op /\ call'[s].from = v
      /\ call'[s].todo = call[s].todo /\ OthersSame(s)
  BY <1>1, <1>2, Going DEF OthersSame
<1>4. CallOK(s)'
  <2>1. CallOK(s)
    BY DEF IInv
  <2> QED BY <1>1, <1>2, <1>3, <2>1 DEF CallOK, Listed, Replacing
<1>5. (Listed(s, v)' <=> Listed(s, v)) /\ (Sends(s, v)' <=> Sends(s, v)) /\ Owns(s, v)'
  BY <1>1, <1>2, <1>3 DEF Listed, Sends, Owns
<1>6. KnownOK(s, v)'
  BY <1>2, <1>3, <1>5 DEF KnownOK, VersionOK, Exists, Replacing
<1> QED BY <1>1, <1>2, <1>3, <1>4, <1>6, BusyStep

\* It comes to nothing: the temporary file stays, and is known to be in trouble, or is
\* gone; an upload in chunks stays in the list.
LEMMA ReplaceFails ==
  ASSUME IInv, TypeOK', NEW s \in Sessions, Finalizing(s), Return(s),
         UNCHANGED <<uploads, issued, touched, remote>>,
         troubled' = troubled \cup {call[s].from}
  PROVE  IInv'
<1>1. TypeOK /\ call[s] # Idle
  BY DEF IInv, Finalizing
<1>2. PICK v \in Versions :
        v = call[s].from /\ Owns(s, v) /\ VersionOK(v)
  BY ReplacingFacts
<1>3. call'[s] = Idle /\ OthersSame(s)
  BY <1>1, Returning DEF OthersSame
<1>4. CallOK(s)' /\ ~Sends(s, v)' /\ (Listed(s, v)' <=> Listed(s, v))
  BY <1>3 DEF CallOK, Sends, Listed
<1>5. KnownOK(s, v)'
  BY <1>2, <1>4 DEF KnownOK, VersionOK, Exists
<1> QED BY <1>1, <1>2, <1>3, <1>4, <1>5, BusyStep

\* A refusal concerns the version that is being sent.
LEMMA RefusedFacts ==
  ASSUME IInv, NEW s \in Sessions, Finalizing(s), Refused(s)
  PROVE  /\ troubled' = troubled \cup {call[s].from}
         /\ UNCHANGED <<remote, sess, uploads, issued, touched, hidden>>
  BY ReplacingFacts DEF Refused

LEMMA LstatStep ==
  ASSUME IInv, TypeOK', NEW s \in Sessions, Lstat(s)
  PROVE  IInv'
<1>1. Finalizing(s)
  BY DEF Lstat, At, Finalizing, Replacing
<1>2. CASE Refused(s) /\ Return(s)
  BY <1>1, <1>2, RefusedFacts, ReplaceFails
<1>3. CASE /\ Served(s) /\ Goto(s, "rename")
           /\ UNCHANGED <<remote, sess, uploads, issued, touched, hidden>>
  BY <1>1, <1>3, ReplaceGoesOn DEF Served, Replacing
<1> QED BY <1>2, <1>3 DEF Lstat

LEMMA RemoveDestStep ==
  ASSUME IInv, TypeOK', NEW s \in Sessions, RemoveDest(s)
  PROVE  IInv'
<1>1. Finalizing(s)
  BY DEF RemoveDest, At, Finalizing, Replacing
<1>2. CASE Refused(s) /\ Return(s)
  BY <1>1, <1>2, RefusedFacts, ReplaceFails
<1>3. CASE /\ Served(s) /\ Goto(s, "renameAgain")
           /\ remote' = [remote EXCEPT ![call[s].to] = None]
           /\ UNCHANGED <<sess, uploads, issued, touched>>
  <2>1. \A v \in Versions : remote'[v] = remote[v]
    BY <1>1, <1>3, ReplacingFacts, NameFacts DEF IInv, TypeOK
  <2>2. troubled \subseteq troubled' /\ "renameAgain" \in Replacing
    BY <1>3 DEF Served, Replacing
  <2> QED BY <1>1, <1>3, <2>1, <2>2, ReplaceGoesOn
<1> QED BY <1>2, <1>3 DEF RemoveDest

\* After a replacement the version is nobody's.
LEMMA ReplacedFacts ==
  ASSUME IInv, TypeOK', NEW s \in Sessions, Finalizing(s), Replaced(s),
         NEW v \in Versions, v = call[s].from
  PROVE  /\ call'[s] # Idle => /\ call'[s].op = "upload" /\ call'[s].pc = "open"
                               /\ call'[s].from = None
         /\ OthersSame(s) /\ ~Listed(s, v)'
         /\ \A w \in Versions \ {v} : uploads'[s][w] = uploads[s][w]
<1>1. TypeOK /\ call[s] \in Call /\ call[s] # Idle /\ CallOK(s)
  BY DEF IInv, TypeOK, Finalizing
<1>2. call[s].op \in {"upload", "chunk"} /\ VersionOK(v)
  BY ReplacingFacts
<1>3. /\ \A r \in Sessions \ {s} : uploads'[r] = uploads[r]
      /\ \A w \in Versions \ {v} : uploads'[s][w] = uploads[s][w]
      /\ call[s].op = "chunk" => uploads'[s][v] = None
      /\ call[s].op # "chunk" => uploads'[s][v] = uploads[s][v]
  <2>1. CASE call[s].op = "chunk"
    <3>1. uploads' = [uploads EXCEPT ![s] = [uploads[s] EXCEPT ![v] = None]]
      BY <2>1 DEF Replaced
    <3>2. PICK list : list = [uploads[s] EXCEPT ![v] = None]
      OBVIOUS
    <3>3. list[v] = None /\ \A w \in Versions \ {v} : list[w] = uploads[s][w]
      BY <1>1, <3>2 DEF TypeOK
    <3>4. uploads'[s] = list /\ \A r \in Sessions \ {s} : uploads'[r] = uploads[r]
      BY <1>1, <3>1, <3>2 DEF TypeOK
    <3> QED BY <2>1, <3>3, <3>4
  <2>2. CASE call[s].op # "chunk"
    BY <2>2 DEF Replaced
  <2> QED BY <2>1, <2>2
<1>4. ~Listed(s, v)'
  <2>1. CASE call[s].op = "chunk"
    BY <1>3, <2>1 DEF Listed
  <2>2. CASE call[s].op = "upload"
    <3>1. Sends(s, v)
      BY <1>1, <1>2, <2>2 DEF Sends
    <3> QED BY <1>2, <1>3, <2>2, <3>1 DEF VersionOK, Listed
  <2> QED BY <1>2, <2>1, <2>2
<1>5. CASE Return(s)
  BY <1>1, <1>2, <1>3, <1>4, <1>5, Returning DEF OthersSame
<1>6. CASE ~Return(s)
  <2>1. call[s].todo # {} /\ \E p \in call[s].todo :
            call' = [call EXCEPT ![s] = [call[s] EXCEPT !.pc = "open", !.from = None, !.to = p,
                                                        !.todo = call[s].todo \ {p}]]
    BY <1>6 DEF Replaced
  <2>2. call[s].op = "upload"
    BY <1>1, <1>2, <2>1 DEF CallOK
  <2>3. PICK p : call' = [call EXCEPT ![s] = [call[s] EXCEPT !.pc = "open", !.from = None,
                                                 !.to = p, !.todo = call[s].todo \ {p}]]
    BY <2>1
  <2>4. PICK c : c = [call[s] EXCEPT !.pc = "open", !.from = None, !.to = p,
                                     !.todo = call[s].todo \ {p}]
    OBVIOUS
  <2>5. c.op = "upload" /\ c.pc = "open" /\ c.from = None
    BY <1>1, <2>2, <2>4 DEF Call
  <2>6. call' = [call EXCEPT ![s] = c]
    BY <2>3, <2>4
  <2>7. call'[s] = c /\ \A r \in Sessions \ {s} : call'[r] = call[r]
    BY <1>1, <2>6 DEF TypeOK
  <2> QED BY <1>2, <1>3, <1>4, <2>5, <2>7 DEF OthersSame
<1> QED BY <1>5, <1>6

LEMMA RenameStep ==
  ASSUME IInv, TypeOK', NEW s \in Sessions, Rename(s)
  PROVE  IInv'
<1>1. Finalizing(s) /\ TypeOK /\ call[s] # Idle
  BY DEF Rename, At, Finalizing, Replacing, IInv
<1>2. CASE At(s, "rename") /\ Refused(s) /\ Goto(s, "remove")
  <2>1. "remove" \in Replacing /\ \A v \in Versions : remote'[v] = remote[v]
    BY <1>2 DEF Replacing, Refused
  <2>2. UNCHANGED <<uploads, issued, touched>> /\ troubled \subseteq troubled'
    BY <1>2 DEF Refused
  <2> QED BY <1>1, <1>2, <2>1, <2>2, ReplaceGoesOn
<1>3. CASE /\ troubled' = troubled \cup {call[s].from} /\ Return(s)
           /\ UNCHANGED <<remote, sess, uploads, issued, touched>>
  BY <1>1, <1>3, ReplaceFails
<1>4. CASE /\ remote' = Moved(call[s].from, call[s].to) /\ Replaced(s)
           /\ troubled' = troubled \ {call[s].from}
           /\ UNCHANGED <<sess, issued, touched>>
  <2>1. PICK v \in Versions : v = call[s].from /\ Owns(s, v) /\ call[s].to \in Paths
    BY <1>1, ReplacingFacts
  <2>2. remote'[v] = None /\ \A w \in Versions \ {v} : remote'[w] = remote[w]
    BY <1>1, <1>4, <2>1, NameFacts DEF Moved, TypeOK
  <2>3. /\ call'[s] # Idle => /\ call'[s].op = "upload" /\ call'[s].pc = "open"
                              /\ call'[s].from = None
        /\ OthersSame(s) /\ ~Listed(s, v)'
        /\ \A w \in Versions \ {v} : uploads'[s][w] = uploads[s][w]
    BY <1>1, <1>4, <2>1, ReplacedFacts
  <2>4. CallOK(s)' /\ ~Sends(s, v)'
    BY <2>3, Typed DEF CallOK, Sends, Replacing, IInv
  <2>5. KnownOK(s, v)'
    BY <2>2, <2>3, <2>4 DEF KnownOK
  <2> QED BY <1>1, <1>4, <2>1, <2>2, <2>3, <2>4, <2>5, BusyStep
<1> QED BY <1>2, <1>3, <1>4 DEF Rename

-----------------------------------------------------------------------------
(* UploadSFTPChunk *)

LEMMA ExtendedFacts ==
  ASSUME IInv, NEW v \in Versions, NEW parts \in SUBSET (1..Chunks), remote' = Extended(v, parts)
  PROVE  /\ remote'[v] \in Contents(v) /\ \A w \in Versions \ {v} : remote'[w] = remote[w]
         /\ remote[v] # None => remote'[v] = Piece(v, parts \cup remote[v].parts)
<1>1. TypeOK /\ (remote[v] # None => remote[v].parts \in SUBSET (1..Chunks))
  BY DEF IInv, VersionOK, Exists, Contents
<1>2. PICK had \in SUBSET (1..Chunks) :
        had = IF Exists(v) THEN remote[v].parts ELSE {}
  BY <1>1 DEF Exists
<1>3. PICK piece : piece = Piece(v, parts \cup had)
  OBVIOUS
<1>4. remote' = [remote EXCEPT ![v] = piece]
  BY <1>2, <1>3 DEF Extended
<1>5. piece \in Contents(v)
  BY <1>2, <1>3, ContentFacts
<1>6. remote'[v] = piece /\ \A w \in Versions \ {v} : remote'[w] = remote[w]
  BY <1>1, <1>4, NameFacts DEF TypeOK
<1> QED BY <1>2, <1>3, <1>5, <1>6 DEF Exists

LEMMA NextChunkStep ==
  ASSUME IInv, TypeOK', NEW s \in Sessions, NEW v \in Versions, NEW p \in Paths,
         NEW off \in 1..Chunks - 1, NextChunk(s, v, p, off)
  PROVE  IInv'
<1>1. TypeOK /\ call[s] = Idle /\ Listed(s, v) /\ uploads[s][v].next = off /\ VersionOK(v)
  BY DEF IInv, NextChunk, lockedSFTP, Continues, Listed
<1>2. UNCHANGED <<call, sess, issued, touched, hidden, troubled>> /\ issued <= issued'
  BY <1>1, Typed DEF NextChunk, Served
<1>3. PICK e \in [path : Paths, next : 0..Chunks] :
        uploads[s][v] = e
  BY <1>1 DEF Listed, TypeOK
<1>4. PICK new \in [path : Paths, next : 0..Chunks] :
        new = [e EXCEPT !.next = off + 1] /\ new.next = off + 1
  <2>1. off + 1 \in 0..Chunks
    BY SftpAssumption
  <2>2. [e EXCEPT !.next = off + 1] \in [path : Paths, next : 0..Chunks]
        /\ [e EXCEPT !.next = off + 1].next = off + 1
    BY <2>1
  <2> QED BY <2>2
<1>5. uploads' = [uploads EXCEPT ![s] = [uploads[s] EXCEPT ![v] = new]]
  BY <1>3, <1>4 DEF NextChunk
<1>6. /\ uploads'[s][v] = new /\ OthersSame(s)
      /\ \A w \in Versions \ {v} : uploads'[s][w] = uploads[s][w]
  BY <1>1, <1>2, <1>5 DEF TypeOK, OthersSame
<1>7. {off + 1} \in SUBSET (1..Chunks)
  BY SftpAssumption
<1>8. /\ remote'[v] \in Contents(v) /\ \A w \in Versions \ {v} : remote'[w] = remote[w]
      /\ remote[v] # None => remote'[v] = Piece(v, {off + 1} \cup remote[v].parts)
  BY <1>7, ExtendedFacts DEF NextChunk
<1>9. v \notin touched => remote'[v] = Piece(v, 1..off + 1)
  <2>1. ASSUME v \notin touched
        PROVE  remote'[v] = Piece(v, 1..off + 1)
    <3>1. remote[v] = Piece(v, 1..off) /\ 1..off \in SUBSET (1..Chunks)
      BY <1>1, <2>1, SftpAssumption DEF VersionOK
    <3>2. remote[v].parts = 1..off /\ remote[v] # None
      BY <3>1, ContentFacts
    <3>3. {off + 1} \cup (1..off) = 1..off + 1
      OBVIOUS
    <3> QED BY <1>8, <3>2, <3>3
  <2> QED BY <2>1
<1>10. CallOK(s)' /\ \A w \in Versions : ~Sends(s, w)' /\ ~Sends(s, w)
  BY <1>1, <1>2 DEF CallOK, Sends
<1>11. Listed(s, v)' /\ v <= issued'
  BY <1>1, <1>2, <1>4, <1>6, SftpAssumption DEF Listed, VersionOK
<1>12. KnownOK(s, v)'
  BY <1>2, <1>4, <1>6, <1>8, <1>9, <1>10, <1>11 DEF KnownOK, Owns
<1>13. \A w \in Versions \ {v} : Leaves(s, w)
  BY <1>2, <1>6, <1>8, <1>10 DEF Leaves
<1>14. \A r \in Sessions \ {s} : ~Owns(r, v)
  BY <1>1, NobodyElse DEF Owns
<1> QED BY <1>2, <1>6, <1>10, <1>12, <1>13, <1>14, OwnStep

LEMMA LastChunkStep ==
  ASSUME IInv, TypeOK', NEW s \in Sessions, NEW v \in Versions, NEW p \in Paths,
         LastChunk(s, v, p, Chunks)
  PROVE  IInv'
<1>1. TypeOK /\ call[s] = Idle /\ Listed(s, v) /\ uploads[s][v].next = Chunks /\ VersionOK(v)
  BY DEF IInv, LastChunk, lockedSFTP, Continues, Listed
<1>2. UNCHANGED <<sess, uploads, issued, touched, hidden, troubled>> /\ issued <= issued'
  BY <1>1, Typed DEF LastChunk, Served
<1>3. PICK c \in Call : c = [op |-> "chunk", pc |-> "lstat", from |-> v, to |-> p, todo |-> {}]
  BY DEF Call, Replacing
<1>4. c.op = "chunk" /\ c.pc = "lstat" /\ c.from = v /\ c.todo = {}
  BY <1>3
<1>5. call' = [call EXCEPT ![s] = c]
  BY <1>3 DEF LastChunk, Start
<1>6. call'[s] = c /\ OthersSame(s)
  BY <1>1, <1>2, <1>5 DEF TypeOK, OthersSame
<1>7. {} \in SUBSET (1..Chunks)
  OBVIOUS
<1>8. /\ remote'[v] \in Contents(v) /\ \A w \in Versions \ {v} : remote'[w] = remote[w]
      /\ remote[v] # None => remote'[v] = Piece(v, {} \cup remote[v].parts)
  BY <1>7, ExtendedFacts DEF LastChunk
<1>9. v \notin touched => remote'[v] = Piece(v, 1..Chunks)
  <2>1. ASSUME v \notin touched
        PROVE  remote'[v] = Piece(v, 1..Chunks)
    <3>1. PICK all \in SUBSET (1..Chunks) : all = 1..Chunks
      OBVIOUS
    <3>2. remote[v] = Piece(v, all)
      BY <1>1, <2>1, <3>1, SftpAssumption DEF VersionOK
    <3>3. remote[v].parts = all /\ remote[v] # None
      BY <3>2, ContentFacts
    <3> QED BY <1>8, <3>1, <3>3
  <2> QED BY <2>1
<1>10. Listed(s, v)' /\ v <= issued' /\ uploads'[s][v].next = Chunks
  BY <1>1, <1>2 DEF Listed, VersionOK
<1>11. CallOK(s)' /\ \A w \in Versions : ~Sends(s, w)' /\ ~Sends(s, w)
  BY <1>1, <1>4, <1>6, <1>10 DEF CallOK, Sends, Replacing
<1>12. KnownOK(s, v)'
  BY <1>2, <1>8, <1>9, <1>10, <1>11 DEF KnownOK, Owns
<1>13. \A w \in Versions \ {v} : Leaves(s, w)
  BY <1>2, <1>8, <1>11 DEF Leaves
<1>14. \A r \in Sessions \ {s} : ~Owns(r, v)
  BY <1>1, NobodyElse DEF Owns
<1> QED BY <1>2, <1>6, <1>11, <1>12, <1>13, <1>14, OwnStep

LEMMA FirstChunkStep ==
  ASSUME IInv, TypeOK', NEW s \in Sessions, NEW w \in Versions \cup {None}, NEW p \in Paths,
         FirstChunk(s, w, p)
  PROVE  IInv'
<1>1. TypeOK /\ call[s] = Idle /\ (w # None => Listed(s, w))
  BY DEF IInv, FirstChunk, lockedSFTP, Listed
<1>2. PICK new \in Versions : new = issued + 1 /\ new > issued /\ issued' = new
  BY <1>1, Typed, SftpAssumption DEF FirstChunk, Versions
<1> DEFINE stale == {u \in {w} \cap Versions : Exists(u)}
<1>3. PICK gone \in SUBSET stale, file \in {None} \cup [of : {issued + 1}, parts : {{}, {1}}] :
        /\ remote' = [n \in Names |-> IF n = issued + 1 THEN file
                                      ELSE IF n \in gone THEN None ELSE remote[n]]
        /\ uploads' = [uploads EXCEPT ![s] = [u \in Versions |->
             IF u = issued + 1
             THEN [path |-> p, next |-> IF file = Piece(issued + 1, {1}) THEN 1 ELSE 0]
             ELSE IF u = w THEN None ELSE uploads[s][u]]]
        /\ troubled' = (troubled \ gone) \cup (stale \ gone)
  BY DEF FirstChunk
<1>4. \A v \in stale : v = w /\ v \in Versions /\ Exists(v)
  OBVIOUS
<1>5. w \in Versions /\ Exists(w) => w \in stale
  OBVIOUS
<1> HIDE DEF stale
<1>6. UNCHANGED <<sess, call, touched, hidden>> /\ issued <= issued' /\ new <= issued'
  BY <1>1, <1>2, Typed DEF FirstChunk
<1>7. \A v \in Versions : remote'[v] = IF v = new THEN file
                                       ELSE IF v \in gone THEN None ELSE remote[v]
  BY <1>2, <1>3, NameFacts
<1>8. PICK entry \in [path : Paths, next : 0..Chunks] :
        /\ entry = [path |-> p, next |-> IF file = Piece(new, {1}) THEN 1 ELSE 0]
        /\ entry.next > 0 => file = Piece(new, {1}) /\ entry.next = 1
        /\ entry # None
  <2>1. PICK n \in 0..Chunks : n = IF file = Piece(new, {1}) THEN 1 ELSE 0
    BY SftpAssumption
  <2>2. PICK e \in [path : Paths, next : 0..Chunks] : e = [path |-> p, next |-> n]
    OBVIOUS
  <2>3. e.next = n
    BY <2>2
  <2>4. e = [path |-> p, next |-> IF file = Piece(new, {1}) THEN 1 ELSE 0]
    BY <2>1, <2>2
  <2>5. e # None
    BY SftpAssumption
  <2>6. n > 0 => file = Piece(new, {1}) /\ n = 1
    BY <2>1
  <2> HIDE <2>2
  <2> QED BY <2>3, <2>4, <2>5, <2>6
<1>9. OthersSame(s) /\ \A v \in Versions :
        uploads'[s][v] = IF v = new THEN entry ELSE IF v = w THEN None ELSE uploads[s][v]
  BY <1>1, <1>2, <1>3, <1>6, <1>8 DEF OthersSame, TypeOK
<1>10. CallOK(s)' /\ \A v \in Versions : ~Sends(s, v)' /\ ~Sends(s, v)
  BY <1>1, <1>6 DEF CallOK, Sends
<1>11. VersionOK(new)'
  <2>1. Listed(s, new)' /\ uploads'[s][new] = entry /\ remote'[new] = file
    BY <1>7, <1>8, <1>9 DEF Listed
  <2>2. file # None => file \in Contents(new)
    <3>1. {{}, {1}} \subseteq SUBSET (1..Chunks)
      BY SftpAssumption
    <3> QED BY <1>2, <3>1 DEF Contents
  <2>3. entry.next > 0 => file = Piece(new, 1..entry.next)
    <3>1. 1..1 = {1}
      OBVIOUS
    <3> QED BY <1>8, <3>1
  <2>4. KnownOK(s, new)'
    BY <1>6, <1>10, <2>1, <2>2, <2>3 DEF KnownOK, Owns
  <2>5. \A r \in Sessions \ {s} : ~Owns(r, new)
    BY <1>2, NotYetOwned
  <2> QED BY <1>9, <2>4, <2>5, OwnVersion
<1>12. ASSUME NEW v \in Versions, v = w
       PROVE  VersionOK(v)'
  <2>1. Listed(s, v) /\ VersionOK(v) /\ v # None
    BY <1>1, <1>12, Typed DEF IInv
  <2>2. v # new
    BY <1>2, <2>1, NotYetOwned DEF Owns
  <2>3. ~Listed(s, v)' /\ ~Sends(s, v)'
    BY <1>9, <1>10, <1>12, <2>2 DEF Listed
  <2>4. remote'[v] # None => v \in troubled' /\ remote'[v] \in Contents(v) /\ v <= issued
    BY <1>3, <1>5, <1>7, <1>12, <2>1, <2>2 DEF VersionOK, Exists
  <2>5. v <= issued => v <= issued'
    <3>1. v \in Nat /\ issued \in Nat /\ new \in Nat
      BY <1>1, Typed, NameFacts
    <3> QED BY <1>2, <3>1
  <2>6. KnownOK(s, v)'
    BY <2>3, <2>4, <2>5 DEF KnownOK
  <2>7. \A r \in Sessions \ {s} : ~Owns(r, v)
    BY <2>1, NobodyElse DEF Owns
  <2> QED BY <1>9, <2>6, <2>7, OwnVersion
<1>13. ASSUME NEW v \in Versions, v # new, v # w
       PROVE  Leaves(s, v)
  BY <1>3, <1>4, <1>7, <1>9, <1>10, <1>13 DEF Leaves
<1> QED BY <1>6, <1>9, <1>10, <1>11, <1>12, <1>13, StepOf

-----------------------------------------------------------------------------
(* Others at the temporary files *)

LEMMA RemoveTempStep ==
  ASSUME IInv, TypeOK', NEW v \in Versions, RemoveTemp(v)
  PROVE  IInv'
<1>1. TypeOK /\ UNCHANGED <<sess, uploads, call, issued, hidden>>
  BY DEF IInv, RemoveTemp
<1>2. remote'[v] = None /\ \A w \in Versions \ {v} : remote'[w] = remote[w]
  BY <1>1, NameFacts DEF RemoveTemp, TypeOK
<1>3. /\ touched \subseteq touched' /\ (InUse(v) => v \in touched')
      /\ \A w \in Versions \ {v} : w \in troubled => w \in troubled'
  BY <1>1 DEF RemoveTemp
<1>4. \A s \in Sessions : CallOK(s)'
  BY <1>1 DEF IInv, CallOK, Listed
<1>5. \A s \in Sessions, w \in Versions :
        /\ Listed(s, w)' <=> Listed(s, w)
        /\ Sends(s, w)' <=> Sends(s, w)
  BY <1>1 DEF Listed, Sends
<1>6. ASSUME NEW w \in Versions \ {v}
      PROVE  VersionOK(w)'
  BY <1>1, <1>2, <1>3, <1>5, SameVersion, Typed DEF IInv
<1>7. VersionOK(v)'
  <2>1. VersionOK(v)
    BY DEF IInv
  <2>2. \A s \in Sessions : Listed(s, v) \/ Sends(s, v) => v \in touched'
    BY <1>3 DEF InUse, Listed, Sends
  <2> QED BY <1>1, <1>2, <1>5, <2>1, <2>2 DEF VersionOK, Owns, Exists
<1> QED BY <1>4, <1>6, <1>7 DEF IInv

-----------------------------------------------------------------------------
(* Types *)

Entry == [path : Paths, next : 0..Chunks]

LEMMA Shape ==
  ASSUME remote' \in [Names -> Content \cup {None}],
         sess' \in [Sessions -> [closed : BOOLEAN, connected : BOOLEAN]],
         uploads' \in [Sessions -> [Versions -> Entry \cup {None}]],
         call' \in [Sessions -> Call \cup {Idle}],
         issued' \in 0..MaxVersions,
         touched' \in SUBSET Versions, troubled' \in SUBSET Versions,
         hidden' \in [Paths -> Content \cup {None}]
  PROVE  TypeOK'
  BY DEF TypeOK, Entry

LEMMA RefusedTypes ==
  ASSUME TypeOK, NEW s \in Sessions, Refused(s), call' \in [Sessions -> Call \cup {Idle}]
  PROVE  TypeOK'
  BY DEF Refused, TypeOK

LEMMA GotoTypes ==
  ASSUME TypeOK, NEW s \in Sessions, call[s] # Idle,
         NEW pc \in {"write", "cleanup"} \cup Replacing, Goto(s, pc)
  PROVE  call' \in [Sessions -> Call \cup {Idle}]
<1>1. call[s] \in Call
  BY DEF TypeOK
<1>2. [call[s] EXCEPT !.pc = pc] \in Call
  BY <1>1 DEF Call, Replacing
<1> QED BY <1>2 DEF Goto, TypeOK

LEMMA ReturnTypes ==
  ASSUME TypeOK, NEW s \in Sessions, Return(s)
  PROVE  call' \in [Sessions -> Call \cup {Idle}]
  BY DEF Return, TypeOK

LEMMA StartTypes ==
  ASSUME TypeOK, NEW s \in Sessions, NEW op \in {"upload", "chunk", "read"},
         NEW pc \in {"open", "write", "cleanup", "copy"} \cup Replacing,
         NEW from \in Versions \cup {None}, NEW to \in Paths, NEW todo \in SUBSET Paths,
         Start(s, op, pc, from, to, todo)
  PROVE  call' \in [Sessions -> Call \cup {Idle}]
<1>1. [op |-> op, pc |-> pc, from |-> from, to |-> to, todo |-> todo] \in Call
  BY DEF Call
<1> QED BY <1>1 DEF Start, TypeOK

LEMMA OpenTypes ==
  ASSUME TypeOK, OpenTemp
  PROVE  /\ issued + 1 \in Versions /\ issued' \in 0..MaxVersions
         /\ remote' \in [Names -> Content \cup {None}]
<1>1. PICK v \in Versions : v = issued + 1
  BY Typed, SftpAssumption DEF OpenTemp, Versions
<1>2. Piece(v, {}) \in Content
  BY ContentFacts
<1>3. remote' = [remote EXCEPT ![v] = Piece(v, {})]
  BY <1>1 DEF OpenTemp, Piece
<1>4. issued' \in 0..MaxVersions
  BY <1>1, SftpAssumption DEF OpenTemp, Versions
<1> QED BY <1>1, <1>2, <1>3, <1>4 DEF TypeOK

LEMMA SessionTypes ==
  ASSUME TypeOK, NEW s \in Sessions, ConnectSFTP(s) \/ Disconnect(s) \/ CloseSFTP(s)
  PROVE  TypeOK'
<1>1. CASE ConnectSFTP(s)
  BY <1>1 DEF ConnectSFTP, TypeOK
<1>2. CASE Disconnect(s)
  <2>1. [sess[s] EXCEPT !.connected = FALSE] \in [closed : BOOLEAN, connected : BOOLEAN]
    BY DEF TypeOK
  <2>2. sess' = [sess EXCEPT ![s] = [sess[s] EXCEPT !.connected = FALSE]]
    BY <1>2 DEF Disconnect
  <2>3. sess' \in [Sessions -> [closed : BOOLEAN, connected : BOOLEAN]]
    BY <2>1, <2>2 DEF TypeOK
  <2> QED BY <1>2, <2>3 DEF Disconnect, TypeOK
<1>3. CASE CloseSFTP(s)
  <2>1. PICK gone \in SUBSET {v \in Versions : uploads[s][v] # None /\ Exists(v)} :
          /\ remote' = [n \in Names |-> IF n \in gone THEN None ELSE remote[n]]
          /\ troubled' = (troubled \ gone)
               \cup ({v \in Versions : uploads[s][v] # None /\ Exists(v)} \ gone)
    BY <1>3 DEF CloseSFTP
  <2>2. remote' \in [Names -> Content \cup {None}] /\ troubled' \in SUBSET Versions
    BY <2>1 DEF TypeOK
  <2>3. [v \in Versions |-> None] \in [Versions -> Entry \cup {None}]
    OBVIOUS
  <2>4. uploads' \in [Sessions -> [Versions -> Entry \cup {None}]]
    BY <1>3, <2>3 DEF CloseSFTP, TypeOK, Entry
  <2>5. sess' \in [Sessions -> [closed : BOOLEAN, connected : BOOLEAN]]
    BY <1>3 DEF CloseSFTP, TypeOK
  <2> QED BY <1>3, <2>2, <2>4, <2>5, Shape DEF CloseSFTP, TypeOK
<1> QED BY <1>1, <1>2, <1>3

LEMMA FileTypes ==
  ASSUME IInv, NEW s \in Sessions, OpenNext(s) \/ WriteTemp(s) \/ Cleanup(s) \/ Copy(s)
  PROVE  TypeOK'
<1>1. TypeOK
  BY DEF IInv
<1>2. CASE OpenNext(s)
  <2>1. CASE Refused(s) /\ Return(s)
    BY <1>1, <2>1, RefusedTypes, ReturnTypes
  <2>2. CASE /\ Served(s) /\ OpenTemp
             /\ call' = [call EXCEPT ![s].pc = "write", ![s].from = issued + 1]
             /\ UNCHANGED <<sess, uploads, touched, hidden>>
    <3>1. call[s] \in Call
      BY <1>1, <1>2 DEF OpenNext, At, TypeOK
    <3>2. [call[s] EXCEPT !.pc = "write", !.from = issued + 1] \in Call
      BY <1>1, <2>2, <3>1, OpenTypes DEF Call
    <3>3. call' = [call EXCEPT ![s] = [call[s] EXCEPT !.pc = "write", !.from = issued + 1]]
      BY <2>2
    <3>4. call' \in [Sessions -> Call \cup {Idle}]
      BY <1>1, <3>2, <3>3 DEF TypeOK
    <3>5. issued' \in 0..MaxVersions /\ remote' \in [Names -> Content \cup {None}]
      BY <1>1, <2>2, OpenTypes
    <3> QED BY <1>1, <2>2, <3>4, <3>5 DEF TypeOK, Served
  <2> QED BY <1>2, <2>1, <2>2 DEF OpenNext
<1>3. CASE WriteTemp(s)
  <2>1. PICK v \in Versions : v = call[s].from /\ call[s] # Idle
    BY <1>3, WritingFacts DEF WriteTemp
  <2>2. \A parts \in SUBSET (1..Chunks) :
          remote' = Written(s, parts) => remote' \in [Names -> Content \cup {None}]
    <3>1. ASSUME NEW parts \in SUBSET (1..Chunks), remote' = Written(s, parts)
          PROVE  remote' \in [Names -> Content \cup {None}]
      <4>1. CASE Exists(v)
        <5>1. remote[v] \in Contents(v)
          BY <4>1 DEF IInv, VersionOK
        <5>2. [remote[v] EXCEPT !.parts = remote[v].parts \cup parts] \in Contents(v)
          BY <5>1 DEF Contents
        <5>3. [remote[v] EXCEPT !.parts = remote[v].parts \cup parts] \in Content
          BY <5>2, ContentFacts
        <5>4. remote' = [remote EXCEPT ![v] = [remote[v] EXCEPT !.parts = remote[v].parts \cup parts]]
          BY <2>1, <3>1, <4>1 DEF Written
        <5> QED BY <1>1, <5>3, <5>4 DEF TypeOK
      <4>2. CASE ~Exists(v)
        BY <1>1, <2>1, <3>1, <4>2 DEF Written, TypeOK
      <4> QED BY <4>1, <4>2
    <3> QED BY <3>1
  <2>3. remote' \in [Names -> Content \cup {None}]
    <3>1. 1..Chunks \in SUBSET (1..Chunks) /\ \A n \in 0..Chunks - 1 : 1..n \in SUBSET (1..Chunks)
      BY SftpAssumption
    <3>2. \E parts \in SUBSET (1..Chunks) : remote' = Written(s, parts)
      BY <1>3, <3>1 DEF WriteTemp
    <3> QED BY <2>2, <3>2
  <2>4. call' \in [Sessions -> Call \cup {Idle}]
    <3>1. Goto(s, "lstat") \/ Goto(s, "cleanup")
      BY <1>3 DEF WriteTemp
    <3>2. "lstat" \in Replacing
      BY DEF Replacing
    <3> QED BY <1>1, <2>1, <3>1, <3>2, GotoTypes
  <2>5. troubled' \in SUBSET Versions
    BY <1>1, <1>3, <2>1 DEF WriteTemp, Served, TypeOK
  <2> QED BY <1>1, <1>3, <2>3, <2>4, <2>5 DEF WriteTemp, TypeOK
<1>4. CASE Cleanup(s)
  <2>1. call' \in [Sessions -> Call \cup {Idle}]
    BY <1>1, <1>4, ReturnTypes DEF Cleanup
  <2>2. CASE Refused(s)
    BY <1>1, <2>1, <2>2, RefusedTypes
  <2>3. CASE /\ remote' = [remote EXCEPT ![call[s].from] = None]
             /\ troubled' = troubled \ {call[s].from}
             /\ UNCHANGED <<sess, uploads, issued, touched, hidden>>
    BY <1>1, <2>1, <2>3 DEF TypeOK
  <2> QED BY <1>4, <2>2, <2>3 DEF Cleanup
<1>5. CASE Copy(s)
  BY <1>1, <1>5, ReturnTypes DEF Copy, TypeOK
<1> QED BY <1>2, <1>3, <1>4, <1>5

LEMMA ReplaceTypes ==
  ASSUME IInv, NEW s \in Sessions, Lstat(s) \/ Rename(s) \/ RemoveDest(s)
  PROVE  TypeOK'
<1>1. TypeOK /\ call[s] # Idle /\ Finalizing(s)
  BY DEF IInv, Lstat, Rename, RemoveDest, At, Finalizing, Replacing
<1>2. PICK v \in Versions, p \in Paths : v = call[s].from /\ p = call[s].to /\ call[s] \in Call
  BY <1>1, ReplacingFacts
<1>3. \A pc \in Replacing : Goto(s, pc) => call' \in [Sessions -> Call \cup {Idle}]
  BY <1>1, GotoTypes
<1>4. Return(s) => call' \in [Sessions -> Call \cup {Idle}]
  BY <1>1, ReturnTypes
<1>5. call' \in [Sessions -> Call \cup {Idle}]
  <2>1. CASE \E q \in call[s].todo :
               call' = [call EXCEPT ![s].pc = "open", ![s].from = None, ![s].to = q,
                                    ![s].todo = @ \ {q}]
    <3>1. PICK q \in call[s].todo :
            call' = [call EXCEPT ![s] = [call[s] EXCEPT !.pc = "open", !.from = None, !.to = q,
                                                        !.todo = call[s].todo \ {q}]]
      BY <2>1, ZenonT(60)
    <3>2. PICK c : c = [call[s] EXCEPT !.pc = "open", !.from = None, !.to = q,
                                       !.todo = call[s].todo \ {q}]
      OBVIOUS
    <3>3. c \in Call
      BY <1>2, <3>2 DEF Call
    <3>4. call' = [call EXCEPT ![s] = c]
      BY <3>1, <3>2
    <3> QED BY <1>1, <3>3, <3>4 DEF TypeOK
  <2>2. {"rename", "remove", "renameAgain"} \subseteq Replacing
    BY DEF Replacing
  <2> QED BY <1>3, <1>4, <2>1, <2>2 DEF Lstat, Rename, RemoveDest, Replaced
<1>6. CASE Refused(s)
  BY <1>1, <1>5, <1>6, RefusedTypes
<1>7. CASE ~Refused(s) /\ Lstat(s)
  BY <1>1, <1>5, <1>7 DEF Lstat, Served, TypeOK
<1>8. CASE ~Refused(s) /\ RemoveDest(s)
  <2>1. troubled' = troubled
    BY <1>8 DEF RemoveDest, Served
  <2>2. remote[p] \in Content \cup {None}
    BY <1>1, NameFacts DEF TypeOK
  <2>3. /\ remote' \in [Names -> Content \cup {None}]
        /\ hidden' \in [Paths -> Content \cup {None}]
    BY <1>1, <1>2, <1>8, <2>2 DEF RemoveDest, TypeOK
  <2> QED BY <1>1, <1>5, <1>8, <2>1, <2>3 DEF RemoveDest, TypeOK
<1>9. CASE /\ remote' = Moved(call[s].from, call[s].to)
           /\ Replaced(s)
           /\ troubled' = troubled \ {call[s].from}
           /\ hidden' = [hidden EXCEPT ![call[s].to] = None]
           /\ UNCHANGED <<sess, issued, touched>>
  <2>1. remote[v] \in Content \cup {None}
    BY <1>1, NameFacts DEF TypeOK
  <2>2. remote' \in [Names -> Content \cup {None}]
    BY <1>1, <1>2, <1>9, <2>1 DEF Moved, TypeOK
  <2>3. uploads' \in [Sessions -> [Versions -> Entry \cup {None}]]
    <3>1. [uploads[s] EXCEPT ![v] = None] \in [Versions -> Entry \cup {None}]
      BY <1>1 DEF TypeOK, Entry
    <3>2. \/ uploads' = [uploads EXCEPT ![s] = [uploads[s] EXCEPT ![v] = None]]
          \/ uploads' = uploads
      BY <1>2, <1>9 DEF Replaced
    <3> QED BY <1>1, <3>1, <3>2 DEF TypeOK, Entry
  <2> QED BY <1>1, <1>9, <1>5, <2>2, <2>3, Shape DEF TypeOK
<1>10. CASE /\ troubled' = troubled \cup {call[s].from} /\ Return(s)
            /\ hidden' = hidden \/ hidden' = [hidden EXCEPT ![call[s].to] = None]
            /\ UNCHANGED <<remote, sess, uploads, issued, touched>>
  <2>1. troubled' \in SUBSET Versions
    BY <1>1, <1>2, <1>10 DEF TypeOK
  <2>2. hidden' \in [Paths -> Content \cup {None}]
    BY <1>1, <1>2, <1>10 DEF TypeOK
  <2> QED BY <1>1, <1>5, <1>10, <2>1, <2>2 DEF TypeOK
<1> QED BY <1>6, <1>7, <1>8, <1>9, <1>10 DEF Rename

LEMMA UploadTypes ==
  ASSUME TypeOK, NEW s \in Sessions, NEW p \in Paths, NEW todo \in SUBSET Paths,
         UploadSFTP(s, p, todo)
  PROVE  TypeOK'
<1>1. /\ issued + 1 \in Versions /\ issued' \in 0..MaxVersions
      /\ remote' \in [Names -> Content \cup {None}]
  BY OpenTypes DEF UploadSFTP
<1>2. Start(s, "upload", "write", issued + 1, p, todo)
  BY DEF UploadSFTP
<1>3. call' \in [Sessions -> Call \cup {Idle}]
  BY <1>1, <1>2, StartTypes
<1> QED BY <1>1, <1>3 DEF UploadSFTP, Served, TypeOK

LEMMA ReadTypes ==
  ASSUME TypeOK, NEW s \in Sessions, NEW p \in Paths, DownloadSFTP(s, p)
  PROVE  TypeOK'
<1>1. Start(s, "read", "copy", None, p, {})
  BY DEF DownloadSFTP
<1>2. call' \in [Sessions -> Call \cup {Idle}]
  BY <1>1, StartTypes
<1> QED BY <1>2 DEF DownloadSFTP, Served, TypeOK

LEMMA ExtendedTypes ==
  ASSUME TypeOK, NEW v \in Versions, Exists(v) => remote[v] \in Contents(v),
         NEW parts \in SUBSET (1..Chunks), remote' = Extended(v, parts)
  PROVE  remote' \in [Names -> Content \cup {None}]
<1>1. PICK all \in SUBSET (1..Chunks) : all = parts \cup (IF Exists(v) THEN remote[v].parts ELSE {})
  BY DEF Contents
<1>2. Piece(v, all) \in Content
  BY ContentFacts
<1>3. remote' = [remote EXCEPT ![v] = Piece(v, all)]
  BY <1>1 DEF Extended
<1> QED BY <1>2, <1>3 DEF TypeOK

LEMMA ChunkTypes ==
  ASSUME IInv, NEW s \in Sessions, NEW v \in Versions, NEW p \in Paths,
         \/ \E off \in 1..Chunks - 1 : NextChunk(s, v, p, off)
         \/ LastChunk(s, v, p, Chunks)
  PROVE  TypeOK'
<1>1. TypeOK /\ (Exists(v) => remote[v] \in Contents(v)) /\ uploads[s][v] \in Entry
  <2>1. TypeOK /\ VersionOK(v) /\ uploads[s][v] # None
    BY DEF IInv, NextChunk, LastChunk, Continues
  <2>2. uploads[s][v] \in Entry
    BY <2>1 DEF TypeOK, Entry
  <2>3. Exists(v) => remote[v] \in Contents(v)
    BY <2>1 DEF VersionOK
  <2> QED BY <2>1, <2>2, <2>3
<1>2. ASSUME NEW off \in 1..Chunks - 1, NextChunk(s, v, p, off)
      PROVE  TypeOK'
  <2>1. off + 1 \in 1..Chunks
    BY SftpAssumption
  <2>2. {off + 1} \in SUBSET (1..Chunks)
    BY <2>1
  <2>3. remote' \in [Names -> Content \cup {None}]
    BY <1>1, <1>2, <2>2, ExtendedTypes DEF NextChunk
  <2>4. [uploads[s][v] EXCEPT !.next = off + 1] \in Entry
    BY <1>1, <2>1 DEF Entry
  <2>5. [uploads[s] EXCEPT ![v] = [uploads[s][v] EXCEPT !.next = off + 1]]
          \in [Versions -> Entry \cup {None}]
    BY <1>1, <2>4 DEF TypeOK, Entry
  <2>6. uploads' = [uploads EXCEPT ![s] =
          [uploads[s] EXCEPT ![v] = [uploads[s][v] EXCEPT !.next = off + 1]]]
    BY <1>2 DEF NextChunk
  <2>7. uploads' \in [Sessions -> [Versions -> Entry \cup {None}]]
    BY <1>1, <2>5, <2>6 DEF TypeOK, Entry
  <2> QED BY <1>1, <1>2, <2>3, <2>7, Shape DEF NextChunk, Served, TypeOK
<1>3. CASE LastChunk(s, v, p, Chunks)
  <2>1. remote' \in [Names -> Content \cup {None}]
    BY <1>1, <1>3, ExtendedTypes DEF LastChunk
  <2>2. Start(s, "chunk", "lstat", v, p, {}) /\ "lstat" \in Replacing
    BY <1>3 DEF LastChunk, Replacing
  <2>3. call' \in [Sessions -> Call \cup {Idle}]
    BY <1>1, <2>2, StartTypes
  <2> QED BY <1>1, <1>3, <2>1, <2>3 DEF LastChunk, Served, TypeOK
<1> QED BY <1>2, <1>3

LEMMA FirstChunkTypes ==
  ASSUME TypeOK, NEW s \in Sessions, NEW w \in Versions \cup {None}, NEW p \in Paths,
         FirstChunk(s, w, p)
  PROVE  TypeOK'
<1> DEFINE stale == {u \in {w} \cap Versions : Exists(u)}
<1>1. PICK new \in Versions : new = issued + 1 /\ issued' = new
  BY Typed, SftpAssumption DEF FirstChunk, Versions
<1>2. issued' \in 0..MaxVersions
  BY <1>1, SftpAssumption DEF Versions
<1>3. PICK gone \in SUBSET stale, file \in {None} \cup [of : {issued + 1}, parts : {{}, {1}}] :
        /\ remote' = [n \in Names |-> IF n = issued + 1 THEN file
                                      ELSE IF n \in gone THEN None ELSE remote[n]]
        /\ uploads' = [uploads EXCEPT ![s] = [u \in Versions |->
             IF u = issued + 1
             THEN [path |-> p, next |-> IF file = Piece(issued + 1, {1}) THEN 1 ELSE 0]
             ELSE IF u = w THEN None ELSE uploads[s][u]]]
        /\ troubled' = (troubled \ gone) \cup (stale \ gone)
  BY DEF FirstChunk
<1>4. {{}, {1}} \subseteq SUBSET (1..Chunks)
  BY SftpAssumption
<1>5. file \in Content \cup {None}
  <2>1. file # None => file \in Contents(new)
    BY <1>1, <1>4 DEF Contents
  <2> QED BY <2>1, ContentFacts
<1>6. remote' \in [Names -> Content \cup {None}]
  BY <1>3, <1>5 DEF TypeOK
<1>7. PICK entry \in Entry :
        entry = [path |-> p, next |-> IF file = Piece(issued + 1, {1}) THEN 1 ELSE 0]
  <2>1. PICK n \in 0..Chunks : n = IF file = Piece(issued + 1, {1}) THEN 1 ELSE 0
    BY SftpAssumption
  <2>2. PICK e \in Entry : e = [path |-> p, next |-> n]
    BY DEF Entry
  <2> QED BY <2>1, <2>2
<1>8. [u \in Versions |-> IF u = issued + 1 THEN entry ELSE IF u = w THEN None ELSE uploads[s][u]]
        \in [Versions -> Entry \cup {None}]
  BY DEF TypeOK, Entry
<1>9. uploads' \in [Sessions -> [Versions -> Entry \cup {None}]]
  BY <1>3, <1>7, <1>8 DEF TypeOK, Entry
<1>10. troubled' \in SUBSET Versions
  BY <1>3 DEF TypeOK
<1> QED BY <1>2, <1>6, <1>9, <1>10, Shape DEF FirstChunk, TypeOK

LEMMA UserTypes ==
  ASSUME TypeOK, NEW s \in Sessions, NEW p \in Paths, NEW q \in Paths,
         RemoveSFTP(s, p) \/ RenameSFTP(s, p, q)
  PROVE  TypeOK'
<1>1. remote[p] \in Content \cup {None}
  BY NameFacts DEF TypeOK
<1>2. remote' \in [Names -> Content \cup {None}]
  BY <1>1 DEF RemoveSFTP, RenameSFTP, Moved, TypeOK
<1>3. hidden' \in [Paths -> Content \cup {None}]
  BY DEF RemoveSFTP, RenameSFTP, TypeOK
<1> QED BY <1>2, <1>3 DEF RemoveSFTP, RenameSFTP, Served, TypeOK

LEMMA RemoveTempTypes ==
  ASSUME TypeOK, NEW v \in Versions, RemoveTemp(v)
  PROVE  TypeOK'
  BY DEF RemoveTemp, TypeOK

-----------------------------------------------------------------------------
(* The invariant *)

LEMMA InitOK ==
  ASSUME Init
  PROVE  IInv
<1>1. Old \in Content
  BY ContentFacts DEF Old
<1>2. TypeOK
  BY <1>1, SftpAssumption DEF Init, TypeOK
<1>3. \A s \in Sessions : CallOK(s)
  BY DEF Init, CallOK
<1>4. \A v \in Versions : VersionOK(v)
  BY DEF Init, VersionOK, Exists, Owns, Listed, Sends
<1> QED BY <1>2, <1>3, <1>4 DEF IInv

LEMMA NextOK ==
  ASSUME IInv, [Next]_vars
  PROVE  IInv'
<1>0. TypeOK
  BY DEF IInv
<1>1. CASE UNCHANGED vars
  BY <1>1 DEF vars, IInv, TypeOK, CallOK, VersionOK, Exists, InUse, Owns, Listed, Sends
<1>2. ASSUME NEW s \in Sessions, ConnectSFTP(s) \/ Disconnect(s) \/ CloseSFTP(s)
      PROVE  IInv'
  BY <1>0, <1>2, SessionTypes, LineStep, CloseStep
<1>3. ASSUME NEW s \in Sessions,
             OpenNext(s) \/ WriteTemp(s) \/ Cleanup(s) \/ Copy(s)
      PROVE  IInv'
  <2>1. TypeOK'
    BY <1>3, FileTypes
  <2>2. CASE Copy(s)
    <3>1. PICK p : p \in Paths
      BY <1>0, <2>2 DEF Copy, At, TypeOK, Call
    <3> QED BY <2>1, <2>2, <3>1, ReadStep
  <2> QED BY <1>3, <2>1, <2>2, OpenNextStep, WriteStep, CleanupStep
<1>4. ASSUME NEW s \in Sessions, Lstat(s) \/ Rename(s) \/ RemoveDest(s)
      PROVE  IInv'
  BY <1>4, ReplaceTypes, LstatStep, RenameStep, RemoveDestStep
<1>5. ASSUME NEW s \in Sessions, NEW p \in Paths, NEW todo \in SUBSET Paths,
             UploadSFTP(s, p, todo)
      PROVE  IInv'
  BY <1>0, <1>5, UploadTypes, UploadStep
<1>6. ASSUME NEW s \in Sessions, NEW p \in Paths, NEW v \in Versions \cup {None},
             FirstChunk(s, v, p)
      PROVE  IInv'
  BY <1>0, <1>6, FirstChunkTypes, FirstChunkStep
<1>7. ASSUME NEW s \in Sessions, NEW p \in Paths, NEW v \in Versions,
             NEW off \in 1..Chunks - 1, NextChunk(s, v, p, off)
      PROVE  IInv'
  <2>1. TypeOK'
    BY <1>7, ChunkTypes
  <2> QED BY <1>7, <2>1, NextChunkStep
<1>8. ASSUME NEW s \in Sessions, NEW p \in Paths, NEW v \in Versions,
             LastChunk(s, v, p, Chunks)
      PROVE  IInv'
  <2>1. TypeOK'
    BY <1>8, ChunkTypes
  <2> QED BY <1>8, <2>1, LastChunkStep
<1>9. ASSUME NEW s \in Sessions, NEW p \in Paths, DownloadSFTP(s, p)
      PROVE  IInv'
  BY <1>0, <1>9, ReadTypes, ReadStep
<1>10. ASSUME NEW s \in Sessions, NEW p \in Paths, NEW q \in Paths,
              RemoveSFTP(s, p) \/ RenameSFTP(s, p, q)
       PROVE  IInv'
  BY <1>0, <1>10, UserTypes, UserStep
<1>11. ASSUME NEW v \in Versions, RemoveTemp(v)
       PROVE  IInv'
  BY <1>0, <1>11, RemoveTempTypes, RemoveTempStep
<1>12. ASSUME NEW s \in Sessions, NEW p \in Paths, WriteTextSFTP(s, p)
       PROVE  IInv'
  <2>1. {} \in SUBSET Paths
    OBVIOUS
  <2> QED BY <1>5, <1>12, <2>1 DEF WriteTextSFTP
<1>13. ASSUME NEW s \in Sessions, NEW p \in Paths,
              ReadTextSFTP(s, p) \/ PropertiesChecksumSFTP(s, p)
       PROVE  IInv'
  BY <1>9, <1>13 DEF ReadTextSFTP, PropertiesChecksumSFTP
<1>14. CASE Next
  BY <1>2, <1>3, <1>4, <1>5, <1>6, <1>7, <1>8, <1>9, <1>10, <1>11, <1>12, <1>13, <1>14
     DEF Next
<1> QED BY <1>1, <1>14

THEOREM SftpInvariant == Spec => []IInv
  BY InitOK, NextOK, PTL DEF Spec

\* Every call is at a step of its method with the arguments that step reads, and files,
\* lists and sessions are of their types.
THEOREM SftpTypes == Spec => []TypeOK
<1>1. IInv => TypeOK
  BY DEF IInv
<1> QED BY <1>1, SftpInvariant, PTL

\* Every temporary file on the server is being written, or known to the session that can
\* still remove it, or one about which a request failed: CloseSFTP, cleanup and a new
\* first chunk forget none.
THEOREM SftpNoLitter == Spec => []NoLitter
<1>1. IInv => NoLitter
  BY DEF IInv, VersionOK, NoLitter
<1> QED BY <1>1, SftpInvariant, PTL

-----------------------------------------------------------------------------
(* RemoteFiles: what a step of the detailed specification is there *)

Writing == [s \in Sessions |-> IF Finalizing(s)
                               THEN [path |-> call[s].to, version |-> call[s].from] ELSE None]

Hides(s, p) == At(s, "renameAgain") /\ call[s].to = p

SeenAt(p) == IF Exists(p) THEN remote[p]
             ELSE IF \E s \in Sessions : Hides(s, p) THEN hidden[p] ELSE None

LEMMA Seen ==
  /\ Visible = [p \in Paths |-> SeenAt(p)]
  /\ Visible' = [p \in Paths |-> SeenAt(p)']
  BY DEF Visible, SeenAt, Hides

LEMMA SeenSame ==
  ASSUME \A p \in Paths : SeenAt(p)' = SeenAt(p)
  PROVE  Visible' = Visible
  BY Seen

LEMMA SeenBut ==
  ASSUME NEW q \in Paths, \A p \in Paths \ {q} : SeenAt(p)' = SeenAt(p)
  PROVE  Visible' = [Visible EXCEPT ![q] = SeenAt(q)']
  BY Seen

\* Sessions that hide a path go on hiding it, and no others do.
LEMMA SeenPath ==
  ASSUME NEW p \in Paths, remote'[p] = remote[p], hidden'[p] = hidden[p],
         \A r \in Sessions : Hides(r, p)' <=> Hides(r, p)
  PROVE  SeenAt(p)' = SeenAt(p)
  BY DEF SeenAt, Exists

LEMMA HidesOf ==
  ASSUME NEW s \in Sessions, \A r \in Sessions \ {s} : call'[r] = call[r]
  PROVE  \A r \in Sessions \ {s} : /\ Finalizing(r)' <=> Finalizing(r)
                                   /\ \A p \in Paths : Hides(r, p)' <=> Hides(r, p)
  BY DEF Hides, At, Finalizing

LEMMA WritingSame ==
  ASSUME \A r \in Sessions : /\ Finalizing(r)' <=> Finalizing(r)
                             /\ Finalizing(r) => /\ call'[r].to = call[r].to
                                                 /\ call'[r].from = call[r].from
  PROVE  Writing' = Writing
  BY DEF Writing

LEMMA WritingOf ==
  ASSUME NEW s \in Sessions, \A r \in Sessions \ {s} : call'[r] = call[r]
  PROVE  /\ ~Finalizing(s)' => Writing' = [Writing EXCEPT ![s] = None]
         /\ Finalizing(s)' => Writing' =
              [Writing EXCEPT ![s] = [path |-> call'[s].to, version |-> call'[s].from]]
<1>1. \A r \in Sessions \ {s} : Finalizing(r)' <=> Finalizing(r)
  BY DEF Finalizing
<1> QED BY <1>1 DEF Writing

LEMMA Stutters ==
  ASSUME Visible' = Visible, Writing' = Writing, touched' = touched
  PROVE  UNCHANGED Promise!vars
  BY DEF Promise!vars, Writing

LEMMA Begins ==
  ASSUME NEW s \in Sessions, NEW p \in Paths, NEW v \in Versions, Writing[s] = None,
         Visible' = Visible, touched' = touched,
         Writing' = [Writing EXCEPT ![s] = [path |-> p, version |-> v]]
  PROVE  Promise!Next
<1>1. Promise!Begin(s, p, v)
  BY DEF Promise!Begin, Writing
<1> QED BY <1>1 DEF Promise!Next

LEMMA Commits ==
  ASSUME NEW s \in Sessions, NEW p, NEW v, Writing[s] = [path |-> p, version |-> v],
         Writing[s] # None,
         NEW new \in (IF v \in touched THEN Contents(v) ELSE {Whole(v)}),
         Visible' = [Visible EXCEPT ![p] = new], touched' = touched,
         Writing' = [Writing EXCEPT ![s] = None]
  PROVE  Promise!Next
<1>1. Writing[s].path = p /\ Writing[s].version = v
  OBVIOUS
<1>2. Promise!Commit(s)
  BY <1>1 DEF Promise!Commit, Writing
<1> QED BY <1>2 DEF Promise!Next

LEMMA Aborts ==
  ASSUME NEW s \in Sessions, NEW p, NEW v, Writing[s] = [path |-> p, version |-> v],
         Writing[s] # None,
         Visible' = [Visible EXCEPT ![p] = None] \/ Visible' = Visible, touched' = touched,
         Writing' = [Writing EXCEPT ![s] = None]
  PROVE  Promise!Next
<1>1. Writing[s].path = p
  OBVIOUS
<1>2. Promise!Abort(s)
  BY <1>1 DEF Promise!Abort, Writing
<1> QED BY <1>2 DEF Promise!Next

LEMMA Removes ==
  ASSUME NEW s \in Sessions, NEW p \in Paths, Writing[s] = None,
         Visible' = [Visible EXCEPT ![p] = None], touched' = touched, Writing' = Writing
  PROVE  Promise!Next
<1>1. Promise!Remove(s, p)
  BY DEF Promise!Remove, Writing
<1> QED BY <1>1 DEF Promise!Next

LEMMA Renames ==
  ASSUME NEW s \in Sessions, NEW p \in Paths, NEW q \in Paths \ {p}, Writing[s] = None,
         Visible' = [[Visible EXCEPT ![q] = Visible[p]] EXCEPT ![p] = None],
         touched' = touched, Writing' = Writing
  PROVE  Promise!Next
<1>1. Promise!Rename(s, p, q)
  BY DEF Promise!Rename, Writing
<1> QED BY <1>1 DEF Promise!Next

LEMMA Touches ==
  ASSUME NEW v \in Versions, Visible' = Visible, Writing' = Writing,
         touched' = touched \cup {v}
  PROVE  Promise!Next
<1>1. Promise!Touch(v)
  BY DEF Promise!Touch, Writing
<1> QED BY <1>1 DEF Promise!Next

PromiseStep ==
  /\ [Promise!Next]_Promise!vars
  /\ \A p \in Paths : Lost(p) => LossExplained(p)

\* Nothing is lost in a step that shows the same files, or something else at one path.
LEMMA NoLoss ==
  ASSUME Visible' = Visible
  PROVE  \A p \in Paths : ~Lost(p)
  BY DEF Lost

LEMMA NoLossBut ==
  ASSUME NEW q \in Paths, NEW new, Visible' = [Visible EXCEPT ![q] = new]
  PROVE  \A p \in Paths : Lost(p) => p = q /\ new = None
  BY Seen DEF Lost

\* Steps outside finalizeRemoteReplace
LEMMA QuietStep ==
  ASSUME NEW s \in Sessions, \A r \in Sessions \ {s} : call'[r] = call[r],
         ~Finalizing(s), ~Finalizing(s)',
         \A p \in Paths : remote'[p] = remote[p], hidden' = hidden, touched' = touched
  PROVE  PromiseStep
<1>1. \A r \in Sessions : Finalizing(r)' <=> Finalizing(r)
  BY HidesOf
<1>2. \A r \in Sessions : Finalizing(r) => call'[r].to = call[r].to /\ call'[r].from = call[r].from
  OBVIOUS
<1>3. Writing' = Writing
  BY <1>1, <1>2, WritingSame
<1>4. \A p \in Paths : ~Hides(s, p) /\ ~Hides(s, p)'
  BY DEF Hides, At, Finalizing, Replacing
<1>5. \A p \in Paths : SeenAt(p)' = SeenAt(p)
  BY <1>4, HidesOf, SeenPath
<1>6. Visible' = Visible
  BY <1>5, SeenSame
<1> QED BY <1>3, <1>6, NoLoss, Stutters DEF PromiseStep

LEMMA NotInPaths ==
  ASSUME NEW v \in Versions
  PROVE  v \notin Paths
  BY NameFacts

LEMMA BeginStep ==
  ASSUME NEW s \in Sessions, \A r \in Sessions \ {s} : call'[r] = call[r],
         ~Finalizing(s), Finalizing(s)', ~At(s, "renameAgain")',
         call'[s].from \in Versions, call'[s].to \in Paths,
         \A p \in Paths : remote'[p] = remote[p], hidden' = hidden, touched' = touched
  PROVE  PromiseStep
<1>1. Writing' = [Writing EXCEPT ![s] = [path |-> call'[s].to, version |-> call'[s].from]]
  BY WritingOf
<1>2. Writing[s] = None
  BY DEF Writing
<1>3. \A p \in Paths : ~Hides(s, p) /\ ~Hides(s, p)'
  BY DEF Hides, At, Finalizing, Replacing
<1>4. \A p \in Paths : SeenAt(p)' = SeenAt(p)
  BY <1>3, HidesOf, SeenPath
<1>5. Visible' = Visible
  BY <1>4, SeenSame
<1> QED BY <1>1, <1>2, <1>5, NoLoss, Begins DEF PromiseStep

\* A step within finalizeRemoteReplace, and the end of one
LEMMA GoingOnStep ==
  ASSUME NEW s \in Sessions, \A r \in Sessions \ {s} : call'[r] = call[r],
         Finalizing(s), Finalizing(s)',
         call'[s].from = call[s].from, call'[s].to = call[s].to,
         \A p \in Paths : SeenAt(p)' = SeenAt(p), touched' = touched
  PROVE  PromiseStep
<1>1. \A r \in Sessions : Finalizing(r)' <=> Finalizing(r)
  BY HidesOf
<1>2. \A r \in Sessions : Finalizing(r) => call'[r].to = call[r].to /\ call'[r].from = call[r].from
  OBVIOUS
<1>3. Writing' = Writing
  BY <1>1, <1>2, WritingSame
<1>4. Visible' = Visible
  BY SeenSame
<1> QED BY <1>3, <1>4, NoLoss, Stutters DEF PromiseStep

LEMMA WritingNow ==
  ASSUME IInv, NEW s \in Sessions, Finalizing(s)
  PROVE  /\ Writing[s] = [path |-> call[s].to, version |-> call[s].from]
         /\ Writing[s] # None
<1>1. Writing[s] = [path |-> call[s].to, version |-> call[s].from]
  BY DEF Writing
<1>2. Writing[s] \in [path : Paths, version : Versions]
  BY <1>1, ReplacingFacts
<1> QED BY <1>1, <1>2, SftpAssumption

LEMMA AbortStep ==
  ASSUME IInv, NEW s \in Sessions, \A r \in Sessions \ {s} : call'[r] = call[r],
         Finalizing(s), ~Finalizing(s)', touched' = touched,
         NEW q \in Paths, q = call[s].to, \A p \in Paths \ {q} : SeenAt(p)' = SeenAt(p),
         SeenAt(q)' = SeenAt(q) \/ (SeenAt(q)' = None /\ LossExplained(q))
  PROVE  PromiseStep
<1>1. Writing' = [Writing EXCEPT ![s] = None]
  BY WritingOf
<1>2. CASE SeenAt(q)' = SeenAt(q)
  <2>1. Visible' = Visible
    BY <1>2, SeenSame
  <2> QED BY <1>1, <2>1, WritingNow, NoLoss, Aborts DEF PromiseStep
<1>3. CASE SeenAt(q)' = None /\ LossExplained(q)
  <2>1. Visible' = [Visible EXCEPT ![q] = None]
    BY <1>3, SeenBut
  <2>2. \A p \in Paths : Lost(p) => p = q
    BY <2>1, NoLossBut
  <2> QED BY <1>1, <1>3, <2>1, <2>2, WritingNow, Aborts DEF PromiseStep
<1> QED BY <1>2, <1>3

\* Steps that leave the calls, what is at the paths and what is hidden as they are
LEMMA SameStep ==
  ASSUME UNCHANGED <<call, hidden, touched>>, \A p \in Paths : remote'[p] = remote[p]
  PROVE  PromiseStep
<1>1. \A r \in Sessions : Finalizing(r)' <=> Finalizing(r)
  BY DEF Finalizing
<1>2. Writing' = Writing
  BY <1>1, WritingSame
<1>3. \A p \in Paths, r \in Sessions : Hides(r, p)' <=> Hides(r, p)
  BY DEF Hides, At
<1>4. \A p \in Paths : SeenAt(p)' = SeenAt(p)
  BY <1>3, SeenPath
<1>5. Visible' = Visible
  BY <1>4, SeenSame
<1> QED BY <1>2, <1>5, NoLoss, Stutters DEF PromiseStep

LEMMA SessionMaps ==
  ASSUME IInv, NEW s \in Sessions, ConnectSFTP(s) \/ Disconnect(s) \/ CloseSFTP(s)
  PROVE  PromiseStep
<1>1. CASE ConnectSFTP(s) \/ Disconnect(s)
  BY <1>1, SameStep DEF ConnectSFTP, Disconnect
<1>2. CASE CloseSFTP(s)
  <2>1. UNCHANGED <<call, hidden, touched>>
    BY <1>2 DEF CloseSFTP
  <2>2. PICK gone \in SUBSET Versions :
          remote' = [n \in Names |-> IF n \in gone THEN None ELSE remote[n]]
    BY <1>2 DEF CloseSFTP
  <2>3. \A p \in Paths : remote'[p] = remote[p]
    BY <2>2, NameFacts
  <2> QED BY <2>1, <2>3, SameStep
<1> QED BY <1>1, <1>2

LEMMA FirstChunkMaps ==
  ASSUME IInv, NEW s \in Sessions, NEW w \in Versions \cup {None}, NEW p \in Paths,
         FirstChunk(s, w, p)
  PROVE  PromiseStep
<1>1. UNCHANGED <<call, hidden, touched>>
  BY DEF FirstChunk
<1>2. PICK new \in Versions : new = issued + 1
  BY Typed, SftpAssumption DEF IInv, FirstChunk, Versions
<1>3. PICK gone \in SUBSET {u \in {w} \cap Versions : Exists(u)},
           file \in {None} \cup [of : {issued + 1}, parts : {{}, {1}}] :
        remote' = [n \in Names |-> IF n = issued + 1 THEN file
                                   ELSE IF n \in gone THEN None ELSE remote[n]]
  BY DEF FirstChunk
<1>4. \A q \in Paths : remote'[q] = remote[q]
  BY <1>2, <1>3, NameFacts
<1> QED BY <1>1, <1>4, SameStep

LEMMA ExtendedPaths ==
  ASSUME IInv, NEW v \in Versions, NEW parts, remote' = Extended(v, parts)
  PROVE  \A p \in Paths : remote'[p] = remote[p]
  BY NameFacts DEF Extended, IInv, TypeOK

LEMMA ChunkMaps ==
  ASSUME IInv, NEW s \in Sessions, NEW v \in Versions, NEW p \in Paths,
         \/ \E off \in 1..Chunks - 1 : NextChunk(s, v, p, off)
         \/ LastChunk(s, v, p, Chunks)
  PROVE  PromiseStep
<1>1. ASSUME NEW off \in 1..Chunks - 1, NextChunk(s, v, p, off)
      PROVE  PromiseStep
  <2>1. remote' = Extended(v, {off + 1}) /\ UNCHANGED <<call, hidden, touched>>
    BY <1>1 DEF NextChunk
  <2> QED BY <2>1, ExtendedPaths, SameStep
<1>2. CASE LastChunk(s, v, p, Chunks)
  <2>1. remote' = Extended(v, {}) /\ UNCHANGED <<hidden, touched>> /\ ~Finalizing(s)
    BY <1>2 DEF LastChunk, lockedSFTP, Finalizing
  <2>2. \A q \in Paths : remote'[q] = remote[q]
    BY <2>1, ExtendedPaths
  <2>3. call' = [call EXCEPT ![s] = [op |-> "chunk", pc |-> "lstat", from |-> v, to |-> p,
                                     todo |-> {}]]
    BY <1>2 DEF LastChunk, Start
  <2>4. call'[s].pc = "lstat" /\ call'[s].from = v /\ call'[s].to = p /\ call'[s] # Idle
    <3>1. PICK c \in Call : c = [op |-> "chunk", pc |-> "lstat", from |-> v, to |-> p, todo |-> {}]
      BY DEF Call, Replacing
    <3>2. c.pc = "lstat" /\ c.from = v /\ c.to = p /\ c # Idle
      BY <3>1, SftpAssumption
    <3>3. call'[s] = c
      BY <2>3, <3>1 DEF IInv, TypeOK
    <3> QED BY <3>2, <3>3
  <2>5. \A r \in Sessions \ {s} : call'[r] = call[r]
    BY <2>3 DEF IInv, TypeOK
  <2>6. Finalizing(s)' /\ ~At(s, "renameAgain")'
    BY <2>4 DEF Finalizing, At, Replacing
  <2> QED BY <2>1, <2>2, <2>4, <2>5, <2>6, BeginStep
<1> QED BY <1>1, <1>2

LEMMA OpenPaths ==
  ASSUME IInv, OpenTemp
  PROVE  \A p \in Paths : remote'[p] = remote[p]
<1>1. PICK new \in Versions : new = issued + 1
  BY Typed, SftpAssumption DEF IInv, OpenTemp, Versions
<1> QED BY <1>1, NameFacts DEF OpenTemp, IInv, TypeOK

\* The start of uploads and reads
LEMMA StartMaps ==
  ASSUME IInv, NEW s \in Sessions, NEW p \in Paths,
         \/ \E todo \in SUBSET Paths : UploadSFTP(s, p, todo)
         \/ DownloadSFTP(s, p)
  PROVE  PromiseStep
<1>1. /\ UNCHANGED <<hidden, touched>> /\ ~Finalizing(s) /\ TypeOK
      /\ \A q \in Paths : remote'[q] = remote[q]
  BY OpenPaths DEF UploadSFTP, DownloadSFTP, lockedSFTP, Finalizing, IInv
<1>2. /\ call'[s].pc \in {"write", "copy"}
      /\ \A r \in Sessions \ {s} : call'[r] = call[r]
  <2>1. CASE DownloadSFTP(s, p)
    <3>1. Start(s, "read", "copy", None, p, {})
      BY <2>1 DEF DownloadSFTP
    <3> QED BY <1>1, <3>1 DEF Start, TypeOK
  <2>2. CASE \E todo \in SUBSET Paths : UploadSFTP(s, p, todo)
    <3>1. PICK todo \in SUBSET Paths : Start(s, "upload", "write", issued + 1, p, todo)
      BY <2>2 DEF UploadSFTP
    <3> QED BY <1>1, <3>1 DEF Start, TypeOK
  <2> QED BY <2>1, <2>2
<1>3. ~Finalizing(s)'
  BY <1>2 DEF Finalizing, Replacing
<1> QED BY <1>1, <1>2, <1>3, QuietStep

\* Uploads before finalizeRemoteReplace, and reads
LEMMA FileMaps ==
  ASSUME IInv, NEW s \in Sessions,
         OpenNext(s) \/ Cleanup(s) \/ Copy(s)
  PROVE  PromiseStep
<1>1. ~Finalizing(s) /\ call[s] # Idle /\ TypeOK
  BY DEF OpenNext, Cleanup, Copy, At, Finalizing, Replacing, IInv
<1>2. UNCHANGED <<hidden, touched>> /\ \A p \in Paths : remote'[p] = remote[p]
  <2>1. CASE OpenNext(s)
    BY <2>1, OpenPaths DEF OpenNext, Refused
  <2>2. CASE Cleanup(s)
    <3>1. call[s].from \in Versions
      BY <2>2, WritingFacts DEF Cleanup
    <3> QED BY <1>1, <2>2, <3>1, NameFacts DEF Cleanup, Refused, TypeOK
  <2>3. CASE Copy(s)
    BY <2>3 DEF Copy
  <2> QED BY <2>1, <2>2, <2>3
<1>3. \A r \in Sessions \ {s} : call'[r] = call[r]
  BY <1>1 DEF OpenNext, Cleanup, Copy, Return, TypeOK
<1>4. call'[s] = Idle \/ call'[s].pc = "write"
  <2>1. CASE Return(s)
    BY <1>1, <2>1 DEF Return, TypeOK
  <2>2. CASE call' = [call EXCEPT ![s].pc = "write", ![s].from = issued + 1]
    <3>1. call[s] \in Call
      BY <1>1 DEF TypeOK
    <3>2. call' = [call EXCEPT ![s] = [call[s] EXCEPT !.pc = "write", !.from = issued + 1]]
      BY <2>2
    <3>3. [call[s] EXCEPT !.pc = "write", !.from = issued + 1].pc = "write"
      BY <3>1 DEF Call
    <3> QED BY <1>1, <3>2, <3>3 DEF TypeOK
  <2> QED BY <2>1, <2>2 DEF OpenNext, Cleanup, Copy
<1>5. ~Finalizing(s)'
  BY <1>4 DEF Finalizing, Replacing
<1> QED BY <1>1, <1>2, <1>3, <1>5, QuietStep

LEMMA WriteMaps ==
  ASSUME IInv, NEW s \in Sessions, WriteTemp(s)
  PROVE  PromiseStep
<1>1. PICK v \in Versions : /\ v = call[s].from /\ call[s] # Idle /\ call[s] \in Call /\ TypeOK
                            /\ ~Finalizing(s)
  BY WritingFacts DEF WriteTemp, IInv, At, Finalizing, Replacing
<1>2. UNCHANGED <<hidden, touched>>
  BY DEF WriteTemp
<1>3. \A p \in Paths : remote'[p] = remote[p]
  <2>1. PICK parts : remote' = Written(s, parts)
    BY DEF WriteTemp
  <2>2. CASE Exists(v)
    <3>1. PICK file : remote' = [remote EXCEPT ![v] = file]
      BY <1>1, <2>1, <2>2 DEF Written
    <3> QED BY <1>1, <3>1, NameFacts DEF TypeOK
  <2> QED BY <1>1, <2>1, <2>2 DEF Written
<1>4. ASSUME NEW pc \in {"lstat", "cleanup"}, Goto(s, pc)
      PROVE  PromiseStep
  <2>1. PICK c \in Call : c = [call[s] EXCEPT !.pc = pc]
    BY <1>1 DEF Call, Replacing
  <2>2. c.pc = pc /\ c.from = v /\ c.to = call[s].to /\ c.to \in Paths /\ c # Idle
    BY <1>1, <2>1, SftpAssumption DEF Call
  <2>3. call'[s] = c /\ \A r \in Sessions \ {s} : call'[r] = call[r]
    BY <1>1, <1>4, <2>1 DEF Goto, TypeOK
  <2>4. CASE pc = "lstat"
    <3>1. Finalizing(s)' /\ ~At(s, "renameAgain")'
      BY <2>2, <2>3, <2>4 DEF Finalizing, At, Replacing
    <3> QED BY <1>1, <1>2, <1>3, <2>2, <2>3, <3>1, BeginStep
  <2>5. CASE pc = "cleanup"
    <3>1. ~Finalizing(s)'
      BY <2>2, <2>3, <2>5 DEF Finalizing, Replacing
    <3> QED BY <1>1, <1>2, <1>3, <2>3, <3>1, QuietStep
  <2> QED BY <2>4, <2>5
<1> QED BY <1>4 DEF WriteTemp

LEMMA RemoveTempMaps ==
  ASSUME IInv, NEW v \in Versions, RemoveTemp(v)
  PROVE  PromiseStep
<1>1. UNCHANGED <<call, hidden>> /\ \A p \in Paths : remote'[p] = remote[p]
  BY NameFacts DEF RemoveTemp, IInv, TypeOK
<1>2. CASE touched' = touched
  BY <1>1, <1>2, SameStep
<1>3. CASE touched' = touched \cup {v}
  <2>1. \A r \in Sessions : Finalizing(r)' <=> Finalizing(r)
    BY <1>1 DEF Finalizing
  <2>2. Writing' = Writing
    BY <1>1, <2>1, WritingSame
  <2>3. \A p \in Paths, r \in Sessions : Hides(r, p)' <=> Hides(r, p)
    BY <1>1 DEF Hides, At
  <2>4. \A p \in Paths : SeenAt(p)' = SeenAt(p)
    BY <1>1, <2>3, SeenPath
  <2>5. Visible' = Visible
    BY <2>4, SeenSame
  <2> QED BY <1>3, <2>2, <2>5, NoLoss, Touches DEF PromiseStep
<1> QED BY <1>2, <1>3 DEF RemoveTemp

\* A step of finalizeRemoteReplace goes on to the step pc, or it is the last one.
LEMMA Onward ==
  ASSUME IInv, NEW s \in Sessions, Finalizing(s), NEW pc \in Replacing, Goto(s, pc)
  PROVE  /\ \A r \in Sessions \ {s} : call'[r] = call[r]
         /\ Finalizing(s)' /\ call'[s] # Idle /\ call'[s].pc = pc
         /\ call'[s].from = call[s].from /\ call'[s].to = call[s].to
<1>1. call[s] \in Call /\ TypeOK
  BY ReplacingFacts DEF IInv
<1>2. PICK c \in Call : c = [call[s] EXCEPT !.pc = pc]
  BY <1>1 DEF Call
<1>3. c.pc = pc /\ c.from = call[s].from /\ c.to = call[s].to /\ c # Idle
  BY <1>1, <1>2, SftpAssumption DEF Call
<1>4. call'[s] = c /\ \A r \in Sessions \ {s} : call'[r] = call[r]
  BY <1>1, <1>2 DEF Goto, TypeOK
<1> QED BY <1>3, <1>4 DEF Finalizing

LEMMA Over ==
  ASSUME IInv, NEW s \in Sessions, Finalizing(s), Return(s) \/ Replaced(s)
  PROVE  /\ \A r \in Sessions \ {s} : call'[r] = call[r]
         /\ ~Finalizing(s)'
<1>1. call[s] \in Call /\ TypeOK
  BY ReplacingFacts DEF IInv
<1>2. CASE Return(s)
  BY <1>1, <1>2 DEF Return, Finalizing, TypeOK
<1>3. CASE \E p \in call[s].todo :
             call' = [call EXCEPT ![s].pc = "open", ![s].from = None, ![s].to = p,
                                  ![s].todo = @ \ {p}]
  <2>1. PICK p \in call[s].todo :
          call' = [call EXCEPT ![s] = [call[s] EXCEPT !.pc = "open", !.from = None, !.to = p,
                                                      !.todo = call[s].todo \ {p}]]
    BY <1>3, ZenonT(60)
  <2>2. PICK c : c = [call[s] EXCEPT !.pc = "open", !.from = None, !.to = p,
                                     !.todo = call[s].todo \ {p}]
    OBVIOUS
  <2>3. c.pc = "open"
    BY <1>1, <2>2 DEF Call
  <2>4. call'[s] = c /\ \A r \in Sessions \ {s} : call'[r] = call[r]
    BY <1>1, <2>1, <2>2 DEF TypeOK
  <2> QED BY <2>3, <2>4 DEF Finalizing, Replacing
<1> QED BY <1>2, <1>3 DEF Replaced

\* Only paths that s replaces look different, when files and hidden are the same there.
LEMMA ElsewhereSame ==
  ASSUME IInv, NEW s \in Sessions, \A r \in Sessions \ {s} : call'[r] = call[r],
         NEW q \in Paths, q = call[s].to,
         Finalizing(s)' => call'[s].to = q, Finalizing(s),
         \A p \in Paths \ {q} : remote'[p] = remote[p] /\ hidden'[p] = hidden[p]
  PROVE  \A p \in Paths \ {q} : SeenAt(p)' = SeenAt(p)
<1>1. ASSUME NEW p \in Paths \ {q}
      PROVE  ~Hides(s, p) /\ ~Hides(s, p)'
  BY <1>1 DEF Hides, At, Finalizing, Replacing
<1> QED BY <1>1, HidesOf, SeenPath

\* A refused request leaves the paths alone, and so does every request while s does
\* not hide its path.
LEMMA RefusedSeen ==
  ASSUME IInv, NEW s \in Sessions, \A r \in Sessions \ {s} : call'[r] = call[r],
         ~At(s, "renameAgain"), ~At(s, "renameAgain")', UNCHANGED <<remote, hidden>>
  PROVE  \A p \in Paths : SeenAt(p)' = SeenAt(p)
<1>1. \A p \in Paths : ~Hides(s, p) /\ ~Hides(s, p)'
  BY DEF Hides
<1> QED BY <1>1, HidesOf, SeenPath

LEMMA GivesUp ==
  ASSUME IInv, NEW s \in Sessions, Finalizing(s), ~At(s, "renameAgain"), Refused(s), Return(s)
  PROVE  PromiseStep
<1>1. UNCHANGED <<remote, hidden, touched>>
  BY DEF Refused
<1>2. (\A r \in Sessions \ {s} : call'[r] = call[r]) /\ ~Finalizing(s)'
  BY Over
<1>3. ~At(s, "renameAgain")'
  BY <1>2 DEF At, Finalizing, Replacing
<1>4. \A p \in Paths : SeenAt(p)' = SeenAt(p)
  BY <1>1, <1>2, <1>3, RefusedSeen
<1>5. PICK q \in Paths : q = call[s].to
  BY ReplacingFacts
<1> QED BY <1>1, <1>2, <1>4, <1>5, AbortStep

LEMMA GoesOn ==
  ASSUME IInv, NEW s \in Sessions, Finalizing(s), ~At(s, "renameAgain"),
         UNCHANGED <<remote, hidden, touched>>, NEW pc \in {"rename", "remove"}, Goto(s, pc)
  PROVE  PromiseStep
<1>1. pc \in Replacing
  BY DEF Replacing
<1>2. /\ \A r \in Sessions \ {s} : call'[r] = call[r]
      /\ Finalizing(s)' /\ call'[s] # Idle /\ call'[s].pc = pc
      /\ call'[s].from = call[s].from /\ call'[s].to = call[s].to
  BY <1>1, Onward
<1>3. ~At(s, "renameAgain")'
  BY <1>2 DEF At
<1>4. \A p \in Paths : SeenAt(p)' = SeenAt(p)
  BY <1>2, <1>3, RefusedSeen
<1> QED BY <1>2, <1>4, GoingOnStep

LEMMA LstatMaps ==
  ASSUME IInv, NEW s \in Sessions, Lstat(s)
  PROVE  PromiseStep
<1>1. Finalizing(s) /\ ~At(s, "renameAgain")
  BY DEF Lstat, At, Finalizing, Replacing
<1> QED BY <1>1, GivesUp, GoesOn DEF Lstat

LEMMA RemoveDestMaps ==
  ASSUME IInv, NEW s \in Sessions, RemoveDest(s)
  PROVE  PromiseStep
<1>1. Finalizing(s) /\ ~At(s, "renameAgain")
  BY DEF RemoveDest, At, Finalizing, Replacing
<1>2. CASE Refused(s) /\ Return(s)
  BY <1>1, <1>2, GivesUp
<1>3. CASE /\ Served(s) /\ Exists(call[s].to)
           /\ remote' = [remote EXCEPT ![call[s].to] = None]
           /\ hidden' = [hidden EXCEPT ![call[s].to] = remote[call[s].to]]
           /\ Goto(s, "renameAgain")
           /\ UNCHANGED <<sess, uploads, issued, touched>>
  <2>1. "renameAgain" \in Replacing
    BY DEF Replacing
  <2>2. /\ \A r \in Sessions \ {s} : call'[r] = call[r]
        /\ Finalizing(s)' /\ call'[s] # Idle /\ call'[s].pc = "renameAgain"
        /\ call'[s].from = call[s].from /\ call'[s].to = call[s].to
    BY <1>1, <1>3, <2>1, Onward
  <2>3. PICK q \in Paths : q = call[s].to /\ q \in Names
    BY <1>1, ReplacingFacts, NameFacts
  <2>4. /\ remote[q] # None /\ remote'[q] = None /\ hidden'[q] = remote[q]
        /\ \A p \in Paths \ {q} : remote'[p] = remote[p] /\ hidden'[p] = hidden[p]
    BY <1>3, <2>3, NameFacts DEF IInv, TypeOK, Exists
  <2>5. Hides(s, q)'
    BY <2>2, <2>3 DEF Hides, At
  <2>6. SeenAt(q)' = SeenAt(q)
    BY <2>4, <2>5 DEF SeenAt, Exists
  <2>7. \A p \in Paths \ {q} : SeenAt(p)' = SeenAt(p)
    BY <1>1, <2>2, <2>3, <2>4, ElsewhereSame
  <2> QED BY <1>1, <1>3, <2>2, <2>6, <2>7, GoingOnStep
<1> QED BY <1>2, <1>3 DEF RemoveDest

\* The rename: the whole version appears at its path.
LEMMA RenamedMaps ==
  ASSUME IInv, NEW s \in Sessions, Finalizing(s), Exists(call[s].from),
         remote' = Moved(call[s].from, call[s].to), Replaced(s),
         hidden' = [hidden EXCEPT ![call[s].to] = None], touched' = touched
  PROVE  PromiseStep
<1>1. PICK v \in Versions, q \in Paths : v = call[s].from /\ q = call[s].to
  BY ReplacingFacts
<1>2. v \in Names /\ q \in Names /\ v # q /\ TypeOK
  BY NameFacts DEF IInv
<1>3. /\ remote'[q] = remote[v] /\ remote[v] # None
      /\ \A p \in Paths \ {q} : remote'[p] = remote[p] /\ hidden'[p] = hidden[p]
  <2>1. remote' = [[remote EXCEPT ![q] = remote[v]] EXCEPT ![v] = None]
    BY <1>1 DEF Moved
  <2> QED BY <1>1, <1>2, <2>1, NameFacts DEF TypeOK, Exists
<1>4. (\A r \in Sessions \ {s} : call'[r] = call[r]) /\ ~Finalizing(s)'
  BY Over
<1>5. \A p \in Paths \ {q} : SeenAt(p)' = SeenAt(p)
  BY <1>1, <1>3, <1>4, ElsewhereSame
<1>6. SeenAt(q)' = remote[v]
  BY <1>3 DEF SeenAt, Exists
<1>7. Visible' = [Visible EXCEPT ![q] = remote[v]]
  BY <1>5, <1>6, SeenBut
<1>8. remote[v] \in (IF v \in touched THEN Contents(v) ELSE {Whole(v)})
  BY <1>1, <1>3, ReplacingFacts DEF VersionOK, Exists
<1>9. Writing' = [Writing EXCEPT ![s] = None]
  BY <1>4, WritingOf
<1>10. Writing[s] = [path |-> q, version |-> v] /\ Writing[s] # None
  BY <1>1, WritingNow
<1>11. \A p \in Paths : ~Lost(p)
  BY <1>3, <1>7, NoLossBut
<1> QED BY <1>7, <1>8, <1>9, <1>10, <1>11, Commits DEF PromiseStep

\* The second rename that is refused: the path is lost, or another session still
\* hides what was there, or put something there itself.
LEMMA LostMaps ==
  ASSUME IInv, NEW s \in Sessions, At(s, "renameAgain"), Return(s), UNCHANGED <<remote, touched>>,
         hidden' = IF \E r \in Sessions \ {s} : At(r, "renameAgain") /\ call[r].to = call[s].to
                   THEN hidden ELSE [hidden EXCEPT ![call[s].to] = None]
  PROVE  PromiseStep
<1>1. Finalizing(s) /\ TypeOK
  BY DEF At, Finalizing, Replacing, IInv
<1>2. PICK q \in Paths : q = call[s].to
  BY <1>1, ReplacingFacts
<1>3. (\A r \in Sessions \ {s} : call'[r] = call[r]) /\ ~Finalizing(s)'
  BY <1>1, Over
<1>4. \A p \in Paths \ {q} : hidden'[p] = hidden[p]
  BY <1>1, <1>2 DEF TypeOK
<1>5. \A p \in Paths \ {q} : SeenAt(p)' = SeenAt(p)
  BY <1>1, <1>2, <1>3, <1>4, ElsewhereSame
<1>6. ~Hides(s, q)' /\ \A r \in Sessions \ {s} : Hides(r, q)' <=> Hides(r, q)
  BY <1>3, HidesOf DEF Hides, At, Finalizing, Replacing
<1>7. LossExplained(q)
  <2>1. call[s].from \in touched \/ remote'[call[s].from] = Whole(call[s].from)
    BY <1>1, ReplacingFacts
  <2> QED BY <1>2, <2>1 DEF LossExplained
<1>8. SeenAt(q)' \in {SeenAt(q), None}
  <2>1. CASE Exists(q)
    BY <2>1 DEF SeenAt, Exists
  <2>2. CASE ~Exists(q) /\ \E r \in Sessions \ {s} : Hides(r, q)
    <3>1. hidden' = hidden
      BY <1>2, <2>2 DEF Hides
    <3> QED BY <1>6, <2>2, <3>1 DEF SeenAt, Exists
  <2>3. CASE ~Exists(q) /\ ~\E r \in Sessions \ {s} : Hides(r, q)
    <3>1. \A r \in Sessions : ~Hides(r, q)'
      BY <1>6, <2>3
    <3>2. SeenAt(q)' = None
      BY <2>3, <3>1 DEF SeenAt, Exists
    <3> QED BY <3>2
  <2> QED BY <2>1, <2>2, <2>3
<1> QED BY <1>1, <1>2, <1>3, <1>5, <1>7, <1>8, AbortStep

LEMMA RenameMaps ==
  ASSUME IInv, NEW s \in Sessions, Rename(s)
  PROVE  PromiseStep
<1>1. Finalizing(s)
  BY DEF Rename, At, Finalizing, Replacing
<1>2. CASE At(s, "rename") /\ Refused(s) /\ Goto(s, "remove")
  BY <1>1, <1>2, GoesOn DEF At, Refused
<1>3. CASE /\ At(s, "renameAgain") /\ Return(s) /\ UNCHANGED <<remote, touched>>
           /\ hidden' = IF \E r \in Sessions \ {s} : At(r, "renameAgain") /\ call[r].to = call[s].to
                        THEN hidden ELSE [hidden EXCEPT ![call[s].to] = None]
  BY <1>3, LostMaps
<1>4. CASE /\ Exists(call[s].from) /\ remote' = Moved(call[s].from, call[s].to) /\ Replaced(s)
           /\ hidden' = [hidden EXCEPT ![call[s].to] = None] /\ touched' = touched
  BY <1>1, <1>4, RenamedMaps
<1> QED BY <1>2, <1>3, <1>4 DEF Rename

\* The user's own operations wait for the call of their session.
LEMMA UserMaps ==
  ASSUME IInv, NEW s \in Sessions, NEW p \in Paths, NEW q \in Paths,
         RemoveSFTP(s, p) \/ RenameSFTP(s, p, q)
  PROVE  PromiseStep
<1>1. /\ call[s] = Idle /\ UNCHANGED <<call, touched>> /\ TypeOK /\ p \in Names /\ q \in Names
      /\ remote[p] # None
  BY NameFacts DEF RemoveSFTP, RenameSFTP, lockedSFTP, IInv, Exists
<1>2. Writing[s] = None
  BY <1>1 DEF Writing, Finalizing
<1>3. \A r \in Sessions : Finalizing(r)' <=> Finalizing(r)
  BY <1>1 DEF Finalizing
<1>4. Writing' = Writing
  BY <1>1, <1>3, WritingSame
<1>5. \A r \in Sessions, x \in Paths : Hides(r, x)' <=> Hides(r, x)
  BY <1>1 DEF Hides, At
<1>6. CASE RemoveSFTP(s, p)
  <2>1. /\ remote'[p] = None /\ hidden'[p] = None
        /\ \A x \in Paths \ {p} : remote'[x] = remote[x] /\ hidden'[x] = hidden[x]
    BY <1>1, <1>6, NameFacts DEF RemoveSFTP, TypeOK
  <2>2. \A x \in Paths \ {p} : SeenAt(x)' = SeenAt(x)
    BY <1>5, <2>1, SeenPath
  <2>3. SeenAt(p)' = None
    BY <2>1 DEF SeenAt, Exists
  <2>4. Visible' = [Visible EXCEPT ![p] = None]
    BY <2>2, <2>3, SeenBut
  <2>5. \A x \in Paths : Lost(x) => LossExplained(x)
    BY <1>6, <2>4, NoLossBut, ZenonT(60) DEF LossExplained
  <2> QED BY <1>1, <1>2, <1>4, <2>4, <2>5, Removes DEF PromiseStep
<1>7. CASE RenameSFTP(s, p, q)
  <2>1. p # q
    BY <1>7 DEF RenameSFTP
  <2>2. /\ remote'[p] = None /\ hidden'[p] = None /\ remote'[q] = remote[p]
        /\ \A x \in Paths \ {p, q} : remote'[x] = remote[x] /\ hidden'[x] = hidden[x]
    BY <1>1, <1>7, <2>1, NameFacts DEF RenameSFTP, Moved, TypeOK
  <2>3. \A x \in Paths \ {p, q} : SeenAt(x)' = SeenAt(x)
    BY <1>5, <2>2, SeenPath
  <2>4. SeenAt(p)' = None /\ SeenAt(q)' = remote[p] /\ Visible[p] = remote[p]
    BY <1>1, <2>2, Seen DEF SeenAt, Exists
  <2>5. Visible' = [[Visible EXCEPT ![q] = Visible[p]] EXCEPT ![p] = None]
    BY <2>1, <2>3, <2>4, Seen
  <2>6. \A x \in Paths : Lost(x) => x = p
    <3>1. Visible'[q] = remote[p] /\ \A x \in Paths \ {p, q} : Visible'[x] = Visible[x]
      BY <2>3, <2>4, Seen
    <3> QED BY <1>1, <3>1 DEF Lost
  <2>7. \A x \in Paths : Lost(x) => LossExplained(x)
    BY <1>7, <2>6 DEF LossExplained
  <2> QED BY <1>1, <1>2, <1>4, <2>1, <2>5, <2>7, Renames DEF PromiseStep
<1> QED BY <1>6, <1>7

LEMMA InitMaps ==
  ASSUME Init
  PROVE  Promise!Init
<1>1. \A s \in Sessions : ~Finalizing(s)
  BY DEF Init, Finalizing
<1>2. Writing = [s \in Sessions |-> None]
  BY <1>1 DEF Writing
<1>3. \A p \in Paths : SeenAt(p) \in {Old, None}
  <2>1. \A s \in Sessions, p \in Paths : ~Hides(s, p)
    BY DEF Init, Hides, At
  <2> QED BY <2>1, NameFacts DEF Init, SeenAt, Exists
<1>4. Visible \in [Paths -> {Old, None}]
  BY <1>3, Seen
<1> QED BY <1>2, <1>4 DEF Promise!Init, Writing, Init

LEMMA NextMaps ==
  ASSUME IInv, [Next]_vars
  PROVE  PromiseStep
<1>1. CASE UNCHANGED vars
  BY <1>1, SameStep DEF vars
<1>2. ASSUME NEW s \in Sessions, NEW p \in Paths, WriteTextSFTP(s, p)
      PROVE  PromiseStep
  <2>1. {} \in SUBSET Paths
    OBVIOUS
  <2> QED BY <1>2, <2>1, StartMaps DEF WriteTextSFTP
<1>3. ASSUME NEW s \in Sessions, NEW p \in Paths,
             \/ \E todo \in SUBSET Paths : UploadSFTP(s, p, todo)
             \/ DownloadSFTP(s, p) \/ ReadTextSFTP(s, p) \/ PropertiesChecksumSFTP(s, p)
      PROVE  PromiseStep
  BY <1>3, StartMaps DEF ReadTextSFTP, PropertiesChecksumSFTP
<1>4. ASSUME NEW s \in Sessions, NEW p \in Paths,
             \/ \E v \in Versions \cup {None} : FirstChunk(s, v, p)
             \/ \E v \in Versions, off \in 1..Chunks - 1 : NextChunk(s, v, p, off)
             \/ \E v \in Versions : LastChunk(s, v, p, Chunks)
      PROVE  PromiseStep
  BY <1>4, FirstChunkMaps, ChunkMaps
<1>5. ASSUME NEW s \in Sessions, NEW p \in Paths,
             RemoveSFTP(s, p) \/ \E q \in Paths : RenameSFTP(s, p, q)
      PROVE  PromiseStep
  BY <1>5, UserMaps
<1>6. ASSUME NEW s \in Sessions,
             \/ ConnectSFTP(s) \/ Disconnect(s) \/ CloseSFTP(s)
             \/ OpenNext(s) \/ WriteTemp(s) \/ Cleanup(s) \/ Copy(s)
             \/ Lstat(s) \/ Rename(s) \/ RemoveDest(s)
      PROVE  PromiseStep
  BY <1>6, SessionMaps, FileMaps, WriteMaps, LstatMaps, RenameMaps, RemoveDestMaps
<1>7. ASSUME NEW v \in Versions, RemoveTemp(v)
      PROVE  PromiseStep
  BY <1>7, RemoveTempMaps
<1>8. CASE Next
  BY <1>2, <1>3, <1>4, <1>5, <1>6, <1>7, <1>8 DEF Next
<1> QED BY <1>1, <1>8

\* Every step of the uploads, the editor and the user's operations is one that
\* RemoteFiles allows at the paths, or changes nothing there: no session shows, or
\* leaves, a part of a version at a path.
THEOREM SftpKeepsPromise == Spec => KeepsPromise
<1>1. Init => Promise!Init
  BY InitMaps
<1>2. IInv /\ [Next]_vars => [Promise!Next]_Promise!vars
  BY NextMaps DEF PromiseStep
<1> QED BY <1>1, <1>2, SftpInvariant, PTL DEF Spec, KeepsPromise, Promise!Spec

\* finalizeRemoteReplace loses a file only when its second rename fails, and the whole
\* new version is then on the server under its temporary name, unless somebody
\* removed that.
THEOREM SftpLossLeavesNewVersion == Spec => LossLeavesNewVersion
<1>1. IInv /\ [Next]_vars => [\A p \in Paths : Lost(p) => LossExplained(p)]_vars
  BY NextMaps DEF PromiseStep
<1> QED BY <1>1, SftpInvariant, PTL DEF Spec, LossLeavesNewVersion
=============================================================================
