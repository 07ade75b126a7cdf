------------------------------ MODULE RdpProofs ------------------------------
(***************************************************************************)
(* Proofs about one RDP session: its picture, RdpRender, and its life, tab *)
(* and clipboard, RdpSession.                                              *)
(***************************************************************************)
EXTENDS RdpSession, RdpRender, SequenceTheorems, FiniteSetTheorems, TLAPS

-----------------------------------------------------------------------------
(* The picture.  Whatever overlaps, a tile of the canvas is out of date    *)
(* for a reason, for any number of tiles, bitmaps and streams.             *)

\* The last frame of q that has tile t gives it the content c.
LastIs(q, t, c) ==
  \E k \in DOMAIN q : /\ t \in DOMAIN q[k] /\ q[k][t] = c
                      /\ \A j \in DOMAIN q : j > k => t \notin DOMAIN q[j]

\* No frame of q has it.
Without(q, t) == \A k \in DOMAIN q : t \notin DOMAIN q[k]

\* The content the canvas ends up with, when all that is under way has arrived,
\* is the latest one, or a publisher has the tile and comes last.
Arrives(t) ==
  \/ \E p \in Pubs : to[p] \in {0, gen} /\ t \in DOMAIN frame[p]
  \/ LastIs(queue[opened], t, fb[t])
  \/ Without(queue[opened], t) /\ LastIs(batch, t, fb[t])
  \/ Without(queue[opened], t) /\ Without(batch, t) /\ canvas[t] = fb[t]

\* What a publisher has of a tile is the latest, or the tile is dirty.
Current(p) == \A t \in DOMAIN frame[p] : frame[p][t] = fb[t] \/ t \in dirty

\* RDPRenderEndpoint has taken its full frame for the stream.
Started == view \in {"answered", "up"} \/ at["endpoint"] \in Publishing

PipelineOK ==
  (session = "open" /\ ~raced /\ Started) => \A t \in Tiles : t \in dirty \cup skipped \/ Arrives(t)

FramesOK == Current("pump") /\ (~raced => Current("endpoint"))

\* No frame has a content that was not drawn yet.
NotAhead ==
  /\ \A p \in Pubs : \A t \in DOMAIN frame[p] : frame[p][t] <= fb[t]
  /\ \A g \in 1..MaxOpens : \A k \in DOMAIN queue[g] : \A t \in DOMAIN queue[g][k] :
       queue[g][k][t] <= fb[t]

\* Where a publisher is, what it has in hand, and what the user interface waits for.
PlacesOK ==
  /\ view = "asking" <=> at["endpoint"] # "idle"
  /\ \A p \in Pubs : /\ at[p] \notin Publishing => frame[p] = <<>> /\ to[p] = 0
                     /\ at[p] = "lookup" => to[p] = 0
                     /\ at[p] \in Publishing \ {"lookup"} => to[p] # 0
  /\ session = "open" => gen = opened
  /\ opened = 0 => view \in {"none", "asking"} /\ at["endpoint"] \in {"idle", "register"}
  /\ at["endpoint"] = "register" => opened < MaxOpens
  /\ at["endpoint"] \in {"register", "snapshot"} => batch = <<>> /\ \A t \in Tiles : canvas[t] = 0

PictureInv == RenderTypeOK /\ PlacesOK /\ FramesOK /\ NotAhead /\ PipelineOK

-----------------------------------------------------------------------------
(* Frames and sequences of them. *)

\* The bounds are numbers.
LEMMA RenderBounds ==
  /\ TileCount \in Nat \ {0} /\ MaxDraws \in Nat \ {0}
  /\ QueueCap \in Nat \ {0} /\ MaxOpens \in Nat \ {0}
BY RenderAssumption

\* Some tiles of a surface are a frame, and so are none.
LEMMA FrameTypes ==
  /\ <<>> \in Frames /\ DOMAIN <<>> = {}
  /\ \A region \in SUBSET Tiles, c \in Contents : [t \in region |-> c[t]] \in Frames
  /\ Contents \subseteq Frames
  /\ \A f \in Frames : /\ DOMAIN f \subseteq Tiles
                       /\ \A t \in DOMAIN f : f[t] \in 0..MaxDraws
<1>1. \A S \in SUBSET Tiles : [S -> 0..MaxDraws] \subseteq Frames
  BY DEF Frames
<1>2. DOMAIN <<>> = {} /\ <<>> \in [{} -> 0..MaxDraws]
  OBVIOUS
<1>3. \A region \in SUBSET Tiles, c \in Contents : [t \in region |-> c[t]] \in [region -> 0..MaxDraws]
  BY DEF Contents
<1>4. \A f \in Frames : \E S \in SUBSET Tiles : f \in [S -> 0..MaxDraws]
  BY DEF Frames
<1>5. <<>> \in Frames
  BY <1>1, <1>2
<1>6. \A region \in SUBSET Tiles, c \in Contents : [t \in region |-> c[t]] \in Frames
  BY <1>1, <1>3
<1>7. Contents \subseteq Frames
  BY <1>1 DEF Contents
<1>8. \A f \in Frames : DOMAIN f \subseteq Tiles /\ \A t \in DOMAIN f : f[t] \in 0..MaxDraws
  <2> SUFFICES ASSUME NEW f \in Frames
               PROVE  DOMAIN f \subseteq Tiles /\ \A t \in DOMAIN f : f[t] \in 0..MaxDraws
    OBVIOUS
  <2>1. PICK S \in SUBSET Tiles : f \in [S -> 0..MaxDraws]
    BY <1>4
  <2> QED
    BY <2>1
<1> QED
  BY <1>2, <1>5, <1>6, <1>7, <1>8

\* A frame appended is the last.
LEMMA AppendedIsLast ==
  ASSUME NEW q \in Seq(Frames), NEW f \in Frames, NEW t, NEW c
  PROVE  /\ Append(q, f) \in Seq(Frames) /\ Len(Append(q, f)) = Len(q) + 1
         /\ t \in DOMAIN f /\ f[t] = c => LastIs(Append(q, f), t, c)
         /\ t \notin DOMAIN f /\ LastIs(q, t, c) => LastIs(Append(q, f), t, c)
         /\ t \notin DOMAIN f /\ Without(q, t) => Without(Append(q, f), t)
<1> DEFINE n == Len(q)
           r == Append(q, f)
<1>1. /\ n \in Nat /\ r \in Seq(Frames) /\ Len(r) = n + 1
      /\ DOMAIN q = 1..n /\ DOMAIN r = 1..(n + 1)
      /\ r[n + 1] = f /\ \A k \in 1..n : r[k] = q[k]
  OBVIOUS
<1> HIDE DEF n, r
<1>2. \A k \in 1..(n + 1) : k \in 1..n \/ k = n + 1
  BY <1>1
<1>3. ASSUME t \in DOMAIN f, f[t] = c
      PROVE  LastIs(r, t, c)
  <2>1. n + 1 \in DOMAIN r /\ \A j \in DOMAIN r : ~(j > n + 1)
    BY <1>1
  <2> QED
    BY <1>1, <1>3, <2>1 DEF LastIs
<1>4. ASSUME t \notin DOMAIN f, LastIs(q, t, c)
      PROVE  LastIs(r, t, c)
  <2>1. PICK k \in 1..n : /\ t \in DOMAIN q[k] /\ q[k][t] = c
                          /\ \A j \in 1..n : j > k => t \notin DOMAIN q[j]
    BY <1>1, <1>4 DEF LastIs
  <2>2. k \in 1..(n + 1) /\ r[k] = q[k]
    BY <1>1, <2>1
  <2>3. \A j \in 1..(n + 1) : j > k => t \notin DOMAIN r[j]
    BY <1>1, <1>2, <1>4, <2>1
  <2> QED
    BY <1>1, <2>1, <2>2, <2>3 DEF LastIs
<1>5. t \notin DOMAIN f /\ Without(q, t) => Without(r, t)
  BY <1>1, <1>2 DEF Without
<1> QED
  BY <1>1, <1>3, <1>4, <1>5 DEF r, n

\* The last frame with a tile is in the tail, or it is the head.
LEMMA HeadOrTail ==
  ASSUME NEW q \in Seq(Frames), q # <<>>, NEW t, NEW c
  PROVE  /\ Tail(q) \in Seq(Frames) /\ Head(q) \in Frames /\ Len(Tail(q)) = Len(q) - 1
         /\ Head(q) = q[1] /\ \A k \in DOMAIN Tail(q) : k + 1 \in DOMAIN q /\ Tail(q)[k] = q[k + 1]
         /\ LastIs(q, t, c) =>
              \/ LastIs(Tail(q), t, c)
              \/ Without(Tail(q), t) /\ t \in DOMAIN Head(q) /\ Head(q)[t] = c
         /\ Without(q, t) => Without(Tail(q), t) /\ t \notin DOMAIN Head(q)
<1> DEFINE n == Len(q)
           r == Tail(q)
           h == Head(q)
<1>1. /\ n \in Nat \ {0} /\ r \in Seq(Frames) /\ Len(r) = n - 1 /\ h \in Frames
      /\ DOMAIN q = 1..n /\ DOMAIN r = 1..(n - 1)
      /\ q[1] = h /\ \A k \in 1..(n - 1) : r[k] = q[k + 1]
  OBVIOUS
<1> HIDE DEF n, r, h
<1>2. \A k \in 1..n : k = 1 \/ (k - 1 \in 1..(n - 1) /\ r[k - 1] = q[k])
  BY <1>1
<1>3. \A k \in 1..(n - 1) : k + 1 \in 1..n /\ k + 1 > 1 /\ r[k] = q[k + 1]
  BY <1>1
<1>4. ASSUME LastIs(q, t, c)
      PROVE  LastIs(r, t, c) \/ (Without(r, t) /\ t \in DOMAIN h /\ h[t] = c)
  <2>1. PICK k \in 1..n : /\ t \in DOMAIN q[k] /\ q[k][t] = c
                          /\ \A j \in 1..n : j > k => t \notin DOMAIN q[j]
    BY <1>1, <1>4 DEF LastIs
  <2>2. CASE k = 1
    BY <1>1, <1>3, <2>1, <2>2 DEF Without
  <2>3. CASE k # 1
    <3>1. k - 1 \in 1..(n - 1) /\ r[k - 1] = q[k]
      BY <1>2, <2>1, <2>3
    <3>2. \A j \in 1..(n - 1) : j > k - 1 => t \notin DOMAIN r[j]
      <4> SUFFICES ASSUME NEW j \in 1..(n - 1), j > k - 1
                   PROVE  t \notin DOMAIN r[j]
        OBVIOUS
      <4>1. j + 1 > k /\ j + 1 \in 1..n
        BY <1>1, <2>1
      <4> QED
        BY <1>3, <2>1, <4>1
    <3> QED
      BY <1>1, <2>1, <3>1, <3>2 DEF LastIs
  <2> QED
    BY <2>2, <2>3
<1>5. Without(q, t) => Without(r, t) /\ t \notin DOMAIN h
  <2>1. 1 \in 1..n
    BY <1>1
  <2> QED
    BY <1>1, <1>3, <2>1 DEF Without
<1> QED
  BY <1>1, <1>3, <1>4, <1>5 DEF r, n, h

\* Of some subsets of a finite set one contains no other of them.
LEMMA SmallestSubset ==
  ASSUME NEW S, IsFiniteSet(S), NEW X \in SUBSET (SUBSET S), X # {}
  PROVE  \E T \in X : \A U \in X : U \subseteq T => U = T
<1>1. IsWellFoundedOn(StrictSubsetOrdering(S), SUBSET S)
  BY FS_StrictSubsetOrderingWellFounded, FS_FiniteSubsetsOfFinite
<1>2. PICK T \in X : \A U \in X : ~ (<<U, T>> \in StrictSubsetOrdering(S))
  BY <1>1, WFMin
<1> QED
  BY <1>2 DEF StrictSubsetOrdering

\* A non-empty set of numbers has a least element.
LEMMA LeastOf ==
  ASSUME NEW T \in SUBSET Nat, T # {}
  PROVE  \E m \in T : \A n \in T : m <= n
<1>1. PICK n \in T : TRUE
  OBVIOUS
<1> DEFINE X == {1..k : k \in {i \in T : i <= n}}
           S == 1..n
<1>2. X \in SUBSET (SUBSET S) /\ X # {} /\ n \in Nat
  BY <1>1
<1>3. IsFiniteSet(S)
  BY <1>2, FS_Interval
<1> HIDE DEF X, S
<1>4. PICK U \in X : \A W \in X : W \subseteq U => W = U
  BY <1>2, <1>3, SmallestSubset
<1>5. PICK m \in T : m <= n /\ U = 1..m
  BY <1>4 DEF X
<1>6. ASSUME NEW k \in T, k < m
      PROVE  FALSE
  <2>1. 1..k \in X
    BY <1>2, <1>5, <1>6 DEF X
  <2>2. 1..k \subseteq 1..m /\ m \in 1..m /\ m \notin 1..k
    BY <1>6
  <2> QED
    BY <1>4, <1>5, <2>1, <2>2
<1> QED
  BY <1>6

\* Presenting a batch shows the last content it has of a tile.
LEMMA Presented ==
  ASSUME NEW q \in Seq(Frames), NEW t
  PROVE  LET with == {k \in DOMAIN q : t \in DOMAIN q[k]} IN
         /\ with = {} <=> Without(q, t)
         /\ with # {} => /\ Max(with) \in with
                         /\ q[Max(with)][t] \in 0..MaxDraws
                         /\ LastIs(q, t, q[Max(with)][t])
                         /\ \A c : LastIs(q, t, c) => q[Max(with)][t] = c
<1> DEFINE with == {k \in DOMAIN q : t \in DOMAIN q[k]}
           n == Len(q)
<1>1. n \in Nat /\ DOMAIN q = 1..n /\ \A k \in 1..n : q[k] \in Frames
  OBVIOUS
<1>2. with = {} <=> Without(q, t)
  BY DEF Without
<1>3. ASSUME with # {}
      PROVE  /\ Max(with) \in with
             /\ \A k \in with : Max(with) >= k
  <2> DEFINE back == {n - k : k \in with}
  <2>1. back \in SUBSET Nat /\ back # {}
    BY <1>1, <1>3
  <2>2. PICK m \in back : \A k \in back : m <= k
    <3> HIDE DEF back
    <3> QED
      BY <2>1, LeastOf
  <2>3. PICK k \in with : m = n - k
    OBVIOUS
  <2>4. \A j \in with : k >= j
    <3> SUFFICES ASSUME NEW j \in with PROVE k >= j
      OBVIOUS
    <3>1. n - j \in back
      OBVIOUS
    <3>2. n - k <= n - j
      BY <2>2, <2>3, <3>1
    <3>3. j \in Nat /\ k \in Nat
      BY <1>1
    <3> HIDE DEF n, back, with
    <3> QED
      BY <1>1, <3>2, <3>3
  <2>5. \E x \in with : \A j \in with : x >= j
    BY <2>3, <2>4
  <2> HIDE DEF with
  <2> QED
    BY <2>5 DEF Max
<1>4. ASSUME with # {}
      PROVE  q[Max(with)][t] \in 0..MaxDraws
  BY <1>1, <1>3, <1>4, FrameTypes
<1>5. ASSUME with # {}, NEW c, LastIs(q, t, c)
      PROVE  q[Max(with)][t] = c
  <2>1. PICK k \in with : q[k][t] = c /\ \A j \in DOMAIN q : j > k => t \notin DOMAIN q[j]
    BY <1>5 DEF LastIs
  <2>2. Max(with) \in with /\ Max(with) >= k
    BY <1>3, <1>5
  <2>3. ~(Max(with) > k)
    BY <2>1, <2>2
  <2>4. Max(with) \in Nat /\ k \in Nat
    BY <1>1, <2>2
  <2>5. Max(with) = k
    <3> HIDE DEF with
    <3> QED
      BY <2>2, <2>3, <2>4
  <2> QED
    BY <2>1, <2>5
<1>6. ASSUME with # {}
      PROVE  LastIs(q, t, q[Max(with)][t])
  <2>1. Max(with) \in with /\ \A k \in with : Max(with) >= k
    BY <1>3, <1>6
  <2>2. \A j \in DOMAIN q : j > Max(with) => t \notin DOMAIN q[j]
    <3> SUFFICES ASSUME NEW j \in DOMAIN q, j > Max(with), t \in DOMAIN q[j]
                 PROVE  FALSE
      OBVIOUS
    <3>1. Max(with) >= j /\ j \in Nat /\ Max(with) \in Nat
      BY <1>1, <2>1
    <3> HIDE DEF with
    <3> QED
      BY <3>1
  <2> HIDE DEF n
  <2> QED
    BY <2>1, <2>2 DEF LastIs
<1> QED
  BY <1>2, <1>3, <1>4, <1>5, <1>6

-----------------------------------------------------------------------------
(* The steps. *)

\* A step of a call of Publish leaves the rest alone.
PublishFrame(p) ==
  /\ UNCHANGED <<surface, opened, gen, batch, canvas, raced, failed>>
  /\ \A q \in Pubs \ {p} : at'[q] = at[q] /\ frame'[q] = frame[q] /\ to'[q] = to[q]

\* It goes on with its frame, perhaps bound for the registration it has found.
GoesOn(p) ==
  /\ at' = [at EXCEPT ![p] = at'[p]] /\ at'[p] \in Publishing \ {"lookup"}
  /\ to' = [to EXCEPT ![p] = to'[p]] /\ to'[p] # 0
  /\ to'[p] = to[p] \/ (to[p] = 0 /\ to'[p] = gen)
  /\ UNCHANGED <<frame, view, pending>>

\* The frame is dropped, or the oldest of the channel is.
DropsFrame(p) ==
  /\ finish(p) /\ UNCHANGED queue
  /\ \/ to[p] \notin {0, gen} /\ UNCHANGED skipped
     \/ gen = 0 /\ UNCHANGED skipped
     \/ skipped' = skipped \cup DOMAIN frame[p]

DropsOldest(p) ==
  /\ queue[to[p]] # <<>> /\ queue' = [queue EXCEPT ![to[p]] = Tail(@)]
  /\ to[p] # 0 /\ at[p] \in Publishing
  /\ UNCHANGED <<at, to, frame, view, pending>>
  /\ skipped' = IF to[p] # gen THEN skipped ELSE skipped \cup DOMAIN Head(queue[to[p]])

Delivers(p) ==
  deliver(p) /\ to[p] = gen /\ to[p] # 0 /\ Len(queue[to[p]]) < QueueCap

\* The steps of Publish are of four kinds.
LEMMA PublishSteps ==
  ASSUME RenderTypeOK, PlacesOK, NEW p \in Pubs, Publish(p)
  PROVE  /\ at[p] \in Publishing /\ PublishFrame(p)
         /\ \/ GoesOn(p) /\ UNCHANGED <<queue, skipped>>
            \/ DropsFrame(p)
            \/ DropsOldest(p)
            \/ Delivers(p)
<1>1. at \in [Pubs -> Publishing \cup {"idle", "register", "snapshot", "ended"}]
      /\ frame \in [Pubs -> Frames] /\ to \in [Pubs -> 0..MaxOpens]
  BY DEF RenderTypeOK
<1>2. at[p] \in Publishing
  BY DEF Publish, Lookup, Send, Drain, Resend, Publishing
<1>3. finish(p) => \A q \in Pubs \ {p} : at'[q] = at[q] /\ frame'[q] = frame[q] /\ to'[q] = to[q]
  BY <1>1 DEF finish
<1>4. \A label : goto(p, label) =>
        \A q \in Pubs \ {p} : at'[q] = at[q] /\ frame'[q] = frame[q] /\ to'[q] = to[q]
  BY <1>1 DEF goto
<1>5. \A label \in {"drain", "resend"} : at[p] # "lookup" /\ goto(p, label) => GoesOn(p)
  <2> SUFFICES ASSUME NEW label \in {"drain", "resend"}, at[p] # "lookup", goto(p, label)
               PROVE  GoesOn(p)
    OBVIOUS
  <2>1. at'[p] = label /\ to' = to /\ to[p] # 0
    BY <1>1, <1>2 DEF goto, PlacesOK
  <2> QED
    BY <1>1, <2>1 DEF goto, GoesOn, Publishing
<1>6. CASE Lookup(p)
  <2>1. CASE gen = 0
    BY <1>2, <1>3, <1>6, <2>1 DEF Lookup, DropsFrame, PublishFrame, hub, history
  <2>2. CASE gen # 0
    <3>1. at' = [at EXCEPT ![p] = "send"] /\ to' = [to EXCEPT ![p] = gen] /\ to[p] = 0
      BY <1>1, <1>6, <2>2 DEF Lookup, PlacesOK
    <3>2. at'[p] = "send" /\ to'[p] = gen
      BY <1>1, <3>1
    <3> QED
      BY <1>1, <1>2, <1>6, <2>2, <3>1, <3>2
        DEF Lookup, GoesOn, PublishFrame, Publishing, hub, history
  <2> QED
    BY <2>1, <2>2
<1>7. CASE Send(p)
  <2>1. at[p] # "lookup" /\ to[p] # 0
    BY <1>2, <1>7 DEF Send, PlacesOK
  <2>2. CASE Closed(p)
    BY <1>2, <1>3, <1>7, <2>1, <2>2 DEF Send, Closed, DropsFrame, PublishFrame
  <2>3. CASE ~Closed(p) /\ Len(queue[to[p]]) < QueueCap
    BY <1>2, <1>3, <1>7, <2>1, <2>3 DEF Send, Closed, Delivers, deliver, PublishFrame
  <2>4. CASE ~Closed(p) /\ ~(Len(queue[to[p]]) < QueueCap)
    BY <1>2, <1>4, <1>5, <1>7, <2>1, <2>4 DEF Send, PublishFrame
  <2> QED
    BY <2>2, <2>3, <2>4
<1>8. CASE Drain(p)
  <2>1. at[p] = "drain" /\ to[p] # 0
    BY <1>2, <1>8 DEF Drain, PlacesOK
  <2>2. CASE queue[to[p]] # <<>>
    <3>1. goto(p, "drain") /\ at' = at
      BY <1>1, <1>8, <2>1, <2>2 DEF Drain, goto
    <3> QED
      BY <1>2, <1>4, <1>8, <2>1, <2>2, <3>1 DEF Drain, Closed, DropsOldest, PublishFrame, goto
  <2>3. CASE queue[to[p]] = <<>> /\ Closed(p)
    BY <1>2, <1>3, <1>8, <2>1, <2>3 DEF Drain, Closed, DropsFrame, PublishFrame
  <2>4. CASE queue[to[p]] = <<>> /\ ~Closed(p)
    BY <1>2, <1>4, <1>5, <1>8, <2>1, <2>4 DEF Drain, PublishFrame
  <2> QED
    BY <2>2, <2>3, <2>4
<1>9. CASE Resend(p)
  <2>1. to[p] # 0
    BY <1>2, <1>9 DEF Resend, PlacesOK
  <2>2. CASE ~Closed(p) /\ Len(queue[to[p]]) < QueueCap
    BY <1>2, <1>3, <1>9, <2>1, <2>2 DEF Resend, Closed, Delivers, deliver, PublishFrame
  <2>3. CASE Closed(p)
    BY <1>2, <1>3, <1>9, <2>1, <2>3 DEF Resend, Closed, DropsFrame, PublishFrame
  <2>4. CASE ~Closed(p) /\ ~(Len(queue[to[p]]) < QueueCap)
    BY <1>2, <1>3, <1>9, <2>1, <2>4 DEF Resend, Closed, DropsFrame, PublishFrame
  <2> QED
    BY <2>2, <2>3, <2>4
<1> QED
  BY <1>6, <1>7, <1>8, <1>9 DEF Publish

\* Where everybody is stays well typed at the end of a call of Publish.
LEMMA FinishTypes ==
  ASSUME RenderTypeOK, NEW p \in Pubs, finish(p)
  PROVE  /\ at' \in [Pubs -> Publishing \cup {"idle", "register", "snapshot", "ended"}]
         /\ at'["pump"] \notin {"register", "snapshot"} /\ at'["endpoint"] # "ended"
         /\ frame' \in [Pubs -> Frames] /\ to' \in [Pubs -> 0..MaxOpens]
         /\ at'[p] = "idle" /\ frame'[p] = <<>> /\ to'[p] = 0
         /\ pending' \in BOOLEAN /\ view' \in {"none", "asking", "answered", "up", "lost"}
<1>1. <<>> \in Frames /\ 0 \in 0..MaxOpens
  BY FrameTypes, RenderBounds
<1> QED
  BY <1>1 DEF RenderTypeOK, finish, Pubs

LEMMA PublishTypes ==
  ASSUME RenderTypeOK, PlacesOK, NEW p \in Pubs, Publish(p)
  PROVE  RenderTypeOK'
<1>1. PublishFrame(p)
  BY PublishSteps
<1>2. ASSUME /\ at' \in [Pubs -> Publishing \cup {"idle", "register", "snapshot", "ended"}]
             /\ at'["pump"] \notin {"register", "snapshot"} /\ at'["endpoint"] # "ended"
             /\ frame' \in [Pubs -> Frames] /\ to' \in [Pubs -> 0..MaxOpens]
             /\ pending' \in BOOLEAN /\ view' \in {"none", "asking", "answered", "up", "lost"},
             queue' \in [1..MaxOpens -> Seq(Frames)],
             \A g \in 1..MaxOpens : Len(queue'[g]) <= QueueCap,
             skipped' \subseteq Tiles
      PROVE  RenderTypeOK'
  BY <1>1, <1>2 DEF RenderTypeOK, PublishFrame, surface
<1>3. /\ queue \in [1..MaxOpens -> Seq(Frames)] /\ \A g \in 1..MaxOpens : Len(queue[g]) <= QueueCap
      /\ skipped \subseteq Tiles /\ frame[p] \in Frames /\ DOMAIN frame[p] \subseteq Tiles
      /\ to[p] \in 0..MaxOpens /\ gen \in 0..MaxOpens
  BY FrameTypes, RenderBounds DEF RenderTypeOK
<1>4. CASE GoesOn(p) /\ UNCHANGED <<queue, skipped>>
  <2>1. to' \in [Pubs -> 0..MaxOpens]
    BY <1>3, <1>4 DEF GoesOn, RenderTypeOK
  <2>2. /\ at' \in [Pubs -> Publishing \cup {"idle", "register", "snapshot", "ended"}]
        /\ at'["pump"] \notin {"register", "snapshot"} /\ at'["endpoint"] # "ended"
    BY <1>4 DEF GoesOn, RenderTypeOK, Publishing, Pubs
  <2>3. frame' \in [Pubs -> Frames] /\ pending' \in BOOLEAN
        /\ view' \in {"none", "asking", "answered", "up", "lost"}
    BY <1>4 DEF GoesOn, RenderTypeOK
  <2> QED
    BY <1>2, <1>3, <1>4, <2>1, <2>2, <2>3
<1>5. CASE DropsFrame(p)
  <2>1. finish(p) /\ queue' = queue /\ skipped' \subseteq Tiles
    BY <1>3, <1>5 DEF DropsFrame
  <2> QED
    BY <1>2, <1>3, <2>1, FinishTypes
<1>6. CASE DropsOldest(p)
  <2> DEFINE g == to[p]
             q == queue[g]
  <2>1. g \in 1..MaxOpens /\ q \in Seq(Frames) /\ q # <<>>
    BY <1>3, <1>6, RenderBounds DEF DropsOldest
  <2>2. Tail(q) \in Seq(Frames) /\ Head(q) \in Frames /\ Len(Tail(q)) = Len(q) - 1
    BY <2>1, HeadOrTail
  <2>3. Len(Tail(q)) <= QueueCap
    BY <1>3, <2>1, <2>2, RenderBounds
  <2>4. queue' = [queue EXCEPT ![g] = Tail(q)] /\ skipped' \in {skipped, skipped \cup DOMAIN Head(q)}
    BY <1>6 DEF DropsOldest
  <2>5. skipped' \subseteq Tiles
    BY <1>3, <2>2, <2>4, FrameTypes
  <2>6. /\ queue' \in [1..MaxOpens -> Seq(Frames)] /\ \A h \in 1..MaxOpens : Len(queue'[h]) <= QueueCap
    <3> HIDE DEF g, q
    <3> QED
      BY <1>3, <2>1, <2>2, <2>3, <2>4
  <2> QED
    BY <1>2, <1>6, <2>5, <2>6 DEF DropsOldest, RenderTypeOK
<1>7. CASE Delivers(p)
  <2> DEFINE g == to[p]
             q == queue[g]
             r == Append(q, frame[p])
  <2>1. g \in 1..MaxOpens /\ q \in Seq(Frames) /\ Len(q) < QueueCap
    BY <1>3, <1>7, RenderBounds DEF Delivers
  <2>2. r \in Seq(Frames) /\ Len(r) = Len(q) + 1
    BY <1>3, <2>1, AppendedIsLast
  <2>3. Len(r) <= QueueCap
    BY <2>1, <2>2, RenderBounds
  <2>4. queue' = [queue EXCEPT ![g] = r] /\ skipped' \subseteq Tiles /\ finish(p)
    BY <1>3, <1>7 DEF Delivers, deliver
  <2>5. /\ queue' \in [1..MaxOpens -> Seq(Frames)] /\ \A h \in 1..MaxOpens : Len(queue'[h]) <= QueueCap
    <3> HIDE DEF g, q, r
    <3> QED
      BY <1>3, <2>1, <2>2, <2>3, <2>4
  <2> QED
    BY <1>2, <2>4, <2>5, FinishTypes
<1> QED
  BY <1>4, <1>5, <1>6, <1>7, PublishSteps

LEMMA PublishPlaces ==
  ASSUME RenderTypeOK, PlacesOK, NEW p \in Pubs, Publish(p)
  PROVE  PlacesOK'
<1>1. at[p] \in Publishing /\ PublishFrame(p)
  BY PublishSteps
<1>2. p = "endpoint" \/ (p = "pump" /\ at'["endpoint"] = at["endpoint"])
  BY <1>1 DEF PublishFrame, Pubs
<1>3. at["endpoint"] = "register" \/ at["endpoint"] = "snapshot" => p = "pump"
  BY <1>1, <1>2 DEF Publishing
<1>4. CASE finish(p)
  <2>1. at'[p] = "idle" /\ frame'[p] = <<>> /\ to'[p] = 0
    BY <1>4, FinishTypes
  <2>2. view' = IF p = "endpoint" THEN "answered" ELSE view
    BY <1>4 DEF finish
  <2>3. view' = "asking" <=> at'["endpoint"] # "idle"
    BY <1>2, <2>1, <2>2 DEF PlacesOK
  <2>4. opened = 0 => at["endpoint"] \notin Publishing
    BY DEF PlacesOK, Publishing
  <2>5. opened' = 0 => view' \in {"none", "asking"} /\ at'["endpoint"] \in {"idle", "register"}
    BY <1>1, <1>2, <2>2, <2>4 DEF PlacesOK, PublishFrame
  <2>6. at'["endpoint"] = "register" => opened' < MaxOpens
    BY <1>1, <1>2, <2>1 DEF PlacesOK, PublishFrame
  <2>7. at'["endpoint"] \in {"register", "snapshot"} => batch' = <<>> /\ \A t \in Tiles : canvas'[t] = 0
    BY <1>1, <1>2, <2>1 DEF PlacesOK, PublishFrame
  <2>8. \A q \in Pubs : /\ at'[q] \notin Publishing => frame'[q] = <<>> /\ to'[q] = 0
                        /\ at'[q] = "lookup" => to'[q] = 0
                        /\ at'[q] \in Publishing \ {"lookup"} => to'[q] # 0
    BY <1>1, <2>1 DEF PlacesOK, PublishFrame, Publishing
  <2>9. session' = "open" => gen' = opened'
    BY <1>1 DEF PlacesOK, PublishFrame, surface
  <2> QED
    BY <2>3, <2>5, <2>6, <2>7, <2>8, <2>9 DEF PlacesOK
<1>5. CASE GoesOn(p)
  <2>1. at'[p] \in Publishing \ {"lookup"} /\ to'[p] # 0 /\ view' = view
    BY <1>5 DEF GoesOn
  <2>2. view' = "asking" <=> at'["endpoint"] # "idle"
    BY <1>1, <1>2, <2>1 DEF PlacesOK, Publishing
  <2>4. opened = 0 => at["endpoint"] \notin Publishing
    BY DEF PlacesOK, Publishing
  <2>5. opened' = 0 => view' \in {"none", "asking"} /\ at'["endpoint"] \in {"idle", "register"}
    BY <1>1, <1>2, <2>1, <2>4 DEF PlacesOK, PublishFrame
  <2>6. at'["endpoint"] = "register" => opened' < MaxOpens
    BY <1>1, <1>2, <2>1 DEF PlacesOK, PublishFrame, Publishing
  <2>7. at'["endpoint"] \in {"register", "snapshot"} => batch' = <<>> /\ \A t \in Tiles : canvas'[t] = 0
    BY <1>1, <1>2, <2>1 DEF PlacesOK, PublishFrame, Publishing
  <2>8. \A q \in Pubs : /\ at'[q] \notin Publishing => frame'[q] = <<>> /\ to'[q] = 0
                        /\ at'[q] = "lookup" => to'[q] = 0
                        /\ at'[q] \in Publishing \ {"lookup"} => to'[q] # 0
    BY <1>1, <2>1 DEF PlacesOK, PublishFrame
  <2>9. session' = "open" => gen' = opened'
    BY <1>1 DEF PlacesOK, PublishFrame, surface
  <2> QED
    BY <2>2, <2>5, <2>6, <2>7, <2>8, <2>9 DEF PlacesOK
<1>6. CASE DropsOldest(p)
  BY <1>1, <1>6 DEF PlacesOK, PublishFrame, DropsOldest, surface
<1> QED
  BY <1>4, <1>5, <1>6, PublishSteps DEF DropsFrame, Delivers, deliver

\* The frames under way are what they were.
LEMMA PublishFrames ==
  ASSUME RenderTypeOK, PlacesOK, FramesOK, NotAhead, NEW p \in Pubs, Publish(p)
  PROVE  FramesOK' /\ NotAhead'
<1>1. PublishFrame(p)
  BY PublishSteps
<1>2. frame'[p] \in {frame[p], <<>>} /\ \A q \in Pubs \ {p} : frame'[q] = frame[q]
  BY <1>1, PublishSteps, FinishTypes DEF PublishFrame, GoesOn, DropsFrame, DropsOldest, Delivers, deliver
<1>3. \A q \in Pubs : frame'[q] = frame[q] \/ DOMAIN frame'[q] = {}
  BY <1>2, FrameTypes
<1>4. fb' = fb /\ dirty' = dirty /\ raced' = raced
  BY <1>1 DEF PublishFrame, surface
<1>5. FramesOK'
  <2>1. \A q \in Pubs : Current(q) => Current(q)'
    BY <1>3, <1>4 DEF Current
  <2> QED
    BY <1>4, <2>1 DEF FramesOK, Pubs
<1>6. \A q \in Pubs : \A t \in DOMAIN frame'[q] : frame'[q][t] <= fb'[t]
  BY <1>3, <1>4 DEF NotAhead
<1>7. /\ queue \in [1..MaxOpens -> Seq(Frames)] /\ frame[p] \in Frames
      /\ to[p] \in 0..MaxOpens
  BY DEF RenderTypeOK
<1>8. ASSUME NEW g \in 1..MaxOpens, NEW k \in DOMAIN queue'[g], NEW t \in DOMAIN queue'[g][k]
      PROVE  queue'[g][k][t] <= fb'[t]
  <2>1. CASE queue' = queue
    BY <1>4, <1>8, <2>1 DEF NotAhead
  <2>2. CASE DropsOldest(p)
    <3> DEFINE q == queue[to[p]]
    <3>1. CASE g = to[p]
      <4>1. q \in Seq(Frames) /\ q # <<>> /\ queue'[g] = Tail(q)
        BY <1>7, <2>2, <3>1 DEF DropsOldest
      <4>2. k + 1 \in DOMAIN q /\ Tail(q)[k] = q[k + 1]
        BY <1>8, <4>1, HeadOrTail
      <4> QED
        BY <1>4, <1>8, <3>1, <4>1, <4>2 DEF NotAhead
    <3>2. CASE g # to[p]
      BY <1>4, <1>7, <1>8, <2>2, <3>2 DEF NotAhead, DropsOldest
    <3> QED
      BY <3>1, <3>2
  <2>3. CASE Delivers(p)
    <3> DEFINE q == queue[to[p]]
    <3>1. CASE g = to[p]
      <4>1. q \in Seq(Frames) /\ queue'[g] = Append(q, frame[p])
        BY <1>7, <2>3, <3>1 DEF Delivers, deliver
      <4>2. (k \in DOMAIN q /\ queue'[g][k] = q[k]) \/ queue'[g][k] = frame[p]
        BY <1>7, <1>8, <4>1
      <4> QED
        BY <1>4, <1>8, <3>1, <4>2 DEF NotAhead
    <3>2. CASE g # to[p]
      BY <1>4, <1>7, <1>8, <2>3, <3>2 DEF NotAhead, Delivers, deliver
    <3> QED
      BY <3>1, <3>2
  <2> QED
    BY <2>1, <2>2, <2>3, PublishSteps DEF DropsFrame
<1> QED
  BY <1>5, <1>6, <1>8 DEF NotAhead

\* A stream that has its full frame has a registration, and it is the current one.
LEMMA StartedIsRegistered ==
  ASSUME RenderTypeOK, PlacesOK, session = "open", Started
  PROVE  gen = opened /\ opened \in 1..MaxOpens
BY RenderBounds DEF RenderTypeOK, PlacesOK, Started, Publishing

\* Publishing keeps what is under way together.
LEMMA PublishPipeline ==
  ASSUME PictureInv, NEW p \in Pubs, Publish(p)
  PROVE  PipelineOK'
<1> USE DEF PictureInv
<1>1. at[p] \in Publishing /\ PublishFrame(p)
  BY PublishSteps
<1> SUFFICES ASSUME session' = "open", ~raced', Started', NEW t \in Tiles, t \notin dirty' \cup skipped'
             PROVE  Arrives(t)'
  BY DEF PipelineOK
<1>2. /\ session = "open" /\ ~raced /\ t \notin dirty
      /\ fb' = fb /\ gen' = gen /\ opened' = opened /\ batch' = batch /\ canvas' = canvas
      /\ \A q \in Pubs \ {p} : frame'[q] = frame[q] /\ to'[q] = to[q]
  BY <1>1 DEF PublishFrame, surface
<1>3. Started
  <2>1. p = "endpoint" => Started
    BY <1>1 DEF Started
  <2>2. p = "pump" => at'["endpoint"] = at["endpoint"] /\ view' = view
    BY <1>1, PublishSteps DEF PublishFrame, Pubs, GoesOn, DropsFrame, DropsOldest, Delivers, deliver, finish
  <2> QED
    BY <2>1, <2>2 DEF Started, Pubs
<1>4. gen = opened /\ opened \in 1..MaxOpens
  BY <1>2, <1>3, StartedIsRegistered
<1>5. t \notin skipped => Arrives(t)
  BY <1>2, <1>3 DEF PipelineOK
<1>6. queue[opened] \in Seq(Frames) /\ queue \in [1..MaxOpens -> Seq(Frames)]
      /\ frame[p] \in Frames /\ to[p] \in 0..MaxOpens /\ to \in [Pubs -> 0..MaxOpens]
  BY <1>4 DEF RenderTypeOK
<1>7. CASE GoesOn(p) /\ UNCHANGED <<queue, skipped>>
  <2>1. \A q \in Pubs : to[q] \in {0, gen} => to'[q] \in {0, gen}
    BY <1>2, <1>7 DEF GoesOn
  <2>2. frame' = frame /\ t \notin skipped
    BY <1>7 DEF GoesOn
  <2> QED
    BY <1>2, <1>5, <1>7, <2>1, <2>2 DEF Arrives
<1>8. CASE DropsFrame(p)
  <2>1. t \notin skipped /\ queue' = queue
    BY <1>8 DEF DropsFrame
  <2>2. to[p] \in {0, gen} => t \notin DOMAIN frame[p]
    BY <1>4, <1>8 DEF DropsFrame
  <2> QED
    BY <1>2, <1>5, <2>1, <2>2 DEF Arrives
<1>9. CASE DropsOldest(p)
  <2>1. frame' = frame /\ to' = to /\ t \notin skipped
    BY <1>9 DEF DropsOldest
  <2>2. CASE to[p] = opened
    <3> DEFINE q == queue[opened]
    <3>1. q # <<>> /\ queue'[opened] = Tail(q) /\ t \notin DOMAIN Head(q)
      BY <1>4, <1>6, <1>9, <2>2 DEF DropsOldest
    <3>2. /\ LastIs(q, t, fb[t]) => LastIs(Tail(q), t, fb[t])
          /\ Without(q, t) => Without(Tail(q), t)
      BY <1>6, <3>1, HeadOrTail
    <3> QED
      BY <1>2, <1>5, <2>1, <3>1, <3>2 DEF Arrives
  <2>3. CASE to[p] # opened
    <3>1. queue'[opened] = queue[opened]
      BY <1>4, <1>6, <1>9, <2>3 DEF DropsOldest
    <3> QED
      BY <1>2, <1>5, <2>1, <3>1 DEF Arrives
  <2> QED
    BY <2>2, <2>3
<1>10. CASE Delivers(p)
  <2> DEFINE q == queue[opened]
             r == Append(q, frame[p])
  <2>1. queue'[opened] = r
    BY <1>4, <1>6, <1>10 DEF Delivers, deliver
  <2>2. CASE t \in DOMAIN frame[p]
    <3>1. frame[p][t] = fb[t]
      BY <1>2, <2>2 DEF FramesOK, Current, Pubs
    <3>2. LastIs(r, t, fb[t])
      BY <1>6, <2>2, <3>1, AppendedIsLast
    <3> QED
      BY <1>2, <2>1, <3>2 DEF Arrives
  <2>3. CASE t \notin DOMAIN frame[p]
    <3>1. t \notin skipped
      BY <1>10, <2>3 DEF Delivers, deliver
    <3>2. /\ LastIs(q, t, fb[t]) => LastIs(r, t, fb[t])
          /\ Without(q, t) => Without(r, t)
      BY <1>6, <2>3, AppendedIsLast
    <3> QED
      BY <1>2, <1>5, <2>1, <2>3, <3>1, <3>2 DEF Arrives
  <2> QED
    BY <2>2, <2>3
<1> QED
  BY <1>7, <1>8, <1>9, <1>10, PublishSteps

LEMMA PublishStep ==
  ASSUME PictureInv, NEW p \in Pubs, Publish(p)
  PROVE  PictureInv'
BY PublishTypes, PublishPlaces, PublishFrames, PublishPipeline DEF PictureInv

\* Drawing makes dirty what it draws.
LEMMA DrawStep ==
  ASSUME PictureInv, NEW drawn \in SUBSET Tiles, NEW ok \in BOOLEAN, rdpApplyBitmaps(drawn, ok)
  PROVE  PictureInv'
<1> USE DEF PictureInv
<1>1. PICK n \in 1..MaxDraws : /\ \A t \in Tiles : fb[t] < n
                               /\ fb' = [t \in Tiles |-> IF t \in drawn THEN n ELSE fb[t]]
  BY DEF rdpApplyBitmaps
<1>2. /\ fb' \in Contents /\ \A t \in Tiles : fb[t] \in Nat /\ fb'[t] \in Nat /\ fb[t] <= fb'[t]
      /\ \A t \in Tiles : fb'[t] = fb[t] \/ t \in drawn
  BY <1>1, RenderBounds DEF RenderTypeOK, Contents
<1>3. dirty' = {t \in Tiles : \E a, b \in dirty \cup drawn : a <= t /\ t <= b}
  BY DEF rdpApplyBitmaps, markDirtyLocked
<1>4. dirty' \subseteq Tiles /\ dirty \subseteq dirty' /\ drawn \subseteq dirty'
  BY <1>3, RenderBounds DEF RenderTypeOK, Tiles
<1>5. UNCHANGED <<session, wake, pending, at, frame, to, hub, ui, skipped, raced>>
  BY DEF rdpApplyBitmaps
<1>6. RenderTypeOK'
  BY <1>2, <1>4, <1>5 DEF RenderTypeOK, rdpApplyBitmaps, hub, ui
<1>7. PlacesOK'
  BY <1>5 DEF PlacesOK, hub, ui
<1>8. \A p \in Pubs : Current(p) => Current(p)'
  <2> SUFFICES ASSUME NEW p \in Pubs, Current(p), NEW t \in DOMAIN frame[p]
               PROVE  frame[p][t] = fb'[t] \/ t \in dirty'
    BY <1>5 DEF Current
  <2>1. t \in Tiles
    BY FrameTypes DEF RenderTypeOK
  <2> QED
    BY <1>2, <1>4, <2>1 DEF Current
<1>9. FramesOK'
  BY <1>5, <1>8 DEF FramesOK, Pubs
<1>10. NotAhead'
  <2>1. \A f \in Frames, t \in Tiles : t \in DOMAIN f /\ f[t] <= fb[t] => f[t] <= fb'[t]
    <3> SUFFICES ASSUME NEW f \in Frames, NEW t \in Tiles, t \in DOMAIN f, f[t] <= fb[t]
                 PROVE  f[t] <= fb'[t]
      OBVIOUS
    <3>1. f[t] \in Nat
      BY FrameTypes, RenderBounds
    <3> QED
      BY <1>2, <3>1
  <2>2. \A p \in Pubs : frame[p] \in Frames /\ DOMAIN frame[p] \subseteq Tiles
    BY FrameTypes DEF RenderTypeOK
  <2>3. \A g \in 1..MaxOpens : \A k \in DOMAIN queue[g] :
          queue[g][k] \in Frames /\ DOMAIN queue[g][k] \subseteq Tiles
    BY FrameTypes DEF RenderTypeOK
  <2>4. \A p \in Pubs : \A t \in DOMAIN frame[p] : frame[p][t] <= fb'[t]
    BY <2>1, <2>2 DEF NotAhead
  <2>5. \A g \in 1..MaxOpens : \A k \in DOMAIN queue[g] : \A t \in DOMAIN queue[g][k] :
          queue[g][k][t] <= fb'[t]
    BY <2>1, <2>3 DEF NotAhead
  <2> QED
    BY <1>5, <2>4, <2>5 DEF NotAhead, hub
<1>11. PipelineOK'
  <2> SUFFICES ASSUME session' = "open", ~raced', Started', NEW t \in Tiles, t \notin dirty' \cup skipped'
               PROVE  Arrives(t)'
    BY DEF PipelineOK
  <2>1. t \notin dirty \cup skipped /\ fb'[t] = fb[t]
    BY <1>2, <1>4, <1>5
  <2>2. Arrives(t)
    BY <1>5, <2>1 DEF PipelineOK, Started, ui
  <2> QED
    BY <1>5, <2>1, <2>2 DEF Arrives, hub, ui
<1> QED
  BY <1>6, <1>7, <1>9, <1>10, <1>11

\* Steps that leave all frames and contents alone.
LEMMA QuietPictureStep ==
  ASSUME PictureInv,
         signalRender \/ PumpWake \/ PumpEnd \/ Connect \/ ConnectFails \/ StreamEnds \/ cleanupSession
  PROVE  PictureInv'
<1> USE DEF PictureInv
<1>1. UNCHANGED <<fb, dirty, frame, to, opened, queue, batch, canvas, raced, skipped>>
  BY DEF signalRender, PumpWake, PumpEnd, Connect, ConnectFails, StreamEnds, cleanupSession,
         surface, hub, ui, history
<1>2. (gen' = gen /\ session' = session) \/ (gen' = 0 /\ session' = "closed" /\ view' = view /\ at' = at)
  BY DEF signalRender, PumpWake, PumpEnd, Connect, ConnectFails, StreamEnds, cleanupSession,
         surface, hub, ui
<1>3. \/ view' = view
      \/ view \in {"answered", "up"} /\ view' \in {"none", "up", "lost"} /\ at' = at
  BY DEF signalRender, PumpWake, PumpEnd, Connect, ConnectFails, StreamEnds, cleanupSession, ui
<1>4. \/ at' = at
      \/ at["pump"] = "idle" /\ at' = [at EXCEPT !["pump"] = "ended"]
  BY DEF signalRender, PumpWake, PumpEnd, Connect, ConnectFails, StreamEnds, cleanupSession
<1>5. at'["endpoint"] = at["endpoint"] /\ (at'["pump"] = at["pump"] \/ (at["pump"] = "idle" /\ at'["pump"] = "ended"))
      /\ at' \in [Pubs -> Publishing \cup {"idle", "register", "snapshot", "ended"}]
  BY <1>4 DEF RenderTypeOK, Pubs
<1>6. RenderTypeOK'
  <2>1. /\ session' \in {"open", "closed"} /\ applier' \in {"idle", "signal"}
        /\ wake' \in BOOLEAN /\ pending' \in BOOLEAN /\ failed' \in BOOLEAN
    BY DEF RenderTypeOK, signalRender, PumpWake, PumpEnd, Connect, ConnectFails, StreamEnds,
           cleanupSession, surface, history
  <2>2. view' \in {"none", "asking", "answered", "up", "lost"} /\ gen' \in {0, opened}
    BY <1>2, <1>3 DEF RenderTypeOK
  <2>3. at'["pump"] \notin {"register", "snapshot"} /\ at'["endpoint"] # "ended"
    BY <1>5 DEF RenderTypeOK
  <2> QED
    BY <1>1, <1>5, <2>1, <2>2, <2>3 DEF RenderTypeOK
<1>7. PlacesOK'
  <2>1. view' = "asking" <=> at'["endpoint"] # "idle"
    BY <1>3, <1>5 DEF PlacesOK
  <2>2. \A p \in Pubs : /\ at'[p] \notin Publishing => frame'[p] = <<>> /\ to'[p] = 0
                        /\ at'[p] = "lookup" => to'[p] = 0
                        /\ at'[p] \in Publishing \ {"lookup"} => to'[p] # 0
    <3> SUFFICES ASSUME NEW p \in Pubs
                 PROVE  /\ at'[p] \notin Publishing => frame'[p] = <<>> /\ to'[p] = 0
                        /\ at'[p] = "lookup" => to'[p] = 0
                        /\ at'[p] \in Publishing \ {"lookup"} => to'[p] # 0
      OBVIOUS
    <3>1. at'[p] = at[p] \/ (at[p] = "idle" /\ at'[p] = "ended")
      BY <1>5 DEF Pubs
    <3> QED
      BY <1>1, <3>1 DEF PlacesOK, Publishing
  <2>3. opened' = 0 => view' \in {"none", "asking"} /\ at'["endpoint"] \in {"idle", "register"}
    BY <1>1, <1>3, <1>5 DEF PlacesOK
  <2> QED
    BY <1>1, <1>2, <1>5, <2>1, <2>2, <2>3 DEF PlacesOK
<1>8. FramesOK' /\ NotAhead'
  BY <1>1 DEF FramesOK, NotAhead, Current
<1>9. PipelineOK'
  <2> SUFFICES ASSUME session' = "open", ~raced', Started', NEW t \in Tiles, t \notin dirty' \cup skipped'
               PROVE  Arrives(t)'
    BY DEF PipelineOK
  <2>1. gen' = gen /\ session = "open"
    BY <1>2
  <2>2. Started
    BY <1>3, <1>5 DEF Started
  <2> QED
    BY <1>1, <2>1, <2>2 DEF PipelineOK, Arrives
<1> QED
  BY <1>6, <1>7, <1>8, <1>9

\* What the pump takes is the latest content.
LEMMA SnapshotStep ==
  ASSUME PictureInv, PumpTick
  PROVE  PictureInv'
<1> USE DEF PictureInv
<1>1. UNCHANGED <<session, fb, applier, wake, to, hub, ui, skipped, failed>> /\ at["pump"] = "idle"
  BY DEF PumpTick
<1>2. CASE dirty = {}
  <2>1. pending' \in BOOLEAN /\ UNCHANGED <<at, frame, dirty, raced>>
    BY <1>2 DEF PumpTick
  <2> QED
    BY <1>1, <2>1 DEF RenderTypeOK, PlacesOK, FramesOK, NotAhead, Current, PipelineOK, Arrives,
                      Started, hub, ui
<1>3. CASE dirty # {}
  <2>1. PICK region \in {dirty, Tiles} : rdpAdaptiveSnapshot(region)
    BY <1>3 DEF PumpTick
  <2>2. at' = [at EXCEPT !["pump"] = "lookup"] /\ pending' = pending
    BY <1>3 DEF PumpTick
  <2>3. /\ frame' = [frame EXCEPT !["pump"] = [t \in region |-> fb[t]]] /\ dirty' = {}
        /\ raced' = (at["endpoint"] \in Publishing \/ (raced /\ region # Tiles))
    BY <2>1 DEF rdpAdaptiveSnapshot
  <2>4. region \in SUBSET Tiles /\ [t \in region |-> fb[t]] \in Frames
    BY FrameTypes DEF RenderTypeOK
  <2>5. /\ at'["pump"] = "lookup" /\ at'["endpoint"] = at["endpoint"]
        /\ frame'["pump"] = [t \in region |-> fb[t]] /\ frame'["endpoint"] = frame["endpoint"]
        /\ at' \in [Pubs -> Publishing \cup {"idle", "register", "snapshot", "ended"}]
        /\ frame' \in [Pubs -> Frames]
    BY <2>2, <2>3, <2>4 DEF RenderTypeOK, Pubs, Publishing
  <2>6. /\ frame["pump"] = <<>> /\ to["pump"] = 0
        /\ at["endpoint"] \notin Publishing => frame["endpoint"] = <<>>
    BY <1>1 DEF PlacesOK, Pubs, Publishing
  <2>7. RenderTypeOK'
    <3>1. raced' \in BOOLEAN /\ dirty' \subseteq Tiles /\ pending' \in BOOLEAN
      BY <2>2, <2>3 DEF RenderTypeOK
    <3>2. at'["pump"] \notin {"register", "snapshot"} /\ at'["endpoint"] # "ended"
      BY <2>5 DEF RenderTypeOK
    <3> QED
      BY <1>1, <2>5, <3>1, <3>2 DEF RenderTypeOK, hub, ui
  <2>8. PlacesOK'
    <3>1. \A p \in Pubs : /\ at'[p] \notin Publishing => frame'[p] = <<>> /\ to'[p] = 0
                          /\ at'[p] = "lookup" => to'[p] = 0
                          /\ at'[p] \in Publishing \ {"lookup"} => to'[p] # 0
      BY <1>1, <2>5, <2>6 DEF PlacesOK, Pubs, Publishing
    <3>2. /\ view' = view /\ session' = session /\ gen' = gen /\ opened' = opened
          /\ batch' = batch /\ canvas' = canvas
      BY <1>1 DEF hub, ui
    <3> QED
      BY <2>5, <3>1, <3>2 DEF PlacesOK
  <2>9. FramesOK'
    <3>1. Current("pump")'
      BY <1>1, <2>5 DEF Current
    <3>2. ~raced' => frame'["endpoint"] = <<>>
      BY <2>3, <2>5, <2>6
    <3> QED
      BY <3>1, <3>2, FrameTypes DEF FramesOK, Current
  <2>10. NotAhead'
    <3>1. \A t \in Tiles : fb[t] <= fb[t]
      BY RenderBounds DEF RenderTypeOK, Contents
    <3>2. \A t \in DOMAIN frame'["pump"] : frame'["pump"][t] <= fb'[t]
      BY <1>1, <2>4, <2>5, <3>1
    <3> QED
      BY <1>1, <2>5, <3>2 DEF NotAhead, Pubs, hub
  <2>11. PipelineOK'
    <3> SUFFICES ASSUME session' = "open", ~raced', Started', NEW t \in Tiles, t \notin dirty' \cup skipped'
                 PROVE  Arrives(t)'
      BY DEF PipelineOK
    <3>1. at["endpoint"] \notin Publishing /\ (~raced \/ region = Tiles)
      BY <2>3
    <3>2. CASE t \in region
      BY <1>1, <2>5, <2>6, <3>2 DEF Arrives, Pubs
    <3>3. CASE t \notin region
      <4>1. region = dirty /\ ~raced /\ t \notin dirty \cup skipped
        BY <1>1, <3>1, <3>3
      <4>2. Arrives(t)
        BY <1>1, <2>5, <4>1 DEF PipelineOK, Started, ui
      <4>3. \A p \in Pubs : t \notin DOMAIN frame[p]
        BY <2>6, <3>1, FrameTypes DEF Pubs
      <4> QED
        BY <1>1, <4>2, <4>3 DEF Arrives, hub, ui
    <3> QED
      BY <3>2, <3>3
  <2> QED
    BY <2>7, <2>8, <2>9, <2>10, <2>11
<1> QED
  BY <1>2, <1>3

\* A stream that is opened has an empty canvas, and one that is registered no
\* frames for it yet that it has taken.
LEMMA OpenStep ==
  ASSUME PictureInv, Ask \/ Register
  PROVE  PictureInv'
<1> USE DEF PictureInv
<1>1. UNCHANGED <<surface, pending, frame, to, queue, failed>>
  BY DEF Ask, Register, hub, history
<1>2. at["endpoint"] \notin Publishing /\ at["endpoint"] \in {"idle", "register"}
  BY DEF Ask, Register, PlacesOK, Publishing
<1>3. /\ at'["pump"] = at["pump"] /\ at'["endpoint"] \in {"register", "snapshot"}
      /\ at' \in [Pubs -> Publishing \cup {"idle", "register", "snapshot", "ended"}]
  BY DEF Ask, Register, RenderTypeOK, Pubs
<1>4. /\ 0 \in 0..MaxDraws /\ MaxOpens \in Nat
      /\ [t \in Tiles |-> 0] \in Contents /\ <<>> \in Seq(Frames)
  BY RenderBounds DEF Contents
<1>5. /\ opened' \in 0..MaxOpens /\ gen' \in {0, opened'}
      /\ gen' = opened' \/ (gen' = gen /\ opened' = opened)
      /\ at'["endpoint"] = "register" => opened' < MaxOpens
      /\ at'["endpoint"] = "snapshot" => opened' # 0
  <2>1. opened \in 0..MaxOpens /\ gen \in {0, opened} /\ at["endpoint"] = "register" => opened < MaxOpens
    BY DEF RenderTypeOK, PlacesOK
  <2>2. CASE Ask
    <3>1. UNCHANGED <<opened, gen>> /\ opened < MaxOpens /\ at'["endpoint"] = "register"
      BY <2>2 DEF Ask, hub, RenderTypeOK, Pubs
    <3> QED
      BY <2>1, <3>1 DEF RenderTypeOK
  <2>3. CASE Register
    <3>1. /\ opened' = opened + 1 /\ gen' = opened + 1 /\ at["endpoint"] = "register"
          /\ at'["endpoint"] = "snapshot"
      BY <2>3 DEF Register, RenderTypeOK, Pubs
    <3>2. opened \in Nat /\ opened < MaxOpens
      BY <2>1, <3>1 DEF PlacesOK, RenderTypeOK
    <3> QED
      BY <1>4, <3>1, <3>2
  <2> QED
    BY <2>2, <2>3
<1>6. /\ canvas' \in Contents /\ batch' = <<>> /\ view' = "asking"
      /\ \A t \in Tiles : canvas'[t] = 0
  <2>1. CASE Ask
    BY <1>4, <2>1 DEF Ask
  <2>2. CASE Register
    BY <2>2 DEF Register, PlacesOK, RenderTypeOK, ui
  <2> QED
    BY <2>1, <2>2
<1>7. raced' \in BOOLEAN /\ skipped' \subseteq Tiles
  BY DEF Ask, Register, RenderTypeOK, history
<1>8. RenderTypeOK'
  <2>1. at'["pump"] \notin {"register", "snapshot"} /\ at'["endpoint"] # "ended"
    BY <1>3 DEF RenderTypeOK
  <2> QED
    BY <1>1, <1>3, <1>4, <1>5, <1>6, <1>7, <2>1 DEF RenderTypeOK, surface
<1>9. PlacesOK'
  <2>1. \A p \in Pubs : /\ at'[p] \notin Publishing => frame'[p] = <<>> /\ to'[p] = 0
                        /\ at'[p] = "lookup" => to'[p] = 0
                        /\ at'[p] \in Publishing \ {"lookup"} => to'[p] # 0
    BY <1>1, <1>2, <1>3 DEF PlacesOK, Pubs, Publishing
  <2>2. session' = "open" => gen' = opened'
    BY <1>1, <1>5 DEF PlacesOK, surface
  <2>3. view' = "asking" <=> at'["endpoint"] # "idle"
    BY <1>3, <1>6
  <2>4. opened' = 0 => view' \in {"none", "asking"} /\ at'["endpoint"] \in {"idle", "register"}
    BY <1>3, <1>5, <1>6
  <2> QED
    BY <1>5, <1>6, <2>1, <2>2, <2>3, <2>4 DEF PlacesOK
<1>10. FramesOK'
  <2>1. frame["endpoint"] = <<>>
    BY <1>2 DEF PlacesOK, Pubs
  <2> QED
    BY <1>1, <2>1, FrameTypes DEF FramesOK, Current, surface
<1>11. NotAhead'
  BY <1>1 DEF NotAhead, surface
<1>12. PipelineOK'
  BY <1>3, <1>6 DEF PipelineOK, Started, Publishing
<1> QED
  BY <1>8, <1>9, <1>10, <1>11, <1>12

\* The full frame has every tile; without one nothing was drawn.
LEMMA FullSnapshotStep ==
  ASSUME PictureInv, rdpFullSnapshot
  PROVE  PictureInv'
<1> USE DEF PictureInv
<1>1. UNCHANGED <<surface, hub, batch, canvas, history>> /\ at["endpoint"] = "snapshot"
  BY DEF rdpFullSnapshot
<1>2. /\ view = "asking" /\ to["endpoint"] = 0 /\ opened \in 1..MaxOpens
      /\ batch = <<>> /\ \A t \in Tiles : canvas[t] = 0
  BY <1>1, RenderBounds DEF PlacesOK, RenderTypeOK, Pubs, Publishing
<1>3. CASE \E t \in Tiles : fb[t] > 0
  <2>1. /\ frame' = [frame EXCEPT !["endpoint"] = fb]
        /\ at' = [at EXCEPT !["endpoint"] = "lookup"]
        /\ UNCHANGED <<pending, view, to>>
    BY <1>3 DEF rdpFullSnapshot
  <2>2. /\ at'["endpoint"] = "lookup" /\ at'["pump"] = at["pump"]
        /\ frame'["endpoint"] = fb /\ frame'["pump"] = frame["pump"]
        /\ at' \in [Pubs -> Publishing \cup {"idle", "register", "snapshot", "ended"}]
        /\ frame' \in [Pubs -> Frames]
    BY <2>1, FrameTypes DEF RenderTypeOK, Pubs, Publishing
  <2>3. RenderTypeOK'
    BY <1>1, <2>1, <2>2 DEF RenderTypeOK, surface, hub, history
  <2>4. PlacesOK'
    <3>1. \A p \in Pubs : /\ at'[p] \notin Publishing => frame'[p] = <<>> /\ to'[p] = 0
                          /\ at'[p] = "lookup" => to'[p] = 0
                          /\ at'[p] \in Publishing \ {"lookup"} => to'[p] # 0
      BY <1>2, <2>1, <2>2 DEF PlacesOK, Pubs, Publishing
    <3> QED
      BY <1>1, <1>2, <2>1, <2>2, <3>1 DEF PlacesOK, surface, hub
  <2>5. FramesOK'
    BY <1>1, <2>2 DEF FramesOK, Current, surface
  <2>6. NotAhead'
    <3>1. DOMAIN fb = Tiles /\ \A t \in Tiles : fb[t] <= fb[t]
      BY RenderBounds DEF RenderTypeOK, Contents
    <3> QED
      BY <1>1, <2>2, <3>1 DEF NotAhead, Pubs, surface, hub
  <2>7. \A t \in Tiles : Arrives(t)'
    <3>1. to'["endpoint"] = 0 /\ \A t \in Tiles : t \in DOMAIN frame'["endpoint"]
      BY <1>2, <2>1, <2>2 DEF RenderTypeOK, Contents
    <3> QED
      BY <3>1 DEF Arrives, Pubs
  <2> QED
    BY <2>3, <2>4, <2>5, <2>6, <2>7 DEF PipelineOK
<1>4. CASE ~ \E t \in Tiles : fb[t] > 0
  <2>1. finish("endpoint")
    BY <1>4 DEF rdpFullSnapshot
  <2>2. /\ at'["endpoint"] = "idle" /\ at'["pump"] = at["pump"]
        /\ frame'["endpoint"] = <<>> /\ frame'["pump"] = frame["pump"]
        /\ to'["endpoint"] = 0 /\ to'["pump"] = to["pump"]
        /\ view' = "answered"
    BY <2>1, FinishTypes DEF finish, Pubs, RenderTypeOK
  <2>3. RenderTypeOK'
    BY <1>1, <2>1, FinishTypes DEF RenderTypeOK, Pubs, surface, hub, history
  <2>4. PlacesOK'
    <3>1. \A p \in Pubs : /\ at'[p] \notin Publishing => frame'[p] = <<>> /\ to'[p] = 0
                          /\ at'[p] = "lookup" => to'[p] = 0
                          /\ at'[p] \in Publishing \ {"lookup"} => to'[p] # 0
      BY <2>2 DEF PlacesOK, Pubs, Publishing
    <3> QED
      BY <1>1, <1>2, <2>2, <3>1, RenderBounds DEF PlacesOK, surface, hub
  <2>5. FramesOK'
    BY <1>1, <2>2, FrameTypes DEF FramesOK, Current, surface
  <2>6. NotAhead'
    BY <1>1, <2>2, FrameTypes DEF NotAhead, Pubs, surface, hub
  <2>7. ASSUME NEW t \in Tiles
        PROVE  Arrives(t)'
    <3> DEFINE q == queue[opened]
    <3>1. fb[t] = 0 /\ canvas[t] = 0 /\ q \in Seq(Frames)
      BY <1>2, <1>4, RenderBounds DEF RenderTypeOK, Contents
    <3>2. CASE Without(q, t)
      <4>1. Without(batch, t)
        BY <1>2 DEF Without
      <4> QED
        BY <1>1, <3>1, <3>2, <4>1 DEF Arrives, surface, hub
    <3>3. CASE ~Without(q, t)
      <4> DEFINE with == {k \in DOMAIN q : t \in DOMAIN q[k]}
                 c == q[Max(with)][t]
      <4>1. Max(with) \in with /\ c \in 0..MaxDraws /\ LastIs(q, t, c)
        BY <3>1, <3>3, Presented
      <4>2. c <= fb[t]
        BY <1>2, <4>1 DEF NotAhead
      <4>3. c = fb[t]
        <5> HIDE DEF c
        <5> QED
          BY <3>1, <4>1, <4>2, RenderBounds
      <4> QED
        BY <1>1, <4>1, <4>3 DEF Arrives, surface, hub
    <3> QED
      BY <3>2, <3>3
  <2> QED
    BY <2>3, <2>4, <2>5, <2>6, <2>7 DEF PipelineOK
<1> QED
  BY <1>3, <1>4

\* The oldest frame of the channel becomes the newest of the batch, or all of it.
LEMMA ServeStep ==
  ASSUME PictureInv, serveWS
  PROVE  PictureInv'
<1> USE DEF PictureInv
<1> DEFINE q == queue[opened]
           f == Head(q)
<1>1. /\ view = "up" /\ q # <<>>
      /\ batch' = (IF IsFullSurface(f) THEN <<f>> ELSE Append(batch, f))
      /\ queue' = [queue EXCEPT ![opened] = Tail(q)]
      /\ UNCHANGED <<surface, pending, at, frame, to, opened, gen, view, canvas, history>>
  BY DEF serveWS
<1>2. opened \in 1..MaxOpens
  BY <1>1, RenderBounds DEF PlacesOK, RenderTypeOK
<1>3. q \in Seq(Frames) /\ queue \in [1..MaxOpens -> Seq(Frames)] /\ batch \in Seq(Frames)
      /\ Len(q) <= QueueCap
  BY <1>2 DEF RenderTypeOK
<1>4. /\ Tail(q) \in Seq(Frames) /\ f \in Frames /\ Len(Tail(q)) = Len(q) - 1
      /\ \A k \in DOMAIN Tail(q) : k + 1 \in DOMAIN q /\ Tail(q)[k] = q[k + 1]
  BY <1>1, <1>3, HeadOrTail
<1>5. batch' \in Seq(Frames)
  <2>1. Append(batch, f) \in Seq(Frames) /\ <<f>> \in Seq(Frames)
    <3> HIDE DEF f
    <3> QED
      BY <1>3, <1>4
  <2> QED
    BY <1>1, <2>1
<1>6. queue' \in [1..MaxOpens -> Seq(Frames)] /\ queue'[opened] = Tail(q)
      /\ \A g \in (1..MaxOpens) \ {opened} : queue'[g] = queue[g]
  <2> HIDE DEF q, f
  <2> QED
    BY <1>1, <1>2, <1>3, <1>4
<1>7. Len(Tail(q)) <= QueueCap
  <2>1. Len(q) \in Nat
    BY <1>3
  <2> QED
    BY <1>3, <1>4, <2>1, RenderBounds
<1> HIDE DEF q, f
<1>8. RenderTypeOK'
  BY <1>1, <1>5, <1>6, <1>7 DEF RenderTypeOK, surface, history
<1>9. PlacesOK'
  BY <1>1 DEF PlacesOK, surface
<1>10. FramesOK'
  BY <1>1 DEF FramesOK, Current, surface, history
<1>11. NotAhead'
  <2>1. \A k \in DOMAIN q : \A t \in DOMAIN q[k] : q[k][t] <= fb[t]
    BY <1>2 DEF NotAhead, q
  <2>2. \A k \in DOMAIN Tail(q) : \A t \in DOMAIN Tail(q)[k] : Tail(q)[k][t] <= fb[t]
    BY <1>4, <2>1
  <2>3. \A g \in 1..MaxOpens : \A k \in DOMAIN queue'[g] : \A t \in DOMAIN queue'[g][k] :
          queue'[g][k][t] <= fb[t]
    BY <1>6, <2>2 DEF NotAhead
  <2> QED
    BY <1>1, <2>3 DEF NotAhead, surface
<1>12. PipelineOK'
  <2> SUFFICES ASSUME session' = "open", ~raced', Started', NEW t \in Tiles, t \notin dirty' \cup skipped'
               PROVE  Arrives(t)'
    BY DEF PipelineOK
  <2>1. Arrives(t)
    BY <1>1 DEF PipelineOK, Started, surface, history
  <2>2. /\ fb' = fb /\ canvas' = canvas /\ frame' = frame /\ to' = to /\ gen' = gen
        /\ queue'[opened'] = Tail(q)
    BY <1>1, <1>6 DEF surface
  <2>3. t \in DOMAIN f /\ f[t] = fb[t] => LastIs(batch', t, fb[t])
    <3>1. LastIs(<<f>>, t, f[t]) \/ t \notin DOMAIN f
      BY DEF LastIs
    <3>2. t \in DOMAIN f /\ f[t] = fb[t] => LastIs(Append(batch, f), t, fb[t])
      BY <1>3, <1>4, AppendedIsLast
    <3> QED
      BY <1>1, <3>1, <3>2
  <2>4. ASSUME t \notin DOMAIN f
        PROVE  /\ LastIs(batch, t, fb[t]) => LastIs(batch', t, fb[t])
               /\ Without(batch, t) => Without(batch', t)
    <3>1. batch' = Append(batch, f)
      BY <1>1, <2>4 DEF IsFullSurface
    <3> QED
      BY <1>3, <1>4, <2>4, <3>1, AppendedIsLast
  <2>5. LastIs(q, t, fb[t]) => \/ LastIs(Tail(q), t, fb[t])
                               \/ Without(Tail(q), t) /\ t \in DOMAIN f /\ f[t] = fb[t]
    BY <1>1, <1>3, HeadOrTail DEF f
  <2>6. Without(q, t) => Without(Tail(q), t) /\ t \notin DOMAIN f
    BY <1>1, <1>3, HeadOrTail DEF f
  <2> QED
    BY <2>1, <2>2, <2>3, <2>4, <2>5, <2>6 DEF Arrives, q
<1> QED
  BY <1>8, <1>9, <1>10, <1>11, <1>12

\* The canvas shows the last content the batch has of a tile.
LEMMA PresentStep ==
  ASSUME PictureInv, Present
  PROVE  PictureInv'
<1> USE DEF PictureInv
<1> DEFINE with(t) == {k \in DOMAIN batch : t \in DOMAIN batch[k]}
<1>1. /\ batch # <<>> /\ batch' = <<>>
      /\ canvas' = [t \in Tiles |-> IF with(t) = {} THEN canvas[t] ELSE batch[Max(with(t))][t]]
      /\ UNCHANGED <<surface, pending, at, frame, to, hub, view, history>>
  BY DEF Present
<1>2. \A t \in Tiles : /\ Without(batch, t) => canvas'[t] = canvas[t]
                       /\ \A c : LastIs(batch, t, c) => canvas'[t] = c
                       /\ canvas'[t] \in 0..MaxDraws
  <2> SUFFICES ASSUME NEW t \in Tiles
               PROVE  /\ Without(batch, t) => canvas'[t] = canvas[t]
                      /\ \A c : LastIs(batch, t, c) => canvas'[t] = c
                      /\ canvas'[t] \in 0..MaxDraws
    OBVIOUS
  <2>1. canvas'[t] = IF with(t) = {} THEN canvas[t] ELSE batch[Max(with(t))][t]
    BY <1>1
  <2>2. batch \in Seq(Frames) /\ canvas[t] \in 0..MaxDraws
    BY DEF RenderTypeOK, Contents
  <2>3. /\ with(t) = {} <=> Without(batch, t)
        /\ with(t) # {} => /\ batch[Max(with(t))][t] \in 0..MaxDraws
                           /\ \A c : LastIs(batch, t, c) => batch[Max(with(t))][t] = c
    BY <2>2, Presented
  <2>4. \A c : LastIs(batch, t, c) => ~Without(batch, t)
    BY DEF LastIs, Without
  <2> QED
    BY <2>1, <2>2, <2>3, <2>4
<1>3. canvas' \in Contents /\ batch' \in Seq(Frames)
  <2>1. DOMAIN canvas' = Tiles /\ canvas' = [t \in Tiles |-> canvas'[t]]
    BY <1>1
  <2> QED
    BY <1>1, <1>2, <2>1 DEF Contents
<1>4. RenderTypeOK'
  BY <1>1, <1>3 DEF RenderTypeOK, surface, hub, history
<1>5. PlacesOK'
  BY <1>1 DEF PlacesOK, surface, hub
<1>6. FramesOK' /\ NotAhead'
  BY <1>1 DEF FramesOK, Current, NotAhead, surface, hub, history
<1>7. PipelineOK'
  <2> SUFFICES ASSUME session' = "open", ~raced', Started', NEW t \in Tiles, t \notin dirty' \cup skipped'
               PROVE  Arrives(t)'
    BY DEF PipelineOK
  <2>1. Arrives(t)
    BY <1>1 DEF PipelineOK, Started, surface, history
  <2>2. /\ fb' = fb /\ frame' = frame /\ to' = to /\ gen' = gen
        /\ queue' = queue /\ opened' = opened
    BY <1>1 DEF surface, hub
  <2>3. Without(batch', t)
    BY <1>1 DEF Without
  <2> QED
    BY <1>2, <2>1, <2>2, <2>3 DEF Arrives
<1> QED
  BY <1>4, <1>5, <1>6, <1>7

\* PictureInv holds in every reachable state.
LEMMA PictureInvariant == RenderSpec => []PictureInv
<1>1. RenderInit => PictureInv
  <2> SUFFICES ASSUME RenderInit
               PROVE  PictureInv
    OBVIOUS
  <2>1. /\ at = [p \in Pubs |-> "idle"] /\ frame = [p \in Pubs |-> <<>>] /\ to = [p \in Pubs |-> 0]
        /\ queue = [g \in 1..MaxOpens |-> <<>>] /\ batch = <<>>
        /\ fb = [t \in Tiles |-> 0] /\ canvas = [t \in Tiles |-> 0]
        /\ session = "open" /\ opened = 0 /\ gen = 0 /\ view = "none"
    BY DEF RenderInit
  <2>2. RenderTypeOK
    <3>1. /\ <<>> \in Frames /\ <<>> \in Seq(Frames) /\ Len(<<>>) = 0
          /\ [t \in Tiles |-> 0] \in Contents
      BY FrameTypes, RenderBounds DEF Contents
    <3>2. /\ frame \in [Pubs -> Frames] /\ queue \in [1..MaxOpens -> Seq(Frames)]
          /\ \A g \in 1..MaxOpens : Len(queue[g]) <= QueueCap
      BY <2>1, <3>1, RenderBounds
    <3>3. /\ at \in [Pubs -> Publishing \cup {"idle", "register", "snapshot", "ended"}]
          /\ at["pump"] = "idle" /\ at["endpoint"] = "idle" /\ to \in [Pubs -> 0..MaxOpens]
      BY <2>1, RenderBounds DEF Pubs
    <3>4. /\ session = "open" /\ applier = "idle" /\ wake = FALSE /\ pending = FALSE
          /\ dirty = {} /\ skipped = {} /\ raced = FALSE /\ failed = FALSE
      BY DEF RenderInit
    <3>5. opened \in 0..MaxOpens /\ gen \in {0, opened} /\ batch \in Seq(Frames)
      BY <2>1, <3>1, RenderBounds
    <3> QED
      BY <2>1, <3>1, <3>2, <3>3, <3>4, <3>5 DEF RenderTypeOK
  <2>3. \A p \in Pubs : at[p] = "idle" /\ frame[p] = <<>> /\ to[p] = 0
    BY <2>1
  <2>4. PlacesOK
    BY <2>1, <2>3 DEF PlacesOK, Pubs, Publishing
  <2>5. FramesOK /\ NotAhead
    BY <2>1, <2>3, FrameTypes DEF FramesOK, Current, NotAhead, Pubs
  <2>6. PipelineOK
    BY <2>1, <2>3 DEF PipelineOK, Started, Pubs, Publishing
  <2> QED
    BY <2>2, <2>4, <2>5, <2>6 DEF PictureInv
<1>2. PictureInv /\ [RenderNext]_renderVars => PictureInv'
  <2> SUFFICES ASSUME PictureInv, [RenderNext]_renderVars
               PROVE  PictureInv'
    OBVIOUS
  <2>1. CASE UNCHANGED renderVars
    BY <2>1 DEF renderVars, surface, hub, ui, history, PictureInv, RenderTypeOK, PlacesOK, FramesOK,
                NotAhead, PipelineOK, Current, Arrives, Started
  <2> QED
    BY <2>1, DrawStep, QuietPictureStep, SnapshotStep, OpenStep, FullSnapshotStep, ServeStep,
       PresentStep, PublishStep DEF RenderNext, Pump, Endpoint, Stream, Pubs
<1> QED
  BY <1>1, <1>2, PTL DEF RenderSpec

\* The parts of the picture keep their shapes and no channel holds more frames than
\* its capacity, for any number of tiles, bitmaps and streams.
THEOREM PictureTypes == RenderSpec => []RenderTypeOK
BY PictureInvariant, PTL DEF PictureInv

\* A tile of the canvas is out of date only if it is dirty, or its latest content is
\* under way, or backpressure has skipped it, or the two publishers have raced.
THEOREM PictureStale == RenderSpec => []StaleForAReason
<1>1. PictureInv => StaleForAReason
  <2> SUFFICES ASSUME PictureInv, view = "up", session = "open", ~raced,
                      NEW t \in Tiles, t \notin dirty \cup skipped, canvas[t] # fb[t]
               PROVE  Underway(t)
    BY DEF StaleForAReason
  <2> USE DEF PictureInv
  <2>1. Arrives(t)
    BY DEF PipelineOK, Started
  <2>2. CASE \E p \in Pubs : to[p] \in {0, gen} /\ t \in DOMAIN frame[p]
    <3>1. PICK p \in Pubs : to[p] \in {0, gen} /\ t \in DOMAIN frame[p]
      BY <2>2
    <3>2. frame[p][t] = fb[t]
      BY <3>1 DEF FramesOK, Current, Pubs
    <3> QED
      BY <3>1, <3>2 DEF Underway
  <2>3. ASSUME NEW q, LastIs(q, t, fb[t])
        PROVE  \E f \in ToSet(q) : t \in DOMAIN f /\ f[t] = fb[t]
    BY <2>3 DEF LastIs, ToSet
  <2>4. CASE LastIs(queue[opened], t, fb[t])
    BY <2>3, <2>4 DEF Underway
  <2>5. CASE LastIs(batch, t, fb[t])
    BY <2>3, <2>5 DEF Underway
  <2> QED
    BY <2>1, <2>2, <2>4, <2>5 DEF Arrives
<1> QED
  BY <1>1, PictureInvariant, PTL

-----------------------------------------------------------------------------
(* The session and its clipboard.  A session is shown as what it is,       *)
(* leaves no connection behind and offers what is staged, however its      *)
(* goroutines overtake each other, for any number of files, stagings and   *)
(* events of the engine.                                                   *)

Statuses == Status \cup {"closed"}

\* The goroutines, and what the user interface knows of the session.
LifeOK ==
  /\ rec \in {"none", "open", "gone"} /\ st \in Status \cup {"none"}
  /\ login \in {"none", "dial", "connect", "emit", "failed", "done"}
  /\ conn \in {"none", "open", "closed"} /\ closing \in {"none", "emit", "quiet"}
  /\ resp \in Status \cup {"none"} /\ tab \in Status \cup {"none", "dropped"}
  /\ rec = "none" => /\ login = "none" /\ closing = "none"
                     /\ resp = "none" /\ tab = "none"
  /\ rec # "none" => st # "none"
  /\ login \in {"none", "dial"} => eng.pc = "none" /\ conn = "none"
  /\ closing # "none" => rec = "gone"

\* A session without record had its connection closed, or its closing found none.
ConnOK ==
  (rec = "gone" /\ closing = "none" /\ (conn = "open" \/ login = "dial")) => missed

\* Who has "closed" to emit is alone with it.
ClosedOK ==
  /\ statuses \in Seq(Statuses)
  /\ \A i, j \in DOMAIN statuses : statuses[i] = "closed" /\ statuses[j] = "closed" => i = j
  /\ (rec # "gone" \/ closing = "emit") => \A i \in DOMAIN statuses : statuses[i] # "closed"

EngineTypes == eng \in Engine /\ ready \in 0..MaxReady

\* What is staged and served; the index the callback knows is of a file of its staging.
ClipOK ==
  /\ clip \in Clip /\ stagings \in 0..MaxStagings /\ refresh \in 0..stagings
  /\ clip.n = stagings /\ eng.n <= stagings
  /\ clip.done \subseteq 1..clip.size
  /\ clip.done \subseteq clip.served \cup clip.stale
  /\ eng.pc = "served" =>
       /\ eng.index \in Files
       /\ eng.n = clip.n => eng.index \in clip.served

Flags == {channel, offered, late, missed} \subseteq BOOLEAN

-----------------------------------------------------------------------------
(* Sequences *)

LEMMA RemoveAtElements ==
  ASSUME NEW S, NEW s \in Seq(S), NEW i \in DOMAIN s
  PROVE  /\ RemoveAt(s, i) \in Seq(S)
         /\ Len(RemoveAt(s, i)) = Len(s) - 1
         /\ \A j \in 1..(Len(s) - 1) : RemoveAt(s, i)[j] = IF j < i THEN s[j] ELSE s[j + 1]
<1> DEFINE a == SubSeq(s, 1, i-1)
           b == SubSeq(s, i+1, Len(s))
<1>1. i \in 1..Len(s) /\ Len(s) \in Nat /\ \A j \in 1..Len(s) : s[j] \in S
  OBVIOUS
<1>2. a \in Seq(S) /\ Len(a) = i - 1 /\ \A j \in 1..(i-1) : a[j] = s[j]
  BY <1>1, SubSeqProperties
<1>3. b \in Seq(S) /\ Len(b) = Len(s) - i /\ \A j \in 1..(Len(s) - i) : b[j] = s[i + j]
  BY <1>1, SubSeqProperties
<1>4. RemoveAt(s, i) = a \o b
  BY DEF RemoveAt
<1> HIDE DEF a, b
<1>5. /\ a \o b \in Seq(S) /\ Len(a \o b) = Len(a) + Len(b)
      /\ \A j \in 1..(Len(a) + Len(b)) :
           (a \o b)[j] = IF j <= Len(a) THEN a[j] ELSE b[j - Len(a)]
  BY <1>2, <1>3, ConcatProperties
<1>6. Len(a) + Len(b) = Len(s) - 1
  BY <1>1, <1>2, <1>3
<1>7. ASSUME NEW j \in 1..(Len(s) - 1)
      PROVE  (a \o b)[j] = IF j < i THEN s[j] ELSE s[j + 1]
  <2>1. CASE j < i
    <3>1. j \in 1..(i - 1) /\ j <= Len(a)
      BY <1>1, <1>2, <2>1
    <3> QED BY <1>2, <1>5, <1>6, <2>1, <3>1
  <2>2. CASE ~(j < i)
    <3>1. ~(j <= Len(a)) /\ j - Len(a) \in 1..(Len(s) - i) /\ i + (j - Len(a)) = j + 1
      BY <1>1, <1>2, <2>2
    <3> QED BY <1>3, <1>5, <1>6, <2>2, <3>1
  <2> QED BY <2>1, <2>2
<1> QED BY <1>4, <1>5, <1>6, <1>7

LEMMA Emitted ==
  ASSUME statuses \in Seq(Statuses), NEW status \in Statuses, Emit(status)
  PROVE  /\ statuses' \in Seq(Statuses) /\ Len(statuses') = Len(statuses) + 1
         /\ statuses'[Len(statuses')] = status
         /\ \A i \in DOMAIN statuses : i \in DOMAIN statuses' /\ statuses'[i] = statuses[i]
         /\ \A i \in DOMAIN statuses' : i \in DOMAIN statuses \/ i = Len(statuses')
  BY AppendProperties DEF Emit

-----------------------------------------------------------------------------
(* The goroutines *)

LEMMA LifeStep ==
  ASSUME LifeOK, EngineTypes, statuses \in Seq(Statuses), Next
  PROVE  LifeOK'
<1> USE DEF LifeOK
<1>1. CASE ConnectRDP \/ Dial \/ LoginFails \/ EmitLoginError \/ LoginReturns \/ EmitConnected
  BY <1>1 DEF ConnectRDP, Dial, LoginFails, EmitLoginError, LoginReturns, EmitConnected,
              clipbd, cleanupRDP, At, Status, shown
<1>2. CASE OnReady \/ EmitReady \/ OnError \/ EmitError \/ OnClose \/ CleanupEnds
  BY <1>2 DEF OnReady, EmitReady, OnError, EmitError, OnClose, CleanupEnds, EngineTypes,
              life, shown, clipbd, cleanupRDP, At, Status, Engine
<1>3. CASE Return \/ connectRDP \/ closeRDP \/ InputFails
  BY <1>3 DEF Return, connectRDP, closeRDP, InputFails, Listed, life, clipbd, cleanupRDP, Status
<1>4. ASSUME NEW i \in DOMAIN statuses, Deliver(i)
      PROVE  LifeOK'
  <2>1. tab' \in Status \cup {"none", "dropped"} /\ (tab = "none" => tab' = "none")
    <3>1. statuses[i] \in Statuses
      OBVIOUS
    <3>2. CASE Listed
      BY <1>4, <3>1, <3>2 DEF Deliver, StatusArrives, After, Listed, Statuses
    <3>3. CASE ~Listed
      BY <1>4, <3>3 DEF Deliver, StatusArrives
    <3> QED BY <3>2, <3>3
  <2> QED BY <1>4, <2>1 DEF Deliver, life
<1>5. CASE \/ RDPStageClipboardText \/ RefreshClipboard \/ MonitorReady \/ RefreshServed
           \/ FileServed \/ \E i \in Files : Serve(i)
           \/ \E size \in 1..MaxFiles : \E dirs \in SUBSET (1..size) :
                RDPStageClipboardFiles(size, dirs)
  BY <1>5, ZenonT(60) DEF RDPStageClipboardText, RefreshClipboard, MonitorReady, RefreshServed, FileServed,
              Clear, Serve, RDPStageClipboardFiles, Stage, life, shown, At, EngineTypes, Engine
<1> QED BY <1>1, <1>2, <1>3, <1>4, <1>5 DEF Next

LEMMA ConnStep ==
  ASSUME LifeOK, ConnOK, EngineTypes, Next
  PROVE  ConnOK'
<1> USE DEF LifeOK, ConnOK
<1>1. CASE ConnectRDP \/ Dial \/ LoginFails \/ EmitLoginError \/ LoginReturns \/ EmitConnected
  BY <1>1 DEF ConnectRDP, Dial, LoginFails, EmitLoginError, LoginReturns, EmitConnected,
              clipbd, cleanupRDP, shown
<1>2. CASE OnReady \/ EmitReady \/ OnError \/ EmitError \/ OnClose \/ CleanupEnds
  BY <1>2 DEF OnReady, EmitReady, OnError, EmitError, OnClose, CleanupEnds,
              life, shown, clipbd, cleanupRDP
<1>3. CASE Return \/ connectRDP \/ closeRDP \/ InputFails \/ \E i \in DOMAIN statuses : Deliver(i)
  BY <1>3 DEF Return, connectRDP, closeRDP, InputFails, Deliver, life, clipbd, cleanupRDP
<1>4. CASE \/ RDPStageClipboardText \/ RefreshClipboard \/ MonitorReady \/ RefreshServed
           \/ FileServed \/ \E i \in Files : Serve(i)
           \/ \E size \in 1..MaxFiles : \E dirs \in SUBSET (1..size) :
                RDPStageClipboardFiles(size, dirs)
  BY <1>4 DEF RDPStageClipboardText, RefreshClipboard, MonitorReady, RefreshServed, FileServed,
              Serve, RDPStageClipboardFiles, Stage, life
<1> QED BY <1>1, <1>2, <1>3, <1>4 DEF Next

LEMMA EngineStep ==
  ASSUME EngineTypes, ClipOK, Next
  PROVE  EngineTypes'
<1>1. 0 \in 0..MaxFiles /\ 0 \in 0..MaxStagings /\ MaxReady \in Nat
  BY RdpAssumption
<1>2. eng' \in Engine
  <2>1. \A pc \in {"none", "idle", "emit", "error", "close", "served", "refresh", "ended"} :
          At(pc) \in Engine
    BY <1>1 DEF At, Engine
  <2>2. ASSUME NEW i \in Files, Serve(i)
        PROVE  eng' \in Engine
    BY <2>2, RdpAssumption DEF Serve, Engine, ClipOK, Clip, Files
  <2>3. CASE FileServed
    BY <2>1, <2>3 DEF FileServed, Clear
  <2>4. CASE UNCHANGED eng
    BY <2>4 DEF EngineTypes
  <2> QED BY <2>1, <2>2, <2>3, <2>4 DEF Next, ConnectRDP, Dial, LoginFails, EmitLoginError,
        LoginReturns, EmitConnected, OnReady, EmitReady, OnError, EmitError, OnClose,
        CleanupEnds, Return, connectRDP, closeRDP, InputFails, Deliver, RDPStageClipboardText,
        RDPStageClipboardFiles, Stage, RefreshClipboard, MonitorReady, RefreshServed
<1>3. ready' \in 0..MaxReady
  <2>1. CASE OnReady
    BY <1>1, <2>1 DEF OnReady, EngineTypes
  <2>2. CASE UNCHANGED ready
    BY <2>2 DEF EngineTypes
  <2> QED BY <2>1, <2>2 DEF Next, ConnectRDP, Dial, LoginFails, EmitLoginError,
        LoginReturns, EmitConnected, EmitReady, OnError, EmitError, OnClose,
        CleanupEnds, Return, connectRDP, closeRDP, InputFails, Deliver, RDPStageClipboardText,
        RDPStageClipboardFiles, Stage, RefreshClipboard, MonitorReady, RefreshServed, FileServed,
        Serve, life
<1> QED BY <1>2, <1>3 DEF EngineTypes

LEMMA ClosedStep ==
  ASSUME LifeOK, ClosedOK, Next
  PROVE  ClosedOK'
<1>1. ASSUME UNCHANGED statuses, (rec' # "gone" \/ closing' = "emit") => rec # "gone" \/ closing = "emit"
      PROVE  ClosedOK'
  BY <1>1 DEF ClosedOK
<1>2. ASSUME NEW status \in Status, Emit(status),
             (rec' # "gone" \/ closing' = "emit") => rec # "gone" \/ closing = "emit"
      PROVE  ClosedOK'
  <2>1. status # "closed" /\ status \in Statuses
    BY DEF Status, Statuses
  <2> QED BY <1>2, <2>1, Emitted DEF ClosedOK
<1>3. CASE CleanupEnds
  <2>1. CASE closing = "emit"
    <3>1. Emit("closed") /\ "closed" \in Statuses /\ rec' = "gone" /\ closing' = "none"
      BY <1>3, <2>1 DEF CleanupEnds, LifeOK, Statuses
    <3>2. \A i \in DOMAIN statuses : statuses[i] # "closed"
      BY <2>1 DEF ClosedOK
    <3> QED BY <3>1, <3>2, Emitted DEF ClosedOK
  <2>2. CASE closing # "emit"
    BY <1>1, <1>3, <2>2 DEF CleanupEnds, LifeOK
  <2> QED BY <2>1, <2>2
<1>4. ASSUME NEW i \in DOMAIN statuses, Deliver(i)
      PROVE  ClosedOK'
  <2>1. /\ statuses' \in Seq(Statuses) /\ Len(statuses') = Len(statuses) - 1
        /\ \A j \in 1..(Len(statuses) - 1) :
             statuses'[j] = IF j < i THEN statuses[j] ELSE statuses[j + 1]
    BY <1>4, RemoveAtElements DEF Deliver, ClosedOK
  <2>2. Len(statuses) \in Nat /\ DOMAIN statuses = 1..Len(statuses)
        /\ DOMAIN statuses' = 1..(Len(statuses) - 1) /\ i \in 1..Len(statuses)
    BY <2>1 DEF ClosedOK
  <2>3. rec' = rec /\ closing' = closing
    BY <1>4 DEF Deliver, life
  <2>4. ASSUME NEW j \in DOMAIN statuses'
        PROVE  \E k \in DOMAIN statuses :
                 statuses'[j] = statuses[k] /\ k = IF j < i THEN j ELSE j + 1
    BY <2>1, <2>2
  <2>5. ASSUME NEW j \in DOMAIN statuses', NEW k \in DOMAIN statuses',
               statuses'[j] = "closed", statuses'[k] = "closed"
        PROVE  j = k
    <3>1. (IF j < i THEN j ELSE j + 1) = (IF k < i THEN k ELSE k + 1)
      BY <2>4, <2>5 DEF ClosedOK
    <3> QED BY <2>2, <3>1
  <2>6. (rec' # "gone" \/ closing' = "emit") => \A j \in DOMAIN statuses' : statuses'[j] # "closed"
    BY <2>3, <2>4 DEF ClosedOK
  <2> QED BY <2>1, <2>5, <2>6 DEF ClosedOK
<1>5. CASE ConnectRDP \/ EmitLoginError \/ EmitConnected \/ EmitReady \/ EmitError
  <2>1. /\ \/ Emit("connecting") \/ Emit("error") \/ Emit(st)
        /\ (rec' # "gone" \/ closing' = "emit") => rec # "gone" \/ closing = "emit"
    BY <1>5 DEF ConnectRDP, EmitLoginError, EmitConnected, EmitReady, EmitError, life
  <2>2. CASE ConnectRDP
    BY <1>2, <2>1, <2>2 DEF ConnectRDP, Status
  <2>3. CASE EmitLoginError
    BY <1>2, <2>1, <2>3 DEF EmitLoginError, Status
  <2>4. CASE EmitConnected \/ EmitReady \/ EmitError
    <3>1. Emit(st) /\ st \in Status
      BY <2>4 DEF EmitConnected, EmitReady, EmitError, LifeOK
    <3> QED BY <1>2, <2>1, <3>1
  <2> QED BY <1>5, <2>2, <2>3, <2>4
<1>6. CASE LoginFails \/ OnClose \/ closeRDP
  BY <1>1, <1>6 DEF LoginFails, OnClose, closeRDP, cleanupRDP, LifeOK, shown
<1> QED BY <1>1, <1>3, <1>4, <1>5, <1>6 DEF Next, Dial, LoginReturns, OnReady, OnError, Return,
      connectRDP, InputFails, RDPStageClipboardText, RDPStageClipboardFiles, Stage,
      RefreshClipboard, MonitorReady, RefreshServed, FileServed, Serve, life, shown

-----------------------------------------------------------------------------
(* The clipboard *)

LEMMA StageOK ==
  ASSUME ClipOK, EngineTypes, Flags, NEW new, Stage(new), new \in Clip, new.n = stagings + 1,
         new.done \subseteq 1..new.size, new.done \subseteq new.served
  PROVE  ClipOK' /\ Flags' /\ OffersWhatIsStaged'
<1>1. /\ stagings' = stagings + 1 /\ refresh' = refresh + 1 /\ clip' = new
      /\ UNCHANGED <<eng, channel, offered, late, missed>> /\ stagings < MaxStagings
      /\ stagings \in Nat /\ refresh \in Nat /\ MaxStagings \in Nat
  BY RdpAssumption DEF Stage, life, shown, ClipOK
<1>2. eng.n \in Nat /\ eng.n <= stagings
  BY <1>1 DEF EngineTypes, Engine, ClipOK
<1>3. stagings' \in 0..MaxStagings /\ refresh' \in 0..stagings' /\ eng'.n <= stagings'
      /\ eng'.n # clip'.n /\ refresh' # 0
  BY <1>1, <1>2 DEF ClipOK
<1>4. ClipOK'
  BY <1>1, <1>3 DEF ClipOK
<1> QED BY <1>1, <1>3, <1>4 DEF Flags, OffersWhatIsStaged

LEMMA ClipStep ==
  ASSUME ClipOK, EngineTypes, LifeOK, Flags, OffersWhatIsStaged, Next
  PROVE  ClipOK' /\ Flags' /\ OffersWhatIsStaged'
<1>1. /\ stagings \in Nat /\ refresh \in Nat /\ MaxStagings \in Nat /\ MaxFiles \in Nat
      /\ eng \in Engine /\ clip \in Clip
      /\ clip.n \in 0..MaxStagings /\ clip.size \in 0..MaxFiles
      /\ clip.done \subseteq Files /\ clip.served \subseteq Files /\ clip.stale \subseteq Files
      /\ eng.index \in 0..MaxFiles /\ eng.n \in 0..MaxStagings
  BY RdpAssumption DEF ClipOK, EngineTypes, Clip, Engine
<1>2. \A pc : At(pc).pc = pc /\ At(pc).n = 0
  BY DEF At
<1>3. ASSUME UNCHANGED clipbd, eng'.n <= stagings,
             eng'.pc = "served" => UNCHANGED eng, eng'.pc # "refresh", eng.pc # "refresh",
             late' \in BOOLEAN, missed' \in BOOLEAN
      PROVE  ClipOK' /\ Flags' /\ OffersWhatIsStaged'
  BY <1>3 DEF ClipOK, Flags, OffersWhatIsStaged, clipbd
<1>4. ASSUME UNCHANGED clipbd, UNCHANGED eng, late' \in BOOLEAN, missed' \in BOOLEAN
      PROVE  ClipOK' /\ Flags' /\ OffersWhatIsStaged'
  BY <1>4 DEF ClipOK, Flags, OffersWhatIsStaged, clipbd
<1>5. CASE Dial \/ OnReady \/ EmitReady \/ OnError \/ EmitError \/ OnClose
  <2>1. UNCHANGED clipbd /\ eng'.n = 0 /\ late' = late /\ missed' = missed
        /\ eng'.pc \notin {"served", "refresh"}
    BY <1>2, <1>5 DEF Dial, OnReady, EmitReady, OnError, EmitError, OnClose, life, shown
  <2>2. eng.pc # "refresh"
    BY <1>5 DEF Dial, OnReady, EmitReady, OnError, EmitError, OnClose, LifeOK
  <2> QED BY <1>1, <1>3, <2>1, <2>2 DEF Flags
<1>6. CASE \/ ConnectRDP \/ LoginFails \/ EmitLoginError \/ LoginReturns \/ EmitConnected
           \/ CleanupEnds \/ Return \/ connectRDP \/ closeRDP \/ InputFails
           \/ \E i \in DOMAIN statuses : Deliver(i)
  <2>1. UNCHANGED clipbd /\ UNCHANGED eng /\ late' \in BOOLEAN /\ missed' \in BOOLEAN
    BY <1>6 DEF ConnectRDP, LoginFails, EmitLoginError, LoginReturns, EmitConnected,
                CleanupEnds, Return, connectRDP, closeRDP, InputFails, Deliver, life, shown, Flags
  <2> QED BY <1>4, <2>1
<1>7. CASE RDPStageClipboardText
  <2> DEFINE new == [Nothing EXCEPT !.n = stagings + 1]
  <2>1. stagings < MaxStagings /\ Stage(new)
    BY <1>7 DEF RDPStageClipboardText, Stage
  <2>2. new \in Clip /\ new.n = stagings + 1 /\ new.done = {}
    BY <1>1, <2>1 DEF Nothing, Clip
  <2> HIDE DEF new
  <2> QED BY <2>1, <2>2, StageOK
<1>8. ASSUME NEW size \in 1..MaxFiles, NEW dirs \in SUBSET (1..size),
             RDPStageClipboardFiles(size, dirs)
      PROVE  ClipOK' /\ Flags' /\ OffersWhatIsStaged'
  <2> DEFINE new == [Nothing EXCEPT !.n = stagings + 1, !.size = size, !.done = dirs,
                                    !.served = dirs]
  <2>1. stagings < MaxStagings /\ Stage(new)
    BY <1>8 DEF RDPStageClipboardFiles, Stage
  <2>2. size \in 0..MaxFiles /\ dirs \subseteq Files /\ stagings + 1 \in 0..MaxStagings
    BY <1>1, <2>1 DEF Files
  <2>3. /\ new \in Clip /\ new.n = stagings + 1 /\ new.size = size
        /\ new.done = dirs /\ new.served = dirs
    BY <2>2 DEF Nothing, Clip
  <2> HIDE DEF new
  <2> QED BY <2>1, <2>3, StageOK
<1>9. CASE RefreshClipboard \/ RefreshServed
  <2>1. UNCHANGED <<clip, stagings, channel, late, missed>>
        /\ offered' = (IF channel THEN clip.size > 0 ELSE offered)
    BY <1>9 DEF RefreshClipboard, RefreshServed, Announce, life, shown
  <2>2. refresh' \in 0..stagings
    BY <1>1, <1>9 DEF RefreshClipboard, RefreshServed, ClipOK
  <2>3. eng'.n <= stagings /\ (eng'.pc = "served" => UNCHANGED eng)
    <3>1. CASE UNCHANGED eng
      BY <3>1 DEF ClipOK
    <3>2. CASE eng' = At("idle")
      BY <1>1, <1>2, <3>2
    <3> QED BY <1>9, <3>1, <3>2 DEF RefreshClipboard, RefreshServed
  <2>4. ClipOK'
    BY <1>1, <2>1, <2>2, <2>3 DEF ClipOK
  <2>5. offered' \in BOOLEAN
    <3>1. (clip.size > 0) \in BOOLEAN /\ offered \in BOOLEAN
      BY DEF Flags
    <3>2. offered' = (clip.size > 0) \/ offered' = offered
      BY <2>1
    <3> QED BY <3>1, <3>2
  <2> QED BY <2>1, <2>4, <2>5 DEF Flags, OffersWhatIsStaged
<1>10. CASE MonitorReady
  BY <1>10 DEF MonitorReady, ClipOK, Flags, OffersWhatIsStaged, life, shown
<1>11. ASSUME NEW i \in Files, Serve(i)
       PROVE  ClipOK' /\ Flags' /\ OffersWhatIsStaged'
  <2>1. /\ UNCHANGED <<stagings, refresh, channel, offered, late, missed>>
        /\ clip' = [clip EXCEPT !.served = @ \cup {i}]
        /\ eng' = [pc |-> "served", index |-> i, n |-> clip.n] /\ eng.pc = "idle"
    BY <1>11 DEF Serve, life, shown
  <2>2. /\ clip' \in Clip /\ clip'.n = clip.n /\ clip'.size = clip.size
        /\ clip'.done = clip.done /\ clip'.stale = clip.stale
        /\ clip'.served = clip.served \cup {i}
    BY <1>1, <2>1 DEF Clip
  <2>3. eng'.pc = "served" /\ eng'.index = i /\ eng'.n = clip.n
    BY <2>1
  <2> QED BY <1>1, <2>1, <2>2, <2>3 DEF ClipOK, Flags, OffersWhatIsStaged
<1>12. CASE FileServed
  <2> DEFINE marked == [clip EXCEPT !.done = @ \cup {eng.index},
                          !.stale = IF eng.n = clip.n THEN @ ELSE @ \cup {eng.index}]
  <2>1. UNCHANGED <<stagings, refresh, channel, offered, late, missed>> /\ eng.pc = "served"
    BY <1>12 DEF FileServed, life, shown
  <2>2. CASE ~(eng.index <= clip.size)
    BY <1>2, <1>12, <2>1, <2>2 DEF FileServed, ClipOK, Flags, OffersWhatIsStaged
  <2>3. CASE eng.index <= clip.size
    <3>1. /\ eng.index \in Files /\ eng.index \in 1..clip.size
          /\ eng.n = clip.n => eng.index \in clip.served
      BY <1>1, <2>1, <2>3 DEF ClipOK, Files
    <3>2. /\ marked \in Clip /\ marked.n = clip.n /\ marked.size = clip.size
          /\ marked.done = clip.done \cup {eng.index} /\ marked.served = clip.served
          /\ marked.stale = IF eng.n = clip.n THEN clip.stale ELSE clip.stale \cup {eng.index}
      BY <1>1, <3>1 DEF Clip, Files
    <3>3. Clear(marked)
      BY <1>12, <2>3 DEF FileServed
    <3> HIDE DEF marked
    <3>4. marked.done \subseteq 1..marked.size /\ marked.done \subseteq marked.served \cup marked.stale
      BY <3>1, <3>2 DEF ClipOK
    <3>5. CASE clip' = marked /\ eng' = At("idle")
      BY <1>2, <2>1, <3>2, <3>4, <3>5 DEF ClipOK, Flags, OffersWhatIsStaged
    <3>6. CASE clip' = Nothing /\ eng' = At("refresh")
      <4>1. Nothing \in Clip /\ Nothing.n = stagings /\ Nothing.done = {}
        BY <1>1 DEF Nothing, Clip, ClipOK
      <4> QED BY <1>1, <1>2, <2>1, <3>6, <4>1 DEF ClipOK, Flags, OffersWhatIsStaged
    <3> QED BY <3>3, <3>5, <3>6 DEF Clear
  <2> QED BY <2>2, <2>3
<1> QED BY <1>5, <1>6, <1>7, <1>8, <1>9, <1>10, <1>11, <1>12 DEF Next

-----------------------------------------------------------------------------
(* What is shown *)

\* What the tab is going to show, once all statuses have arrived in order.
Ends(status) ==
  IF statuses = <<>> THEN tab = status ELSE statuses[Len(statuses)] = status

ToldClosed == \E i \in DOMAIN statuses : statuses[i] = "closed"

Reads == {"idle", "emit", "served", "refresh"}

\* As long as no status is late, a session that lives has "connected" to show last, and
\* one that has ended is, or will be, dropped, or has the error of Login to show last.
ShownOK ==
  /\ login \in {"connect", "emit"} => eng.pc # "none"
  /\ login = "failed" => rec = "gone"
  /\ (login = "done" /\ eng.pc = "none") => rec = "gone"
  /\ eng.pc = "ended" => rec = "gone"
  /\ rec = "open" => tab # "dropped"
  /\ (rec = "open" /\ login \in {"emit", "done"} /\ eng.pc \in Reads) => st = "connected"
  /\ (rec = "open" /\ ~late /\ login = "done" /\ eng.pc \in Reads \ {"emit"}) => Ends("connected")
  /\ (rec = "gone" /\ ~late) =>
       \/ closing = "emit" \/ ToldClosed \/ tab = "dropped"
       \/ login = "failed" /\ (closing = "quiet" \/ conn # "open")
       \/ login = "done" /\ conn # "open" /\ st = "error" /\ Ends("error")

LEMMA EndsEmitted ==
  ASSUME ClosedOK, NEW status \in Statuses, Emit(status)
  PROVE  /\ Ends(status)'
         /\ ToldClosed => ToldClosed'
         /\ status = "closed" => ToldClosed'
<1>1. /\ statuses \in Seq(Statuses) /\ statuses' \in Seq(Statuses)
      /\ Len(statuses') = Len(statuses) + 1 /\ statuses'[Len(statuses')] = status
      /\ \A i \in DOMAIN statuses : i \in DOMAIN statuses' /\ statuses'[i] = statuses[i]
  BY Emitted DEF ClosedOK
<1>2. statuses' # <<>> /\ Len(statuses') \in DOMAIN statuses'
  BY <1>1
<1> QED BY <1>1, <1>2 DEF Ends, ToldClosed

LEMMA EndsDelivered ==
  ASSUME ClosedOK, NEW i \in DOMAIN statuses, Deliver(i), ~late'
  PROVE  /\ ~late
         /\ \A status \in {"connected", "error"} :
              Ends(status) => Ends(status)' \/ (tab = "dropped" /\ tab' = "dropped")
         /\ ToldClosed => ToldClosed' \/ tab' = "dropped"
         /\ tab = "dropped" => tab' = "dropped"
         /\ tab' = "dropped" => tab = "dropped" \/ ToldClosed
<1>1. /\ ~late /\ i = 1 /\ ~(tab = "none" /\ statuses[1] # "connecting")
      /\ statuses' = RemoveAt(statuses, 1) /\ StatusArrives(statuses[1])
      /\ statuses \in Seq(Statuses)
  BY DEF Deliver, ClosedOK
<1>2. /\ statuses' \in Seq(Statuses) /\ Len(statuses') = Len(statuses) - 1
      /\ \A j \in 1..(Len(statuses) - 1) : statuses'[j] = statuses[j + 1]
  <2>1. /\ RemoveAt(statuses, 1) \in Seq(Statuses)
        /\ Len(RemoveAt(statuses, 1)) = Len(statuses) - 1
        /\ \A j \in 1..(Len(statuses) - 1) :
             RemoveAt(statuses, 1)[j] = IF j < 1 THEN statuses[j] ELSE statuses[j + 1]
    BY <1>1, RemoveAtElements
  <2> QED BY <1>1, <2>1
<1>3. /\ Len(statuses) \in Nat /\ 1 \in 1..Len(statuses) /\ statuses # <<>>
      /\ DOMAIN statuses = 1..Len(statuses) /\ DOMAIN statuses' = 1..(Len(statuses) - 1)
  BY <1>1, <1>2
<1>4. ASSUME NEW status \in {"connected", "error"}, Ends(status)
      PROVE  Ends(status)' \/ (tab = "dropped" /\ tab' = "dropped")
  <2>1. statuses[Len(statuses)] = status
    BY <1>3, <1>4 DEF Ends
  <2>2. CASE Len(statuses) = 1
    <3>1. statuses' = <<>>
      BY <1>2, <2>2, EmptySeq
    <3>2. statuses[1] = status /\ tab # "none"
      BY <1>1, <2>1, <2>2
    <3> QED BY <1>1, <1>4, <3>1, <3>2 DEF StatusArrives, After, Listed, Ends
  <2>3. CASE Len(statuses) # 1
    <3>1. /\ Len(statuses') = Len(statuses) - 1 /\ Len(statuses') \in 1..(Len(statuses) - 1)
          /\ Len(statuses') + 1 = Len(statuses)
      BY <1>2, <1>3, <2>3
    <3>2. statuses'[Len(statuses')] = status
      BY <1>2, <2>1, <3>1
    <3>3. statuses' # <<>>
      BY <1>3, <3>1
    <3> QED BY <3>2, <3>3 DEF Ends
  <2> QED BY <2>2, <2>3
<1>5. ASSUME ToldClosed
      PROVE  ToldClosed' \/ tab' = "dropped"
  <2>1. PICK k \in 1..Len(statuses) : statuses[k] = "closed"
    BY <1>3, <1>5 DEF ToldClosed
  <2>2. CASE k = 1
    BY <1>1, <2>1, <2>2 DEF StatusArrives, After, Listed
  <2>3. CASE k # 1
    <3>1. k - 1 \in 1..(Len(statuses) - 1) /\ (k - 1) + 1 = k
      BY <1>3, <2>3
    <3>2. statuses'[k - 1] = "closed"
      BY <1>2, <2>1, <3>1
    <3> QED BY <1>3, <3>1, <3>2 DEF ToldClosed
  <2> QED BY <2>2, <2>3
<1>6. tab = "dropped" => tab' = "dropped"
  BY <1>1 DEF StatusArrives, Listed
<1>7. ASSUME tab' = "dropped", tab # "dropped"
      PROVE  ToldClosed
  <2>1. statuses[1] \in Statuses /\ "dropped" \notin Statuses
    BY <1>1, <1>3 DEF Statuses, Status
  <2> QED BY <1>1, <1>3, <1>7, <2>1 DEF StatusArrives, After, Listed, ToldClosed
<1> QED BY <1>1, <1>4, <1>5, <1>6, <1>7

LEMMA ShownStep ==
  ASSUME LifeOK, ClosedOK, ShownOK, Next
  PROVE  ShownOK'
<1>1. \A status \in {"connected", "error"} :
        UNCHANGED <<statuses, tab>> => (Ends(status)' <=> Ends(status))
  BY DEF Ends
<1>2. UNCHANGED statuses => (ToldClosed' <=> ToldClosed)
  BY DEF ToldClosed
<1>3. \A pc : At(pc).pc = pc
  BY DEF At
<1>4. rec = "open" => ~ToldClosed
  BY DEF ClosedOK, ToldClosed
<1>5. CASE ConnectRDP
  BY <1>5 DEF ConnectRDP, ShownOK, LifeOK
<1>6. CASE Dial \/ LoginFails \/ LoginReturns \/ OnReady \/ OnError \/ OnClose
  BY <1>1, <1>2, <1>3, <1>6 DEF Dial, LoginFails, LoginReturns, OnReady, OnError, OnClose,
     ShownOK, LifeOK, cleanupRDP, life, shown, Reads
<1>7. ASSUME EmitLoginError \/ EmitConnected \/ EmitReady \/ EmitError
      PROVE  ShownOK'
  <2>1. CASE EmitLoginError
    <3>1. Ends("error")' /\ (ToldClosed => ToldClosed')
      BY <2>1, EndsEmitted DEF EmitLoginError, Statuses, Status
    <3> QED BY <2>1, <3>1 DEF EmitLoginError, ShownOK, LifeOK
  <2>2. CASE EmitConnected
    <3>1. PICK status \in Statuses : status = st /\ Emit(status)
      BY <2>2 DEF EmitConnected, LifeOK, Statuses
    <3>2. Ends(status)' /\ (ToldClosed => ToldClosed')
      BY <3>1, EndsEmitted
    <3> QED BY <2>2, <3>1, <3>2 DEF EmitConnected, ShownOK, LifeOK, Reads, Ends
  <2>3. CASE EmitReady \/ EmitError
    <3>1. PICK status \in Statuses : status = st /\ Emit(status)
      BY <2>3 DEF EmitReady, EmitError, LifeOK, Statuses
    <3>2. Ends(status)' /\ (ToldClosed => ToldClosed')
      BY <3>1, EndsEmitted
    <3> QED BY <1>3, <2>3, <3>1, <3>2 DEF EmitReady, EmitError, ShownOK, LifeOK, Reads, life, Ends
  <2> QED BY <1>7, <2>1, <2>2, <2>3
<1>8. CASE CleanupEnds
  <2>1. CASE closing = "emit"
    <3>1. ToldClosed'
      BY <1>8, <2>1, EndsEmitted DEF CleanupEnds, Statuses
    <3> QED BY <1>8, <2>1, <3>1 DEF CleanupEnds, ShownOK, LifeOK
  <2>2. CASE closing # "emit"
    <3>1. /\ UNCHANGED <<statuses, tab, st, eng, rec, login, late>> /\ rec = "gone"
          /\ conn' # "open" \/ conn' = conn
          /\ conn = "open" => conn' = "closed"
      BY <1>8, <2>2 DEF CleanupEnds, LifeOK
    <3> QED BY <1>1, <1>2, <2>2, <3>1 DEF ShownOK, LifeOK
  <2> QED BY <2>1, <2>2
<1>9. CASE Return
  BY <1>1, <1>2, <1>9 DEF Return, ShownOK, life
<1>10. CASE connectRDP
  <2>1. UNCHANGED <<statuses, late, rec, login, st, conn, closing, eng>> /\ tab = "none"
        /\ tab' # "dropped"
    BY <1>10 DEF connectRDP, life, LifeOK, Status
  <2>2. \A status \in {"connected", "error"} : Ends(status) => Ends(status)'
    BY <2>1 DEF Ends
  <2> QED BY <1>2, <2>1, <2>2 DEF ShownOK
<1>11. CASE closeRDP \/ InputFails
  <2>1. rec' = "gone" /\ tab' = "dropped"
        /\ UNCHANGED <<statuses, late, login, st, conn, eng>>
    BY <1>11 DEF closeRDP, InputFails, cleanupRDP, life
  <2> QED BY <2>1 DEF ShownOK
<1>12. ASSUME NEW i \in DOMAIN statuses, Deliver(i)
       PROVE  ShownOK'
  <2>1. UNCHANGED <<rec, login, st, conn, closing, eng>>
    BY <1>12 DEF Deliver, life
  <2>2. rec = "open" => tab' # "dropped"
    <3>1. statuses[i] \in Statuses /\ "dropped" \notin Statuses
      BY DEF ClosedOK, Statuses, Status
    <3> QED BY <1>4, <1>12, <3>1 DEF ShownOK, Deliver, StatusArrives, After, Listed, ToldClosed
  <2>3. CASE late'
    BY <2>1, <2>2, <2>3 DEF ShownOK
  <2>4. CASE ~late'
    <3>1. /\ ~late
          /\ \A status \in {"connected", "error"} :
               Ends(status) => Ends(status)' \/ (tab = "dropped" /\ tab' = "dropped")
          /\ ToldClosed => ToldClosed' \/ tab' = "dropped"
          /\ tab = "dropped" => tab' = "dropped"
      BY <1>12, <2>4, EndsDelivered
    <3> QED BY <2>1, <2>2, <3>1 DEF ShownOK
  <2> QED BY <2>3, <2>4
<1>13. ASSUME UNCHANGED life, UNCHANGED shown, UNCHANGED st,
              UNCHANGED eng \/ (eng.pc \in Reads \ {"emit"} /\ eng'.pc \in Reads \ {"emit"})
       PROVE  ShownOK'
  <2>1. UNCHANGED <<rec, login, conn, closing, statuses, tab, late>>
    BY <1>13 DEF life, shown
  <2>2. /\ eng.pc \in Reads \ {"emit"} => eng'.pc \in Reads \ {"emit"}
        /\ eng'.pc \in Reads => eng.pc \in Reads
        /\ eng'.pc \in Reads \ {"emit"} => eng.pc \in Reads \ {"emit"}
        /\ eng'.pc = "none" => eng.pc = "none"
        /\ eng'.pc = "ended" => eng.pc = "ended"
        /\ eng.pc # "none" => eng'.pc # "none"
    BY <1>13 DEF Reads
  <2> QED BY <1>1, <1>2, <1>13, <2>1, <2>2 DEF ShownOK
<1>14. CASE \/ RDPStageClipboardText \/ RefreshClipboard \/ MonitorReady \/ RefreshServed
            \/ FileServed \/ \E i \in Files : Serve(i)
            \/ \E size \in 1..MaxFiles : \E dirs \in SUBSET (1..size) :
                 RDPStageClipboardFiles(size, dirs)
  <2>1. UNCHANGED life /\ UNCHANGED shown /\ UNCHANGED st
    BY <1>14 DEF RDPStageClipboardText, RefreshClipboard, MonitorReady, RefreshServed,
       FileServed, Serve, RDPStageClipboardFiles, Stage
  <2>2. UNCHANGED eng \/ (eng.pc \in Reads \ {"emit"} /\ eng'.pc \in Reads \ {"emit"})
    <3>1. CASE RefreshServed \/ FileServed \/ \E i \in Files : Serve(i)
      <4>1. eng.pc \in {"idle", "served", "refresh"}
        BY <3>1 DEF RefreshServed, FileServed, Serve
      <4>2. eng'.pc \in {"idle", "served", "refresh"}
        BY <1>3, <3>1 DEF RefreshServed, FileServed, Clear, Serve
      <4> QED BY <4>1, <4>2 DEF Reads
    <3>2. CASE ~(RefreshServed \/ FileServed \/ \E i \in Files : Serve(i))
      BY <1>14, <3>2 DEF RDPStageClipboardText, RefreshClipboard, MonitorReady,
         RDPStageClipboardFiles, Stage
    <3> QED BY <3>1, <3>2
  <2> QED BY <1>13, <2>1, <2>2
<1> QED BY <1>5, <1>6, <1>7, <1>8, <1>9, <1>10, <1>11, <1>12, <1>14 DEF Next

-----------------------------------------------------------------------------
(* The invariant *)

IInv == /\ LifeOK /\ ConnOK /\ ClosedOK /\ EngineTypes /\ ClipOK /\ Flags
        /\ OffersWhatIsStaged /\ ShownOK

LEMMA InitOK == Init => IInv
<1> SUFFICES ASSUME Init PROVE IInv
  OBVIOUS
<1> USE DEF Init
<1>1. LifeOK /\ ConnOK /\ Flags /\ OffersWhatIsStaged
  BY DEF LifeOK, ConnOK, Flags, OffersWhatIsStaged, At
<1>2. ClosedOK
  BY DEF ClosedOK, Statuses
<1>3. EngineTypes /\ ClipOK
  BY RdpAssumption DEF EngineTypes, Engine, ClipOK, Clip, At, Files
<1>4. ShownOK
  BY DEF ShownOK, At, Reads
<1> QED BY <1>1, <1>2, <1>3, <1>4 DEF IInv

LEMMA StutterOK ==
  ASSUME IInv, UNCHANGED vars
  PROVE  IInv'
<1>1. UNCHANGED <<rec, login, ready, conn, closing, missed, resp, statuses, tab, late, clip,
                  stagings, refresh, channel, offered, st, eng>>
  BY DEF vars, life, shown, clipbd
<1>2. LifeOK' /\ ConnOK' /\ ClosedOK' /\ EngineTypes'
  BY <1>1 DEF IInv, LifeOK, ConnOK, ClosedOK, EngineTypes
<1>3. ClipOK' /\ Flags' /\ OffersWhatIsStaged'
  BY <1>1 DEF IInv, ClipOK, Flags, OffersWhatIsStaged
<1>4. ShownOK'
  BY <1>1 DEF IInv, ShownOK, Ends, ToldClosed
<1> QED BY <1>2, <1>3, <1>4 DEF IInv

LEMMA NextOK == IInv /\ [Next]_vars => IInv'
<1>1. ASSUME IInv, Next
      PROVE  IInv'
  <2>1. LifeOK' /\ ConnOK'
    BY <1>1, LifeStep, ConnStep DEF IInv, ClosedOK
  <2>2. ClosedOK' /\ EngineTypes'
    BY <1>1, ClosedStep, EngineStep DEF IInv
  <2>3. ClipOK' /\ Flags' /\ OffersWhatIsStaged'
    BY <1>1, ClipStep DEF IInv
  <2>4. ShownOK'
    BY <1>1, ShownStep DEF IInv
  <2> QED BY <2>1, <2>2, <2>3, <2>4 DEF IInv
<1> QED BY <1>1, StutterOK

LEMMA SessionInvariant == Spec => []IInv
  BY InitOK, NextOK, PTL DEF Spec

-----------------------------------------------------------------------------
(* Theorems *)

\* Everything is of its type, and cleanupRDP says "closed" at most once, whichever of the
\* three goroutines gets there first.
THEOREM SessionTypes == Spec => []TypeOK
<1>1. ASSUME IInv
      PROVE  Cardinality({i \in DOMAIN statuses : statuses[i] = "closed"}) <= 1
  <2> DEFINE told == {i \in DOMAIN statuses : statuses[i] = "closed"}
  <2>1. \A i, j \in told : i = j
    BY <1>1 DEF IInv, ClosedOK
  <2> HIDE DEF told
  <2>2. told = {} => Cardinality(told) = 0
    BY FS_EmptySet
  <2>3. ASSUME told # {}
        PROVE  Cardinality(told) = 1
    <3>1. PICK i : told = {i}
      BY <2>1, <2>3
    <3> QED BY <3>1, FS_Singleton
  <2>4. Cardinality(told) <= 1
    BY <2>2, <2>3
  <2> QED BY <2>4 DEF told
<1>2. IInv => TypeOK
  BY <1>1 DEF IInv, TypeOK, LifeOK, ClosedOK, EngineTypes, ClipOK, Flags, Statuses
<1> QED BY <1>2, SessionInvariant, PTL

\* Once what the goroutines of ConnectRDP and cleanupRDP have emitted has arrived, none of
\* it late, a session that lives is shown as connected, and one that has ended is dropped or
\* shows the error of Login.
THEOREM StatusTrue == Spec => []StatusIsTrue
<1>1. ASSUME IInv, Quiet, ~late
      PROVE  tab \in IF rec = "open" THEN {"connected"} ELSE {"error", "dropped"}
  <2>1. /\ tab # "none" /\ statuses = <<>> /\ closing = "none" /\ login = "done"
        /\ eng.pc \in {"none", "idle", "ended"} /\ ~ToldClosed
    BY <1>1 DEF Quiet, ToldClosed
  <2>2. rec \in {"open", "gone"}
    BY <1>1, <2>1 DEF IInv, LifeOK
  <2>3. CASE rec = "open"
    <3>1. Ends("connected")
      BY <1>1, <2>1, <2>3 DEF IInv, ShownOK, Reads
    <3> QED BY <2>1, <2>3, <3>1 DEF Ends
  <2>4. CASE rec = "gone"
    BY <1>1, <2>1, <2>4 DEF IInv, ShownOK, Ends
  <2> QED BY <2>2, <2>3, <2>4
<1>2. IInv => StatusIsTrue
  BY <1>1 DEF StatusIsTrue
<1> QED BY <1>2, SessionInvariant, PTL

\* cleanupRDP leaves no connection open, but one it could not know of.
THEOREM NothingOpen == Spec => []NothingLeftOpen
<1>1. IInv => NothingLeftOpen
  BY DEF IInv, ConnOK, NothingLeftOpen
<1> QED BY <1>1, SessionInvariant, PTL

\* Whoever refreshes last, the format list is of what is staged.
THEOREM OffersStaged == Spec => []OffersWhatIsStaged
<1>1. IInv => OffersWhatIsStaged
  BY DEF IInv
<1> QED BY <1>1, SessionInvariant, PTL

\* The callback that counts the files served takes a staging away only when all of it has
\* been fetched, but for files counted for the staging before.
THEOREM ClearedServed == Spec => ClearedWhenServed
<1>1. ASSUME IInv, Next, clip.n = clip'.n, clip.size > 0, clip'.size = 0
      PROVE  1..clip.size \subseteq clip.served \cup clip.stale \cup
               (IF eng.n = clip.n THEN {} ELSE {eng.index})
  <2>1. clip.size \in Nat /\ clip.n = stagings /\ stagings \in Nat
        /\ clip.done \subseteq 1..clip.size /\ clip \in Clip
    BY <1>1, RdpAssumption DEF IInv, ClipOK, Clip
  <2>2. FileServed
    <3>1. ~(\/ RDPStageClipboardText
            \/ \E size \in 1..MaxFiles : \E dirs \in SUBSET (1..size) :
                 RDPStageClipboardFiles(size, dirs))
      <4>1. ASSUME NEW new, Stage(new), new.n = stagings + 1
            PROVE  FALSE
        <5>1. clip' = new
          BY <4>1 DEF Stage
        <5>2. new.n = stagings
          BY <1>1, <2>1, <5>1
        <5>3. stagings + 1 # stagings
          BY <2>1
        <5> QED BY <4>1, <5>2, <5>3
      <4>2. /\ [Nothing EXCEPT !.n = stagings + 1].n = stagings + 1
            /\ \A size, dirs : [Nothing EXCEPT !.n = stagings + 1, !.size = size, !.done = dirs,
                                               !.served = dirs].n = stagings + 1
        BY DEF Nothing
      <4> QED BY <4>1, <4>2 DEF RDPStageClipboardText, RDPStageClipboardFiles
    <3>2. ASSUME NEW i \in Files, Serve(i)
          PROVE  FALSE
      <4>1. clip'.size = clip.size
        BY <2>1, <3>2 DEF Serve, Clip
      <4> QED BY <1>1, <2>1, <4>1
    <3>3. ~UNCHANGED clip
      BY <1>1, <2>1
    <3> QED BY <1>1, <3>1, <3>2, <3>3 DEF Next, ConnectRDP, Dial, LoginFails, EmitLoginError,
          LoginReturns, EmitConnected, OnReady, EmitReady, OnError, EmitError, OnClose,
          CleanupEnds, Return, connectRDP, closeRDP, InputFails, Deliver, RefreshClipboard,
          MonitorReady, RefreshServed, clipbd
  <2> DEFINE marked == [clip EXCEPT !.done = @ \cup {eng.index},
                          !.stale = IF eng.n = clip.n THEN @ ELSE @ \cup {eng.index}]
  <2>3. eng.index <= clip.size /\ Clear(marked)
    BY <1>1, <2>1, <2>2 DEF FileServed
  <2>4. marked.size = clip.size /\ marked.done = clip.done \cup {eng.index}
    BY <2>1 DEF Clip
  <2>5. eng.index \in 1..clip.size /\ (eng.n = clip.n => eng.index \in clip.served)
    BY <1>1, <2>1, <2>2, <2>3 DEF IInv, ClipOK, FileServed, Files
  <2> HIDE DEF marked
  <2>6. Cardinality(marked.done) >= clip.size
    BY <1>1, <2>1, <2>3, <2>4 DEF Clear
  <2>7. marked.done \in SUBSET (1..clip.size)
    BY <2>1, <2>4, <2>5
  <2>8. IsFiniteSet(1..clip.size) /\ Cardinality(1..clip.size) = clip.size
    <3>1. PICK n \in Int : n = clip.size /\ n > 0
      BY <1>1, <2>1
    <3>2. 1 \in Int /\ ~(1 > n) /\ n - 1 + 1 = n
      BY <3>1
    <3>3. IsFiniteSet(1..n)
      BY <3>1, <3>2, FS_Interval
    <3>4. Cardinality(1..n) = IF 1 > n THEN 0 ELSE n - 1 + 1
      BY <3>1, <3>2, FS_Interval
    <3> QED BY <3>1, <3>2, <3>3, <3>4
  <2>9. /\ IsFiniteSet(marked.done) /\ Cardinality(marked.done) <= clip.size
        /\ Cardinality(1..clip.size) = Cardinality(marked.done) => 1..clip.size = marked.done
    BY <2>7, <2>8, FS_Subset, ZenonT(60)
  <2>10. Cardinality(marked.done) \in Nat
    BY <2>9, FS_CardinalityType
  <2>11. 1..clip.size = clip.done \cup {eng.index}
    BY <2>1, <2>4, <2>6, <2>8, <2>9, <2>10
  <2> QED BY <1>1, <2>5, <2>11 DEF IInv, ClipOK
<1>2. IInv /\ [Next]_vars =>
        [clip.n = clip'.n /\ clip.size > 0 /\ clip'.size = 0
         => 1..clip.size \subseteq clip.served \cup clip.stale \cup
              (IF eng.n = clip.n THEN {} ELSE {eng.index})]_vars
  BY <1>1
<1> QED BY <1>2, SessionInvariant, PTL DEF ClearedWhenServed, Spec
=============================================================================
