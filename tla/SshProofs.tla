------------------------------ MODULE SshProofs ------------------------------
(***************************************************************************)
(* Proofs about the client's SSH sessions.                                 *)
(*                                                                         *)
(* The output of a session, SshSession: from the reader of a stream to the *)
(* channel, the pump's buffer, the payloads, the terminal's sequence       *)
(* buffer and the screen no chunk is repeated, overtaken or, until the     *)
(* terminal is cleared, left out.                                          *)
(*                                                                         *)
(* The host keys, KnownHosts: no key gets into known_hosts, or into what a *)
(* call reads of it, that the user has not confirmed, whatever keys the    *)
(* servers show and whatever the user's editor does to the file between    *)
(* the steps of the calls.                                                 *)
(***************************************************************************)
EXTENDS SshSession, KnownHosts, SequenceTheorems, FiniteSetTheorems, TLAPS

-----------------------------------------------------------------------------
(* Numbers *)

\* Of some subsets of a finite set one contains no other of them.
LEMMA SmallestSubset ==
  ASSUME NEW S, IsFiniteSet(S), NEW X \in SUBSET (SUBSET S), X # {}
  PROVE  \E T \in X : \A U \in X : U \subseteq T => U = T
<1>1. IsWellFoundedOn(StrictSubsetOrdering(S), SUBSET S)
  BY FS_StrictSubsetOrderingWellFounded, FS_FiniteSubsetsOfFinite
<1>2. PICK T \in X : \A U \in X : ~ (<<U, T>> \in StrictSubsetOrdering(S))
  BY <1>1, WFMin
<1> QED
  BY <1>2 DEF StrictSubsetOrdering

\* A non-empty set of numbers has a least element.
LEMMA LeastOf ==
  ASSUME NEW T \in SUBSET Nat, T # {}
  PROVE  \E m \in T : \A n \in T : m <= n
<1>1. PICK n \in T : TRUE
  OBVIOUS
<1> DEFINE X == {1..k : k \in {i \in T : i <= n}}
           S == 1..n
<1>2. X \in SUBSET (SUBSET S) /\ X # {} /\ n \in Nat
  BY <1>1
<1>3. IsFiniteSet(S)
  BY <1>2, FS_Interval
<1> HIDE DEF X, S
<1>4. PICK U \in X : \A W \in X : W \subseteq U => W = U
  BY <1>2, <1>3, SmallestSubset
<1>5. PICK m \in T : m <= n /\ U = 1..m
  BY <1>4 DEF X
<1>6. ASSUME NEW k \in T, k < m
      PROVE  FALSE
  <2>1. 1..k \in X
    BY <1>2, <1>5, <1>6 DEF X
  <2>2. 1..k \subseteq 1..m /\ m \in 1..m /\ m \notin 1..k
    BY <1>6
  <2> QED
    BY <1>4, <1>5, <2>1, <2>2
<1> QED
  BY <1>6

\* A set with 0 and, up to n, with each number after one of its own has all of 0..n.
LEMMA UpTo ==
  ASSUME NEW n \in Nat, NEW T, 0 \in T, \A k \in 1..n : k - 1 \in T => k \in T
  PROVE  0..n \subseteq T
<1> DEFINE X == (0..n) \ T
<1> SUFFICES ASSUME X # {} PROVE FALSE
  OBVIOUS
<1>1. X \in SUBSET Nat
  OBVIOUS
<1> HIDE DEF X
<1>2. PICK m \in X : \A k \in X : m <= k
  BY <1>1, LeastOf
<1>3. m \in 0..n /\ m \notin T
  BY <1>2 DEF X
<1>4. m # 0
  BY <1>3
<1>5. m - 1 \in 0..n /\ m \in 1..n
  BY <1>3, <1>4
<1>6. m - 1 \notin X
  BY <1>2, <1>3
<1>7. m - 1 \in T
  BY <1>5, <1>6 DEF X
<1> QED
  BY <1>3, <1>5, <1>7

-----------------------------------------------------------------------------
(* FlattenSeq puts sequences behind one another. *)

\* fl[k] is the first k sequences of qs, put behind one another.
IsFlat(S, qs, fl) ==
  /\ fl \in [0..Len(qs) -> Seq(S)] /\ fl[0] = <<>>
  /\ \A k \in 1..Len(qs) : fl[k] = fl[k - 1] \o qs[k]

\* qs and rs have the same first n elements.
Agree(qs, rs, n) ==
  /\ n \in Nat /\ n <= Len(qs) /\ n <= Len(rs) /\ Len(qs) \in Nat /\ Len(rs) \in Nat
  /\ \A k \in 1..n : qs[k] = rs[k]

\* What is put behind one another depends on these sequences only.
LEMMA FlatUnique ==
  ASSUME NEW S, NEW qs, NEW fl, IsFlat(S, qs, fl), NEW rs, NEW gl, IsFlat(S, rs, gl),
         NEW n, Agree(qs, rs, n)
  PROVE  \A k \in 0..n : fl[k] = gl[k]
<1> DEFINE T == {k \in 0..n : fl[k] = gl[k]}
<1>0. /\ n \in Nat /\ n <= Len(qs) /\ n <= Len(rs) /\ Len(qs) \in Nat /\ Len(rs) \in Nat
      /\ \A k \in 1..n : qs[k] = rs[k]
  BY DEF Agree
<1>1. 0 \in T
  BY <1>0 DEF IsFlat
<1>2. ASSUME NEW k \in 1..n, k - 1 \in T
      PROVE  k \in T
  <2>1. k \in 1..Len(qs) /\ k \in 1..Len(rs) /\ k \in 0..n
    BY <1>0
  <2>2. fl[k] = fl[k - 1] \o qs[k] /\ gl[k] = gl[k - 1] \o rs[k]
    BY <2>1 DEF IsFlat
  <2> QED
    BY <1>0, <1>2, <2>1, <2>2
<1> HIDE DEF T
<1>3. 0..n \subseteq T
  BY <1>0, <1>1, <1>2, UpTo
<1> QED
  BY <1>3 DEF T

\* The recursion of FlattenSeq defines a function.
LEMMA FlatExists ==
  ASSUME NEW S, NEW qs \in Seq(Seq(S))
  PROVE  \E fl : IsFlat(S, qs, fl)
<1> DEFINE n == Len(qs)
           Flats(m, f) == /\ f \in [0..m -> Seq(S)] /\ f[0] = <<>>
                          /\ \A k \in 1..m : f[k] = f[k - 1] \o qs[k]
           T == {m \in 0..n : \E f : Flats(m, f)}
<1>1. n \in Nat /\ \A k \in 1..n : qs[k] \in Seq(S)
  OBVIOUS
<1>2. 0 \in T
  <2>1. [k \in 0..0 |-> <<>>] \in [0..0 -> Seq(S)] /\ 1..0 = {} /\ 0 \in 0..0
    OBVIOUS
  <2>2. Flats(0, [k \in 0..0 |-> <<>>])
    BY <2>1
  <2> HIDE DEF Flats
  <2>3. 0 \in 0..n /\ \E f : Flats(0, f)
    BY <1>1, <2>2
  <2> QED
    BY <2>3
<1>3. ASSUME NEW m \in 1..n, m - 1 \in T
      PROVE  m \in T
  <2>1. PICK f : Flats(m - 1, f)
    BY <1>3
  <2> DEFINE g == [k \in 0..m |-> IF k = m THEN f[m - 1] \o qs[m] ELSE f[k]]
  <2>2. /\ m \in Nat /\ m # 0 /\ m - 1 \in 0..(m - 1) /\ 0 \in 0..(m - 1)
        /\ \A k \in 0..m : k = m \/ k \in 0..(m - 1)
        /\ \A k \in 1..m : k = m \/ k \in 1..(m - 1)
        /\ \A k \in 1..m : k - 1 \in 0..m /\ k \in 0..m /\ k - 1 # m
    BY <1>1
  <2> DEFINE l == m - 1
  <2>3. /\ f \in [0..l -> Seq(S)] /\ f[0] = <<>> /\ f[l] \in Seq(S)
        /\ \A k \in 1..l : f[k] = f[k - 1] \o qs[k]
    BY <2>1, <2>2
  <2>4. qs[m] \in Seq(S) /\ f[l] \o qs[m] \in Seq(S)
    BY <1>1, <2>3, ConcatProperties
  <2>5. g \in [0..m -> Seq(S)]
    <3>1. \A k \in 0..m : g[k] \in Seq(S)
      BY <2>2, <2>3, <2>4
    <3> QED
      BY <3>1
  <2>6. g[0] = <<>>
    BY <2>2, <2>3
  <2>7. ASSUME NEW k \in 1..m
        PROVE  g[k] = g[k - 1] \o qs[k]
    <3>1. g[k - 1] = f[k - 1] /\ (k # m => g[k] = f[k])
      BY <2>2
    <3>2. CASE k = m
      BY <2>2, <3>1, <3>2
    <3>3. CASE k # m
      BY <2>2, <2>3, <3>1, <3>3
    <3> QED
      BY <3>2, <3>3
  <2>8. Flats(m, g)
    BY <2>5, <2>6, <2>7
  <2> HIDE DEF Flats, g
  <2>9. m \in 0..n /\ \E h : Flats(m, h)
    BY <1>1, <2>8
  <2> QED
    BY <2>9
<1>4. n \in T
  <2> HIDE DEF T, n
  <2>1. 0..n \subseteq T
    BY <1>1, <1>2, <1>3, UpTo
  <2> QED
    BY <1>1, <2>1
<1>5. PICK f : Flats(n, f)
  BY <1>4
<1> QED
  BY <1>5 DEF IsFlat

\* That function is FlattenSeq.
LEMMA FlattenIsFlat ==
  ASSUME NEW S, NEW qs \in Seq(Seq(S)), NEW fl, IsFlat(S, qs, fl)
  PROVE  FlattenSeq(qs) = fl[Len(qs)] /\ FlattenSeq(qs) \in Seq(S)
<1> DEFINE n == Len(qs)
           Flattens(h) == h = [i \in 1..n |-> IF i = 1 THEN qs[i] ELSE h[i - 1] \o qs[i]]
           flatten == CHOOSE h : Flattens(h)
           g == [i \in 1..n |-> fl[i]]
<1>1. n \in Nat /\ \A k \in 1..n : qs[k] \in Seq(S)
  OBVIOUS
<1>2. /\ fl \in [0..n -> Seq(S)] /\ fl[0] = <<>>
      /\ \A k \in 1..n : fl[k] = fl[k - 1] \o qs[k]
  BY DEF IsFlat
<1>3. n \in 0..n /\ fl[n] \in Seq(S)
  BY <1>1, <1>2
<1>4. CASE n = 0
  <2>1. qs = <<>>
    BY <1>4
  <2> QED
    BY <1>2, <1>3, <1>4, <2>1 DEF FlattenSeq
<1>5. CASE n # 0
  <2>1. \A i \in 1..n : g[i] = IF i = 1 THEN qs[i] ELSE g[i - 1] \o qs[i]
    <3> SUFFICES ASSUME NEW i \in 1..n
                 PROVE  g[i] = IF i = 1 THEN qs[i] ELSE g[i - 1] \o qs[i]
      OBVIOUS
    <3>1. g[i] = fl[i - 1] \o qs[i]
      BY <1>2
    <3>2. CASE i = 1
      <4>1. fl[i - 1] = <<>>
        BY <1>2, <3>2
      <4>2. <<>> \o qs[i] = qs[i]
        BY <1>1, ConcatEmptySeq
      <4> QED
        BY <3>1, <3>2, <4>1, <4>2
    <3>3. CASE i # 1
      <4>1. i - 1 \in 1..n
        BY <1>1, <3>3
      <4> QED
        BY <3>1, <3>3, <4>1
    <3> QED
      BY <3>2, <3>3
  <2>2. Flattens(g)
    BY <2>1
  <2>3. Flattens(flatten)
    <3> HIDE DEF g
    <3> QED
      BY <2>2
  <2>4. FlattenSeq(qs) = flatten[n]
    BY <1>5 DEF FlattenSeq
  <2>5. \A i \in 1..n : flatten[i] = IF i = 1 THEN qs[i] ELSE flatten[i - 1] \o qs[i]
    BY <2>3
  <2> HIDE DEF flatten, Flattens
  <2> DEFINE T == {k \in 0..n : k = 0 \/ flatten[k] = fl[k]}
  <2>6. ASSUME NEW k \in 1..n, k - 1 \in T
        PROVE  k \in T
    <3>1. CASE k = 1
      <4>1. flatten[k] = qs[k]
        BY <2>5, <3>1
      <4>2. fl[k] = qs[k]
        <5>1. fl[k - 1] = <<>>
          BY <1>2, <3>1
        <5>2. <<>> \o qs[k] = qs[k]
          BY <1>1, ConcatEmptySeq
        <5> QED
          BY <1>2, <5>1, <5>2
      <4>3. k \in 0..n
        BY <1>1
      <4> QED
        BY <4>1, <4>2, <4>3
    <3>2. CASE k # 1
      <4>1. flatten[k - 1] = fl[k - 1]
        BY <2>6, <3>2
      <4>2. flatten[k] = flatten[k - 1] \o qs[k]
        BY <2>5, <3>2
      <4>3. k \in 0..n
        BY <1>1
      <4> QED
        BY <1>2, <4>1, <4>2, <4>3
    <3> QED
      BY <3>1, <3>2
  <2>7. 0 \in T
    BY <1>1
  <2> HIDE DEF T, n
  <2>8. 0..n \subseteq T
    BY <1>1, <2>6, <2>7, UpTo
  <2>9. n \in T
    BY <1>1, <2>8
  <2>10. flatten[n] = fl[n]
    BY <1>5, <2>9 DEF T
  <2> QED
    BY <1>3, <2>4, <2>10 DEF n
<1> QED
  BY <1>4, <1>5

\* With a sequence appended, it follows the others.
LEMMA FlattenAppend ==
  ASSUME NEW S, NEW qs \in Seq(Seq(S)), NEW q \in Seq(S)
  PROVE  /\ FlattenSeq(qs) \in Seq(S)
         /\ Append(qs, q) \in Seq(Seq(S))
         /\ FlattenSeq(Append(qs, q)) = FlattenSeq(qs) \o q
<1> DEFINE rs == Append(qs, q)
           n == Len(qs)
<1>1. /\ n \in Nat /\ n = Len(qs) /\ rs \in Seq(Seq(S)) /\ Len(rs) = n + 1 /\ rs[n + 1] = q
      /\ \A k \in 1..n : rs[k] = qs[k]
  OBVIOUS
<1> HIDE DEF rs
<1>2. PICK fl : IsFlat(S, qs, fl)
  BY FlatExists
<1>3. PICK gl : IsFlat(S, rs, gl)
  BY <1>1, FlatExists
<1>4. FlattenSeq(qs) = fl[n] /\ FlattenSeq(qs) \in Seq(S) /\ FlattenSeq(rs) = gl[n + 1]
  BY <1>1, <1>2, <1>3, FlattenIsFlat
<1>5. fl[n] = gl[n]
  <2>1. Agree(qs, rs, n)
    <3> HIDE DEF n
    <3>1. n <= Len(qs) /\ n <= Len(rs) /\ Len(qs) \in Nat /\ Len(rs) \in Nat
      BY <1>1
    <3>2. \A k \in 1..n : qs[k] = rs[k]
      BY <1>1
    <3> QED
      BY <1>1, <3>1, <3>2 DEF Agree
  <2>2. \A k \in 0..n : fl[k] = gl[k]
    <3> HIDE DEF n
    <3> QED
      BY <1>2, <1>3, <2>1, FlatUnique
  <2> QED
    BY <1>1, <2>2
<1>6. gl[n + 1] = gl[n] \o q
  <2> DEFINE p == n + 1
  <2>1. p \in 1..Len(rs) /\ p - 1 = n /\ rs[p] = q
    BY <1>1
  <2> HIDE DEF p, n
  <2>2. gl[p] = gl[p - 1] \o rs[p]
    BY <1>3, <2>1 DEF IsFlat
  <2> QED
    BY <2>1, <2>2 DEF p
<1> QED
  BY <1>1, <1>4, <1>5, <1>6 DEF rs

\* Each place of q is of the first m sequences of qs: blk says of which one, idx at
\* which place there; the order is that of the sequences.
Places(q, qs, m, blk, idx) ==
  /\ blk \in [DOMAIN q -> 1..m] /\ idx \in [DOMAIN q -> Nat \ {0}]
  /\ \A j \in DOMAIN q : idx[j] \in DOMAIN qs[blk[j]] /\ q[j] = qs[blk[j]][idx[j]]
  /\ \A i, j \in DOMAIN q : i < j => blk[i] < blk[j] \/ (blk[i] = blk[j] /\ idx[i] < idx[j])
  /\ \A b \in 1..m : \A k \in DOMAIN qs[b] : \E j \in DOMAIN q : blk[j] = b /\ idx[j] = k

\* The places of q are those of q \o c with some new ones behind them.
LEMMA PlacesMore ==
  ASSUME NEW S, NEW qs, NEW l \in Nat, NEW m, m = l + 1, NEW q \in Seq(S), NEW c \in Seq(S),
         c = qs[m], NEW blk, NEW idx, Places(q, qs, l, blk, idx)
  PROVE  \E blk2, idx2 : Places(q \o c, qs, m, blk2, idx2)
<1> DEFINE a == Len(q)
           d == Len(c)
           r == q \o c
           blk2 == [j \in 1..(a + d) |-> IF j <= a THEN blk[j] ELSE m]
           idx2 == [j \in 1..(a + d) |-> IF j <= a THEN idx[j] ELSE j - a]
<1>1. a \in Nat /\ d \in Nat /\ DOMAIN q = 1..a /\ DOMAIN c = 1..d
  OBVIOUS
<1>2. /\ r \in Seq(S) /\ Len(r) = a + d
      /\ \A j \in 1..(a + d) : r[j] = IF j <= a THEN q[j] ELSE c[j - a]
  BY ConcatProperties
<1>3. DOMAIN r = 1..(a + d)
  BY <1>2
<1>4. /\ blk \in [1..a -> 1..l] /\ idx \in [1..a -> Nat \ {0}]
      /\ \A j \in 1..a : idx[j] \in DOMAIN qs[blk[j]] /\ q[j] = qs[blk[j]][idx[j]]
      /\ \A i, j \in 1..a : i < j => (blk[i] < blk[j] \/ (blk[i] = blk[j] /\ idx[i] < idx[j]))
      /\ \A b \in 1..l : \A k \in DOMAIN qs[b] : \E j \in 1..a : blk[j] = b /\ idx[j] = k
  <2> DEFINE D == DOMAIN q
  <2>1. D = 1..a
    BY <1>1
  <2>2. /\ blk \in [D -> 1..l] /\ idx \in [D -> Nat \ {0}]
        /\ \A j \in D : idx[j] \in DOMAIN qs[blk[j]] /\ q[j] = qs[blk[j]][idx[j]]
        /\ \A i, j \in D : i < j => (blk[i] < blk[j] \/ (blk[i] = blk[j] /\ idx[i] < idx[j]))
        /\ \A b \in 1..l : \A k \in DOMAIN qs[b] : \E j \in D : blk[j] = b /\ idx[j] = k
    BY DEF Places
  <2> HIDE DEF D, a
  <2> QED
    BY <2>1, <2>2
<1>5. \A j \in 1..a : /\ j \in 1..(a + d) /\ j <= a /\ blk2[j] = blk[j] /\ idx2[j] = idx[j]
                      /\ blk[j] \in 1..l /\ idx[j] \in Nat \ {0} /\ r[j] = q[j]
  <2>1. \A j \in 1..a : j \in 1..(a + d) /\ j <= a
    BY <1>1
  <2>2. \A j \in 1..a : blk2[j] = blk[j] /\ idx2[j] = idx[j]
    BY <2>1
  <2>3. \A j \in 1..a : r[j] = q[j]
    <3> HIDE DEF r, a, d
    <3> QED
      BY <1>2, <2>1
  <2> HIDE DEF r, a, d, blk2, idx2
  <2> QED
    BY <1>4, <2>1, <2>2, <2>3
<1>6. \A j \in 1..(a + d) : j \notin 1..a =>
        /\ j > a /\ j - a \in 1..d /\ j - a \in Nat \ {0}
        /\ blk2[j] = m /\ idx2[j] = j - a /\ r[j] = c[j - a]
  <2>1. \A j \in 1..(a + d) : j \notin 1..a =>
          ~(j <= a) /\ j > a /\ j - a \in 1..d /\ j - a \in Nat \ {0}
    BY <1>1
  <2>2. \A j \in 1..(a + d) : j \notin 1..a => (blk2[j] = m /\ idx2[j] = j - a)
    BY <2>1
  <2>3. \A j \in 1..(a + d) : j \notin 1..a => r[j] = c[j - a]
    <3> HIDE DEF r, a, d
    <3> QED
      BY <1>2, <2>1
  <2> HIDE DEF r, a, d, blk2, idx2
  <2> QED
    BY <2>1, <2>2, <2>3
<1>7. /\ blk2 = [j \in 1..(a + d) |-> blk2[j]] /\ idx2 = [j \in 1..(a + d) |-> idx2[j]]
      /\ m \in 1..m /\ \A k \in 1..l : k \in 1..m /\ k < m
  OBVIOUS
<1> HIDE DEF a, d, r, blk2, idx2
<1>8. blk2 \in [DOMAIN r -> 1..m] /\ idx2 \in [DOMAIN r -> Nat \ {0}]
  <2>1. ASSUME NEW j \in 1..(a + d)
        PROVE  blk2[j] \in 1..m /\ idx2[j] \in Nat \ {0}
    <3>1. CASE j \in 1..a
      BY <1>5, <1>7, <3>1
    <3>2. CASE j \notin 1..a
      BY <1>6, <1>7, <3>2
    <3> QED
      BY <3>1, <3>2
  <2>2. blk2 \in [1..(a + d) -> 1..m] /\ idx2 \in [1..(a + d) -> Nat \ {0}]
    <3>1. \A j \in 1..(a + d) : blk2[j] \in 1..m /\ idx2[j] \in Nat \ {0}
      BY <2>1
    <3> QED
      BY <3>1 DEF blk2, idx2
  <2> QED
    BY <1>3, <2>2
<1>9. ASSUME NEW j \in 1..(a + d)
      PROVE  idx2[j] \in DOMAIN qs[blk2[j]] /\ r[j] = qs[blk2[j]][idx2[j]]
  <2>1. CASE j \in 1..a
    BY <1>4, <1>5, <2>1
  <2>2. CASE j \notin 1..a
    BY <1>1, <1>6, <2>2
  <2> QED
    BY <2>1, <2>2
<1>10. ASSUME NEW i \in 1..(a + d), NEW j \in 1..(a + d), i < j
       PROVE  blk2[i] < blk2[j] \/ (blk2[i] = blk2[j] /\ idx2[i] < idx2[j])
  <2>1. CASE j \in 1..a
    <3>1. i \in 1..a
      BY <1>1, <1>10, <2>1
    <3> QED
      BY <1>4, <1>5, <1>10, <2>1, <3>1
  <2>2. CASE j \notin 1..a /\ i \in 1..a
    BY <1>5, <1>6, <1>7, <2>2
  <2>3. CASE j \notin 1..a /\ i \notin 1..a
    <3>1. blk2[i] = m /\ blk2[j] = m /\ idx2[i] = i - a /\ idx2[j] = j - a
      BY <1>6, <2>3
    <3> QED
      BY <1>1, <1>10, <3>1
  <2> QED
    BY <2>1, <2>2, <2>3
<1>11. ASSUME NEW b \in 1..m, NEW k \in DOMAIN qs[b]
       PROVE  \E j \in 1..(a + d) : blk2[j] = b /\ idx2[j] = k
  <2>1. CASE b = m
    <3>1. k \in 1..d
      BY <1>1, <2>1
    <3> DEFINE j == a + k
    <3>2. j \in 1..(a + d) /\ j - a = k /\ j \notin 1..a
      BY <1>1, <3>1
    <3> HIDE DEF j
    <3>3. blk2[j] = m /\ idx2[j] = k
      BY <1>6, <3>2
    <3> QED
      BY <2>1, <3>2, <3>3
  <2>2. CASE b # m
    <3>1. b \in 1..l
      BY <2>2
    <3>2. PICK j \in 1..a : blk[j] = b /\ idx[j] = k
      BY <1>4, <3>1
    <3>3. j \in 1..(a + d) /\ blk2[j] = b /\ idx2[j] = k
      BY <1>5, <3>2
    <3> QED
      BY <3>3
  <2> QED
    BY <2>1, <2>2
<1>12. Places(r, qs, m, blk2, idx2)
  <2>1. \A j \in DOMAIN r : idx2[j] \in DOMAIN qs[blk2[j]] /\ r[j] = qs[blk2[j]][idx2[j]]
    BY <1>3, <1>9
  <2>2. \A i, j \in DOMAIN r :
          i < j => (blk2[i] < blk2[j] \/ (blk2[i] = blk2[j] /\ idx2[i] < idx2[j]))
    BY <1>3, <1>10
  <2>3. \A b \in 1..m : \A k \in DOMAIN qs[b] : \E j \in DOMAIN r : blk2[j] = b /\ idx2[j] = k
    BY <1>3, <1>11
  <2> QED
    BY <1>8, <2>1, <2>2, <2>3 DEF Places
<1> QED
  BY <1>12 DEF r

\* Every element of a flattened sequence has its place in one of the sequences.
LEMMA FlattenPlaces ==
  ASSUME NEW S, NEW qs \in Seq(Seq(S))
  PROVE  \E blk, idx : Places(FlattenSeq(qs), qs, Len(qs), blk, idx)
<1> DEFINE n == Len(qs)
<1>1. n \in Nat /\ \A k \in 1..n : qs[k] \in Seq(S)
  OBVIOUS
<1>2. PICK fl : IsFlat(S, qs, fl)
  BY FlatExists
<1>3. /\ fl \in [0..n -> Seq(S)] /\ fl[0] = <<>>
      /\ \A k \in 1..n : fl[k] = fl[k - 1] \o qs[k]
  BY <1>2 DEF IsFlat
<1> DEFINE T == {m \in 0..n : \E blk, idx : Places(fl[m], qs, m, blk, idx)}
<1> HIDE DEF n
<1>4. 0 \in T
  <2>1. DOMAIN <<>> = {} /\ 1..0 = {}
    OBVIOUS
  <2>2. <<>> \in [{} -> 1..0] /\ <<>> \in [{} -> Nat \ {0}]
    OBVIOUS
  <2>3. Places(<<>>, qs, 0, <<>>, <<>>)
    BY <2>1, <2>2 DEF Places
  <2> QED
    BY <1>1, <1>3, <2>3
<1>5. ASSUME NEW m \in 1..n, m - 1 \in T
      PROVE  m \in T
  <2> DEFINE l == m - 1
  <2>1. PICK blk, idx : Places(fl[l], qs, l, blk, idx)
    BY <1>5
  <2>2. l \in Nat /\ m = l + 1 /\ l \in 0..n /\ m \in 0..n
    BY <1>1
  <2>3. fl[l] \in Seq(S) /\ qs[m] \in Seq(S) /\ fl[m] = fl[l] \o qs[m]
    BY <1>1, <1>3, <2>2
  <2> HIDE DEF l
  <2>4. \E blk2, idx2 : Places(fl[l] \o qs[m], qs, m, blk2, idx2)
    BY <2>1, <2>2, <2>3, PlacesMore
  <2> QED
    BY <2>2, <2>3, <2>4
<1> HIDE DEF T
<1>6. 0..n \subseteq T
  BY <1>1, <1>4, <1>5, UpTo
<1>7. n \in T
  BY <1>1, <1>6
<1>8. FlattenSeq(qs) = fl[n]
  BY <1>2, FlattenIsFlat DEF n
<1> QED
  BY <1>7, <1>8 DEF T, n

-----------------------------------------------------------------------------
(* The output: the chunks that have got as far as the channel. *)

Output == FlattenSeq(payloads) \o buf \o out

Has(q, s, m) == \E i \in DOMAIN q : q[i] = [stream |-> s, n |-> m]

\* No chunk of s in q is later than the m-th; all chunks of s up to the m-th are in q.
AtMost(q, s, m) == \A i \in DOMAIN q : q[i].stream = s => q[i].n <= m
AllUpTo(q, s, m) == \A k \in 1..m : Has(q, s, k)

\* The chunks of a stream are in their order, and none is left out.
InOrder(q) ==
  \A i, j \in DOMAIN q : (i < j /\ q[i].stream = q[j].stream) => q[i].n < q[j].n
NoHoles(q) ==
  \A j \in DOMAIN q : \A k \in 1..(q[j].n - 1) :
    \E i \in 1..(j - 1) : q[i] = [stream |-> q[j].stream, n |-> k]

\* What a sequence holds after one more chunk.
LEMMA Appended ==
  ASSUME NEW S, NEW q \in Seq(S), NEW c \in S
  PROVE  /\ Append(q, c) \in Seq(S) /\ Len(q) \in Nat
         /\ DOMAIN q = 1..Len(q) /\ DOMAIN Append(q, c) = 1..(Len(q) + 1)
         /\ \A i \in 1..Len(q) : Append(q, c)[i] = q[i]
         /\ Append(q, c)[Len(q) + 1] = c
  OBVIOUS

\* The chunk that follows the ones of its stream that are there keeps the order.
LEMMA NextChunk ==
  ASSUME NEW q \in Seq(Chunk), NEW s, NEW m, [stream |-> s, n |-> m] \in Chunk, m \in Nat \ {0},
         AtMost(q, s, m - 1), AllUpTo(q, s, m - 1), InOrder(q), NoHoles(q)
  PROVE  LET r == Append(q, [stream |-> s, n |-> m])
         IN  InOrder(r) /\ NoHoles(r) /\ AtMost(r, s, m) /\ AllUpTo(r, s, m)
<1> DEFINE c == [stream |-> s, n |-> m]
           r == Append(q, c)
           a == Len(q)
<1>1. c \in Chunk /\ c.stream = s /\ c.n = m
  OBVIOUS
<1> HIDE DEF c
<1>2. /\ r \in Seq(Chunk) /\ a \in Nat /\ DOMAIN q = 1..a /\ DOMAIN r = 1..(a + 1)
      /\ \A i \in 1..a : r[i] = q[i]
      /\ r[a + 1] = c
  BY <1>1, Appended
<1>3. \A i \in 1..a : q[i] \in Chunk
  BY <1>2
<1>4. \A i \in 1..a : q[i].n \in Nat
  BY <1>3, SshAssumption DEF Chunk
<1> DEFINE p == a + 1
<1> HIDE DEF a, r
<1>5. p \in Nat /\ \A i \in 1..p : i = p \/ (i \in 1..a /\ i # p)
  BY <1>2
<1> HIDE DEF p
<1>6. InOrder(r)
  <2>1. ASSUME NEW i \in 1..p, NEW j \in 1..p, i < j, r[i].stream = r[j].stream
        PROVE  r[i].n < r[j].n
    <3>1. i \in 1..a
      BY <1>2, <1>5, <2>1
    <3>2. CASE j \in 1..a
      BY <1>2, <2>1, <3>1, <3>2 DEF InOrder
    <3>3. CASE j = p
      <4>1. q[i].stream = s /\ r[j].n = m /\ r[i] = q[i]
        BY <1>1, <1>2, <2>1, <3>1, <3>3 DEF p
      <4>2. q[i].n <= m - 1
        BY <1>2, <3>1, <4>1 DEF AtMost
      <4> QED
        BY <1>4, <3>1, <4>1, <4>2
    <3> QED
      BY <1>5, <3>2, <3>3
  <2> QED
    BY <1>2, <2>1 DEF InOrder, p
<1>7. NoHoles(r)
  <2>1. ASSUME NEW j \in 1..p, NEW k \in 1..(r[j].n - 1)
        PROVE  \E i \in 1..(j - 1) : r[i] = [stream |-> r[j].stream, n |-> k]
    <3>1. CASE j \in 1..a
      <4>1. r[j] = q[j]
        BY <1>2, <3>1
      <4>2. PICK i \in 1..(j - 1) : q[i] = [stream |-> q[j].stream, n |-> k]
        BY <1>2, <2>1, <3>1, <4>1 DEF NoHoles
      <4>3. i \in 1..a
        BY <1>2, <3>1
      <4> QED
        BY <1>2, <4>1, <4>2, <4>3
    <3>2. CASE j = p
      <4>1. r[j].stream = s /\ r[j].n = m /\ k \in 1..(m - 1)
        BY <1>1, <1>2, <2>1, <3>2 DEF p
      <4>2. PICK i \in DOMAIN q : q[i] = [stream |-> s, n |-> k]
        BY <4>1 DEF AllUpTo, Has
      <4>3. i \in 1..a /\ i \in 1..(j - 1)
        BY <1>2, <3>2, <4>2 DEF p
      <4> QED
        BY <1>2, <4>1, <4>2, <4>3
    <3> QED
      BY <1>5, <3>1, <3>2
  <2> QED
    BY <1>2, <2>1 DEF NoHoles, p
<1>8. AtMost(r, s, m)
  <2>1. ASSUME NEW i \in 1..p, r[i].stream = s
        PROVE  r[i].n <= m
    <3>1. CASE i \in 1..a
      <4>1. q[i].n <= m - 1
        BY <1>2, <2>1, <3>1 DEF AtMost
      <4> QED
        BY <1>2, <1>4, <3>1, <4>1
    <3>2. CASE i = p
      BY <1>1, <1>2, <3>2 DEF p
    <3> QED
      BY <1>5, <3>1, <3>2
  <2> QED
    BY <1>2, <2>1 DEF AtMost, p
<1>9. AllUpTo(r, s, m)
  <2>1. ASSUME NEW k \in 1..m
        PROVE  \E i \in 1..p : r[i] = [stream |-> s, n |-> k]
    <3>1. CASE k = m
      BY <1>2, <1>5, <3>1 DEF p, c
    <3>2. CASE k # m
      <4>1. k \in 1..(m - 1)
        BY <3>2
      <4>2. PICK i \in DOMAIN q : q[i] = [stream |-> s, n |-> k]
        BY <4>1 DEF AllUpTo, Has
      <4>3. i \in 1..a /\ i \in 1..p
        BY <1>2, <4>2 DEF p
      <4> QED
        BY <1>2, <4>2, <4>3
    <3> QED
      BY <3>1, <3>2
  <2> QED
    BY <1>2, <2>1 DEF AllUpTo, Has, p
<1> QED
  BY <1>6, <1>7, <1>8, <1>9 DEF r, c

\* A chunk of one stream says nothing new about another stream.
LEMMA OtherStream ==
  ASSUME NEW q \in Seq(Chunk), NEW c \in Chunk, NEW t, c.stream # t, NEW k
  PROVE  /\ AtMost(q, t, k) => AtMost(Append(q, c), t, k)
         /\ AllUpTo(q, t, k) => AllUpTo(Append(q, c), t, k)
<1> DEFINE r == Append(q, c)
           a == Len(q)
<1>1. /\ a \in Nat /\ DOMAIN q = 1..a /\ DOMAIN r = 1..(a + 1)
      /\ \A i \in 1..a : r[i] = q[i]
      /\ r[a + 1] = c
  BY Appended
<1> HIDE DEF a, r
<1>2. \A i \in 1..(a + 1) : i = a + 1 \/ i \in 1..a
  BY <1>1
<1>3. AtMost(q, t, k) => AtMost(r, t, k)
  BY <1>1, <1>2 DEF AtMost
<1>4. \A i \in 1..a : i \in 1..(a + 1)
  BY <1>1
<1>5. AllUpTo(q, t, k) => AllUpTo(r, t, k)
  BY <1>1, <1>4 DEF AllUpTo, Has
<1> QED
  BY <1>3, <1>5 DEF r

\* It does not matter how four sequences are put behind one another.
LEMMA FourTogether ==
  ASSUME NEW S, NEW f \in Seq(S), NEW b \in Seq(S), NEW g \in Seq(S), NEW h \in Seq(S)
  PROVE  (f \o (b \o g)) \o h = (f \o b) \o (g \o h)
<1>1. (f \o b) \o g = f \o (b \o g)
  BY ConcatAssociative, SMTT(30)
<1>2. PICK k \in Seq(S) : k = f \o b
  <2>1. f \o b \in Seq(S)
    BY ConcatProperties
  <2> QED
    BY <2>1
<1>3. (k \o g) \o h = k \o (g \o h)
  BY ConcatAssociative, SMTT(30)
<1> QED
  BY <1>1, <1>2, <1>3

Joined(f, b, o) == (f \o b) \o o

\* The first of o may as well be the last of b.
LEMMA Shift ==
  ASSUME NEW S, NEW f \in Seq(S), NEW b \in Seq(S), NEW o \in Seq(S), o # <<>>
  PROVE  Joined(f, Append(b, Head(o)), Tail(o)) = Joined(f, b, o)
<1> DEFINE first == <<Head(o)>>
           rest == Tail(o)
<1>1. Head(o) \in S /\ first \in Seq(S) /\ rest \in Seq(S)
  OBVIOUS
<1>2. o = first \o rest
  <2> DEFINE r == first \o rest
  <2>1. Len(o) \in Nat \ {0} /\ Len(first) = 1 /\ first[1] = o[1] /\ Len(rest) = Len(o) - 1
    OBVIOUS
  <2>2. \A i \in 1..Len(rest) : rest[i] = o[i + 1]
    OBVIOUS
  <2>3. /\ r \in Seq(S) /\ Len(r) = Len(first) + Len(rest)
        /\ \A i \in 1..(Len(first) + Len(rest)) : r[i] = IF i <= Len(first) THEN first[i] ELSE rest[i - Len(first)]
    <3> HIDE DEF first, rest
    <3> QED
      BY <1>1, ConcatProperties
  <2> HIDE DEF first, rest, r
  <2>4. Len(r) = Len(o)
    BY <2>1, <2>3
  <2>5. ASSUME NEW i \in 1..Len(o)
        PROVE  o[i] = r[i]
    <3>1. CASE i = 1
      BY <2>1, <2>3, <3>1
    <3>2. CASE i # 1
      <4>1. i - 1 \in 1..Len(rest) /\ ~(i <= Len(first)) /\ i - Len(first) = i - 1 /\ i - 1 + 1 = i
        BY <2>1, <3>2
      <4>2. rest[i - 1] = o[i]
        BY <2>2, <4>1
      <4> QED
        BY <2>1, <2>3, <4>1, <4>2
    <3> QED
      BY <3>1, <3>2
  <2>6. o = r
    BY <2>3, <2>4, <2>5, SeqEqual
  <2> QED
    BY <2>6 DEF r
<1>3. Append(b, Head(o)) = b \o first
  BY <1>1, AppendIsConcat
<1>4. (f \o (b \o first)) \o rest = (f \o b) \o (first \o rest)
  BY <1>1, FourTogether, SMTT(30)
<1> QED
  BY <1>2, <1>3, <1>4 DEF Joined

\* A chunk at the end of the last of three sequences is at the end of them all.
LEMMA AtTheEnd ==
  ASSUME NEW S, NEW f \in Seq(S), NEW o \in Seq(S), NEW c \in S
  PROVE  f \o Append(o, c) = Append(f \o o, c)
<1>1. <<c>> \in Seq(S) /\ f \o o \in Seq(S)
  <2>1. <<c>> \in Seq(S)
    OBVIOUS
  <2>2. f \o o \in Seq(S)
    BY ConcatProperties
  <2> QED
    BY <2>1, <2>2
<1>2. Append(o, c) = o \o <<c>> /\ Append(f \o o, c) = (f \o o) \o <<c>>
  BY <1>1, AppendIsConcat
<1> DEFINE h == <<c>>
<1> HIDE DEF h
<1>3. f \o (o \o h) = (f \o o) \o h
  BY <1>1, ConcatAssociative DEF h
<1> QED
  BY <1>2, <1>3 DEF h

\* The beginning of an output in order and without holes is so too.
LEMMA Beginning ==
  ASSUME NEW f \in Seq(Chunk), NEW t \in Seq(Chunk), InOrder(f \o t), NoHoles(f \o t)
  PROVE  InOrder(f) /\ NoHoles(f)
<1> DEFINE q == f \o t
           a == Len(f)
<1>1. /\ a \in Nat /\ Len(t) \in Nat /\ DOMAIN f = 1..a /\ DOMAIN q = 1..(a + Len(t))
      /\ \A i \in 1..a : q[i] = f[i]
  <2>1. /\ q \in Seq(Chunk) /\ Len(q) = a + Len(t)
        /\ \A i \in 1..(a + Len(t)) : q[i] = IF i <= a THEN f[i] ELSE t[i - a]
    BY ConcatProperties
  <2>2. a \in Nat /\ Len(t) \in Nat /\ DOMAIN f = 1..a
    OBVIOUS
  <2> HIDE DEF q, a
  <2>3. \A i \in 1..a : i \in 1..(a + Len(t)) /\ i <= a
    BY <2>2
  <2>4. DOMAIN q = 1..(a + Len(t))
    BY <2>1
  <2> QED
    BY <2>1, <2>2, <2>3, <2>4
<1>2. InOrder(q) /\ NoHoles(q)
  OBVIOUS
<1> HIDE DEF q, a
<1>3. \A i \in 1..a : i \in DOMAIN q
  BY <1>1
<1>4. InOrder(f)
  BY <1>1, <1>2, <1>3 DEF InOrder
<1>5. ASSUME NEW j \in 1..a, NEW k \in 1..(f[j].n - 1)
      PROVE  \E i \in 1..(j - 1) : f[i] = [stream |-> f[j].stream, n |-> k]
  <2>1. PICK i \in 1..(j - 1) : q[i] = [stream |-> q[j].stream, n |-> k]
    BY <1>1, <1>2, <1>3, <1>5 DEF NoHoles
  <2>2. i \in 1..a
    BY <1>1
  <2> QED
    BY <1>1, <2>1, <2>2
<1> QED
  BY <1>1, <1>4, <1>5 DEF NoHoles

-----------------------------------------------------------------------------
(* The sequence buffer of the terminal *)

\* From e on the buffered payloads follow each other up to the first that is missing.
LEMMA RunIs ==
  ASSUME NEW e \in Nat, NEW l \in Nat, NEW b \in SUBSET (1..l), \A p \in b : p >= e
  PROVE  /\ Cardinality(Run(e, b)) \in Nat
         /\ Run(e, b) = e..(e + Cardinality(Run(e, b)) - 1)
         /\ e + Cardinality(Run(e, b)) \notin b
<1> DEFINE T == {k \in Nat : k >= e /\ k \notin b}
<1>1. T \in SUBSET Nat /\ T # {}
  <2>1. e + l + 1 \in T
    OBVIOUS
  <2> QED
    BY <2>1
<1> HIDE DEF T
<1>2. PICK m \in T : \A k \in T : m <= k
  BY <1>1, LeastOf
<1>3. m \in Nat /\ m >= e /\ m \notin b
  BY <1>2 DEF T
<1>4. \A k \in e..(m - 1) : k \in b
  BY <1>2, <1>3 DEF T
<1>5. Run(e, b) = e..(m - 1)
  <2>1. ASSUME NEW p \in e..(m - 1)
        PROVE  p \in Run(e, b)
    <3>1. \A k \in e..p : k \in e..(m - 1)
      BY <1>3
    <3> QED
      BY <1>4, <2>1, <3>1 DEF Run
  <2>2. ASSUME NEW p \in Run(e, b)
        PROVE  p \in e..(m - 1)
    <3>1. p \in b /\ e..p \subseteq b /\ p \in Nat /\ p >= e
      BY DEF Run
    <3>2. ~(m <= p)
      <4>1. m <= p => m \in e..p
        BY <1>3, <3>1
      <4> QED
        BY <1>3, <3>1, <4>1
    <3> QED
      BY <1>3, <3>1, <3>2
  <2> QED
    BY <2>1, <2>2
<1> DEFINE z == m - 1
<1>6. z \in Int /\ e \in Int /\ (e > z => m - e = 0) /\ z - e + 1 = m - e
  BY <1>3
<1> HIDE DEF z
<1>7. Cardinality(e..z) = m - e
  BY <1>6, FS_Interval
<1>8. Cardinality(Run(e, b)) = m - e
  BY <1>5, <1>7 DEF z
<1>9. e + (m - e) - 1 = m - 1 /\ e + (m - e) = m /\ m - e \in Nat
  BY <1>3
<1> QED
  BY <1>3, <1>5, <1>8, <1>9

\* The first buffered payload.
LEMMA FirstOf ==
  ASSUME NEW b \in SUBSET Nat, b # {}
  PROVE  Min(b) \in b /\ \A p \in b : p >= Min(b)
<1>1. PICK m \in b : \A p \in b : m <= p
  BY LeastOf
<1>2. Min(b) \in b /\ \A p \in b : Min(b) <= p
  BY <1>1 DEF Min
<1> QED
  BY <1>2

\* What drain writes behind screen.
Drained(e, b, screen) == screen \o [i \in 1..Cardinality(Run(e, b)) |-> e + i - 1]

\* The payloads on the screen ascend and are below e, those that wait are not; as long
\* as the screen has not been cleared it shows every payload below e.
ScreenOK(screen, e, b) ==
  /\ \A i, j \in DOMAIN screen :
       (i < j /\ screen[i] # Reset /\ screen[j] # Reset) => screen[i] < screen[j]
  /\ \A i \in DOMAIN screen : screen[i] < e
  /\ \A p \in b : p >= e
  /\ \A i \in DOMAIN screen : (\A m \in 1..i : screen[m] # Reset) => screen[i] = i
  /\ (\A i \in DOMAIN screen : screen[i] # Reset) => e = Len(screen) + 1

\* drain keeps this, and shows nothing but what was buffered.
LEMMA DrainKeeps ==
  ASSUME NEW e \in Nat \ {0}, NEW l \in Nat, NEW b \in SUBSET (1..l),
         NEW screen \in Seq((1..l) \cup {Reset}), ScreenOK(screen, e, b)
  PROVE  /\ e + Cardinality(Run(e, b)) \in Nat \ {0}
         /\ Drained(e, b, screen) \in Seq((1..l) \cup {Reset})
         /\ ScreenOK(Drained(e, b, screen), e + Cardinality(Run(e, b)), b \ Run(e, b))
<1> DEFINE c == Cardinality(Run(e, b))
           w == [i \in 1..c |-> e + i - 1]
           new == Drained(e, b, screen)
           R == Run(e, b)
           a == Len(screen)
           D == (1..l) \cup {Reset}
<1>1. \A p \in b : p >= e
  BY DEF ScreenOK
<1>2. c \in Nat /\ R = e..(e + c - 1) /\ e + c \notin b
  BY <1>1, RunIs
<1>3. R \subseteq b
  BY DEF Run
<1>4. new = screen \o w
  BY DEF Drained
<1>5. /\ a \in Nat /\ DOMAIN screen = 1..a /\ \A i \in 1..a : screen[i] \in D
      /\ \A i \in 1..a : screen[i] \in Nat
  BY DEF Reset
<1> HIDE DEF c, new, R, a
<1>6. \A i \in 1..c : e + i - 1 \in R /\ e + i - 1 \in Nat \ {0}
  BY <1>2
<1>7. \A i \in 1..c : w[i] \in D
  BY <1>3, <1>6
<1>8. w \in Seq(D) /\ Len(w) = c
  BY <1>2, <1>7
<1> HIDE DEF D
<1>9. /\ new \in Seq(D) /\ Len(new) = a + c
      /\ \A i \in 1..(a + c) : new[i] = IF i <= a THEN screen[i] ELSE w[i - a]
  <2>1. screen \in Seq(D)
    BY DEF D
  <2> HIDE DEF w
  <2> QED
    BY <1>4, <1>8, <2>1, ConcatProperties DEF a
<1>10. DOMAIN new = 1..(a + c)
  BY <1>9
<1>11. \A i \in 1..a : i \in 1..(a + c) /\ new[i] = screen[i]
  <2>1. \A i \in 1..a : i \in 1..(a + c) /\ i <= a
    BY <1>2, <1>5
  <2> HIDE DEF w
  <2> QED
    BY <1>9, <2>1
<1>12. \A i \in 1..(a + c) : i \notin 1..a =>
         i > a /\ new[i] = e + (i - a) - 1 /\ i - a \in 1..c
  <2>1. \A i \in 1..(a + c) : i \notin 1..a => ~(i <= a) /\ i > a /\ i - a \in 1..c
    BY <1>2, <1>5
  <2>2. \A i \in 1..c : w[i] = e + i - 1
    OBVIOUS
  <2> HIDE DEF w
  <2> QED
    BY <1>9, <2>1, <2>2
<1>13. \A i \in 1..(a + c) : i \notin 1..a => new[i] \in Nat \ {0} /\ new[i] >= e /\ new[i] < e + c
  BY <1>2, <1>5, <1>12
<1> HIDE DEF w
<1>14. /\ \A i, j \in 1..a : (i < j /\ screen[i] # Reset /\ screen[j] # Reset) => screen[i] < screen[j]
       /\ \A i \in 1..a : screen[i] < e
       /\ \A i \in 1..a : (\A m \in 1..i : screen[m] # Reset) => screen[i] = i
       /\ (\A i \in 1..a : screen[i] # Reset) => e = a + 1
  BY <1>5 DEF ScreenOK, a
<1>15. ASSUME NEW i \in 1..(a + c), NEW j \in 1..(a + c), i < j, new[i] # Reset, new[j] # Reset
       PROVE  new[i] < new[j]
  <2>1. CASE j \in 1..a
    <3>1. i \in 1..a
      BY <1>5, <1>15, <2>1
    <3> QED
      BY <1>11, <1>14, <1>15, <2>1, <3>1
  <2>2. CASE i \in 1..a /\ j \notin 1..a
    <3>1. screen[i] < e /\ new[i] = screen[i] /\ new[j] >= e /\ screen[i] \in Nat /\ new[j] \in Nat
      BY <1>5, <1>11, <1>13, <1>14, <2>2
    <3> QED
      BY <3>1
  <2>3. CASE i \notin 1..a /\ j \notin 1..a
    <3>1. new[i] = e + (i - a) - 1 /\ new[j] = e + (j - a) - 1
      BY <1>12, <2>3
    <3> QED
      BY <1>5, <1>15, <3>1
  <2>4. CASE i \notin 1..a /\ j \in 1..a
    BY <1>5, <1>15, <2>4
  <2> QED
    BY <2>1, <2>2, <2>3, <2>4
<1>16. ASSUME NEW i \in 1..(a + c)
       PROVE  new[i] < e + c
  <2>1. CASE i \in 1..a
    <3>1. screen[i] < e /\ new[i] = screen[i] /\ screen[i] \in Nat
      BY <1>5, <1>11, <1>14, <2>1
    <3> QED
      BY <1>2, <3>1
  <2>2. CASE i \notin 1..a
    BY <1>13, <2>2
  <2> QED
    BY <2>1, <2>2
<1>17. ASSUME NEW p \in b \ R
       PROVE  p >= e + c
  <2>1. p \in Nat /\ p >= e /\ p \notin e..(e + c - 1)
    BY <1>1, <1>2
  <2> QED
    BY <1>2, <2>1
<1>18. ASSUME \A i \in 1..a : new[i] # Reset
       PROVE  e = a + 1
  BY <1>11, <1>14, <1>18
<1>19. ASSUME NEW i \in 1..(a + c), \A m \in 1..i : new[m] # Reset
       PROVE  new[i] = i
  <2>1. CASE i \in 1..a
    <3>1. \A m \in 1..i : m \in 1..a
      BY <1>5, <2>1
    <3>2. \A m \in 1..i : screen[m] # Reset
      BY <1>11, <1>19, <3>1
    <3> QED
      BY <1>11, <1>14, <2>1, <3>2
  <2>2. CASE i \notin 1..a
    <3>1. new[i] = e + (i - a) - 1 /\ i > a
      BY <1>12, <2>2
    <3>2. \A m \in 1..a : m \in 1..i
      BY <1>5, <3>1
    <3>3. e = a + 1
      BY <1>18, <1>19, <3>2
    <3> QED
      BY <1>5, <3>1, <3>3
  <2> QED
    BY <2>1, <2>2
<1>20. ASSUME \A i \in 1..(a + c) : new[i] # Reset
       PROVE  e + c = Len(new) + 1
  <2>1. e = a + 1
    BY <1>11, <1>18, <1>20
  <2> QED
    BY <1>2, <1>5, <1>9, <2>1
<1>21. ScreenOK(new, e + c, b \ R)
  <2>1. \A i, j \in DOMAIN new : (i < j /\ new[i] # Reset /\ new[j] # Reset) => new[i] < new[j]
    BY <1>10, <1>15
  <2>2. \A i \in DOMAIN new : new[i] < e + c
    BY <1>10, <1>16
  <2>3. \A i \in DOMAIN new : (\A m \in 1..i : new[m] # Reset) => new[i] = i
    BY <1>10, <1>19
  <2>4. (\A i \in DOMAIN new : new[i] # Reset) => e + c = Len(new) + 1
    BY <1>10, <1>20
  <2> QED
    BY <1>17, <2>1, <2>2, <2>3, <2>4 DEF ScreenOK
<1>22. e + c \in Nat \ {0}
  BY <1>2
<1> QED
  BY <1>9, <1>21, <1>22 DEF c, new, R, D

\* More payloads may wait, if none is below e; fewer may.
LEMMA ScreenWaits ==
  ASSUME NEW screen, NEW e, NEW b, NEW b2, ScreenOK(screen, e, b), \A p \in b2 : p >= e
  PROVE  ScreenOK(screen, e, b2)
  BY DEF ScreenOK

\* Clearing the screen keeps this, whatever number it goes on with.
LEMMA ClearKeeps ==
  ASSUME NEW S \in SUBSET Nat, NEW screen \in Seq(S), Reset \in S, NEW e \in Nat, NEW b,
         ScreenOK(screen, e, b), NEW f \in Nat \ {0}, f >= e, NEW b2, \A p \in b2 : p >= f
  PROVE  ScreenOK(Append(screen, Reset), f, b2)
<1> DEFINE new == Append(screen, Reset)
           a == Len(screen)
           p == a + 1
<1>1. /\ new \in Seq(S) /\ a \in Nat /\ DOMAIN screen = 1..a /\ DOMAIN new = 1..p
      /\ \A i \in 1..a : new[i] = screen[i]
      /\ new[p] = Reset
  BY Appended
<1>2. \A i \in 1..a : screen[i] \in Nat
  BY ElementOfSeq
<1>3. p \in Nat /\ p \in 1..p /\ \A i \in 1..p : i = p \/ (i \in 1..a /\ i # p)
  BY <1>1
<1> HIDE DEF new, a, p
<1>4. \A i, j \in 1..p : (i < j /\ new[i] # Reset /\ new[j] # Reset) => new[i] < new[j]
  BY <1>1, <1>3 DEF ScreenOK
<1>5. ASSUME NEW i \in 1..p
      PROVE  new[i] < f
  <2>1. CASE i = p
    BY <1>1, <2>1 DEF Reset
  <2>2. CASE i # p
    <3>1. i \in 1..a /\ new[i] = screen[i]
      BY <1>1, <1>3, <2>2
    <3>2. screen[i] < e /\ screen[i] \in Nat
      BY <1>1, <1>2, <3>1 DEF ScreenOK
    <3> QED
      BY <3>1, <3>2
  <2> QED
    BY <2>1, <2>2
<1>6. ASSUME NEW i \in 1..p, \A m \in 1..i : new[m] # Reset
      PROVE  new[i] = i
  <2>1. i # p
    <3>1. i \in 1..i
      BY <1>3
    <3> QED
      BY <1>1, <1>6, <3>1
  <2>2. i \in 1..a /\ new[i] = screen[i]
    BY <1>1, <1>3, <2>1
  <2>3. \A m \in 1..i : m \in 1..a
    BY <1>1, <2>2
  <2>4. \A m \in 1..i : screen[m] # Reset
    BY <1>1, <1>6, <2>3
  <2> QED
    BY <1>1, <2>2, <2>4 DEF ScreenOK
<1>7. ~ \A i \in 1..p : new[i] # Reset
  BY <1>1, <1>3
<1>8. ScreenOK(new, f, b2)
  BY <1>1, <1>4, <1>5, <1>6, <1>7 DEF ScreenOK
<1> QED
  BY <1>8 DEF new

-----------------------------------------------------------------------------
(* The inductive invariant *)

\* The shapes of the session on the two sides of the events.
BackTypes ==
  /\ call \in {"dial", "shell", "banner", "returned", "failed"}
  /\ rec \in {"none", "open", "gone"} /\ pump \in {"none", "running", "ended"}
  /\ exited \in BOOLEAN /\ closing \in BOOLEAN /\ done \in BOOLEAN
  /\ made \in [Streams -> 0..MaxChunks]
  /\ reader \in [Streams -> {"read", "lookup", "send"}]
  /\ out \in Seq(Chunk) /\ Len(out) <= OutCap
  /\ buf \in Seq(Chunk) /\ Len(buf) < FlushAt
  /\ payloads \in Seq(Seq(Chunk))

UiTypes ==
  /\ gapTimer \in BOOLEAN /\ expected \in Nat \ {0}
  /\ events \subseteq DOMAIN payloads /\ seqBuffer \subseteq DOMAIN payloads
  /\ pending \in Seq(DOMAIN payloads)
  /\ statuses \subseteq {"connected", "closed"}
  /\ tab \in {"none", "connected", "closed", "removed"}
  /\ term \in {"none", "mounted", "disposed"}
  /\ shown \in Seq(DOMAIN payloads \cup {Reset})

\* The chunk a reader has read last is still its own: the record is there, or the
\* reader has seen that it was.
Waiting(s) == reader[s] = "send" \/ (reader[s] = "lookup" /\ rec = "open")
Sent(s) == IF Waiting(s) THEN made[s] - 1 ELSE made[s]

\* No chunk of s in the output is later than the last one sent, and unless the
\* session is gone every one up to it is there.
ReaderOK(s) ==
  /\ AtMost(Output, s, Sent(s))
  /\ (Waiting(s) \/ rec = "open") => AllUpTo(Output, s, Sent(s))
  /\ reader[s] # "read" => made[s] > 0
  /\ rec = "none" => (made[s] = 0 /\ reader[s] = "read")

LifeOK == (call = "dial" <=> rec = "none") /\ (done => rec = "gone")

OutputOK == InOrder(Output) /\ NoHoles(Output) /\ \A s \in Streams : ReaderOK(s)

BackInv == BackTypes /\ LifeOK /\ OutputOK
UiInv   == UiTypes /\ ScreenOK(shown, expected, seqBuffer)
SshInv  == BackInv /\ UiInv

\* What the assumption says of each constant.
LEMMA Bounds ==
  /\ MaxChunks \in Nat \ {0} /\ OutCap \in Nat \ {0} /\ FlushAt \in Nat \ {0}
  /\ PendingCap \in Nat \ {0} /\ Banner \in Streams
  BY SshAssumption DEF Streams

LEMMA TypesAre == SshTypeOK <=> (BackTypes /\ UiTypes)
  BY DEF SshTypeOK, BackTypes, UiTypes

-----------------------------------------------------------------------------
(* Steps that leave the output alone *)

Quiet == payloads' = payloads /\ buf' = buf /\ out' = out

\* They keep its order.
LEMMA QuietOutput ==
  ASSUME Quiet
  PROVE  /\ Output' = Output
         /\ (InOrder(Output) /\ NoHoles(Output)) => (InOrder(Output)' /\ NoHoles(Output)')
<1>1. Output' = Output
  BY DEF Quiet, Output
<1> QED
  BY <1>1 DEF InOrder, NoHoles

\* Three sequences may be joined from either end.
LEMMA Together ==
  ASSUME NEW S, NEW p \in Seq(S), NEW q \in Seq(S), NEW r \in Seq(S)
  PROVE  q \o r \in Seq(S) /\ (p \o q) \o r = p \o (q \o r)
<1>1. q \o r \in Seq(S)
  BY ConcatProperties
<1>2. (p \o q) \o r = p \o (q \o r)
  BY ConcatAssociative, SMTT(30)
<1> QED
  BY <1>1, <1>2

\* The output consists of chunks.
LEMMA OutputType ==
  ASSUME BackTypes
  PROVE  /\ FlattenSeq(payloads) \in Seq(Chunk) /\ buf \in Seq(Chunk) /\ out \in Seq(Chunk)
         /\ buf \o out \in Seq(Chunk)
         /\ Output = FlattenSeq(payloads) \o (buf \o out) /\ Output \in Seq(Chunk)
<1>1. payloads \in Seq(Seq(Chunk)) /\ buf \in Seq(Chunk) /\ out \in Seq(Chunk)
  BY DEF BackTypes
<1>2. PICK fl : IsFlat(Chunk, payloads, fl)
  BY <1>1, FlatExists
<1>3. FlattenSeq(payloads) \in Seq(Chunk)
  BY <1>1, <1>2, FlattenIsFlat
<1>4. PICK f \in Seq(Chunk) : f = FlattenSeq(payloads)
  BY <1>3
<1>5. buf \o out \in Seq(Chunk) /\ (f \o buf) \o out = f \o (buf \o out)
  BY <1>1, Together
<1>6. f \o (buf \o out) \in Seq(Chunk)
  BY <1>5, ConcatProperties
<1> QED
  BY <1>1, <1>3, <1>4, <1>5, <1>6 DEF Output

\* A bound on the chunks of a stream may be raised.
LEMMA AtMostMore ==
  ASSUME NEW q \in Seq(Chunk), NEW s, NEW m \in Int, NEW k \in Int, m <= k, AtMost(q, s, m)
  PROVE  AtMost(q, s, k)
<1>1. \A i \in DOMAIN q : q[i] \in Chunk
  OBVIOUS
<1>2. \A i \in DOMAIN q : q[i].n \in Nat
  BY <1>1, Bounds DEF Chunk
<1> QED
  BY <1>2 DEF AtMost

\* A stream whose reader does nothing is fine, and so it is when the record comes or goes.
LEMMA IdleReader ==
  ASSUME BackTypes, NEW s \in Streams, ReaderOK(s), Output' = Output,
         made'[s] = made[s], reader'[s] = reader[s],
         \/ rec' = rec
         \/ rec' = "gone"
         \/ rec = "none" /\ rec' = "open"
  PROVE  ReaderOK(s)'
<1>1. made[s] \in Nat /\ made[s] \in Int /\ made[s] - 1 \in Int /\ made[s] - 1 <= made[s]
  BY Bounds DEF BackTypes
<1>2. Output \in Seq(Chunk)
  BY OutputType
<1>3. CASE rec' = rec
  BY <1>3 DEF ReaderOK, Waiting, Sent
<1>4. CASE rec' = "gone"
  <2>1. CASE reader[s] = "send"
    BY <1>4, <2>1 DEF ReaderOK, Waiting, Sent
  <2>2. CASE reader[s] # "send"
    <3>1. ~Waiting(s)' /\ Sent(s)' = made[s]
      BY <1>4, <2>2 DEF Waiting, Sent
    <3>2. Sent(s) \in Int /\ Sent(s) <= made[s] /\ AtMost(Output, s, Sent(s))
      BY <1>1 DEF Sent, ReaderOK
    <3> DEFINE k == Sent(s)
    <3> HIDE DEF k
    <3>3. AtMost(Output, s, made[s])
      BY <1>1, <1>2, <3>2, AtMostMore DEF k
    <3> QED
      BY <1>4, <3>1, <3>3 DEF ReaderOK
  <2> QED
    BY <2>1, <2>2
<1>5. CASE rec = "none" /\ rec' = "open"
  <2>1. made[s] = 0 /\ reader[s] = "read"
    BY <1>5 DEF ReaderOK
  <2>2. ~Waiting(s) /\ ~Waiting(s)' /\ Sent(s) = 0 /\ Sent(s)' = 0
    BY <2>1 DEF Waiting, Sent
  <2>3. AllUpTo(Output, s, 0)
    BY DEF AllUpTo
  <2> QED
    BY <1>5, <2>1, <2>2, <2>3 DEF ReaderOK
<1> QED
  BY <1>3, <1>4, <1>5

\* A step that leaves the readers and the output alone keeps the output as it should be.
LEMMA QuietStep ==
  ASSUME BackInv, Quiet, made' = made, reader' = reader,
         \/ rec' = rec
         \/ rec' = "gone"
         \/ rec = "none" /\ rec' = "open"
  PROVE  OutputOK'
<1>1. Output' = Output /\ InOrder(Output)' /\ NoHoles(Output)'
  BY QuietOutput DEF BackInv, OutputOK
<1>2. ASSUME NEW s \in Streams
      PROVE  ReaderOK(s)'
  <2>1. BackTypes /\ ReaderOK(s) /\ made'[s] = made[s] /\ reader'[s] = reader[s]
    BY DEF BackInv, OutputOK
  <2> QED
    BY <1>1, <2>1, IdleReader
<1> QED
  BY <1>1, <1>2 DEF OutputOK

\* A step of the reader of s leaves the other streams alone.
LEMMA OtherReaders ==
  ASSUME BackInv, Output' = Output, rec' = rec, NEW s \in Streams, ReaderOK(s)',
         \A t \in Streams \ {s} : made'[t] = made[t] /\ reader'[t] = reader[t]
  PROVE  \A t \in Streams : ReaderOK(t)'
<1>1. ASSUME NEW t \in Streams, t # s
      PROVE  ReaderOK(t)'
  <2>1. BackTypes /\ ReaderOK(t) /\ made'[t] = made[t] /\ reader'[t] = reader[t]
    BY <1>1 DEF BackInv, OutputOK
  <2> QED
    BY <2>1, IdleReader
<1> QED
  BY <1>1

\* What a step of the other side leaves alone stays as it should be, if no payload
\* disappears and events are of payloads.
LEMMA UiStays ==
  ASSUME UiInv, ui' = ui, DOMAIN payloads \subseteq DOMAIN payloads',
         events' \subseteq DOMAIN payloads', statuses' \subseteq {"connected", "closed"}
  PROVE  UiInv'
<1>1. /\ tab' = tab /\ term' = term /\ pending' = pending /\ expected' = expected
      /\ seqBuffer' = seqBuffer /\ gapTimer' = gapTimer /\ shown' = shown
  BY DEF ui
<1> DEFINE D == DOMAIN payloads
           E == DOMAIN payloads'
<1>2. /\ pending \in Seq(D) /\ shown \in Seq(D \cup {Reset}) /\ seqBuffer \subseteq D
      /\ D \subseteq E /\ D \cup {Reset} \subseteq E \cup {Reset}
  BY DEF UiInv, UiTypes
<1> HIDE DEF D, E
<1>3. pending \in Seq(E)
  BY <1>2, SeqMonotonic
<1>4. shown \in Seq(E \cup {Reset})
  BY <1>2, SeqMonotonic
<1>5. seqBuffer \subseteq E
  BY <1>2
<1>6. UiTypes'
  BY <1>1, <1>3, <1>4, <1>5 DEF UiInv, UiTypes, E
<1>7. ScreenOK(shown, expected, seqBuffer)'
  BY <1>1 DEF UiInv, ScreenOK
<1> QED
  BY <1>6, <1>7 DEF UiInv

-----------------------------------------------------------------------------
(* The steps of the session *)

\* Steps of the calls: neither the readers nor the pump take part.
LEMMA CallSteps ==
  ASSUME SshInv,
         \/ Register \/ (\E ok \in BOOLEAN : Shell(ok)) \/ Return \/ Exit
         \/ Wait \/ Close \/ EmitClosed
  PROVE  SshInv'
<1>1. BackTypes /\ LifeOK /\ UiTypes
  BY DEF SshInv, BackInv, UiInv
<1>2. /\ Quiet /\ made' = made /\ reader' = reader /\ ui' = ui /\ events' = events
      /\ payloads' = payloads
  <2>1. CASE Register
    BY <2>1 DEF Register, Quiet
  <2>2. CASE \E ok \in BOOLEAN : Shell(ok)
    BY <2>2 DEF Shell, Quiet
  <2>3. CASE Return
    BY <2>3 DEF Return, Quiet
  <2>4. CASE Exit
    BY <2>4 DEF Exit, Quiet
  <2>5. CASE Wait
    BY <2>5 DEF Wait, Quiet
  <2>6. CASE Close
    BY <2>6 DEF Close, Quiet
  <2>7. CASE EmitClosed
    BY <2>7 DEF EmitClosed, Quiet
  <2> QED
    BY <2>1, <2>2, <2>3, <2>4, <2>5, <2>6, <2>7
<1> DEFINE Calls == /\ call' \in {"dial", "shell", "banner", "returned", "failed"}
                    /\ rec' \in {"none", "open", "gone"} /\ pump' \in {"none", "running", "ended"}
                    /\ exited' \in BOOLEAN /\ closing' \in BOOLEAN /\ done' \in BOOLEAN
                    /\ statuses' \subseteq {"connected", "closed"}
                    /\ \/ rec' = rec
                       \/ rec' = "gone"
                       \/ rec = "none" /\ rec' = "open"
                    /\ call' = "dial" <=> rec' = "none"
                    /\ done' => rec' = "gone"
<1>3. /\ call \in {"dial", "shell", "banner", "returned", "failed"}
      /\ rec \in {"none", "open", "gone"} /\ pump \in {"none", "running", "ended"}
      /\ exited \in BOOLEAN /\ closing \in BOOLEAN /\ done \in BOOLEAN
      /\ statuses \subseteq {"connected", "closed"}
      /\ call = "dial" <=> rec = "none"
      /\ done => rec = "gone"
  BY <1>1 DEF BackTypes, UiTypes, LifeOK
<1>4. Calls
  <2>1. CASE Register
    BY <1>3, <2>1 DEF Register, ui
  <2>2. ASSUME NEW ok \in BOOLEAN, Shell(ok)
        PROVE  Calls
    <3>1. CASE ok
      BY <1>3, <2>2, <3>1 DEF Shell, ui
    <3>2. CASE ~ok
      BY <1>3, <2>2, <3>2 DEF Shell, cleanupSSH, ui
    <3> QED
      BY <3>1, <3>2
  <2>3. CASE Return
    BY <1>3, <2>3 DEF Return, ui
  <2>4. CASE Exit
    BY <1>3, <2>4 DEF Exit, ui
  <2>5. CASE Wait
    BY <1>3, <2>5 DEF Wait, cleanupSSH, ui
  <2>6. CASE Close
    BY <1>3, <2>6 DEF Close, cleanupSSH, ui
  <2>7. CASE EmitClosed
    BY <1>3, <2>7 DEF EmitClosed, ui
  <2> QED
    BY <2>1, <2>2, <2>3, <2>4, <2>5, <2>6, <2>7
<1>5. BackTypes'
  BY <1>1, <1>2, <1>4 DEF BackTypes, Quiet
<1>6. OutputOK'
  BY <1>2, <1>4, QuietStep DEF SshInv
<1>7. UiInv'
  <2>1. events \subseteq DOMAIN payloads
    BY <1>1 DEF UiTypes
  <2> QED
    BY <1>2, <1>4, <2>1, UiStays DEF SshInv
<1> QED
  BY <1>4, <1>5, <1>6, <1>7 DEF SshInv, BackInv, LifeOK

\* Steps of a reader that do not touch the channel.
LEMMA ReaderSteps ==
  ASSUME SshInv, NEW s \in Streams, Read(s) \/ Lookup(s) \/ GiveUp(s)
  PROVE  SshInv'
<1>1. BackTypes /\ LifeOK /\ UiTypes /\ OutputOK /\ ReaderOK(s)
  BY DEF SshInv, BackInv, UiInv, OutputOK
<1>2. /\ call' = call /\ rec' = rec /\ exited' = exited /\ closing' = closing /\ done' = done
      /\ pump' = pump /\ Quiet /\ ui' = ui /\ events' = events /\ statuses' = statuses
      /\ payloads' = payloads
  <2>1. CASE Read(s)
    BY <2>1 DEF Read, Quiet
  <2>2. CASE Lookup(s)
    BY <2>2 DEF Lookup, Quiet
  <2>3. CASE GiveUp(s)
    BY <2>3 DEF GiveUp, Quiet
  <2> QED
    BY <2>1, <2>2, <2>3
<1>3. /\ made[s] \in Nat /\ made[s] <= MaxChunks /\ MaxChunks \in Nat \ {0}
      /\ made \in [Streams -> 0..MaxChunks]
      /\ reader \in [Streams -> {"read", "lookup", "send"}]
      /\ rec \in {"none", "open", "gone"}
  BY <1>1, Bounds DEF BackTypes
<1>4. Output' = Output /\ InOrder(Output)' /\ NoHoles(Output)'
  BY <1>1, <1>2, QuietOutput DEF OutputOK
<1>5. Output \in Seq(Chunk)
  BY <1>1, OutputType
<1>6. /\ made' \in [Streams -> 0..MaxChunks]
      /\ reader' \in [Streams -> {"read", "lookup", "send"}]
      /\ ReaderOK(s)'
      /\ \A t \in Streams \ {s} : made'[t] = made[t] /\ reader'[t] = reader[t]
  <2>1. CASE Read(s)
    <3>1. /\ reader[s] = "read" /\ made[s] < Limit(s)
          /\ call # "dial"
          /\ made' = [made EXCEPT ![s] = made[s] + 1]
          /\ reader' = [reader EXCEPT ![s] = "lookup"]
      BY <2>1 DEF Read
    <3>2. made[s] + 1 \in 0..MaxChunks
      BY <1>3, <3>1 DEF Limit
    <3>3. /\ made' \in [Streams -> 0..MaxChunks]
          /\ reader' \in [Streams -> {"read", "lookup", "send"}]
          /\ \A t \in Streams \ {s} : made'[t] = made[t] /\ reader'[t] = reader[t]
      BY <1>3, <3>1, <3>2
    <3>4. made'[s] = made[s] + 1 /\ reader'[s] = "lookup" /\ rec # "none"
      BY <1>1, <1>3, <3>1 DEF LifeOK
    <3>5. Sent(s) = made[s] /\ AtMost(Output, s, made[s])
      BY <1>1, <3>1 DEF Sent, Waiting, ReaderOK
    <3>6. CASE rec = "open"
      <4>1. Sent(s)' = made[s] /\ AllUpTo(Output, s, made[s])
        BY <1>1, <1>2, <1>3, <3>4, <3>5, <3>6 DEF Sent, Waiting, ReaderOK
      <4> QED
        BY <1>2, <1>3, <1>4, <3>3, <3>4, <3>5, <4>1 DEF ReaderOK
    <3>7. CASE rec # "open"
      <4>1. Sent(s)' = made[s] + 1 /\ ~Waiting(s)'
        BY <1>2, <3>4, <3>7 DEF Sent, Waiting
      <4> DEFINE m == made[s]
                 k == made[s] + 1
      <4>2. m \in Int /\ k \in Int /\ m <= k
        BY <1>3
      <4> HIDE DEF m, k
      <4>3. AtMost(Output, s, k)
        BY <1>5, <3>5, <4>2, AtMostMore DEF m
      <4> QED
        BY <1>2, <1>3, <1>4, <3>3, <3>4, <3>7, <4>1, <4>3 DEF ReaderOK, k
    <3> QED
      BY <3>6, <3>7
  <2>2. CASE Lookup(s)
    <3>1. /\ reader[s] = "lookup" /\ made' = made
          /\ reader' = [reader EXCEPT ![s] = IF rec = "open" THEN "send" ELSE "read"]
      BY <2>2 DEF Lookup
    <3>2. /\ made' \in [Streams -> 0..MaxChunks]
          /\ reader' \in [Streams -> {"read", "lookup", "send"}]
          /\ reader'[s] = IF rec = "open" THEN "send" ELSE "read"
          /\ \A t \in Streams \ {s} : made'[t] = made[t] /\ reader'[t] = reader[t]
      BY <1>3, <3>1
    <3>3. rec # "none"
      BY <1>1, <3>1 DEF ReaderOK
    <3>4. (Waiting(s)' <=> Waiting(s)) /\ Sent(s)' = Sent(s)
      BY <1>2, <3>1, <3>2 DEF Waiting, Sent
    <3> QED
      BY <1>1, <1>2, <1>4, <3>1, <3>2, <3>3, <3>4 DEF ReaderOK
  <2>3. CASE GiveUp(s)
    <3>1. /\ reader[s] = "send" /\ done /\ made' = made
          /\ reader' = [reader EXCEPT ![s] = "read"]
      BY <2>3 DEF GiveUp
    <3>2. /\ made' \in [Streams -> 0..MaxChunks]
          /\ reader' \in [Streams -> {"read", "lookup", "send"}]
          /\ reader'[s] = "read"
          /\ \A t \in Streams \ {s} : made'[t] = made[t] /\ reader'[t] = reader[t]
      BY <1>3, <3>1
    <3>3. rec = "gone"
      BY <1>1, <3>1 DEF LifeOK
    <3>4. /\ ~Waiting(s)' /\ Sent(s)' = made[s]
          /\ Sent(s) = made[s] - 1 /\ AtMost(Output, s, made[s] - 1)
      BY <1>1, <3>1, <3>2 DEF Waiting, Sent, ReaderOK
    <3> DEFINE m == made[s] - 1
               k == made[s]
    <3>5. m \in Int /\ k \in Int /\ m <= k
      BY <1>3
    <3> HIDE DEF m, k
    <3>6. AtMost(Output, s, k)
      BY <1>5, <3>4, <3>5, AtMostMore DEF m
    <3> QED
      BY <1>2, <1>4, <3>1, <3>2, <3>3, <3>4, <3>6 DEF ReaderOK, k
  <2> QED
    BY <2>1, <2>2, <2>3
<1>7. \A t \in Streams : ReaderOK(t)'
  BY <1>2, <1>4, <1>6, OtherReaders DEF SshInv
<1>8. BackTypes'
  BY <1>1, <1>2, <1>6 DEF BackTypes, Quiet
<1>9. UiInv'
  <2>1. events \subseteq DOMAIN payloads /\ statuses \subseteq {"connected", "closed"}
    BY <1>1 DEF UiTypes
  <2> QED
    BY <1>2, <2>1, UiStays DEF SshInv
<1>10. LifeOK'
  BY <1>1, <1>2 DEF LifeOK
<1> QED
  BY <1>4, <1>7, <1>8, <1>9, <1>10 DEF SshInv, BackInv, OutputOK

\* A reader sends its chunk: it is the next one of its stream.
LEMMA SendStep ==
  ASSUME SshInv, NEW s \in Streams, Send(s)
  PROVE  SshInv'
<1>1. BackTypes /\ LifeOK /\ UiTypes /\ OutputOK /\ ReaderOK(s)
  BY DEF SshInv, BackInv, UiInv, OutputOK
<1> DEFINE c == [stream |-> s, n |-> made[s]]
<1>2. /\ reader[s] = "send" /\ Len(out) < OutCap /\ out' = Append(out, c)
      /\ reader' = [reader EXCEPT ![s] = "read"]
      /\ call' = call /\ rec' = rec /\ exited' = exited /\ closing' = closing /\ made' = made
      /\ done' = done /\ buf' = buf /\ payloads' = payloads /\ pump' = pump
      /\ events' = events /\ statuses' = statuses /\ ui' = ui
  BY DEF Send
<1>3. /\ made[s] \in Nat \ {0} /\ c \in Chunk
      /\ reader' \in [Streams -> {"read", "lookup", "send"}] /\ reader'[s] = "read"
      /\ \A t \in Streams \ {s} : made'[t] = made[t] /\ reader'[t] = reader[t]
  <2>1. made[s] \in 1..MaxChunks
    BY <1>1, <1>2, Bounds DEF BackTypes, ReaderOK
  <2>2. c \in Chunk
    BY <2>1 DEF Chunk
  <2>3. made[s] \in Nat \ {0}
    BY <2>1, Bounds
  <2>4. /\ reader' \in [Streams -> {"read", "lookup", "send"}] /\ reader'[s] = "read"
        /\ \A t \in Streams \ {s} : reader'[t] = reader[t]
    BY <1>1, <1>2 DEF BackTypes
  <2> QED
    BY <1>2, <2>2, <2>3, <2>4
<1>4. /\ out \in Seq(Chunk) /\ Output \in Seq(Chunk)
      /\ FlattenSeq(payloads) \in Seq(Chunk) /\ buf \in Seq(Chunk)
  BY <1>1, OutputType
<1> HIDE DEF c
<1>5. Output' = Append(Output, c)
  <2>1. PICK f \in Seq(Chunk) : f = FlattenSeq(payloads) \o buf
    <3>1. FlattenSeq(payloads) \o buf \in Seq(Chunk)
      BY <1>4, ConcatProperties
    <3> QED
      BY <3>1
  <2>2. f \o Append(out, c) = Append(f \o out, c)
    BY <1>3, <1>4, AtTheEnd
  <2> QED
    BY <1>2, <2>1, <2>2 DEF Output
<1> DEFINE m == made[s]
<1>6. /\ AtMost(Output, s, m - 1) /\ AllUpTo(Output, s, m - 1)
      /\ InOrder(Output) /\ NoHoles(Output)
  BY <1>1, <1>2 DEF ReaderOK, Sent, Waiting, OutputOK
<1>7. m \in Nat \ {0} /\ [stream |-> s, n |-> m] \in Chunk /\ c = [stream |-> s, n |-> m]
  BY <1>3 DEF c
<1> HIDE DEF m
<1>8. /\ InOrder(Append(Output, c)) /\ NoHoles(Append(Output, c))
      /\ AtMost(Append(Output, c), s, m) /\ AllUpTo(Append(Output, c), s, m)
  BY <1>4, <1>6, <1>7, NextChunk
<1>9. ReaderOK(s)'
  <2>1. ~Waiting(s)' /\ Sent(s)' = made[s] /\ rec # "none"
    BY <1>1, <1>2, <1>3 DEF Waiting, Sent, ReaderOK
  <2> QED
    BY <1>2, <1>3, <1>5, <1>8, <2>1 DEF ReaderOK, m
<1>10. ASSUME NEW t \in Streams, t # s
       PROVE  ReaderOK(t)'
  <2>1. ReaderOK(t) /\ made'[t] = made[t] /\ reader'[t] = reader[t] /\ c.stream # t
    BY <1>1, <1>3, <1>10 DEF OutputOK, c
  <2>2. (Waiting(t)' <=> Waiting(t)) /\ Sent(t)' = Sent(t)
    BY <1>2, <2>1 DEF Waiting, Sent
  <2> DEFINE k == Sent(t)
  <2> HIDE DEF k
  <2>3. /\ AtMost(Output, t, k) => AtMost(Append(Output, c), t, k)
        /\ AllUpTo(Output, t, k) => AllUpTo(Append(Output, c), t, k)
    BY <1>3, <1>4, <2>1, OtherStream
  <2> QED
    BY <1>2, <1>5, <2>1, <2>2, <2>3 DEF ReaderOK, k
<1>11. BackTypes'
  <2>1. out' \in Seq(Chunk) /\ Len(out') = Len(out) + 1
    BY <1>2, <1>3, <1>4, AppendProperties
  <2>2. Len(out') <= OutCap
    <3>1. Len(out) \in Nat
      BY <1>4
    <3> QED
      BY <1>2, <2>1, <3>1, Bounds
  <2> QED
    BY <1>1, <1>2, <1>3, <2>1, <2>2 DEF BackTypes
<1>12. UiInv'
  <2>1. events \subseteq DOMAIN payloads /\ statuses \subseteq {"connected", "closed"}
    BY <1>1 DEF UiTypes
  <2> QED
    BY <1>2, <2>1, UiStays DEF SshInv
<1>13. OutputOK'
  BY <1>5, <1>8, <1>9, <1>10 DEF OutputOK
<1>14. LifeOK'
  BY <1>1, <1>2 DEF LifeOK
<1> QED
  BY <1>11, <1>12, <1>13, <1>14 DEF SshInv, BackInv

\* Sending the buffer as a payload moves nothing in the output.
LEMMA Flushed ==
  ASSUME NEW b \in Seq(Chunk), flush(b), events \subseteq DOMAIN payloads,
         payloads \in Seq(Seq(Chunk))
  PROVE  /\ buf' = <<>> /\ payloads' \in Seq(Seq(Chunk))
         /\ DOMAIN payloads \subseteq DOMAIN payloads' /\ events' \subseteq DOMAIN payloads'
         /\ FlattenSeq(payloads') \o buf' = FlattenSeq(payloads) \o b
<1> DEFINE f == FlattenSeq(payloads)
<1>1. buf' = <<>>
  BY DEF flush
<1>2. CASE b = <<>>
  BY <1>1, <1>2 DEF flush
<1>3. CASE b # <<>>
  <2>1. payloads' = Append(payloads, b) /\ events' = events \cup {Len(payloads) + 1}
    BY <1>3 DEF flush
  <2>2. f \in Seq(Chunk) /\ payloads' \in Seq(Seq(Chunk)) /\ FlattenSeq(payloads') = f \o b
    BY <2>1, FlattenAppend
  <2>3. /\ Len(payloads) \in Nat /\ DOMAIN payloads = 1..Len(payloads)
        /\ DOMAIN payloads' = 1..(Len(payloads) + 1)
    BY <2>1, Appended
  <2>4. DOMAIN payloads \subseteq DOMAIN payloads' /\ events' \subseteq DOMAIN payloads'
    BY <2>1, <2>3
  <2>5. f \o b \in Seq(Chunk)
    BY <2>2, ConcatProperties
  <2>6. (f \o b) \o <<>> = f \o b
    BY <2>5, ConcatEmptySeq
  <2> QED
    BY <1>1, <2>2, <2>4, <2>6
<1> QED
  BY <1>2, <1>3

\* A step that moves chunks on to the payloads, and changes nothing else.
LEMMA PumpMoves ==
  ASSUME SshInv, call' = call, rec' = rec, exited' = exited, closing' = closing, made' = made,
         reader' = reader, done' = done, pump' \in {"none", "running", "ended"},
         statuses' = statuses, ui' = ui, Output' = Output,
         out' \in Seq(Chunk), Len(out') <= OutCap, buf' \in Seq(Chunk), Len(buf') < FlushAt,
         payloads' \in Seq(Seq(Chunk)), DOMAIN payloads \subseteq DOMAIN payloads',
         events' \subseteq DOMAIN payloads'
  PROVE  SshInv'
<1>1. BackTypes /\ LifeOK /\ UiTypes /\ OutputOK
  BY DEF SshInv, BackInv, UiInv
<1>2. BackTypes'
  BY <1>1 DEF BackTypes
<1>3. LifeOK'
  BY <1>1 DEF LifeOK
<1>4. InOrder(Output)' /\ NoHoles(Output)'
  BY <1>1 DEF OutputOK, InOrder, NoHoles
<1>5. ASSUME NEW s \in Streams
      PROVE  ReaderOK(s)'
  <2>1. ReaderOK(s) /\ made'[s] = made[s] /\ reader'[s] = reader[s]
    BY <1>1 DEF OutputOK
  <2> QED
    BY <1>1, <2>1, IdleReader
<1>6. UiInv'
  <2>1. statuses' \subseteq {"connected", "closed"}
    BY <1>1 DEF UiTypes
  <2> QED
    BY <2>1, UiStays DEF SshInv
<1> QED
  BY <1>2, <1>3, <1>4, <1>5, <1>6 DEF SshInv, BackInv, OutputOK

\* The pump takes a chunk, and sends a full buffer.
LEMMA ReceiveStep ==
  ASSUME SshInv, PumpReceive
  PROVE  SshInv'
<1> DEFINE b == Append(buf, Head(out))
           f == FlattenSeq(payloads)
<1>1. BackTypes /\ UiTypes /\ pump \in {"none", "running", "ended"}
  BY DEF SshInv, BackInv, UiInv, BackTypes
<1>2. /\ out # <<>> /\ out' = Tail(out)
      /\ call' = call /\ rec' = rec /\ exited' = exited /\ closing' = closing /\ made' = made
      /\ reader' = reader /\ done' = done /\ pump' = pump /\ statuses' = statuses /\ ui' = ui
      /\ IF Len(b) >= FlushAt THEN flush(b) ELSE buf' = b /\ UNCHANGED <<payloads, events>>
  BY DEF PumpReceive
<1>3. /\ f \in Seq(Chunk) /\ buf \in Seq(Chunk) /\ out \in Seq(Chunk)
      /\ payloads \in Seq(Seq(Chunk)) /\ events \subseteq DOMAIN payloads
      /\ Len(out) <= OutCap
  BY <1>1, OutputType DEF BackTypes, UiTypes
<1>4. b \in Seq(Chunk) /\ Tail(out) \in Seq(Chunk) /\ Len(Tail(out)) <= OutCap
  <2>1. Head(out) \in Chunk /\ Tail(out) \in Seq(Chunk) /\ Len(Tail(out)) = Len(out) - 1
    BY <1>2, <1>3, HeadTailProperties
  <2>2. Len(out) \in Nat
    BY <1>3
  <2>3. b \in Seq(Chunk)
    BY <1>3, <2>1, AppendProperties
  <2> QED
    BY <1>3, <2>1, <2>2, <2>3, Bounds
<1>5. (f \o b) \o Tail(out) = (f \o buf) \o out
  <2> HIDE DEF f
  <2>1. Joined(f, Append(buf, Head(out)), Tail(out)) = Joined(f, buf, out)
    BY <1>2, <1>3, Shift
  <2> QED
    BY <2>1 DEF Joined
<1> HIDE DEF b
<1>6. /\ buf' \in Seq(Chunk) /\ Len(buf') < FlushAt
      /\ payloads' \in Seq(Seq(Chunk)) /\ DOMAIN payloads \subseteq DOMAIN payloads'
      /\ events' \subseteq DOMAIN payloads' /\ FlattenSeq(payloads') \o buf' = f \o b
  <2>1. CASE Len(b) >= FlushAt
    <3>1. /\ buf' = <<>> /\ payloads' \in Seq(Seq(Chunk))
          /\ DOMAIN payloads \subseteq DOMAIN payloads' /\ events' \subseteq DOMAIN payloads'
          /\ FlattenSeq(payloads') \o buf' = f \o b
      BY <1>2, <1>3, <1>4, <2>1, Flushed
    <3>2. Len(<<>>) = 0 /\ <<>> \in Seq(Chunk)
      BY EmptySeq
    <3> QED
      BY <3>1, <3>2, Bounds
  <2>2. CASE ~(Len(b) >= FlushAt)
    <3>1. buf' = b /\ payloads' = payloads /\ events' = events
      BY <1>2, <2>2
    <3>2. Len(b) \in Nat
      BY <1>4
    <3> QED
      BY <1>3, <1>4, <2>2, <3>1, <3>2, Bounds
  <2> QED
    BY <2>1, <2>2
<1>7. Output' = Output
  BY <1>2, <1>5, <1>6 DEF Output
<1> QED
  BY <1>1, <1>2, <1>4, <1>6, <1>7, PumpMoves

\* The pump sends what it has, on the tick or at the end.
LEMMA FlushSteps ==
  ASSUME SshInv, PumpTick \/ PumpDone
  PROVE  SshInv'
<1>1. BackTypes /\ UiTypes /\ pump \in {"none", "running", "ended"}
  BY DEF SshInv, BackInv, UiInv, BackTypes
<1>2. /\ flush(buf) /\ pump' \in {"none", "running", "ended"} /\ out' = out
      /\ call' = call /\ rec' = rec /\ exited' = exited /\ closing' = closing /\ made' = made
      /\ reader' = reader /\ done' = done /\ statuses' = statuses /\ ui' = ui
  <2>1. CASE PumpTick
    BY <1>1, <2>1 DEF PumpTick
  <2>2. CASE PumpDone
    BY <2>2 DEF PumpDone
  <2> QED
    BY <2>1, <2>2
<1>3. /\ buf \in Seq(Chunk) /\ out \in Seq(Chunk) /\ payloads \in Seq(Seq(Chunk))
      /\ events \subseteq DOMAIN payloads /\ Len(out) <= OutCap
  BY <1>1 DEF BackTypes, UiTypes
<1>4. /\ buf' = <<>> /\ payloads' \in Seq(Seq(Chunk))
      /\ DOMAIN payloads \subseteq DOMAIN payloads' /\ events' \subseteq DOMAIN payloads'
      /\ FlattenSeq(payloads') \o buf' = FlattenSeq(payloads) \o buf
  BY <1>2, <1>3, Flushed
<1>5. buf' \in Seq(Chunk) /\ Len(buf') < FlushAt
  <2>1. Len(<<>>) = 0 /\ <<>> \in Seq(Chunk)
    BY EmptySeq
  <2> QED
    BY <1>4, <2>1, Bounds
<1>6. Output' = Output
  BY <1>2, <1>4 DEF Output
<1> QED
  BY <1>2, <1>3, <1>4, <1>5, <1>6, PumpMoves

-----------------------------------------------------------------------------
(* The steps of the user interface *)

\* A step of the user interface leaves the other side as it should be.
LEMMA BackStays ==
  ASSUME BackInv, backend' = backend
  PROVE  BackInv'
<1>1. /\ call' = call /\ rec' = rec /\ exited' = exited /\ closing' = closing /\ made' = made
      /\ reader' = reader /\ out' = out /\ done' = done /\ buf' = buf /\ payloads' = payloads
      /\ pump' = pump
  BY DEF backend
<1>2. OutputOK'
  BY <1>1, QuietStep DEF Quiet
<1> QED
  BY <1>1, <1>2 DEF BackInv, BackTypes, LifeOK

\* The payloads are numbered from 1.
LEMMA Numbered ==
  ASSUME BackTypes
  PROVE  Len(payloads) \in Nat /\ DOMAIN payloads = 1..Len(payloads)
  BY DEF BackTypes

\* What drain does to the terminal, if nothing is buffered that was passed over.
LEMMA DrainStep ==
  ASSUME SshInv, NEW e \in Nat \ {0}, NEW b \in SUBSET (DOMAIN payloads), NEW screen,
         screen \in Seq(DOMAIN payloads \cup {Reset}), ScreenOK(screen, e, b),
         drain(e, b, screen)
  PROVE  /\ expected' \in Nat \ {0} /\ seqBuffer' \subseteq DOMAIN payloads
         /\ shown' \in Seq(DOMAIN payloads \cup {Reset})
         /\ ScreenOK(shown, expected, seqBuffer)'
<1> DEFINE l == Len(payloads)
<1>1. l \in Nat /\ DOMAIN payloads = 1..l
  BY Numbered DEF SshInv, BackInv
<1> HIDE DEF l
<1>2. /\ expected' = e + Cardinality(Run(e, b)) /\ seqBuffer' = b \ Run(e, b)
      /\ shown' = Drained(e, b, screen)
  BY DEF drain, Drained
<1>3. b \in SUBSET (1..l) /\ screen \in Seq((1..l) \cup {Reset})
  BY <1>1
<1>4. /\ e + Cardinality(Run(e, b)) \in Nat \ {0}
      /\ Drained(e, b, screen) \in Seq((1..l) \cup {Reset})
      /\ ScreenOK(Drained(e, b, screen), e + Cardinality(Run(e, b)), b \ Run(e, b))
  BY <1>1, <1>3, DrainKeeps
<1>5. seqBuffer' \subseteq DOMAIN payloads
  BY <1>2
<1>6. ScreenOK(shown', expected', seqBuffer')
  BY <1>2, <1>4
<1> QED
  BY <1>1, <1>2, <1>4, <1>5, <1>6

\* Payloads are written, or wait for the ones before them.
LEMMA WriteStep ==
  ASSUME SshInv, NEW new \in SUBSET (DOMAIN payloads), writeSSHPayload(new)
  PROVE  /\ expected' \in Nat \ {0} /\ seqBuffer' \subseteq DOMAIN payloads
         /\ shown' \in Seq(DOMAIN payloads \cup {Reset}) /\ gapTimer' \in BOOLEAN
         /\ ScreenOK(shown, expected, seqBuffer)'
<1> DEFINE b == seqBuffer \cup {p \in new : p >= expected}
<1>1. /\ expected \in Nat \ {0} /\ seqBuffer \subseteq DOMAIN payloads /\ gapTimer \in BOOLEAN
      /\ shown \in Seq(DOMAIN payloads \cup {Reset}) /\ ScreenOK(shown, expected, seqBuffer)
  BY DEF SshInv, UiInv, UiTypes
<1>2. drain(expected, b, shown) /\ gapTimer' \in BOOLEAN
  BY <1>1 DEF writeSSHPayload
<1>3. b \in SUBSET (DOMAIN payloads) /\ \A p \in b : p >= expected
  BY <1>1 DEF ScreenOK
<1> HIDE DEF b
<1>4. ScreenOK(shown, expected, b)
  BY <1>1, <1>3, ScreenWaits
<1>5. /\ expected' \in Nat \ {0} /\ seqBuffer' \subseteq DOMAIN payloads
      /\ shown' \in Seq(DOMAIN payloads \cup {Reset}) /\ ScreenOK(shown, expected, seqBuffer)'
  BY <1>1, <1>2, <1>3, <1>4, DrainStep
<1> QED
  BY <1>2, <1>5

\* Events and states arrive, the list and the terminal change.
LEMMA UiSteps ==
  ASSUME SshInv,
         \/ AddSession \/ (\E st \in statuses : StatusArrives(st))
         \/ (\E p \in events : PayloadArrives(p)) \/ Mount \/ GapTimer \/ Dispose
  PROVE  SshInv'
<1>1. BackInv /\ UiTypes /\ ScreenOK(shown, expected, seqBuffer)
  BY DEF SshInv, UiInv
<1>2. backend' = backend
  <2>1. CASE AddSession
    BY <2>1 DEF AddSession
  <2>2. CASE \E st \in statuses : StatusArrives(st)
    BY <2>2 DEF StatusArrives
  <2>3. CASE \E p \in events : PayloadArrives(p)
    BY <2>3 DEF PayloadArrives
  <2>4. CASE Mount
    BY <2>4 DEF Mount
  <2>5. CASE GapTimer
    BY <2>5 DEF GapTimer
  <2>6. CASE Dispose
    BY <2>6 DEF Dispose
  <2> QED
    BY <2>1, <2>2, <2>3, <2>4, <2>5, <2>6
<1>3. payloads' = payloads /\ BackInv'
  BY <1>1, <1>2, BackStays DEF backend
<1> DEFINE D == DOMAIN payloads
<1>4. /\ gapTimer \in BOOLEAN /\ expected \in Nat \ {0}
      /\ events \subseteq D /\ seqBuffer \subseteq D /\ pending \in Seq(D)
      /\ statuses \subseteq {"connected", "closed"}
      /\ tab \in {"none", "connected", "closed", "removed"}
      /\ term \in {"none", "mounted", "disposed"}
      /\ shown \in Seq(D \cup {Reset})
  BY <1>1 DEF UiTypes
<1> DEFINE Goal == /\ gapTimer' \in BOOLEAN /\ expected' \in Nat \ {0}
                   /\ events' \subseteq D /\ seqBuffer' \subseteq D /\ pending' \in Seq(D)
                   /\ statuses' \subseteq {"connected", "closed"}
                   /\ tab' \in {"none", "connected", "closed", "removed"}
                   /\ term' \in {"none", "mounted", "disposed"}
                   /\ shown' \in Seq(D \cup {Reset})
                   /\ ScreenOK(shown, expected, seqBuffer)'
<1> SUFFICES Goal
  <2> HIDE DEF Goal
  <2>1. Goal => UiInv'
    BY <1>3 DEF Goal, UiInv, UiTypes, D
  <2> QED
    BY <1>3, <2>1 DEF SshInv
<1>5. <<>> \in Seq(D) /\ D \subseteq Nat
  <2>1. D \subseteq Nat
    BY <1>1, Numbered DEF BackInv
  <2>2. <<>> \in Seq(D)
    BY EmptySeq
  <2> QED
    BY <2>1, <2>2
<1> HIDE DEF D
<1>6. ASSUME shown' = shown, expected' = expected, seqBuffer' = seqBuffer
       PROVE  ScreenOK(shown, expected, seqBuffer)'
  BY <1>1, <1>6 DEF ScreenOK
<1>7. CASE AddSession
  BY <1>4, <1>7, <1>6 DEF AddSession
<1>8. CASE \E st \in statuses : StatusArrives(st)
  <2>1. PICK st \in statuses : StatusArrives(st)
    BY <1>8
  <2>2. tab' \in {"none", "connected", "closed", "removed"} /\ statuses' \subseteq {"connected", "closed"}
    BY <1>4, <2>1 DEF StatusArrives
  <2> QED
    BY <1>4, <1>6, <2>1, <2>2 DEF StatusArrives
<1>9. CASE \E p \in events : PayloadArrives(p)
  <2>1. PICK p \in events : PayloadArrives(p)
    BY <1>9
  <2>2. p \in D /\ {p} \in SUBSET D /\ events' \subseteq D
    BY <1>4, <2>1 DEF PayloadArrives
  <2>3. statuses' = statuses /\ tab' = tab /\ term' = term
    BY <2>1 DEF PayloadArrives
  <2>4. CASE term = "mounted"
    <3>1. writeSSHPayload({p}) /\ pending' = pending
      BY <2>1, <2>4 DEF PayloadArrives
    <3>2. /\ expected' \in Nat \ {0} /\ seqBuffer' \subseteq D /\ gapTimer' \in BOOLEAN
          /\ shown' \in Seq(D \cup {Reset}) /\ ScreenOK(shown, expected, seqBuffer)'
      BY <2>2, <3>1, WriteStep DEF D
    <3> QED
      BY <1>4, <2>2, <2>3, <3>1, <3>2
  <2>5. CASE term # "mounted"
    <3> DEFINE all == Append(pending, p)
    <3>1. /\ pending' = IF Len(all) > PendingCap THEN Tail(all) ELSE all
          /\ expected' = expected /\ seqBuffer' = seqBuffer /\ gapTimer' = gapTimer
          /\ shown' = shown
      BY <2>1, <2>5 DEF PayloadArrives
    <3>2. all \in Seq(D) /\ all # <<>>
      BY <1>4, <2>2, AppendProperties
    <3> HIDE DEF all
    <3>3. Tail(all) \in Seq(D)
      BY <3>2, HeadTailProperties
    <3>4. pending' \in Seq(D)
      BY <3>1, <3>2, <3>3
    <3> QED
      BY <1>4, <1>6, <2>2, <2>3, <3>1, <3>4
  <2> QED
    BY <2>4, <2>5
<1>10. CASE Mount
  <2>1. /\ writeSSHPayload(ToSet(pending)) /\ term' = "mounted" /\ pending' = <<>>
        /\ events' = events /\ statuses' = statuses /\ tab' = tab
    BY <1>10 DEF Mount
  <2>2. ToSet(pending) \in SUBSET D
    BY <1>4 DEF ToSet
  <2> DEFINE new == ToSet(pending)
  <2> HIDE DEF new
  <2>3. new \in SUBSET (DOMAIN payloads) /\ writeSSHPayload(new)
    BY <2>1, <2>2 DEF new, D
  <2>4. /\ expected' \in Nat \ {0} /\ seqBuffer' \subseteq D /\ gapTimer' \in BOOLEAN
        /\ shown' \in Seq(D \cup {Reset}) /\ ScreenOK(shown, expected, seqBuffer)'
    BY <2>3, WriteStep DEF D
  <2> QED
    BY <1>4, <1>5, <2>1, <2>4
<1>11. CASE GapTimer
  <2>1. /\ gapTimer' = FALSE /\ pending' = pending /\ events' = events
        /\ statuses' = statuses /\ tab' = tab /\ term' = term
    BY <1>11 DEF GapTimer
  <2>2. CASE seqBuffer = {}
    <3>1. expected' = expected /\ seqBuffer' = seqBuffer /\ shown' = shown
      BY <1>11, <2>2 DEF GapTimer
    <3> QED
      BY <1>4, <1>6, <2>1, <3>1
  <2>3. CASE seqBuffer # {}
    <3> DEFINE e == Min(seqBuffer)
               screen == Append(shown, Reset)
    <3>1. drain(e, seqBuffer, screen)
      BY <1>11, <2>3 DEF GapTimer
    <3>2. e \in seqBuffer /\ \A p \in seqBuffer : p >= e
      <4>1. seqBuffer \in SUBSET Nat
        BY <1>4, <1>5
      <4> QED
        BY <2>3, <4>1, FirstOf
    <3> HIDE DEF e, screen
    <3>3. \A p \in seqBuffer : p >= expected
      BY <1>1 DEF ScreenOK
    <3>4. e >= expected /\ e \in Nat \ {0}
      <4>1. e \in Nat /\ e >= expected
        BY <1>4, <1>5, <3>2, <3>3
      <4> QED
        BY <1>4, <4>1
    <3>5. screen \in Seq(D \cup {Reset})
      BY <1>4, AppendProperties DEF screen
    <3>6. D \cup {Reset} \in SUBSET Nat /\ Reset \in D \cup {Reset}
      BY <1>5 DEF Reset
    <3> DEFINE S == D \cup {Reset}
    <3> HIDE DEF S
    <3>7. S \in SUBSET Nat /\ shown \in Seq(S) /\ Reset \in S /\ expected \in Nat
      BY <1>4, <3>6 DEF S
    <3>8. ScreenOK(screen, e, seqBuffer)
      BY <1>1, <3>2, <3>4, <3>7, ClearKeeps DEF screen
    <3>9. /\ expected' \in Nat \ {0} /\ seqBuffer' \subseteq D
          /\ shown' \in Seq(D \cup {Reset}) /\ ScreenOK(shown, expected, seqBuffer)'
      <4>1. seqBuffer \in SUBSET (DOMAIN payloads)
        BY <1>4 DEF D
      <4>2. screen \in Seq(DOMAIN payloads \cup {Reset})
        BY <3>5 DEF D
      <4> QED
        BY <3>1, <3>4, <3>8, <4>1, <4>2, DrainStep DEF D
    <3> QED
      BY <1>4, <2>1, <3>9
  <2> QED
    BY <2>2, <2>3
<1>12. CASE Dispose
  BY <1>4, <1>5, <1>12, <1>6 DEF Dispose
<1> QED
  BY <1>7, <1>8, <1>9, <1>10, <1>11, <1>12

-----------------------------------------------------------------------------
(* From the output to the screen *)

\* The i-th chunk of payload a comes before the j-th of payload b.
Before(a, i, b, j) == a < b \/ (a = b /\ i < j)

\* Across the payloads the chunks of a stream are in their order, and without holes.
LEMMA PayloadOrder ==
  ASSUME SshInv, NEW a \in DOMAIN payloads, NEW i \in DOMAIN payloads[a],
         NEW b \in DOMAIN payloads, NEW j \in DOMAIN payloads[b], Before(a, i, b, j),
         payloads[a][i].stream = payloads[b][j].stream
  PROVE  payloads[a][i].n < payloads[b][j].n
<1>1. BackTypes /\ InOrder(Output) /\ NoHoles(Output)
  BY DEF SshInv, BackInv, OutputOK
<1> DEFINE p == FlattenSeq(payloads)
           l == Len(payloads)
<1>2. /\ p \in Seq(Chunk) /\ buf \o out \in Seq(Chunk) /\ Output = p \o (buf \o out)
      /\ payloads \in Seq(Seq(Chunk)) /\ l \in Nat /\ DOMAIN payloads = 1..l
  BY <1>1, OutputType, Numbered DEF BackTypes
<1> DEFINE t == buf \o out
<1> HIDE DEF p, t
<1>3. InOrder(p)
  BY <1>1, <1>2, Beginning DEF t
<1>4. PICK blk, idx : Places(p, payloads, l, blk, idx)
  BY <1>2, FlattenPlaces DEF p
<1> HIDE DEF l
<1>5. PICK x \in DOMAIN p : blk[x] = a /\ idx[x] = i
  BY <1>2, <1>4 DEF Places
<1>6. PICK y \in DOMAIN p : blk[y] = b /\ idx[y] = j
  BY <1>2, <1>4 DEF Places
<1>7. p[x] = payloads[a][i] /\ p[y] = payloads[b][j]
  BY <1>4, <1>5, <1>6 DEF Places
<1>8. /\ a \in Nat /\ b \in Nat /\ i \in Nat /\ j \in Nat /\ x \in Nat /\ y \in Nat
  <2>1. a \in Nat /\ b \in Nat /\ x \in Nat /\ y \in Nat
    BY <1>2
  <2>2. i \in Nat /\ j \in Nat
    BY <1>4, <1>5, <1>6 DEF Places
  <2> QED
    BY <2>1, <2>2
<1>9. ~(y < x)
  <2>1. y < x => (b < a \/ (b = a /\ j < i))
    BY <1>4, <1>5, <1>6 DEF Places
  <2> QED
    BY <1>8, <2>1 DEF Before
<1>10. x # y
  BY <1>5, <1>6, <1>8 DEF Before
<1>11. x < y
  BY <1>8, <1>9, <1>10
<1> QED
  BY <1>3, <1>7, <1>11 DEF InOrder

\* Every chunk of a stream comes after all the earlier ones.
LEMMA PayloadNoHoles ==
  ASSUME SshInv, NEW a \in DOMAIN payloads, NEW i \in DOMAIN payloads[a],
         NEW k \in 1..(payloads[a][i].n - 1)
  PROVE  \E b \in DOMAIN payloads : \E j \in DOMAIN payloads[b] :
           /\ Before(b, j, a, i)
           /\ payloads[b][j] = [stream |-> payloads[a][i].stream, n |-> k]
<1>1. BackTypes /\ InOrder(Output) /\ NoHoles(Output)
  BY DEF SshInv, BackInv, OutputOK
<1> DEFINE p == FlattenSeq(payloads)
           l == Len(payloads)
<1>2. /\ p \in Seq(Chunk) /\ buf \o out \in Seq(Chunk) /\ Output = p \o (buf \o out)
      /\ payloads \in Seq(Seq(Chunk)) /\ l \in Nat /\ DOMAIN payloads = 1..l
  BY <1>1, OutputType, Numbered DEF BackTypes
<1> DEFINE t == buf \o out
<1> HIDE DEF p, t
<1>3. NoHoles(p)
  BY <1>1, <1>2, Beginning DEF t
<1>4. PICK blk, idx : Places(p, payloads, l, blk, idx)
  BY <1>2, FlattenPlaces DEF p
<1> HIDE DEF l
<1>5. PICK x \in DOMAIN p : blk[x] = a /\ idx[x] = i
  BY <1>2, <1>4 DEF Places
<1>6. p[x] = payloads[a][i]
  BY <1>4, <1>5 DEF Places
<1>7. PICK y \in 1..(x - 1) : p[y] = [stream |-> payloads[a][i].stream, n |-> k]
  BY <1>3, <1>6 DEF NoHoles
<1>8. x \in Nat /\ y \in DOMAIN p /\ y < x
  <2>1. Len(p) \in Nat /\ DOMAIN p = 1..Len(p)
    BY <1>2
  <2> QED
    BY <2>1
<1>9. /\ blk[y] \in DOMAIN payloads /\ idx[y] \in DOMAIN payloads[blk[y]]
      /\ p[y] = payloads[blk[y]][idx[y]]
      /\ blk[y] < a \/ (blk[y] = a /\ idx[y] < i)
  BY <1>2, <1>4, <1>5, <1>8 DEF Places
<1> QED
  BY <1>7, <1>9 DEF Before

\* What the screen shows, number by number.
Entries == [i \in DOMAIN shown |-> IF shown[i] = Reset THEN <<Cleared>> ELSE payloads[shown[i]]]

\* Its parts have their places there.
LEMMA ScreenPlaces ==
  ASSUME SshInv
  PROVE  /\ Screen \in Seq(Chunk \cup {Cleared}) /\ DOMAIN Entries = DOMAIN shown
         /\ Len(shown) \in Nat /\ DOMAIN shown = 1..Len(shown)
         /\ \A i \in DOMAIN shown :
              /\ shown[i] # Reset => shown[i] \in DOMAIN payloads /\ Entries[i] = payloads[shown[i]]
              /\ shown[i] = Reset => Entries[i] = <<Cleared>>
         /\ \E blk, idx : Places(Screen, Entries, Len(shown), blk, idx)
<1> DEFINE S == Chunk \cup {Cleared}
           D == DOMAIN payloads
<1>1. payloads \in Seq(Seq(Chunk)) /\ shown \in Seq(D \cup {Reset})
  BY DEF SshInv, BackInv, UiInv, BackTypes, UiTypes
<1> HIDE DEF D
<1>2. /\ Len(shown) \in Nat /\ DOMAIN shown = 1..Len(shown)
      /\ \A i \in DOMAIN shown : shown[i] \in D \cup {Reset}
  BY <1>1
<1>3. \A i \in DOMAIN shown :
        /\ shown[i] # Reset => shown[i] \in D /\ Entries[i] = payloads[shown[i]]
        /\ shown[i] = Reset => Entries[i] = <<Cleared>>
  BY <1>2 DEF Entries
<1>4. \A a \in D : payloads[a] \in Seq(S)
  <2>1. ASSUME NEW a \in D
        PROVE  payloads[a] \in Seq(S)
    <3>1. payloads[a] \in Seq(Chunk)
      BY <1>1 DEF D
    <3>2. Chunk \subseteq S
      OBVIOUS
    <3> HIDE DEF S
    <3> QED
      BY <3>1, <3>2, SeqMonotonic
  <2> QED
    BY <2>1
<1>5. <<Cleared>> \in Seq(S)
  <2>1. Cleared \in S
    OBVIOUS
  <2> HIDE DEF S
  <2> QED
    BY <2>1
<1> HIDE DEF S
<1>6. \A i \in 1..Len(shown) : Entries[i] \in Seq(S)
  BY <1>2, <1>3, <1>4, <1>5
<1>7. Entries \in Seq(Seq(S)) /\ Len(Entries) = Len(shown) /\ DOMAIN Entries = DOMAIN shown
  <2> DEFINE m == Len(shown)
             e == Entries
  <2>1. e = [i \in 1..m |-> e[i]] /\ m \in Nat
    BY <1>2 DEF Entries
  <2> HIDE DEF e, m
  <2>2. \A i \in 1..m : e[i] \in Seq(S)
    BY <1>6 DEF e, m
  <2>3. e \in [1..m -> Seq(S)]
    BY <2>1, <2>2
  <2>4. e \in Seq(Seq(S)) /\ Len(e) = m /\ DOMAIN e = 1..m
    BY <2>1, <2>3, SeqDef
  <2> QED
    BY <1>2, <2>4 DEF e, m
<1>8. Screen = FlattenSeq(Entries)
  BY DEF Screen, Entries
<1>9. \E blk, idx : Places(Screen, Entries, Len(shown), blk, idx)
  BY <1>7, <1>8, FlattenPlaces
<1>10. Screen \in Seq(S)
  <2>1. PICK fl : IsFlat(S, Entries, fl)
    BY <1>7, FlatExists
  <2> QED
    BY <1>7, <1>8, <2>1, FlattenIsFlat
<1> QED
  BY <1>2, <1>3, <1>7, <1>9, <1>10 DEF S, D

\* Nothing of a payload looks like the mark.
LEMMA ChunksAreNotMarks ==
  ASSUME BackTypes, NEW a \in DOMAIN payloads, NEW i \in DOMAIN payloads[a]
  PROVE  payloads[a][i] \in Chunk /\ payloads[a][i].stream # Reset
                                  /\ payloads[a][i] # Cleared
<1>1. payloads[a] \in Seq(Chunk)
  BY DEF BackTypes
<1>2. payloads[a][i] \in Chunk
  BY <1>1
<1>3. payloads[a][i].stream \in Streams
  BY <1>2 DEF Chunk
<1> QED
  BY <1>2, <1>3, SshAssumption DEF Cleared

\* What the place x of the screen is of, unless it is a mark.
LEMMA ScreenEntry ==
  ASSUME SshInv, NEW blk, NEW idx, Places(Screen, Entries, Len(shown), blk, idx),
         NEW x \in DOMAIN Screen
  PROVE  /\ blk[x] \in DOMAIN shown
         /\ Screen[x] = Cleared <=> shown[blk[x]] = Reset
         /\ Screen[x] # Cleared => /\ shown[blk[x]] \in DOMAIN payloads
                                   /\ idx[x] \in DOMAIN payloads[shown[blk[x]]]
                                   /\ Screen[x] = payloads[shown[blk[x]]][idx[x]]
                                   /\ Screen[x].stream # Reset
<1>1. BackTypes
  BY DEF SshInv, BackInv
<1> DEFINE u == blk[x]
           v == idx[x]
<1>2. u \in DOMAIN shown /\ v \in DOMAIN Entries[u] /\ Screen[x] = Entries[u][v]
  BY ScreenPlaces DEF Places
<1> HIDE DEF u, v
<1>3. CASE shown[u] = Reset
  <2>1. Entries[u] = <<Cleared>>
    BY <1>2, <1>3, ScreenPlaces
  <2>2. Screen[x] = Cleared
    <3>1. v \in 1..1
      BY <1>2, <2>1
    <3> QED
      BY <1>2, <2>1, <3>1
  <2> QED
    BY <1>2, <1>3, <2>2 DEF u, v
<1>4. CASE shown[u] # Reset
  <2>1. shown[u] \in DOMAIN payloads /\ Entries[u] = payloads[shown[u]]
    BY <1>2, <1>4, ScreenPlaces
  <2>2. Screen[x] = payloads[shown[u]][v] /\ v \in DOMAIN payloads[shown[u]]
    BY <1>2, <2>1
  <2>3. Screen[x] # Cleared /\ Screen[x].stream # Reset
    BY <1>1, <2>1, <2>2, ChunksAreNotMarks
  <2> QED
    BY <1>2, <1>4, <2>1, <2>2, <2>3 DEF u, v
<1> QED
  BY <1>3, <1>4

\* The screen shows the chunks of a stream in their order.
LEMMA InOrderOnScreen ==
  ASSUME SshInv
  PROVE  ShownInOrder
<1> SUFFICES ASSUME NEW j \in DOMAIN Screen, NEW i \in 1..(j - 1), Screen[i] # Cleared,
                    Screen[i].stream = Screen[j].stream
             PROVE  Screen[i].n < Screen[j].n
  BY DEF ShownInOrder
<1>1. PICK blk, idx : Places(Screen, Entries, Len(shown), blk, idx)
  BY ScreenPlaces
<1>2. /\ j \in Nat /\ i \in DOMAIN Screen /\ i < j
  <2>1. Len(Screen) \in Nat /\ DOMAIN Screen = 1..Len(Screen)
    BY ScreenPlaces
  <2> QED
    BY <2>1
<1>3. /\ blk[i] \in DOMAIN shown
      /\ shown[blk[i]] \in DOMAIN payloads /\ idx[i] \in DOMAIN payloads[shown[blk[i]]]
      /\ Screen[i] = payloads[shown[blk[i]]][idx[i]]
      /\ Screen[i].stream # Reset /\ shown[blk[i]] # Reset
  BY <1>1, <1>2, ScreenEntry
<1>4. Screen[j] # Cleared
  BY <1>3 DEF Cleared
<1>5. /\ blk[j] \in DOMAIN shown
      /\ shown[blk[j]] \in DOMAIN payloads /\ idx[j] \in DOMAIN payloads[shown[blk[j]]]
      /\ Screen[j] = payloads[shown[blk[j]]][idx[j]] /\ shown[blk[j]] # Reset
  BY <1>1, <1>4, ScreenEntry
<1>6. blk[i] < blk[j] \/ (blk[i] = blk[j] /\ idx[i] < idx[j])
  BY <1>1, <1>2 DEF Places
<1> DEFINE a == shown[blk[i]]
           b == shown[blk[j]]
<1>7. blk[i] < blk[j] => a < b
  BY <1>3, <1>5 DEF SshInv, UiInv, ScreenOK
<1>8. Before(a, idx[i], b, idx[j])
  BY <1>6, <1>7 DEF Before
<1> DEFINE u == idx[i]
           v == idx[j]
<1> HIDE DEF a, b, u, v
<1>9. payloads[a][u].n < payloads[b][v].n
  BY <1>3, <1>5, <1>8, PayloadOrder DEF a, b, u, v
<1> QED
  BY <1>3, <1>5, <1>9 DEF a, b, u, v

\* Until it is cleared the screen shows every chunk from the first on.
LEMMA NoHolesOnScreen ==
  ASSUME SshInv
  PROVE  HolesAreVisible
<1> SUFFICES ASSUME NEW j \in DOMAIN Screen, \A i \in 1..j : Screen[i] # Cleared,
                    NEW k \in 1..(Screen[j].n - 1)
             PROVE  \E i \in 1..(j - 1) : Screen[i] = [stream |-> Screen[j].stream, n |-> k]
  BY DEF HolesAreVisible
<1>1. PICK blk, idx : Places(Screen, Entries, Len(shown), blk, idx)
  BY ScreenPlaces
<1>2. /\ j \in Nat /\ j \in 1..j /\ Len(Screen) \in Nat /\ DOMAIN Screen = 1..Len(Screen)
  <2>1. Len(Screen) \in Nat /\ DOMAIN Screen = 1..Len(Screen)
    BY ScreenPlaces
  <2> QED
    BY <2>1
<1> DEFINE B == blk[j]
           I == idx[j]
<1>3. /\ B \in DOMAIN shown /\ shown[B] # Reset
      /\ shown[B] \in DOMAIN payloads /\ I \in DOMAIN payloads[shown[B]]
      /\ Screen[j] = payloads[shown[B]][I]
  BY <1>1, <1>2, ScreenEntry
<1>4. Len(shown) \in Nat /\ DOMAIN shown = 1..Len(shown) /\ B \in Nat
  <2>1. Len(shown) \in Nat /\ DOMAIN shown = 1..Len(shown)
    BY ScreenPlaces
  <2> QED
    BY <1>3, <2>1
<1> HIDE DEF B, I
<1>5. ASSUME NEW m \in 1..B, shown[m] = Reset
      PROVE  FALSE
  <2>1. m \in DOMAIN shown /\ m \in 1..Len(shown) /\ m < B /\ m \in Nat
    BY <1>3, <1>4, <1>5
  <2>2. Entries[m] = <<Cleared>>
    BY <1>5, <2>1, ScreenPlaces
  <2>3. 1 \in DOMAIN Entries[m]
    BY <2>2
  <2>4. PICK x \in DOMAIN Screen : blk[x] = m
    BY <1>1, <2>1, <2>3 DEF Places
  <2>5. Screen[x] = Cleared
    BY <1>1, <1>5, <2>4, ScreenEntry
  <2>6. ~(j < x) /\ x # j
    <3>1. j < x => (B < m \/ B = m)
      BY <1>1, <2>4 DEF Places, B
    <3>2. ~(B < m) /\ B # m
      BY <1>4, <2>1
    <3> QED
      BY <2>4, <3>1, <3>2 DEF B
  <2>7. x \in 1..j
    BY <1>2, <2>6
  <2> QED
    BY <2>5, <2>7
<1>6. \A m \in 1..B : shown[m] = m
  <2>1. ASSUME NEW m \in 1..B
        PROVE  shown[m] = m
    <3>1. m \in DOMAIN shown /\ \A h \in 1..m : h \in 1..B
      BY <1>3, <1>4
    <3>2. \A h \in 1..m : shown[h] # Reset
      BY <1>5, <3>1
    <3> QED
      BY <3>1, <3>2 DEF SshInv, UiInv, ScreenOK
  <2> QED
    BY <2>1
<1>7. shown[B] = B /\ B \in 1..B
  BY <1>3, <1>4, <1>6
<1>8. PICK b \in DOMAIN payloads : \E i \in DOMAIN payloads[b] :
           /\ Before(b, i, B, I)
           /\ payloads[b][i] = [stream |-> payloads[B][I].stream, n |-> k]
  <2>1. B \in DOMAIN payloads /\ I \in DOMAIN payloads[B] /\ Screen[j] = payloads[B][I]
    BY <1>3, <1>7
  <2>2. k \in 1..(payloads[B][I].n - 1)
    BY <2>1
  <2> QED
    BY <2>1, <2>2, PayloadNoHoles
<1>9. PICK i \in DOMAIN payloads[b] :
           /\ Before(b, i, B, I)
           /\ payloads[b][i] = [stream |-> payloads[B][I].stream, n |-> k]
  BY <1>8
<1>10. b \in 1..B /\ b \in DOMAIN shown /\ b \in Nat
  <2>1. b \in Nat /\ b > 0
    BY Numbered DEF SshInv, BackInv
  <2> QED
    BY <1>3, <1>4, <1>9, <2>1 DEF Before
<1>11. shown[b] = b /\ shown[b] # Reset
  BY <1>5, <1>6, <1>10
<1>12. Entries[b] = payloads[b]
  BY <1>10, <1>11, ScreenPlaces
<1>13. b \in 1..Len(shown) /\ i \in DOMAIN Entries[b]
  BY <1>4, <1>10, <1>12
<1>14. PICK x \in DOMAIN Screen : blk[x] = b /\ idx[x] = i
  BY <1>1, <1>13 DEF Places
<1>15. Screen[x] = [stream |-> Screen[j].stream, n |-> k]
  <2>1. Screen[x] = payloads[b][i]
    BY <1>1, <1>12, <1>14 DEF Places
  <2>2. Screen[j] = payloads[B][I]
    BY <1>3, <1>7
  <2> QED
    BY <1>9, <2>1, <2>2
<1>16. i \in Nat /\ I \in Nat
  BY <1>1, <1>14 DEF Places, I
<1>17. ~(j < x) /\ x # j
  <2>1. j < x => (B < b \/ (B = b /\ I < i))
    BY <1>1, <1>14 DEF Places, B, I
  <2>2. x = j => (B = b /\ I = i)
    BY <1>14 DEF B, I
  <2> QED
    BY <1>4, <1>9, <1>10, <1>16, <2>1, <2>2 DEF Before
<1>18. x \in 1..(j - 1)
  BY <1>2, <1>17
<1> QED
  BY <1>15, <1>18

-----------------------------------------------------------------------------
(* The theorems about the session *)

\* SshInv holds at first, and every step keeps it.
LEMMA SshInvInit == SshInit => SshInv
<1> SUFFICES ASSUME SshInit PROVE SshInv
  OBVIOUS
<1>1. /\ call = "dial" /\ rec = "none" /\ exited = FALSE /\ closing = FALSE
      /\ made = [s \in Streams |-> 0] /\ reader = [s \in Streams |-> "read"]
      /\ out = <<>> /\ done = FALSE /\ buf = <<>> /\ payloads = <<>> /\ pump = "none"
      /\ events = {} /\ statuses = {} /\ tab = "none" /\ term = "none"
      /\ pending = <<>> /\ expected = 1 /\ seqBuffer = {} /\ gapTimer = FALSE /\ shown = <<>>
  BY DEF SshInit
<1>2. /\ \A S : <<>> \in Seq(S)
      /\ Len(<<>>) = 0 /\ DOMAIN <<>> = {}
  BY EmptySeq
<1>3. BackTypes
  <2>1. made \in [Streams -> 0..MaxChunks] /\ reader \in [Streams -> {"read", "lookup", "send"}]
    BY <1>1, Bounds
  <2>2. Len(out) <= OutCap /\ Len(buf) < FlushAt
    BY <1>1, <1>2, Bounds
  <2> QED
    BY <1>1, <1>2, <2>1, <2>2 DEF BackTypes
<1>4. UiTypes
  <2>1. pending \in Seq(DOMAIN payloads) /\ shown \in Seq(DOMAIN payloads \cup {Reset})
    BY <1>1, EmptySeq
  <2>2. events \subseteq DOMAIN payloads /\ seqBuffer \subseteq DOMAIN payloads
    BY <1>1
  <2>3. gapTimer \in BOOLEAN
    BY <1>1
  <2>4. expected \in Nat \ {0}
    BY <1>1
  <2>5. statuses \subseteq {"connected", "closed"}
    BY <1>1
  <2>6. tab \in {"none", "connected", "closed", "removed"} /\ term \in {"none", "mounted", "disposed"}
    BY <1>1
  <2> QED
    BY <2>1, <2>2, <2>3, <2>6, <2>4, <2>5 DEF UiTypes
<1>5. Output = <<>>
  <2>1. FlattenSeq(payloads) = <<>>
    BY <1>1, <1>2 DEF FlattenSeq
  <2>2. <<>> \o <<>> = <<>>
    BY <1>2, ConcatEmptySeq
  <2> QED
    BY <1>1, <2>1, <2>2 DEF Output
<1>6. InOrder(Output) /\ NoHoles(Output)
  BY <1>2, <1>5 DEF InOrder, NoHoles
<1>7. ASSUME NEW s \in Streams
      PROVE  ReaderOK(s)
  <2>1. made[s] = 0 /\ reader[s] = "read" /\ Sent(s) = 0
    BY <1>1 DEF Sent, Waiting
  <2>2. AtMost(Output, s, 0) /\ AllUpTo(Output, s, 0)
    BY <1>2, <1>5 DEF AtMost, AllUpTo
  <2> QED
    BY <2>1, <2>2 DEF ReaderOK
<1>8. ScreenOK(shown, expected, seqBuffer)
  BY <1>1, <1>2 DEF ScreenOK
<1> QED
  BY <1>1, <1>3, <1>4, <1>6, <1>7, <1>8 DEF SshInv, BackInv, UiInv, LifeOK, OutputOK

LEMMA SshInvStep == SshInv /\ [SshNext]_sshVars => SshInv'
<1> SUFFICES ASSUME SshInv, [SshNext]_sshVars PROVE SshInv'
  OBVIOUS
<1>1. CASE \/ Register \/ (\E ok \in BOOLEAN : Shell(ok)) \/ Return \/ Exit
           \/ Wait \/ Close \/ EmitClosed
  BY <1>1, CallSteps
<1>2. CASE \E s \in Streams : Read(s) \/ Lookup(s) \/ GiveUp(s)
  BY <1>2, ReaderSteps
<1>3. CASE \E s \in Streams : Send(s)
  BY <1>3, SendStep
<1>4. CASE PumpReceive
  BY <1>4, ReceiveStep
<1>5. CASE PumpTick \/ PumpDone
  BY <1>5, FlushSteps
<1>6. CASE \/ AddSession \/ (\E st \in statuses : StatusArrives(st))
           \/ (\E p \in events : PayloadArrives(p)) \/ Mount \/ GapTimer \/ Dispose
  BY <1>6, UiSteps
<1>7. CASE UNCHANGED sshVars
  <2>1. backend' = backend /\ ui' = ui /\ events' = events /\ statuses' = statuses
    BY <1>7 DEF sshVars
  <2>2. payloads' = payloads
    BY <2>1 DEF backend
  <2>3. BackInv /\ UiInv /\ events \subseteq DOMAIN payloads
        /\ statuses \subseteq {"connected", "closed"}
    BY DEF SshInv, UiInv, UiTypes
  <2>4. BackInv'
    BY <2>1, <2>3, BackStays
  <2>5. UiInv'
    BY <2>1, <2>2, <2>3, UiStays
  <2> QED
    BY <2>4, <2>5 DEF SshInv
<1> QED
  BY <1>1, <1>2, <1>3, <1>4, <1>5, <1>6, <1>7 DEF SshNext, Backend, Ui

LEMMA SshInvAlways == SshSpec => []SshInv
  BY SshInvInit, SshInvStep, PTL DEF SshSpec

\* The parts of a session always have their shapes, and neither the channel nor the
\* pump's buffer gets longer than it may.
THEOREM SshTypes == SshSpec => []SshTypeOK
<1>1. SshInv => SshTypeOK
  BY TypesAre DEF SshInv, BackInv, UiInv
<1> QED
  BY <1>1, SshInvAlways, PTL

\* Whatever order the events arrive in, whenever the terminal is mounted and whenever
\* the gap timer fires: a terminal never shows output of a stream twice or out of order.
THEOREM OutputInOrder == SshSpec => []ShownInOrder
<1>1. SshInv => ShownInOrder
  BY InOrderOnScreen
<1> QED
  BY <1>1, SshInvAlways, PTL

\* Up to the first clearing of the terminal every output on it follows all the earlier
\* output of its stream: nothing is lost in silence between the shell and the screen.
THEOREM NoSilentHoles == SshSpec => []HolesAreVisible
<1>1. SshInv => HolesAreVisible
  BY NoHolesOnScreen
<1> QED
  BY <1>1, SshInvAlways, PTL

-----------------------------------------------------------------------------
(* The host keys *)

\* What a trusting call is given is a host and a key that the user has confirmed, and
\* so are the lines that a call has read.
FlowOK(f) ==
  flow[f] # Idle =>
    /\ flow[f].trust => <<flow[f].host, flow[f].fp>> \in confirmed
    /\ flow[f].db \in Seq(ConfirmedLines)

IInv == TypeOK /\ lines \in Seq(ConfirmedLines) /\ \A f \in Flows : FlowOK(f)

-----------------------------------------------------------------------------
(* Sequences of lines *)

LEMMA LinesType ==
  ASSUME TypeOK
  PROVE  lines \in Seq(Line)
  BY EmptySeq DEF TypeOK, lines

\* What is left of a sequence without one of its elements.
LEMMA RemoveAtType ==
  ASSUME NEW S, NEW db \in Seq(S), NEW i \in DOMAIN db
  PROVE  RemoveAt(db, i) \in Seq(S)
<1>1. i \in 1..Len(db) /\ Len(db) \in Nat /\ \A j \in 1..Len(db) : db[j] \in S
  OBVIOUS
<1>2. SubSeq(db, 1, i-1) \in Seq(S)
  BY <1>1, SubSeqProperties
<1>3. SubSeq(db, i+1, Len(db)) \in Seq(S)
  BY <1>1, SubSeqProperties
<1> QED BY <1>2, <1>3, ConcatProperties DEF RemoveAt

-----------------------------------------------------------------------------
(* Steps *)

\* The other flows stay as they are: what the user has confirmed stays confirmed.
LEMMA OtherFlows ==
  ASSUME IInv, NEW f \in Flows, confirmed \subseteq confirmed', FlowOK(f)',
         \A g \in Flows \ {f} : flow'[g] = flow[g]
  PROVE  \A g \in Flows : FlowOK(g)'
<1>1. ConfirmedLines \subseteq ConfirmedLines'
  BY DEF ConfirmedLines
<1>2. ASSUME NEW g \in Flows, g # f
      PROVE  FlowOK(g)'
  <2>1. flow'[g] = flow[g] /\ FlowOK(g)
    BY <1>2 DEF IInv
  <2>2. ASSUME flow[g] # Idle
        PROVE  flow[g].db \in Seq(ConfirmedLines')
    BY <1>1, <2>1, <2>2, SeqMonotonic DEF FlowOK
  <2> QED BY <2>1, <2>2 DEF FlowOK
<1> QED BY <1>2

\* A step of a flow that leaves the file and the confirmed keys alone, and the flow at
\* its end or at another point of the same call, with what it was given.
LEMMA FlowMoves ==
  ASSUME IInv, NEW f \in Flows, UNCHANGED <<file, serverKey, confirmed, changes>>,
         flow' \in [Flows -> Flow \cup {Idle}],
         \A g \in Flows \ {f} : flow'[g] = flow[g],
         \/ flow'[f] = Idle
         \/ /\ flow'[f].trust => (flow[f] # Idle /\ flow[f].trust
                                  /\ flow'[f].host = flow[f].host /\ flow'[f].fp = flow[f].fp)
            /\ flow'[f].db \in {<<>>, lines} \/ (flow[f] # Idle /\ flow'[f].db = flow[f].db)
  PROVE  IInv'
<1>1. TypeOK' /\ lines' = lines /\ ConfirmedLines' = ConfirmedLines
  BY DEF IInv, TypeOK, lines, ConfirmedLines
<1>2. <<>> \in Seq(ConfirmedLines)
  OBVIOUS
<1>3. FlowOK(f)'
  BY <1>1, <1>2 DEF IInv, FlowOK
<1>4. \A g \in Flows : FlowOK(g)'
  BY <1>3, OtherFlows
<1> QED BY <1>1, <1>4 DEF IInv

\* A step of the user or of a server that leaves the flows and the confirmed keys alone.
LEMMA OutsideMoves ==
  ASSUME IInv, TypeOK', UNCHANGED <<flow, confirmed>>, lines' \in Seq(ConfirmedLines)
  PROVE  IInv'
  BY DEF IInv, FlowOK, ConfirmedLines

-----------------------------------------------------------------------------
\* A call is one of the flows' records, and shows one of the keys.
LEMMA Running ==
  ASSUME TypeOK, NEW f \in Flows, flow[f] # Idle
  PROVE  /\ flow[f] \in Flow
         /\ flow[f].host \in Hosts /\ flow[f].fp \in Keys /\ flow[f].db \in Seq(Line)
         /\ Remote[flow[f].host] \in Hosts
         /\ Shown(f) \in Keys
  BY HostsAssumption DEF TypeOK, Flow, Shown

\* Init starts with no flow and no file.
LEMMA InitOK == Init => IInv
<1> SUFFICES ASSUME Init PROVE IInv
  OBVIOUS
<1>1. TypeOK
  BY HostsAssumption DEF Init, TypeOK
<1>2. lines \in Seq(ConfirmedLines)
  BY EmptySeq DEF Init, lines
<1> QED BY <1>1, <1>2 DEF Init, IInv, FlowOK

\* Every step of a flow but the two that change what this is about.
LEMMA FlowStep ==
  ASSUME IInv, NEW f \in Flows,
         \/ \E h \in Hosts : Connect(f, h)
         \/ Stat(f) \/ New(f) \/ Fail(f) \/ DialFails(f)
         \/ Known(f) \/ Changed(f) \/ Unknown(f) \/ Decline(f)
  PROVE  IInv'
<1>1. TypeOK /\ flow \in [Flows -> Flow \cup {Idle}]
  BY DEF IInv, TypeOK
<1>2. CASE End(f) /\ UNCHANGED <<file, serverKey, confirmed, changes>>
  BY <1>1, <1>2, FlowMoves DEF End
<1>3. CASE flow[f] # Idle /\ ConnectAgain(f) /\ UNCHANGED <<file, serverKey, confirmed, changes>>
  <2> DEFINE v == [flow[f] EXCEPT !.pc = "stat", !.trust = FALSE, !.again = TRUE, !.db = <<>>]
  <2>1. v \in Flow /\ v.trust = FALSE /\ v.db = <<>>
    BY <1>1, <1>3, Running, EmptySeq DEF Flow
  <2>2. flow' = [flow EXCEPT ![f] = v]
    BY <1>1, <1>3 DEF ConnectAgain
  <2> QED BY <1>1, <1>3, <2>1, <2>2, FlowMoves
<1>4. ASSUME NEW h \in Hosts, Connect(f, h)
      PROVE  IInv'
  <2>1. PICK k \in Keys :
          flow' = [flow EXCEPT ![f] = [pc |-> "stat", trust |-> FALSE, again |-> FALSE,
                                       host |-> h, fp |-> k, db |-> <<>>]]
    BY <1>4 DEF Connect
  <2> DEFINE v == [pc |-> "stat", trust |-> FALSE, again |-> FALSE,
                   host |-> h, fp |-> k, db |-> <<>>]
  <2>2. v \in Flow /\ v.trust = FALSE /\ v.db = <<>>
    BY EmptySeq DEF Flow
  <2> HIDE DEF v
  <2>3. flow' = [flow EXCEPT ![f] = v]
    BY <2>1 DEF v
  <2> QED BY <1>1, <1>4, <2>2, <2>3, FlowMoves DEF Connect
<1>5. ASSUME NEW s \in {"create", "new"}, flow[f] # Idle, Goto(f, s),
             UNCHANGED <<file, serverKey, confirmed, changes>>
      PROVE  IInv'
  <2> DEFINE v == [flow[f] EXCEPT !.pc = s]
  <2>1. v \in Flow /\ v.trust = flow[f].trust /\ v.host = flow[f].host /\ v.fp = flow[f].fp
        /\ v.db = flow[f].db
    BY <1>1, <1>5, Running DEF Flow
  <2> HIDE DEF v
  <2>2. flow' = [flow EXCEPT ![f] = v]
    BY <1>1, <1>5 DEF Goto, v
  <2> QED BY <1>1, <1>5, <2>1, <2>2, FlowMoves
<1>6. CASE New(f)
  <2> DEFINE v == [flow[f] EXCEPT !.pc = "dial", !.db = file]
  <2>1. flow[f] # Idle /\ flow[f] \in Flow /\ file \in Seq(Line) /\ lines = file
    BY <1>1, <1>6, Running DEF New, At, TypeOK, lines
  <2>2. v \in Flow /\ v.trust = flow[f].trust /\ v.host = flow[f].host /\ v.fp = flow[f].fp
        /\ v.db = lines
    BY <2>1 DEF Flow
  <2> HIDE DEF v
  <2>3. flow' = [flow EXCEPT ![f] = v]
    BY <1>1, <1>6 DEF New, v
  <2> QED BY <1>1, <1>6, <2>1, <2>2, <2>3, FlowMoves, ZenonT(60) DEF New
<1>7. CASE Unknown(f)
  <2>1. CASE flow[f].again
    BY <1>2, <1>7, <2>1 DEF Unknown
  <2>2. CASE ~flow[f].again
    <3> DEFINE v == [flow[f] EXCEPT !.pc = "ask", !.fp = Shown(f), !.db = <<>>]
    <3>1. flow[f] # Idle /\ flow[f] \in Flow /\ Shown(f) \in Keys /\ ~flow[f].trust
      BY <1>1, <1>7, Running DEF Unknown, At
    <3>2. v \in Flow /\ ~v.trust /\ v.db = <<>>
      BY <3>1, EmptySeq DEF Flow
    <3> HIDE DEF v
    <3>3. flow' = [flow EXCEPT ![f] = v]
      BY <1>1, <1>7, <2>2 DEF Unknown, v
    <3> QED BY <1>1, <1>7, <3>2, <3>3, FlowMoves DEF Unknown
  <2> QED BY <2>1, <2>2
<1>8. CASE Stat(f)
  BY <1>5, <1>8 DEF Stat, At
<1>9. CASE Fail(f) \/ Changed(f) \/ Decline(f)
  BY <1>2, <1>9 DEF Fail, Changed, Decline
<1>10. CASE DialFails(f)
  BY <1>3, <1>10 DEF DialFails, At
<1>11. CASE Known(f)
  BY <1>2, <1>3, <1>11 DEF Known, At
<1> QED BY <1>4, <1>6, <1>7, <1>8, <1>9, <1>10, <1>11

\* The file is made, and what another call has added meanwhile is gone.
LEMMA CreateStep ==
  ASSUME IInv, NEW f \in Flows, Create(f)
  PROVE  IInv'
<1>1. TypeOK /\ flow[f] # Idle /\ flow[f] \in Flow
  BY Running DEF IInv, Create, At
<1> DEFINE v == [flow[f] EXCEPT !.pc = "new"]
<1>2. v \in Flow /\ v.trust = flow[f].trust /\ v.host = flow[f].host /\ v.fp = flow[f].fp
      /\ v.db = flow[f].db
  BY <1>1 DEF Flow
<1> HIDE DEF v
<1>3. flow' = [flow EXCEPT ![f] = v]
  BY <1>1 DEF Create, Goto, TypeOK, v
<1>4. TypeOK' /\ lines' = <<>>
  BY <1>1, <1>2, <1>3, EmptySeq DEF Create, secureWriteFile, TypeOK, lines
<1>5. ConfirmedLines' = ConfirmedLines /\ FlowOK(f)'
  BY <1>1, <1>2, <1>3 DEF Create, IInv, FlowOK, ConfirmedLines, TypeOK
<1>6. \A g \in Flows : FlowOK(g)'
  BY <1>1, <1>3, <1>5, OtherFlows DEF Create, TypeOK
<1> QED BY <1>4, <1>5, <1>6, EmptySeq DEF IInv

\* A key is added that the user has confirmed for the host.
LEMMA AppendStep ==
  ASSUME IInv, NEW f \in Flows, appendKnownHost(f)
  PROVE  IInv'
<1> DEFINE v    == [flow[f] EXCEPT !.pc = "stat", !.trust = FALSE, !.again = TRUE, !.db = <<>>]
           line == [names |-> {flow[f].host, Remote[flow[f].host]}, key |-> Shown(f)]
<1>1. /\ TypeOK /\ flow[f] # Idle /\ flow[f] \in Flow /\ flow[f].trust
      /\ flow[f].host \in Hosts /\ Remote[flow[f].host] \in Hosts /\ Shown(f) \in Keys
      /\ Shown(f) = flow[f].fp
  BY Running DEF IInv, appendKnownHost, At, Expected
<1>2. v \in Flow /\ ~v.trust /\ v.db = <<>>
  BY <1>1, EmptySeq DEF Flow
<1>3. line \in Line
  BY <1>1 DEF Line
<1>4. line \in ConfirmedLines
  <2>1. <<flow[f].host, flow[f].fp>> \in confirmed
    BY <1>1 DEF IInv, FlowOK
  <2> DEFINE c == <<flow[f].host, flow[f].fp>>
  <2>2. c[1] = flow[f].host /\ c[2] = Shown(f)
    BY <1>1
  <2>3. line = [names |-> {c[1], Remote[c[1]]}, key |-> c[2]]
    BY <2>2
  <2> HIDE DEF c, line
  <2>4. c \in confirmed
    BY <2>1 DEF c
  <2> QED BY <2>3, <2>4 DEF ConfirmedLines
<1> HIDE DEF v, line
<1>5. flow' = [flow EXCEPT ![f] = v]
  BY <1>1 DEF appendKnownHost, ConnectAgain, TypeOK, v
<1>6. file' = Append(lines, line)
  BY DEF appendKnownHost, line
<1>7. file' \in Seq(Line) /\ file' \in Seq(ConfirmedLines)
  BY <1>1, <1>3, <1>4, <1>6, LinesType, AppendProperties DEF IInv
<1>8. TypeOK' /\ lines' = file'
  BY <1>1, <1>2, <1>5, <1>7, HostsAssumption DEF appendKnownHost, TypeOK, lines
<1>9. ConfirmedLines' = ConfirmedLines
  BY DEF appendKnownHost, ConfirmedLines
<1>10. FlowOK(f)'
  BY <1>1, <1>2, <1>5, EmptySeq DEF FlowOK, TypeOK
<1>11. \A g \in Flows : FlowOK(g)'
  BY <1>1, <1>5, <1>10, OtherFlows DEF appendKnownHost, TypeOK
<1> QED BY <1>7, <1>8, <1>9, <1>11 DEF IInv

\* The user confirms what the flow is then given.
LEMMA ConfirmStep ==
  ASSUME IInv, NEW f \in Flows, Confirm(f)
  PROVE  IInv'
<1> DEFINE v == [flow[f] EXCEPT !.pc = "stat", !.trust = TRUE]
<1>1. TypeOK /\ flow[f] # Idle /\ flow[f] \in Flow /\ flow[f].host \in Hosts /\ flow[f].fp \in Keys
  BY Running DEF IInv, Confirm, At
<1>2. v \in Flow /\ v.host = flow[f].host /\ v.fp = flow[f].fp /\ v.db = flow[f].db
  BY <1>1 DEF Flow
<1> HIDE DEF v
<1>3. flow' = [flow EXCEPT ![f] = v]
  BY <1>1 DEF Confirm, TypeOK, v
<1>4. confirmed' = confirmed \cup {<<flow[f].host, flow[f].fp>>}
  BY DEF Confirm
<1>5. TypeOK' /\ lines' = lines
  <2>1. UNCHANGED <<file, serverKey, changes>>
    BY DEF Confirm
  <2>2. confirmed' \subseteq Hosts \X Keys
    BY <1>1, <1>4 DEF TypeOK
  <2>3. flow' \in [Flows -> Flow \cup {Idle}]
    BY <1>1, <1>2, <1>3 DEF TypeOK
  <2> QED BY <1>1, <2>1, <2>2, <2>3 DEF TypeOK, lines
<1>6. ConfirmedLines \subseteq ConfirmedLines'
  BY <1>4 DEF ConfirmedLines
<1>7. lines \in Seq(ConfirmedLines') /\ flow[f].db \in Seq(ConfirmedLines')
  BY <1>1, <1>6, SeqMonotonic DEF IInv, FlowOK
<1>8. FlowOK(f)'
  BY <1>1, <1>2, <1>3, <1>4, <1>7 DEF FlowOK, TypeOK
<1>9. \A g \in Flows : FlowOK(g)'
  BY <1>1, <1>3, <1>4, <1>8, OtherFlows DEF TypeOK
<1> QED BY <1>5, <1>7, <1>9 DEF IInv

\* The user's editor and the servers.
LEMMA OutsideStep ==
  ASSUME IInv,
         \/ \E i \in DOMAIN lines : RemoveEntry(i)
         \/ RemoveFile
         \/ \E h \in Hosts, k \in Keys : ChangeKey(Remote[h], k)
  PROVE  IInv'
<1>1. TypeOK /\ lines \in Seq(Line) /\ lines \in Seq(ConfirmedLines)
  BY LinesType DEF IInv
<1>2. ASSUME NEW i \in DOMAIN lines, RemoveEntry(i)
      PROVE  IInv'
  <2>1. file' \in Seq(Line) /\ file' \in Seq(ConfirmedLines)
    BY <1>1, <1>2, RemoveAtType DEF RemoveEntry
  <2>2. TypeOK' /\ lines' = file'
    BY <1>1, <1>2, <2>1, HostsAssumption DEF RemoveEntry, TypeOK, lines
  <2> QED BY <1>2, <2>1, <2>2, OutsideMoves DEF RemoveEntry
<1>3. CASE RemoveFile
  <2>1. TypeOK' /\ lines' = <<>>
    BY <1>1, <1>3 DEF RemoveFile, TypeOK, lines
  <2>2. lines' \in Seq(ConfirmedLines)
    BY <2>1, EmptySeq
  <2> QED BY <1>3, <2>1, <2>2, OutsideMoves DEF RemoveFile
<1>4. ASSUME NEW h \in Hosts, NEW k \in Keys, ChangeKey(Remote[h], k)
      PROVE  IInv'
  <2>1. TypeOK' /\ lines' = lines
    BY <1>1, <1>4, HostsAssumption DEF ChangeKey, TypeOK, lines
  <2> QED BY <1>1, <1>4, <2>1, OutsideMoves DEF ChangeKey
<1> QED BY <1>2, <1>3, <1>4

LEMMA NextOK == IInv /\ [Next]_vars => IInv'
<1> SUFFICES ASSUME IInv, [Next]_vars PROVE IInv'
  OBVIOUS
<1>1. CASE Next
  BY <1>1, FlowStep, CreateStep, AppendStep, ConfirmStep, OutsideStep DEF Next
<1>2. CASE UNCHANGED vars
  <2>1. TypeOK' /\ lines' = lines
    BY <1>2 DEF IInv, TypeOK, lines, vars
  <2> QED BY <1>2, <2>1, OutsideMoves DEF IInv, vars
<1> QED BY <1>1, <1>2

-----------------------------------------------------------------------------
\* Whatever the servers show and the user's editor does, every line of known_hosts,
\* and of what a running call has read, is one that the user has confirmed.
THEOREM KnownHostsConfirmed == Spec => []OnlyConfirmed
<1>1. IInv => OnlyConfirmed
  BY DEF IInv, OnlyConfirmed, FlowOK
<1> QED BY <1>1, InitOK, NextOK, PTL DEF Spec

\* The variables keep their types.
THEOREM KnownHostsTypes == Spec => []TypeOK
<1>1. IInv => TypeOK
  BY DEF IInv
<1> QED BY <1>1, InitOK, NextOK, PTL DEF Spec

-----------------------------------------------------------------------------
\* A line for a host that had none decides for that host.
LEMMA AppendDecides ==
  ASSUME NEW db \in Seq(Line), NEW line \in Line, NEW h \in line.names, NEW k,
         Verdict(db, h, k) = "unknown"
  PROVE  Verdict(Append(db, line), h, line.key) = "known"
<1> DEFINE more == Append(db, line)
           new  == Len(db) + 1
<1>1. \A i \in DOMAIN db : h \notin db[i].names
  BY DEF Verdict
<1>2. /\ DOMAIN more = 1..new /\ new \in DOMAIN more /\ more[new] = line
      /\ \A i \in DOMAIN more : i # new => i \in DOMAIN db /\ more[i] = db[i]
  BY SMT
<1> HIDE DEF more, new
<1>3. \A i \in DOMAIN more : h \in more[i].names <=> i = new
  BY <1>1, <1>2
<1>4. {i \in DOMAIN more : h \in more[i].names} = {new}
  BY <1>2, <1>3
<1>5. new <= new
  BY DEF new
<1>6. Verdict(more, h, line.key) = "known"
  BY <1>2, <1>4, <1>5 DEF Verdict
<1> QED BY <1>6 DEF more

\* The step of ChangedKeyBlocked.
Blocked(f) ==
  (Known(f) \/ (flow'[f] # flow[f] /\ At(f, "dial") /\ file' # file)) =>
    flow[f].db # file \/ Verdict(file', flow[f].host, Shown(f)) = "known"

LEMMA StepBlocked ==
  ASSUME TypeOK, Next, NEW f \in Flows
  PROVE  Blocked(f)
<1>1. CASE Known(f)
  BY <1>1 DEF Known, Blocked
<1>2. ASSUME flow'[f] # flow[f], At(f, "dial"), file' # file
      PROVE  appendKnownHost(f)
  <2>2. \A g \in Flows : Create(g) => g # f /\ flow'[f] = flow[f]
    BY <1>2 DEF Create, Goto, At, TypeOK
  <2>3. \A g \in Flows : appendKnownHost(g) => g = f
    BY <1>2 DEF appendKnownHost, ConnectAgain, TypeOK
  <2>4. PICK g \in Flows : Create(g) \/ appendKnownHost(g)
    BY <1>2 DEF Next, Connect, Stat, New, Fail, DialFails, Known, Changed, Unknown, Confirm,
                Decline, RemoveEntry, RemoveFile, ChangeKey
  <2> QED BY <1>2, <2>2, <2>3, <2>4
<1>3. ASSUME appendKnownHost(f), flow[f].db = file
      PROVE  Verdict(file', flow[f].host, Shown(f)) = "known"
  <2> DEFINE line == [names |-> {flow[f].host, Remote[flow[f].host]}, key |-> Shown(f)]
  <2>1. flow[f].host \in Hosts /\ Remote[flow[f].host] \in Hosts /\ Shown(f) \in Keys
        /\ file \in Seq(Line) /\ lines = file
    BY <1>3, Running, HostsAssumption DEF appendKnownHost, At, lines
  <2>2. line \in Line /\ flow[f].host \in line.names /\ line.key = Shown(f)
    BY <2>1 DEF Line
  <2>3. file' = Append(file, line) /\ Verdict(file, flow[f].host, Shown(f)) = "unknown"
    BY <1>3, <2>1 DEF appendKnownHost, Untrusted
  <2> HIDE DEF line
  <2> QED BY <2>1, <2>2, <2>3, AppendDecides
<1> QED BY <1>1, <1>2, <1>3 DEF Blocked

\* A call comes through, or adds a line, only with the key that known_hosts has for the
\* host then, as long as the file is what the call has read.
THEOREM KnownHostsBlocks == Spec => ChangedKeyBlocked
<1>1. TypeOK /\ [Next]_vars => [\A f \in Flows : Blocked(f)]_vars
  BY StepBlocked
<1>2. Spec => [][\A f \in Flows : Blocked(f)]_vars
  BY <1>1, KnownHostsTypes, PTL DEF Spec
<1> QED BY <1>2 DEF ChangedKeyBlocked, Blocked
=============================================================================
