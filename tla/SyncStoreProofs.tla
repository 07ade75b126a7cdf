--------------------------- MODULE SyncStoreProofs ---------------------------
(***************************************************************************)
(* Proofs about SyncStore: the retention, the backups and the quotas of the *)
(* server's sync data, for every set of accounts, sizes and limits.        *)
(***************************************************************************)
EXTENDS SyncStore, FiniteSetTheorems, SequenceTheorems, TLAPS

-----------------------------------------------------------------------------
(* Folds.  A fold is a recursive function on the subsets of a finite set;  *)
(* its equation follows from the well-foundedness of the strict subsets.   *)

\* Of some subsets of a finite set one contains no other of them.
LEMMA SmallestSubset ==
  ASSUME NEW S, IsFiniteSet(S), NEW X \in SUBSET (SUBSET S), X # {}
  PROVE  \E T \in X : \A U \in X : U \subseteq T => U = T
<1>1. IsWellFoundedOn(StrictSubsetOrdering(S), SUBSET S)
  BY FS_StrictSubsetOrderingWellFounded, FS_FiniteSubsetsOfFinite
<1>2. PICK T \in X : \A U \in X : ~ (<<U, T>> \in StrictSubsetOrdering(S))
  BY <1>1, WFMin
<1> QED
  BY <1>2 DEF StrictSubsetOrdering

\* An element for every non-empty subset.
Picks(S, pick) == \A T \in (SUBSET S) \ {{}} : pick[T] \in T

\* Each value of g and h follows in the same way from the one without the element.
FoldAlike(S, pick, g, h) ==
  /\ g[{}] = h[{}]
  /\ \A T \in (SUBSET S) \ {{}} : g[T \ {pick[T]}] = h[T \ {pick[T]}] => g[T] = h[T]

\* A step for every element and value.
Steps(S, V, step) == \A x \in S, v \in V : step[<<x, v>>] \in V

\* What "it" returns for a subset, when an element is taken by "pick" and used
\* by "step" on the value for the others.
FoldStep(T, it, base, pick, step) ==
  IF T = {} THEN base ELSE step[<<pick[T], it[T \ {pick[T]}]>>]

\* "it" is the fold of every subset of S.
IsFold(S, V, it, base, pick, step) ==
  /\ it \in [SUBSET S -> V]
  /\ \A T \in SUBSET S : it[T] = FoldStep(T, it, base, pick, step)

\* Two functions agree on every subset when their values follow in the same way
\* from those for one element less.
LEMMA FoldUnique ==
  ASSUME NEW S, IsFiniteSet(S), NEW pick, Picks(S, pick),
         NEW g, NEW h, FoldAlike(S, pick, g, h)
  PROVE  \A T \in SUBSET S : g[T] = h[T]
<1> DEFINE X == {T \in SUBSET S : g[T] # h[T]}
<1> SUFFICES ASSUME X # {} PROVE FALSE
  OBVIOUS
<1>1. X \in SUBSET (SUBSET S)
  OBVIOUS
<1> HIDE DEF X
<1>2. PICK T \in X : \A U \in X : U \subseteq T => U = T
  BY <1>1, SmallestSubset
<1> USE DEF X, Picks, FoldAlike
<1>3. T # {}
  BY <1>2
<1>4. pick[T] \in T /\ T \ {pick[T]} \in SUBSET S
  BY <1>2, <1>3
<1>5. g[T \ {pick[T]}] = h[T \ {pick[T]}]
  BY <1>2, <1>4
<1> QED
  BY <1>2, <1>3, <1>5

\* The recursion of a fold defines a function.
LEMMA FoldExists ==
  ASSUME NEW S, IsFiniteSet(S), NEW V, NEW base \in V, NEW pick, Picks(S, pick),
         NEW step, Steps(S, V, step)
  PROVE  \E it : IsFold(S, V, it, base, pick, step)
<1> USE DEF IsFold
<1> DEFINE Folds(T, g) == IsFold(T, V, g, base, pick, step)
           fold(T) == CHOOSE g : Folds(T, g)
           X == {T \in SUBSET S : ~ \E g : Folds(T, g)}
<1>1. ASSUME NEW T \in SUBSET S, NEW U \in SUBSET T, \E g : Folds(T, g), \E g : Folds(U, g)
      PROVE  fold(T)[U] = fold(U)[U]
  <2>1. Folds(T, fold(T)) /\ Folds(U, fold(U))
    BY <1>1
  <2>2. IsFiniteSet(U) /\ SUBSET U \subseteq SUBSET S /\ SUBSET U \subseteq SUBSET T
    BY FS_Subset
  <2>3. \A W \in SUBSET U : fold(T)[W] = FoldStep(W, fold(T), base, pick, step)
    BY <2>1, <2>2
  <2>4. \A W \in SUBSET U : fold(U)[W] = FoldStep(W, fold(U), base, pick, step)
    BY <2>1
  <2>5. Picks(U, pick)
    BY <2>2 DEF Picks
  <2> HIDE DEF Folds, fold
  <2>6. \A W \in SUBSET U : fold(T)[W] = fold(U)[W]
    <3>1. fold(T)[{}] = fold(U)[{}]
      BY <2>3, <2>4 DEF FoldStep
    <3>2. ASSUME NEW W \in (SUBSET U) \ {{}},
                 fold(T)[W \ {pick[W]}] = fold(U)[W \ {pick[W]}]
          PROVE  fold(T)[W] = fold(U)[W]
      BY <2>3, <2>4, <3>2 DEF FoldStep
    <3>3. FoldAlike(U, pick, fold(T), fold(U))
      BY <3>1, <3>2 DEF FoldAlike
    <3> QED
      BY <2>2, <2>5, <3>1, <3>3, FoldUnique
  <2> QED
    BY <2>6
<1>2. X = {}
  <2> SUFFICES ASSUME X # {} PROVE FALSE
    OBVIOUS
  <2>0. X \in SUBSET (SUBSET S)
    OBVIOUS
  <2> HIDE DEF X
  <2>1. PICK T \in X : \A U \in X : U \subseteq T => U = T
    BY <2>0, SmallestSubset
  <2> USE DEF X
  <2>2. \A U \in SUBSET T : U # T => \E g : Folds(U, g)
    BY <2>1
  <2> DEFINE below == [U \in SUBSET T |-> fold(U)[U]]
             g == [U \in SUBSET T |-> FoldStep(U, below, base, pick, step)]
  <2>3. ASSUME NEW U \in SUBSET T, U # T
        PROVE  g[U] = fold(U)[U] /\ g[U] \in V
    <3>1. Folds(U, fold(U))
      BY <2>2, <2>3
    <3>2. CASE U = {}
      BY <3>1, <3>2 DEF FoldStep
    <3>3. CASE U # {}
      <4> DEFINE W == U \ {pick[U]}
      <4>1. pick[U] \in U /\ W \in SUBSET U /\ W # T /\ W \in SUBSET T /\ U \in SUBSET S
        BY <2>1, <3>3 DEF Picks
      <4>2. Folds(W, fold(W))
        BY <2>2, <4>1
      <4>3. fold(U)[W] = fold(W)[W]
        BY <1>1, <3>1, <4>1, <4>2
      <4>4. below[W] = fold(W)[W]
        BY <4>1
      <4>5. fold(U)[U] = step[<<pick[U], fold(U)[W]>>] /\ fold(U)[U] \in V
        BY <3>1, <3>3 DEF FoldStep
      <4> QED
        BY <3>3, <4>3, <4>4, <4>5 DEF FoldStep
    <3> QED
      BY <3>2, <3>3
  <2>4. ASSUME NEW U \in SUBSET T
        PROVE  g[U] = FoldStep(U, g, base, pick, step) /\ g[U] \in V
    <3>1. CASE U = {}
      BY <3>1 DEF FoldStep
    <3>2. CASE U # {}
      <4> DEFINE W == U \ {pick[U]}
      <4>1. pick[U] \in U /\ W \in SUBSET T /\ W # T /\ pick[U] \in S
        BY <2>1, <3>2 DEF Picks
      <4>2. g[W] = below[W] /\ g[W] \in V
        BY <2>3, <4>1
      <4>3. g[U] = step[<<pick[U], below[W]>>]
        BY <3>2 DEF FoldStep
      <4> HIDE DEF g, below, W
      <4> QED
        BY <3>2, <4>1, <4>2, <4>3 DEF FoldStep, W, Steps
    <3> QED
      BY <3>1, <3>2
  <2>5. g \in [SUBSET T -> V]
    BY <2>4
  <2> HIDE DEF g
  <2>6. Folds(T, g)
    BY <2>4, <2>5
  <2> QED
    BY <2>1, <2>6
<1>3. Folds(S, fold(S))
  BY <1>2
<1> QED
  BY <1>3

-----------------------------------------------------------------------------
(* Sums *)

anyOf(T) == CHOOSE x \in T : TRUE

\* A sum over a set satisfies its equation, on every subset.
LEMMA SumFold ==
  ASSUME NEW S, IsFiniteSet(S), NEW f, \A x \in S : f[x] \in Nat
  PROVE  \E it \in [SUBSET S -> Nat] :
           /\ it[{}] = 0
           /\ \A T \in (SUBSET S) \ {{}} : it[T] = f[anyOf(T)] + it[T \ {anyOf(T)}]
           /\ SumFunctionOnSet(f, S) = it[S]
<1> DEFINE pick == [T \in SUBSET S |-> anyOf(T)]
           step == [xv \in S \X Nat |-> f[xv[1]] + xv[2]]
           Sums(it) == it = [T \in SUBSET S |-> IF T = {} THEN 0
                                                ELSE f[anyOf(T)] + it[T \ {anyOf(T)}]]
<1>1. \A T \in (SUBSET S) \ {{}} : pick[T] \in T /\ pick[T] = anyOf(T)
  BY DEF anyOf
<1>2. \A x \in S, v \in Nat : step[<<x, v>>] = f[x] + v /\ step[<<x, v>>] \in Nat
  OBVIOUS
<1> HIDE DEF pick, step
<1>3. PICK it : IsFold(S, Nat, it, 0, pick, step)
  <2>1. 0 \in Nat /\ Picks(S, pick)
    BY <1>1 DEF Picks
  <2>2. Steps(S, Nat, step)
    BY <1>2 DEF Steps
  <2> QED
    BY <2>1, <2>2, FoldExists
<1>4. ASSUME NEW T \in (SUBSET S) \ {{}}
      PROVE  it[T] = f[anyOf(T)] + it[T \ {anyOf(T)}]
  <2>1. anyOf(T) \in S /\ T \ {anyOf(T)} \in SUBSET S
    BY <1>1
  <2>2. it[T] = step[<<anyOf(T), it[T \ {anyOf(T)}]>>]
    BY <1>1, <1>3 DEF FoldStep, IsFold
  <2> QED
    BY <1>2, <1>3, <2>1, <2>2 DEF IsFold
<1>5. it[{}] = 0
  BY <1>3 DEF FoldStep, IsFold
<1>6. Sums(it)
  BY <1>3, <1>4, <1>5 DEF IsFold
<1> DEFINE iter == CHOOSE g : Sums(g)
<1>7. Sums(iter)
  BY <1>6
<1>8. /\ iter[{}] = 0
      /\ \A T \in (SUBSET S) \ {{}} : iter[T] = f[anyOf(T)] + iter[T \ {anyOf(T)}]
  BY <1>7
<1>9. SumFunctionOnSet(f, S) = iter[S]
  BY DEF SumFunctionOnSet, FoldFunctionOnSet, MapThenFoldSet, anyOf
<1> HIDE DEF iter
<1>10. \A T \in SUBSET S : iter[T] = it[T]
  <2>1. Picks(S, pick)
    BY <1>1 DEF Picks
  <2>2. FoldAlike(S, pick, iter, it)
    BY <1>1, <1>4, <1>5, <1>8 DEF FoldAlike
  <2> QED
    BY <2>1, <2>2, FoldUnique
<1> QED
  BY <1>3, <1>4, <1>5, <1>9, <1>10 DEF IsFold

\* An element for every subset.
anyOfSubset(S) == [T \in SUBSET S |-> anyOf(T)]

\* anyOf chooses an element of each set that has one.
LEMMA AnyPicks ==
  ASSUME NEW S
  PROVE  /\ Picks(S, anyOfSubset(S))
         /\ \A T \in (SUBSET S) \ {{}} : anyOfSubset(S)[T] = anyOf(T) /\ anyOf(T) \in T
BY DEF Picks, anyOfSubset, anyOf

\* A sum is a number, and one element is the element that is added last.
LEMMA SumAnyOf ==
  ASSUME NEW S, IsFiniteSet(S), NEW f, \A x \in S : f[x] \in Nat
  PROVE  /\ SumFunctionOnSet(f, S) \in Nat
         /\ S = {} => SumFunctionOnSet(f, S) = 0
         /\ S # {} => SumFunctionOnSet(f, S)
                        = f[anyOf(S)] + SumFunctionOnSet(f, S \ {anyOf(S)})
<1>1. PICK it \in [SUBSET S -> Nat] :
           /\ it[{}] = 0
           /\ \A T \in (SUBSET S) \ {{}} : it[T] = f[anyOf(T)] + it[T \ {anyOf(T)}]
           /\ SumFunctionOnSet(f, S) = it[S]
  BY SumFold
<1>2. ASSUME S # {}
      PROVE  SumFunctionOnSet(f, S \ {anyOf(S)}) = it[S \ {anyOf(S)}]
  <2> DEFINE R == S \ {anyOf(S)}
  <2>1. IsFiniteSet(R) /\ \A x \in R : f[x] \in Nat
    BY FS_Subset
  <2> HIDE DEF R
  <2>2. PICK ot \in [SUBSET R -> Nat] :
           /\ ot[{}] = 0
           /\ \A T \in (SUBSET R) \ {{}} : ot[T] = f[anyOf(T)] + ot[T \ {anyOf(T)}]
           /\ SumFunctionOnSet(f, R) = ot[R]
    BY <2>1, SumFold
  <2>3. (SUBSET R) \subseteq SUBSET S /\ R \in SUBSET R
    BY DEF R
  <2>4. FoldAlike(R, anyOfSubset(R), it, ot)
    <3>1. it[{}] = ot[{}]
      BY <1>1, <2>2
    <3>2. ASSUME NEW T \in (SUBSET R) \ {{}}, it[T \ {anyOf(T)}] = ot[T \ {anyOf(T)}]
          PROVE  it[T] = ot[T]
      BY <1>1, <2>2, <2>3, <3>2
    <3> QED
      BY <3>1, <3>2, AnyPicks, ZenonT(60) DEF FoldAlike
  <2>5. \A T \in SUBSET R : it[T] = ot[T]
    BY <2>1, <2>4, AnyPicks, FoldUnique
  <2> QED
    BY <2>2, <2>3, <2>5 DEF R
<1> QED
  BY <1>1, <1>2

\* A sum is the value of any element and the sum of the others.
LEMMA SumElement ==
  ASSUME NEW S, IsFiniteSet(S), NEW f, \A x \in S : f[x] \in Nat
  PROVE  /\ SumFunctionOnSet(f, S) \in Nat
         /\ S = {} => SumFunctionOnSet(f, S) = 0
         /\ \A x \in S : SumFunctionOnSet(f, S) = f[x] + SumFunctionOnSet(f, S \ {x})
<1> DEFINE Sum(T) == SumFunctionOnSet(f, T)
           X == {T \in SUBSET S : \E x \in T : Sum(T) # f[x] + Sum(T \ {x})}
<1>1. \A T \in SUBSET S : IsFiniteSet(T) /\ \A x \in T : f[x] \in Nat
  BY FS_Subset
<1>2. \A T \in SUBSET S : /\ Sum(T) \in Nat
                          /\ T = {} => Sum(T) = 0
                          /\ T # {} => Sum(T) = f[anyOf(T)] + Sum(T \ {anyOf(T)})
  BY <1>1, SumAnyOf
<1> HIDE DEF Sum
<1>3. X = {}
  <2> SUFFICES ASSUME X # {} PROVE FALSE
    OBVIOUS
  <2>1. X \in SUBSET (SUBSET S)
    OBVIOUS
  <2> HIDE DEF X
  <2>2. PICK T \in X : \A U \in X : U \subseteq T => U = T
    BY <2>1, SmallestSubset
  <2> USE DEF X
  <2>3. PICK x \in T : Sum(T) # f[x] + Sum(T \ {x})
    BY <2>2
  <2> DEFINE y == anyOf(T)
             R == T \ {x, y}
  <2>4. T \in SUBSET S /\ y \in T /\ T # {}
    BY <2>2, <2>3, AnyPicks
  <2>5. Sum(T) = f[y] + Sum(T \ {y})
    BY <1>2, <2>4
  <2>6. x # y
    BY <2>3, <2>5
  <2> HIDE DEF y
  <2>7. Sum(T \ {y}) = f[x] + Sum(R)
    <3>1. T \ {y} \in SUBSET S /\ T \ {y} \notin X
      BY <2>2, <2>4
    <3>2. x \in T \ {y} /\ (T \ {y}) \ {x} = R
      BY <2>6
    <3> QED
      BY <3>1, <3>2
  <2>8. Sum(T \ {x}) = f[y] + Sum(R)
    <3>1. T \ {x} \in SUBSET S /\ T \ {x} \notin X
      BY <2>2, <2>4
    <3>2. y \in T \ {x} /\ (T \ {x}) \ {y} = R
      BY <2>4, <2>6
    <3> QED
      BY <3>1, <3>2
  <2>9. f[x] \in Nat /\ f[y] \in Nat /\ Sum(R) \in Nat
    BY <1>2, <2>4
  <2> HIDE DEF R, X
  <2> QED
    BY <2>3, <2>5, <2>7, <2>8, <2>9
<1> QED
  BY <1>2, <1>3 DEF Sum

\* A sum depends on the values of its elements only.
LEMMA SumSame ==
  ASSUME NEW S, IsFiniteSet(S), NEW f, \A x \in S : f[x] \in Nat,
         NEW g, \A x \in S : g[x] = f[x]
  PROVE  SumFunctionOnSet(f, S) = SumFunctionOnSet(g, S)
<1> DEFINE ff == [T \in SUBSET S |-> SumFunctionOnSet(f, T)]
           gg == [T \in SUBSET S |-> SumFunctionOnSet(g, T)]
<1>1. \A T \in SUBSET S : IsFiniteSet(T) /\ \A x \in T : f[x] \in Nat /\ g[x] \in Nat
  BY FS_Subset
<1>2. ff[{}] = gg[{}]
  BY <1>1, SumElement
<1>3. ASSUME NEW T \in (SUBSET S) \ {{}}, ff[T \ {anyOf(T)}] = gg[T \ {anyOf(T)}]
      PROVE  ff[T] = gg[T]
  <2>1. anyOf(T) \in T /\ T \ {anyOf(T)} \in SUBSET S
    BY AnyPicks
  <2>2. SumFunctionOnSet(f, T) = f[anyOf(T)] + SumFunctionOnSet(f, T \ {anyOf(T)})
    BY <1>1, SumAnyOf
  <2>3. SumFunctionOnSet(g, T) = g[anyOf(T)] + SumFunctionOnSet(g, T \ {anyOf(T)})
    BY <1>1, SumAnyOf
  <2> QED
    BY <1>3, <2>1, <2>2, <2>3
<1> HIDE DEF ff, gg
<1>4. FoldAlike(S, anyOfSubset(S), ff, gg)
  BY <1>2, <1>3, AnyPicks DEF FoldAlike
<1>5. \A T \in SUBSET S : ff[T] = gg[T]
  BY <1>4, AnyPicks, FoldUnique
<1> QED
  BY <1>5 DEF ff, gg

\* Sums grow with their elements.
LEMMA SumMonotone ==
  ASSUME NEW S, IsFiniteSet(S), NEW f, NEW g,
         \A x \in S : f[x] \in Nat /\ g[x] \in Nat /\ f[x] <= g[x]
  PROVE  SumFunctionOnSet(f, S) <= SumFunctionOnSet(g, S)
<1> DEFINE F(T) == SumFunctionOnSet(f, T)
           G(T) == SumFunctionOnSet(g, T)
           X == {T \in SUBSET S : ~ (F(T) <= G(T))}
<1>1. \A T \in SUBSET S : IsFiniteSet(T) /\ \A x \in T : f[x] \in Nat /\ g[x] \in Nat
  BY FS_Subset
<1>2. \A T \in SUBSET S : /\ F(T) \in Nat /\ G(T) \in Nat
                          /\ T = {} => F(T) = 0 /\ G(T) = 0
                          /\ \A x \in T : F(T) = f[x] + F(T \ {x}) /\ G(T) = g[x] + G(T \ {x})
  BY <1>1, SumElement, ZenonT(60)
<1> HIDE DEF F, G
<1>3. X = {}
  <2> SUFFICES ASSUME X # {} PROVE FALSE
    OBVIOUS
  <2>1. X \in SUBSET (SUBSET S)
    OBVIOUS
  <2> HIDE DEF X
  <2>2. PICK T \in X : \A U \in X : U \subseteq T => U = T
    BY <2>1, SmallestSubset
  <2> USE DEF X
  <2>3. T \in SUBSET S /\ ~ (F(T) <= G(T))
    BY <2>2
  <2>4. PICK x \in T : TRUE
    BY <1>2, <2>3
  <2> DEFINE R == T \ {x}
  <2>5. R \in SUBSET S /\ R # T /\ R \subseteq T
    BY <2>3
  <2>6. F(R) <= G(R)
    BY <2>2, <2>5
  <2>7. F(T) = f[x] + F(R) /\ G(T) = g[x] + G(R)
    BY <1>2, <2>3
  <2>8. F(R) \in Nat /\ G(R) \in Nat /\ f[x] \in Nat /\ g[x] \in Nat /\ f[x] <= g[x]
    BY <1>2, <2>3, <2>5
  <2> HIDE DEF R, X
  <2> QED
    BY <2>3, <2>6, <2>7, <2>8
<1> QED
  BY <1>3 DEF F, G

\* A sum of zeros is 0.
LEMMA SumOfZeros ==
  ASSUME NEW S, IsFiniteSet(S), NEW f, \A x \in S : f[x] = 0
  PROVE  SumFunctionOnSet(f, S) = 0
<1> DEFINE X == {T \in SUBSET S : SumFunctionOnSet(f, T) # 0}
<1> SUFFICES ASSUME X # {} PROVE FALSE
  OBVIOUS
<1>1. X \in SUBSET (SUBSET S)
  OBVIOUS
<1> HIDE DEF X
<1>2. PICK T \in X : \A U \in X : U \subseteq T => U = T
  BY <1>1, SmallestSubset
<1> USE DEF X
<1>3. IsFiniteSet(T) /\ \A x \in T : f[x] = 0 /\ f[x] \in Nat
  BY <1>2, FS_Subset
<1>4. T # {}
  BY <1>2, <1>3, SumElement
<1>5. PICK x \in T : SumFunctionOnSet(f, T) = f[x] + SumFunctionOnSet(f, T \ {x})
  BY <1>3, <1>4, SumElement
<1>6. SumFunctionOnSet(f, T \ {x}) = 0
  BY <1>2
<1> QED
  BY <1>2, <1>3, <1>5, <1>6

\* Sums that differ in one element.
LEMMA SumChange ==
  ASSUME NEW S, IsFiniteSet(S), NEW x \in S, NEW f, NEW g,
         \A y \in S : f[y] \in Nat /\ g[y] \in Nat,
         \A y \in S \ {x} : g[y] = f[y]
  PROVE  /\ SumFunctionOnSet(f, S \ {x}) \in Nat
         /\ SumFunctionOnSet(f, S) = f[x] + SumFunctionOnSet(f, S \ {x})
         /\ SumFunctionOnSet(g, S) = g[x] + SumFunctionOnSet(f, S \ {x})
<1> DEFINE R == S \ {x}
<1>1. IsFiniteSet(R) /\ \A y \in R : f[y] \in Nat /\ g[y] = f[y]
  BY FS_Subset
<1>2. SumFunctionOnSet(f, S) = f[x] + SumFunctionOnSet(f, R)
  BY SumElement
<1>3. SumFunctionOnSet(g, S) = g[x] + SumFunctionOnSet(g, R)
  BY SumElement
<1> HIDE DEF R
<1>4. SumFunctionOnSet(g, R) = SumFunctionOnSet(f, R) /\ SumFunctionOnSet(f, R) \in Nat
  BY <1>1, SumSame, SumElement
<1> QED
  BY <1>2, <1>3, <1>4 DEF R

-----------------------------------------------------------------------------
(* Induction, with sets in the place of predicates *)

\* A non-empty set of numbers has a least element.
LEMMA Least ==
  ASSUME NEW T \in SUBSET Nat, T # {}
  PROVE  \E m \in T : \A n \in T : m <= n
<1>1. PICK n \in T : TRUE
  OBVIOUS
<1> DEFINE X == {1..k : k \in {i \in T : i <= n}}
           S == 1..n
<1>2. X \in SUBSET (SUBSET S) /\ X # {} /\ n \in Nat
  BY <1>1
<1>3. IsFiniteSet(S)
  BY <1>2, FS_Interval
<1> HIDE DEF X, S
<1>4. PICK U \in X : \A W \in X : W \subseteq U => W = U
  BY <1>2, <1>3, SmallestSubset
<1>5. PICK m \in T : m <= n /\ U = 1..m
  BY <1>4 DEF X
<1>6. ASSUME NEW k \in T, k < m
      PROVE  FALSE
  <2>1. 1..k \in X
    BY <1>2, <1>5, <1>6 DEF X
  <2>2. 1..k \subseteq 1..m /\ m \in 1..m /\ m \notin 1..k
    BY <1>6
  <2> QED
    BY <1>4, <1>5, <2>1, <2>2
<1> QED
  BY <1>6

\* A set with 0 and, up to n, with each number after one of its own has all of 0..n.
LEMMA UpTo ==
  ASSUME NEW n \in Nat, NEW T, 0 \in T, \A k \in 1..n : k - 1 \in T => k \in T
  PROVE  0..n \subseteq T
<1> DEFINE X == (0..n) \ T
<1> SUFFICES ASSUME X # {} PROVE FALSE
  OBVIOUS
<1>1. X \in SUBSET Nat
  OBVIOUS
<1> HIDE DEF X
<1>2. PICK m \in X : \A k \in X : m <= k
  BY <1>1, Least
<1>3. m \in 0..n /\ m \notin T
  BY <1>2 DEF X
<1>4. m # 0
  BY <1>3
<1>5. m - 1 \in 0..n /\ m \in 1..n
  BY <1>3, <1>4
<1>6. m - 1 \notin X
  BY <1>2, <1>3
<1>7. m - 1 \in T
  BY <1>5, <1>6 DEF X
<1> QED
  BY <1>3, <1>5, <1>7

-----------------------------------------------------------------------------
(* The bytes of a sequence of backups *)

\* The bytes of a sequence, a fold, are the sum over its positions.
LEMMA BytesIsSum ==
  ASSUME NEW bs
  PROVE  Bytes(bs) = SumFunctionOnSet(bs, DOMAIN bs)
BY DEF Bytes, FoldSeq, FoldFunction, SumFunctionOnSet

\* Nothing has no bytes.
LEMMA BytesEmpty == Bytes(<<>>) = 0
<1>1. IsFiniteSet({}) /\ DOMAIN <<>> = {}
  BY FS_EmptySet
<1>2. \A x \in {} : <<>>[x] \in Nat
  OBVIOUS
<1>3. SumFunctionOnSet(<<>>, {}) = 0
  BY <1>1, <1>2, SumElement
<1> QED
  BY <1>1, <1>3, BytesIsSum

\* With an element appended a sequence is larger by its size.
LEMMA BytesAppend ==
  ASSUME NEW bs \in Seq(Nat), NEW x \in Nat
  PROVE  /\ Bytes(bs) \in Nat
         /\ Bytes(Append(bs, x)) = Bytes(bs) + x
<1> DEFINE n == Len(bs)
           cs == Append(bs, x)
<1>1. /\ n \in Nat /\ DOMAIN bs = 1..n /\ DOMAIN cs = 1..(n + 1)
      /\ cs[n + 1] = x /\ \A i \in 1..n : cs[i] = bs[i] /\ bs[i] \in Nat
  OBVIOUS
<1>2. IsFiniteSet(1..n) /\ IsFiniteSet(1..(n + 1))
  BY <1>1, FS_Interval
<1>3. (1..(n + 1)) \ {n + 1} = 1..n /\ n + 1 \in 1..(n + 1)
  BY <1>1
<1> HIDE DEF n, cs
<1>4. \A i \in 1..(n + 1) : cs[i] \in Nat
  BY <1>1
<1>5. SumFunctionOnSet(cs, 1..(n + 1)) = cs[n + 1] + SumFunctionOnSet(cs, 1..n)
  <2>1. SumFunctionOnSet(cs, 1..(n + 1))
          = cs[n + 1] + SumFunctionOnSet(cs, (1..(n + 1)) \ {n + 1})
    BY <1>2, <1>3, <1>4, SumElement
  <2> QED
    BY <2>1, <1>3
<1>6. SumFunctionOnSet(bs, 1..n) = SumFunctionOnSet(cs, 1..n)
  BY <1>1, <1>2, SumSame
<1>7. SumFunctionOnSet(bs, 1..n) \in Nat
  BY <1>1, <1>2, SumElement
<1>8. Bytes(bs) = SumFunctionOnSet(bs, 1..n) /\ Bytes(cs) = SumFunctionOnSet(cs, 1..(n + 1))
  BY <1>1, BytesIsSum
<1>9. Bytes(cs) = Bytes(bs) + x
  BY <1>1, <1>5, <1>6, <1>7, <1>8
<1> QED
  BY <1>7, <1>8, <1>9 DEF cs

\* Bytes are a number.
LEMMA BytesType ==
  ASSUME NEW bs \in Seq(Nat)
  PROVE  Bytes(bs) \in Nat
BY BytesAppend

\* A sequence is all but its last element, and that.
LEMMA FrontAndLast ==
  ASSUME NEW S, NEW bs \in Seq(S), bs # <<>>
  PROVE  /\ Len(bs) \in Nat \ {0} /\ bs[Len(bs)] \in S
         /\ Front(bs) \in Seq(S) /\ Len(Front(bs)) = Len(bs) - 1
         /\ \A i \in 1..(Len(bs) - 1) : Front(bs)[i] = bs[i]
         /\ bs = Append(Front(bs), bs[Len(bs)])
<1> DEFINE m == Len(bs) - 1
           f == SubSeq(bs, 1, m)
<1>1. Len(bs) \in Nat \ {0} /\ \A i \in 1..Len(bs) : bs[i] \in S
  OBVIOUS
<1>2. m \in Nat /\ Len(bs) = m + 1 /\ \A i \in 1..m : bs[i] \in S
  BY <1>1
<1> HIDE DEF m
<1>3. /\ f \in Seq(S)
      /\ Len(f) = IF 1 <= m THEN m - 1 + 1 ELSE 0
      /\ \A i \in 1..(m - 1 + 1) : f[i] = bs[1 + i - 1]
  BY <1>2, SubSeqProperties
<1>4. f = Front(bs)
  BY DEF Front, f, m
<1> HIDE DEF f
<1>5. Len(f) = m /\ \A i \in 1..m : f[i] = bs[i]
  BY <1>2, <1>3
<1>6. bs = Append(f, bs[Len(bs)])
  BY <1>1, <1>2, <1>3, <1>5
<1> QED
  BY <1>1, <1>3, <1>4, <1>5, <1>6 DEF m

\* Without its last element a sequence is smaller by its size.
LEMMA BytesFront ==
  ASSUME NEW bs \in Seq(Nat), bs # <<>>
  PROVE  Bytes(bs) = Bytes(Front(bs)) + bs[Len(bs)]
<1>1. Front(bs) \in Seq(Nat) /\ bs[Len(bs)] \in Nat /\ bs = Append(Front(bs), bs[Len(bs)])
  BY FrontAndLast
<1> QED
  BY <1>1, BytesAppend

\* With an element put in front a sequence is larger by its size.
LEMMA BytesPrepend ==
  ASSUME NEW bs \in Seq(Nat), NEW x \in Nat
  PROVE  /\ <<x>> \o bs \in Seq(Nat)
         /\ Bytes(<<x>> \o bs) = x + Bytes(bs)
<1> DEFINE T == {k \in Nat : \A cs \in Seq(Nat) : Len(cs) = k => Bytes(<<x>> \o cs) = x + Bytes(cs)}
<1>1. 0 \in T
  <2> SUFFICES ASSUME NEW cs \in Seq(Nat), Len(cs) = 0
               PROVE  Bytes(<<x>> \o cs) = x + Bytes(cs)
    OBVIOUS
  <2>1. cs = <<>> /\ <<x>> \o cs = Append(<<>>, x) /\ <<>> \in Seq(Nat)
    OBVIOUS
  <2>2. Bytes(Append(<<>>, x)) = 0 + x
    BY <2>1, BytesAppend, BytesEmpty
  <2> QED
    BY <2>1, <2>2, BytesEmpty
<1>2. ASSUME NEW k \in 1..Len(bs), k - 1 \in T
      PROVE  k \in T
  <2> SUFFICES ASSUME NEW cs \in Seq(Nat), Len(cs) = k
               PROVE  Bytes(<<x>> \o cs) = x + Bytes(cs)
    BY <1>2
  <2> DEFINE ds == Front(cs)
             y == cs[Len(cs)]
  <2>1. /\ ds \in Seq(Nat) /\ Len(ds) = k - 1 /\ cs = Append(ds, y) /\ y \in Nat
        /\ Bytes(cs) = Bytes(ds) + y
    <3>1. cs # <<>>
      BY <1>2
    <3> QED
      BY <1>2, <3>1, BytesFront, FrontAndLast
  <2> HIDE DEF ds, y
  <2>2. <<x>> \o ds \in Seq(Nat) /\ <<x>> \o cs = Append(<<x>> \o ds, y)
    <3>1. <<x>> \o ds \in Seq(Nat) /\ <<x>> \o Append(ds, y) \in Seq(Nat)
          /\ Append(<<x>> \o ds, y) \in Seq(Nat)
      BY <2>1
    <3>2. Len(<<x>> \o Append(ds, y)) = Len(Append(<<x>> \o ds, y))
      BY <2>1
    <3>3. \A i \in 1..Len(<<x>> \o Append(ds, y)) :
            (<<x>> \o Append(ds, y))[i] = Append(<<x>> \o ds, y)[i]
      BY <2>1
    <3> QED
      BY <2>1, <3>1, <3>2, <3>3, SeqEqual
  <2>3. Bytes(<<x>> \o cs) = Bytes(<<x>> \o ds) + y
    BY <2>1, <2>2, BytesAppend
  <2>4. Bytes(<<x>> \o ds) = x + Bytes(ds)
    BY <1>2, <2>1
  <2>5. Bytes(ds) \in Nat
    BY <2>1, BytesType
  <2> QED
    BY <2>1, <2>3, <2>4, <2>5
<1>3. Len(bs) \in Nat /\ Len(bs) \in 0..Len(bs)
  OBVIOUS
<1>4. <<x>> \o bs \in Seq(Nat)
  OBVIOUS
<1> HIDE DEF T
<1>5. Len(bs) \in T
  BY <1>1, <1>2, <1>3, UpTo
<1> QED
  BY <1>4, <1>5 DEF T

-----------------------------------------------------------------------------
(* What retainedBackupEntries keeps: a fold over the newest entries, from the *)
(* newest to the oldest of them.                                              *)

\* The entry "size" after the newer ones that were kept.
keepIfFits(size, kept) == IF Fits(size, kept) THEN <<size>> \o kept ELSE kept

retainedOf(q) ==
  FoldRight(LAMBDA size, kept : IF Fits(size, kept) THEN <<size>> \o kept ELSE kept, q, <<>>)

\* "kept[k]" is what is kept of the k newest entries of bs, for all k up to m.
KeptUpTo(kept, bs, m) ==
  /\ kept \in [0..m -> Seq(Sizes)]
  /\ kept[0] = <<>>
  /\ \A k \in 1..m : kept[k] = keepIfFits(bs[Len(bs) - k + 1], kept[k - 1])

leastOf(S) == [T \in SUBSET S |-> Min(T)]

\* The least element is one of the set; of k..n it is k.
LEMMA LeastPicks ==
  ASSUME NEW n \in Nat
  PROVE  /\ Picks(1..n, leastOf(1..n))
         /\ \A T \in (SUBSET (1..n)) \ {{}} : leastOf(1..n)[T] = Min(T) /\ Min(T) \in T
         /\ \A k \in 1..n : Min(k..n) = k
<1>1. ASSUME NEW T \in (SUBSET (1..n)) \ {{}}
      PROVE  Min(T) \in T /\ \A y \in T : Min(T) <= y
  <2>1. T \in SUBSET Nat /\ T # {}
    OBVIOUS
  <2>2. \E m \in T : \A k \in T : m <= k
    BY <2>1, Least
  <2> QED
    BY <2>2 DEF Min
<1>2. ASSUME NEW k \in 1..n
      PROVE  Min(k..n) = k
  <2>1. k..n \in (SUBSET (1..n)) \ {{}} /\ k \in k..n
    OBVIOUS
  <2>2. Min(k..n) \in k..n /\ Min(k..n) <= k
    BY <1>1, <2>1
  <2> QED
    BY <2>2
<1> QED
  BY <1>1, <1>2 DEF Picks, leastOf

\* The fold of retainedBackupEntries takes the entries one by one, newest first.
LEMMA RetainedFold ==
  ASSUME NEW q \in Seq(Sizes)
  PROVE  \E kept : KeptUpTo(kept, q, Len(q)) /\ retainedOf(q) = kept[Len(q)]
<1> DEFINE n == Len(q)
           S == 1..n
           V == Seq(Sizes)
           pick == leastOf(S)
           step == [xv \in S \X V |-> keepIfFits(q[xv[1]], xv[2])]
           Folds(it) == it = [T \in SUBSET S |-> IF T = {} THEN <<>>
                                                 ELSE keepIfFits(q[Min(T)], it[T \ {Min(T)}])]
<1>1. n \in Nat /\ IsFiniteSet(S) /\ DOMAIN q = S /\ \A x \in S : q[x] \in Sizes
  BY FS_Interval
<1>2. /\ Picks(S, pick)
      /\ \A T \in (SUBSET S) \ {{}} : pick[T] = Min(T) /\ Min(T) \in T
      /\ \A k \in 1..n : Min(k..n) = k
  BY <1>1, LeastPicks
<1>3. <<>> \in V /\ \A x \in S, v \in V : /\ keepIfFits(q[x], v) \in V
                                        /\ step[<<x, v>>] = keepIfFits(q[x], v)
  <2>1. ASSUME NEW size \in Sizes, NEW v \in V
        PROVE  keepIfFits(size, v) \in V
    BY DEF keepIfFits
  <2> QED
    BY <1>1, <2>1
<1> HIDE DEF V, pick, step
<1>4. PICK it : IsFold(S, V, it, <<>>, pick, step)
  <2>1. Steps(S, V, step)
    BY <1>3 DEF Steps
  <2> HIDE DEF S
  <2> QED
    BY <1>1, <1>2, <1>3, <2>1, FoldExists
<1>5. ASSUME NEW T \in (SUBSET S) \ {{}}
      PROVE  it[T] = keepIfFits(q[Min(T)], it[T \ {Min(T)}])
  <2>1. Min(T) \in S /\ T \ {Min(T)} \in SUBSET S
    BY <1>2
  <2>2. it[T] = step[<<Min(T), it[T \ {Min(T)}]>>]
    BY <1>2, <1>4 DEF FoldStep, IsFold
  <2> QED
    BY <1>3, <1>4, <2>1, <2>2 DEF IsFold
<1>6. it[{}] = <<>> /\ it \in [SUBSET S -> V]
  BY <1>4 DEF FoldStep, IsFold
<1>7. Folds(it)
  BY <1>5, <1>6
<1> DEFINE iter == CHOOSE g : Folds(g)
<1>8. Folds(iter)
  BY <1>7
<1>9. /\ iter[{}] = <<>>
      /\ \A T \in (SUBSET S) \ {{}} : iter[T] = keepIfFits(q[Min(T)], iter[T \ {Min(T)}])
  BY <1>8
<1>10. retainedOf(q) = iter[S]
  BY <1>1 DEF retainedOf, FoldRight, MapThenFoldSet, keepIfFits
<1> HIDE DEF iter
<1>11. \A T \in SUBSET S : iter[T] = it[T]
  <2>1. FoldAlike(S, pick, iter, it)
    <3> HIDE DEF S, n
    <3>1. ASSUME NEW T \in (SUBSET S) \ {{}}, iter[T \ {pick[T]}] = it[T \ {pick[T]}]
          PROVE  iter[T] = it[T]
      BY <1>2, <1>5, <1>9, <3>1, ZenonT(60)
    <3> QED
      BY <1>6, <1>9, <3>1 DEF FoldAlike
  <2> HIDE DEF S
  <2> QED
    BY <1>1, <1>2, <2>1, FoldUnique
<1> DEFINE kept == [k \in 0..n |-> it[(n - k + 1)..n]]
<1>12. KeptUpTo(kept, q, n)
  <2>1. \A k \in 0..n : (n - k + 1)..n \in SUBSET S
    BY <1>1
  <2>2. kept \in [0..n -> Seq(Sizes)]
    BY <1>6, <2>1 DEF V
  <2>3. kept[0] = <<>>
    <3>1. (n - 0 + 1)..n = {} /\ 0 \in 0..n
      BY <1>1
    <3> QED
      BY <1>6, <3>1
  <2>4. ASSUME NEW k \in 1..n
        PROVE  kept[k] = keepIfFits(q[n - k + 1], kept[k - 1])
    <3> DEFINE i == n - k + 1
    <3>1. i \in 1..n /\ i..n \in (SUBSET S) \ {{}} /\ (i..n) \ {i} = (n - (k - 1) + 1)..n
      <4>1. i \in 1..n /\ n - (k - 1) + 1 = i + 1
        BY <1>1
      <4> HIDE DEF i, n
      <4>2. (i..n) \ {i} = (i + 1)..n /\ i \in i..n /\ i..n \subseteq 1..n
        BY <1>1, <4>1
      <4> QED
        BY <4>1, <4>2
    <3>2. it[i..n] = keepIfFits(q[i], it[(i..n) \ {i}])
      BY <1>2, <1>5, <3>1
    <3>3. k \in 0..n /\ k - 1 \in 0..n
      BY <1>1
    <3> QED
      BY <3>1, <3>2, <3>3
  <2> QED
    BY <2>2, <2>3, <2>4 DEF KeptUpTo
<1>13. kept[n] = it[S]
  <2>1. (n - n + 1)..n = S /\ n \in 0..n
    BY <1>1
  <2> QED
    BY <2>1
<1> HIDE DEF kept
<1> QED
  BY <1>10, <1>11, <1>12, <1>13

-----------------------------------------------------------------------------
(* What is kept of a sequence of backups *)

considered(bs) == IF Len(bs) > MaxBackups THEN MaxBackups ELSE Len(bs)

\* What is retained is what was kept of the entries that are considered.
LEMMA Retained ==
  ASSUME NEW bs \in Seq(Sizes)
  PROVE  \E kept : /\ KeptUpTo(kept, bs, considered(bs))
                   /\ retainedBackupEntries(bs) = kept[considered(bs)]
<1> DEFINE n == Len(bs)
           m == considered(bs)
           q == SubSeq(bs, n - m + 1, n)
<1>1. n \in Nat /\ m \in 0..n /\ \A i \in 1..n : bs[i] \in Sizes
  BY SizesAssumption DEF considered
<1>2. q = SubSeq(bs, IF Len(bs) > MaxBackups THEN Len(bs) - MaxBackups + 1 ELSE 1, Len(bs))
  <2>1. n - m + 1 = IF Len(bs) > MaxBackups THEN Len(bs) - MaxBackups + 1 ELSE 1
    BY <1>1, SizesAssumption DEF considered
  <2> HIDE DEF m
  <2> QED
    BY <2>1
<1>3. retainedBackupEntries(bs) = retainedOf(q)
  BY <1>2 DEF retainedBackupEntries, retainedOf
<1>4. q \in Seq(Sizes) /\ Len(q) = m /\ \A i \in 1..m : q[i] = bs[n - m + i]
  <2> DEFINE l == n - m + 1
             sub == SubSeq(bs, l, n)
  <2>1. l \in Int /\ n \in Int /\ \A i \in l..n : bs[i] \in Sizes
    BY <1>1
  <2> HIDE DEF n, l
  <2>2. /\ sub \in Seq(Sizes)
        /\ Len(sub) = IF l <= n THEN n - l + 1 ELSE 0
        /\ \A i \in 1..(n - l + 1) : sub[i] = bs[l + i - 1]
    BY <2>1, SubSeqProperties
  <2>3. sub = q
    BY DEF l
  <2> HIDE DEF sub, m, q
  <2> QED
    BY <1>1, <2>2, <2>3 DEF l
<1> HIDE DEF n, m, q
<1>5. PICK kept : KeptUpTo(kept, q, m) /\ retainedOf(q) = kept[m]
  BY <1>4, RetainedFold
<1>6. KeptUpTo(kept, bs, m)
  <2>1. ASSUME NEW k \in 1..m
        PROVE  q[m - k + 1] = bs[n - k + 1]
    <3>1. m - k + 1 \in 1..m /\ n - m + (m - k + 1) = n - k + 1
      BY <1>1
    <3> QED
      BY <1>4, <3>1
  <2> QED
    BY <1>4, <1>5, <2>1 DEF KeptUpTo, n
<1> QED
  BY <1>3, <1>5, <1>6 DEF m

\* Sizes are numbers.
LEMMA SizesAreNumbers == Seq(Sizes) \subseteq Seq(Nat) /\ Sizes \subseteq Nat
<1>1. Sizes \subseteq Nat
  BY SizesAssumption
<1>2. ASSUME NEW bs \in Seq(Sizes)
      PROVE  bs \in Seq(Nat)
  BY <1>1, SeqMonotonic
<1> QED
  BY <1>1, <1>2

\* The bytes of what is kept: the entry is added if it fits, else nothing is.
LEMMA KeptBytes ==
  ASSUME NEW bs \in Seq(Sizes), NEW m \in 0..Len(bs), NEW kept, KeptUpTo(kept, bs, m)
  PROVE  /\ \A k \in 0..m : kept[k] \in Seq(Sizes) /\ Bytes(kept[k]) \in Nat
         /\ Bytes(kept[0]) = 0
         /\ \A k \in 1..m :
              LET size == bs[Len(bs) - k + 1] IN
              /\ size \in Sizes
              /\ Bytes(kept[k]) = IF MaxBackupBytes = 0
                                    \/ Bytes(kept[k - 1]) + size <= MaxBackupBytes
                                  THEN Bytes(kept[k - 1]) + size ELSE Bytes(kept[k - 1])
<1>1. \A k \in 0..m : kept[k] \in Seq(Sizes) /\ Bytes(kept[k]) \in Nat
  BY SizesAreNumbers, BytesType DEF KeptUpTo
<1>2. ASSUME NEW k \in 1..m
      PROVE  LET size == bs[Len(bs) - k + 1] IN
              /\ size \in Sizes
              /\ Bytes(kept[k]) = IF MaxBackupBytes = 0
                                    \/ Bytes(kept[k - 1]) + size <= MaxBackupBytes
                                  THEN Bytes(kept[k - 1]) + size ELSE Bytes(kept[k - 1])
  <2> DEFINE size == bs[Len(bs) - k + 1]
  <2>1. size \in Sizes /\ size \in Nat /\ k - 1 \in 0..m
    BY SizesAreNumbers
  <2>2. kept[k] = keepIfFits(size, kept[k - 1])
    BY DEF KeptUpTo
  <2> HIDE DEF size
  <2>3. kept[k - 1] \in Seq(Nat) /\ Bytes(kept[k - 1]) \in Nat
    BY <1>1, <2>1, SizesAreNumbers
  <2>4. Bytes(<<size>> \o kept[k - 1]) = size + Bytes(kept[k - 1])
    BY <2>1, <2>3, BytesPrepend
  <2>5. Bytes(kept[k]) = IF MaxBackupBytes = 0
                           \/ Bytes(kept[k - 1]) + size <= MaxBackupBytes
                         THEN Bytes(kept[k - 1]) + size ELSE Bytes(kept[k - 1])
    BY <2>1, <2>2, <2>3, <2>4 DEF keepIfFits, Fits
  <2> QED
    BY <2>1, <2>5 DEF size
<1> QED
  BY <1>1, <1>2, BytesEmpty DEF KeptUpTo

\* What is kept is within the limits, and ends with the newest entry if that
\* fits at all.
LEMMA KeptWithinLimits ==
  ASSUME NEW bs \in Seq(Sizes), NEW m \in 0..Len(bs), NEW kept, KeptUpTo(kept, bs, m)
  PROVE  /\ Len(kept[m]) <= m
         /\ MaxBackupBytes > 0 => Bytes(kept[m]) <= MaxBackupBytes
         /\ m > 0 /\ Fits(bs[Len(bs)], <<>>)
              => kept[m] # <<>> /\ Last(kept[m]) = bs[Len(bs)]
<1> DEFINE x == bs[Len(bs)]
           T == {k \in 0..m :
                   /\ Len(kept[k]) <= k
                   /\ MaxBackupBytes > 0 => Bytes(kept[k]) <= MaxBackupBytes
                   /\ k > 0 /\ Fits(x, <<>>) => kept[k] # <<>> /\ Last(kept[k]) = x}
<1>1. MaxBackupBytes \in Nat /\ m \in Nat /\ 0 \in 0..m
  BY SizesAssumption
<1>2. 0 \in T
  <2>1. kept[0] = <<>> /\ Len(kept[0]) = 0 /\ Bytes(kept[0]) = 0
    BY BytesEmpty DEF KeptUpTo
  <2> QED
    BY <1>1, <2>1
<1>3. ASSUME NEW k \in 1..m, k - 1 \in T
      PROVE  k \in T
  <2> DEFINE size == bs[Len(bs) - k + 1]
             old == kept[k - 1]
  <2>1. /\ size \in Sizes /\ k - 1 \in 0..m /\ k \in 0..m
        /\ old \in Seq(Sizes) /\ kept[k] \in Seq(Sizes) /\ Bytes(old) \in Nat
    BY KeptBytes
  <2>2. kept[k] = keepIfFits(size, old)
    BY DEF KeptUpTo
  <2>3. k = 1 => old = <<>> /\ size = x
    BY DEF KeptUpTo
  <2>4. Len(kept[k]) <= k
    <3>1. Len(<<size>> \o old) = Len(old) + 1
      BY <2>1
    <3> QED
      BY <1>3, <2>1, <2>2, <3>1 DEF keepIfFits
  <2>5. MaxBackupBytes > 0 => Bytes(kept[k]) <= MaxBackupBytes
    <3>1. \/ Bytes(kept[k]) = Bytes(old)
          \/ Bytes(kept[k]) = Bytes(old) + size
             /\ (MaxBackupBytes = 0 \/ Bytes(old) + size <= MaxBackupBytes)
      BY KeptBytes
    <3> HIDE DEF old, size, x
    <3> QED
      BY <1>1, <1>3, <3>1 DEF old
  <2>6. ASSUME Fits(x, <<>>)
        PROVE  kept[k] # <<>> /\ Last(kept[k]) = x
    <3>1. CASE k = 1
      BY <2>2, <2>3, <2>6, <3>1 DEF keepIfFits, Last
    <3>2. CASE k > 1
      <4>1. old # <<>> /\ Last(old) = x
        BY <1>3, <2>6, <3>2
      <4>2. Len(old) \in Nat \ {0} /\ Len(<<size>> \o old) = Len(old) + 1
            /\ (<<size>> \o old)[Len(old) + 1] = old[Len(old)]
        BY <2>1, <4>1
      <4> QED
        BY <2>1, <2>2, <4>1, <4>2 DEF keepIfFits, Last
    <3> QED
      BY <3>1, <3>2
  <2> HIDE DEF x, old, size
  <2> QED
    BY <2>1, <2>4, <2>5, <2>6
<1> HIDE DEF T
<1>4. m \in T
  <2>1. 0..m \subseteq T
    BY <1>1, <1>2, <1>3, UpTo
  <2> QED
    BY <1>1, <2>1
<1> QED
  BY <1>1, <1>4 DEF T

\* The more entries are considered, the more bytes are kept.
LEMMA KeptGrows ==
  ASSUME NEW bs \in Seq(Sizes), NEW m \in 0..Len(bs), NEW kept, KeptUpTo(kept, bs, m),
         NEW j \in 0..m
  PROVE  Bytes(kept[j]) <= Bytes(kept[m])
<1> DEFINE T == {i \in 0..(m - j) : Bytes(kept[j]) <= Bytes(kept[j + i])}
<1>1. m - j \in Nat /\ m - j \in 0..(m - j) /\ j + (m - j) = m /\ j + 0 = j
  OBVIOUS
<1>2. 0 \in T
  BY <1>1, KeptBytes
<1>3. ASSUME NEW i \in 1..(m - j), i - 1 \in T
      PROVE  i \in T
  <2> DEFINE k == j + i
             size == bs[Len(bs) - k + 1]
  <2>1. k \in 1..m /\ k - 1 \in 0..m /\ k - 1 = j + (i - 1) /\ i \in 0..(m - j)
    OBVIOUS
  <2>2. size \in Nat /\ Bytes(kept[k - 1]) \in Nat /\ Bytes(kept[j]) \in Nat
    BY <2>1, KeptBytes, SizesAreNumbers
  <2>3. Bytes(kept[k]) = Bytes(kept[k - 1]) + size \/ Bytes(kept[k]) = Bytes(kept[k - 1])
    BY <2>1, KeptBytes
  <2>4. Bytes(kept[j]) <= Bytes(kept[k - 1])
    BY <1>3, <2>1
  <2> HIDE DEF size
  <2>5. Bytes(kept[j]) <= Bytes(kept[k])
    <3> HIDE DEF k
    <3> QED
      BY <2>2, <2>3, <2>4
  <2> QED
    BY <2>1, <2>5
<1> HIDE DEF T
<1>4. m - j \in T
  <2> DEFINE d == m - j
  <2>1. d \in Nat /\ d \in 0..d
    BY <1>1
  <2> HIDE DEF d
  <2>2. 0..d \subseteq T
    BY <1>2, <1>3, <2>1, UpTo DEF d
  <2> QED
    BY <2>1, <2>2 DEF d
<1> QED
  BY <1>1, <1>4 DEF T

\* One size, or none, is at most the largest.
LEMMA LargestSizeIsLargest ==
  LargestSize \in Nat /\ \A size \in Sizes : size <= LargestSize
BY StoreAssumption, SizesAreNumbers DEF LargestSize

\* Two sequences of which the entries are the same from the second newest of the
\* one and the (d+1)-th newest of the other on: of the first one at most one size
\* more is kept.
LEMMA KeptCompared ==
  ASSUME NEW bs \in Seq(Sizes), NEW cs \in Seq(Sizes), NEW d \in 0..1, NEW n \in Nat,
         1 + n <= Len(bs), d + n <= Len(cs),
         \A k \in 1..n : bs[Len(bs) - k] = cs[Len(cs) - d - k + 1],
         NEW kb, KeptUpTo(kb, bs, 1 + n),
         NEW m \in 0..Len(cs), d + n <= m, NEW kc, KeptUpTo(kc, cs, m)
  PROVE  Bytes(kb[1 + n]) <= Bytes(kc[m]) + LargestSize
<1> DEFINE L == MaxBackupBytes
           b(k) == Bytes(kb[1 + k])
           c(k) == Bytes(kc[d + k])
           Compared(k) == \/ b(k) + c(0) = c(k) + b(0)
                          \/ (L > 0 /\ c(k) + LargestSize >= L)
           T == {k \in 0..n : Compared(k)}
           m1 == 1 + n
<1>1. L \in Nat /\ LargestSize \in Nat /\ 0 \in 0..n /\ n \in 0..n /\ 1 + n \in 0..Len(bs)
  BY SizesAssumption, LargestSizeIsLargest
<1>11. m1 \in 0..Len(bs) /\ KeptUpTo(kb, bs, m1)
  BY <1>1
<1> HIDE DEF m1
<1>12. /\ \A k \in 0..m1 : kb[k] \in Seq(Sizes) /\ Bytes(kb[k]) \in Nat
      /\ Bytes(kb[0]) = 0
      /\ \A k \in 1..m1 :
           LET size == bs[Len(bs) - k + 1] IN
           /\ size \in Sizes
           /\ Bytes(kb[k]) = IF MaxBackupBytes = 0
                                 \/ Bytes(kb[k - 1]) + size <= MaxBackupBytes
                               THEN Bytes(kb[k - 1]) + size ELSE Bytes(kb[k - 1])
  BY <1>11, KeptBytes, SMTT(30)
<1>13. /\ \A k \in 0..m : kc[k] \in Seq(Sizes) /\ Bytes(kc[k]) \in Nat
      /\ \A k \in 1..m :
           LET size == cs[Len(cs) - k + 1] IN
           /\ size \in Sizes
           /\ Bytes(kc[k]) = IF MaxBackupBytes = 0
                                 \/ Bytes(kc[k - 1]) + size <= MaxBackupBytes
                               THEN Bytes(kc[k - 1]) + size ELSE Bytes(kc[k - 1])
  BY KeptBytes, SMTT(30)
<1>2. \A k \in 0..n : b(k) \in Nat /\ c(k) \in Nat
  <2>1. ASSUME NEW k \in 0..n
        PROVE  1 + k \in 0..m1 /\ d + k \in 0..m
    BY DEF m1
  <2> QED
    BY <1>12, <1>13, <2>1
<1>3. b(0) <= LargestSize
  <2>1. 1 \in 1..m1 /\ Bytes(kb[1 - 1]) = 0 /\ 1 + 0 = 1 /\ 1 - 1 = 0
    BY <1>1, <1>12 DEF m1
  <2>2. \E size \in Sizes : Bytes(kb[1]) = 0 + size \/ Bytes(kb[1]) = 0
    BY <1>12, <2>1
  <2> QED
    BY <2>1, <2>2, LargestSizeIsLargest, SizesAreNumbers
<1>4. 0 \in T
  <2> HIDE DEF b, c
  <2> QED
    BY <1>1, <1>2
<1>5. ASSUME NEW k \in 1..n, k - 1 \in T
      PROVE  k \in T
  <2> DEFINE x == bs[Len(bs) - k]
             b0 == b(k - 1)
             c0 == c(k - 1)
  <2>1. k - 1 \in 0..n /\ k \in 0..n
    OBVIOUS
  <2>2. x \in Sizes /\ x \in Nat /\ x <= LargestSize
        /\ b(k) = IF L = 0 \/ b0 + x <= L THEN b0 + x ELSE b0
    <3>1. 1 + k \in 1..m1 /\ 1 + k - 1 = 1 + (k - 1) /\ Len(bs) - (1 + k) + 1 = Len(bs) - k
      BY DEF m1
    <3>2. /\ x \in Sizes
          /\ b(k) = IF L = 0 \/ b0 + x <= L THEN b0 + x ELSE b0
      BY <1>12, <3>1
    <3> QED
      BY <3>2, LargestSizeIsLargest, SizesAreNumbers
  <2>3. c(k) = IF L = 0 \/ c0 + x <= L THEN c0 + x ELSE c0
    <3> DEFINE j == d + k
    <3>1. j \in 1..m /\ j - 1 = d + (k - 1) /\ Len(cs) - j + 1 = Len(cs) - d - k + 1
      OBVIOUS
    <3>2. cs[Len(cs) - d - k + 1] = x
      OBVIOUS
    <3> HIDE DEF j
    <3>3. Bytes(kc[j]) = IF L = 0 \/ Bytes(kc[j - 1]) + x <= L
                         THEN Bytes(kc[j - 1]) + x ELSE Bytes(kc[j - 1])
      BY <1>13, <3>1, <3>2
    <3>4. c(k) = Bytes(kc[j]) /\ c0 = Bytes(kc[j - 1])
      BY <3>1 DEF j
    <3> QED
      BY <3>3, <3>4
  <2>4. b0 \in Nat /\ c0 \in Nat /\ b(0) \in Nat /\ c(0) \in Nat
    BY <1>1, <1>2, <2>1
  <2>5. b0 + c(0) = c0 + b(0) \/ (L > 0 /\ c0 + LargestSize >= L)
    BY <1>5
  <2>6. b(k) + c(0) = c(k) + b(0) \/ (L > 0 /\ c(k) + LargestSize >= L)
    <3>1. b(k) \in Nat /\ c(k) \in Nat
      BY <1>2, <2>1
    <3> DEFINE bk == b(k)
               ck == c(k)
               bf == b(0)
               cf == c(0)
    <3>2. /\ bk = IF L = 0 \/ b0 + x <= L THEN b0 + x ELSE b0
          /\ ck = IF L = 0 \/ c0 + x <= L THEN c0 + x ELSE c0
          /\ b0 + cf = c0 + bf \/ (L > 0 /\ c0 + LargestSize >= L)
          /\ bk \in Nat /\ ck \in Nat /\ bf \in Nat /\ cf \in Nat /\ b0 \in Nat /\ c0 \in Nat
          /\ bf <= LargestSize /\ x <= LargestSize /\ x \in Nat
      BY <1>3, <2>2, <2>3, <2>4, <2>5, <3>1
    <3> HIDE DEF x, b0, c0, L, bk, ck, bf, cf
    <3>3. bk + cf = ck + bf \/ (L > 0 /\ ck + LargestSize >= L)
      <4>1. CASE L = 0
        BY <1>1, <3>2, <4>1
      <4>2. CASE L > 0 /\ c0 + LargestSize >= L
        BY <1>1, <3>2, <4>2
      <4>3. CASE L > 0 /\ b0 + cf = c0 + bf
        BY <1>1, <3>2, <4>3
      <4> QED
        BY <1>1, <3>2, <4>1, <4>2, <4>3
    <3> QED
      BY <3>3 DEF bk, ck, bf, cf
  <2> QED
    BY <2>1, <2>6
<1> HIDE DEF T
<1>6. n \in T
  BY <1>1, <1>4, <1>5, UpTo
<1>7. b(n) <= c(n) + LargestSize
  <2>1. L > 0 => b(n) <= L
    BY <1>1, <1>11, KeptWithinLimits DEF m1
  <2>2. b(n) + c(0) = c(n) + b(0) \/ (L > 0 /\ c(n) + LargestSize >= L)
    BY <1>6 DEF T
  <2> HIDE DEF b, c, L
  <2> QED
    BY <1>1, <1>2, <1>3, <2>1, <2>2
<1>8. c(n) <= Bytes(kc[m])
  <2>1. d + n \in 0..m
    OBVIOUS
  <2> QED
    BY <2>1, KeptGrows
<1>9. Bytes(kc[m]) \in Nat
  <2>1. m \in 0..m
    OBVIOUS
  <2> QED
    BY <2>1, <1>13
<1> HIDE DEF b, c
<1>10. b(n) <= Bytes(kc[m]) + LargestSize
  BY <1>1, <1>2, <1>7, <1>8, <1>9
<1> QED
  BY <1>10 DEF b

\* retainedBackupEntries returns backups within both limits, the newest one among
\* them unless it alone is too large.
LEMMA RetainedWithinLimits ==
  ASSUME NEW bs \in Seq(Sizes)
  PROVE  /\ retainedBackupEntries(bs) \in Seq(Sizes)
         /\ Len(retainedBackupEntries(bs)) <= MaxBackups
         /\ MaxBackupBytes > 0 => Bytes(retainedBackupEntries(bs)) <= MaxBackupBytes
         /\ bs # <<>> /\ Fits(bs[Len(bs)], <<>>)
              => /\ retainedBackupEntries(bs) # <<>>
                 /\ Last(retainedBackupEntries(bs)) = bs[Len(bs)]
<1> DEFINE m == considered(bs)
<1>1. m \in 0..Len(bs) /\ m <= MaxBackups /\ m \in 0..m /\ (bs # <<>> => m > 0)
  BY SizesAssumption DEF considered
<1> HIDE DEF m
<1>2. PICK kept : KeptUpTo(kept, bs, m) /\ retainedBackupEntries(bs) = kept[m]
  BY Retained DEF m
<1>3. kept[m] \in Seq(Sizes) /\ Len(kept[m]) \in Nat
  BY <1>1, <1>2, KeptBytes
<1>4. /\ Len(kept[m]) <= m
      /\ MaxBackupBytes > 0 => Bytes(kept[m]) <= MaxBackupBytes
      /\ m > 0 /\ Fits(bs[Len(bs)], <<>>)
           => kept[m] # <<>> /\ Last(kept[m]) = bs[Len(bs)]
  BY <1>1, <1>2, KeptWithinLimits
<1>5. Len(kept[m]) <= MaxBackups
  BY <1>1, <1>3, <1>4, SizesAssumption
<1> QED
  BY <1>1, <1>2, <1>3, <1>4, <1>5

\* It drops nothing from backups that are within the limits.
LEMMA RetainedAll ==
  ASSUME NEW bs \in Seq(Sizes), Len(bs) <= MaxBackups,
         MaxBackupBytes > 0 => Bytes(bs) <= MaxBackupBytes
  PROVE  Bytes(retainedBackupEntries(bs)) = Bytes(bs)
<1> DEFINE n == Len(bs)
           older(k) == SubSeq(bs, 1, n - k)
<1>1. n \in Nat /\ considered(bs) = n /\ n \in 0..n
  BY SizesAssumption DEF considered
<1>2. bs \in Seq(Nat) /\ Bytes(bs) \in Nat /\ MaxBackupBytes \in Nat
  BY SizesAreNumbers, BytesType, SizesAssumption
<1>3. PICK kept : KeptUpTo(kept, bs, n) /\ retainedBackupEntries(bs) = kept[n]
  BY <1>1, Retained
<1> DEFINE T == {k \in 0..n : Bytes(older(k)) + Bytes(kept[k]) = Bytes(bs)}
<1>4. \A k \in 0..n : older(k) \in Seq(Nat) /\ Bytes(older(k)) \in Nat
  <2>1. ASSUME NEW k \in 0..n
        PROVE  older(k) \in Seq(Nat)
    <3>1. \A i \in 1..(n - k) : bs[i] \in Nat
      BY <1>2
    <3> QED
      BY <1>1, <3>1, SubSeqProperties
  <2> QED
    BY <2>1, BytesType
<1>5. 0 \in T
  <2>1. older(0) = bs
    BY <1>1, <1>2, SubSeqFull
  <2>2. Bytes(kept[0]) = 0 /\ 0 \in 0..n
    BY <1>1, <1>3, KeptBytes
  <2> HIDE DEF older, n
  <2> QED
    BY <1>2, <2>1, <2>2
<1>6. ASSUME NEW k \in 1..n, k - 1 \in T
      PROVE  k \in T
  <2> DEFINE j == n - k + 1
             x == bs[j]
             b == Bytes(kept[k - 1])
  <2>1. j \in 1..n /\ x \in Nat /\ k - 1 \in 0..n /\ k \in 0..n /\ n - (k - 1) = j /\ n - k = j - 1
    BY <1>1, <1>2
  <2>2. b \in Nat /\ Bytes(kept[k]) = IF MaxBackupBytes = 0 \/ b + x <= MaxBackupBytes
                                     THEN b + x ELSE b
    BY <1>1, <1>3, <2>1, KeptBytes
  <2>3. Bytes(older(k - 1)) = Bytes(older(k)) + x
    <3>1. SubSeq(bs, 1, j) = SubSeq(bs, 1, j - 1) \o <<bs[j]>>
      <4> HIDE DEF j
      <4>1. 1 \in 1..Len(bs) /\ j \in 1..Len(bs)
        BY <1>1, <2>1
      <4> QED
        BY <1>2, <4>1, SubSeqRecursiveSecond
    <3>2. SubSeq(bs, 1, j - 1) \in Seq(Nat)
      BY <1>4, <2>1
    <3> HIDE DEF j
    <3>3. SubSeq(bs, 1, j) = Append(SubSeq(bs, 1, j - 1), x)
      BY <2>1, <3>1, <3>2
    <3>4. Bytes(SubSeq(bs, 1, j)) = Bytes(SubSeq(bs, 1, j - 1)) + x
      BY <2>1, <3>2, <3>3, BytesAppend
    <3> QED
      BY <2>1, <3>4
  <2>4. Bytes(older(k - 1)) + b = Bytes(bs) /\ Bytes(older(k)) \in Nat
    BY <1>4, <1>6, <2>1
  <2>5. Bytes(older(k)) + Bytes(kept[k]) = Bytes(bs)
    <3> HIDE DEF j, x, b, older, n
    <3> QED
      BY <1>2, <2>1, <2>2, <2>3, <2>4
  <2> QED
    BY <2>1, <2>5
<1> HIDE DEF T, n
<1>7. n \in T
  BY <1>1, <1>5, <1>6, UpTo
<1>8. Bytes(older(n)) = 0
  <2>1. older(n) = <<>>
    <3>1. n - n = 0
      BY <1>1
    <3> QED
      BY <3>1, SubSeqEmpty
  <2> QED
    BY <2>1, BytesEmpty
<1>9. Bytes(kept[n]) \in Nat
  BY <1>1, <1>3, KeptBytes DEF n
<1> HIDE DEF older
<1> QED
  BY <1>2, <1>3, <1>7, <1>8, <1>9 DEF T

\* The projection of enforceSyncStorageQuota and what is retained after the copy:
\* the same entries, but that the version "f" that is overwritten is the oldest in
\* the one and the newest in the other, in place of the newest of "b" if that was
\* taken in the same millisecond.  The two differ by one size at most.
LEMMA RetainedCompared ==
  ASSUME NEW p \in Seq(Sizes), NEW b \in Seq(Sizes), NEW f \in Sizes,
         b = p \/ (b # <<>> /\ p = Front(b))
  PROVE  Bytes(retainedBackupEntries(Append(p, f)))
           <= Bytes(retainedBackupEntries(<<f>> \o b)) + LargestSize
<1> DEFINE bs == Append(p, f)
           cs == <<f>> \o b
           d == IF b = p THEN 0 ELSE 1
           n == considered(bs) - 1
           m == considered(cs)
<1>1. /\ Len(p) \in Nat /\ d \in 0..1 /\ Len(b) = Len(p) + d
      /\ \A i \in 1..Len(p) : b[i] = p[i]
  BY FrontAndLast, SMTT(30)
<1>2. bs \in Seq(Sizes) /\ Len(bs) = Len(p) + 1 /\ \A i \in 1..Len(p) : bs[i] = p[i]
  OBVIOUS
<1>3. cs \in Seq(Sizes) /\ Len(cs) = Len(b) + 1 /\ \A i \in 1..Len(b) : cs[i + 1] = b[i]
  OBVIOUS
<1> HIDE DEF bs, cs, d
<1>4. /\ n \in Nat /\ considered(bs) = 1 + n /\ n <= Len(p)
      /\ m \in 0..Len(cs) /\ d + n <= m
  BY <1>1, <1>2, <1>3, SizesAssumption, SMTT(30) DEF considered
<1> HIDE DEF n, m
<1>5. 1 + n <= Len(bs) /\ d + n <= Len(cs)
  BY <1>1, <1>2, <1>3, <1>4
<1>6. ASSUME NEW k \in 1..n
      PROVE  bs[Len(bs) - k] = cs[Len(cs) - d - k + 1]
  <2> DEFINE i == Len(p) + 1 - k
  <2>1. i \in 1..Len(p) /\ Len(bs) - k = i /\ Len(cs) - d - k + 1 = i + 1 /\ i \in 1..Len(b)
    BY <1>1, <1>2, <1>3, <1>4
  <2> HIDE DEF i
  <2> QED
    BY <1>1, <1>2, <1>3, <2>1
<1>7. PICK kb : KeptUpTo(kb, bs, 1 + n) /\ retainedBackupEntries(bs) = kb[1 + n]
  BY <1>2, <1>4, Retained
<1>8. PICK kc : KeptUpTo(kc, cs, m) /\ retainedBackupEntries(cs) = kc[m]
  BY <1>3, Retained DEF m
<1>9. Bytes(kb[1 + n]) <= Bytes(kc[m]) + LargestSize
  BY <1>1, <1>2, <1>3, <1>4, <1>5, <1>6, <1>7, <1>8, KeptCompared
<1> QED
  BY <1>7, <1>8, <1>9 DEF bs, cs

-----------------------------------------------------------------------------
(* The steps *)

\* The backups of an account after the copy of its file, which is not empty.
LEMMA CopiedAndPruned ==
  ASSUME TypeOK, NEW a \in Accounts, file[a] > 0
  PROVE  /\ file[a] \in Sizes
         /\ copied(a) \in Seq(Sizes) /\ copied(a) # <<>>
         /\ retainedBackupEntries(copied(a)) \in Seq(Sizes)
         /\ Len(retainedBackupEntries(copied(a))) <= MaxBackups
         /\ MaxBackupBytes > 0 => Bytes(retainedBackupEntries(copied(a))) <= MaxBackupBytes
         /\ Fits(file[a], <<>>) => /\ retainedBackupEntries(copied(a)) # <<>>
                                  /\ Last(retainedBackupEntries(copied(a))) = file[a]
         /\ Bytes(retainedBackupEntries(copied(a))) <= projectedBackupBytes(a) + LargestSize
<1> DEFINE b == backups[a]
           p == IF a \in stamped THEN Front(b) ELSE b
<1>1. file[a] \in Sizes /\ b \in Seq(Sizes) /\ (a \in stamped => b # <<>>)
  BY DEF TypeOK
<1>2. p \in Seq(Sizes) /\ (b = p \/ (b # <<>> /\ p = Front(b)))
  BY <1>1, FrontAndLast
<1>3. copied(a) = Append(p, file[a])
  BY DEF copied
<1> HIDE DEF p
<1>4. /\ copied(a) \in Seq(Sizes) /\ copied(a) # <<>>
      /\ copied(a)[Len(copied(a))] = file[a]
  <2>1. /\ Append(p, file[a]) \in Seq(Sizes) /\ Len(Append(p, file[a])) = Len(p) + 1
        /\ Append(p, file[a])[Len(p) + 1] = file[a] /\ Len(p) \in Nat
    BY <1>1, <1>2
  <2> QED
    BY <1>3, <2>1
<1>5. Bytes(retainedBackupEntries(copied(a))) <= projectedBackupBytes(a) + LargestSize
  <2>1. Bytes(retainedBackupEntries(Append(p, file[a])))
          <= Bytes(retainedBackupEntries(<<file[a]>> \o b)) + LargestSize
    <3> HIDE DEF b
    <3> QED
      BY <1>1, <1>2, RetainedCompared
  <2> QED
    BY <1>3, <2>1 DEF projectedBackupBytes
<1> QED
  BY <1>1, <1>4, <1>5, RetainedWithinLimits

\* A file is empty or of one of the sizes.
LEMMA FileSize ==
  ASSUME TypeOK, NEW a \in Accounts
  PROVE  /\ file[a] \in Nat
         /\ file[a] = 0 \/ (file[a] \in Sizes /\ file[a] > 0)
<1>1. \A size \in Sizes : size \in Nat /\ size > 0
  BY SizesAssumption
<1>2. file[a] \in Sizes \cup {0}
  BY DEF TypeOK
<1> QED
  BY <1>1, <1>2

\* Of the store a step leaves everything but the stamps alone, writes a record,
\* is interrupted while it writes one, deletes or moves an account's data.
LEMMA StoreSteps ==
  ASSUME TypeOK, [Next]_vars
  PROVE  \/ UNCHANGED <<file, backups, litter, torn>>
         \/ \E a \in Accounts, size \in Sizes :
              writeSyncRecord(a, size) \/ writeSyncRecordInterrupted(a, size)
         \/ \E a \in Accounts : deleteSyncData(a)
         \/ \E a, b \in Accounts : moveSyncData(a, b)
<1>1. ASSUME NEW r \in Requests, reqs[r] # Idle
      PROVE  reqs[r].account \in Accounts
  BY <1>1 DEF TypeOK, PutCtx
<1>2. CASE \E r \in Requests, a \in Accounts, allowShrink \in BOOLEAN : PutBegin(r, a, allowShrink)
  BY <1>2 DEF PutBegin
<1>3. CASE \E r \in Requests, counts \in Counts, size \in Sizes :
             PutEnd(r, counts, size) \/ PutInterrupted(r, counts, size)
  BY <1>1, <1>3 DEF PutEnd, PutInterrupted
<1>4. CASE \E r \in Requests : PutFails(r)
  BY <1>4 DEF PutFails
<1>5. CASE \E a \in Accounts, size \in Sizes, allowShrink \in BOOLEAN :
             importOwnData(a, size, allowShrink)
  BY <1>5 DEF importOwnData
<1>6. CASE \E a \in Accounts : deleteSyncData(a)
  BY <1>6
<1>7. CASE \E a, b \in Accounts : moveSyncData(a, b)
  BY <1>7
<1>8. CASE Tick \/ Restart \/ UNCHANGED vars
  BY <1>8 DEF Tick, Restart, vars
<1> QED
  BY <1>2, <1>3, <1>4, <1>5, <1>6, <1>7, <1>8 DEF Next

-----------------------------------------------------------------------------
(* Types *)

\* A write, completed or not, keeps the types.
LEMMA WriteTypes ==
  ASSUME TypeOK, NEW a \in Accounts, NEW size \in Sizes,
         writeSyncRecord(a, size) \/ writeSyncRecordInterrupted(a, size)
  PROVE  /\ file' \in [Accounts -> Sizes \cup {0}]
         /\ backups' \in [Accounts -> Seq(Sizes)]
         /\ stamped' \in SUBSET {b \in Accounts : backups'[b] # <<>>}
         /\ litter' \in 0..MaxLitter
         /\ torn' \in SUBSET Accounts
<1> USE DEF TypeOK
<1>1. ASSUME backupSyncFile(a)
      PROVE  /\ backups' \in [Accounts -> Seq(Sizes)]
             /\ stamped' \in SUBSET {b \in Accounts : backups'[b] # <<>>}
  <2>1. CASE file[a] = 0
    BY <1>1, <2>1 DEF backupSyncFile
  <2>2. CASE file[a] > 0
    <3> DEFINE kept == retainedBackupEntries(copied(a))
    <3>1. kept \in Seq(Sizes) /\ (Fits(file[a], <<>>) => kept # <<>>)
      BY <2>2, CopiedAndPruned
    <3>2. /\ backups' = [backups EXCEPT ![a] = kept]
          /\ stamped' = IF Fits(file[a], <<>>) THEN stamped \cup {a} ELSE stamped \ {a}
      BY <1>1, <2>2, SizesAreNumbers DEF backupSyncFile, backupKept
    <3> HIDE DEF kept
    <3> QED
      BY <3>1, <3>2
  <2>3. file[a] = 0 \/ file[a] > 0
    BY FileSize
  <2> QED
    BY <2>1, <2>2, <2>3
<1>2. CASE writeSyncRecord(a, size)
  BY <1>1, <1>2 DEF writeSyncRecord
<1>3. CASE writeSyncRecordInterrupted(a, size)
  <2>1. CASE /\ file[a] > 0
             /\ backups' = [backups EXCEPT ![a] = copied(a)]
             /\ stamped' = stamped \cup {a}
             /\ UNCHANGED litter
    <3>1. copied(a) \in Seq(Sizes) /\ copied(a) # <<>>
      BY <2>1, CopiedAndPruned
    <3> QED
      BY <1>3, <2>1, <3>1 DEF writeSyncRecordInterrupted
  <2>2. CASE backupSyncFile(a) /\ litter + size <= MaxLitter /\ litter' = litter + size
    BY <1>1, <1>3, <2>2, SizesAreNumbers, SizesAssumption DEF writeSyncRecordInterrupted
  <2> QED
    BY <1>3, <2>1, <2>2 DEF writeSyncRecordInterrupted
<1> QED
  BY <1>2, <1>3

\* Deleting and moving keep the types.
LEMMA MoveTypes ==
  ASSUME TypeOK, NEW a \in Accounts, NEW b \in Accounts,
         deleteSyncData(a) \/ moveSyncData(a, b)
  PROVE  TypeOK'
<1> USE DEF TypeOK
<1>1. <<>> \in Seq(Sizes)
  OBVIOUS
<1>2. CASE deleteSyncData(a)
  BY <1>1, <1>2 DEF deleteSyncData
<1>3. CASE moveSyncData(a, b)
  <2>1. /\ file' \in [Accounts -> Sizes \cup {0}]
        /\ backups' \in [Accounts -> Seq(Sizes)]
        /\ reqs' = reqs /\ litter' = litter
    BY <1>1, <1>3 DEF moveSyncData
  <2>2. torn' \in SUBSET Accounts
    BY <1>3 DEF moveSyncData
  <2>3. stamped' \in SUBSET {c \in Accounts : backups'[c] # <<>>}
    <3>1. /\ a # b /\ backups[b] = <<>> /\ backups'[b] = backups[a]
          /\ \A c \in Accounts \ {a, b} : backups'[c] = backups[c]
          /\ stamped' = IF a \in stamped THEN (stamped \ {a}) \cup {b} ELSE stamped
      BY <1>3 DEF moveSyncData
    <3> QED
      BY <3>1
  <2> QED
    BY <2>1, <2>2, <2>3
<1> QED
  BY <1>2, <1>3

\* The types of the store: file and backup sizes are sizes of blobs, the newest
\* backup of an account that is stamped exists.
THEOREM TypeCorrect == Spec => []TypeOK
<1>1. Init => TypeOK
  BY SizesAssumption DEF Init, TypeOK
<1>2. TypeOK /\ [Next]_vars => TypeOK'
  <2> SUFFICES ASSUME TypeOK, [Next]_vars
               PROVE  TypeOK'
    OBVIOUS
  <2>1. ASSUME NEW r \in Requests, NEW a \in Accounts, NEW allowShrink \in BOOLEAN,
               PutBegin(r, a, allowShrink)
        PROVE  TypeOK'
    BY <2>1 DEF PutBegin, TypeOK, PutCtx
  <2>2. ASSUME NEW r \in Requests, NEW counts \in Counts, NEW size \in Sizes,
               PutEnd(r, counts, size) \/ PutInterrupted(r, counts, size)
        PROVE  TypeOK'
    <3> DEFINE a == reqs[r].account
    <3>1. a \in Accounts
      BY <2>2 DEF PutEnd, PutInterrupted, TypeOK, PutCtx
    <3>2. writeSyncRecord(a, size) \/ writeSyncRecordInterrupted(a, size)
      BY <2>2 DEF PutEnd, PutInterrupted
    <3>3. reqs' \in [Requests -> PutCtx \cup {Idle}]
      BY <2>2 DEF PutEnd, PutInterrupted, Finish, TypeOK
    <3> HIDE DEF a
    <3> QED
      BY <3>1, <3>2, <3>3, WriteTypes DEF TypeOK
  <2>3. ASSUME NEW r \in Requests, PutFails(r)
        PROVE  TypeOK'
    BY <2>3 DEF PutFails, Finish, TypeOK
  <2>4. ASSUME NEW a \in Accounts, NEW size \in Sizes, NEW allowShrink \in BOOLEAN,
               importOwnData(a, size, allowShrink)
        PROVE  TypeOK'
    <3>1. writeSyncRecord(a, size) \/ writeSyncRecordInterrupted(a, size)
      BY <2>4 DEF importOwnData
    <3>2. reqs' = reqs
      BY <2>4 DEF importOwnData
    <3> QED
      BY <3>1, <3>2, WriteTypes DEF TypeOK
  <2>5. ASSUME NEW a \in Accounts, deleteSyncData(a)
        PROVE  TypeOK'
    BY <2>5, MoveTypes
  <2>6. ASSUME NEW a \in Accounts, NEW b \in Accounts, moveSyncData(a, b)
        PROVE  TypeOK'
    BY <2>6, MoveTypes
  <2>7. CASE Tick
    BY <2>7 DEF Tick, TypeOK
  <2>8. CASE Restart
    BY <2>8 DEF Restart, TypeOK
  <2>9. CASE UNCHANGED vars
    BY <2>9 DEF vars, TypeOK
  <2> QED
    BY <2>1, <2>2, <2>3, <2>4, <2>5, <2>6, <2>7, <2>8, <2>9 DEF Next
<1> QED
  BY <1>1, <1>2, PTL DEF Spec

-----------------------------------------------------------------------------
(* Retention *)

WithinLimits(bs) ==
  /\ Len(bs) <= MaxBackups
  /\ MaxBackupBytes > 0 => Bytes(bs) <= MaxBackupBytes

\* The inductive form of RetentionHolds: an interrupted write leaves too many
\* backups only where there is a file, which the next completed write copies.
RetentionUnlessTorn ==
  \A a \in Accounts : (a \notin torn \/ file[a] = 0) => WithinLimits(backups[a])

\* No backups are within the limits.
LEMMA NoBackupsWithinLimits == WithinLimits(<<>>)
BY SizesAssumption, BytesEmpty DEF WithinLimits

\* What a backup of the file with its prune does to the backups of the accounts.
LEMMA BackedUp ==
  ASSUME TypeOK, NEW a \in Accounts, backupSyncFile(a)
  PROVE  /\ \A b \in Accounts \ {a} : backups'[b] = backups[b]
         /\ file[a] = 0 => backups'[a] = backups[a]
         /\ file[a] > 0 => backups'[a] = retainedBackupEntries(copied(a))
         /\ file[a] = 0 \/ file[a] > 0
<1>1. file[a] = 0 \/ file[a] > 0
  BY FileSize
<1> QED
  BY <1>1 DEF backupSyncFile, TypeOK

\* Every step keeps RetentionUnlessTorn.
LEMMA RetentionStep ==
  ASSUME TypeOK, RetentionUnlessTorn, [Next]_vars
  PROVE  RetentionUnlessTorn'
<1> SUFFICES ASSUME NEW c \in Accounts, c \notin torn' \/ file'[c] = 0
             PROVE  WithinLimits(backups'[c])
  BY DEF RetentionUnlessTorn
<1>1. CASE UNCHANGED <<file, backups, litter, torn>>
  BY <1>1 DEF RetentionUnlessTorn
<1>2. ASSUME NEW a \in Accounts, NEW size \in Sizes, writeSyncRecord(a, size)
      PROVE  WithinLimits(backups'[c])
  <2>1. file' = [file EXCEPT ![a] = size] /\ torn' = torn \ {a} /\ backupSyncFile(a)
    BY <1>2 DEF writeSyncRecord
  <2>2. CASE c # a
    BY <2>1, <2>2, BackedUp DEF RetentionUnlessTorn, TypeOK
  <2>3. CASE c = a /\ file[a] = 0
    BY <2>1, <2>3, BackedUp DEF RetentionUnlessTorn
  <2>4. CASE c = a /\ file[a] > 0
    BY <2>1, <2>4, BackedUp, CopiedAndPruned DEF WithinLimits
  <2> QED
    BY <2>1, <2>2, <2>3, <2>4, BackedUp
<1>3. ASSUME NEW a \in Accounts, NEW size \in Sizes, writeSyncRecordInterrupted(a, size)
      PROVE  WithinLimits(backups'[c])
  <2>1. file' = file /\ torn' = torn \cup {a}
    BY <1>3 DEF writeSyncRecordInterrupted
  <2>2. CASE c # a
    <3>1. backups'[c] = backups[c]
      BY <1>3, <2>2, BackedUp DEF writeSyncRecordInterrupted, TypeOK
    <3> QED
      BY <2>1, <2>2, <3>1 DEF RetentionUnlessTorn
  <2>3. CASE c = a
    <3>1. file[a] = 0
      BY <2>1, <2>3
    <3>2. backups'[a] = backups[a]
      BY <1>3, <3>1, BackedUp DEF writeSyncRecordInterrupted
    <3> QED
      BY <2>3, <3>1, <3>2 DEF RetentionUnlessTorn
  <2> QED
    BY <2>2, <2>3
<1>4. ASSUME NEW a \in Accounts, deleteSyncData(a)
      PROVE  WithinLimits(backups'[c])
  <2>1. CASE c = a
    BY <1>4, <2>1, NoBackupsWithinLimits DEF deleteSyncData, TypeOK
  <2>2. CASE c # a
    BY <1>4, <2>2 DEF deleteSyncData, TypeOK, RetentionUnlessTorn
  <2> QED
    BY <2>1, <2>2
<1>5. ASSUME NEW a \in Accounts, NEW b \in Accounts, moveSyncData(a, b)
      PROVE  WithinLimits(backups'[c])
  <2>1. /\ a # b
        /\ file'[a] = 0 /\ file'[b] = file[a] /\ backups'[a] = <<>> /\ backups'[b] = backups[a]
        /\ \A d \in Accounts \ {a, b} : file'[d] = file[d] /\ backups'[d] = backups[d]
        /\ torn' = IF a \in torn THEN (torn \ {a}) \cup {b} ELSE torn
    BY <1>5 DEF moveSyncData, TypeOK
  <2>2. CASE c = a
    BY <2>1, <2>2, NoBackupsWithinLimits
  <2>3. CASE c = b
    BY <2>1, <2>3 DEF RetentionUnlessTorn
  <2>4. CASE c \notin {a, b}
    BY <2>1, <2>4 DEF RetentionUnlessTorn
  <2> QED
    BY <2>2, <2>3, <2>4
<1> QED
  BY <1>1, <1>2, <1>3, <1>4, <1>5, StoreSteps

\* The limits on number and bytes of backups hold for every account of which the
\* last write was completed, for every combination of the two limits.
THEOREM RetentionCorrect == Spec => []RetentionHolds
<1>1. Init => RetentionUnlessTorn
  BY NoBackupsWithinLimits DEF Init, RetentionUnlessTorn
<1>2. RetentionUnlessTorn => RetentionHolds
  BY DEF RetentionUnlessTorn, WithinLimits, RetentionHolds
<1> QED
  BY <1>1, <1>2, RetentionStep, TypeCorrect, PTL DEF Spec

-----------------------------------------------------------------------------
(* What a step may not do *)

\* No step overwrites a version without making it the newest backup, unless it
\* alone exceeds the byte limit.
THEOREM PreviousVersionKeptCorrect == Spec => PreviousVersionKept
<1> DEFINE Kept == \A a \in Accounts :
             (file[a] > 0 /\ file'[a] > 0 /\ file'[a] # file[a] /\ Fits(file[a], <<>>))
               => (backups'[a] # <<>> /\ Last(backups'[a]) = file[a])
<1>1. TypeOK /\ [Next]_vars => Kept
  <2> SUFFICES ASSUME TypeOK, [Next]_vars, NEW c \in Accounts,
                      file[c] > 0, file'[c] > 0, file'[c] # file[c], Fits(file[c], <<>>)
               PROVE  backups'[c] # <<>> /\ Last(backups'[c]) = file[c]
    OBVIOUS
  <2>1. ASSUME NEW a \in Accounts, NEW size \in Sizes, writeSyncRecord(a, size)
        PROVE  backups'[c] # <<>> /\ Last(backups'[c]) = file[c]
    <3>1. file' = [file EXCEPT ![a] = size] /\ backupSyncFile(a)
      BY <2>1 DEF writeSyncRecord
    <3>2. c = a
      BY <3>1 DEF TypeOK
    <3> QED
      BY <3>1, <3>2, BackedUp, CopiedAndPruned
  <2>2. ASSUME NEW a \in Accounts, NEW size \in Sizes, writeSyncRecordInterrupted(a, size)
        PROVE  FALSE
    BY <2>2 DEF writeSyncRecordInterrupted
  <2>3. ASSUME NEW a \in Accounts, deleteSyncData(a)
        PROVE  FALSE
    BY <2>3 DEF deleteSyncData, TypeOK
  <2>4. ASSUME NEW a \in Accounts, NEW b \in Accounts, moveSyncData(a, b)
        PROVE  FALSE
    BY <2>4 DEF moveSyncData, TypeOK
  <2> QED
    BY <2>1, <2>2, <2>3, <2>4, StoreSteps
<1> QED
  BY <1>1, TypeCorrect, PTL DEF Spec, PreviousVersionKept

-----------------------------------------------------------------------------
(* Quotas *)

\* The bytes of the accounts of which the last write was completed.
settledBytes == [a \in Accounts |-> IF a \in torn THEN 0 ELSE AccountBytes(a)]

\* The inductive form of QuotasExceededByOneVersion.  What is left of an interrupted
\* write may exceed the limits until the account's data is deleted or written
\* again, so its bytes do not count; what the others have does all the time.
QuotasUnlessTorn ==
  /\ \A a \in Accounts \ torn : AccountBytes(a) <= MaxAccount + LargestSize
  /\ litter + SumFunctionOnSet(settledBytes, Accounts) <= MaxGlobal + LargestSize

\* What an account takes is a number.
LEMMA AccountBytesType ==
  ASSUME TypeOK, NEW a \in Accounts
  PROVE  AccountBytes(a) \in Nat /\ Bytes(backups[a]) \in Nat /\ settledBytes[a] \in Nat
<1>1. backups[a] \in Seq(Nat)
  BY SizesAreNumbers DEF TypeOK
<1>2. Bytes(backups[a]) \in Nat
  BY <1>1, BytesType
<1> QED
  BY <1>2, FileSize DEF AccountBytes, settledBytes

\* The other accounts' settled bytes are among what dirBytes finds.
LEMMA OthersAreCounted ==
  ASSUME TypeOK, NEW a \in Accounts
  PROVE  /\ SumFunctionOnSet(settledBytes, Accounts \ {a}) \in Nat
         /\ litter + SumFunctionOnSet(settledBytes, Accounts \ {a}) <= otherBytes(a)
         /\ otherBytes(a) \in Nat
<1> DEFINE S == Accounts \ {a}
           all == [b \in S |-> AccountBytes(b)]
<1>1. IsFiniteSet(S)
  BY StoreAssumption, FS_Subset
<1>2. \A b \in S : settledBytes[b] \in Nat /\ all[b] \in Nat /\ settledBytes[b] <= all[b]
  <2>1. ASSUME NEW b \in S
        PROVE  settledBytes[b] \in Nat /\ all[b] \in Nat /\ settledBytes[b] <= all[b]
    <3>1. AccountBytes(b) \in Nat
      BY AccountBytesType
    <3> QED
      BY <3>1 DEF settledBytes
  <2> QED
    BY <2>1
<1>3. otherBytes(a) = litter + SumFunctionOnSet(all, S)
  BY DEF otherBytes, SumFunction
<1> HIDE DEF S, all
<1>4. /\ SumFunctionOnSet(settledBytes, S) \in Nat /\ SumFunctionOnSet(all, S) \in Nat
      /\ SumFunctionOnSet(settledBytes, S) <= SumFunctionOnSet(all, S)
  BY <1>1, <1>2, SumElement, SumMonotone
<1>5. litter \in Nat
  BY SizesAssumption DEF TypeOK
<1> QED
  BY <1>3, <1>4, <1>5 DEF S

\* What the projection of a write's backups is, without a file and with one.
LEMMA ProjectedBytes ==
  ASSUME TypeOK, NEW a \in Accounts
  PROVE  /\ projectedBackupBytes(a) \in Nat
         /\ file[a] = 0 /\ WithinLimits(backups[a])
              => projectedBackupBytes(a) = Bytes(backups[a])
<1>1. backups[a] \in Seq(Sizes) /\ (file[a] > 0 => <<file[a]>> \o backups[a] \in Seq(Sizes))
  <2>1. backups[a] \in Seq(Sizes)
    BY DEF TypeOK
  <2>2. file[a] > 0 => file[a] \in Sizes
    BY FileSize
  <2> QED
    BY <2>1, <2>2
<1>2. \A bs \in Seq(Sizes) : Bytes(retainedBackupEntries(bs)) \in Nat
  BY RetainedWithinLimits, SizesAreNumbers, BytesType
<1>3. projectedBackupBytes(a) \in Nat
  BY <1>1, <1>2 DEF projectedBackupBytes
<1>4. ASSUME file[a] = 0, WithinLimits(backups[a])
      PROVE  projectedBackupBytes(a) = Bytes(backups[a])
  <2>1. projectedBackupBytes(a) = Bytes(retainedBackupEntries(backups[a]))
    BY <1>4 DEF projectedBackupBytes
  <2> QED
    BY <1>1, <1>4, <2>1, RetainedAll DEF WithinLimits
<1> QED
  BY <1>3, <1>4

\* The limits are numbers.
LEMMA LimitsAreNumbers ==
  /\ MaxAccount \in Nat /\ MaxGlobal \in Nat /\ MaxLitter \in Nat /\ LargestSize \in Nat
  /\ \A size \in Sizes : size \in Nat
  /\ TypeOK => litter \in Nat
<1>1. MaxAccount \in Nat /\ MaxGlobal \in Nat /\ MaxLitter \in Nat /\ Sizes \subseteq Nat
  BY SizesAssumption
<1>2. TypeOK => litter \in Nat
  BY <1>1 DEF TypeOK
<1> QED
  BY <1>1, <1>2, LargestSizeIsLargest

\* The settled bytes after a step.
LEMMA SettledBytesNext ==
  settledBytes' = [a \in Accounts |-> IF a \in torn' THEN 0 ELSE file'[a] + Bytes(backups'[a])]
BY DEF settledBytes, AccountBytes

\* A step on one account keeps the sum within the limit, if what it counts for
\* afterwards and what dirBytes finds outside it are.
LEMMA OneAccountQuota ==
  ASSUME TypeOK, TypeOK', NEW a \in Accounts, NEW spare \in Nat,
         \A b \in Accounts \ {a} : settledBytes'[b] = settledBytes[b],
         litter' = litter + spare,
         otherBytes(a) + spare + settledBytes'[a] <= MaxGlobal + LargestSize
  PROVE  litter' + SumFunctionOnSet(settledBytes', Accounts) <= MaxGlobal + LargestSize
<1> DEFINE s == settledBytes
           t == settledBytes'
<1>1. \A b \in Accounts : s[b] \in Nat /\ t[b] \in Nat
  <2>1. \A b \in Accounts : settledBytes[b] \in Nat
    BY AccountBytesType
  <2>2. ASSUME NEW b \in Accounts
        PROVE  settledBytes'[b] \in Nat
    <3>1. file'[b] \in Nat /\ backups'[b] \in Seq(Nat)
      <4>1. file'[b] \in Sizes \cup {0} /\ backups'[b] \in Seq(Sizes)
        BY DEF TypeOK
      <4>2. file'[b] \in Nat
        BY <4>1, LimitsAreNumbers
      <4>3. backups'[b] \in Seq(Nat)
        BY <4>1, SizesAreNumbers
      <4> QED
        BY <4>2, <4>3
    <3>2. Bytes(backups'[b]) \in Nat
      BY <3>1, BytesType
    <3> QED
      BY <3>1, <3>2, SettledBytesNext
  <2> QED
    BY <2>1, <2>2
<1>2. \A b \in Accounts \ {a} : t[b] = s[b]
  OBVIOUS
<1>3. /\ SumFunctionOnSet(s, Accounts \ {a}) \in Nat
      /\ litter + SumFunctionOnSet(s, Accounts \ {a}) <= otherBytes(a)
      /\ otherBytes(a) \in Nat
  BY OthersAreCounted
<1>4. otherBytes(a) + spare + t[a] <= MaxGlobal + LargestSize
  OBVIOUS
<1>5. litter \in Nat /\ MaxGlobal \in Nat /\ LargestSize \in Nat
  BY LimitsAreNumbers
<1> HIDE DEF s, t
<1>6. SumFunctionOnSet(t, Accounts) = t[a] + SumFunctionOnSet(s, Accounts \ {a})
  <2>1. IsFiniteSet(Accounts)
    BY StoreAssumption
  <2> QED
    BY <1>1, <1>2, <2>1, SumChange, SMTT(30)
<1>7. litter + spare + SumFunctionOnSet(t, Accounts) <= MaxGlobal + LargestSize
  BY <1>1, <1>3, <1>4, <1>5, <1>6
<1> QED
  BY <1>7 DEF t

\* A completed write keeps the quotas: the projection it was accepted with is at most
\* one size short of what its pruning leaves.
LEMMA WriteQuota ==
  ASSUME TypeOK, TypeOK', RetentionUnlessTorn, QuotasUnlessTorn,
         NEW a \in Accounts, NEW size \in Sizes, writeSyncRecord(a, size)
  PROVE  QuotasUnlessTorn'
<1> DEFINE proj == projectedBackupBytes(a)
           new == Bytes(backups'[a])
<1>1. /\ size + proj <= MaxAccount /\ otherBytes(a) + (size + proj) <= MaxGlobal
      /\ file' = [file EXCEPT ![a] = size] /\ torn' = torn \ {a} /\ litter' = litter
      /\ backupSyncFile(a)
  BY DEF writeSyncRecord, enforceSyncStorageQuota
<1>2. proj \in Nat /\ size \in Nat /\ otherBytes(a) \in Nat /\ litter \in Nat
      /\ MaxAccount \in Nat /\ MaxGlobal \in Nat /\ LargestSize \in Nat
  BY ProjectedBytes, OthersAreCounted, LimitsAreNumbers
<1>3. new \in Nat
  <2>1. backups'[a] \in Seq(Nat)
    BY SizesAreNumbers DEF TypeOK
  <2> QED
    BY <2>1, BytesType
<1>4. new <= proj + LargestSize
  <2>1. CASE file[a] = 0
    <3>1. new = Bytes(backups[a])
      BY <1>1, <2>1, BackedUp
    <3>2. proj = Bytes(backups[a])
      BY <2>1, ProjectedBytes DEF RetentionUnlessTorn
    <3> QED
      BY <1>2, <3>1, <3>2
  <2>2. CASE file[a] > 0
    <3>1. new = Bytes(retainedBackupEntries(copied(a)))
      BY <1>1, <2>2, BackedUp
    <3> QED
      BY <2>2, <3>1, CopiedAndPruned
  <2> QED
    BY <2>1, <2>2, FileSize
<1>5. \A b \in Accounts \ {a} :
        /\ file'[b] = file[b] /\ backups'[b] = backups[b] /\ (b \in torn' <=> b \in torn)
  BY <1>1, BackedUp DEF TypeOK
<1>6. file'[a] = size /\ a \notin torn'
  BY <1>1 DEF TypeOK
<1> HIDE DEF proj, new
<1>7. ASSUME NEW b \in Accounts \ torn'
      PROVE  AccountBytes(b)' <= MaxAccount + LargestSize
  <2>1. AccountBytes(b)' = file'[b] + Bytes(backups'[b])
    BY DEF AccountBytes
  <2>2. CASE b = a
    BY <1>1, <1>2, <1>3, <1>4, <1>6, <2>1, <2>2 DEF new
  <2>3. CASE b # a
    <3>1. AccountBytes(b)' = AccountBytes(b) /\ b \notin torn
      BY <1>5, <2>1, <2>3 DEF AccountBytes
    <3> QED
      BY <3>1 DEF QuotasUnlessTorn
  <2> QED
    BY <2>2, <2>3
<1>8. litter' + SumFunctionOnSet(settledBytes', Accounts) <= MaxGlobal + LargestSize
  <2>1. \A b \in Accounts \ {a} : settledBytes'[b] = settledBytes[b]
    BY <1>5, SettledBytesNext DEF settledBytes, AccountBytes
  <2>2. settledBytes'[a] = size + new
    BY <1>6, SettledBytesNext DEF new
  <2>3. otherBytes(a) + 0 + settledBytes'[a] <= MaxGlobal + LargestSize
    BY <1>1, <1>2, <1>3, <1>4, <2>2
  <2>4. litter' = litter + 0 /\ 0 \in Nat
    BY <1>1, <1>2
  <2> QED
    BY <2>1, <2>3, <2>4, OneAccountQuota
<1> QED
  BY <1>7, <1>8 DEF QuotasUnlessTorn

\* An interrupted write keeps them: its account is torn and counts for nothing.
LEMMA InterruptedQuota ==
  ASSUME TypeOK, TypeOK', QuotasUnlessTorn,
         NEW a \in Accounts, NEW size \in Sizes, writeSyncRecordInterrupted(a, size)
  PROVE  QuotasUnlessTorn'
<1> DEFINE proj == projectedBackupBytes(a)
<1>1. /\ otherBytes(a) + (size + proj) <= MaxGlobal
      /\ file' = file /\ torn' = torn \cup {a} /\ (litter' = litter \/ litter' = litter + size)
  BY DEF writeSyncRecordInterrupted, enforceSyncStorageQuota
<1>2. proj \in Nat /\ size \in Nat /\ otherBytes(a) \in Nat /\ litter \in Nat
      /\ MaxGlobal \in Nat /\ LargestSize \in Nat
  BY ProjectedBytes, OthersAreCounted, LimitsAreNumbers
<1> HIDE DEF proj
<1>3. \A b \in Accounts \ {a} : backups'[b] = backups[b]
  BY BackedUp DEF writeSyncRecordInterrupted, TypeOK
<1>4. ASSUME NEW b \in Accounts \ torn'
      PROVE  AccountBytes(b)' <= MaxAccount + LargestSize
  <2>1. b # a /\ b \notin torn
    BY <1>1
  <2>2. AccountBytes(b)' = AccountBytes(b)
    BY <1>1, <1>3, <2>1 DEF AccountBytes
  <2> QED
    BY <2>1, <2>2 DEF QuotasUnlessTorn
<1>5. litter' + SumFunctionOnSet(settledBytes', Accounts) <= MaxGlobal + LargestSize
  <2>1. \A b \in Accounts \ {a} : settledBytes'[b] = settledBytes[b]
    BY <1>1, <1>3, SettledBytesNext DEF settledBytes, AccountBytes
  <2>2. settledBytes'[a] = 0
    BY <1>1, SettledBytesNext
  <2>3. PICK spare \in {0, size} : litter' = litter + spare
    BY <1>1, <1>2
  <2>4. otherBytes(a) + spare + settledBytes'[a] <= MaxGlobal + LargestSize /\ spare \in Nat
    BY <1>1, <1>2, <2>2, <2>3
  <2> QED
    BY <2>1, <2>3, <2>4, OneAccountQuota
<1> QED
  BY <1>4, <1>5 DEF QuotasUnlessTorn

\* A deletion keeps them: it only takes away.
LEMMA DeleteQuota ==
  ASSUME TypeOK, TypeOK', QuotasUnlessTorn, NEW a \in Accounts, deleteSyncData(a)
  PROVE  QuotasUnlessTorn'
<1> DEFINE s == settledBytes
           t == settledBytes'
<1>1. /\ file'[a] = 0 /\ backups'[a] = <<>> /\ torn' = torn \ {a} /\ litter' = litter
      /\ \A b \in Accounts \ {a} : file'[b] = file[b] /\ backups'[b] = backups[b]
  BY DEF deleteSyncData, TypeOK
<1>2. ASSUME NEW b \in Accounts \ torn'
      PROVE  AccountBytes(b)' <= MaxAccount + LargestSize
  <2>1. AccountBytes(b)' = file'[b] + Bytes(backups'[b])
    BY DEF AccountBytes
  <2>2. CASE b = a
    BY <1>1, <2>1, <2>2, BytesEmpty, LimitsAreNumbers
  <2>3. CASE b # a
    <3>1. AccountBytes(b)' = AccountBytes(b) /\ b \notin torn
      BY <1>1, <2>1, <2>3 DEF AccountBytes
    <3> QED
      BY <3>1 DEF QuotasUnlessTorn
  <2> QED
    BY <2>2, <2>3
<1>3. t[a] = 0 /\ \A b \in Accounts \ {a} : t[b] = s[b]
  BY <1>1, SettledBytesNext, BytesEmpty DEF settledBytes, AccountBytes
<1>4. \A b \in Accounts : s[b] \in Nat /\ t[b] \in Nat /\ t[b] <= s[b]
  <2>1. \A b \in Accounts : s[b] \in Nat
    BY AccountBytesType
  <2> HIDE DEF s, t
  <2> QED
    BY <1>3, <2>1
<1>5. litter + SumFunctionOnSet(s, Accounts) <= MaxGlobal + LargestSize
  BY DEF QuotasUnlessTorn
<1> HIDE DEF s, t
<1>6. /\ SumFunctionOnSet(t, Accounts) <= SumFunctionOnSet(s, Accounts)
      /\ SumFunctionOnSet(t, Accounts) \in Nat /\ SumFunctionOnSet(s, Accounts) \in Nat
  <2>1. IsFiniteSet(Accounts)
    BY StoreAssumption
  <2> QED
    BY <1>4, <2>1, SumMonotone, SumElement
<1>7. litter' + SumFunctionOnSet(t, Accounts) <= MaxGlobal + LargestSize
  BY <1>1, <1>5, <1>6, LimitsAreNumbers
<1> QED
  BY <1>2, <1>7 DEF QuotasUnlessTorn, t

\* A move keeps them: the data counts for another account.
LEMMA MoveQuota ==
  ASSUME TypeOK, TypeOK', QuotasUnlessTorn, NEW a \in Accounts, NEW b \in Accounts,
         moveSyncData(a, b)
  PROVE  QuotasUnlessTorn'
<1> DEFINE s == settledBytes
           t == settledBytes'
           u == [c \in Accounts |-> IF c = a THEN 0 ELSE s[c]]
<1>1. /\ a # b /\ file[b] = 0 /\ backups[b] = <<>>
      /\ file'[a] = 0 /\ file'[b] = file[a] /\ backups'[a] = <<>> /\ backups'[b] = backups[a]
      /\ \A d \in Accounts \ {a, b} : file'[d] = file[d] /\ backups'[d] = backups[d]
      /\ torn' = IF a \in torn THEN (torn \ {a}) \cup {b} ELSE torn
      /\ litter' = litter
  BY DEF moveSyncData, TypeOK
<1>2. ASSUME NEW c \in Accounts \ torn'
      PROVE  AccountBytes(c)' <= MaxAccount + LargestSize
  <2>1. AccountBytes(c)' = file'[c] + Bytes(backups'[c])
    BY DEF AccountBytes
  <2>2. CASE c = a
    BY <1>1, <2>1, <2>2, BytesEmpty, LimitsAreNumbers
  <2>3. CASE c = b
    <3>1. AccountBytes(c)' = AccountBytes(a) /\ a \notin torn
      BY <1>1, <2>1, <2>3 DEF AccountBytes
    <3> QED
      BY <3>1 DEF QuotasUnlessTorn
  <2>4. CASE c \notin {a, b}
    <3>1. AccountBytes(c)' = AccountBytes(c) /\ c \notin torn
      BY <1>1, <2>1, <2>4 DEF AccountBytes
    <3> QED
      BY <3>1 DEF QuotasUnlessTorn
  <2> QED
    BY <2>2, <2>3, <2>4
<1>3. /\ t[a] = 0 /\ s[b] = 0 /\ t[b] \in {0, s[a]}
      /\ \A c \in Accounts \ {a, b} : t[c] = s[c]
  <2>1. t[a] = 0 /\ s[b] = 0
    BY <1>1, SettledBytesNext, BytesEmpty DEF settledBytes, AccountBytes
  <2>2. t[b] \in {0, s[a]}
    BY <1>1, SettledBytesNext DEF settledBytes, AccountBytes
  <2>3. \A c \in Accounts \ {a, b} : t[c] = s[c]
    BY <1>1, SettledBytesNext DEF settledBytes, AccountBytes
  <2> QED
    BY <2>1, <2>2, <2>3
<1>4. \A c \in Accounts : s[c] \in Nat
  BY AccountBytesType
<1>5. litter + SumFunctionOnSet(s, Accounts) <= MaxGlobal + LargestSize
  BY DEF QuotasUnlessTorn
<1> HIDE DEF s, t
<1>6. \A c \in Accounts : t[c] \in Nat
  BY <1>3, <1>4
<1>7. /\ \A c \in Accounts : u[c] \in Nat
      /\ \A c \in Accounts \ {a} : u[c] = s[c]
      /\ \A c \in Accounts \ {b} : t[c] = u[c]
      /\ u[a] = 0 /\ u[b] = 0
  BY <1>1, <1>3, <1>4
<1> HIDE DEF u
<1>8. IsFiniteSet(Accounts)
  BY StoreAssumption
<1>9. /\ SumFunctionOnSet(s, Accounts \ {a}) \in Nat
      /\ SumFunctionOnSet(s, Accounts) = s[a] + SumFunctionOnSet(s, Accounts \ {a})
      /\ SumFunctionOnSet(u, Accounts) = u[a] + SumFunctionOnSet(s, Accounts \ {a})
  BY <1>4, <1>7, <1>8, SumChange
<1>10. /\ SumFunctionOnSet(u, Accounts \ {b}) \in Nat
       /\ SumFunctionOnSet(u, Accounts) = u[b] + SumFunctionOnSet(u, Accounts \ {b})
       /\ SumFunctionOnSet(t, Accounts) = t[b] + SumFunctionOnSet(u, Accounts \ {b})
  BY <1>6, <1>7, <1>8, SumChange
<1>11. s[a] \in Nat /\ t[b] \in Nat /\ t[b] <= s[a]
  BY <1>3, <1>4
<1>12. /\ SumFunctionOnSet(t, Accounts) <= SumFunctionOnSet(s, Accounts)
       /\ SumFunctionOnSet(t, Accounts) \in Nat /\ SumFunctionOnSet(s, Accounts) \in Nat
  BY <1>7, <1>9, <1>10, <1>11
<1>13. litter' + SumFunctionOnSet(t, Accounts) <= MaxGlobal + LargestSize
  BY <1>1, <1>5, <1>12, LimitsAreNumbers
<1> QED
  BY <1>2, <1>13 DEF QuotasUnlessTorn, t

\* Both quotas are exceeded by one version at most: although the quota check takes
\* the version that is overwritten for the oldest backup, and the prune takes it for
\* the newest.
THEOREM QuotasCorrect == Spec => []QuotasExceededByOneVersion
<1>1. Init => QuotasUnlessTorn
  <2> SUFFICES ASSUME Init
               PROVE  QuotasUnlessTorn
    OBVIOUS
  <2>1. \A a \in Accounts : AccountBytes(a) = 0 /\ settledBytes[a] = 0
    BY BytesEmpty DEF Init, AccountBytes, settledBytes
  <2>2. SumFunctionOnSet(settledBytes, Accounts) = 0
    BY <2>1, SumOfZeros, StoreAssumption
  <2> QED
    BY <2>1, <2>2, LimitsAreNumbers DEF Init, QuotasUnlessTorn
<1>2. TypeOK /\ TypeOK' /\ RetentionUnlessTorn /\ QuotasUnlessTorn /\ [Next]_vars
        => QuotasUnlessTorn'
  <2> SUFFICES ASSUME TypeOK, TypeOK', RetentionUnlessTorn, QuotasUnlessTorn, [Next]_vars
               PROVE  QuotasUnlessTorn'
    OBVIOUS
  <2>1. CASE UNCHANGED <<file, backups, litter, torn>>
    <3>1. settledBytes' = settledBytes
      BY <2>1, SettledBytesNext DEF settledBytes, AccountBytes
    <3>2. \A a \in Accounts : AccountBytes(a)' = AccountBytes(a)
      BY <2>1 DEF AccountBytes
    <3> QED
      BY <2>1, <3>1, <3>2 DEF QuotasUnlessTorn
  <2> QED
    BY <2>1, StoreSteps, WriteQuota, InterruptedQuota, DeleteQuota, MoveQuota
<1>3. QuotasUnlessTorn /\ TypeOK => QuotasExceededByOneVersion
  <2> SUFFICES ASSUME QuotasUnlessTorn, TypeOK, torn = {}
               PROVE  litter + SumFunction([a \in Accounts |-> AccountBytes(a)])
                        <= MaxGlobal + LargestSize
    BY DEF QuotasExceededByOneVersion, QuotasUnlessTorn
  <2>1. settledBytes = [a \in Accounts |-> AccountBytes(a)]
    BY DEF settledBytes
  <2> QED
    BY <2>1 DEF SumFunction, QuotasUnlessTorn
<1>4. Init => RetentionUnlessTorn
  BY NoBackupsWithinLimits DEF Init, RetentionUnlessTorn
<1> QED
  BY <1>1, <1>2, <1>3, <1>4, RetentionStep, TypeCorrect, PTL DEF Spec
=============================================================================
