----------------------------- MODULE DataLemmas -----------------------------
(***************************************************************************)
(* What the proofs about the pure algorithms need of numbers and finite    *)
(* sets: induction, recursion, and the ranks in a strict total order.      *)
(*                                                                         *)
(* Induction is stated about sets: to prove P(n) for every n, take         *)
(* {n \in Nat : P(n)} for S.  It rests on the library's theorem that the   *)
(* finite subsets of a set are well-founded.                               *)
(***************************************************************************)
EXTENDS Integers, FiniteSets, Functions, FiniteSetTheorems, WellFoundedInduction, TLAPS

-----------------------------------------------------------------------------
(* Induction.                                                              *)

\* A nonempty set of natural numbers has a least element: of the intervals
\* 1..n that it gives, one contains no other.
LEMMA LeastNumber ==
    ASSUME NEW T, T \subseteq Nat, T # {}
    PROVE  \E x \in T : \A y \in T : x <= y
  <1> DEFINE F == {1..n : n \in T}
             R == StrictSubsetOrdering(Nat)
  <1>1. F \subseteq FiniteSubsetsOf(Nat)
    <2> SUFFICES ASSUME NEW n \in T PROVE (1..n) \in SUBSET Nat /\ IsFiniteSet(1..n)
      BY DEF FiniteSubsetsOf
    <2>1. n \in Int /\ 1 \in Int
      OBVIOUS
    <2> QED BY <2>1, FS_Interval
  <1>2. F # {}
    OBVIOUS
  <1>3. IsWellFoundedOn(R, FiniteSubsetsOf(Nat))
    BY FS_StrictSubsetOrderingWellFounded
  <1> HIDE DEF F, R
  <1>4. \E X \in F : \A Y \in F : ~ (<<Y, X>> \in R)
    BY <1>1, <1>2, <1>3, WFMin
  <1>5. PICK x \in T : \A y \in T : ~ (<<1..y, 1..x>> \in R)
    BY <1>4 DEF F
  <1>6. ASSUME NEW y \in T, y < x PROVE FALSE
    <2>1. (1..y) \subseteq (1..x) /\ x \in 1..x /\ x \notin 1..y
      BY <1>6
    <2>2. (1..x) \in SUBSET Nat /\ (1..y) \in SUBSET Nat
      OBVIOUS
    <2> QED BY <1>5, <1>6, <2>1, <2>2 DEF R, StrictSubsetOrdering
  <1> QED BY <1>6

\* A set that has zero, and with a natural number the next one, has them all:
\* the least one it has not would have a predecessor in it.
LEMMA InductionOnNat ==
    ASSUME NEW S, 0 \in S, \A n \in Nat : n \in S => n + 1 \in S
    PROVE  Nat \subseteq S
  <1> SUFFICES ASSUME Nat \ S # {} PROVE FALSE
    OBVIOUS
  <1>1. PICK x \in Nat \ S : \A y \in Nat \ S : x <= y
    BY LeastNumber
  <1>2. x - 1 \in Nat /\ x - 1 < x
    BY <1>1
  <1>3. x - 1 \in S
    BY <1>1, <1>2
  <1> QED BY <1>1, <1>2, <1>3

-----------------------------------------------------------------------------
(* Recursion: a function that is defined by its value for 0 and by a step  *)
(* from each number to the next exists.                                    *)

\* f is what one gets from a by following the steps, as far as n.
IsIteration(f, a, step, n) ==
    /\ DOMAIN f = 0..n
    /\ f[0] = a
    /\ \A i \in 1..n : f[i] = step[i][f[i - 1]]

\* Two iterations agree as far as both go.
LEMMA IterationUnique ==
    ASSUME NEW a, NEW step, NEW m \in Nat, NEW n \in Nat, NEW f, NEW g,
           IsIteration(f, a, step, m), IsIteration(g, a, step, n)
    PROVE  \A i \in Nat : i <= m /\ i <= n => f[i] = g[i]
  <1> DEFINE S == {i \in Nat : i <= m /\ i <= n => f[i] = g[i]}
  <1>1. 0 \in S
    BY DEF IsIteration
  <1>2. \A i \in Nat : i \in S => i + 1 \in S
    <2> SUFFICES ASSUME NEW i \in Nat, i \in S, i + 1 <= m, i + 1 <= n
                 PROVE  f[i + 1] = g[i + 1]
      OBVIOUS
    <2>1. i + 1 \in 1..m /\ i + 1 \in 1..n /\ (i + 1) - 1 = i
      OBVIOUS
    <2>2. f[i] = g[i]
      OBVIOUS
    <2>3. f[i + 1] = step[i + 1][f[i]] /\ g[i + 1] = step[i + 1][g[i]]
      BY <2>1 DEF IsIteration
    <2> QED BY <2>2, <2>3
  <1> HIDE DEF S
  <1>3. Nat \subseteq S
    BY <1>1, <1>2, InductionOnNat
  <1> QED BY <1>3 DEF S

\* There is one of every length.
LEMMA IterationExists ==
    ASSUME NEW V, NEW a \in V, NEW step \in [Nat -> [V -> V]]
    PROVE  \A n \in Nat : \E f \in [0..n -> V] : IsIteration(f, a, step, n)
  <1> DEFINE S == {n \in Nat : \E f \in [0..n -> V] : IsIteration(f, a, step, n)}
  <1>1. 0 \in S
    <2> DEFINE f == [i \in 0..0 |-> a]
    <2>1. f \in [0..0 -> V] /\ IsIteration(f, a, step, 0)
      BY DEF IsIteration
    <2> QED BY <2>1
  <1>2. \A n \in Nat : n \in S => n + 1 \in S
    <2> SUFFICES ASSUME NEW n \in Nat, n \in S PROVE n + 1 \in S
      BY Zenon
    <2> PICK f \in [0..n -> V] : IsIteration(f, a, step, n)
      OBVIOUS
    <2> DEFINE g == [i \in 0..(n + 1) |-> IF i = n + 1 THEN step[n + 1][f[n]] ELSE f[i]]
    <2>1. g \in [0..(n + 1) -> V]
      <3>1. f[n] \in V /\ step[n + 1][f[n]] \in V
        OBVIOUS
      <3> QED BY <3>1
    <2>2. g[0] = a
      BY DEF IsIteration
    <2>3. ASSUME NEW i \in 1..(n + 1) PROVE g[i] = step[i][g[i - 1]]
      <3>1. g[i - 1] = f[i - 1]
        OBVIOUS
      <3>2. CASE i = n + 1
        BY <3>1, <3>2
      <3>3. CASE i # n + 1
        <4>1. i \in 1..n /\ g[i] = f[i]
          BY <3>3
        <4> QED BY <3>1, <4>1 DEF IsIteration
      <3> QED BY <3>2, <3>3
    <2>4. IsIteration(g, a, step, n + 1)
      BY <2>1, <2>2, <2>3 DEF IsIteration
    <2> HIDE DEF g
    <2> QED BY <2>1, <2>4
  <1> HIDE DEF S
  <1>3. Nat \subseteq S
    BY <1>1, <1>2, InductionOnNat
  <1> QED BY <1>3 DEF S

\* f has the value a for 0 and is defined by the steps from there on.
IsRecursion(f, a, step) ==
    \A n \in Nat : f[n] = IF n = 0 THEN a ELSE step[n][f[n - 1]]

\* And so one without an end.
LEMMA Recursion ==
    ASSUME NEW V, NEW a \in V, NEW step \in [Nat -> [V -> V]]
    PROVE  \E f \in [Nat -> V] : IsRecursion(f, a, step)
  <1> DEFINE upTo == [n \in Nat |-> CHOOSE f \in [0..n -> V] : IsIteration(f, a, step, n)]
             f    == [n \in Nat |-> upTo[n][n]]
  <1>1. \A n \in Nat : upTo[n] \in [0..n -> V] /\ IsIteration(upTo[n], a, step, n)
    BY IterationExists
  <1> HIDE DEF upTo
  <1>2. f \in [Nat -> V]
    BY <1>1
  <1>3. f[0] = a
    BY <1>1 DEF IsIteration
  <1>4. ASSUME NEW n \in Nat \ {0} PROVE f[n] = step[n][f[n - 1]]
    <2>1. n \in 1..n /\ n - 1 \in Nat /\ n - 1 <= n /\ n - 1 <= n - 1
      OBVIOUS
    <2>2. upTo[n][n] = step[n][upTo[n][n - 1]]
      BY <1>1, <2>1 DEF IsIteration
    <2>3. IsIteration(upTo[n - 1], a, step, n - 1) /\ IsIteration(upTo[n], a, step, n)
      BY <1>1, <2>1
    <2>4. upTo[n][n - 1] = upTo[n - 1][n - 1]
      <3>1. \A k, l \in Nat : \A g, h :
                IsIteration(g, a, step, k) /\ IsIteration(h, a, step, l) =>
                    \A i \in Nat : i <= k /\ i <= l => g[i] = h[i]
        BY IterationUnique
      <3> HIDE DEF f
      <3> QED BY <2>1, <2>3, <3>1
    <2> QED BY <2>1, <2>2, <2>4
  <1>5. IsRecursion(f, a, step)
    <2> HIDE DEF f
    <2> QED BY <1>3, <1>4 DEF IsRecursion
  <1> QED BY <1>2, <1>5

\* And so a function that is defined by its values for arguments of smaller
\* measure: F makes of a function in H what the definition makes of it, and
\* its values at the arguments below c determine the one at c.  H is given by
\* the values that are allowed at each argument.
IsMeasured(D, V, allowed, m, H, F) ==
    /\ m \in [D -> Nat]
    /\ H = {h \in [D -> V] : \A c \in D : h[c] \in allowed[c]}
    /\ H # {}
    /\ F \in [H -> H]
    /\ \A g, h \in H : \A c \in D :
          (\A d \in D : m[d] < m[c] => g[d] = h[d]) => F[g][c] = F[h][c]

LEMMA MeasuredRecursion ==
    ASSUME NEW D, NEW V, NEW allowed, NEW m, NEW H, NEW F, IsMeasured(D, V, allowed, m, H, F)
    PROVE  \E f \in H : f = F[f]
  <1> USE DEF IsMeasured
  <1> DEFINE step == [n \in Nat |-> F]
  <1>1. PICK a \in H : TRUE
    OBVIOUS
  <1>2. step \in [Nat -> [H -> H]]
    OBVIOUS
  <1>3. PICK it \in [Nat -> H] : IsRecursion(it, a, step)
    BY <1>2, Recursion
  <1>4. \A n \in Nat : it[n] \in H /\ it[n + 1] = F[it[n]]
    <2> SUFFICES ASSUME NEW n \in Nat PROVE it[n] \in H /\ it[n + 1] = F[it[n]]
      OBVIOUS
    <2>1. n + 1 \in Nat \ {0} /\ (n + 1) - 1 = n
      OBVIOUS
    <2>2. step[n + 1] = F
      BY <2>1
    <2> HIDE DEF step
    <2>3. it[n + 1] = step[n + 1][it[(n + 1) - 1]]
      BY <1>3, <2>1, Zenon DEF IsRecursion
    <2>4. it[n] \in H
      BY <1>3
    <2> QED BY <2>1, <2>2, <2>3, <2>4
  <1> HIDE DEF step
  <1> DEFINE S == {n \in Nat : \A c \in D, k \in Nat : m[c] < n => it[n + k][c] = it[n][c]}
  <1>5. 0 \in S
    OBVIOUS
  <1>6. ASSUME NEW n \in Nat, n \in S PROVE n + 1 \in S
    <2> SUFFICES ASSUME NEW c \in D, NEW k \in Nat, m[c] < n + 1
                 PROVE  it[(n + 1) + k][c] = it[n + 1][c]
      OBVIOUS
    <2>1. \A d \in D : m[d] < m[c] => it[n + k][d] = it[n][d]
      <3>1. \A d \in D : m[d] < m[c] => m[d] < n
        OBVIOUS
      <3> QED BY <1>6, <3>1
    <2>2. n + k \in Nat /\ (n + 1) + k = (n + k) + 1
      OBVIOUS
    <2> HIDE DEF S
    <2>3. F[it[n + k]][c] = F[it[n]][c]
      BY <1>4, <2>1, <2>2
    <2> QED BY <1>4, <2>2, <2>3
  <1> HIDE DEF S
  <1>7. Nat \subseteq S
    BY <1>5, <1>6, InductionOnNat
  <1> DEFINE f == [c \in D |-> it[m[c] + 1][c]]
  <1>8. f \in H
    <2>1. \A c \in D : m[c] + 1 \in Nat
      OBVIOUS
    <2>2. \A c \in D : it[m[c] + 1][c] \in V /\ it[m[c] + 1][c] \in allowed[c]
      BY <1>4, <2>1
    <2> QED BY <2>2
  <1>9. ASSUME NEW c \in D PROVE F[f][c] = f[c]
    <2>1. ASSUME NEW d \in D, m[d] < m[c] PROVE f[d] = it[m[c]][d]
      <3> DEFINE k == m[c] - (m[d] + 1)
      <3>1. k \in Nat /\ (m[d] + 1) + k = m[c] /\ m[d] + 1 \in Nat /\ m[d] < m[d] + 1
        BY <2>1
      <3> HIDE DEF k
      <3>2. it[(m[d] + 1) + k][d] = it[m[d] + 1][d]
        BY <1>7, <3>1 DEF S
      <3> QED BY <3>1, <3>2
    <2>2. m[c] \in Nat
      OBVIOUS
    <2> HIDE DEF f
    <2>3. F[f][c] = F[it[m[c]]][c]
      BY <1>4, <1>8, <2>1, <2>2
    <2>4. F[it[m[c]]] = it[m[c] + 1]
      BY <1>4, <2>2
    <2> QED BY <2>3, <2>4 DEF f
  <1>10. F[f] \in H
    BY <1>8
  <1>11. F[f] = f
    <2> HIDE DEF f
    <2>1. f = [c \in D |-> f[c]] /\ F[f] = [c \in D |-> F[f][c]]
      BY <1>8, <1>10
    <2> QED BY <1>9, <2>1, Zenon
  <1> HIDE DEF f
  <1> QED BY <1>8, <1>11

-----------------------------------------------------------------------------
(* Ranks: how many elements of S come before x in R.                       *)

Earlier(R, S, x) == {y \in S : <<y, x>> \in R}

Rank(R, S, x) == Cardinality(Earlier(R, S, x))

IsStrictOrder(R, S) ==
    /\ \A x \in S : <<x, x>> \notin R
    /\ \A x, y, z \in S : <<x, y>> \in R /\ <<y, z>> \in R => <<x, z>> \in R
    /\ \A x, y \in S : x = y \/ <<x, y>> \in R \/ <<y, x>> \in R

\* Ranks are numbers below the size of the set, and grow along the order.
LEMMA RankGrows ==
    ASSUME NEW S, IsFiniteSet(S), NEW R, IsStrictOrder(R, S)
    PROVE  /\ \A x \in S : Rank(R, S, x) \in 0..(Cardinality(S) - 1)
           /\ \A x, y \in S : <<x, y>> \in R => Rank(R, S, x) < Rank(R, S, y)
  <1>1. \A x \in S : /\ IsFiniteSet(Earlier(R, S, x))
                     /\ Earlier(R, S, x) \subseteq S
                     /\ x \notin Earlier(R, S, x)
    BY FS_Subset DEF Earlier, IsStrictOrder
  <1>2. \A x \in S : Cardinality(Earlier(R, S, x)) \in Nat
    BY <1>1, FS_CardinalityType
  <1>3. Cardinality(S) \in Nat
    BY FS_CardinalityType
  <1>4. ASSUME NEW x \in S PROVE Rank(R, S, x) < Cardinality(S)
    <2>1. Earlier(R, S, x) \in SUBSET S /\ Earlier(R, S, x) # S
      BY <1>1
    <2>2. /\ Cardinality(Earlier(R, S, x)) <= Cardinality(S)
          /\ Cardinality(S) # Cardinality(Earlier(R, S, x))
      BY <2>1, FS_Subset
    <2> QED BY <1>2, <1>3, <2>2 DEF Rank
  <1>5. ASSUME NEW x \in S, NEW y \in S, <<x, y>> \in R
        PROVE  Rank(R, S, x) < Rank(R, S, y)
    <2>1. Earlier(R, S, x) \subseteq Earlier(R, S, y)
      BY <1>5 DEF Earlier, IsStrictOrder
    <2>2. x \in Earlier(R, S, y)
      BY <1>5 DEF Earlier
    <2>3. Earlier(R, S, x) \in SUBSET Earlier(R, S, y) /\ Earlier(R, S, x) # Earlier(R, S, y)
      BY <1>1, <2>1, <2>2
    <2>4. /\ Cardinality(Earlier(R, S, x)) <= Cardinality(Earlier(R, S, y))
          /\ Cardinality(Earlier(R, S, y)) # Cardinality(Earlier(R, S, x))
      BY <1>1, <2>3, FS_Subset
    <2> QED BY <1>2, <2>4 DEF Rank
  <1> QED BY <1>2, <1>3, <1>4, <1>5 DEF Rank

\* Every number below the size of the set is the rank of an element, and of
\* one only.
LEMMA RankIsBijection ==
    ASSUME NEW S, IsFiniteSet(S), NEW R, IsStrictOrder(R, S)
    PROVE  /\ \A k \in 0..(Cardinality(S) - 1) : \E x \in S : Rank(R, S, x) = k
           /\ \A x, y \in S : Rank(R, S, x) = Rank(R, S, y) => x = y
  <1> DEFINE T == 0..(Cardinality(S) - 1)
             f == [x \in S |-> Rank(R, S, x)]
  <1>1. Cardinality(S) \in Nat
    BY FS_CardinalityType
  <1>2. IsFiniteSet(T) /\ Cardinality(T) = Cardinality(S)
    <2>1. 0 \in Int /\ Cardinality(S) - 1 \in Int
      BY <1>1
    <2> QED BY <1>1, <2>1, FS_Interval
  <1>3. \A x, y \in S : Rank(R, S, x) = Rank(R, S, y) => x = y
    <2> SUFFICES ASSUME NEW x \in S, NEW y \in S, Rank(R, S, x) = Rank(R, S, y), x # y
                 PROVE  FALSE
      OBVIOUS
    <2>1. <<x, y>> \in R \/ <<y, x>> \in R
      BY DEF IsStrictOrder
    <2>2. Rank(R, S, x) \in Int /\ Rank(R, S, y) \in Int
      BY RankGrows
    <2>3. Rank(R, S, x) < Rank(R, S, y) \/ Rank(R, S, y) < Rank(R, S, x)
      BY <2>1, RankGrows
    <2> QED BY <2>2, <2>3
  <1>4. f \in Injection(S, T)
    <2>1. f \in [S -> T]
      BY RankGrows
    <2>2. \A x, y \in S : f[x] = f[y] => x = y
      BY <1>3
    <2> HIDE DEF f, T
    <2> QED BY <2>1, <2>2 DEF Injection, IsInjective
  <1>5. f \in Surjection(S, T)
    <2> HIDE DEF f, T
    <2> QED BY <1>2, <1>4, FS_Injection
  <1>6. \A k \in T : \E x \in S : f[x] = k
    <2> HIDE DEF f, T
    <2> QED BY <1>5 DEF Surjection
  <1> QED BY <1>3, <1>6
=============================================================================
