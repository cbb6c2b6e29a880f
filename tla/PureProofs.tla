----------------------------- MODULE PureProofs -----------------------------
(***************************************************************************)
(* Proofs about the pure algorithms, for inputs of any size.               *)
(*                                                                         *)
(* The backoff is an iteration, which does not decrease and is 2^n until   *)
(* it meets the ceiling.  A finite table of rules has one sorted sequence, *)
(* the one by rank, as the ids make the order of the rules a strict total  *)
(* one.  Each bit of the checksum loop takes the remainder of a polynomial *)
(* to that of the polynomial times x, so that the register stays the       *)
(* remainder of what has been read.  Each observation adds one to the      *)
(* buckets from its own on.  And a walk has shown as many events of one ts *)
(* as it has passed places of theirs: those recorded meanwhile only move   *)
(* others back.                                                            *)
(***************************************************************************)
EXTENDS Retries, RuleOrder, Checksum, Histogram, EventPages, DataLemmas

-----------------------------------------------------------------------------
(* Worker.backoff.                                                         *)

\* The subsets of 1..n double with n.
LEMMA PowerStep ==
    ASSUME NEW n \in Nat
    PROVE  2 ^ (n + 1) = 2 * 2 ^ n /\ 2 ^ n \in Nat
  <1> DEFINE A == SUBSET (1..n)
             B == {T \union {n + 1} : T \in A}
             f == [T \in A |-> T \union {n + 1}]
  <1>1. /\ IsFiniteSet(1..n) /\ Cardinality(1..n) = n
        /\ IsFiniteSet(1..(n + 1)) /\ Cardinality(1..(n + 1)) = n + 1
    <2>1. 1 \in Int /\ n \in Int /\ n + 1 \in Int /\ ~ (1 > n + 1) /\ (n + 1) - 1 + 1 = n + 1
      OBVIOUS
    <2>2. (IF 1 > n THEN 0 ELSE n - 1 + 1) = n
      OBVIOUS
    <2> QED BY <2>1, <2>2, FS_Interval
  <1>2. IsFiniteSet(A) /\ Cardinality(A) = 2 ^ n
    <2>1. IsFiniteSet(SUBSET (1..n)) /\ Cardinality(SUBSET (1..n)) = 2 ^ Cardinality(1..n)
      BY <1>1, FS_SUBSET
    <2> QED BY <1>1, <2>1, Zenon
  <1>3. Cardinality(SUBSET (1..(n + 1))) = 2 ^ (n + 1)
    <2>1. Cardinality(SUBSET (1..(n + 1))) = 2 ^ Cardinality(1..(n + 1))
      BY <1>1, FS_SUBSET
    <2> QED BY <1>1, <2>1, Zenon
  <1>4. SUBSET (1..(n + 1)) = A \union B
    <2>1. ASSUME NEW T \in SUBSET (1..(n + 1)), n + 1 \in T
          PROVE  T \in B
      <3>1. T \ {n + 1} \in A /\ T = (T \ {n + 1}) \union {n + 1}
        BY <2>1
      <3> QED BY <3>1
    <2>2. ASSUME NEW T \in SUBSET (1..(n + 1)), n + 1 \notin T
          PROVE  T \in A
      BY <2>2
    <2>3. (1..n) \subseteq (1..(n + 1)) /\ n + 1 \in 1..(n + 1)
      OBVIOUS
    <2>4. A \subseteq SUBSET (1..(n + 1)) /\ B \subseteq SUBSET (1..(n + 1))
      BY <2>3
    <2> HIDE DEF A, B
    <2> QED BY <2>1, <2>2, <2>4
  <1>5. A \intersect B = {}
    OBVIOUS
  <1>6. f \in Bijection(A, B)
    <2>1. f \in [A -> B] /\ \A t \in B : \E s \in A : f[s] = t
      OBVIOUS
    <2>2. \A s, t \in A : f[s] = f[t] => s = t
      OBVIOUS
    <2> HIDE DEF f, A, B
    <2> QED BY <2>1, <2>2 DEF Bijection, Injection, Surjection, IsInjective
  <1> HIDE DEF A, B, f
  <1>7. IsFiniteSet(B) /\ Cardinality(B) = Cardinality(A)
    <2>1. ExistsBijection(A, B)
      BY <1>6 DEF ExistsBijection
    <2> QED BY <1>2, <2>1, FS_Bijection
  <1>8. Cardinality(A \union B) = Cardinality(A) + Cardinality(B) - Cardinality({})
    BY <1>2, <1>5, <1>7, FS_Union
  <1>9. Cardinality(A) \in Nat /\ Cardinality({}) = 0
    BY <1>2, FS_CardinalityType, FS_EmptySet
  <1>10. Cardinality(A \union B) = 2 * Cardinality(A)
    BY <1>7, <1>8, <1>9
  <1> QED BY <1>2, <1>3, <1>4, <1>9, <1>10, Zenon

LEMMA PowerZero == 2 ^ 0 = 1
  <1>1. Cardinality(SUBSET {}) = 2 ^ Cardinality({})
    BY FS_EmptySet, FS_SUBSET
  <1>2. SUBSET {} = {{}}
    OBVIOUS
  <1>3. Cardinality({{}}) = 1
    BY FS_Singleton
  <1> QED BY <1>1, <1>2, <1>3, FS_EmptySet, Zenon

\* The loop of Worker.backoff: the delay of the first attempt, and that of
\* each attempt from the one before.
LEMMA DelayStep ==
    ASSUME NEW base \in Nat, NEW ceiling \in Nat
    PROVE  /\ Delay(base, ceiling, 1) = base
           /\ \A n \in Nat \ {0} :
                 /\ Delay(base, ceiling, n) \in Nat
                 /\ Delay(base, ceiling, n + 1) = Doubled(Delay(base, ceiling, n), ceiling)
  <1> DEFINE step == [i \in Nat |-> [x \in Nat |-> Doubled(x, ceiling)]]
             d[i \in Nat] == IF i = 0 THEN base ELSE Doubled(d[i - 1], ceiling)
  <1>1. \E f \in [Nat -> Nat] : IsRecursion(f, base, step)
    <2>1. step \in [Nat -> [Nat -> Nat]]
      BY DEF Doubled
    <2> HIDE DEF step, d
    <2> QED BY <2>1, Recursion
  <1>2. PICK f \in [Nat -> Nat] :
            \A n \in Nat : f[n] = IF n = 0 THEN base ELSE Doubled(f[n - 1], ceiling)
    <2>1. ASSUME NEW n \in Nat \ {0}, NEW x \in Nat PROVE step[n][x] = Doubled(x, ceiling)
      OBVIOUS
    <2> HIDE DEF step, d
    <2> QED BY <1>1, <2>1 DEF IsRecursion
  <1>3. d = [i \in Nat |-> IF i = 0 THEN base ELSE Doubled(d[i - 1], ceiling)]
    <2>1. f = [i \in Nat |-> IF i = 0 THEN base ELSE Doubled(f[i - 1], ceiling)]
      BY <1>2
    <2> QED BY <2>1
  <1>4. \A n : Delay(base, ceiling, n) = d[n - 1]
    BY DEF Delay
  <1> HIDE DEF d, step
  <1>5. d[0] = base /\ \A i \in Nat : d[i + 1] = Doubled(d[i], ceiling)
    BY <1>3
  <1>6. \A i \in Nat : d[i] \in Nat
    <2> DEFINE S == {i \in Nat : d[i] \in Nat}
    <2>1. 0 \in S /\ \A i \in Nat : i \in S => i + 1 \in S
      BY <1>5 DEF Doubled
    <2> HIDE DEF S
    <2>2. Nat \subseteq S
      BY <2>1, InductionOnNat
    <2> QED BY <2>2 DEF S
  <1>7. Delay(base, ceiling, 1) = base
    BY <1>4, <1>5
  <1>8. ASSUME NEW n \in Nat \ {0}
        PROVE  /\ Delay(base, ceiling, n) \in Nat
               /\ Delay(base, ceiling, n + 1) = Doubled(Delay(base, ceiling, n), ceiling)
    <2>1. n - 1 \in Nat /\ (n - 1) + 1 = (n + 1) - 1
      OBVIOUS
    <2> QED BY <1>4, <1>5, <1>6, <2>1
  <1> QED BY <1>7, <1>8

\* The delay of every attempt is that of the exact doubling, cut off.
RetriesInv == /\ delay \in [base : Duration, ceiling : Duration, attempt : Nat \ {0}]
              /\ IsCappedDoubling

LEMMA FailAgainInv == RetriesInv /\ FailAgain => RetriesInv'
  <1> SUFFICES ASSUME RetriesInv, FailAgain PROVE RetriesInv'
    OBVIOUS
  <1> DEFINE n == delay.attempt
             b == delay.base
             c == delay.ceiling
             power == 2 ^ (n - 1)
  <1>1. n \in Nat \ {0} /\ b \in Nat \ {0} /\ c \in Nat \ {0}
    BY RetriesAssumption DEF RetriesInv
  <1>2. delay' = [delay EXCEPT !.attempt = n + 1]
    BY DEF FailAgain
  <1>3. delay' \in [base : Duration, ceiling : Duration, attempt : Nat \ {0}]
    BY <1>1, <1>2 DEF RetriesInv
  <1>4. delay'.base = b /\ delay'.ceiling = c /\ delay'.attempt = n + 1
    BY <1>2 DEF RetriesInv
  <1>5. power \in Nat /\ 2 ^ ((n + 1) - 1) = 2 * power
    <2>1. n - 1 \in Nat /\ (n - 1) + 1 = (n + 1) - 1
      BY <1>1
    <2>2. 2 ^ ((n - 1) + 1) = 2 * 2 ^ (n - 1) /\ 2 ^ (n - 1) \in Nat
      BY <2>1, PowerStep
    <2> QED BY <2>1, <2>2, Zenon
  <1> HIDE DEF power
  <1>6. b <= c => Delay(b, c, n) = IF b * power <= c THEN b * power ELSE c
    BY DEF RetriesInv, IsCappedDoubling, power
  <1> HIDE DEF n, b, c
  <1>7. Delay(b, c, n + 1) = Doubled(Delay(b, c, n), c)
    BY <1>1, DelayStep
  <1>8. b * power \in Nat /\ b * (2 * power) = 2 * (b * power)
    BY <1>1, <1>5
  <1>9. b <= c => Delay(b, c, n + 1) = IF b * (2 * power) <= c THEN b * (2 * power) ELSE c
    BY <1>1, <1>6, <1>7, <1>8 DEF Doubled
  <1>10. IsCappedDoubling'
    BY <1>4, <1>5, <1>9, Zenon DEF IsCappedDoubling
  <1> QED BY <1>3, <1>10 DEF RetriesInv

\* Worker.backoff waits base * 2^(attempt - 1) after each attempt, but never
\* longer than the ceiling, for any settings with the base below the ceiling.
THEOREM BackoffIsCappedDoubling == RetriesSpec => []IsCappedDoubling
  <1>1. RetriesInit => RetriesInv
    <2> SUFFICES ASSUME RetriesInit PROVE RetriesInv
      OBVIOUS
    <2>1. delay \in [base : Duration, ceiling : Duration, attempt : {1}]
      BY DEF RetriesInit
    <2>2. delay.attempt = 1 /\ delay.base \in Nat /\ delay.ceiling \in Nat
      BY <2>1, RetriesAssumption
    <2>3. Delay(delay.base, delay.ceiling, delay.attempt) = delay.base
      BY <2>2, DelayStep
    <2>4. delay.base * 2 ^ (delay.attempt - 1) = delay.base
      <3>1. delay.attempt - 1 = 0
        BY <2>2
      <3>2. 2 ^ (delay.attempt - 1) = 1
        BY <3>1, PowerZero, Zenon
      <3> QED BY <2>2, <3>2
    <2>5. IsCappedDoubling
      BY <2>3, <2>4, Zenon DEF IsCappedDoubling
    <2> QED BY <2>1, <2>5 DEF RetriesInv
  <1>2. RetriesInv /\ [FailAgain]_delay => RetriesInv'
    <2>1. RetriesInv /\ UNCHANGED delay => RetriesInv'
      BY DEF RetriesInv, IsCappedDoubling
    <2> QED BY <2>1, FailAgainInv
  <1>3. RetriesInv => IsCappedDoubling
    BY DEF RetriesInv
  <1> QED BY <1>1, <1>2, <1>3, PTL DEF RetriesSpec

\* The waits of a delivery never get shorter, and stay between the base and
\* the ceiling (Worker.backoff).
THEOREM WaitsGrow ==
    ASSUME NEW base \in Nat, NEW ceiling \in Nat, base <= ceiling,
           NEW n \in Nat \ {0}
    PROVE  /\ base <= Delay(base, ceiling, n)
           /\ Delay(base, ceiling, n) <= Delay(base, ceiling, n + 1)
           /\ Delay(base, ceiling, n) <= ceiling
  <1> DEFINE S == {k \in Nat : /\ base <= Delay(base, ceiling, k + 1)
                               /\ Delay(base, ceiling, k + 1) <= ceiling}
  <1>1. 0 \in S
    BY DelayStep
  <1>2. ASSUME NEW k \in Nat, k \in S PROVE k + 1 \in S
    <2>1. /\ Delay(base, ceiling, k + 1) \in Nat
          /\ Delay(base, ceiling, (k + 1) + 1) = Doubled(Delay(base, ceiling, k + 1), ceiling)
      BY DelayStep
    <2> QED BY <1>2, <2>1 DEF Doubled
  <1> HIDE DEF S
  <1>3. Nat \subseteq S
    BY <1>1, <1>2, InductionOnNat
  <1>4. n - 1 \in S /\ (n - 1) + 1 = n
    BY <1>3
  <1>5. base <= Delay(base, ceiling, n) /\ Delay(base, ceiling, n) <= ceiling
    BY <1>4 DEF S
  <1>6. /\ Delay(base, ceiling, n) \in Nat
        /\ Delay(base, ceiling, n + 1) = Doubled(Delay(base, ceiling, n), ceiling)
    BY DelayStep
  <1> QED BY <1>5, <1>6 DEF Doubled

-----------------------------------------------------------------------------
(* The order of the matched rules.                                         *)

\* The order of the topics, as a relation.
InOrder == {ab \in Rule \X Rule : Before(ab[1], ab[2])}

\* A table of rules: finitely many, none with the id of another.
IsRuleTable(rls) == /\ rls \in SUBSET Rule /\ IsFiniteSet(rls)
                    /\ \A q, r \in rls : q.id = r.id => q = r

\* Rules of a table are in a strict order: where priorities tie, ids do not.
LEMMA InOrderIsStrict ==
    ASSUME NEW rls, IsRuleTable(rls)
    PROVE  /\ IsFiniteSet(Selected(rls)) /\ Selected(rls) \subseteq Rule
           /\ IsStrictOrder(InOrder, Selected(rls))
  <1>1. Selected(rls) \subseteq rls /\ rls \subseteq Rule
    BY DEF Selected, IsRuleTable
  <1>2. IsFiniteSet(Selected(rls))
    BY <1>1, FS_Subset DEF IsRuleTable
  <1>3. \A r \in Rule : r.priority \in Int /\ r.id \in Int
    BY RuleOrderAssumption DEF Rule
  <1>4. \A a, b \in Rule : <<a, b>> \in InOrder <=> Before(a, b)
    BY DEF InOrder
  <1>5. \A x \in Rule : ~ Before(x, x)
    BY <1>3 DEF Before
  <1>6. \A x, y, z \in Rule : Before(x, y) /\ Before(y, z) => Before(x, z)
    BY <1>3 DEF Before
  <1>7. \A x, y \in rls : x = y \/ Before(x, y) \/ Before(y, x)
    BY <1>1, <1>3 DEF Before, IsRuleTable
  <1>8. IsStrictOrder(InOrder, Selected(rls))
    BY <1>1, <1>4, <1>5, <1>6, <1>7 DEF IsStrictOrder
  <1> QED BY <1>1, <1>2, <1>8

\* In an answer of the sort every rule stands at its rank.
LEMMA SortedByRank ==
    ASSUME NEW rls, IsRuleTable(rls), NEW s \in Matches(rls),
           NEW i \in 1..Cardinality(Selected(rls))
    PROVE  s[i] \in Selected(rls) /\ Rank(InOrder, Selected(rls), s[i]) = i - 1
  <1> DEFINE S == Selected(rls)
             N == Cardinality(S)
             E == Earlier(InOrder, S, s[i])
  <1>1. IsFiniteSet(S) /\ S \subseteq Rule /\ IsStrictOrder(InOrder, S)
    BY InOrderIsStrict
  <1>2. N \in Nat
    BY <1>1, FS_CardinalityType
  <1>3. /\ s \in [1..N -> S]
        /\ \A j, k \in 1..N : j # k => s[j] # s[k]
        /\ \A j, k \in 1..N : j < k => ~ Before(s[k], s[j])
    BY DEF Matches, SetToSeqs
  <1> HIDE DEF S, N
  <1>4. s[i] \in S
    BY <1>3 DEF N, S
  <1>5. \A a, b \in S : <<a, b>> \in InOrder <=> Before(a, b)
    BY <1>1 DEF InOrder
  <1>6. \A j, k \in 1..N : j < k <=> <<s[j], s[k]>> \in InOrder
    <2> SUFFICES ASSUME NEW j \in 1..N, NEW k \in 1..N
                 PROVE  j < k <=> <<s[j], s[k]>> \in InOrder
      OBVIOUS
    <2>1. s[j] \in S /\ s[k] \in S
      BY <1>3
    <2>2. CASE j < k
      <3>1. s[j] # s[k] /\ <<s[k], s[j]>> \notin InOrder
        BY <1>2, <1>3, <1>5, <2>1, <2>2
      <3> QED BY <1>1, <2>1, <2>2, <3>1 DEF IsStrictOrder
    <2>3. CASE k < j
      <3>1. <<s[j], s[k]>> \notin InOrder
        BY <1>3, <1>5, <2>1, <2>3
      <3> QED BY <1>2, <2>3, <3>1
    <2>4. CASE j = k
      BY <1>1, <1>2, <2>1, <2>4 DEF IsStrictOrder
    <2> QED BY <1>2, <2>2, <2>3, <2>4
  <1>7. \A x \in S : \E j \in 1..N : s[j] = x
    <2>1. s \in Injection(1..N, S)
      BY <1>3 DEF Injection, IsInjective
    <2>2. IsFiniteSet(1..N) /\ Cardinality(1..N) = N
      <3>1. 1 \in Int /\ N \in Int /\ (IF 1 > N THEN 0 ELSE N - 1 + 1) = N
        BY <1>2
      <3> QED BY <3>1, FS_Interval
    <2>3. Cardinality(1..N) = Cardinality(S)
      BY <2>2 DEF N
    <2>4. s \in Surjection(1..N, S)
      BY <1>1, <2>1, <2>3, FS_Injection
    <2> QED BY <2>4 DEF Surjection
  <1> DEFINE f == [j \in 1..(i - 1) |-> s[j]]
  <1>8. i \in 1..N
    BY DEF N, S
  <1>9. f \in [1..(i - 1) -> E]
    <2>1. ASSUME NEW j \in 1..(i - 1) PROVE s[j] \in E
      <3>1. j \in 1..N /\ j < i
        BY <1>2, <1>8
      <3> QED BY <1>3, <1>6, <1>8, <3>1 DEF Earlier
    <2> QED BY <2>1
  <1>10. \A j, k \in 1..(i - 1) : f[j] = f[k] => j = k
    BY <1>2, <1>3, <1>8
  <1>11. ASSUME NEW x \in E PROVE \E j \in 1..(i - 1) : f[j] = x
    <2>1. x \in S /\ <<x, s[i]>> \in InOrder
      BY DEF Earlier
    <2>2. PICK j \in 1..N : s[j] = x
      BY <1>7, <2>1
    <2>3. j \in 1..(i - 1)
      BY <1>2, <1>6, <1>8, <2>1, <2>2
    <2> QED BY <2>2, <2>3
  <1> HIDE DEF f, E
  <1>12. ExistsBijection(1..(i - 1), E)
    BY <1>9, <1>10, <1>11 DEF ExistsBijection, Bijection, Injection, Surjection, IsInjective
  <1>13. Cardinality(E) = i - 1
    <2>1. i - 1 \in Nat
      BY <1>8
    <2> QED BY <1>12, <2>1, FS_CountingElements
  <1> QED BY <1>4, <1>13 DEF Rank, E, S

\* The rules by their ranks are an answer of the sort.
LEMMA RanksAreSorted ==
    ASSUME NEW rls, IsRuleTable(rls)
    PROVE  \E s : s \in Matches(rls)
  <1> DEFINE S == Selected(rls)
             N == Cardinality(S)
             s == [i \in 1..N |-> CHOOSE x \in S : Rank(InOrder, S, x) = i - 1]
  <1>1. IsFiniteSet(S) /\ S \subseteq Rule /\ IsStrictOrder(InOrder, S)
    BY InOrderIsStrict
  <1>2. N \in Nat
    BY <1>1, FS_CardinalityType
  <1>3. ASSUME NEW i \in 1..N
        PROVE  s[i] \in S /\ Rank(InOrder, S, s[i]) = i - 1
    <2>1. i - 1 \in 0..(N - 1)
      BY <1>2
    <2>2. \A k \in 0..(N - 1) : \E x \in S : Rank(InOrder, S, x) = k
      BY <1>1, RankIsBijection
    <2>3. \E x \in S : Rank(InOrder, S, x) = i - 1
      BY <2>1, <2>2
    <2> HIDE DEF S, N
    <2> QED BY <2>3
  <1>4. s \in [1..N -> S]
    <2> HIDE DEF S, N
    <2> QED BY <1>3
  <1>5. DOMAIN s = 1..N
    OBVIOUS
  <1> HIDE DEF s
  <1>6. ASSUME NEW j \in 1..N, NEW k \in 1..N, j # k PROVE s[j] # s[k]
    <2>1. Rank(InOrder, S, s[j]) = j - 1 /\ Rank(InOrder, S, s[k]) = k - 1
      BY <1>3
    <2> QED BY <1>2, <1>6, <2>1
  <1>7. ASSUME NEW j \in 1..N, NEW k \in 1..N, j < k PROVE ~ Before(s[k], s[j])
    <2>1. /\ Rank(InOrder, S, s[j]) = j - 1 /\ Rank(InOrder, S, s[k]) = k - 1
          /\ s[j] \in S /\ s[k] \in S
      BY <1>3
    <2>2. <<s[k], s[j]>> \in InOrder => Rank(InOrder, S, s[k]) < Rank(InOrder, S, s[j])
      BY <1>1, <2>1, RankGrows
    <2>3. <<s[k], s[j]>> \notin InOrder
      BY <1>2, <1>7, <2>1, <2>2
    <2> QED BY <1>1, <2>1, <2>3 DEF InOrder
  <1>8. s \in SetToSeqs(S)
    BY <1>4, <1>6 DEF SetToSeqs
  <1>9. s \in Matches(rls)
    BY <1>5, <1>7, <1>8 DEF Matches
  <1> QED BY <1>9

\* Any table of rules has one order for any event (Router.Match), so that a
\* sort that is not stable makes no difference.
THEOREM MatchIsDetermined ==
    ASSUME NEW rls, IsRuleTable(rls)
    PROVE  Cardinality(Matches(rls)) = 1
  <1> DEFINE S == Selected(rls)
             N == Cardinality(S)
  <1>1. IsFiniteSet(S) /\ IsStrictOrder(InOrder, S)
    BY InOrderIsStrict
  <1>2. PICK s : s \in Matches(rls)
    BY RanksAreSorted
  <1>3. ASSUME NEW t \in Matches(rls) PROVE t = s
    <2>1. s \in [1..N -> S] /\ t \in [1..N -> S]
      BY <1>2 DEF Matches, SetToSeqs
    <2>2. ASSUME NEW i \in 1..N PROVE t[i] = s[i]
      <3>1. /\ s[i] \in S /\ Rank(InOrder, S, s[i]) = i - 1
            /\ t[i] \in S /\ Rank(InOrder, S, t[i]) = i - 1
        BY <1>2, SortedByRank
      <3>2. \A x, y \in S : Rank(InOrder, S, x) = Rank(InOrder, S, y) => x = y
        BY <1>1, RankIsBijection
      <3> HIDE DEF S
      <3> QED BY <3>1, <3>2
    <2> HIDE DEF S, N
    <2>3. t = [i \in 1..N |-> t[i]] /\ s = [i \in 1..N |-> s[i]]
      BY <2>1
    <2> QED BY <2>2, <2>3, Zenon
  <1>4. Matches(rls) = {s}
    BY <1>2, <1>3
  <1> QED BY <1>4, FS_Singleton

\* The rules decide the order of the topics (Router.Match), for any rules with
\* ids of their own.
THEOREM OrderIsOne == RulesSpec => []OneOrder
  <1>1. RulesInit => IsRuleTable(rules)
    BY FS_EmptySet DEF RulesInit, IsRuleTable
  <1>2. IsRuleTable(rules) /\ [\E r \in Rule : AddRule(r)]_rules => IsRuleTable(rules)'
    <2>1. ASSUME IsRuleTable(rules), NEW r \in Rule, AddRule(r) PROVE IsRuleTable(rules)'
      <3>1. IsFiniteSet(rules \union {r})
        BY <2>1, FS_AddElement DEF IsRuleTable
      <3> QED BY <2>1, <3>1 DEF IsRuleTable, AddRule
    <2>2. IsRuleTable(rules) /\ UNCHANGED rules => IsRuleTable(rules)'
      BY DEF IsRuleTable
    <2> QED BY <2>1, <2>2
  <1>3. IsRuleTable(rules) => OneOrder
    BY MatchIsDetermined DEF OneOrder
  <1> QED BY <1>1, <1>2, <1>3, PTL DEF RulesSpec

-----------------------------------------------------------------------------
(* The checksum.                                                           *)

\* Sums of polynomials.
LEMMA PlusRules ==
    /\ \A p, q : Plus(p, q) = Plus(q, p)
    /\ \A p, q, r : Plus(Plus(p, q), r) = Plus(p, Plus(q, r))
    /\ \A p : Plus(p, {}) = p
  BY DEF Plus

LEMMA InPlus == \A p, q, e : e \in Plus(p, q) <=> ~ (e \in p <=> e \in q)
  BY DEF Plus

LEMMA PlusInt == \A p, q \in SUBSET Int : Plus(p, q) \in SUBSET Int
  BY DEF Plus

\* Shifts of polynomials.
LEMMA InShift ==
    ASSUME NEW p \in SUBSET Int, NEW k \in Int
    PROVE  Shift(p, k) \in SUBSET Int /\ \A e \in Int : e \in Shift(p, k) <=> e - k \in p
  <1>1. Shift(p, k) \in SUBSET Int
    BY DEF Shift
  <1>2. ASSUME NEW e \in Int, e \in Shift(p, k) PROVE e - k \in p
    <2>1. PICK f \in p : e = f + k
      BY <1>2 DEF Shift
    <2>2. e - k = f
      BY <2>1
    <2> QED BY <2>2
  <1>3. ASSUME NEW e \in Int, e - k \in p PROVE e \in Shift(p, k)
    <2>1. e = (e - k) + k
      OBVIOUS
    <2> QED BY <1>3, <2>1 DEF Shift
  <1> QED BY <1>1, <1>2, <1>3

LEMMA ShiftPlus ==
    ASSUME NEW p \in SUBSET Int, NEW q \in SUBSET Int, NEW k \in Int
    PROVE  Shift(Plus(p, q), k) = Plus(Shift(p, k), Shift(q, k))
  <1>1. Plus(p, q) \in SUBSET Int
    BY DEF Plus
  <1>2. /\ Shift(Plus(p, q), k) \in SUBSET Int
        /\ \A e \in Int : e \in Shift(Plus(p, q), k) <=> e - k \in Plus(p, q)
    BY <1>1, InShift
  <1>3. /\ Shift(p, k) \in SUBSET Int /\ Shift(q, k) \in SUBSET Int
        /\ \A e \in Int : /\ e \in Shift(p, k) <=> e - k \in p
                          /\ e \in Shift(q, k) <=> e - k \in q
    BY InShift
  <1>4. Plus(Shift(p, k), Shift(q, k)) \in SUBSET Int
    BY <1>3 DEF Plus
  <1>5. \A e \in Int : e \in Shift(Plus(p, q), k) <=> e \in Plus(Shift(p, k), Shift(q, k))
    BY <1>2, <1>3, InPlus
  <1> QED BY <1>2, <1>4, <1>5

LEMMA ShiftShift ==
    ASSUME NEW p \in SUBSET Int, NEW k \in Int, NEW l \in Int
    PROVE  Shift(Shift(p, k), l) = Shift(p, k + l)
  <1>1. /\ Shift(p, k) \in SUBSET Int
        /\ \A e \in Int : e \in Shift(p, k) <=> e - k \in p
    BY InShift
  <1>2. /\ Shift(Shift(p, k), l) \in SUBSET Int
        /\ \A e \in Int : e \in Shift(Shift(p, k), l) <=> e - l \in Shift(p, k)
    BY <1>1, InShift
  <1>3. /\ Shift(p, k + l) \in SUBSET Int
        /\ \A e \in Int : e \in Shift(p, k + l) <=> e - (k + l) \in p
    <2>1. k + l \in Int
      OBVIOUS
    <2> QED BY <2>1, InShift
  <1>4. ASSUME NEW e \in Int PROVE e \in Shift(Shift(p, k), l) <=> e \in Shift(p, k + l)
    <2>1. e - l \in Int /\ (e - l) - k = e - (k + l)
      OBVIOUS
    <2> QED BY <1>1, <1>2, <1>3, <2>1
  <1> QED BY <1>2, <1>3, <1>4

\* Multiples of the generator: the generator times a sum, and times a shift.
LEMMA TimesPlus ==
    ASSUME NEW p \in SUBSET Int, NEW q \in SUBSET Int
    PROVE  TimesGenerator(Plus(p, q)) = Plus(TimesGenerator(p), TimesGenerator(q))
  <1> DEFINE a(k) == Shift(p, k)
             b(k) == Shift(q, k)
  <1>1. \A k \in Int : Shift(Plus(p, q), k) = Plus(a(k), b(k))
    BY ShiftPlus
  <1> HIDE DEF a, b
  <1>2. TimesGenerator(Plus(p, q)) =
            Plus(Plus(Plus(a(16), b(16)), Plus(a(12), b(12))), Plus(Plus(a(5), b(5)), Plus(p, q)))
    BY <1>1 DEF TimesGenerator
  <1>3. /\ TimesGenerator(p) = Plus(Plus(a(16), a(12)), Plus(a(5), p))
        /\ TimesGenerator(q) = Plus(Plus(b(16), b(12)), Plus(b(5), q))
    BY DEF TimesGenerator, a, b
  <1>4. \A u, v, w, x, s, t, y, z :
            Plus(Plus(Plus(u, s), Plus(v, t)), Plus(Plus(w, y), Plus(x, z)))
                = Plus(Plus(Plus(u, v), Plus(w, x)), Plus(Plus(s, t), Plus(y, z)))
    BY DEF Plus
  <1> QED BY <1>2, <1>3, <1>4

LEMMA TimesShift ==
    ASSUME NEW p \in SUBSET Int, NEW k \in Int
    PROVE  TimesGenerator(Shift(p, k)) = Shift(TimesGenerator(p), k)
  <1>1. \A n \in Int : Shift(p, n) \in SUBSET Int
    BY InShift
  <1>2. ASSUME NEW n \in Int PROVE Shift(Shift(p, k), n) = Shift(Shift(p, n), k)
    <2>1. k + n = n + k
      OBVIOUS
    <2> QED BY <2>1, ShiftShift
  <1>3. Shift(TimesGenerator(p), k) =
            Plus(Plus(Shift(Shift(p, 16), k), Shift(Shift(p, 12), k)),
                 Plus(Shift(Shift(p, 5), k), Shift(p, k)))
    <2>1. Plus(Shift(p, 16), Shift(p, 12)) \in SUBSET Int /\ Plus(Shift(p, 5), p) \in SUBSET Int
      BY <1>1, PlusInt
    <2>2. Shift(TimesGenerator(p), k) =
              Plus(Shift(Plus(Shift(p, 16), Shift(p, 12)), k), Shift(Plus(Shift(p, 5), p), k))
      BY <2>1, ShiftPlus DEF TimesGenerator
    <2>3. /\ Shift(Plus(Shift(p, 16), Shift(p, 12)), k)
                 = Plus(Shift(Shift(p, 16), k), Shift(Shift(p, 12), k))
          /\ Shift(Plus(Shift(p, 5), p), k) = Plus(Shift(Shift(p, 5), k), Shift(p, k))
      BY <1>1, ShiftPlus
    <2> QED BY <2>2, <2>3
  <1> QED BY <1>2, <1>3 DEF TimesGenerator

\* A step of the loop: a shift, less the generator if a bit falls out.
LEMMA ShiftOutStep ==
    ASSUME NEW r \in SUBSET (0..15)
    PROVE  /\ ShiftOut(r) \subseteq 0..15
           /\ Shift(r, 1) = Plus(TimesGenerator(IF 15 \in r THEN {0} ELSE {}), ShiftOut(r))
  <1> DEFINE shifted == Shift(r, 1) \intersect 0..15
  <1>1. /\ r \in SUBSET Int
        /\ Shift(r, 1) \in SUBSET Int
        /\ \A e \in Int : e \in Shift(r, 1) <=> e - 1 \in r
    BY InShift
  <1>2. Shift(r, 1) \subseteq 0..16
    BY <1>1
  <1>3. CASE 15 \in r
    <2>1. ShiftOut(r) = Plus(shifted, {12, 5, 0})
      BY <1>3 DEF ShiftOut
    <2>2. TimesGenerator({0}) = {16, 12, 5, 0}
      <3>1. Shift({0}, 16) = {16} /\ Shift({0}, 12) = {12} /\ Shift({0}, 5) = {5}
        BY DEF Shift
      <3> QED BY <3>1 DEF TimesGenerator, Plus
    <2>3. 16 \in Shift(r, 1)
      BY <1>1, <1>3
    <2>4. Shift(r, 1) = shifted \union {16}
      BY <1>2, <2>3
    <2>5. shifted \subseteq 0..15
      OBVIOUS
    <2> HIDE DEF shifted
    <2>6. shifted \union {16} = Plus({16, 12, 5, 0}, Plus(shifted, {12, 5, 0}))
      BY <2>5 DEF Plus
    <2>7. Plus(shifted, {12, 5, 0}) \subseteq 0..15
      BY <2>5 DEF Plus
    <2> QED BY <1>3, <2>1, <2>2, <2>4, <2>6, <2>7
  <1>4. CASE 15 \notin r
    <2>1. ShiftOut(r) = shifted
      BY <1>4 DEF ShiftOut
    <2>2. 16 \notin Shift(r, 1)
      BY <1>1, <1>4
    <2>3. Shift(r, 1) = shifted
      BY <1>2, <2>2
    <2>4. TimesGenerator({}) = {}
      BY DEF TimesGenerator, Shift, Plus
    <2>5. Plus({}, shifted) = shifted
      BY PlusRules
    <2> QED BY <1>4, <2>1, <2>3, <2>4, <2>5
  <1> QED BY <1>3, <1>4

\* r is the remainder of p, with a quotient of n bits.
Leaves(p, r, n) == /\ r \subseteq 0..15
                   /\ \E q \in SUBSET (0..(n - 1)) : p = Plus(TimesGenerator(q), r)

LEMMA OneBit ==
    ASSUME NEW p, NEW r, NEW n \in Nat, Leaves(p, r, n)
    PROVE  Leaves(Shift(p, 1), ShiftOut(r), n + 1)
  <1> PICK q \in SUBSET (0..(n - 1)) : p = Plus(TimesGenerator(q), r)
    BY DEF Leaves
  <1> DEFINE c  == IF 15 \in r THEN {0} ELSE {}
             q1 == Plus(Shift(q, 1), c)
  <1>1. r \subseteq 0..15 /\ r \in SUBSET Int /\ q \in SUBSET Int
    BY DEF Leaves
  <1>2. /\ Shift(q, 1) \in SUBSET Int
        /\ \A e \in Int : e \in Shift(q, 1) <=> e - 1 \in q
    BY <1>1, InShift
  <1>3. c \in SUBSET Int /\ c \subseteq 0..n
    OBVIOUS
  <1>4. q1 \in SUBSET (0..((n + 1) - 1))
    <2>1. Shift(q, 1) \subseteq 0..n
      BY <1>2
    <2> QED BY <1>3, <2>1 DEF Plus
  <1>5. TimesGenerator(q) \in SUBSET Int
    <2>1. \A k \in Int : Shift(q, k) \in SUBSET Int
      BY <1>1, InShift
    <2>2. Plus(Shift(q, 16), Shift(q, 12)) \in SUBSET Int /\ Plus(Shift(q, 5), q) \in SUBSET Int
      BY <1>1, <2>1, PlusInt
    <2> QED BY <2>2, PlusInt DEF TimesGenerator
  <1>6. Shift(p, 1) = Plus(TimesGenerator(Shift(q, 1)), Shift(r, 1))
    <2>1. Shift(p, 1) = Plus(Shift(TimesGenerator(q), 1), Shift(r, 1))
      BY <1>1, <1>5, ShiftPlus
    <2>2. TimesGenerator(Shift(q, 1)) = Shift(TimesGenerator(q), 1)
      BY <1>1, TimesShift
    <2> QED BY <2>1, <2>2
  <1>7. ShiftOut(r) \subseteq 0..15 /\ Shift(r, 1) = Plus(TimesGenerator(c), ShiftOut(r))
    BY <1>1, ShiftOutStep
  <1>8. TimesGenerator(q1) = Plus(TimesGenerator(Shift(q, 1)), TimesGenerator(c))
    BY <1>2, <1>3, TimesPlus
  <1> HIDE DEF c, q1
  <1>9. Shift(p, 1) = Plus(TimesGenerator(q1), ShiftOut(r))
    BY <1>6, <1>7, <1>8, PlusRules
  <1> QED BY <1>4, <1>7, <1>9 DEF Leaves

\* The loop over a byte: the byte is added eight bits up, and eight steps
\* move everything by eight.
LEMMA OneByte ==
    ASSUME NEW p \in SUBSET Int, NEW r, NEW n \in Nat, Leaves(p, r, n),
           NEW b \in SUBSET (0..7)
    PROVE  Leaves(Shift(Plus(p, Shift(b, 8)), 8), Absorb(r, b), n + 8)
  <1> DEFINE p0 == Plus(p, Shift(b, 8))
             r0 == Plus(r, Shift(b, 8))
  <1>1. Shift(b, 8) \subseteq 8..15
    <2>1. b \in SUBSET Int
      OBVIOUS
    <2>2. Shift(b, 8) \in SUBSET Int /\ \A e \in Int : e \in Shift(b, 8) <=> e - 8 \in b
      BY <2>1, InShift
    <2> QED BY <2>2
  <1>2. p0 \in SUBSET Int
    <2>1. Shift(b, 8) \in SUBSET Int
      BY <1>1
    <2> QED BY <2>1, PlusInt
  <1>3. Leaves(p0, r0, n)
    <2>1. PICK q \in SUBSET (0..(n - 1)) : p = Plus(TimesGenerator(q), r)
      BY DEF Leaves
    <2>2. p0 = Plus(TimesGenerator(q), r0)
      BY <2>1, PlusRules
    <2>3. r0 \subseteq 0..15
      <3>1. r \subseteq 0..15
        BY DEF Leaves
      <3>2. Shift(b, 8) \subseteq 0..15
        BY <1>1
      <3> QED BY <3>1, <3>2 DEF Plus
    <2> HIDE DEF p0, r0
    <2> QED BY <2>2, <2>3 DEF Leaves
  <1> HIDE DEF p0, r0
  <1> DEFINE Two(x)  == ShiftOut(ShiftOut(x))
             Four(x) == Two(Two(x))
  <1>4. ASSUME NEW u \in SUBSET Int, NEW x, NEW m \in Nat, Leaves(u, x, m)
        PROVE  Leaves(Shift(u, 2), Two(x), m + 2)
    <2>1. Leaves(Shift(u, 1), ShiftOut(x), m + 1)
      BY <1>4, OneBit
    <2>2. Leaves(Shift(Shift(u, 1), 1), ShiftOut(ShiftOut(x)), (m + 1) + 1)
      BY <1>4, <2>1, OneBit
    <2>3. Shift(Shift(u, 1), 1) = Shift(u, 2) /\ (m + 1) + 1 = m + 2
      <3>1. Shift(Shift(u, 1), 1) = Shift(u, 1 + 1)
        BY <1>4, ShiftShift
      <3>2. 1 + 1 = 2 /\ (m + 1) + 1 = m + 2
        BY <1>4
      <3> QED BY <3>1, <3>2
    <2> QED BY <2>2, <2>3
  <1> HIDE DEF Two
  <1>5. ASSUME NEW u \in SUBSET Int, NEW x, NEW m \in Nat, Leaves(u, x, m)
        PROVE  Leaves(Shift(u, 4), Four(x), m + 4)
    <2>1. Leaves(Shift(u, 2), Two(x), m + 2)
      BY <1>4, <1>5
    <2>2. Shift(u, 2) \in SUBSET Int
      BY <1>5, InShift
    <2>3. Leaves(Shift(Shift(u, 2), 2), Two(Two(x)), (m + 2) + 2)
      BY <1>4, <1>5, <2>1, <2>2
    <2>4. Shift(Shift(u, 2), 2) = Shift(u, 4) /\ (m + 2) + 2 = m + 4
      <3>1. Shift(Shift(u, 2), 2) = Shift(u, 2 + 2)
        BY <1>5, ShiftShift
      <3>2. 2 + 2 = 4 /\ (m + 2) + 2 = m + 4
        BY <1>5
      <3> QED BY <3>1, <3>2
    <2> QED BY <2>3, <2>4
  <1>6. Absorb(r, b) = Four(Four(r0))
    BY DEF Absorb, Two, r0
  <1> HIDE DEF Four
  <1>7. Leaves(Shift(p0, 4), Four(r0), n + 4)
    BY <1>2, <1>3, <1>5
  <1>8. Shift(p0, 4) \in SUBSET Int
    BY <1>2, InShift
  <1>9. Leaves(Shift(Shift(p0, 4), 4), Four(Four(r0)), (n + 4) + 4)
    BY <1>5, <1>7, <1>8
  <1>10. Shift(Shift(p0, 4), 4) = Shift(p0, 8) /\ (n + 4) + 4 = n + 8
    <2>1. Shift(Shift(p0, 4), 4) = Shift(p0, 4 + 4)
      BY <1>2, ShiftShift
    <2>2. 4 + 4 = 8 /\ (n + 4) + 4 = n + 8
      OBVIOUS
    <2> QED BY <2>1, <2>2
  <1> QED BY <1>6, <1>9, <1>10 DEF p0

\* The bits of a text, sixteen zeros behind it.
Message(text) == UNION {Shift(text[i], 8 * (Len(text) - i) + 16) : i \in 1..Len(text)}

\* A byte more moves the dividend up by eight, and is added to it.
LEMMA DividendStep ==
    ASSUME NEW s \in Seq(SUBSET (0..7)), NEW b \in SUBSET (0..7)
    PROVE  /\ Dividend(s) \in SUBSET Int
           /\ Dividend(Append(s, b)) = Shift(Plus(Dividend(s), Shift(b, 8)), 8)
  <1> DEFINE n == Len(s)
             t == Append(s, b)
             ones == (8 * n)..(8 * n + 15)
             at(i) == 8 * (n - i) + 16
  <1>1. /\ n \in Nat /\ Len(t) = n + 1 /\ t[n + 1] = b
        /\ \A i \in 1..n : t[i] = s[i] /\ s[i] \subseteq 0..7
    OBVIOUS
  <1> HIDE DEF n, t
  <1>2. \A i \in 1..n : /\ at(i) \in Nat /\ at(i) >= 16
                        /\ 8 * ((n + 1) - i) + 16 = at(i) + 8
    BY <1>1
  <1>3. Message(s) = UNION {Shift(s[i], at(i)) : i \in 1..n}
    BY DEF Message, n
  <1>4. \A e : e \in Message(s) <=> \E i \in 1..n : e \in Shift(s[i], at(i))
    BY <1>3
  <1> HIDE DEF at
  <1>bits. \A i \in 1..n : s[i] \in SUBSET Int /\ \A e \in s[i] : e >= 0
    <2>1. \A x \in SUBSET (0..7) : x \in SUBSET Int /\ \A e \in x : e >= 0
      OBVIOUS
    <2>2. \A i \in 1..n : s[i] \in SUBSET (0..7)
      BY <1>1
    <2> QED BY <2>1, <2>2
  <1>5. ASSUME NEW i \in 1..n
        PROVE  Shift(s[i], at(i)) \in SUBSET Int /\ \A e \in Shift(s[i], at(i)) : e >= 16
    <2>1. s[i] \in SUBSET Int /\ at(i) \in Int
      BY <1>2, <1>bits
    <2>2. /\ Shift(s[i], at(i)) \in SUBSET Int
          /\ \A e \in Int : e \in Shift(s[i], at(i)) <=> e - at(i) \in s[i]
      BY <2>1, InShift
    <2>3. \A e \in Int : e \in Shift(s[i], at(i)) => e - at(i) >= 0
      BY <1>bits, <2>2
    <2>4. at(i) \in Nat /\ at(i) >= 16
      BY <1>2
    <2>5. \A e \in Int : e - at(i) >= 0 => e >= 16
      BY <2>4
    <2> QED BY <2>2, <2>3, <2>5
  <1>6. Message(s) \in SUBSET Int /\ \A e \in Message(s) : e >= 16
    BY <1>4, <1>5
  <1>7. Message(t) = Shift(Message(s), 8) \union Shift(b, 16)
    <2>1. \A e : e \in Message(t) <=>
                   \E i \in 1..(n + 1) : e \in Shift(t[i], 8 * ((n + 1) - i) + 16)
      BY <1>1 DEF Message
    <2>2. 8 * ((n + 1) - (n + 1)) + 16 = 16
      BY <1>1
    <2>3. \A e : e \in Message(t) <=>
                   \/ \E i \in 1..n : e \in Shift(s[i], at(i) + 8)
                   \/ e \in Shift(b, 16)
      <3>1. \A i \in 1..(n + 1) : i \in 1..n \/ i = n + 1
        BY <1>1
      <3>2. 1..n \subseteq 1..(n + 1) /\ n + 1 \in 1..(n + 1)
        BY <1>1
      <3>3. \A i \in 1..n : Shift(t[i], 8 * ((n + 1) - i) + 16) = Shift(s[i], at(i) + 8)
        BY <1>1, <1>2
      <3>4. Shift(t[n + 1], 8 * ((n + 1) - (n + 1)) + 16) = Shift(b, 16)
        BY <1>1, <2>2
      <3> QED BY <2>1, <3>1, <3>2, <3>3, <3>4
    <2>4. \A i \in 1..n : Shift(s[i], at(i) + 8) = Shift(Shift(s[i], at(i)), 8)
      <3>1. \A i \in 1..n : s[i] \in SUBSET Int /\ at(i) \in Int
        BY <1>2, <1>bits
      <3> QED BY <3>1, ShiftShift
    <2>5. \A e : e \in Shift(Message(s), 8) <=>
                   \E i \in 1..n : e \in Shift(Shift(s[i], at(i)), 8)
      BY <1>4 DEF Shift
    <2> QED BY <2>3, <2>4, <2>5
  <1>8. /\ Shift(b, 8) \in SUBSET Int
        /\ Shift(Shift(b, 8), 8) = Shift(b, 16)
        /\ \A e \in Shift(b, 16) : e < 24
    <2>1. b \in SUBSET Int /\ 8 + 8 = 16
      OBVIOUS
    <2>2. Shift(b, 16) \in SUBSET Int /\ \A e \in Int : e \in Shift(b, 16) <=> e - 16 \in b
      BY <2>1, InShift
    <2>3. Shift(b, 8) \in SUBSET Int
      BY <2>1, InShift
    <2>4. Shift(Shift(b, 8), 8) = Shift(b, 8 + 8)
      BY <2>1, ShiftShift
    <2>5. \A e \in Int : e - 16 \in b => e < 24
      OBVIOUS
    <2>6. \A e \in Shift(b, 16) : e < 24
      BY <2>2, <2>5
    <2>7. Shift(Shift(b, 8), 8) = Shift(b, 16)
      BY <2>4
    <2> QED BY <2>3, <2>6, <2>7
  <1>9. Message(t) = Plus(Shift(Message(s), 8), Shift(b, 16))
    <2>1. \A e \in Shift(Message(s), 8) : e \in Int /\ e >= 24
      <3>1. /\ Shift(Message(s), 8) \in SUBSET Int
            /\ \A e \in Int : e \in Shift(Message(s), 8) <=> e - 8 \in Message(s)
        BY <1>6, InShift
      <3> QED BY <1>6, <3>1
    <2>2. Shift(Message(s), 8) \intersect Shift(b, 16) = {}
      BY <1>8, <2>1
    <2> QED BY <1>7, <2>2 DEF Plus
  <1>10. ones \in SUBSET Int /\ (8 * (n + 1))..(8 * (n + 1) + 15) = Shift(ones, 8)
    <2>1. ones \in SUBSET Int
      BY <1>1
    <2> DEFINE next == (8 * (n + 1))..(8 * (n + 1) + 15)
    <2>2. next \in SUBSET Int
      BY <1>1
    <2>3. \A e \in Int : e - 8 \in ones <=> e \in next
      BY <1>1
    <2> HIDE DEF ones, next
    <2>4. /\ Shift(ones, 8) \in SUBSET Int
          /\ \A e \in Int : e \in Shift(ones, 8) <=> e - 8 \in ones
      BY <2>1, InShift
    <2>5. next = Shift(ones, 8)
      BY <2>2, <2>3, <2>4
    <2> QED BY <2>1, <2>5 DEF next
  <1>11. Dividend(s) = Plus(Message(s), ones)
    BY DEF Dividend, Message, n
  <1>12. Dividend(t) = Plus(Message(t), Shift(ones, 8))
    BY <1>1, <1>10 DEF Dividend, Message
  <1> HIDE DEF ones
  <1>13. Dividend(s) \in SUBSET Int
    BY <1>6, <1>10, <1>11, PlusInt
  <1>14. Shift(Plus(Dividend(s), Shift(b, 8)), 8)
             = Plus(Plus(Shift(Message(s), 8), Shift(ones, 8)), Shift(b, 16))
    BY <1>6, <1>8, <1>10, <1>11, <1>13, ShiftPlus
  <1>15. Dividend(t) = Shift(Plus(Dividend(s), Shift(b, 8)), 8)
    BY <1>9, <1>12, <1>14, PlusRules
  <1> QED BY <1>13, <1>15 DEF t

ChecksumInv == body \in Seq(SUBSET (0..7)) /\ Leaves(Dividend(body), crc, 8 * Len(body))

LEMMA ChecksumStart == ChecksumInit => ChecksumInv
  <1> SUFFICES ASSUME ChecksumInit PROVE ChecksumInv
    OBVIOUS
  <1>1. body = <<>> /\ Len(body) = 0 /\ crc = 0..15
    BY DEF ChecksumInit
  <1>2. Dividend(body) = 0..15
    BY <1>1 DEF Dividend, Plus
  <1>3. TimesGenerator({}) = {}
    BY DEF TimesGenerator, Shift, Plus
  <1>4. Dividend(body) = Plus(TimesGenerator({}), crc)
    BY <1>1, <1>2, <1>3, PlusRules
  <1>5. {} \in SUBSET (0..(8 * Len(body) - 1)) /\ crc \subseteq 0..15
    BY <1>1
  <1>6. Leaves(Dividend(body), crc, 8 * Len(body))
    BY <1>4, <1>5 DEF Leaves
  <1> QED BY <1>1, <1>6 DEF ChecksumInv

LEMMA NextByteInv ==
    ASSUME ChecksumInv, NEW b \in Byte, NextByte(b)
    PROVE  ChecksumInv'
  <1>1. /\ b \subseteq 0..7 /\ body \in Seq(SUBSET (0..7))
        /\ body' = Append(body, b) /\ crc' = Absorb(crc, b)
    BY ChecksumAssumption DEF ChecksumInv, NextByte
  <1>2. body' \in Seq(SUBSET (0..7)) /\ Len(body') = Len(body) + 1 /\ Len(body) \in Nat
    BY <1>1
  <1>3. 8 * Len(body) \in Nat /\ 8 * Len(body') = 8 * Len(body) + 8
    BY <1>2
  <1>4. /\ Dividend(body) \in SUBSET Int
        /\ Dividend(body') = Shift(Plus(Dividend(body), Shift(b, 8)), 8)
    BY <1>1, DividendStep
  <1>5. Leaves(Dividend(body'), crc', 8 * Len(body) + 8)
    BY <1>1, <1>3, <1>4, OneByte DEF ChecksumInv
  <1> QED BY <1>2, <1>3, <1>5 DEF ChecksumInv

\* parser.ChecksumHex computes the CRC16-CCITT of every body: the register is
\* always the remainder of what has been read, divided by the generator.
THEOREM ChecksumIsRemainder == ChecksumSpec => []ChecksumIsCrc
  <1>1. ChecksumInit => ChecksumInv
    BY ChecksumStart
  <1>2. ChecksumInv /\ [\E b \in Byte : NextByte(b)]_checksumVars => ChecksumInv'
    <2>1. ChecksumInv /\ UNCHANGED checksumVars => ChecksumInv'
      BY DEF ChecksumInv, checksumVars
    <2> QED BY <2>1, NextByteInv
  <1>3. ChecksumInv => ChecksumIsCrc
    BY DEF ChecksumInv, Leaves, ChecksumIsCrc
  <1> QED BY <1>1, <1>2, <1>3, PTL DEF ChecksumSpec

-----------------------------------------------------------------------------
(* The histogram.                                                          *)

Buckets == 1..(Len(Bounds) + 1)

\* A histogram as Observe leaves it.
IsHistogram(h) == h \in [bounds : {Bounds}, counts : [Buckets -> Nat], count : Nat]

\* The loop of renderHistogram: it starts at zero and adds a bucket at a time.
LEMMA RenderedStep ==
    ASSUME NEW h, IsHistogram(h)
    PROVE  /\ Rendered(h, 0) = 0
           /\ \A n \in Buckets : Rendered(h, n) = Rendered(h, n - 1) + h.counts[n]
  <1> DEFINE L == Len(Bounds) + 1
             step == [i \in Nat |-> [x \in Nat |-> IF i \in Buckets THEN x + h.counts[i] ELSE x]]
             cum[i \in 0..(Len(h.bounds) + 1)] ==
                 IF i = 0 THEN 0 ELSE cum[i - 1] + h.counts[i]
  <1>1. L \in Nat /\ h.bounds = Bounds /\ h.counts \in [Buckets -> Nat]
    BY HistogramAssumption DEF IsHistogram
  <1>2. \E f \in [0..L -> Nat] : IsIteration(f, 0, step, L)
    <2>1. step \in [Nat -> [Nat -> Nat]]
      BY <1>1
    <2> HIDE DEF step, cum, L
    <2> QED BY <1>1, <2>1, IterationExists
  <1>3. PICK f \in [0..L -> Nat] : IsIteration(f, 0, step, L)
    BY <1>2
  <1>4. ASSUME NEW i \in 1..L PROVE f[i] = f[i - 1] + h.counts[i]
    <2>1. f[i] = step[i][f[i - 1]]
      <3> HIDE DEF step
      <3> QED BY <1>3 DEF IsIteration
    <2>2. i \in Nat /\ i \in Buckets /\ f[i - 1] \in Nat
      BY <1>1 DEF Buckets
    <2> QED BY <2>1, <2>2
  <1>5. f = [i \in 0..L |-> IF i = 0 THEN 0 ELSE f[i - 1] + h.counts[i]]
    <2>1. f[0] = 0
      BY <1>3 DEF IsIteration
    <2> QED BY <1>1, <1>4, <2>1
  <1>6. f = [i \in 0..(Len(h.bounds) + 1) |-> IF i = 0 THEN 0 ELSE f[i - 1] + h.counts[i]]
    BY <1>1, <1>5
  <1>7. cum = [i \in 0..(Len(h.bounds) + 1) |-> IF i = 0 THEN 0 ELSE cum[i - 1] + h.counts[i]]
    BY <1>6
  <1>8. \A n : Rendered(h, n) = cum[n]
    BY DEF Rendered
  <1> HIDE DEF cum, step
  <1>9. \A n \in 0..L : Rendered(h, n) = IF n = 0 THEN 0 ELSE Rendered(h, n - 1) + h.counts[n]
    BY <1>1, <1>7, <1>8
  <1>10. Rendered(h, 0) = 0
    BY <1>1, <1>9
  <1>11. ASSUME NEW n \in Buckets PROVE Rendered(h, n) = Rendered(h, n - 1) + h.counts[n]
    BY <1>1, <1>9 DEF Buckets
  <1> QED BY <1>10, <1>11

\* What is rendered is a number.
LEMMA RenderedIsNat ==
    ASSUME NEW h, IsHistogram(h)
    PROVE  \A n \in 0..(Len(Bounds) + 1) : Rendered(h, n) \in Nat
  <1> DEFINE S == {n \in Nat : n <= Len(Bounds) + 1 => Rendered(h, n) \in Nat}
  <1>1. Len(Bounds) \in Nat
    BY HistogramAssumption
  <1>2. 0 \in S
    BY RenderedStep
  <1>3. ASSUME NEW n \in Nat, n \in S PROVE n + 1 \in S
    <2> SUFFICES ASSUME n + 1 <= Len(Bounds) + 1 PROVE Rendered(h, n + 1) \in Nat
      OBVIOUS
    <2>1. n + 1 \in Buckets /\ (n + 1) - 1 = n
      BY <1>1 DEF Buckets
    <2>2. Rendered(h, n + 1) = Rendered(h, n) + h.counts[n + 1]
      BY <2>1, RenderedStep
    <2>3. Rendered(h, n) \in Nat
      BY <1>1, <1>3
    <2>4. h.counts[n + 1] \in Nat
      BY <2>1 DEF IsHistogram
    <2> QED BY <2>2, <2>3, <2>4
  <1> HIDE DEF S
  <1>4. Nat \subseteq S
    BY <1>2, <1>3, InductionOnNat
  <1> QED BY <1>1, <1>4 DEF S

\* Every value is counted in one bucket, and that is the first one it does not
\* exceed the bound of.
LEMMA OneBucket ==
    ASSUME NEW v \in Int
    PROVE  \E b \in Buckets :
               /\ BucketsOf(Bounds, v) = {b}
               /\ \A i \in DOMAIN Bounds : v <= Bounds[i] <=> b <= i
  <1> USE HistogramAssumption
  <1> DEFINE L == Len(Bounds)
             Fit == {i \in 1..L : v <= Bounds[i]}
  <1>1. L \in Nat \ {0} /\ DOMAIN Bounds = 1..L /\ \A i \in 1..L : Bounds[i] \in Int
    OBVIOUS
  <1>2. \A i, j \in 1..L : i <= j => Bounds[i] <= Bounds[j]
    BY <1>1
  <1> HIDE DEF L
  <1>3. BucketsOf(Bounds, v) = {i \in 1..L : v <= Bounds[i] /\ \A j \in 1..(i - 1) : v > Bounds[j]}
                                   \union {i \in {L + 1} : v > Bounds[L]}
    BY <1>1 DEF BucketsOf, L
  <1>4. CASE Fit = {}
    <2>1. v > Bounds[L] /\ \A i \in 1..L : v > Bounds[i]
      BY <1>1, <1>4
    <2>2. BucketsOf(Bounds, v) = {L + 1}
      BY <1>1, <1>3, <2>1
    <2>3. \A i \in 1..L : v <= Bounds[i] <=> L + 1 <= i
      BY <1>1, <2>1
    <2>4. L + 1 \in Buckets
      BY <1>1 DEF Buckets, L
    <2> QED BY <1>1, <2>2, <2>3, <2>4
  <1>5. CASE Fit # {}
    <2>1. PICK b \in Fit : \A i \in Fit : b <= i
      <3>1. Fit \subseteq Nat
        OBVIOUS
      <3> HIDE DEF Fit
      <3> QED BY <1>5, <3>1, LeastNumber
    <2>2. b \in 1..L /\ v <= Bounds[b]
      BY <2>1
    <2>3. \A i \in 1..L : v <= Bounds[i] => b <= i
      BY <2>1
    <2> HIDE DEF Fit
    <2>4. \A i \in 1..L : b <= i => v <= Bounds[i]
      BY <1>1, <1>2, <2>2
    <2>5. ~ (v > Bounds[L])
      BY <1>1, <2>2, <2>4
    <2>6. b \in BucketsOf(Bounds, v)
      BY <1>1, <1>3, <2>2, <2>3
    <2>7. ASSUME NEW i \in BucketsOf(Bounds, v) PROVE i = b
      <3>1. i \in 1..L /\ v <= Bounds[i] /\ \A j \in 1..(i - 1) : v > Bounds[j]
        BY <1>3, <2>5, <2>7
      <3>2. b <= i
        BY <2>3, <3>1
      <3>3. ~ (b < i)
        BY <1>1, <2>2, <3>1
      <3> QED BY <1>1, <2>2, <3>1, <3>2, <3>3
    <2>8. b \in Buckets
      BY <1>1, <2>2 DEF Buckets, L
    <2> QED BY <1>1, <2>3, <2>4, <2>6, <2>7, <2>8
  <1> QED BY <1>4, <1>5

\* One observation adds one to what is rendered for the bounds that the value
\* does not exceed, and for +Inf.
LEMMA ObserveAddsOne ==
    ASSUME NEW h, IsHistogram(h), NEW v \in Int
    PROVE  /\ IsHistogram(Observe(h, v))
           /\ Observe(h, v).count = h.count + 1
           /\ \A i \in DOMAIN Bounds :
                 Rendered(Observe(h, v), i) = Rendered(h, i) + (IF v <= Bounds[i] THEN 1 ELSE 0)
           /\ Rendered(Observe(h, v), Len(Bounds) + 1) = Rendered(h, Len(Bounds) + 1) + 1
  <1> DEFINE o == Observe(h, v)
             L == Len(Bounds)
  <1>1. L \in Nat /\ DOMAIN Bounds = 1..L
    BY HistogramAssumption
  <1>2. PICK b \in Buckets : /\ BucketsOf(Bounds, v) = {b}
                             /\ \A i \in DOMAIN Bounds : v <= Bounds[i] <=> b <= i
    BY OneBucket
  <1>3. /\ h.bounds = Bounds /\ DOMAIN h.counts = Buckets
        /\ h.count \in Nat /\ \A i \in Buckets : h.counts[i] \in Nat
    BY DEF IsHistogram
  <1> DEFINE counts == [i \in Buckets |-> h.counts[i] + IF i = b THEN 1 ELSE 0]
  <1>4. o = [bounds |-> Bounds, counts |-> counts, count |-> h.count + 1]
    <2>1. [i \in DOMAIN h.counts |->
              h.counts[i] + IF i \in BucketsOf(h.bounds, v) THEN 1 ELSE 0] = counts
      BY <1>2, <1>3
    <2> HIDE DEF counts
    <2> QED BY <1>3, <2>1 DEF Observe
  <1>5. IsHistogram(o) /\ o.count = h.count + 1 /\ o.counts = counts
    <2>1. counts \in [Buckets -> Nat]
      BY <1>3
    <2> HIDE DEF o, counts
    <2> QED BY <1>3, <1>4, <2>1 DEF IsHistogram
  <1> HIDE DEF o
  <1>6. \A i \in Buckets : o.counts[i] = h.counts[i] + IF i = b THEN 1 ELSE 0
    BY <1>5
  <1> DEFINE S == {n \in Nat : n <= L + 1 =>
                                 Rendered(o, n) = Rendered(h, n) + (IF b <= n THEN 1 ELSE 0)}
  <1>7. 0 \in S
    <2>1. Rendered(o, 0) = 0 /\ Rendered(h, 0) = 0
      BY <1>5, RenderedStep
    <2> QED BY <2>1 DEF Buckets
  <1>8. ASSUME NEW n \in Nat, n \in S PROVE n + 1 \in S
    <2> SUFFICES ASSUME n + 1 <= L + 1
                 PROVE  Rendered(o, n + 1) = Rendered(h, n + 1) + (IF b <= n + 1 THEN 1 ELSE 0)
      OBVIOUS
    <2>1. n + 1 \in Buckets /\ (n + 1) - 1 = n
      BY <1>1 DEF Buckets
    <2>2. /\ Rendered(o, n + 1) = Rendered(o, n) + o.counts[n + 1]
          /\ Rendered(h, n + 1) = Rendered(h, n) + h.counts[n + 1]
      BY <1>5, <2>1, RenderedStep
    <2>3. Rendered(o, n) = Rendered(h, n) + (IF b <= n THEN 1 ELSE 0)
      BY <1>1, <1>8
    <2>4. Rendered(h, n) \in Nat /\ h.counts[n + 1] \in Nat /\ b \in Nat
      <3>1. n \in 0..(Len(Bounds) + 1)
        BY <1>1
      <3> QED BY <1>3, <2>1, <3>1, RenderedIsNat DEF Buckets
    <2>5. o.counts[n + 1] = h.counts[n + 1] + IF n + 1 = b THEN 1 ELSE 0
      BY <1>6, <2>1
    <2> QED BY <2>2, <2>3, <2>4, <2>5
  <1> HIDE DEF S
  <1>9. Nat \subseteq S
    BY <1>7, <1>8, InductionOnNat
  <1>10. \A n \in 0..(L + 1) : Rendered(o, n) = Rendered(h, n) + (IF b <= n THEN 1 ELSE 0)
    BY <1>1, <1>9 DEF S
  <1>11. Rendered(o, L + 1) = Rendered(h, L + 1) + 1
    BY <1>1, <1>10 DEF Buckets
  <1>12. ASSUME NEW i \in DOMAIN Bounds
         PROVE  Rendered(o, i) = Rendered(h, i) + (IF v <= Bounds[i] THEN 1 ELSE 0)
    BY <1>1, <1>2, <1>10
  <1> QED BY <1>5, <1>11, <1>12 DEF o

\* How many of the values are not above a bound, and with one value more.
NotAbove(text, bound) == {k \in DOMAIN text : text[k] <= bound}

LEMMA NotAboveAppend ==
    ASSUME NEW s \in Seq(Int), NEW v \in Int, NEW bound \in Int
    PROVE  /\ Cardinality(NotAbove(s, bound)) \in Nat
           /\ Cardinality(NotAbove(Append(s, v), bound))
                  = Cardinality(NotAbove(s, bound)) + (IF v <= bound THEN 1 ELSE 0)
  <1> DEFINE n == Len(s)
  <1>1. /\ n \in Nat /\ DOMAIN s = 1..n /\ DOMAIN Append(s, v) = 1..(n + 1)
        /\ \A k \in 1..n : Append(s, v)[k] = s[k]
        /\ Append(s, v)[n + 1] = v
    OBVIOUS
  <1>2. IsFiniteSet(NotAbove(s, bound))
    <2>1. IsFiniteSet(1..n)
      <3>1. 1 \in Int /\ n \in Int
        BY <1>1
      <3> QED BY <3>1, FS_Interval
    <2> QED BY <1>1, <2>1, FS_Subset DEF NotAbove
  <1>3. Cardinality(NotAbove(s, bound)) \in Nat
    BY <1>2, FS_CardinalityType
  <1>4. CASE v <= bound
    <2>1. NotAbove(Append(s, v), bound) = NotAbove(s, bound) \union {n + 1}
      BY <1>1, <1>4 DEF NotAbove
    <2>2. n + 1 \notin NotAbove(s, bound)
      BY <1>1 DEF NotAbove
    <2> QED BY <1>2, <1>3, <1>4, <2>1, <2>2, FS_AddElement
  <1>5. CASE ~ (v <= bound)
    <2>1. NotAbove(Append(s, v), bound) = NotAbove(s, bound)
      BY <1>1, <1>5 DEF NotAbove
    <2> QED BY <1>3, <1>5, <2>1
  <1> QED BY <1>3, <1>4, <1>5

HistogramInv == values \in Seq(Int) /\ IsHistogram(buckets) /\ BucketsAddUp

LEMMA HistogramStart == HistogramInit => HistogramInv
  <1> SUFFICES ASSUME HistogramInit PROVE HistogramInv
    OBVIOUS
  <1>1. /\ values = <<>> /\ values \in Seq(Int) /\ Len(values) = 0
        /\ Len(Bounds) \in Nat /\ DOMAIN Bounds = 1..Len(Bounds)
    BY HistogramAssumption DEF HistogramInit
  <1>2. /\ IsHistogram(buckets) /\ buckets.count = 0
        /\ \A i \in Buckets : buckets.counts[i] = 0
    BY DEF HistogramInit, New, IsHistogram, Buckets
  <1> DEFINE S == {n \in Nat : n <= Len(Bounds) + 1 => Rendered(buckets, n) = 0}
  <1>3. 0 \in S
    BY <1>2, RenderedStep
  <1>4. ASSUME NEW n \in Nat, n \in S PROVE n + 1 \in S
    <2> SUFFICES ASSUME n + 1 <= Len(Bounds) + 1 PROVE Rendered(buckets, n + 1) = 0
      OBVIOUS
    <2>1. n + 1 \in Buckets /\ (n + 1) - 1 = n
      BY <1>1 DEF Buckets
    <2>2. Rendered(buckets, n + 1) = Rendered(buckets, n) + buckets.counts[n + 1]
      BY <1>2, <2>1, RenderedStep
    <2> QED BY <1>1, <1>2, <1>4, <2>1, <2>2
  <1> HIDE DEF S
  <1>5. Nat \subseteq S
    BY <1>3, <1>4, InductionOnNat
  <1>6. \A n \in 0..(Len(Bounds) + 1) : Rendered(buckets, n) = 0
    BY <1>1, <1>5 DEF S
  <1>7. \A i \in DOMAIN Bounds : Cardinality({k \in DOMAIN values : values[k] <= Bounds[i]}) = 0
    <2>1. \A i \in DOMAIN Bounds : {k \in DOMAIN values : values[k] <= Bounds[i]} = {}
      BY <1>1
    <2> QED BY <2>1, FS_EmptySet
  <1>8. BucketsAddUp
    BY <1>1, <1>2, <1>6, <1>7 DEF BucketsAddUp
  <1> QED BY <1>1, <1>2, <1>8 DEF HistogramInv

LEMMA ObserveInv ==
    ASSUME HistogramInv, NEW v \in Value, ObserveValue(v)
    PROVE  HistogramInv'
  <1>1. /\ v \in Int /\ values \in Seq(Int) /\ IsHistogram(buckets)
        /\ values' = Append(values, v) /\ buckets' = Observe(buckets, v)
    BY HistogramAssumption DEF HistogramInv, ObserveValue
  <1>2. /\ values' \in Seq(Int) /\ Len(values') = Len(values) + 1
        /\ Len(Bounds) \in Nat
        /\ \A i \in DOMAIN Bounds : Bounds[i] \in Int
    BY <1>1, HistogramAssumption
  <1>3. IsHistogram(buckets') /\ buckets'.count = buckets.count + 1
    BY <1>1, ObserveAddsOne
  <1>4. ASSUME NEW i \in DOMAIN Bounds
        PROVE  Rendered(buckets', i) = Cardinality(NotAbove(values', Bounds[i]))
    <2>1. Rendered(buckets', i) = Rendered(buckets, i) + (IF v <= Bounds[i] THEN 1 ELSE 0)
      BY <1>1, ObserveAddsOne
    <2>2. Rendered(buckets, i) = Cardinality(NotAbove(values, Bounds[i]))
      BY DEF HistogramInv, BucketsAddUp, NotAbove
    <2>3. Cardinality(NotAbove(values', Bounds[i]))
              = Cardinality(NotAbove(values, Bounds[i])) + (IF v <= Bounds[i] THEN 1 ELSE 0)
      BY <1>1, <1>2, NotAboveAppend
    <2> QED BY <2>1, <2>2, <2>3
  <1>5. Rendered(buckets', Len(Bounds) + 1) = Len(values')
    <2>1. Rendered(buckets', Len(Bounds) + 1) = Rendered(buckets, Len(Bounds) + 1) + 1
      BY <1>1, ObserveAddsOne
    <2> QED BY <1>2, <2>1 DEF HistogramInv, BucketsAddUp
  <1>6. buckets'.count = Len(values')
    BY <1>2, <1>3 DEF HistogramInv, BucketsAddUp
  <1>7. BucketsAddUp'
    BY <1>4, <1>5, <1>6 DEF BucketsAddUp, NotAbove
  <1> QED BY <1>2, <1>3, <1>7 DEF HistogramInv

\* Whatever is observed, the rendered buckets are cumulative and add up to the
\* count (Histogram.Observe, renderHistogram), for any ascending bounds.
THEOREM HistogramAddsUp == HistogramSpec => []BucketsAddUp
  <1>1. HistogramInit => HistogramInv
    BY HistogramStart
  <1>2. HistogramInv /\ [\E v \in Value : ObserveValue(v)]_histogramVars => HistogramInv'
    <2>1. HistogramInv /\ UNCHANGED histogramVars => HistogramInv'
      BY DEF HistogramInv, histogramVars, BucketsAddUp
    <2> QED BY <2>1, ObserveInv
  <1>3. HistogramInv => BucketsAddUp
    BY DEF HistogramInv
  <1> QED BY <1>1, <1>2, <1>3, PTL DEF HistogramSpec

-----------------------------------------------------------------------------
(* The pages of the event list.                                            *)

Ahead(events, t) == {e \in events : e.ts > t}
Tied(events, t)  == {e \in events : e.ts = t}

\* Parts of a finite set that have nothing in common.
LEMMA DisjointParts ==
    ASSUME NEW T, IsFiniteSet(T), NEW P \in SUBSET T, NEW Q \in SUBSET T, P \intersect Q = {}
    PROVE  /\ Cardinality(P \union Q) = Cardinality(P) + Cardinality(Q)
           /\ Cardinality(P) + Cardinality(Q) <= Cardinality(T)
           /\ Cardinality(P) + Cardinality(Q) = Cardinality(T) => P \union Q = T
           /\ Cardinality(P) \in Nat /\ Cardinality(Q) \in Nat /\ Cardinality(T) \in Nat
  <1>1. /\ IsFiniteSet(P) /\ IsFiniteSet(Q) /\ P \union Q \in SUBSET T
        /\ Cardinality(P) \in Nat /\ Cardinality(Q) \in Nat /\ Cardinality(T) \in Nat
    BY FS_Subset, FS_CardinalityType
  <1>2. Cardinality(P \union Q) = Cardinality(P) + Cardinality(Q) - Cardinality(P \intersect Q)
    BY <1>1, FS_Union
  <1>3. Cardinality(P \intersect Q) = 0
    BY FS_EmptySet
  <1>4. /\ Cardinality(P \union Q) <= Cardinality(T)
        /\ Cardinality(P \union Q) = Cardinality(T) => P \union Q = T
    BY <1>1, FS_Subset
  <1> QED BY <1>1, <1>2, <1>3, <1>4

\* What a page does for the events of one ts, if it shows none of them a second
\* time: they have all been shown, or enough for the places behind those that
\* are ahead of them, up to the end of the page, and the page is full.
LEMMA PageShowsTied ==
    ASSUME NEW events \in SUBSET Event, NEW offset \in Nat, NEW t \in Int,
           NEW skipped \in Heads(events, offset),
           NEW items \in Heads(events \ skipped, Size),
           NEW shown \in SUBSET events,
           offset <= Cardinality(Tied(shown, t)) + Cardinality(Ahead(events, t)),
           Tied(shown \intersect items, t) = {}
    PROVE  \/ Tied(events, t) \subseteq shown \union items
           \/ /\ Cardinality(items) = Size
              /\ offset + Size <= Cardinality(Tied(shown \union items, t))
                                      + Cardinality(Ahead(events, t))
  <1> USE PagesAssumption
  <1> DEFINE C == Tied(events, t)
             A == Ahead(events, t)
  <1>1. IsFiniteSet(events) /\ \A e \in events : e.ts \in Int
    BY FS_Subset
  <1>2. /\ skipped \in SUBSET events /\ items \in SUBSET (events \ skipped)
        /\ C \in SUBSET events /\ A \in SUBSET events
        /\ Tied(shown, t) \in SUBSET C /\ Tied(items, t) \in SUBSET C
    BY DEF Heads, Tied, Ahead
  <1>3. /\ IsFiniteSet(C) /\ IsFiniteSet(A) /\ IsFiniteSet(skipped) /\ IsFiniteSet(items)
        /\ Cardinality(C) \in Nat /\ Cardinality(A) \in Nat
        /\ Cardinality(skipped) \in Nat /\ Cardinality(items) \in Nat
    BY <1>1, <1>2, FS_Subset, FS_CardinalityType
  <1>4. /\ Cardinality(skipped) <= offset
        /\ skipped # events => Cardinality(skipped) = offset
        /\ items # events \ skipped => Cardinality(items) = Size
        /\ \A e \in skipped, f \in events \ skipped : e.ts >= f.ts
        /\ \A e \in items, f \in (events \ skipped) \ items : e.ts >= f.ts
    BY DEF Heads
  <1>5. \A e \in events : /\ e \in C <=> e.ts = t
                          /\ e \in A <=> e.ts > t
    BY DEF Tied, Ahead
  <1>6. /\ \A e \in Tied(shown, t) : e \in shown /\ e \in C
        /\ \A e \in C : e \in shown => e \in Tied(shown, t)
        /\ \A e \in Tied(items, t) : e \in items /\ e \in C
        /\ \A e \in C : e \in items => e \in Tied(items, t)
        /\ \A e \in C : ~ (e \in shown /\ e \in items)
    BY <1>2 DEF Tied
  <1>7. Tied(shown \union items, t) = Tied(shown, t) \union Tied(items, t)
    BY DEF Tied
  <1> HIDE DEF C, A
  <1>8. CASE C \subseteq skipped \union items
    <2>1. CASE C \intersect skipped = {}
      BY <1>8, <2>1 DEF C
    <2>2. CASE C \intersect skipped # {}
      <3>1. A \in SUBSET skipped
        BY <1>1, <1>2, <1>4, <1>5, <2>2
      <3>2. Cardinality(A) + Cardinality(C \intersect skipped) <= Cardinality(skipped)
        <4>1. A \intersect (C \intersect skipped) = {} /\ C \intersect skipped \in SUBSET skipped
          BY <1>1, <1>2, <1>5
        <4> QED BY <1>3, <3>1, <4>1, DisjointParts
      <3>3. /\ Cardinality(C \intersect skipped) + Cardinality(C \ skipped) = Cardinality(C)
            /\ Cardinality(C \intersect skipped) \in Nat /\ Cardinality(C \ skipped) \in Nat
        <4>1. /\ C \intersect skipped \in SUBSET C /\ C \ skipped \in SUBSET C
              /\ (C \intersect skipped) \intersect (C \ skipped) = {}
              /\ (C \intersect skipped) \union (C \ skipped) = C
          OBVIOUS
        <4> DEFINE P == C \intersect skipped
                   Q == C \ skipped
        <4> HIDE DEF P, Q
        <4>2. P \in SUBSET C /\ Q \in SUBSET C /\ P \intersect Q = {} /\ P \union Q = C
          BY <4>1 DEF P, Q
        <4>3. Cardinality(P) + Cardinality(Q) = Cardinality(C)
              /\ Cardinality(P) \in Nat /\ Cardinality(Q) \in Nat
          BY <1>3, <4>2, DisjointParts
        <4> QED BY <4>3 DEF P, Q
      <3>4. C \ skipped \subseteq items
        BY <1>8
      <3>5. Tied(shown, t) \intersect (C \ skipped) = {}
        BY <1>6, <3>4
      <3>6. /\ Cardinality(Tied(shown, t)) + Cardinality(C \ skipped) <= Cardinality(C)
            /\ Cardinality(Tied(shown, t)) + Cardinality(C \ skipped) = Cardinality(C)
                   => Tied(shown, t) \union (C \ skipped) = C
            /\ Cardinality(Tied(shown, t)) \in Nat
        <4> DEFINE P == Tied(shown, t)
                   Q == C \ skipped
        <4>1. P \in SUBSET C /\ Q \in SUBSET C /\ P \intersect Q = {}
          BY <1>2, <3>5
        <4> HIDE DEF P, Q
        <4>2. /\ Cardinality(P) + Cardinality(Q) <= Cardinality(C)
              /\ Cardinality(P) + Cardinality(Q) = Cardinality(C) => P \union Q = C
              /\ Cardinality(P) \in Nat
          BY <1>3, <4>1, DisjointParts
        <4> QED BY <4>2 DEF P, Q
      <3>7. Cardinality(C \intersect skipped) <= Cardinality(Tied(shown, t))
        <4>1. offset <= Cardinality(Tied(shown, t)) + Cardinality(A)
          BY DEF A
        <4>2. Cardinality(skipped) <= offset
          BY <1>4
        <4> QED BY <1>3, <3>2, <3>3, <3>6, <4>1, <4>2
      <3>8. Tied(shown, t) \union (C \ skipped) = C
        BY <1>3, <3>3, <3>6, <3>7
      <3> QED BY <1>6, <3>4, <3>8 DEF C
    <2> QED BY <2>1, <2>2
  <1>9. CASE ~ (C \subseteq skipped \union items)
    <2>1. PICK c \in C : c \notin skipped /\ c \notin items
      BY <1>9
    <2>2. Cardinality(skipped) = offset /\ Cardinality(items) = Size
      BY <1>2, <1>4, <2>1
    <2>3. \A e \in skipped \union items : e \in A \/ e \in C
      <3>1. \A e \in skipped \union items : e.ts >= t
        BY <1>2, <1>4, <1>5, <2>1
      <3> QED BY <1>1, <1>2, <1>5, <3>1
    <2>4. /\ Cardinality(Tied(shown \union items, t))
                 = Cardinality(Tied(shown, t)) + Cardinality(Tied(items, t))
          /\ Cardinality(Tied(shown, t)) \in Nat /\ Cardinality(Tied(items, t)) \in Nat
      <3>1. Tied(shown, t) \intersect Tied(items, t) = {}
        BY <1>6
      <3> DEFINE P == Tied(shown, t)
                 Q == Tied(items, t)
      <3>2. P \in SUBSET C /\ Q \in SUBSET C /\ P \intersect Q = {}
        BY <1>2, <3>1
      <3> HIDE DEF P, Q
      <3>3. IsFiniteSet(C)
        BY <1>3
      <3>4. /\ Cardinality(P \union Q) = Cardinality(P) + Cardinality(Q)
            /\ Cardinality(P) \in Nat /\ Cardinality(Q) \in Nat
        BY <3>2, <3>3, DisjointParts
      <3> QED BY <1>7, <3>4 DEF P, Q
    <2>5. /\ Cardinality(items) = Cardinality(Tied(items, t)) + Cardinality(items \intersect A)
          /\ Cardinality(items \intersect A) \in Nat
      <3>1. /\ Tied(items, t) \in SUBSET items /\ items \intersect A \in SUBSET items
            /\ Tied(items, t) \intersect (items \intersect A) = {}
            /\ Tied(items, t) \union (items \intersect A) = items
        BY <1>1, <1>2, <1>5, <1>6, <2>3
      <3> QED BY <1>3, <3>1, DisjointParts
    <2>6. CASE C \intersect skipped = {}
      <3>1. /\ skipped \in SUBSET A /\ items \intersect A \in SUBSET A
            /\ skipped \intersect (items \intersect A) = {}
        BY <1>2, <2>3, <2>6
      <3>2. Cardinality(skipped) + Cardinality(items \intersect A) <= Cardinality(A)
        BY <1>3, <3>1, DisjointParts
      <3> QED BY <1>3, <2>2, <2>4, <2>5, <3>2 DEF A
    <2>7. CASE C \intersect skipped # {}
      <3>1. A \in SUBSET skipped
        BY <1>1, <1>2, <1>4, <1>5, <2>7
      <3>2. items \intersect A = {}
        BY <1>2, <3>1
      <3>3. Cardinality(items \intersect A) = 0
        BY <3>2, FS_EmptySet
      <3> QED BY <1>3, <2>2, <2>4, <2>5, <3>3 DEF A
    <2> QED BY <2>6, <2>7
  <1> QED BY <1>8, <1>9

\* How many places lie before the page that is asked for next.
Walked == Offset(Effective(page), Size)

\* The events of one ts: one was shown twice, or all that were there have been
\* shown, or as many as the walk has passed places of theirs.
Covered(t) == \/ Tied(repeated, t) # {}
              \/ Tied(before, t) \subseteq listed
              \/ Walked <= Cardinality(Tied(listed, t)) + Cardinality(Ahead(stored, t))

WalkInv == /\ stored \in SUBSET Event
           /\ before \in SUBSET stored
           /\ listed \in SUBSET stored
           /\ page \in Nat
           /\ \A t \in Int : Covered(t)
           /\ MissesShowAsRepeats

LEMMA WalkInit == PagesInit => WalkInv
  <1> SUFFICES ASSUME PagesInit PROVE WalkInv
    OBVIOUS
  <1> USE PagesAssumption DEF PagesInit
  <1>1. Walked = 0
    BY DEF Walked, Offset, Effective
  <1>2. ASSUME NEW t \in Int PROVE Covered(t)
    <2>1. /\ IsFiniteSet(stored)
          /\ Tied(listed, t) \in SUBSET stored /\ Ahead(stored, t) \in SUBSET stored
      BY FS_Subset DEF Tied, Ahead
    <2>2. Cardinality(Tied(listed, t)) \in Nat /\ Cardinality(Ahead(stored, t)) \in Nat
      BY <2>1, FS_Subset, FS_CardinalityType
    <2> QED BY <1>1, <2>2 DEF Covered
  <1> QED BY <1>2 DEF WalkInv, MissesShowAsRepeats

LEMMA WalkStep == WalkInv /\ [PagesNext]_pageVars => WalkInv'
  <1> SUFFICES ASSUME WalkInv, [PagesNext]_pageVars PROVE WalkInv'
    OBVIOUS
  <1> USE PagesAssumption DEF WalkInv
  <1>1. ASSUME ~complete,
               NEW items \in PagesOf(stored, page, Size),
               listed' = listed \union items,
               repeated' = repeated \union (listed \intersect items),
               complete' = (Cardinality(items) < Size),
               page' = Effective(page) + 1,
               UNCHANGED <<stored, before>>
        PROVE  WalkInv'
    <2>1. PICK skipped \in Heads(stored, Walked) : items \in Heads(stored \ skipped, Size)
      BY <1>1 DEF PagesOf, Walked
    <2>2. items \in SUBSET stored
      BY <2>1 DEF Heads
    <2>3. Walked \in Nat /\ Walked' = Walked + Size /\ page' \in Nat
      <3>1. Effective(page) \in Nat \ {0} /\ Effective(page') = Effective(page) + 1
        BY <1>1 DEF Effective
      <3> QED BY <1>1, <3>1 DEF Walked, Offset
    <2>4. ASSUME NEW t \in Int
          PROVE  \/ Tied(repeated', t) # {}
                 \/ Tied(before, t) \subseteq listed'
                 \/ /\ Cardinality(items) = Size
                    /\ Walked + Size <= Cardinality(Tied(listed', t))
                                            + Cardinality(Ahead(stored, t))
      <3>1. CASE Tied(repeated, t) # {} \/ Tied(listed \intersect items, t) # {}
        BY <1>1, <3>1 DEF Tied
      <3>2. CASE Tied(before, t) \subseteq listed
        BY <1>1, <3>2
      <3>3. CASE /\ Tied(listed \intersect items, t) = {}
                 /\ Walked <= Cardinality(Tied(listed, t)) + Cardinality(Ahead(stored, t))
        <4>1. \/ Tied(stored, t) \subseteq listed \union items
              \/ /\ Cardinality(items) = Size
                 /\ Walked + Size <= Cardinality(Tied(listed \union items, t))
                                         + Cardinality(Ahead(stored, t))
          BY <2>1, <2>3, <3>3, PageShowsTied
        <4>2. Tied(before, t) \subseteq Tied(stored, t)
          BY DEF Tied
        <4> QED BY <1>1, <4>1, <4>2
      <3> QED BY <3>1, <3>2, <3>3 DEF Covered
    <2>5. (\A t \in Int : Covered(t))'
      BY <1>1, <2>3, <2>4 DEF Covered
    <2>6. MissesShowAsRepeats'
      <3> SUFFICES ASSUME complete', NEW e \in before \ listed'
                   PROVE  \E f \in repeated' : f.ts = e.ts
        BY <1>1 DEF MissesShowAsRepeats
      <3>1. e.ts \in Int /\ e \in Tied(before, e.ts)
        BY DEF Tied
      <3>2. Cardinality(items) # Size
        <4>1. IsFiniteSet(items)
          BY <2>2, FS_Subset
        <4>2. Cardinality(items) \in Nat
          BY <4>1, FS_CardinalityType
        <4>3. Cardinality(items) < Size
          BY <1>1, Zenon
        <4> QED BY <4>2, <4>3
      <3>3. Tied(repeated', e.ts) # {}
        BY <2>4, <3>1, <3>2
      <3> QED BY <3>3 DEF Tied
    <2> QED BY <1>1, <2>2, <2>3, <2>5, <2>6
  <1>2. ASSUME NEW f \in Event, Record(f) PROVE WalkInv'
    <2> USE <1>2 DEF Record
    <2>1. Walked' = Walked /\ Walked \in Nat
      <3>1. Effective(page) \in Nat \ {0}
        BY DEF Effective
      <3> QED BY <3>1 DEF Walked, Offset
    <2>2. ASSUME NEW t \in Int PROVE Covered(t)'
      <3>1. /\ IsFiniteSet(stored) /\ IsFiniteSet(stored')
            /\ Tied(listed, t) \in SUBSET stored /\ Ahead(stored, t) \in SUBSET stored
            /\ Ahead(stored', t) \in SUBSET stored' /\ Ahead(stored, t) \in SUBSET Ahead(stored', t)
        BY FS_Subset DEF Tied, Ahead
      <3>2. IsFiniteSet(Ahead(stored', t))
        BY <3>1, FS_Subset
      <3>3. /\ Cardinality(Tied(listed, t)) \in Nat /\ Cardinality(Ahead(stored, t)) \in Nat
            /\ Cardinality(Ahead(stored', t)) \in Nat
            /\ Cardinality(Ahead(stored, t)) <= Cardinality(Ahead(stored', t))
        BY <3>1, <3>2, FS_Subset, FS_CardinalityType
      <3>4. Covered(t)
        OBVIOUS
      <3> QED BY <2>1, <3>3, <3>4 DEF Covered
    <2>3. MissesShowAsRepeats'
      BY DEF MissesShowAsRepeats
    <2> QED BY <2>2, <2>3
  <1>3. CASE UNCHANGED pageVars
    BY <1>3 DEF pageVars, Walked, Covered, MissesShowAsRepeats
  <1> QED BY <1>1, <1>2, <1>3 DEF PagesNext, ReadPage

\* A walk from the first page to one that is not full misses an event that was
\* there when it began only if it has shown another of its ts twice (queryEvents,
\* ORDER BY ts DESC LIMIT OFFSET), whatever order PostgreSQL finds for those at
\* each page, however many are recorded meanwhile and however old they are.
THEOREM WalkTellsMisses == PagesSpec => []MissesShowAsRepeats
  <1>1. PagesInit => WalkInv
    BY WalkInit
  <1>2. WalkInv /\ [PagesNext]_pageVars => WalkInv'
    BY WalkStep
  <1>3. WalkInv => MissesShowAsRepeats
    BY DEF WalkInv
  <1> QED BY <1>1, <1>2, <1>3, PTL DEF PagesSpec
=============================================================================
