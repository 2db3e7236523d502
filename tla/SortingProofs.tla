------------------------------ MODULE SortingProofs ------------------------------
(***************************************************************************)
(* What Sorted computes, for every sequence of keys and set of positions.  *)
(***************************************************************************)
EXTENDS Sorting, SequenceTheorems, FiniteSetTheorems, TLAPS

\* The order is strict and total.
LEMMA OrderIsTotal ==
  ASSUME NEW key \in Seq(Int), NEW i \in DOMAIN key, NEW j \in DOMAIN key
  PROVE  /\ key[i] \in Int /\ i \in Nat
         /\ ~GoesBefore(key, i, i)
         /\ GoesBefore(key, i, j) \/ GoesBefore(key, j, i) \/ i = j
         /\ ~(GoesBefore(key, i, j) /\ GoesBefore(key, j, i))
  <1>1. i \in Nat /\ j \in Nat /\ key[i] \in Int /\ key[j] \in Int
    OBVIOUS
  <1> QED
    BY <1>1 DEF GoesBefore

LEMMA OrderIsTransitive ==
  ASSUME NEW key \in Seq(Int), NEW i \in DOMAIN key, NEW j \in DOMAIN key,
         NEW k \in DOMAIN key, GoesBefore(key, i, j), GoesBefore(key, j, k)
  PROVE  GoesBefore(key, i, k)
  <1>1. /\ i \in Nat /\ j \in Nat /\ k \in Nat
        /\ key[i] \in Int /\ key[j] \in Int /\ key[k] \in Int
    BY OrderIsTotal
  <1> QED
    BY <1>1 DEF GoesBefore

\* How many others go before one tells where it is in the order.
LEMMA RankGrows ==
  ASSUME NEW key \in Seq(Int), NEW S \in SUBSET DOMAIN key, IsFiniteSet(S),
         NEW i \in S, NEW j \in S, GoesBefore(key, i, j)
  PROVE  Cardinality(Earlier(key, S, i)) < Cardinality(Earlier(key, S, j))
  <1>1. Earlier(key, S, i) \cup {i} \subseteq Earlier(key, S, j)
    BY OrderIsTransitive DEF Earlier
  <1>2. i \notin Earlier(key, S, i)
    BY OrderIsTotal DEF Earlier
  <1>3. IsFiniteSet(Earlier(key, S, i)) /\ IsFiniteSet(Earlier(key, S, j))
    BY FS_Subset DEF Earlier
  <1>4. Cardinality(Earlier(key, S, i) \cup {i}) = Cardinality(Earlier(key, S, i)) + 1
    BY <1>2, <1>3, FS_AddElement
  <1>5. Cardinality(Earlier(key, S, i) \cup {i}) <= Cardinality(Earlier(key, S, j))
    BY <1>1, <1>3, FS_Subset
  <1> QED
    BY <1>3, <1>4, <1>5, FS_CardinalityType

\* There is exactly one position with a given number of others before it.
LEMMA RankIsTaken ==
  ASSUME NEW key \in Seq(Int), NEW S \in SUBSET DOMAIN key, IsFiniteSet(S),
         NEW k \in 1..Cardinality(S)
  PROVE  \E i \in S : Cardinality(Earlier(key, S, i)) = k - 1
  <1> DEFINE n == Cardinality(S)
             rank == [i \in S |-> Cardinality(Earlier(key, S, i))]
  <1>1. n \in Nat
    BY FS_CardinalityType
  <1>2. IsFiniteSet(0..(n - 1)) /\ Cardinality(0..(n - 1)) = n
    <2>1. 0 \in Int /\ n - 1 \in Int /\ (IF 0 > n - 1 THEN 0 ELSE n - 1 - 0 + 1) = n
      BY <1>1
    <2> HIDE DEF n
    <2> QED
      BY <2>1, FS_Interval
  <1>3. ASSUME NEW i \in S
        PROVE  rank[i] \in 0..(n - 1)
    <2>1. i \notin Earlier(key, S, i) /\ Earlier(key, S, i) \subseteq S
      BY OrderIsTotal DEF Earlier
    <2>2. IsFiniteSet(Earlier(key, S, i)) /\ Cardinality(Earlier(key, S, i)) <= n
      BY <2>1, FS_Subset
    <2>3. Cardinality(Earlier(key, S, i)) # n
      BY <2>1, FS_Subset
    <2> QED
      BY <1>1, <2>2, <2>3, FS_CardinalityType
  <1>4. \A i, j \in S : rank[i] = rank[j] => i = j
    <2> SUFFICES ASSUME NEW i \in S, NEW j \in S, i # j
                 PROVE  rank[i] # rank[j]
      OBVIOUS
    <2>1. CASE GoesBefore(key, i, j)
      BY <1>1, <1>3, <2>1, RankGrows
    <2>2. CASE GoesBefore(key, j, i)
      BY <1>1, <1>3, <2>2, RankGrows
    <2> QED
      BY <2>1, <2>2, OrderIsTotal
  <1>5. rank \in Injection(S, 0..(n - 1))
    BY <1>3, <1>4 DEF Injection, IsInjective
  <1>6. rank \in Surjection(S, 0..(n - 1))
    BY <1>2, <1>5, FS_Injection
  <1>7. k - 1 \in 0..(n - 1)
    BY <1>1
  <1> QED
    BY <1>6, <1>7 DEF Surjection

\* Sorting keeps all the positions, each once, and puts them in order.
LEMMA SortedIsOrdered ==
  ASSUME NEW key \in Seq(Int), NEW S \in SUBSET DOMAIN key
  PROVE  /\ Sorted(key, S) \in Seq(S)
         /\ {Sorted(key, S)[k] : k \in DOMAIN Sorted(key, S)} = S
         /\ \A j, k \in DOMAIN Sorted(key, S) :
               j < k => GoesBefore(key, Sorted(key, S)[j], Sorted(key, S)[k])
  <1> DEFINE n == Cardinality(S)
             q == Sorted(key, S)
             Rank(i) == Cardinality(Earlier(key, S, i))
  <1>1. IsFiniteSet(S) /\ n \in Nat
    <2>1. IsFiniteSet(DOMAIN key)
      BY FS_Interval
    <2>2. IsFiniteSet(S)
      BY <2>1, FS_Subset
    <2> QED
      BY <2>2, FS_CardinalityType
  <1>2. DOMAIN q = 1..n /\ \A k \in 1..n : q[k] \in S /\ Rank(q[k]) = k - 1
    BY <1>1, RankIsTaken DEF Sorted
  <1>3. q \in Seq(S)
    BY <1>1, <1>2 DEF Sorted
  <1>4. ASSUME NEW i \in S, NEW j \in S, i # j
        PROVE  Rank(i) # Rank(j) /\ (Rank(i) < Rank(j) => GoesBefore(key, i, j))
    <2>1. Rank(i) \in Nat /\ Rank(j) \in Nat
      <3>1. Earlier(key, S, i) \in SUBSET S /\ Earlier(key, S, j) \in SUBSET S
        BY DEF Earlier
      <3> QED
        BY <1>1, <3>1, FS_Subset, FS_CardinalityType
    <2>2. CASE GoesBefore(key, i, j)
      BY <1>1, <2>1, <2>2, RankGrows
    <2>3. CASE GoesBefore(key, j, i)
      BY <1>1, <2>1, <2>3, RankGrows
    <2> QED
      BY <1>4, <2>2, <2>3, OrderIsTotal
  <1>5. ASSUME NEW j \in DOMAIN q, NEW k \in DOMAIN q, j < k
        PROVE  GoesBefore(key, q[j], q[k])
    <2>1. Rank(q[j]) = j - 1 /\ Rank(q[k]) = k - 1 /\ q[j] \in S /\ q[k] \in S
          /\ j \in Nat /\ k \in Nat
      BY <1>2, <1>5
    <2>2. Rank(q[j]) < Rank(q[k]) /\ q[j] # q[k]
      <3> HIDE DEF q, Rank
      <3> QED
        BY <1>5, <2>1
    <2> QED
      BY <1>4, <2>1, <2>2
  <1>6. ASSUME NEW i \in S
        PROVE  \E k \in DOMAIN q : q[k] = i
    <2>1. i \notin Earlier(key, S, i) /\ Earlier(key, S, i) \in SUBSET S
      BY OrderIsTotal DEF Earlier
    <2>2. Rank(i) \in Nat /\ Rank(i) <= n /\ Rank(i) # n
      BY <1>1, <2>1, FS_Subset, FS_CardinalityType
    <2>3. Rank(i) + 1 \in 1..n
      <3> HIDE DEF n, Rank
      <3> QED
        BY <1>1, <2>2
    <2>4. PICK k \in 1..n : k = Rank(i) + 1
      <3> HIDE DEF n, Rank
      <3> QED
        BY <2>3
    <2>5. q[k] \in S /\ Rank(q[k]) = k - 1
      BY <1>2
    <2>6. Rank(q[k]) = Rank(i)
      <3> HIDE DEF n, Rank, q
      <3> QED
        BY <2>2, <2>4, <2>5
    <2> QED
      BY <1>2, <1>4, <2>5, <2>6
  <1>7. {q[k] : k \in DOMAIN q} = S
    BY <1>2, <1>6
  <1> QED
    BY <1>3, <1>5, <1>7

(***************************************************************************)
(* Induction, for a set in place of a predicate.  The least counterexample *)
(* is the one of rank 0.                                                   *)
(***************************************************************************)
LEMMA IntervalInduction ==
  ASSUME NEW n \in Nat, NEW P, 0 \in P, \A k \in 0..(n - 1) : k \in P => k + 1 \in P
  PROVE  0..n \subseteq P
  <1> SUFFICES ASSUME 0..n \ P # {}
               PROVE  FALSE
    OBVIOUS
  <1> DEFINE key == [k \in 1..(n + 1) |-> k]
             T == {k \in 1..(n + 1) : k - 1 \notin P}
  <1>1. key \in Seq(Int) /\ T \in SUBSET DOMAIN key
    OBVIOUS
  <1>2. IsFiniteSet(T) /\ T # {}
    <2>1. PICK k \in 0..n : k \notin P
      OBVIOUS
    <2>2. k + 1 \in T
      BY <2>1
    <2>3. IsFiniteSet(1..(n + 1))
      BY FS_Interval
    <2> QED
      BY <2>2, <2>3, FS_Subset
  <1>3. 1 \in 1..Cardinality(T)
    <2>1. Cardinality(T) \in Nat /\ Cardinality(T) # 0
      BY <1>2, FS_EmptySet, FS_CardinalityType
    <2> HIDE DEF T
    <2> QED
      BY <2>1
  <1>4. PICK i \in T : Cardinality(Earlier(key, T, i)) = 1 - 1
    <2> HIDE DEF T, key
    <2> QED
      BY <1>1, <1>2, <1>3, RankIsTaken
  <1>5. Earlier(key, T, i) = {}
    <2>1. IsFiniteSet(Earlier(key, T, i))
      BY <1>2, FS_Subset DEF Earlier
    <2>2. Cardinality(Earlier(key, T, i)) = 0
      BY <1>4
    <2> HIDE DEF T, key
    <2> QED
      BY <2>1, <2>2, FS_EmptySet
  <1>6. \A j \in T : ~(j < i)
    BY <1>5 DEF Earlier, GoesBefore
  <1>7. i - 1 \notin P /\ i \in 1..(n + 1) /\ i # 1
    OBVIOUS
  <1>8. i - 1 \in 1..(n + 1) /\ i - 1 \notin T
    BY <1>6, <1>7
  <1>9. i - 2 \in 0..(n - 1) /\ i - 2 \in P /\ i - 2 + 1 = i - 1
    BY <1>7, <1>8
  <1> QED
    BY <1>7, <1>9

LEMMA SameAtEnd ==
  ASSUME NEW n \in Nat, NEW f, NEW g, f[0] = g[0],
         \A k \in 0..(n - 1) : f[k] = g[k] => f[k + 1] = g[k + 1]
  PROVE  f[n] = g[n]
  <1> DEFINE same == {k \in 0..n : f[k] = g[k]}
  <1>1. 0 \in same /\ \A k \in 0..(n - 1) : k \in same => k + 1 \in same
    OBVIOUS
  <1>2. 0..n \subseteq same
    <2> HIDE DEF same
    <2> QED
      BY <1>1, IntervalInduction
  <1> QED
    BY <1>2

\* A function is defined by its value at 0 and by how each value follows from the last.
IsRecursion(f, n, V, base, step) ==
    /\ f \in [0..n -> V]
    /\ f[0] = base
    /\ \A k \in 1..n : f[k] = step[<<f[k - 1], k>>]

LEMMA RecursionExists ==
  ASSUME NEW n \in Nat, NEW V, NEW base \in V, NEW step \in [V \X (1..n) -> V]
  PROVE  \E f : IsRecursion(f, n, V, base, step)
  <1> DEFINE Good(m) == \E f \in [0..m -> V] :
                 f[0] = base /\ \A k \in 1..m : f[k] = step[<<f[k - 1], k>>]
             P == {m \in 0..n : Good(m)}
  <1>1. 0 \in P
    <2> DEFINE f0 == [k \in 0..0 |-> base]
    <2>1. f0 \in [0..0 -> V] /\ f0[0] = base /\ 1..0 = {}
      OBVIOUS
    <2>2. Good(0)
      <3> HIDE DEF f0
      <3> QED
        BY <2>1
    <2> HIDE DEF Good
    <2> QED
      BY <2>2
  <1>2. ASSUME NEW m \in 0..(n - 1), m \in P
        PROVE  m + 1 \in P
    <2>1. PICK f \in [0..m -> V] :
             f[0] = base /\ \A k \in 1..m : f[k] = step[<<f[k - 1], k>>]
      BY <1>2
    <2> DEFINE g == [k \in 0..(m + 1) |-> IF k = m + 1 THEN step[<<f[m], m + 1>>] ELSE f[k]]
    <2>2. step[<<f[m], m + 1>>] \in V
      <3>1. f[m] \in V /\ m + 1 \in 1..n
        OBVIOUS
      <3> QED
        BY <3>1
    <2>3. g \in [0..(m + 1) -> V]
      BY <2>2
    <2>4. g[0] = base
      BY <2>1
    <2>5. ASSUME NEW k \in 1..(m + 1)
          PROVE  g[k] = step[<<g[k - 1], k>>]
      <3>1. g[k - 1] = f[k - 1]
        OBVIOUS
      <3>2. CASE k = m + 1
        <4>1. g[m + 1] = step[<<f[m], m + 1>>]
          BY m + 1 \in 0..(m + 1)
        <4>2. g[k - 1] = f[m] /\ g[k] = g[m + 1]
          BY <3>1, <3>2
        <4> HIDE DEF g
        <4> QED
          BY <3>2, <4>1, <4>2
      <3>3. CASE k # m + 1
        BY <2>1, <3>1, <3>3
      <3> QED
        BY <3>2, <3>3
    <2>6. m + 1 \in 0..n
      OBVIOUS
    <2> HIDE DEF g
    <2>7. Good(m + 1)
      BY <2>3, <2>4, <2>5
    <2> QED
      BY <2>6, <2>7
  <1>3. 0..n \subseteq P
    <2> HIDE DEF P
    <2> QED
      BY <1>1, <1>2, IntervalInduction
  <1>4. n \in P
    BY <1>3
  <1> QED
    BY <1>4 DEF IsRecursion

\* Every set of sequences that has the empty one, and with each all that are longer by one
\* member, has all sequences.
LEMMA AppendInduction ==
  ASSUME NEW T, NEW P, <<>> \in P,
         \A seq \in Seq(T), e \in T : seq \in P => Append(seq, e) \in P
  PROVE  Seq(T) \subseteq P
  <1> SUFFICES ASSUME NEW seq \in Seq(T)
               PROVE  seq \in P
    OBVIOUS
  <1> DEFINE n == Len(seq)
             good == {k \in 0..n : SubSeq(seq, 1, k) \in P}
  <1>1. n \in Nat /\ SubSeq(seq, 1, n) = seq
    BY LenProperties, SubSeqFull
  <1>2. 0 \in good
    <2>1. SubSeq(seq, 1, 0) = <<>>
      BY SubSeqEmpty
    <2>2. 0 \in 0..n
      BY <1>1
    <2>3. SubSeq(seq, 1, 0) \in P
      <3> HIDE DEF n
      <3> QED
        BY <2>1
    <2> QED
      BY <2>2, <2>3
  <1>3. ASSUME NEW k \in 0..(n - 1), k \in good
        PROVE  k + 1 \in good
    <2> DEFINE s == SubSeq(seq, 1, k)
               t == SubSeq(seq, 1, k + 1)
    <2>1. k + 1 \in 1..n /\ k \in Nat
      BY <1>1
    <2>2. seq[k + 1] \in T /\ \A i \in 1..n : seq[i] \in T
      BY <2>1, ElementOfSeq
    <2>3. s \in Seq(T)
      BY <2>1, <2>2, <1>1, SubSeqProperties
    <2>4. t = Append(s, seq[k + 1])
      <3>1. 1 \in 1..n /\ k + 1 \in 1..n /\ (k + 1) - 1 = k
        BY <1>1, <2>1
      <3>2. t = SubSeq(seq, 1, (k + 1) - 1) \o <<seq[k + 1]>>
        BY <3>1, SubSeqRecursiveSecond
      <3>3. Append(s, seq[k + 1]) = s \o <<seq[k + 1]>>
        BY <2>2, <2>3, AppendIsConcat
      <3> QED
        BY <3>1, <3>2, <3>3
    <2>5. t \in P
      <3>1. s \in P
        BY <1>3
      <3> HIDE DEF s, t
      <3> QED
        BY <2>2, <2>3, <2>4, <3>1
    <2> QED
      BY <1>1, <2>1, <2>5
  <1>4. 0..n \subseteq good
    <2> HIDE DEF n, good
    <2> QED
      BY <1>1, <1>2, <1>3, IntervalInduction
  <1>5. n \in good
    BY <1>1, <1>4
  <1> QED
    BY <1>1, <1>5
===============================================================================
