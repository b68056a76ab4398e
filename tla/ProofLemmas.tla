----------------------------- MODULE ProofLemmas -----------------------------
(***************************************************************************)
(* Lemmas the proofs of several components rest on: induction over data,    *)
(* stated about sets and functions (up to a number, of functions defined by *)
(* recursion up to a number, over the ranks of the elements of a finite     *)
(* set), and the order of fractions.                                        *)
(***************************************************************************)
EXTENDS Maps, FiniteSetTheorems, WellFoundedInduction, TLAPS

LEMMA LeastIn == ASSUME NEW S \in SUBSET Nat, S # {} PROVE \E m \in S : \A k \in S : m =< k
<1>1. PICK m \in S : \A k \in S : <<k, m>> \notin OpToRel(<, Nat)
  BY NatLessThanWellFounded, WFMin
<1>2. \A k \in S : k \in Nat /\ m \in Nat /\ ~(k < m)
  BY <1>1 DEF OpToRel
<1> QED
  BY <1>2

\* What holds of 0 and is passed on from each number to the next.
LEMMA Inductively ==
    ASSUME NEW n \in Nat, NEW P, 0 \in P, \A i \in 0..(n - 1) : i \in P => i + 1 \in P
    PROVE  \A i \in 0..n : i \in P
<1> DEFINE Bad == {i \in 0..n : i \notin P}
<1>1. SUFFICES ASSUME Bad # {} PROVE FALSE
  OBVIOUS
<1>2. Bad \in SUBSET Nat
  OBVIOUS
<1> HIDE DEF Bad
<1>3. PICK k \in Bad : \A i \in Bad : k =< i
  BY <1>1, <1>2, LeastIn
<1>4. k \in 0..n /\ k \notin P
  BY DEF Bad
<1>5. k # 0 /\ k - 1 \in 0..(n - 1) /\ k - 1 + 1 = k
  BY <1>4
<1>6. k - 1 \notin Bad
  BY <1>3, <1>5
<1> QED
  BY <1>4, <1>5, <1>6 DEF Bad

\* f holds the values of a loop that starts from a and makes the one at i with F
\* from the one at i - 1.
Iteration(f, n, A, a, F) ==
    /\ f \in [0..n -> A]
    /\ f[0] = a
    /\ \A i \in 1..n : f[i] = F[<<i, f[i - 1]>>]

LEMMA Iterates ==
    ASSUME NEW n \in Nat, NEW A, NEW a \in A, NEW F \in [(1..n) \X A -> A]
    PROVE  \E f : Iteration(f, n, A, a, F)
<1> DEFINE P == {m \in 0..n : \E f \in [0..m -> A] :
                     f[0] = a /\ \A i \in 1..m : f[i] = F[<<i, f[i - 1]>>]}
<1>1. 0 \in P
  <2> DEFINE f0 == [i \in 0..0 |-> a]
  <2>1. f0 \in [0..0 -> A] /\ f0[0] = a /\ 1..0 = {}
    OBVIOUS
  <2> HIDE DEF f0
  <2>2. \E f \in [0..0 -> A] : f[0] = a /\ \A i \in 1..0 : f[i] = F[<<i, f[i - 1]>>]
    BY <2>1
  <2> QED
    BY <2>2
<1>2. ASSUME NEW m \in 0..(n - 1), m \in P PROVE m + 1 \in P
  <2>1. PICK f \in [0..m -> A] : f[0] = a /\ \A i \in 1..m : f[i] = F[<<i, f[i - 1]>>]
    BY <1>2
  <2> DEFINE g == [i \in 0..(m + 1) |-> IF i = m + 1 THEN F[<<m + 1, f[m]>>] ELSE f[i]]
  <2>2. F[<<m + 1, f[m]>>] \in A
    OBVIOUS
  <2>3. g \in [0..(m + 1) -> A] /\ g[0] = a
    BY <2>1, <2>2
  <2>4. ASSUME NEW i \in 1..(m + 1) PROVE g[i] = F[<<i, g[i - 1]>>]
    <3>1. CASE i = m + 1
      <4>1. i - 1 = m /\ g[i] = F[<<m + 1, f[m]>>] /\ g[m] = f[m]
        BY <3>1
      <4> QED
        BY <3>1, <4>1
    <3>2. CASE i \in 1..m
      <4>1. g[i] = f[i] /\ g[i - 1] = f[i - 1]
        BY <3>2
      <4> QED
        BY <2>1, <3>2, <4>1
    <3> QED
      BY <3>1, <3>2
  <2> HIDE DEF g
  <2> QED
    BY <2>3, <2>4
<1> HIDE DEF P
<1>3. n \in P
  BY <1>1, <1>2, Inductively
<1> QED
  BY <1>3 DEF P, Iteration

\* A loop whose values may differ in kind from step to step: Good[i] has those there may
\* be after i steps.
Staged(f, n, Good, a, F) ==
    /\ f = [i \in 0..n |-> f[i]]
    /\ f[0] = a
    /\ \A i \in 1..n : f[i] = F[<<i, f[i - 1]>>]
    /\ \A i \in 0..n : f[i] \in Good[i]

\* The steps of such a loop lead from each stage to the next.
Leads(n, Good, F) == \A i \in 1..n : \A x \in Good[i - 1] : F[<<i, x>>] \in Good[i]

LEMMA Stages ==
    ASSUME NEW n \in Nat, NEW Good, NEW a \in Good[0], NEW F, Leads(n, Good, F)
    PROVE  \E f : Staged(f, n, Good, a, F)
<1>0. \A i \in 1..n : \A x \in Good[i - 1] : F[<<i, x>>] \in Good[i]
  BY DEF Leads
<1> DEFINE A == UNION {Good[i] : i \in 0..n}
           G == [p \in (1..n) \X A |-> IF p[2] \in Good[p[1] - 1] THEN F[p] ELSE a]
<1>1. a \in A
  OBVIOUS
<1>2. G \in [(1..n) \X A -> A]
  <2>1. ASSUME NEW p \in (1..n) \X A, p[2] \in Good[p[1] - 1] PROVE F[p] \in A
    <3>1. p = <<p[1], p[2]>> /\ p[1] \in 1..n /\ p[1] \in 0..n
      OBVIOUS
    <3>2. F[<<p[1], p[2]>>] \in Good[p[1]]
      BY <1>0, <2>1, <3>1
    <3> QED
      BY <3>1, <3>2
  <2> HIDE DEF A
  <2> QED
    BY <1>1, <2>1
<1> HIDE DEF A, G
<1>3. PICK f : Iteration(f, n, A, a, G)
  BY <1>1, <1>2, Iterates
<1>4. f \in [0..n -> A] /\ f[0] = a /\ \A i \in 1..n : f[i] = G[<<i, f[i - 1]>>]
  BY <1>3 DEF Iteration
<1> DEFINE P == {i \in 0..n : f[i] \in Good[i]}
<1>5. 0 \in P
  BY <1>4
<1>6. ASSUME NEW i \in 1..n, f[i - 1] \in Good[i - 1]
      PROVE  f[i] = F[<<i, f[i - 1]>>] /\ f[i] \in Good[i]
  <2>1. i - 1 \in 0..n
    OBVIOUS
  <2>2. f[i - 1] \in A
    BY <1>4, <2>1
  <2>3. G[<<i, f[i - 1]>>] = F[<<i, f[i - 1]>>]
    BY <1>6, <2>2 DEF G
  <2> QED
    BY <1>0, <1>4, <1>6, <2>3
<1>7. ASSUME NEW i \in 0..(n - 1), i \in P PROVE i + 1 \in P
  <2>1. i + 1 \in 1..n /\ i + 1 \in 0..n /\ i + 1 - 1 = i
    OBVIOUS
  <2>2. f[i] \in Good[i]
    BY <1>7
  <2> DEFINE j == i + 1
  <2>3. j \in 1..n /\ j - 1 = i
    BY <2>1
  <2> HIDE DEF j
  <2>4. f[j - 1] \in Good[j - 1]
    BY <2>2, <2>3
  <2>5. f[j] \in Good[j]
    BY <1>6, <2>3, <2>4
  <2> QED
    BY <2>1, <2>5 DEF j
<1> HIDE DEF P
<1>8. \A i \in 0..n : i \in P
  BY <1>5, <1>7, Inductively
<1>9. \A i \in 0..n : f[i] \in Good[i]
  BY <1>8 DEF P
<1>10. \A i \in 1..n : i - 1 \in 0..n
  OBVIOUS
<1>11. \A i \in 1..n : f[i] = F[<<i, f[i - 1]>>]
  BY <1>6, <1>9, <1>10
<1>12. f = [i \in 0..n |-> f[i]]
  BY <1>4
<1> QED
  BY <1>4, <1>9, <1>11, <1>12 DEF Staged

\* Loops that start alike and go on alike stay alike.
GoAlike(f, g, n) == f[0] = g[0] /\ \A i \in 1..n : f[i - 1] = g[i - 1] => f[i] = g[i]

LEMMA SameIteration ==
    ASSUME NEW n \in Nat, NEW f, NEW g, GoAlike(f, g, n)
    PROVE  \A i \in 0..n : f[i] = g[i]
<1> DEFINE P == {i \in 0..n : f[i] = g[i]}
<1>1. 0 \in P
  BY DEF GoAlike
<1>2. ASSUME NEW i \in 0..(n - 1), i \in P PROVE i + 1 \in P
  <2>1. i + 1 \in 1..n /\ i + 1 - 1 = i
    OBVIOUS
  <2> QED
    BY <1>2, <2>1 DEF GoAlike
<1> HIDE DEF P
<1>3. \A i \in 0..n : i \in P
  BY <1>1, <1>2, Inductively
<1> QED
  BY <1>3 DEF P

LEMMA SameEnd == ASSUME NEW n \in Nat, NEW f, NEW g, GoAlike(f, g, n) PROVE f[n] = g[n]
<1>1. \A i \in 0..n : f[i] = g[i]
  BY SameIteration
<1> QED
  BY <1>1

\* The same downwards, from high to low.
StagedDown(f, low, high, Good, a, F) ==
    /\ f = [i \in low..high |-> f[i]]
    /\ f[high] = a
    /\ \A i \in low..(high - 1) : f[i] = F[<<i, f[i + 1]>>]
    /\ \A i \in low..high : f[i] \in Good[i]

LeadsDown(low, high, Good, F) ==
    \A i \in low..(high - 1) : \A x \in Good[i + 1] : F[<<i, x>>] \in Good[i]

GoAlikeDown(f, g, low, high) ==
    f[high] = g[high] /\ \A i \in low..(high - 1) : f[i + 1] = g[i + 1] => f[i] = g[i]

LEMMA StagesDown ==
    ASSUME NEW low \in Int, NEW high \in Int, low =< high, NEW Good, NEW a \in Good[high],
           NEW F, LeadsDown(low, high, Good, F)
    PROVE  \E f : StagedDown(f, low, high, Good, a, F)
<1> DEFINE n == high - low
           A == UNION {Good[i] : i \in low..high}
           Up == [i \in 0..n |-> Good[high - i]]
           G == [p \in (1..n) \X A |-> F[<<high - p[1], p[2]>>]]
<1>1. n \in Nat /\ 0 \in 0..n /\ high - 0 = high
  OBVIOUS
<1>2. a \in Up[0]
  BY <1>1
<1>3. ASSUME NEW i \in 1..n, NEW x \in Up[i - 1] PROVE G[<<i, x>>] \in Up[i]
  <2> DEFINE j == high - i
  <2>1. j \in low..(high - 1) /\ j \in low..high /\ j + 1 \in low..high
        /\ high - (i - 1) = j + 1 /\ i - 1 \in 0..n /\ i \in 0..n
    OBVIOUS
  <2>2. x \in Good[j + 1] /\ x \in A
    BY <2>1
  <2>3. G[<<i, x>>] = F[<<j, x>>] /\ Up[i] = Good[j]
    BY <2>1, <2>2
  <2> HIDE DEF j, G, Up
  <2> QED
    BY <2>1, <2>2, <2>3 DEF LeadsDown
<1> HIDE DEF n, Up, G
<1>4. PICK g : Staged(g, n, Up, a, G)
  <2>1. Leads(n, Up, G)
    BY <1>3 DEF Leads
  <2> QED
    BY <1>1, <1>2, <2>1, Stages
<1> DEFINE f == [i \in low..high |-> g[high - i]]
<1>5. f[high] = a
  BY <1>1, <1>4 DEF Staged
<1>6. ASSUME NEW i \in low..(high - 1) PROVE f[i] = F[<<i, f[i + 1]>>]
  <2> DEFINE j == high - i
  <2>1. j \in 1..n /\ j - 1 \in 0..n /\ high - (i + 1) = j - 1 /\ i + 1 \in low..high
        /\ high - j = i /\ i \in low..high /\ high - (j - 1) = i + 1
    BY DEF n
  <2>2. f[i] = g[j] /\ f[i + 1] = g[j - 1]
    BY <2>1
  <2> HIDE DEF j, f
  <2>3. g[j] = G[<<j, g[j - 1]>>] /\ g[j - 1] \in Up[j - 1]
    BY <1>4, <2>1 DEF Staged
  <2>4. Up[j - 1] = Good[i + 1]
    BY <2>1 DEF Up
  <2>5. g[j - 1] \in A
    BY <2>1, <2>3, <2>4
  <2> HIDE DEF A
  <2>6. G[<<j, g[j - 1]>>] = F[<<i, g[j - 1]>>]
    BY <2>1, <2>5 DEF G
  <2> QED
    BY <2>2, <2>3, <2>6
<1>7. ASSUME NEW i \in low..high PROVE f[i] \in Good[i]
  <2> DEFINE j == high - i
  <2>1. j \in 0..n /\ high - j = i
    BY DEF n
  <2>2. f[i] = g[j]
    OBVIOUS
  <2> HIDE DEF j, f
  <2>3. g[j] \in Up[j] /\ Up[j] = Good[i]
    BY <1>4, <2>1 DEF Staged, Up
  <2> QED
    BY <2>2, <2>3
<1>8. f = [i \in low..high |-> f[i]]
  OBVIOUS
<1> HIDE DEF f
<1>9. StagedDown(f, low, high, Good, a, F)
  BY <1>5, <1>6, <1>7, <1>8 DEF StagedDown
<1> QED
  BY <1>9

LEMMA SameEndDown ==
    ASSUME NEW low \in Int, NEW high \in Int, low =< high, NEW f, NEW g,
           GoAlikeDown(f, g, low, high)
    PROVE  f[low] = g[low]
<1> DEFINE n == high - low
           P == {i \in 0..n : f[high - i] = g[high - i]}
<1>1. n \in Nat /\ n \in 0..n /\ high - n = low
  OBVIOUS
<1>2. 0 \in P
  BY DEF GoAlikeDown
<1>3. ASSUME NEW i \in 0..(n - 1), i \in P PROVE i + 1 \in P
  <2> DEFINE j == high - i - 1
  <2>1. j \in low..(high - 1) /\ j + 1 = high - i /\ high - (i + 1) = j /\ i + 1 \in 0..n
    OBVIOUS
  <2>2. f[j + 1] = g[j + 1]
    BY <1>3, <2>1
  <2> HIDE DEF j
  <2>3. f[j] = g[j]
    BY <2>1, <2>2 DEF GoAlikeDown
  <2> QED
    BY <2>1, <2>3
<1> HIDE DEF P, n
<1>4. \A i \in 0..n : i \in P
  BY <1>1, <1>2, <1>3, Inductively
<1>5. n \in P
  BY <1>1, <1>4
<1> QED
  BY <1>1, <1>5 DEF P

-----------------------------------------------------------------------------
(* Recursion over the elements of a finite set                              *)

\* p picks an element of every set of elements of S that has one.
Picks(p, S) == \A M \in SUBSET S : M # {} => p[M] \in M

\* f is defined by recursion over the elements of a set: a for the empty one.
Folds(f, S, p, A, a, F) ==
    /\ f \in [SUBSET S -> A]
    /\ f[{}] = a
    /\ \A M \in SUBSET S : M # {} => f[M] = F[<<p[M], f[M \ {p[M]}]>>]

LEMMA WithoutPicked ==
    ASSUME NEW S, IsFiniteSet(S), NEW p, Picks(p, S), NEW M \in SUBSET S
    PROVE  /\ IsFiniteSet(M) /\ Cardinality(M) \in 0..Cardinality(S)
           /\ Cardinality(M) = 0 => M = {}
           /\ M # {} => /\ p[M] \in M /\ M \ {p[M]} \in SUBSET S
                        /\ Cardinality(M \ {p[M]}) = Cardinality(M) - 1
<1>1. IsFiniteSet(M) /\ Cardinality(M) =< Cardinality(S)
  BY FS_Subset
<1>2. Cardinality(S) \in Nat /\ Cardinality(M) \in Nat
  BY <1>1, FS_CardinalityType
<1>3. Cardinality(M) = 0 => M = {}
  BY <1>1, FS_EmptySet
<1>4. ASSUME M # {}
      PROVE  /\ p[M] \in M /\ M \ {p[M]} \in SUBSET S
             /\ Cardinality(M \ {p[M]}) = Cardinality(M) - 1
  <2>1. p[M] \in M
    BY <1>4 DEF Picks
  <2> QED
    BY <1>1, <2>1, FS_RemoveElement
<1> QED
  BY <1>1, <1>2, <1>3, <1>4

\* What holds of the empty set, and of a set when it holds of it without one of its
\* elements, p[M], holds of every subset of S.
LEMMA SubsetInduction ==
    ASSUME NEW S, IsFiniteSet(S), NEW p, Picks(p, S),
           NEW P, {} \in P, \A M \in SUBSET S : M # {} /\ M \ {p[M]} \in P => M \in P
    PROVE  \A M \in SUBSET S : M \in P
<1> DEFINE n == Cardinality(S)
           Q == {i \in 0..n : \A M \in SUBSET S : Cardinality(M) = i => M \in P}
<1>1. n \in Nat
  BY FS_CardinalityType
<1>2. 0 \in Q
  <2>1. \A M \in SUBSET S : Cardinality(M) = 0 => M = {}
    BY WithoutPicked
  <2>2. \A M \in SUBSET S : Cardinality(M) = 0 => M \in P
    BY <2>1
  <2>3. 0 \in 0..n
    <3> HIDE DEF n
    <3> QED
      BY <1>1
  <2> QED
    BY <2>2, <2>3
<1>3. ASSUME NEW i \in 0..(n - 1), i \in Q PROVE i + 1 \in Q
  <2>1. ASSUME NEW M \in SUBSET S, Cardinality(M) = i + 1 PROVE M \in P
    <3>1. i \in Nat /\ Cardinality(M) # 0 /\ Cardinality(M) - 1 = i
      <4> HIDE DEF n
      <4> QED
        BY <1>1, <2>1
    <3>2. M # {}
      BY <3>1, FS_EmptySet
    <3>3. M \ {p[M]} \in SUBSET S /\ Cardinality(M \ {p[M]}) = i
      BY <3>2, <3>1, WithoutPicked
    <3>4. M \ {p[M]} \in P
      BY <1>3, <3>3
    <3> QED
      BY <3>2, <3>4
  <2>2. i + 1 \in 0..n
    <3> HIDE DEF n
    <3> QED
      BY <1>1
  <2> QED
    BY <2>1, <2>2
<1> HIDE DEF Q, n
<1>4. \A i \in 0..n : i \in Q
  BY <1>1, <1>2, <1>3, Inductively
<1>5. \A M \in SUBSET S : Cardinality(M) \in 0..n
  BY WithoutPicked DEF n
<1> QED
  BY <1>4, <1>5 DEF Q

\* A function of the subsets of S defined by recursion over their elements.
LEMMA SubsetRecursion ==
    ASSUME NEW S, IsFiniteSet(S), NEW p, Picks(p, S),
           NEW A, NEW a \in A, NEW F \in [S \X A -> A]
    PROVE  \E f : Folds(f, S, p, A, a, F)
<1> DEFINE n == Cardinality(S)
           Upward(i) == {M \in SUBSET S : Cardinality(M) =< i}
           Rec(f, i) == /\ f \in [Upward(i) -> A]
                        /\ f[{}] = a
                        /\ \A M \in Upward(i) : M # {} => f[M] = F[<<p[M], f[M \ {p[M]}]>>]
           Q == {i \in 0..n : \E f : Rec(f, i)}
<1>1. n \in Nat
  BY FS_CardinalityType
<1>2. \A M \in SUBSET S : /\ Cardinality(M) \in 0..n
                          /\ Cardinality(M) = 0 <=> M = {}
  <2>1. Cardinality({}) = 0
    BY FS_EmptySet
  <2> QED
    BY <2>1, WithoutPicked
<1>3. \A M \in SUBSET S : M # {} => /\ p[M] \in S /\ M \ {p[M]} \in SUBSET S
                                    /\ Cardinality(M \ {p[M]}) = Cardinality(M) - 1
  <2>1. ASSUME NEW M \in SUBSET S, M # {}
        PROVE  /\ p[M] \in S /\ M \ {p[M]} \in SUBSET S
               /\ Cardinality(M \ {p[M]}) = Cardinality(M) - 1
    <3>1. p[M] \in M /\ Cardinality(M \ {p[M]}) = Cardinality(M) - 1
      BY <2>1, WithoutPicked
    <3> QED
      BY <3>1
  <2> QED
    BY <2>1
<1> HIDE DEF n
<1>4. 0 \in Q
  <2> DEFINE f0 == [M \in Upward(0) |-> a]
  <2>1. Upward(0) = {{}}
    BY <1>1, <1>2
  <2>2. Rec(f0, 0)
    BY <2>1
  <2>3. 0 \in 0..n
    BY <1>1
  <2> HIDE DEF Rec, f0
  <2> QED
    BY <2>2, <2>3
<1>5. ASSUME NEW i \in 0..(n - 1), i \in Q PROVE i + 1 \in Q
  <2>1. PICK f : Rec(f, i)
    BY <1>5
  <2>2. i \in Nat /\ i + 1 \in 0..n
    BY <1>1
  <2> DEFINE g == [M \in Upward(i + 1) |->
                      IF M = {} THEN a ELSE F[<<p[M], f[M \ {p[M]}]>>]]
  <2>3. /\ {} \in Upward(i) /\ Upward(i) \in SUBSET Upward(i + 1)
        /\ \A M \in Upward(i + 1) : M # {} => p[M] \in S /\ M \ {p[M]} \in Upward(i)
    BY <1>1, <1>2, <1>3, <2>2
  <2> HIDE DEF Upward
  <2>4. /\ f \in [Upward(i) -> A] /\ f[{}] = a
        /\ \A M \in Upward(i) : M # {} => f[M] = F[<<p[M], f[M \ {p[M]}]>>]
    BY <2>1
  <2>5. g \in [Upward(i + 1) -> A]
    <3>1. ASSUME NEW M \in Upward(i + 1), M # {} PROVE F[<<p[M], f[M \ {p[M]}]>>] \in A
      <4>1. p[M] \in S /\ f[M \ {p[M]}] \in A
        BY <2>3, <2>4, <3>1
      <4> QED
        BY <4>1
    <3> QED
      BY <3>1
  <2>6. \A M \in Upward(i) : g[M] = f[M]
    BY <2>3, <2>4
  <2>7. g[{}] = a
    BY <2>3
  <2>8. \A M \in Upward(i + 1) : M # {} => g[M] = F[<<p[M], g[M \ {p[M]}]>>]
    BY <2>3, <2>6
  <2>9. Rec(g, i + 1)
    BY <2>5, <2>7, <2>8
  <2> HIDE DEF Rec, g
  <2> QED
    BY <2>2, <2>9
<1> HIDE DEF Q
<1>6. \A i \in 0..n : i \in Q
  BY <1>1, <1>4, <1>5, Inductively
<1>7. PICK f : Rec(f, n)
  <2>1. n \in 0..n
    BY <1>1
  <2>2. n \in Q
    BY <1>6, <2>1
  <2> HIDE DEF Rec
  <2> QED
    BY <2>2 DEF Q
<1>8. Upward(n) = SUBSET S
  BY <1>1, <1>2
<1> QED
  BY <1>7, <1>8 DEF Folds

-----------------------------------------------------------------------------
(* Ranks                                                                    *)

\* The elements of S that come before x in the order R, a set of pairs.
Earlier(S, R, x) == {y \in S : <<y, x>> \in R}

StrictOrder(S, R) ==
    /\ \A x \in S : <<x, x>> \notin R
    /\ \A x, y, z \in S : <<x, y>> \in R /\ <<y, z>> \in R => <<x, z>> \in R
    /\ \A x, y \in S : x # y => <<x, y>> \in R \/ <<y, x>> \in R

\* In a strict total order the number of earlier elements grows with the order.
LEMMA RankGrows ==
    ASSUME NEW S, IsFiniteSet(S), NEW R, StrictOrder(S, R), NEW x \in S, NEW y \in S
    PROVE  /\ Cardinality(Earlier(S, R, x)) \in 0..(Cardinality(S) - 1)
           /\ <<x, y>> \in R <=> Cardinality(Earlier(S, R, x)) < Cardinality(Earlier(S, R, y))
<1>1. ASSUME NEW u \in S
      PROVE  /\ Earlier(S, R, u) \in SUBSET S /\ u \notin Earlier(S, R, u)
             /\ IsFiniteSet(Earlier(S, R, u)) /\ Cardinality(Earlier(S, R, u)) \in Nat
             /\ Cardinality(Earlier(S, R, u)) < Cardinality(S)
  <2>1. Earlier(S, R, u) \in SUBSET S /\ u \notin Earlier(S, R, u)
    BY DEF Earlier, StrictOrder
  <2>2. IsFiniteSet(Earlier(S, R, u)) /\ Cardinality(Earlier(S, R, u)) =< Cardinality(S)
        /\ Cardinality(Earlier(S, R, u)) # Cardinality(S)
    BY <2>1, FS_Subset
  <2> QED
    BY <2>1, <2>2, FS_CardinalityType
<1>2. ASSUME NEW u \in S, NEW w \in S, <<u, w>> \in R
      PROVE  Cardinality(Earlier(S, R, u)) < Cardinality(Earlier(S, R, w))
  <2>1. Earlier(S, R, u) \in SUBSET Earlier(S, R, w) /\ u \in Earlier(S, R, w)
        /\ u \notin Earlier(S, R, u)
    BY <1>2 DEF Earlier, StrictOrder
  <2>2. /\ Cardinality(Earlier(S, R, u)) =< Cardinality(Earlier(S, R, w))
        /\ Cardinality(Earlier(S, R, u)) # Cardinality(Earlier(S, R, w))
    BY <1>1, <2>1, FS_Subset
  <2> QED
    BY <1>1, <2>2
<1>3. Cardinality(S) \in Nat
  BY FS_CardinalityType
<1>4. Cardinality(Earlier(S, R, x)) < Cardinality(Earlier(S, R, y)) => <<x, y>> \in R
  <2>1. x # y /\ <<x, y>> \notin R => <<y, x>> \in R
    BY DEF StrictOrder
  <2>2. <<y, x>> \in R => Cardinality(Earlier(S, R, y)) < Cardinality(Earlier(S, R, x))
    BY <1>2
  <2> QED
    BY <1>1, <2>1, <2>2
<1> QED
  BY <1>1, <1>2, <1>3, <1>4

\* So every rank is taken, by one element.
LEMMA RankTaken ==
    ASSUME NEW S, IsFiniteSet(S), NEW R, StrictOrder(S, R),
           NEW i \in 0..(Cardinality(S) - 1)
    PROVE  \E x \in S : Cardinality(Earlier(S, R, x)) = i
<1> DEFINE n == Cardinality(S)
           rank == [x \in S |-> Cardinality(Earlier(S, R, x))]
<1>1. n \in Nat
  BY FS_CardinalityType
<1>2. IsFiniteSet(0..(n - 1)) /\ Cardinality(0..(n - 1)) = n
  BY <1>1, FS_Interval
<1>3. rank \in [S -> 0..(n - 1)]
  BY RankGrows
<1>4. \A x, y \in S : x # y => rank[x] # rank[y]
  <2> SUFFICES ASSUME NEW x \in S, NEW y \in S, x # y PROVE rank[x] # rank[y]
    OBVIOUS
  <2>1. <<x, y>> \in R \/ <<y, x>> \in R
    BY DEF StrictOrder
  <2>2. rank[x] < rank[y] \/ rank[y] < rank[x]
    BY <2>1, RankGrows
  <2> QED
    BY <1>3, <2>2
<1> HIDE DEF rank, n
<1>5. rank \in Injection(S, 0..(n - 1))
  BY <1>3, <1>4 DEF Injection, IsInjective
<1>6. rank \in Surjection(S, 0..(n - 1))
  BY <1>2, <1>5, FS_Injection DEF n
<1>7. \E x \in S : rank[x] = i
  BY <1>6 DEF Surjection, n
<1> QED
  BY <1>7 DEF rank

\* No more than k elements have a rank below k.
LEMMA RanksBelow ==
    ASSUME NEW S, IsFiniteSet(S), NEW R, StrictOrder(S, R), NEW k \in Nat
    PROVE  Cardinality({x \in S : Cardinality(Earlier(S, R, x)) < k}) =< k
<1> DEFINE T == {x \in S : Cardinality(Earlier(S, R, x)) < k}
           rank == [x \in T |-> Cardinality(Earlier(S, R, x))]
<1>1. IsFiniteSet(0..(k - 1)) /\ Cardinality(0..(k - 1)) = k
  BY FS_Interval
<1>2. \A x \in T : x \in S /\ rank[x] \in 0..(k - 1)
  <2>1. Cardinality(S) \in Nat
    BY FS_CardinalityType
  <2>2. \A x \in S : Cardinality(Earlier(S, R, x)) \in 0..(Cardinality(S) - 1)
    BY RankGrows
  <2> QED
    BY <2>1, <2>2
<1>3. \A x, y \in T : rank[x] = rank[y] => x = y
  <2>1. ASSUME NEW x \in T, NEW y \in T, rank[x] = rank[y] PROVE x = y
    <3>1. <<x, y>> \in R <=> rank[x] < rank[y]
      BY RankGrows
    <3>2. <<y, x>> \in R <=> rank[y] < rank[x]
      BY RankGrows
    <3>3. rank[x] \in Int /\ rank[y] \in Int
      BY <1>2
    <3>4. x = y \/ <<x, y>> \in R \/ <<y, x>> \in R
      BY DEF StrictOrder
    <3> HIDE DEF rank
    <3> QED
      BY <2>1, <3>1, <3>2, <3>3, <3>4
  <2> QED
    BY <2>1
<1>4. rank \in [T -> 0..(k - 1)]
  BY <1>2
<1> HIDE DEF T, rank
<1>5. rank \in Injection(T, 0..(k - 1))
  BY <1>3, <1>4 DEF Injection, IsInjective
<1>6. Cardinality(T) =< k
  BY <1>1, <1>5, FS_Injection
<1> QED
  BY <1>6 DEF T

\* A finite set has a first element.
HasFirst(S, R) == \E x \in S : \A y \in S \ {x} : <<x, y>> \in R

LEMMA FirstOf ==
    ASSUME NEW S, IsFiniteSet(S), S # {}, NEW R, StrictOrder(S, R)
    PROVE  HasFirst(S, R)
<1>1. Cardinality(S) \in Nat /\ Cardinality(S) # 0
  BY FS_CardinalityType, FS_EmptySet
<1>2. PICK x \in S : Cardinality(Earlier(S, R, x)) = 0
  BY <1>1, RankTaken
<1>3. Earlier(S, R, x) = {}
  <2>1. Earlier(S, R, x) \in SUBSET S
    BY DEF Earlier
  <2> QED
    BY <1>2, <2>1, FS_Subset, FS_EmptySet
<1> QED
  BY <1>3 DEF Earlier, StrictOrder, HasFirst

-----------------------------------------------------------------------------
(* Sorting                                                                  *)

\* o lists the elements of S in the order R, each once.
Sorts(o, S, R) ==
    /\ o \in [1..Cardinality(S) -> S]
    /\ \A x \in S : \E i \in 1..Cardinality(S) : o[i] = x
    /\ \A i, j \in 1..Cardinality(S) : <<o[i], o[j]>> \in R <=> i < j

LEMMA SortedIs ==
    ASSUME NEW S, IsFiniteSet(S), NEW R, StrictOrder(S, R)
    PROVE  Sorts(Sorted(S, R), S, R)
<1> DEFINE n == Cardinality(S)
           o == Sorted(S, R)
           rank(x) == Cardinality(Earlier(S, R, x))
<1>1. n \in Nat
  BY FS_CardinalityType
<1>2. o = [i \in 1..n |-> CHOOSE x \in S : rank(x) = i - 1]
  BY DEF Sorted, Earlier
<1>3. \A x \in S : rank(x) \in 0..(n - 1)
  BY RankGrows
<1>4. \A x, y \in S : <<x, y>> \in R <=> rank(x) < rank(y)
  BY RankGrows
<1>5. \A i \in 0..(n - 1) : \E x \in S : rank(x) = i
  BY RankTaken
<1> HIDE DEF rank, n, o
<1>6. ASSUME NEW i \in 1..n PROVE o[i] \in S /\ rank(o[i]) = i - 1
  <2>1. i - 1 \in 0..(n - 1)
    BY <1>1
  <2>2. \E x \in S : rank(x) = i - 1
    BY <1>5, <2>1
  <2> QED
    BY <1>2, <2>2
<1>7. o \in [1..n -> S]
  BY <1>2, <1>6
<1>8. ASSUME NEW x \in S PROVE \E i \in 1..n : o[i] = x
  <2> DEFINE i == rank(x) + 1
  <2>1. i \in 1..n /\ i - 1 = rank(x) /\ rank(x) \in Int
    BY <1>1, <1>3
  <2> HIDE DEF i
  <2>2. o[i] \in S /\ rank(o[i]) = rank(x)
    BY <1>6, <2>1
  <2>3. <<x, o[i]>> \notin R /\ <<o[i], x>> \notin R
    BY <1>4, <2>1, <2>2
  <2>4. x = o[i]
    BY <2>2, <2>3 DEF StrictOrder
  <2> QED
    BY <2>1, <2>4
<1>9. ASSUME NEW i \in 1..n, NEW j \in 1..n PROVE <<o[i], o[j]>> \in R <=> i < j
  <2>1. rank(o[i]) = i - 1 /\ rank(o[j]) = j - 1 /\ o[i] \in S /\ o[j] \in S
    BY <1>6
  <2>2. <<o[i], o[j]>> \in R <=> i - 1 < j - 1
    BY <1>4, <2>1
  <2> QED
    BY <1>1, <2>2
<1> QED
  BY <1>7, <1>8, <1>9 DEF Sorts, n, o

\* A sorted sequence holds nothing twice, and there is only one.
LEMMA SortedOnce ==
    ASSUME NEW S, IsFiniteSet(S), NEW R, StrictOrder(S, R), NEW o, Sorts(o, S, R)
    PROVE  /\ \A i, j \in 1..Cardinality(S) : o[i] = o[j] => i = j
           /\ o \in Seq(S) /\ Len(o) = Cardinality(S) /\ Elements(o) = S
<1> DEFINE n == Cardinality(S)
<1>1. n \in Nat
  BY FS_CardinalityType
<1>2. o \in [1..n -> S] /\ \A x \in S : \E i \in 1..n : o[i] = x
  BY DEF Sorts
<1>3. \A i, j \in 1..n : <<o[i], o[j]>> \in R <=> i < j
  BY DEF Sorts
<1> HIDE DEF n
<1>4. \A i, j \in 1..n : o[i] = o[j] => i = j
  <2> SUFFICES ASSUME NEW i \in 1..n, NEW j \in 1..n, o[i] = o[j] PROVE i = j
    OBVIOUS
  <2>1. <<o[i], o[j]>> \notin R /\ <<o[j], o[i]>> \notin R
    BY <1>2 DEF StrictOrder
  <2>2. ~(i < j) /\ ~(j < i)
    BY <1>3, <2>1
  <2> QED
    BY <1>1, <2>2
<1>5. o \in Seq(S) /\ Len(o) = n
  BY <1>1, <1>2
<1>6. Elements(o) = S
  BY <1>2, <1>5 DEF Elements
<1> QED
  BY <1>4, <1>5, <1>6 DEF n

LEMMA SortedUnique ==
    ASSUME NEW S, IsFiniteSet(S), NEW R, StrictOrder(S, R),
           NEW o, Sorts(o, S, R), NEW w, Sorts(w, S, R)
    PROVE  o = w
<1> DEFINE n == Cardinality(S)
           Bad == {i \in 1..n : o[i] # w[i]}
<1>1. n \in Nat
  BY FS_CardinalityType
<1>2. /\ o \in [1..n -> S] /\ \A x \in S : \E i \in 1..n : o[i] = x
      /\ \A i, j \in 1..n : <<o[i], o[j]>> \in R <=> i < j
      /\ \A i, j \in 1..n : o[i] = o[j] => i = j
  <2>1. \A i, j \in 1..n : o[i] = o[j] => i = j
    BY SortedOnce
  <2> QED
    BY <2>1 DEF Sorts
<1>3. /\ w \in [1..n -> S] /\ \A x \in S : \E i \in 1..n : w[i] = x
      /\ \A i, j \in 1..n : <<w[i], w[j]>> \in R <=> i < j
      /\ \A i, j \in 1..n : w[i] = w[j] => i = j
  <2>1. \A i, j \in 1..n : w[i] = w[j] => i = j
    BY SortedOnce
  <2> QED
    BY <2>1 DEF Sorts
<1> HIDE DEF n
<1>4. Bad = {}
  <2> SUFFICES ASSUME Bad # {} PROVE FALSE
    OBVIOUS
  <2>1. Bad \in SUBSET Nat
    BY <1>1
  <2> HIDE DEF Bad
  <2>2. PICK i \in Bad : \A k \in Bad : i =< k
    BY <2>1, LeastIn
  <2>3. i \in 1..n /\ o[i] # w[i] /\ o[i] \in S /\ w[i] \in S
    BY <1>2, <1>3 DEF Bad
  <2>4. \A k \in 1..n : k < i => o[k] = w[k]
    BY <1>1, <2>2, <2>3 DEF Bad
  <2>5. PICK j \in 1..n : w[j] = o[i]
    BY <1>3, <2>3
  <2>6. PICK k \in 1..n : o[k] = w[i]
    BY <1>2, <2>3
  <2>7. i < j
    <3>1. i # j
      BY <2>3, <2>5
    <3>2. ~(j < i)
      <4>1. j < i => o[j] = o[i]
        BY <2>4, <2>5
      <4> QED
        BY <1>1, <1>2, <2>3, <4>1
    <3> QED
      BY <1>1, <2>3, <3>1, <3>2
  <2>8. i < k
    <3>1. i # k
      BY <2>3, <2>6
    <3>2. ~(k < i)
      <4>1. k < i => w[k] = w[i]
        BY <2>4, <2>6
      <4> QED
        BY <1>1, <1>3, <2>3, <4>1
    <3> QED
      BY <1>1, <2>3, <3>1, <3>2
  <2>9. <<w[i], o[i]>> \in R
    BY <1>3, <2>3, <2>5, <2>7
  <2>10. <<o[i], w[i]>> \in R
    BY <1>2, <2>3, <2>6, <2>8
  <2> QED
    BY <2>3, <2>9, <2>10 DEF StrictOrder
<1>5. \A i \in 1..n : o[i] = w[i]
  BY <1>4 DEF Bad
<1>6. o = [i \in 1..n |-> o[i]] /\ w = [i \in 1..n |-> w[i]]
  BY <1>2, <1>3
<1> QED
  BY <1>5, <1>6, Zenon

-----------------------------------------------------------------------------
(* Lists                                                                    *)

NoRepeats(o) == \A i, j \in DOMAIN o : o[i] = o[j] => i = j

LEMMA ListCounts ==
    ASSUME NEW S, NEW o \in Seq(S), NoRepeats(o)
    PROVE  Cardinality(Elements(o)) = Len(o) /\ IsFiniteSet(Elements(o))
<1>1. Len(o) \in Nat /\ DOMAIN o = 1..Len(o)
  OBVIOUS
<1>2. o \in [1..Len(o) -> Elements(o)]
  BY DEF Elements
<1>3. o \in Injection(1..Len(o), Elements(o)) /\ o \in Surjection(1..Len(o), Elements(o))
  BY <1>1, <1>2 DEF Elements, NoRepeats, Injection, Surjection, IsInjective
<1>4. IsFiniteSet(1..Len(o)) /\ Cardinality(1..Len(o)) = Len(o)
  BY <1>1, FS_Interval
<1> QED
  BY <1>3, <1>4, FS_Surjection

LEMMA AppendNew ==
    ASSUME NEW S, NEW o \in Seq(S), NoRepeats(o), NEW e \in S, e \notin Elements(o)
    PROVE  /\ Append(o, e) \in Seq(S) /\ NoRepeats(Append(o, e))
           /\ Elements(Append(o, e)) = Elements(o) \cup {e}
           /\ Len(Append(o, e)) = Len(o) + 1
<1> DEFINE w == Append(o, e)
           n == Len(o)
<1>1. n \in Nat /\ DOMAIN o = 1..n
  OBVIOUS
<1>2. /\ w \in Seq(S) /\ Len(w) = n + 1 /\ DOMAIN w = 1..(n + 1)
      /\ w[n + 1] = e /\ \A i \in 1..n : w[i] = o[i]
  OBVIOUS
<1> HIDE DEF w, n
<1>3. \A i \in 1..(n + 1) : i \in 1..n \/ i = n + 1
  BY <1>1
<1>4. \A i \in 1..n : i \in 1..(n + 1) /\ o[i] # e
  BY <1>1 DEF Elements
<1>5. NoRepeats(w)
  BY <1>1, <1>2, <1>3, <1>4 DEF NoRepeats
<1>6. n + 1 \in 1..(n + 1)
  BY <1>1
<1>7. Elements(w) = Elements(o) \cup {e}
  BY <1>1, <1>2, <1>3, <1>4, <1>6 DEF Elements
<1> QED
  BY <1>2, <1>5, <1>7 DEF w, n

LEMMA SeqByParts ==
    ASSUME NEW S, NEW n \in Nat, NEW o, DOMAIN o = 1..n, o = [i \in 1..n |-> o[i]],
           \A i \in 1..n : o[i] \in S
    PROVE  o \in Seq(S) /\ Len(o) = n
<1>1. o \in [1..n -> S]
  OBVIOUS
<1> QED
  BY <1>1

LEMMA SeqOfMore ==
    ASSUME NEW S, NEW T, S \subseteq T, NEW o \in Seq(S)
    PROVE  o \in Seq(T)
<1>1. Len(o) \in Nat /\ DOMAIN o = 1..Len(o) /\ o = [i \in 1..Len(o) |-> o[i]]
  OBVIOUS
<1>2. \A i \in 1..Len(o) : o[i] \in T
  OBVIOUS
<1> QED
  BY <1>1, <1>2, SeqByParts

-----------------------------------------------------------------------------
(* Orders by a number                                                       *)

\* The order by a number d[i], and by i itself where they agree.
Lexically(D, d) == {p \in D \X D : d[p[1]] < d[p[2]] \/ (d[p[1]] = d[p[2]] /\ p[1] < p[2])}

LEMMA LexicalOrder ==
    ASSUME NEW D \in SUBSET Int, NEW d \in [D -> Int]
    PROVE  StrictOrder(D, Lexically(D, d))
<1> DEFINE R == Lexically(D, d)
<1>1. \A x, y \in D : <<x, y>> \in R <=> d[x] < d[y] \/ (d[x] = d[y] /\ x < y)
  BY DEF Lexically
<1>2. \A x \in D : d[x] \in Int /\ x \in Int
  OBVIOUS
<1> HIDE DEF R
<1>3. \A x \in D : <<x, x>> \notin R
  BY <1>1, <1>2
<1>4. ASSUME NEW x \in D, NEW y \in D, NEW z \in D, <<x, y>> \in R, <<y, z>> \in R
      PROVE  <<x, z>> \in R
  BY <1>1, <1>2, <1>4
<1>5. ASSUME NEW x \in D, NEW y \in D, x # y PROVE <<x, y>> \in R \/ <<y, x>> \in R
  BY <1>1, <1>2, <1>5
<1> QED
  BY <1>3, <1>4, <1>5 DEF StrictOrder, R

\* The first of those for which d is least.
LEMMA FirstLeast ==
    ASSUME NEW D \in SUBSET Int, IsFiniteSet(D), D # {}, NEW d \in [D -> Int]
    PROVE  \E i \in {j \in D : \A k \in D : d[j] =< d[k]} :
              \A j \in {x \in D : \A k \in D : d[x] =< d[k]} : i =< j
<1>1. PICK i \in D : \A j \in D \ {i} : <<i, j>> \in Lexically(D, d)
  BY LexicalOrder, FirstOf DEF HasFirst
<1>2. \A j \in D : j = i \/ d[i] < d[j] \/ (d[i] = d[j] /\ i < j)
  BY <1>1 DEF Lexically
<1>3. \A j \in D : d[i] =< d[j]
  BY <1>2
<1>4. ASSUME NEW j \in D, \A k \in D : d[j] =< d[k] PROVE i =< j
  <2>1. d[j] =< d[i] /\ i \in Int /\ j \in Int /\ d[i] \in Int /\ d[j] \in Int
    BY <1>4
  <2> QED
    BY <1>2, <2>1
<1> QED
  BY <1>3, <1>4

-----------------------------------------------------------------------------
(* Fractions                                                                *)

\* a/p =< b/q =< c/r: cross-multiplication by positive denominators.
LEMMA FractionsOrdered ==
    ASSUME NEW a \in Int, NEW b \in Int, NEW c \in Int,
           NEW p \in Nat \ {0}, NEW q \in Nat \ {0}, NEW r \in Nat \ {0},
           a * q =< b * p, b * r =< c * q
    PROVE  a * r =< c * p
<1>1. (a * q) * r =< (b * p) * r
  BY a * q \in Int, b * p \in Int, r \in Nat
<1>2. (b * r) * p =< (c * q) * p
  BY b * r \in Int, c * q \in Int, p \in Nat
<1>3. (a * q) * r = (a * r) * q /\ (c * q) * p = (c * p) * q /\ (b * p) * r = (b * r) * p
  OBVIOUS
<1>4. (a * r) * q =< (c * p) * q
  <2> DEFINE u == (a * q) * r
             v == (b * p) * r
             w == (c * q) * p
  <2>1. u \in Int /\ v \in Int /\ w \in Int /\ u =< v /\ v =< w
    BY <1>1, <1>2, <1>3
  <2> HIDE DEF u, v, w
  <2>2. u =< w
    BY <2>1
  <2> QED
    BY <1>3, <2>2 DEF u, w
<1>5. ASSUME NEW x \in Int, NEW y \in Int, x * q =< y * q PROVE x =< y
  <2>1. x > y => x - y - 1 \in Nat
    OBVIOUS
  <2>2. x - y - 1 \in Nat => (x - y - 1) * q \in Nat
    OBVIOUS
  <2>3. (x - y - 1) * q = x * q - y * q - q
    OBVIOUS
  <2> QED
    BY <1>5, <2>1, <2>2, <2>3
<1> QED
  BY <1>4, <1>5, a * r \in Int, c * p \in Int
=============================================================================
