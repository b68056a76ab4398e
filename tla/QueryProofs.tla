----------------------------- MODULE QueryProofs -----------------------------
(***************************************************************************)
(* Proofs about Query: the vector kernels add up what the scalar ones do,   *)
(* distances other than NaN are ordered, and a query that ranks its pool by *)
(* them returns the right answer.                                           *)
(***************************************************************************)
EXTENDS Query, ProofLemmas

-----------------------------------------------------------------------------
(* Sums                                                                     *)

\* f holds the sums of the first i terms.
PartialSums(f, ts) ==
    /\ f \in [0..Len(ts) -> Int]
    /\ f[0] = 0
    /\ \A i \in 1..Len(ts) : f[i] = f[i - 1] + ts[i]

\* The loop of a scalar kernel computes them.
LEMMA SumOfLoop ==
    ASSUME NEW ts \in Seq(Int) PROVE \E f : PartialSums(f, ts) /\ SumOf(ts) = f[Len(ts)]
<1> DEFINE n == Len(ts)
           F == [p \in (1..n) \X Int |-> p[2] + ts[p[1]]]
           Def(g) == [i \in 0..n |-> IF i = 0 THEN 0 ELSE g[i - 1] + ts[i]]
           sum == CHOOSE g : g = Def(g)
<1>1. n \in Nat /\ (\A i \in 1..n : ts[i] \in Int) /\ 0 \in Int
  OBVIOUS
<1>2. F \in [(1..n) \X Int -> Int]
  BY <1>1
<1>3. \A i \in 1..n, s \in Int : F[<<i, s>>] = s + ts[i]
  OBVIOUS
<1> HIDE DEF F, n
<1>4. PICK f : Iteration(f, n, Int, 0, F)
  BY <1>1, <1>2, Iterates
<1>5. f \in [0..n -> Int] /\ f[0] = 0 /\ \A i \in 1..n : f[i] = f[i - 1] + ts[i]
  <2>1. f \in [0..n -> Int] /\ f[0] = 0
    BY <1>4 DEF Iteration
  <2>2. ASSUME NEW i \in 1..n PROVE f[i] = f[i - 1] + ts[i]
    <3>1. i - 1 \in 0..n /\ f[i - 1] \in Int
      BY <1>1, <2>1
    <3>2. f[i] = F[<<i, f[i - 1]>>]
      BY <1>4 DEF Iteration
    <3> QED
      BY <1>3, <3>1, <3>2
  <2> QED
    BY <2>1, <2>2
<1>6. f = Def(f)
  <2>1. \A i \in 0..n : f[i] = IF i = 0 THEN 0 ELSE f[i - 1] + ts[i]
    BY <1>1, <1>5
  <2> QED
    BY <1>5, <2>1
<1>7. sum = Def(sum)
  BY <1>6
<1>8. SumOf(ts) = sum[n]
  BY DEF SumOf, n
<1> HIDE DEF sum
<1>9. sum[0] = 0 /\ \A i \in 1..n : sum[i] = sum[i - 1] + ts[i]
  <2>1. \A i \in 0..n : sum[i] = IF i = 0 THEN 0 ELSE sum[i - 1] + ts[i]
    BY <1>7
  <2> QED
    BY <1>1, <2>1
<1>10. GoAlike(sum, f, n)
  BY <1>5, <1>9 DEF GoAlike
<1>11. sum[n] = f[n]
  BY <1>1, <1>10, SameEnd
<1> QED
  BY <1>1, <1>5, <1>8, <1>11 DEF PartialSums, n

\* So the sum is the last of any partial sums.
LEMMA SumIs ==
    ASSUME NEW ts \in Seq(Int), NEW f, f[0] = 0, \A i \in 1..Len(ts) : f[i] = f[i - 1] + ts[i]
    PROVE  SumOf(ts) = f[Len(ts)] /\ SumOf(ts) \in Int
<1>1. PICK g : PartialSums(g, ts) /\ SumOf(ts) = g[Len(ts)]
  BY SumOfLoop
<1>2. Len(ts) \in Nat
  OBVIOUS
<1>3. GoAlike(f, g, Len(ts))
  BY <1>1 DEF PartialSums, GoAlike
<1>4. f[Len(ts)] = g[Len(ts)]
  BY <1>2, <1>3, SameEnd
<1> QED
  BY <1>1, <1>2, <1>4 DEF PartialSums

LEMMA TuplesOfInts ==
    ASSUME NEW n \in Nat, NEW u \in [1..n -> Int] PROVE u \in Seq(Int) /\ Len(u) = n
  OBVIOUS

LEMMA SumOfSum ==
    ASSUME NEW n \in Nat, NEW u \in [1..n -> Int], NEW v \in [1..n -> Int],
           NEW w \in [1..n -> Int], \A i \in 1..n : w[i] = u[i] + v[i]
    PROVE  SumOf(w) = SumOf(u) + SumOf(v)
<1>1. u \in Seq(Int) /\ Len(u) = n /\ v \in Seq(Int) /\ Len(v) = n /\ w \in Seq(Int) /\ Len(w) = n
  BY TuplesOfInts
<1>2. PICK f : PartialSums(f, u) /\ SumOf(u) = f[n]
  BY <1>1, SumOfLoop
<1>3. PICK g : PartialSums(g, v) /\ SumOf(v) = g[n]
  BY <1>1, SumOfLoop
<1> DEFINE h == [i \in 0..n |-> f[i] + g[i]]
<1>4. h[0] = 0 /\ h[n] = f[n] + g[n]
  BY <1>1, <1>2, <1>3 DEF PartialSums
<1>5. ASSUME NEW i \in 1..n PROVE h[i] = h[i - 1] + w[i]
  <2>1. i - 1 \in 0..n /\ i \in 0..n
    OBVIOUS
  <2>2. h[i] = f[i] + g[i] /\ h[i - 1] = f[i - 1] + g[i - 1]
    BY <2>1
  <2>3. f[i] = f[i - 1] + u[i] /\ g[i] = g[i - 1] + v[i]
    BY <1>1, <1>2, <1>3 DEF PartialSums
  <2>4. f[i - 1] \in Int /\ g[i - 1] \in Int /\ u[i] \in Int /\ v[i] \in Int
    BY <1>1, <1>2, <1>3, <2>1 DEF PartialSums
  <2> HIDE DEF h
  <2> QED
    BY <2>2, <2>3, <2>4
<1> HIDE DEF h
<1> QED
  BY <1>1, <1>2, <1>3, <1>4, <1>5, SumIs

\* The sum of n consecutive terms, after the first o.
LEMMA SumOfSegment ==
    ASSUME NEW ts \in Seq(Int), NEW f, PartialSums(f, ts), NEW o \in Nat, NEW n \in Nat,
           o + n =< Len(ts), NEW s \in [1..n -> Int], \A i \in 1..n : s[i] = ts[o + i]
    PROVE  SumOf(s) = f[o + n] - f[o]
<1>1. s \in Seq(Int) /\ Len(s) = n /\ Len(ts) \in Nat
  BY TuplesOfInts
<1> DEFINE h == [i \in 0..n |-> f[o + i] - f[o]]
<1>2. ASSUME NEW i \in 0..n PROVE f[o + i] \in Int /\ f[o] \in Int
  <2>1. o + i \in 0..Len(ts) /\ o \in 0..Len(ts)
    BY <1>1
  <2>2. f \in [0..Len(ts) -> Int]
    BY DEF PartialSums
  <2> QED
    BY <2>1, <2>2
<1>3. h[0] = 0 /\ h[n] = f[o + n] - f[o]
  <2>1. 0 \in 0..n /\ n \in 0..n /\ o + 0 = o
    OBVIOUS
  <2>2. h[0] = f[o + 0] - f[o] /\ h[n] = f[o + n] - f[o]
    BY <2>1
  <2> HIDE DEF h
  <2>3. f[o] \in Int
    BY <1>2, <2>1
  <2>4. f[o] - f[o] = 0
    BY ONLY <2>3
  <2> QED
    BY ONLY <2>1, <2>2, <2>4
<1>4. ASSUME NEW i \in 1..n PROVE h[i] = h[i - 1] + s[i]
  <2>1. i - 1 \in 0..n /\ i \in 0..n /\ o + i \in 1..Len(ts) /\ o + i - 1 = o + (i - 1)
    BY <1>1
  <2>2. h[i] = f[o + i] - f[o] /\ h[i - 1] = f[o + (i - 1)] - f[o]
    BY <2>1
  <2>3. f[o + i] = f[o + (i - 1)] + ts[o + i] /\ ts[o + i] \in Int
    BY <2>1 DEF PartialSums
  <2>4. f[o + (i - 1)] \in Int /\ f[o] \in Int
    BY <1>2, <2>1
  <2>5. s[i] = ts[o + i]
    OBVIOUS
  <2> HIDE DEF h
  <2>6. \A x, y, z \in Int : (x + y) - z = (x - z) + y
    OBVIOUS
  <2>7. (f[o + (i - 1)] + ts[o + i]) - f[o] = (f[o + (i - 1)] - f[o]) + ts[o + i]
    BY ONLY <2>3, <2>4, <2>6
  <2>8. h[i] = (f[o + (i - 1)] + ts[o + i]) - f[o] /\ h[i - 1] + s[i] = (f[o + (i - 1)] - f[o]) + ts[o + i]
    BY ONLY <2>2, <2>3, <2>5
  <2> QED
    BY ONLY <2>7, <2>8
<1> HIDE DEF h
<1> QED
  BY <1>1, <1>3, <1>4, SumIs

LEMMA WholeChunks ==
    ASSUME NEW n \in Nat
    PROVE  n \div Lanes \in Nat /\ (n \div Lanes) * Lanes =< n
<1>1. Lanes \in Nat /\ Lanes > 0
  BY FloatAssumption
<1> QED
  BY <1>1

\* A chunk of terms ends within them.
LEMMA ChunkFits ==
    ASSUME NEW n \in Nat, NEW c \in Nat, c =< n \div Lanes
    PROVE  c * Lanes \in Nat /\ c * Lanes =< n /\ n \div Lanes \in Nat
<1>1. Lanes \in Nat /\ Lanes > 0
  BY FloatAssumption
<1>2. n \div Lanes \in Nat /\ (n \div Lanes) * Lanes =< n
  BY WholeChunks
<1>3. c * Lanes =< (n \div Lanes) * Lanes /\ c * Lanes \in Nat
  <2> DEFINE d == n \div Lanes - c
  <2>1. d \in Nat /\ n \div Lanes = c + d
    BY <1>2
  <2>2. (c + d) * Lanes = c * Lanes + d * Lanes /\ d * Lanes \in Nat /\ c * Lanes \in Nat
    BY <1>1, <2>1
  <2> HIDE DEF d
  <2> QED
    BY <2>1, <2>2
<1> DEFINE x == c * Lanes
           y == (n \div Lanes) * Lanes
<1>4. x \in Nat /\ x =< y /\ y =< n /\ n \div Lanes \in Nat
  BY <1>2, <1>3
<1>5. y \in Nat
  BY <1>1, <1>2
<1> HIDE DEF x, y
<1>6. x =< n
  BY <1>4, <1>5
<1> QED
  BY <1>4, <1>6 DEF x

\* acc holds the registers of the vector kernel after each chunk of terms.
Registers(acc, ts) ==
    /\ acc \in [0..(Len(ts) \div Lanes) -> [1..Lanes -> Int]]
    /\ \A lane \in 1..Lanes : acc[0][lane] = 0
    /\ \A c \in 1..(Len(ts) \div Lanes) : \A lane \in 1..Lanes :
           acc[c][lane] = acc[c - 1][lane] + ts[(c - 1) * Lanes + lane]

\* The loop of a vector kernel computes them.
LEMMA RegistersOfLoop ==
    ASSUME NEW ts \in Seq(Int)
    PROVE  \E acc : /\ Registers(acc, ts)
                    /\ RegisterSum(ts) = SumOf(acc[Len(ts) \div Lanes])
                           + SumOf(SubSeq(ts, (Len(ts) \div Lanes) * Lanes + 1, Len(ts)))
<1> DEFINE n == Len(ts) \div Lanes
           A == [1..Lanes -> Int]
           zeros == [lane \in 1..Lanes |-> 0]
           F == [p \in (1..n) \X A |->
                    [lane \in 1..Lanes |-> p[2][lane] + ts[(p[1] - 1) * Lanes + lane]]]
           Def(g) == [c \in 0..n |->
                         IF c = 0 THEN zeros
                         ELSE [lane \in 1..Lanes |->
                                  g[c - 1][lane] + ts[(c - 1) * Lanes + lane]]]
           reg == CHOOSE g : g = Def(g)
           Tail0 == SumOf(SubSeq(ts, n * Lanes + 1, Len(ts)))
           Add(u, c) == [lane \in 1..Lanes |-> u[lane] + ts[(c - 1) * Lanes + lane]]
<1>1. n \in Nat /\ Len(ts) \in Nat /\ Lanes \in Nat /\ Lanes > 0
  BY FloatAssumption
<1>2. ASSUME NEW c \in 1..n, NEW lane \in 1..Lanes PROVE ts[(c - 1) * Lanes + lane] \in Int
  <2>1. c \in Nat /\ c =< Len(ts) \div Lanes
    BY <1>1
  <2>2. c * Lanes \in Nat /\ c * Lanes =< Len(ts)
    BY <1>1, <2>1, ChunkFits, Zenon
  <2>3. c - 1 \in Nat /\ (c - 1) * Lanes = c * Lanes - Lanes /\ (c - 1) * Lanes \in Nat
    BY <1>1
  <2> DEFINE x == c * Lanes
             y == (c - 1) * Lanes
  <2>4. x \in Nat /\ x =< Len(ts) /\ y = x - Lanes /\ y \in Nat
    BY <2>2, <2>3
  <2> HIDE DEF x, y
  <2>5. y + lane \in 1..Len(ts)
    BY <1>1, <2>4
  <2>6. ts[y + lane] \in Int
    BY <2>5
  <2> QED
    BY <2>6 DEF y
<1>3. zeros \in A
  OBVIOUS
<1>4. F \in [(1..n) \X A -> A]
  <2>1. ASSUME NEW c \in 1..n, NEW u \in A
        PROVE  [lane \in 1..Lanes |-> u[lane] + ts[(c - 1) * Lanes + lane]] \in A
    BY <1>2
  <2> HIDE DEF A, n
  <2>2. ASSUME NEW p \in (1..n) \X A
        PROVE  [lane \in 1..Lanes |-> p[2][lane] + ts[(p[1] - 1) * Lanes + lane]] \in A
    <3>1. p[1] \in 1..n /\ p[2] \in A
      OBVIOUS
    <3> QED
      BY <2>1, <3>1
  <2> QED
    BY <2>2
<1>5. ASSUME NEW c \in 1..n, NEW u \in A, NEW lane \in 1..Lanes
      PROVE  F[<<c, u>>] \in A /\ F[<<c, u>>][lane] = u[lane] + ts[(c - 1) * Lanes + lane]
  BY <1>4
<1>6. ASSUME NEW c \in 1..n, NEW u \in A
      PROVE  F[<<c, u>>] = [lane \in 1..Lanes |-> u[lane] + ts[(c - 1) * Lanes + lane]]
  OBVIOUS
<1> HIDE DEF F
<1>7. PICK f : Iteration(f, n, A, zeros, F)
  <2> HIDE DEF n, A, zeros
  <2> QED
    BY <1>1, <1>3, <1>4, Iterates
<1>8. f \in [0..n -> A] /\ f[0] = zeros /\ \A c \in 1..n : f[c] = F[<<c, f[c - 1]>>]
  BY <1>7 DEF Iteration
<1>9. ASSUME NEW c \in 1..n
      PROVE  f[c - 1] \in A /\ f[c] = [lane \in 1..Lanes |-> f[c - 1][lane] + ts[(c - 1) * Lanes + lane]]
  <2>1. c - 1 \in 0..n
    BY <1>1
  <2>2. f[c - 1] \in A
    <3> HIDE DEF A, n
    <3> QED
      BY <1>8, <2>1
  <2> QED
    BY <1>6, <1>8, <2>2
<1>10. f = Def(f)
  <2>1. \A c \in 0..n : f[c] = Def(f)[c]
    <3> SUFFICES ASSUME NEW c \in 0..n PROVE f[c] = Def(f)[c]
      OBVIOUS
    <3>1. CASE c = 0
      BY <1>8, <3>1
    <3>2. CASE c \in 1..n
      <4>1. Def(f)[c] = [lane \in 1..Lanes |-> f[c - 1][lane] + ts[(c - 1) * Lanes + lane]]
        BY <3>2
      <4> QED
        BY <1>9, <3>2, <4>1
    <3> QED
      BY <1>1, <3>1, <3>2
  <2> QED
    BY <1>8, <2>1
<1>11. reg = Def(reg)
  BY <1>10
<1>12. RegisterSum(ts) = SumOf(reg[n]) + Tail0
  BY DEF RegisterSum
<1> HIDE DEF reg
<1>13. reg[0] = zeros
  <2>1. reg[0] = Def(reg)[0] /\ 0 \in 0..n
    BY <1>1, <1>11
  <2> QED
    BY <2>1
<1>14. ASSUME NEW c \in 1..n
       PROVE  reg[c] = [lane \in 1..Lanes |-> reg[c - 1][lane] + ts[(c - 1) * Lanes + lane]]
  <2>1. c \in 0..n /\ c # 0
    BY <1>1
  <2>2. reg[c] = Def(reg)[c]
    BY <1>11
  <2> QED
    BY <2>1, <2>2
<1>15. reg[0] = f[0] /\ \A c \in 1..n : reg[c - 1] = f[c - 1] => reg[c] = f[c]
  <2>1. ASSUME NEW c \in 1..n, reg[c - 1] = f[c - 1] PROVE reg[c] = f[c]
    <3>1. reg[c] = Add(reg[c - 1], c) /\ f[c] = Add(f[c - 1], c)
      BY <1>9, <1>14
    <3> HIDE DEF Add
    <3> QED
      BY <2>1, <3>1
  <2> QED
    BY <1>8, <1>13, <2>1
<1>16. \A c \in 0..n : reg[c] = f[c]
  <2> HIDE DEF n, reg, zeros, A, F, Def, Tail0, Add
  <2>1. n \in Nat
    BY <1>1
  <2>2. reg[0] = f[0]
    BY <1>15
  <2>3. \A c \in 1..n : reg[c - 1] = f[c - 1] => reg[c] = f[c]
    BY <1>15
  <2>4. GoAlike(reg, f, n)
    BY <2>2, <2>3 DEF GoAlike
  <2> QED
    BY ONLY <2>1, <2>4, SameIteration
<1>17. Registers(f, ts)
  <2>1. \A lane \in 1..Lanes : f[0][lane] = 0
    BY <1>8
  <2>2. \A c \in 1..n : \A lane \in 1..Lanes :
            f[c][lane] = f[c - 1][lane] + ts[(c - 1) * Lanes + lane]
    BY <1>9
  <2> QED
    BY <1>8, <2>1, <2>2 DEF Registers
<1>18. n \in 0..n
  BY <1>1
<1> QED
  BY <1>12, <1>16, <1>17, <1>18

\* So the vector kernels add up what the scalar ones do.
LEMMA RegisterSumIsSum ==
    ASSUME NEW ts \in Seq(Int) PROVE RegisterSum(ts) = SumOf(ts)
<1> DEFINE n == Len(ts) \div Lanes
           rest == SubSeq(ts, n * Lanes + 1, Len(ts))
<1>1. n \in Nat /\ Len(ts) \in Nat /\ Lanes \in Nat /\ Lanes > 0
  BY FloatAssumption
<1>2. PICK acc : /\ Registers(acc, ts)
                 /\ RegisterSum(ts) = SumOf(acc[n]) + SumOf(rest)
  BY RegistersOfLoop
<1>3. PICK f : PartialSums(f, ts) /\ SumOf(ts) = f[Len(ts)]
  BY SumOfLoop
<1>4. \A c \in 0..n : c * Lanes \in Nat /\ c * Lanes =< Len(ts)
  <2> TAKE c \in 0..n
  <2>1. c \in Nat /\ c =< Len(ts) \div Lanes
    BY <1>1
  <2> QED
    BY <1>1, <2>1, ChunkFits, Zenon
<1>5. \A k \in 0..Len(ts) : f[k] \in Int
  BY <1>3 DEF PartialSums
<1> DEFINE P == {c \in 0..n : SumOf(acc[c]) = f[c * Lanes]}
<1>6. 0 \in P
  <2>1. acc[0] \in [1..Lanes -> Int] /\ \A lane \in 1..Lanes : acc[0][lane] = 0
    <3>1. 0 \in 0..n
      BY <1>1
    <3>2. acc \in [0..n -> [1..Lanes -> Int]] /\ \A lane \in 1..Lanes : acc[0][lane] = 0
      BY <1>2 DEF Registers
    <3> HIDE DEF n
    <3> QED
      BY <3>1, <3>2
  <2>2. acc[0] \in Seq(Int) /\ Len(acc[0]) = Lanes
    BY <1>1, <2>1, TuplesOfInts
  <2> DEFINE z == [k \in 0..Lanes |-> 0]
  <2>3. z[0] = 0 /\ \A k \in 1..Len(acc[0]) : z[k] = z[k - 1] + acc[0][k]
    BY <1>1, <2>1, <2>2
  <2>4. z[Lanes] = 0
    BY <1>1
  <2> HIDE DEF z
  <2>5. SumOf(acc[0]) = 0
    BY <2>2, <2>3, <2>4, SumIs
  <2>6. f[0] = 0 /\ 0 * Lanes = 0
    BY <1>1, <1>3 DEF PartialSums
  <2> QED
    BY <1>1, <2>5, <2>6
<1>7. ASSUME NEW c \in 0..(n - 1), c \in P PROVE c + 1 \in P
  <2>1. c \in 0..n /\ c + 1 \in 0..n /\ c + 1 \in 1..n /\ c + 1 - 1 = c
    BY <1>1
  <2> DEFINE o == c * Lanes
  <2>2. o \in Nat /\ o + Lanes = (c + 1) * Lanes /\ o + Lanes =< Len(ts)
    <3>1. (c + 1) * Lanes = c * Lanes + Lanes
      BY <1>1, <2>1
    <3> QED
      BY <1>4, <2>1, <3>1
  <2> DEFINE s == [lane \in 1..Lanes |-> ts[o + lane]]
  <2>3. \A lane \in 1..Lanes :
            acc[c + 1][lane] = acc[c][lane] + ts[(c + 1 - 1) * Lanes + lane]
    BY <1>2, <2>1 DEF Registers
  <2>4. acc[c] \in [1..Lanes -> Int] /\ acc[c + 1] \in [1..Lanes -> Int]
    BY <1>2, <2>1 DEF Registers
  <2>5. \A lane \in 1..Lanes : s[lane] = ts[o + lane] /\ acc[c + 1][lane] = acc[c][lane] + s[lane]
    BY <2>1, <2>3
  <2>6. SumOf(acc[c]) = f[o]
    BY <1>7
  <2> HIDE DEF o
  <2>7. s \in [1..Lanes -> Int]
    <3>1. \A lane \in 1..Lanes : o + lane \in 1..Len(ts)
      BY <1>1, <2>2
    <3> QED
      BY <3>1
  <2> HIDE DEF s
  <2>8. SumOf(s) = f[o + Lanes] - f[o]
    BY <1>1, <1>3, <2>2, <2>5, <2>7, SumOfSegment
  <2>9. SumOf(acc[c + 1]) = SumOf(acc[c]) + SumOf(s)
    BY <1>1, <2>4, <2>5, <2>7, SumOfSum
  <2>10. f[o] \in Int /\ f[o + Lanes] \in Int
    BY <1>1, <1>5, <2>2
  <2>11. SumOf(acc[c + 1]) = f[o + Lanes]
    BY <2>6, <2>8, <2>9, <2>10
  <2> QED
    BY <2>1, <2>2, <2>11
<1> HIDE DEF P
<1>8. n \in P
  <2>1. \A c \in 0..n : c \in P
    <3> HIDE DEF n
    <3> QED
      BY <1>1, <1>6, <1>7, Inductively
  <2> QED
    BY <1>1, <2>1
<1>9. SumOf(acc[n]) = f[n * Lanes]
  BY <1>8 DEF P
<1> DEFINE o == n * Lanes
           r == Len(ts) - o
<1>10. o \in Nat /\ o =< Len(ts)
  BY <1>1, <1>4
<1>11. SumOf(rest) = f[Len(ts)] - f[o]
  <2> HIDE DEF n, o
  <2>1. r \in Nat /\ o + r = Len(ts)
    BY <1>1, <1>10
  <2>2. SubSeq(ts, o + 1, Len(ts)) = [i \in 1..r |-> ts[o + i]]
    <3>1. Len(ts) - (o + 1) + 1 = r /\ \A i \in 1..r : o + 1 + i - 1 = o + i
      BY <1>1, <1>10
    <3> HIDE DEF r
    <3> QED
      BY <1>1, <1>10, <2>1, <3>1
  <2> DEFINE s == [i \in 1..r |-> ts[o + i]]
  <2> HIDE DEF r
  <2>3. s \in [1..r -> Int] /\ \A i \in 1..r : s[i] = ts[o + i]
    <3>1. \A i \in 1..r : o + i \in 1..Len(ts)
      BY <1>1, <1>10, <2>1
    <3> QED
      BY <3>1
  <2>4. rest = s
    BY <2>2 DEF o
  <2> HIDE DEF s, rest
  <2>5. SumOf(s) = f[o + r] - f[o]
    <3>1. o + r =< Len(ts)
      BY <1>1, <2>1
    <3> QED
      BY <1>3, <1>10, <2>1, <2>3, <3>1, SumOfSegment, Zenon
  <2> QED
    BY <2>1, <2>4, <2>5
<1>12. f[Len(ts)] \in Int /\ f[o] \in Int
  BY <1>1, <1>5, <1>10
<1> QED
  BY <1>2, <1>3, <1>9, <1>11, <1>12

\* No term of a sum of naturals exceeds it.
LEMMA TermsInSum ==
    ASSUME NEW ts \in Seq(Nat)
    PROVE  SumOf(ts) \in Nat /\ \A k \in 1..Len(ts) : ts[k] =< SumOf(ts)
<1>1. ts \in Seq(Int) /\ Len(ts) \in Nat /\ \A k \in 1..Len(ts) : ts[k] \in Nat
  OBVIOUS
<1>2. PICK f : PartialSums(f, ts) /\ SumOf(ts) = f[Len(ts)]
  BY <1>1, SumOfLoop
<1>3. f \in [0..Len(ts) -> Int] /\ f[0] = 0 /\ \A i \in 1..Len(ts) : f[i] = f[i - 1] + ts[i]
  BY <1>2 DEF PartialSums
<1> DEFINE n == Len(ts)
           P == {i \in 0..n : f[i] \in Nat /\ \A k \in 1..i : ts[k] =< f[i]}
<1>4. 0 \in P
  BY <1>1, <1>3
<1>5. ASSUME NEW i \in 0..(n - 1), i \in P PROVE i + 1 \in P
  <2>1. i + 1 \in 1..n /\ i + 1 \in 0..n /\ i + 1 - 1 = i
    BY <1>1
  <2>2. f[i + 1] = f[i] + ts[i + 1]
    BY <1>3, <2>1
  <2>3. f[i] \in Nat /\ \A k \in 1..i : ts[k] =< f[i]
    BY <1>5
  <2>4. ts[i + 1] \in Nat /\ \A k \in 1..i : ts[k] \in Nat
    BY <1>1, <2>1
  <2>5. f[i + 1] \in Nat /\ ts[i + 1] =< f[i + 1] /\ f[i] =< f[i + 1]
    BY <2>2, <2>3, <2>4
  <2>6. ASSUME NEW k \in 1..(i + 1) PROVE ts[k] =< f[i + 1]
    <3>1. CASE k = i + 1
      BY <2>5, <3>1
    <3>2. CASE k \in 1..i
      BY <2>3, <2>4, <2>5, <3>2
    <3> QED
      BY <3>1, <3>2
  <2> QED
    BY <2>1, <2>5, <2>6
<1>6. n \in Nat /\ n \in 0..n
  BY <1>1
<1> HIDE DEF P, n
<1>7. \A i \in 0..n : i \in P
  BY <1>4, <1>5, <1>6, Inductively
<1>8. n \in P
  BY <1>6, <1>7
<1> QED
  BY <1>2, <1>8 DEF P, n

-----------------------------------------------------------------------------
(* Kernels                                                                  *)

LEMMA SquareAtLeast ==
    ASSUME NEW x \in Int PROVE x * x \in Nat /\ x =< x * x /\ -x =< x * x
<1>1. CASE x \in Nat
  <2>1. x = 0 \/ x - 1 \in Nat
    BY <1>1
  <2>2. x - 1 \in Nat => x * (x - 1) \in Nat /\ x * (x - 1) = x * x - x
    BY <1>1
  <2> QED
    BY <1>1, <2>1, <2>2
<1>2. CASE -x \in Nat
  <2>1. x = 0 \/ -x - 1 \in Nat
    BY <1>2
  <2>2. -x - 1 \in Nat => (-x) * (-x - 1) \in Nat /\ (-x) * (-x - 1) = x * x + x
    BY <1>2
  <2> QED
    BY <1>2, <2>1, <2>2
<1> QED
  BY <1>1, <1>2

LEMMA TermsOfKernels ==
    ASSUME NEW a \in Seq(Int), NEW b \in Seq(Int), Len(a) = Len(b)
    PROVE  /\ Squares(a, b) \in Seq(Nat) /\ Squares(a, b) \in Seq(Int)
           /\ Len(Squares(a, b)) = Len(a)
           /\ Products(a, b) \in Seq(Int) /\ Len(Products(a, b)) = Len(a)
           /\ Products(a, a) \in Seq(Nat)
<1>1. DOMAIN a = 1..Len(a) /\ Len(a) \in Nat
  OBVIOUS
<1>2. \A i \in 1..Len(a) : a[i] \in Int /\ b[i] \in Int
  OBVIOUS
<1>3. ASSUME NEW i \in 1..Len(a)
      PROVE  /\ (a[i] - b[i]) * (a[i] - b[i]) \in Nat
             /\ a[i] * b[i] \in Int /\ a[i] * a[i] \in Nat
  <2>1. a[i] \in Int /\ b[i] \in Int /\ a[i] - b[i] \in Int
    BY <1>2
  <2>2. a[i] * b[i] \in Int
    BY <2>1
  <2>3. a[i] * a[i] \in Nat /\ (a[i] - b[i]) * (a[i] - b[i]) \in Nat
    BY <2>1, SquareAtLeast
  <2> QED
    BY <2>2, <2>3
<1>4. Squares(a, b) \in [1..Len(a) -> Nat]
  BY <1>1, <1>3 DEF Squares
<1>5. Products(a, b) \in [1..Len(a) -> Int] /\ Products(a, a) \in [1..Len(a) -> Nat]
  BY <1>1, <1>3 DEF Products
<1>6. ASSUME NEW u \in [1..Len(a) -> Nat]
      PROVE  u \in Seq(Nat) /\ u \in Seq(Int) /\ Len(u) = Len(a)
  <2> DEFINE n == Len(a)
  <2>1. n \in Nat /\ u \in [1..n -> Nat]
    BY <1>1
  <2> HIDE DEF n
  <2>2. u \in Seq(Nat) /\ Len(u) = n
    BY <2>1
  <2>3. u \in Seq(Int)
    BY <2>2
  <2> QED
    BY <2>2, <2>3 DEF n
<1>7. Products(a, b) \in Seq(Int) /\ Len(Products(a, b)) = Len(a)
  BY <1>1, <1>5, TuplesOfInts
<1> QED
  BY <1>4, <1>5, <1>6, <1>7

\* The Euclidean kernels: a difference beyond the floats is a sum beyond them.
LEMMA SameSquares ==
    ASSUME NEW a \in Seq(Int), NEW b \in Seq(Int), Len(a) = Len(b)
    PROVE  avx512_l2_squared(a, b) = scalar_l2_squared(a, b)
<1> DEFINE ts == Squares(a, b)
<1>1. ts \in Seq(Nat) /\ ts \in Seq(Int) /\ Len(ts) = Len(a)
  BY TermsOfKernels
<1>2. RegisterSum(ts) = SumOf(ts)
  BY <1>1, RegisterSumIsSum
<1>3. ASSUME NEW i \in 1..(Lanes * (Len(a) \div Lanes)), Narrow(a[i] - b[i]).d = 0
      PROVE  Narrow(SumOf(ts)) = Inf(1)
  <2>1. Len(a) \in Nat /\ Lanes \in Nat /\ Lanes > 0 /\ FloatMax \in Nat
    BY FloatAssumption
  <2> DEFINE n == Len(a)
  <2> HIDE DEF n
  <2>2. n \div Lanes \in Nat /\ (n \div Lanes) * Lanes =< n
    BY <2>1, WholeChunks DEF n
  <2>3. Len(a) \div Lanes \in Nat /\ (Len(a) \div Lanes) * Lanes =< Len(a)
    BY <2>2 DEF n
  <2>4. Lanes * (Len(a) \div Lanes) = (Len(a) \div Lanes) * Lanes
    BY <2>1, <2>3
  <2> DEFINE x == (Len(a) \div Lanes) * Lanes
  <2>5. i \in 1..x /\ x =< Len(a) /\ x \in Nat
    BY <2>1, <2>3, <2>4
  <2> HIDE DEF x
  <2>6. i \in 1..Len(a)
    BY <2>1, <2>5
  <2>7. a[i] \in Int /\ b[i] \in Int
    BY <2>6
  <2>8. a[i] - b[i] \in Int /\ (a[i] - b[i] > FloatMax \/ a[i] - b[i] < -FloatMax)
    BY <1>3, <2>1, <2>7 DEF Narrow, Finite, Inf
  <2> DEFINE y == a[i] - b[i]
  <2>9. y * y \in Nat /\ y =< y * y /\ -y =< y * y
    BY <2>8, SquareAtLeast
  <2>10. ts[i] = y * y
    BY <2>6 DEF Squares
  <2>11. ts[i] =< SumOf(ts) /\ SumOf(ts) \in Nat
    BY <1>1, <2>6, TermsInSum
  <2>12. SumOf(ts) > FloatMax
    <3> DEFINE z == y * y
    <3>1. z \in Nat /\ z =< SumOf(ts) /\ y =< z /\ -y =< z /\ y \in Int
          /\ (y > FloatMax \/ y < -FloatMax)
      BY <2>8, <2>9, <2>10, <2>11
    <3> HIDE DEF z, y, ts
    <3> QED
      BY <2>1, <2>11, <3>1
  <2> QED
    BY <2>12 DEF Narrow
<1> QED
  BY <1>2, <1>3 DEF avx512_l2_squared, scalar_l2_squared

LEMMA SameDot ==
    ASSUME NEW a \in Seq(Int), NEW b \in Seq(Int), Len(a) = Len(b)
    PROVE  avx512_dot(a, b) = scalar_dot(a, b)
  BY TermsOfKernels, RegisterSumIsSum DEF avx512_dot, scalar_dot

LEMMA SameDistance ==
    ASSUME NEW simd \in BOOLEAN, NEW m \in Metrics,
           NEW a \in Seq(Int), NEW b \in Seq(Int), Len(a) = Len(b)
    PROVE  distance(simd, m, a, b) = distance(FALSE, m, a, b)
<1>1. l2_squared(simd, a, b) = l2_squared(FALSE, a, b)
  BY SameSquares DEF l2_squared
<1>2. /\ dot(simd, a, b) = dot(FALSE, a, b)
      /\ dot(simd, a, a) = dot(FALSE, a, a)
      /\ dot(simd, b, b) = dot(FALSE, b, b)
  BY SameDot DEF dot
<1>3. cosine(simd, a, b) = cosine(FALSE, a, b)
  BY <1>2 DEF cosine
<1> QED
  BY <1>1, <1>2, <1>3 DEF distance, Metrics

-----------------------------------------------------------------------------
(* Type correctness                                                         *)

QTypes ==
    /\ uses_simd \in BOOLEAN
    /\ metric \in Metrics
    /\ DOMAIN records \in SUBSET Ids
    /\ records \in [DOMAIN records -> Vectors]

LEMMA TypesInv == Spec => []QTypes
<1>1. ASSUME Init PROVE QTypes
  <2>1. PICK S \in SUBSET Ids : records \in [S -> Vectors]
    BY <1>1 DEF Init
  <2>2. DOMAIN records = S
    BY <2>1
  <2> QED
    BY <1>1, <2>1, <2>2 DEF Init, QTypes
<1>2. ASSUME QTypes, [Next]_vars PROVE QTypes'
  <2>1. UNCHANGED collection
    BY <1>2 DEF Next, vars, QueryRejected, QueryScan, QueryIndex
  <2> QED
    BY <1>2, <2>1 DEF QTypes, collection
<1> QED
  BY <1>1, <1>2, PTL DEF Spec

LEMMA FloatsAreInts ==
    /\ \A a \in Vectors : a \in Seq(Int)
    /\ \A a \in KernelInputs : a \in Seq(Int)
<1>1. ASSUME NEW a \in Seq(Floats) PROVE a \in Seq(Int)
  <2>1. Floats \subseteq Int
    BY FloatAssumption DEF Floats
  <2>2. a \in [1..Len(a) -> Floats] /\ Len(a) \in Nat
    OBVIOUS
  <2>3. a \in [1..Len(a) -> Int]
    BY <2>1, <2>2
  <2> QED
    BY <2>2, <2>3, TuplesOfInts
<1> QED
  BY <1>1, QueryAssumption

\* KernelsAgree: the kernels of a host with AVX-512 give exactly what the scalar
\* ones give, for vectors of every length and every width of a register, also where
\* a difference or a sum overflows (distance.cpp:76, 111).
THEOREM KernelsEquivalent == Spec => []KernelsAgree
<1>1. ASSUME QTypes PROVE KernelsAgree
  BY <1>1, SameDistance, FloatsAreInts DEF QTypes, KernelsAgree
<1> QED
  BY <1>1, TypesInv, PTL

-----------------------------------------------------------------------------
(* The order of distances                                                   *)

\* Every distance but NaN.
Ordered == {x \in [n : Int, d : Nat] : x.d = 0 => x.n \in {-1, 1}}

LEMMA OrderedParts ==
    ASSUME NEW x \in Ordered
    PROVE  /\ x.n \in Int /\ x.d \in Nat /\ x # NaN
           /\ x.d = 0 => x.n = 1 \/ x.n = -1
           /\ IsInf(x) <=> x.d = 0
  BY DEF Ordered, NaN, IsInf

LEMMA LessTotal ==
    ASSUME NEW x \in Ordered, NEW y \in Ordered
    PROVE  ~Less(x, x) /\ ~(Less(x, y) /\ Less(y, x))
<1>1. /\ x.n \in Int /\ x.d \in Nat /\ x # NaN /\ (IsInf(x) <=> x.d = 0)
      /\ y.n \in Int /\ y.d \in Nat /\ y # NaN /\ (IsInf(y) <=> y.d = 0)
  BY OrderedParts
<1>2. x.n * y.d \in Int /\ y.n * x.d \in Int /\ x.n * x.d \in Int
  BY <1>1
<1> QED
  BY <1>1, <1>2 DEF Less

LEMMA LessTransitive ==
    ASSUME NEW x \in Ordered, NEW y \in Ordered, NEW z \in Ordered,
           ~Less(y, x), ~Less(z, y)
    PROVE  ~Less(z, x)
<1>1. /\ x.n \in Int /\ x.d \in Nat /\ x # NaN /\ (IsInf(x) <=> x.d = 0)
      /\ y.n \in Int /\ y.d \in Nat /\ y # NaN /\ (IsInf(y) <=> y.d = 0)
      /\ z.n \in Int /\ z.d \in Nat /\ z # NaN /\ (IsInf(z) <=> z.d = 0)
      /\ x.d = 0 => x.n = 1 \/ x.n = -1
      /\ y.d = 0 => y.n = 1 \/ y.n = -1
      /\ z.d = 0 => z.n = 1 \/ z.n = -1
  BY OrderedParts
<1>2. CASE x.d # 0 /\ y.d # 0 /\ z.d # 0
  <2>1. x.n * y.d =< y.n * x.d /\ y.n * z.d =< z.n * y.d
    BY <1>1, <1>2 DEF Less
  <2>2. x.n * z.d =< z.n * x.d
    BY <1>1, <1>2, <2>1, FractionsOrdered
  <2> QED
    BY <1>1, <1>2, <2>2 DEF Less
<1> DEFINE Infinite(u, v) == IF u.d = 0 THEN IF v.d = 0 THEN u.n < v.n ELSE u.n = -1
                             ELSE v.n = 1
<1>3. ASSUME NEW u \in Ordered, NEW v \in Ordered, u.d = 0 \/ v.d = 0
      PROVE  Less(u, v) <=> Infinite(u, v)
  <2>1. /\ u.n \in Int /\ u.d \in Nat /\ u # NaN /\ (IsInf(u) <=> u.d = 0)
        /\ v.n \in Int /\ v.d \in Nat /\ v # NaN /\ (IsInf(v) <=> v.d = 0)
        /\ u.d = 0 => u.n = 1 \/ u.n = -1
        /\ v.d = 0 => v.n = 1 \/ v.n = -1
    BY OrderedParts
  <2>2. CASE u.d = 0 /\ v.d = 0
    BY <2>1, <2>2 DEF Less
  <2>3. CASE u.d = 0 /\ v.d # 0
    <3>1. v.n * u.d = 0 /\ (u.n = 1 => u.n * v.d = v.d) /\ (u.n = -1 => u.n * v.d = -v.d)
      BY <2>1, <2>3
    <3> QED
      BY <2>1, <2>3, <3>1 DEF Less
  <2>4. CASE u.d # 0 /\ v.d = 0
    <3>1. u.n * v.d = 0 /\ (v.n = 1 => v.n * u.d = u.d) /\ (v.n = -1 => v.n * u.d = -u.d)
      BY <2>1, <2>4
    <3> QED
      BY <2>1, <2>4, <3>1 DEF Less
  <2> QED
    BY <1>3, <2>2, <2>3, <2>4
<1>4. CASE y.d = 0
  <2>1. ~Infinite(y, x) /\ ~Infinite(z, y)
    BY <1>3, <1>4
  <2>2. ~Infinite(z, x) /\ (z.d = 0 \/ x.d = 0)
    BY <1>1, <1>4, <2>1
  <2> QED
    BY <1>3, <2>2
<1>5. CASE y.d # 0 /\ (x.d = 0 \/ z.d = 0)
  <2>1. (x.d = 0 => ~Infinite(y, x)) /\ (z.d = 0 => ~Infinite(z, y))
    BY <1>3
  <2>2. ~Infinite(z, x)
    BY <1>1, <1>5, <2>1
  <2> QED
    BY <1>3, <1>5, <2>2
<1> QED
  BY <1>2, <1>4, <1>5

\* exact_distance: an undefined distance counts as +infinity.
Exact(m, a, b) ==
    IF distance(FALSE, m, a, b) = Undefined THEN Inf(1) ELSE distance(FALSE, m, a, b)

LEMMA FractionIsOrdered ==
    ASSUME NEW u, NEW v, v # 0
    PROVE  [n |-> u, d |-> v] # NaN /\ (u \in Int /\ v \in Nat => [n |-> u, d |-> v] \in Ordered)
  BY DEF NaN, Ordered

LEMMA NarrowOrdered ==
    ASSUME NEW x \in Int
    PROVE  /\ Narrow(x) \in Ordered
           /\ ~IsInf(Narrow(x)) => Narrow(x) = Finite(x)
  BY FloatAssumption DEF Narrow, Ordered, IsInf, Inf, Finite

\* A distance is a fraction, an infinity, undefined or NaN, and NaN only for the
\* cosine of vectors with an infinite norm.
LEMMA ExactOrdered ==
    ASSUME NEW m \in Metrics, NEW a \in Seq(Int), NEW b \in Seq(Int), Len(a) = Len(b)
    PROVE  /\ Exact(m, a, b) # NaN => Exact(m, a, b) \in Ordered
           /\ ~IsInf(scalar_dot(a, a)) /\ ~IsInf(scalar_dot(b, b)) => Exact(m, a, b) # NaN
<1>1. /\ SumOf(Squares(a, b)) \in Int /\ SumOf(Products(a, b)) \in Int
      /\ SumOf(Products(a, a)) \in Nat /\ SumOf(Products(b, b)) \in Nat
  <2>1. /\ SumOf(Squares(a, b)) \in Nat /\ SumOf(Products(a, a)) \in Nat
        /\ SumOf(Products(b, b)) \in Nat
    BY TermsOfKernels, TermsInSum
  <2>2. SumOf(Products(a, b)) \in Int
    BY TermsOfKernels, SumOfLoop, SumIs DEF PartialSums
  <2> QED
    BY <2>1, <2>2
<1>2. /\ scalar_l2_squared(a, b) \in Ordered /\ scalar_dot(a, b) \in Ordered
      /\ scalar_dot(a, a) \in Ordered /\ scalar_dot(b, b) \in Ordered
      /\ ~IsInf(scalar_dot(a, a)) => scalar_dot(a, a) = Finite(SumOf(Products(a, a)))
      /\ ~IsInf(scalar_dot(b, b)) => scalar_dot(b, b) = Finite(SumOf(Products(b, b)))
  BY <1>1, NarrowOrdered DEF scalar_l2_squared, scalar_dot
<1>3. Inf(1) \in Ordered /\ Finite(0) \in Ordered /\ NaN \notin Ordered /\ Inf(1) # NaN
  BY DEF Inf, Finite, NaN, Ordered
<1> DEFINE na == scalar_dot(a, a)
           nb == scalar_dot(b, b)
           ab == scalar_dot(a, b)
<1>4. cosine(FALSE, a, b) = Undefined \/ cosine(FALSE, a, b) = NaN
      \/ cosine(FALSE, a, b) \in Ordered
  <2>1. CASE na = Finite(0) \/ nb = Finite(0)
    BY <2>1 DEF cosine, dot
  <2>2. CASE ~(na = Finite(0) \/ nb = Finite(0)) /\ (IsInf(na) \/ IsInf(nb))
    BY <2>2, <1>3 DEF cosine, dot
  <2>3. CASE ~(na = Finite(0) \/ nb = Finite(0)) /\ ~(IsInf(na) \/ IsInf(nb))
    <3>1. cosine(FALSE, a, b) = [n |-> -(Sign(ab.n) * ab.n * ab.n), d |-> na.n * nb.n]
      BY <2>3 DEF cosine, dot
    <3>2. na.n \in Nat /\ nb.n \in Nat /\ na.n # 0 /\ nb.n # 0
      <4>1. na = Finite(SumOf(Products(a, a))) /\ nb = Finite(SumOf(Products(b, b)))
        BY <1>2, <2>3
      <4>2. na.n = SumOf(Products(a, a)) /\ nb.n = SumOf(Products(b, b))
        BY <4>1 DEF Finite
      <4> QED
        BY <1>1, <2>3, <4>1, <4>2
    <3>3. na.n * nb.n \in Nat /\ na.n * nb.n # 0
      <4>1. na.n - 1 \in Nat
        BY <3>2
      <4>2. (na.n - 1) * nb.n \in Nat /\ (na.n - 1) * nb.n = na.n * nb.n - nb.n
        BY <3>2, <4>1
      <4> QED
        BY <3>2, <4>2
    <3>4. -(Sign(ab.n) * ab.n * ab.n) \in Int
      <4>1. ab.n \in Int
        BY <1>2, OrderedParts
      <4>2. Sign(ab.n) \in Int
        BY <4>1 DEF Sign
      <4>3. Sign(ab.n) * ab.n \in Int
        BY <4>1, <4>2
      <4>4. Sign(ab.n) * ab.n * ab.n \in Int
        BY <4>1, <4>3
      <4> QED
        BY <4>4
    <3> DEFINE u == -(Sign(ab.n) * ab.n * ab.n)
               v == na.n * nb.n
    <3>5. cosine(FALSE, a, b) = [n |-> u, d |-> v] /\ v \in Nat \ {0} /\ u \in Int
      BY <3>1, <3>3, <3>4
    <3> HIDE DEF u, v
    <3>6. [n |-> u, d |-> v] \in Ordered
      BY <3>5, FractionIsOrdered
    <3> QED
      BY <3>5, <3>6
  <2> QED
    BY <2>1, <2>2, <2>3
<1>5. ~IsInf(na) /\ ~IsInf(nb) => cosine(FALSE, a, b) # NaN
  <2>0. SUFFICES ASSUME ~IsInf(na), ~IsInf(nb), cosine(FALSE, a, b) = NaN PROVE FALSE
    OBVIOUS
  <2>1. na = Finite(na.n) /\ nb = Finite(nb.n) /\ na.n \in Nat /\ nb.n \in Nat
    <3>1. na = Finite(SumOf(Products(a, a))) /\ nb = Finite(SumOf(Products(b, b)))
      BY <1>2, <2>0
    <3>2. na.n = SumOf(Products(a, a)) /\ nb.n = SumOf(Products(b, b))
      BY <3>1 DEF Finite
    <3> QED
      BY <1>1, <3>1, <3>2
  <2>2. CASE na = Finite(0) \/ nb = Finite(0)
    BY <2>0, <2>2 DEF cosine, dot, NaN, Undefined
  <2>3. CASE ~(na = Finite(0) \/ nb = Finite(0))
    <3>1. cosine(FALSE, a, b) = [n |-> -(Sign(ab.n) * ab.n * ab.n), d |-> na.n * nb.n]
      BY <2>0, <2>3 DEF cosine, dot
    <3>2. na.n # 0 /\ nb.n # 0
      BY <2>1, <2>3
    <3>3. na.n * nb.n # 0
      <4>1. na.n - 1 \in Nat
        BY <2>1, <3>2
      <4>2. (na.n - 1) * nb.n \in Nat /\ (na.n - 1) * nb.n = na.n * nb.n - nb.n
        BY <2>1, <4>1
      <4> QED
        BY <2>1, <3>2, <4>2
    <3> DEFINE u == -(Sign(ab.n) * ab.n * ab.n)
               v == na.n * nb.n
    <3>4. cosine(FALSE, a, b) = [n |-> u, d |-> v] /\ v # 0
      BY <3>1, <3>3
    <3> HIDE DEF u, v
    <3>5. [n |-> u, d |-> v] # NaN
      BY <3>4, FractionIsOrdered
    <3> QED
      BY <2>0, <3>4, <3>5
  <2> QED
    BY <2>2, <2>3
<1>6. \/ m = "Euclidean" /\ distance(FALSE, m, a, b) = scalar_l2_squared(a, b)
      \/ m = "DotProduct" /\ distance(FALSE, m, a, b) = scalar_dot(a, b)
      \/ m = "Cosine" /\ distance(FALSE, m, a, b) = cosine(FALSE, a, b)
  BY DEF Metrics, distance, l2_squared, dot
<1> QED
  BY <1>2, <1>3, <1>4, <1>5, <1>6 DEF Exact

-----------------------------------------------------------------------------
(* Ranking                                                                  *)

\* The records S with the distances dist.
Scored(S, dist) == {[id |-> id, distance |-> dist[id]] : id \in S}

RankedBy(S, k, dist) ==
    [i \in 1..Min(k, Cardinality(S)) |->
        CHOOSE x \in Scored(S, dist) : Cardinality({y \in Scored(S, dist) : Before(y, x)}) = i - 1]

\* What an answer of the k nearest records of S is.
Nearest(r, S, k, dist) ==
    /\ Len(r) = Min(k, Cardinality(S))
    /\ DOMAIN r = 1..Min(k, Cardinality(S))
    /\ \A i \in DOMAIN r : r[i].id \in S /\ r[i].distance = dist[r[i].id]
    /\ \A i, j \in DOMAIN r : i < j => Before(r[i], r[j])
    /\ \A i \in DOMAIN r : \A id \in S :
           (\A j \in DOMAIN r : r[j].id # id) =>
               Before(r[i], [id |-> id, distance |-> dist[id]])

LEMMA RankedByIsNearest ==
    ASSUME NEW S \in SUBSET Int, IsFiniteSet(S), NEW k \in Nat, NEW dist,
           \A id \in S : dist[id] \in Ordered
    PROVE  Nearest(RankedBy(S, k, dist), S, k, dist)
<1> DEFINE T == Scored(S, dist)
           R == {p \in T \X T : Before(p[1], p[2])}
           r == RankedBy(S, k, dist)
           m == Min(k, Cardinality(S))
<1>1. \A x \in T : /\ x.id \in S /\ x.distance = dist[x.id] /\ x.distance \in Ordered
                   /\ x = [id |-> x.id, distance |-> dist[x.id]]
  BY DEF Scored
<1>2. \A id \in S : [id |-> id, distance |-> dist[id]] \in T
  BY DEF Scored
<1>3. IsFiniteSet(T) /\ Cardinality(T) = Cardinality(S)
  <2> DEFINE f == [id \in S |-> [id |-> id, distance |-> dist[id]]]
  <2>1. f \in [S -> T]
    BY <1>2
  <2>2. \A x, y \in S : f[x] = f[y] => x = y
    <3> SUFFICES ASSUME NEW x \in S, NEW y \in S, f[x] = f[y] PROVE x = y
      OBVIOUS
    <3>1. f[x].id = x /\ f[y].id = y
      OBVIOUS
    <3> HIDE DEF f
    <3> QED
      BY <3>1
  <2>3. \A t \in T : \E x \in S : f[x] = t
    BY <1>1
  <2> HIDE DEF f, T
  <2>4. f \in Bijection(S, T)
    BY <2>1, <2>2, <2>3 DEF Bijection, Injection, Surjection, IsInjective
  <2> QED
    BY <2>4, FS_Bijection DEF ExistsBijection
<1>4. ASSUME NEW x \in T, NEW y \in T
      PROVE  /\ <<x, y>> \in R <=> Before(x, y)
             /\ Before(x, y) <=> \/ Less(x.distance, y.distance)
                                 \/ ~Less(y.distance, x.distance) /\ x.id < y.id
  <2>1. x.distance # NaN /\ y.distance # NaN
    BY <1>1, OrderedParts
  <2>2. Before(x, y) <=> \/ Less(x.distance, y.distance)
                         \/ ~Less(y.distance, x.distance) /\ x.id < y.id
    BY <2>1 DEF Before
  <2> QED
    BY <2>2
<1> HIDE DEF T, R
<1>5. StrictOrder(T, R)
  <2>1. ASSUME NEW x \in T PROVE <<x, x>> \notin R
    <3>1. ~Less(x.distance, x.distance) /\ x.id \in Int
      BY <1>1, LessTotal
    <3> QED
      BY <1>4, <3>1
  <2>2. ASSUME NEW x \in T, NEW y \in T, NEW z \in T, <<x, y>> \in R, <<y, z>> \in R
        PROVE  <<x, z>> \in R
    <3> DEFINE a == x.distance
               b == y.distance
               c == z.distance
    <3>1. a \in Ordered /\ b \in Ordered /\ c \in Ordered
          /\ x.id \in Int /\ y.id \in Int /\ z.id \in Int
      BY <1>1
    <3>2. Less(a, b) \/ (~Less(b, a) /\ x.id < y.id)
      BY <1>4, <2>2
    <3>3. Less(b, c) \/ (~Less(c, b) /\ y.id < z.id)
      BY <1>4, <2>2
    <3> HIDE DEF a, b, c
    <3>4. ~Less(b, a) /\ ~Less(c, b)
      BY <3>1, <3>2, <3>3, LessTotal
    <3>5. ~Less(c, a)
      BY <3>1, <3>4, LessTransitive
    <3>6. ~Less(a, c) /\ ~Less(c, b) => ~Less(a, b)
      BY <3>1, LessTransitive
    <3>7. ~Less(b, a) /\ ~Less(a, c) => ~Less(b, c)
      BY <3>1, LessTransitive
    <3>8. Less(a, c) \/ (~Less(c, a) /\ x.id < z.id)
      BY <3>1, <3>2, <3>3, <3>4, <3>5, <3>6, <3>7
    <3> QED
      BY <1>4, <3>8 DEF a, c
  <2>3. ASSUME NEW x \in T, NEW y \in T, x # y PROVE <<x, y>> \in R \/ <<y, x>> \in R
    <3>1. x.id # y.id /\ x.id \in Int /\ y.id \in Int
      BY <1>1, <2>3
    <3> QED
      BY <1>4, <3>1
  <2> QED
    BY <2>1, <2>2, <2>3 DEF StrictOrder
<1>6. ASSUME NEW x \in T PROVE {y \in T : Before(y, x)} = Earlier(T, R, x)
  BY <1>4 DEF Earlier
<1>7. Cardinality(S) \in Nat /\ m \in Nat /\ m =< Cardinality(S)
  BY FS_CardinalityType DEF Min
<1>8. r = [i \in 1..m |-> CHOOSE x \in T : Cardinality({y \in T : Before(y, x)}) = i - 1]
  BY DEF RankedBy, T
<1>9. ASSUME NEW i \in 1..m
      PROVE  r[i] \in T /\ Cardinality(Earlier(T, R, r[i])) = i - 1
  <2>1. i - 1 \in 0..(Cardinality(T) - 1)
    BY <1>3, <1>7
  <2>2. \E x \in T : Cardinality(Earlier(T, R, x)) = i - 1
    BY <1>3, <1>5, <2>1, RankTaken
  <2>3. \E x \in T : Cardinality({y \in T : Before(y, x)}) = i - 1
    BY <1>6, <2>2
  <2>4. r[i] = CHOOSE x \in T : Cardinality({y \in T : Before(y, x)}) = i - 1
    BY <1>8
  <2>5. r[i] \in T /\ Cardinality({y \in T : Before(y, r[i])}) = i - 1
    BY <2>3, <2>4
  <2> QED
    BY <1>6, <2>5
<1>10. DOMAIN r = 1..m /\ Len(r) = m
  BY <1>7, <1>8
<1> HIDE DEF r, m
<1>11. ASSUME NEW x \in T, NEW y \in T
       PROVE  /\ Before(x, y) <=>
                     Cardinality(Earlier(T, R, x)) < Cardinality(Earlier(T, R, y))
              /\ Cardinality(Earlier(T, R, x)) \in Nat
              /\ Cardinality(Earlier(T, R, x)) < Cardinality(T)
  <2>1. /\ Cardinality(Earlier(T, R, x)) \in 0..(Cardinality(T) - 1)
        /\ <<x, y>> \in R <=> Cardinality(Earlier(T, R, x)) < Cardinality(Earlier(T, R, y))
    BY <1>3, <1>5, RankGrows
  <2> QED
    BY <1>3, <1>4, <1>7, <2>1
<1>12. \A i \in 1..m : r[i].id \in S /\ r[i].distance = dist[r[i].id]
  BY <1>1, <1>9
<1>13. ASSUME NEW i \in 1..m, NEW j \in 1..m, i < j PROVE Before(r[i], r[j])
  <2>1. i - 1 < j - 1
    BY <1>7, <1>13
  <2> QED
    BY <1>9, <1>11, <2>1
<1>14. ASSUME NEW i \in 1..m, NEW id \in S, \A j \in 1..m : r[j].id # id
       PROVE  Before(r[i], [id |-> id, distance |-> dist[id]])
  <2> DEFINE x == [id |-> id, distance |-> dist[id]]
             c == Cardinality(Earlier(T, R, x))
  <2>1. x \in T /\ x.id = id
    BY <1>2
  <2> HIDE DEF x
  <2>2. c \in Nat
    BY <1>11, <2>1
  <2> HIDE DEF c
  <2>3. ASSUME c < m PROVE FALSE
    <3> DEFINE j == c + 1
    <3>1. j \in 1..m /\ j - 1 = c
      BY <1>7, <2>2, <2>3
    <3> HIDE DEF j
    <3>2. r[j] \in T /\ Cardinality(Earlier(T, R, r[j])) = c
      BY <1>9, <3>1
    <3>3. ~Before(r[j], x) /\ ~Before(x, r[j])
      BY <1>11, <2>1, <2>2, <3>2 DEF c
    <3>4. r[j] = x
      BY <1>4, <1>5, <2>1, <3>2, <3>3 DEF StrictOrder
    <3> QED
      BY <1>14, <2>1, <3>1, <3>4
  <2>4. i - 1 < c
    BY <1>7, <2>2, <2>3
  <2>5. Before(r[i], x)
    BY <1>9, <1>11, <2>1, <2>4 DEF c
  <2> QED
    BY <2>5 DEF x
<1>15. Nearest(r, S, k, dist)
  BY <1>10, <1>12, <1>13, <1>14 DEF Nearest, m
<1> QED
  BY <1>15 DEF r

-----------------------------------------------------------------------------
(* The answer                                                               *)

\* The distances of the stored records from q.
Distances(q) == [id \in DOMAIN records |-> Exact(metric, q, records[id])]

\* The records an answer is chosen from.
Pool ==
    IF /\ index_type # "None"
       /\ Cardinality(Live(candidates)) >= request.k
       /\ request.k < Cardinality(DOMAIN records)
    THEN Live(candidates) ELSE DOMAIN records

\* An answer ranks the pool by the exact distances.
RanksPool ==
    Answered =>
        \E q \in Vectors, k \in Ks :
            /\ k >= 1
            /\ request = [q |-> q, k |-> k]
            /\ results = RankedBy(Pool, k, Distances(q))

LEMMA RankedIs ==
    ASSUME QTypes, NEW q \in Vectors, NEW k \in Ks, request' = [q |-> q, k |-> k],
           NEW S \in SUBSET DOMAIN records
    PROVE  Ranked(S, k) = RankedBy(S, k, Distances(q))
<1>1. request'.q = q
  OBVIOUS
<1>2. ASSUME NEW id \in S PROVE exact_distance(id) = Distances(q)[id]
  <2>1. id \in DOMAIN records /\ records[id] \in Vectors
    BY DEF QTypes
  <2>2. q \in Seq(Int) /\ records[id] \in Seq(Int) /\ Len(q) = Len(records[id])
    BY <2>1, FloatsAreInts, QueryAssumption
  <2>3. distance(uses_simd, metric, q, records[id]) = distance(FALSE, metric, q, records[id])
    BY <2>2, SameDistance DEF QTypes
  <2>4. exact_distance(id) = Exact(metric, q, records[id])
    BY <1>1, <2>3 DEF exact_distance, Exact
  <2> QED
    BY <2>1, <2>4 DEF Distances
<1>3. {[id |-> id, distance |-> exact_distance(id)] : id \in S} = Scored(S, Distances(q))
  BY <1>2 DEF Scored
<1> DEFINE Listing(T) == [i \in 1..Min(k, Cardinality(S)) |->
                            CHOOSE x \in T : Cardinality({y \in T : Before(y, x)}) = i - 1]
<1>4. Ranked(S, k) = Listing({[id |-> id, distance |-> exact_distance(id)] : id \in S})
  BY DEF Ranked
<1>5. RankedBy(S, k, Distances(q)) = Listing(Scored(S, Distances(q)))
  BY DEF RankedBy
<1> HIDE DEF Listing
<1> QED
  BY <1>3, <1>4, <1>5

LEMMA RanksPoolInv == Spec => []RanksPool
<1>1. Init => RanksPool
  BY DEF Init, RanksPool, Answered
<1>2. ASSUME QTypes, RanksPool, [Next]_vars PROVE RanksPool'
  <2>1. ASSUME NEW q \in Vectors \cup Malformed, NEW k \in Ks, QueryRejected(q, k)
        PROVE  RanksPool'
    BY <2>1 DEF QueryRejected, RanksPool, Answered
  <2>2. ASSUME NEW q \in Vectors, NEW k \in Ks, k >= 1, request' = [q |-> q, k |-> k],
               UNCHANGED collection, Pool' \in SUBSET DOMAIN records, results' = Ranked(Pool', k)
        PROVE  RanksPool'
    <3>1. Ranked(Pool', k) = RankedBy(Pool', k, Distances(q))
      BY <1>2, <2>2, RankedIs
    <3>2. Distances(q)' = Distances(q)
      BY <2>2 DEF Distances, collection
    <3>3. results' = RankedBy(Pool', k, Distances(q)')
      BY <2>2, <3>1, <3>2
    <3>4. RankedBy(Pool', k, Distances(q)') = RankedBy(Pool, k, Distances(q))'
      BY DEF RankedBy, Scored, Before, Min
    <3> QED
      BY <2>2, <3>3, <3>4 DEF RanksPool
  <2>3. ASSUME NEW q \in Vectors \cup Malformed, NEW k \in Ks, QueryScan(q, k)
        PROVE  RanksPool'
    <3>1. q \in Vectors /\ k >= 1 /\ request' = [q |-> q, k |-> k] /\ UNCHANGED collection
          /\ ~UseIndex(k) /\ results' = Ranked(DOMAIN records, k)
      BY <2>3 DEF QueryScan
    <3>2. request'.k = k
      BY <3>1
    <3>3. Pool' = DOMAIN records
      BY <3>1, <3>2 DEF Pool, UseIndex, collection
    <3> QED
      BY <2>2, <3>1, <3>3
  <2>4. ASSUME NEW q \in Vectors \cup Malformed, NEW k \in Ks,
               NEW cs \in CandidateLists, QueryIndex(q, k, cs)
        PROVE  RanksPool'
    <3> DEFINE S == IF Cardinality(Live(cs)) < Min(k, Cardinality(DOMAIN records))
                    THEN DOMAIN records ELSE Live(cs)
    <3>1. q \in Vectors /\ k >= 1 /\ request' = [q |-> q, k |-> k] /\ UNCHANGED collection
          /\ candidates' = cs /\ UseIndex(k) /\ results' = Ranked(S, k)
      BY <2>4 DEF QueryIndex
    <3>2. request'.k = k /\ Live(candidates)' = Live(cs) /\ Live(cs) \in SUBSET DOMAIN records
      BY <3>1 DEF Live, collection
    <3>3. Cardinality(Live(cs)) \in Nat /\ Cardinality(DOMAIN records) \in Nat /\ k \in Int
      <4>1. IsFiniteSet(DOMAIN records)
        BY <1>2, QueryAssumption, FS_Subset DEF QTypes
      <4>2. IsFiniteSet(Live(cs))
        BY <3>2, <4>1, FS_Subset
      <4> QED
        BY <4>1, <4>2, FS_CardinalityType, QueryAssumption
    <3>4. Min(k, Cardinality(DOMAIN records)) = k /\ k < Cardinality(DOMAIN records)
          /\ index_type # "None"
      BY <3>1, <3>3 DEF UseIndex, Min
    <3>5. Pool' = S
      BY <3>1, <3>2, <3>3, <3>4 DEF Pool, collection
    <3> QED
      BY <2>2, <3>1, <3>2, <3>5
  <2>5. CASE UNCHANGED vars
    <3>1. Pool' = Pool
      BY <2>5 DEF vars, collection, Pool, Live
    <3>2. ASSUME NEW q PROVE Distances(q)' = Distances(q)
      BY <2>5 DEF vars, collection, Distances
    <3>3. ASSUME NEW q, NEW k
          PROVE  RankedBy(Pool, k, Distances(q))' = RankedBy(Pool', k, Distances(q)')
      BY DEF RankedBy, Scored, Before, Min
    <3>4. UNCHANGED <<status, request, results>>
      BY <2>5 DEF vars
    <3> QED
      BY <1>2, <3>1, <3>2, <3>3, <3>4 DEF RanksPool, Answered
  <2> QED
    BY <1>2, <2>1, <2>3, <2>4, <2>5 DEF Next
<1> QED
  BY <1>1, <1>2, TypesInv, PTL DEF Spec

\* A ranking of a pool is the right answer when no distance is NaN.
LEMMA RankingIsAnswer ==
    ASSUME QTypes, RanksPool, DistancesNeverNaN PROVE AnswerComplete /\ NearestFirst
<1> SUFFICES ASSUME Answered PROVE AnswerComplete /\ NearestFirst
  BY DEF AnswerComplete, NearestFirst
<1>1. PICK q \in Vectors, k \in Ks : /\ k >= 1
                                     /\ request = [q |-> q, k |-> k]
                                     /\ results = RankedBy(Pool, k, Distances(q))
  BY DEF RanksPool
<1> DEFINE dist == Distances(q)
           R == DOMAIN records
           m == Min(k, Cardinality(Pool))
<1>2. request.q = q /\ request.k = k /\ k \in Nat
  BY <1>1, QueryAssumption
<1>3. ASSUME NEW id \in R PROVE dist[id] = DistanceOf(id) /\ dist[id] \in Ordered
  <2>1. records[id] \in Vectors
    BY DEF QTypes
  <2>2. q \in Seq(Int) /\ records[id] \in Seq(Int) /\ Len(q) = Len(records[id])
    BY <2>1, FloatsAreInts, QueryAssumption
  <2>3. dist[id] = Exact(metric, q, records[id])
    BY DEF Distances
  <2>4. DistanceOf(id) = Exact(metric, q, records[id])
    BY <1>2 DEF DistanceOf, Exact
  <2>5. DistanceOf(id) # NaN
    BY DEF DistancesNeverNaN
  <2> QED
    BY <2>2, <2>3, <2>4, <2>5, ExactOrdered DEF QTypes
<1>4. /\ Pool \in SUBSET R /\ R \in SUBSET Int /\ IsFiniteSet(R) /\ IsFiniteSet(Pool)
      /\ Cardinality(Pool) \in Nat /\ Cardinality(R) \in Nat
      /\ Cardinality(Pool) =< Cardinality(R)
  <2>1. R \in SUBSET Int /\ IsFiniteSet(R)
    BY QueryAssumption, FS_Subset DEF QTypes
  <2>2. Pool \in SUBSET R
    BY DEF Pool, Live
  <2> QED
    BY <2>1, <2>2, FS_Subset, FS_CardinalityType
<1>5. m = Min(k, Cardinality(R)) /\ m \in Nat
  BY <1>2, <1>4 DEF Pool, Min
<1> HIDE DEF dist
<1>6. Nearest(results, Pool, k, dist)
  <2>1. \A id \in Pool : dist[id] \in Ordered
    BY <1>3, <1>4
  <2>2. Pool \in SUBSET Int
    BY <1>4
  <2> QED
    BY <1>1, <1>2, <1>4, <2>1, <2>2, RankedByIsNearest DEF dist
<1>7. /\ Len(results) = m /\ DOMAIN results = 1..m
      /\ \A i \in 1..m : results[i].id \in Pool /\ results[i].distance = dist[results[i].id]
      /\ \A i, j \in 1..m : i < j => Before(results[i], results[j])
      /\ \A i \in 1..m : \A id \in Pool :
             (\A j \in 1..m : results[j].id # id) =>
                 Before(results[i], [id |-> id, distance |-> dist[id]])
  BY <1>6 DEF Nearest
<1> HIDE DEF m
<1>8. ASSUME NEW x, NEW y, x.distance \in Ordered, y.distance \in Ordered,
             x.id \in Int, y.id \in Int, Before(x, y)
      PROVE  /\ x.id # y.id \/ x.distance # y.distance
             /\ ~Less(y.distance, x.distance)
             /\ ~Less(x.distance, y.distance) => x.id < y.id
  <2>1. Less(x.distance, y.distance)
        \/ (~Less(y.distance, x.distance) /\ x.id < y.id)
    BY <1>8 DEF Before
  <2>2. ~(Less(x.distance, y.distance) /\ Less(y.distance, x.distance))
        /\ ~Less(x.distance, x.distance)
    BY <1>8, LessTotal
  <2> QED
    BY <1>8, <2>1, <2>2
<1>9. ASSUME NEW i \in 1..m
      PROVE  results[i].id \in R /\ results[i].id \in Int /\ results[i].distance \in Ordered
             /\ results[i].distance = dist[results[i].id]
             /\ results[i].distance = DistanceOf(results[i].id)
  BY <1>3, <1>4, <1>7
<1>10. \A i, j \in 1..m : results[i].id = results[j].id => i = j
  <2> SUFFICES ASSUME NEW i \in 1..m, NEW j \in 1..m, results[i].id = results[j].id,
                      i < j \/ j < i
               PROVE  FALSE
    BY <1>5
  <2>1. results[i].distance = results[j].distance
    BY <1>9
  <2>2. ~Before(results[i], results[j]) /\ ~Before(results[j], results[i])
    BY <1>8, <1>9, <2>1
  <2> QED
    BY <1>7, <2>2
<1>11. ResultIds = {results[i].id : i \in 1..m}
  BY <1>7 DEF ResultIds
<1>12. Cardinality(ResultIds) = m
  <2> DEFINE f == [i \in 1..m |-> results[i].id]
  <2>1. f \in [1..m -> ResultIds]
    BY <1>11
  <2>2. \A i, j \in 1..m : f[i] = f[j] => i = j
    BY <1>10
  <2>3. \A t \in ResultIds : \E i \in 1..m : f[i] = t
    BY <1>11
  <2> HIDE DEF f
  <2>4. f \in Bijection(1..m, ResultIds)
    BY <2>1, <2>2, <2>3 DEF Bijection, Injection, Surjection, IsInjective
  <2>5. IsFiniteSet(1..m) /\ Cardinality(1..m) = m
    BY <1>5, FS_Interval
  <2> QED
    BY <2>4, <2>5, FS_Bijection DEF ExistsBijection
<1>13. AnswerComplete
  <2>1. ResultIds \subseteq R
    BY <1>9, <1>11
  <2> QED
    BY <1>2, <1>5, <1>7, <1>9, <1>12, <2>1 DEF AnswerComplete
<1>14. ASSUME NEW i \in 1..m, NEW j \in 1..m, i < j
       PROVE  /\ ~Less(results[j].distance, results[i].distance)
              /\ ~Less(results[i].distance, results[j].distance) => results[i].id < results[j].id
  BY <1>7, <1>8, <1>9, <1>14
<1>15. ASSUME NEW id \in Pool \ ResultIds, NEW i \in 1..m
       PROVE  /\ ~Less(DistanceOf(id), results[i].distance)
              /\ ~Less(results[i].distance, DistanceOf(id)) => results[i].id < id
  <2> DEFINE y == [id |-> id, distance |-> dist[id]]
  <2>1. \A j \in 1..m : results[j].id # id
    BY <1>11
  <2>2. Before(results[i], y)
    BY <1>7, <2>1
  <2>3. y.id = id /\ y.distance = dist[id] /\ id \in Int /\ dist[id] \in Ordered
        /\ dist[id] = DistanceOf(id)
    BY <1>3, <1>4
  <2> HIDE DEF y
  <2> QED
    BY <1>8, <1>9, <2>2, <2>3
<1>16. NearestFirst
  <2>1. Pool = IF index_type # "None" /\ Cardinality(Live(candidates)) >= request.k
                  /\ request.k < Cardinality(DOMAIN records)
               THEN Live(candidates) ELSE DOMAIN records
    BY DEF Pool
  <2> QED
    BY <1>7, <1>14, <1>15, <2>1 DEF NearestFirst
<1> QED
  BY <1>13, <1>16

\* AnswerComplete and NearestFirst: whatever the index returns, whichever kernels
\* run and however ties fall, an answer has min(k, record count) distinct stored
\* records with their exact distances, in order, none left out that comes before
\* one returned (collection.cpp:342-418), provided that, as the comment at
\* collection.cpp:404 says, no distance is NaN.
THEOREM AnswersRight == Spec => [](DistancesNeverNaN => AnswerComplete /\ NearestFirst)
<1>1. QTypes /\ RanksPool => (DistancesNeverNaN => AnswerComplete /\ NearestFirst)
  BY RankingIsAnswer
<1> QED
  BY <1>1, TypesInv, RanksPoolInv, PTL

\* When no squared norm of a vector of the collection overflows float.
NormsFinite == \A v \in Vectors : ~IsInf(scalar_dot(v, v))

\* AnswerComplete and NearestFirst: under every metric then, cosine included, the
\* comment's premise holds, and every answer is right.
THEOREM FiniteNormsSuffice ==
    ASSUME NormsFinite PROVE Spec => [](DistancesNeverNaN /\ AnswerComplete /\ NearestFirst)
<1>1. QTypes /\ RanksPool => DistancesNeverNaN
  <2> SUFFICES ASSUME QTypes, RanksPool, Answered, NEW id \in DOMAIN records
               PROVE  DistanceOf(id) # NaN
    BY DEF DistancesNeverNaN
  <2>1. PICK q \in Vectors : request.q = q
    BY DEF RanksPool
  <2>2. records[id] \in Vectors
    BY DEF QTypes
  <2>3. q \in Seq(Int) /\ records[id] \in Seq(Int) /\ Len(q) = Len(records[id])
    BY <2>2, FloatsAreInts, QueryAssumption
  <2>4. DistanceOf(id) = Exact(metric, q, records[id])
    BY <2>1 DEF DistanceOf, Exact
  <2>5. ~IsInf(scalar_dot(q, q)) /\ ~IsInf(scalar_dot(records[id], records[id]))
    BY <2>2 DEF NormsFinite
  <2> QED
    BY <2>3, <2>4, <2>5, ExactOrdered DEF QTypes
<1> QED
  BY <1>1, TypesInv, RanksPoolInv, AnswersRight, PTL
=============================================================================
