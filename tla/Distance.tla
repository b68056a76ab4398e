------------------------------- MODULE Distance -------------------------------
(***************************************************************************)
(* The distance calculator of src/core/distance.cpp over a small float      *)
(* format: a vector is a sequence of integers of magnitude at most FloatMax,*)
(* the kernels add up exactly (they accumulate in double) and narrow the    *)
(* sum to float, where anything beyond FloatMax becomes an infinity.        *)
(*                                                                          *)
(* A distance is kept as a fraction [n, d] that orders as the distance does *)
(* (the square of a square root, the signed square of a cosine), with d = 0 *)
(* for the infinities, or is NaN.  Rounding and underflow are left out.     *)
(***************************************************************************)
EXTENDS Integers, Sequences

CONSTANTS FloatMax,
          Lanes      \* components in a register: 16 in the code

ASSUME FloatAssumption == FloatMax \in Nat \ {0} /\ Lanes \in Nat \ {0}

NaN       == [n |-> 0, d |-> 0]
Inf(sign) == [n |-> sign, d |-> 0]
Finite(x) == [n |-> x, d |-> 1]
Undefined == [n |-> 0, d |-> -1]   \* the UndefinedDistance error

Sign(n) == IF n < 0 THEN -1 ELSE IF n = 0 THEN 0 ELSE 1

\* static_cast<float> of an exact sum.
Narrow(x) == IF x > FloatMax THEN Inf(1) ELSE IF x < -FloatMax THEN Inf(-1) ELSE Finite(x)

\* The sum of the terms, one per component.
SumOf(terms) ==
    LET sum[i \in 0..Len(terms)] == IF i = 0 THEN 0 ELSE sum[i - 1] + terms[i]
    IN  sum[Len(terms)]

\* Mutant of RegisterSum: the remainder loop is missing.
RegisterSumNoTail(terms) ==
    LET acc[c \in 0..(Len(terms) \div Lanes)] ==
            IF c = 0 THEN [lane \in 1..Lanes |-> 0]
            ELSE LET so_far == acc[c - 1]
                 IN  [lane \in 1..Lanes |-> so_far[lane] + terms[(c - 1) * Lanes + lane]]
    IN  SumOf(acc[Len(terms) \div Lanes])

\* The lane-wise sums of the chunks of Lanes terms, added up, and the rest.
RegisterSum(terms) ==
    LET chunks == Len(terms) \div Lanes
        acc[c \in 0..chunks] ==
            IF c = 0 THEN [lane \in 1..Lanes |-> 0]
            ELSE LET so_far == acc[c - 1]
                 IN  [lane \in 1..Lanes |-> so_far[lane] + terms[(c - 1) * Lanes + lane]]
    IN  SumOf(acc[chunks]) + SumOf(SubSeq(terms, chunks * Lanes + 1, Len(terms)))

Squares(a, b)  == [i \in DOMAIN a |-> (a[i] - b[i]) * (a[i] - b[i])]
Products(a, b) == [i \in DOMAIN a |-> a[i] * b[i]]

scalar_l2_squared(a, b) == Narrow(SumOf(Squares(a, b)))
scalar_dot(a, b)        == Narrow(SumOf(Products(a, b)))

\* In a register the difference is a float before it is widened: beyond
\* FloatMax it is infinite, and so is the sum.
avx512_l2_squared(a, b) ==
    IF \E i \in 1..(Lanes * (Len(a) \div Lanes)) : Narrow(a[i] - b[i]).d = 0
    THEN Inf(1) ELSE Narrow(RegisterSum(Squares(a, b)))
avx512_dot(a, b) == Narrow(RegisterSum(Products(a, b)))

\* The kernels create() binds on a host with or without AVX-512.
l2_squared(simd, a, b) == IF simd THEN avx512_l2_squared(a, b) ELSE scalar_l2_squared(a, b)
dot(simd, a, b)        == IF simd THEN avx512_dot(a, b) ELSE scalar_dot(a, b)

IsInf(x) == x.d = 0 /\ x.n # 0

\* 1 - dot / (||a|| * ||b||): with both norms finite, ordered by minus the
\* signed square of the cosine.  An infinite norm makes the denominator
\* infinite, and the quotient 0 or, if the dot product overflowed too, NaN.
\* With finite norms the dot product is finite (it is at most their product).
cosine(simd, a, b) ==
    LET na == dot(simd, a, a)
        nb == dot(simd, b, b)
        ab == dot(simd, a, b)
    IN  IF na = Finite(0) \/ nb = Finite(0) THEN Undefined
        ELSE IF IsInf(na) \/ IsInf(nb)
             THEN IF IsInf(ab) THEN NaN ELSE Finite(0)
             ELSE [n |-> -(Sign(ab.n) * ab.n * ab.n), d |-> na.n * nb.n]

Metrics == {"Euclidean", "DotProduct", "Cosine"}

\* The calculator's answer; lengths are equal by the time it is asked.
distance(simd, metric, a, b) ==
    CASE metric = "Euclidean"  -> l2_squared(simd, a, b)
      [] metric = "DotProduct" -> dot(simd, a, b)
      [] metric = "Cosine"     -> cosine(simd, a, b)

\* x < y as floats compare: false when either is NaN.
Less(x, y) ==
    /\ x # NaN /\ y # NaN
    /\ IF IsInf(x) /\ IsInf(y) THEN x.n < y.n ELSE x.n * y.d < y.n * x.d
=============================================================================
