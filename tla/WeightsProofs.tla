----------------------------- MODULE WeightsProofs -----------------------------
(* Theorems about Weights, for every precision, width, range of readings and *)
(* number of grams that WeightsAssumption allows, those of the code          *)
(* included: what interpolate promises in exact arithmetic also holds for    *)
(* the floats it computes with.                                              *)
(*                                                                           *)
(* The argument goes up from powers of two over rounding to an integer and   *)
(* to a float to the three operations and the cut to grams.  On each level   *)
(* there are the same three questions: rounding keeps the order, does not    *)
(* pass what needs no rounding, and errs by little.  The fourth, how large   *)
(* a weight may be, is for calibrations out of order as well.  Order and     *)
(* nearness pass to the fields of BalanceBoardData where these have room for *)
(* the weight, which is shown for every reading up to the one at 34 kg.      *)
EXTENDS Weights, CommonLemmas, FiniteSetTheorems, FunctionTheorems
--------------------------------------------------------------------------------
(* Powers of two.                                                          *)

\* 2 ^ n is the number of subsets of 1 .. n.
LEMMA PowerCounts ==
  ASSUME NEW n \in Nat
  PROVE  /\ IsFiniteSet(SUBSET (1 .. n)) /\ Cardinality(SUBSET (1 .. n)) = 2 ^ n
         /\ 2 ^ n \in Nat
<1>1. IsFiniteSet(1 .. n) /\ Cardinality(1 .. n) = n
  <2>1. 1 \in Int /\ n \in Int
    OBVIOUS
  <2>2. IsFiniteSet(1 .. n) /\ Cardinality(1 .. n) = IF 1 > n THEN 0 ELSE n - 1 + 1
    BY <2>1, FS_Interval
  <2>. QED  BY <2>2
<1>2. IsFiniteSet(SUBSET (1 .. n)) /\ Cardinality(SUBSET (1 .. n)) = 2 ^ n
  BY <1>1, FS_SUBSET
<1>. QED  BY <1>2, FS_CardinalityType

\* Half the subsets have the last number.
LEMMA PowerDouble ==
  ASSUME NEW n \in Nat
  PROVE  /\ 2 ^ n \in Nat \ {0} /\ 2 ^ (n + 1) \in Nat \ {0}
         /\ 2 ^ (n + 1) = 2 * 2 ^ n
<1>. DEFINE S == SUBSET (1 .. n)
            T == SUBSET (1 .. n + 1)
            x == n + 1
            Add(A) == A \cup {x}
            U == {Add(A) : A \in S}
            f == [A \in S |-> Add(A)]
<1>1. /\ IsFiniteSet(S) /\ Cardinality(S) = 2 ^ n /\ 2 ^ n \in Nat
      /\ IsFiniteSet(T) /\ Cardinality(T) = 2 ^ (n + 1) /\ 2 ^ (n + 1) \in Nat
  <2>1. n + 1 \in Nat
    OBVIOUS
  <2>. QED  BY <2>1, PowerCounts, Zenon
<1>2. T = S \cup U /\ S \cap U = {}
  <2>1. \A A \in S : x \notin A
    OBVIOUS
  <2>2. 1 .. n + 1 = (1 .. n) \cup {x}
    OBVIOUS
  <2>3. ASSUME NEW A \in T PROVE A \in S \cup U
    <3>1. CASE x \notin A
      BY <2>2, <3>1
    <3>2. CASE x \in A
      <4>1. A \ {x} \in S /\ A = Add(A \ {x})
        BY <2>2, <3>2
      <4>. QED  BY <4>1
    <3>. QED  BY <3>1, <3>2
  <2>4. S \cup U \subseteq T
    BY <2>2
  <2>5. \A A \in U : x \in A
    OBVIOUS
  <2>. HIDE DEF S, T, U, x
  <2>. QED  BY <2>1, <2>3, <2>4, <2>5
<1>3. f \in Bijection(S, U)
  <2>1. \A A \in S : x \notin A
    OBVIOUS
  <2>2. \A A, C \in S : f[A] = f[C] => A = C
    BY <2>1
  <2>3. f \in [S -> U] /\ \A u \in U : \E A \in S : f[A] = u
    OBVIOUS
  <2>. QED  BY <2>2, <2>3, Fun_IsBij
<1>4. IsFiniteSet(U) /\ Cardinality(U) = Cardinality(S)
  BY <1>1, <1>3, FS_Bijection, Zenon DEF ExistsBijection
<1>5. Cardinality(T) = Cardinality(S) + Cardinality(U) - Cardinality(S \cap U)
  BY <1>1, <1>2, <1>4, FS_Union, Zenon
<1>6. Cardinality(S \cap U) = 0
  BY <1>2, FS_EmptySet
<1>7. Cardinality(S) # 0
  <2>1. {} \in S
    OBVIOUS
  <2>. QED  BY <1>1, <2>1, FS_EmptySet, Zenon
<1>. HIDE DEF S, T, U
<1>. QED  BY <1>1, <1>4, <1>5, <1>6, <1>7

\* A larger power is at least twice a smaller one.
LEMMA PowerOrder ==
  ASSUME NEW i \in Nat, NEW j \in Nat, i < j
  PROVE  2 * 2 ^ i <= 2 ^ j
<1>. DEFINE T == {k \in Nat : i < k /\ ~(2 * 2 ^ i <= 2 ^ k)}
<1>1. ASSUME T # {} PROVE FALSE
  <2>1. PICK k \in T : \A l \in T : k <= l
    <3>1. T \in SUBSET Nat
      OBVIOUS
    <3>. HIDE DEF T
    <3>. QED  BY <1>1, <3>1, Least
  <2>2. k \in Nat /\ i < k /\ ~(2 * 2 ^ i <= 2 ^ k)
    BY <2>1
  <2>3. PICK l \in Nat : k = l + 1 /\ i <= l
    <3>1. k - 1 \in Nat /\ k = (k - 1) + 1 /\ i <= k - 1
      BY <2>2
    <3>. QED  BY <3>1
  <2>4. 2 ^ k = 2 * 2 ^ l /\ 2 ^ l \in Nat \ {0} /\ 2 ^ i \in Nat \ {0}
    BY <2>3, PowerDouble
  <2>5. CASE i = l
    BY <2>2, <2>4, <2>5
  <2>6. CASE i < l
    <3>1. l \notin T
      BY <2>1, <2>3
    <3>2. 2 * 2 ^ i <= 2 ^ l
      BY <2>6, <3>1
    <3>. QED  BY <2>2, <2>4, <3>2
  <2>. QED  BY <2>3, <2>5, <2>6
<1>. QED  BY <1>1

\* The power of a sum is the product of the powers.
LEMMA PowerSum ==
  ASSUME NEW i \in Nat, NEW j \in Nat
  PROVE  2 ^ (i + j) = 2 ^ i * 2 ^ j
<1>. DEFINE T == {k \in Nat : 2 ^ (i + k) # 2 ^ i * 2 ^ k}
<1>1. ASSUME T # {} PROVE FALSE
  <2>1. PICK k \in T : \A l \in T : k <= l
    <3>1. T \in SUBSET Nat
      OBVIOUS
    <3>. HIDE DEF T
    <3>. QED  BY <1>1, <3>1, Least
  <2>2. k \in Nat /\ 2 ^ (i + k) # 2 ^ i * 2 ^ k /\ 2 ^ i \in Nat
    BY <2>1, PowerDouble
  <2>3. CASE k = 0
    <3>1. 2 ^ 0 = 1 /\ i + k = i
      BY <2>3
    <3>. QED  BY <2>2, <2>3, <3>1
  <2>4. CASE k # 0
    <3>1. PICK l \in Nat : k = l + 1
      <4>1. k - 1 \in Nat /\ k = (k - 1) + 1
        BY <2>2, <2>4
      <4>. QED  BY <4>1
    <3>2. l \notin T
      BY <2>1, <3>1
    <3>3. 2 ^ (i + l) = 2 ^ i * 2 ^ l
      BY <3>2
    <3>4. i + l \in Nat /\ i + k = (i + l) + 1
      BY <3>1
    <3>5. 2 ^ (i + k) = 2 * 2 ^ (i + l) /\ 2 ^ k = 2 * 2 ^ l /\ 2 ^ l \in Nat
      BY <3>1, <3>4, PowerDouble
    <3>. QED  BY <2>2, <3>3, <3>5
  <2>. QED  BY <2>3, <2>4
<1>. QED  BY <1>1
--------------------------------------------------------------------------------
(* Rounding to integers.                                                   *)

\* What \div and % are.
LEMMA Division ==
  ASSUME NEW n \in Nat, NEW d \in Nat \ {0}
  PROVE  /\ n \div d \in Nat /\ n % d \in 0 .. d - 1
         /\ n = (n \div d) * d + (n % d)
<1>1. n = d * (n \div d) + (n % d) /\ n % d \in 0 .. d - 1 /\ n \div d \in Int
  OBVIOUS
<1>2. n \div d \in Nat
  OBVIOUS
<1>. QED  BY <1>1, <1>2

\* A rounded number is off by half at most, and by half only if it is even.
LEMMA RoundFacts ==
  ASSUME NEW n \in Nat, NEW d \in Nat \ {0}, NEW r, r = RoundEven(n, d)
  PROVE  /\ r \in Nat
         /\ 2 * n - d <= 2 * (r * d) /\ 2 * (r * d) <= 2 * n + d
         /\ 2 * (r * d) \in {2 * n - d, 2 * n + d} => r % 2 = 0
<1>1. PICK m, s : m = n \div d /\ s = n % d
  OBVIOUS
<1>2. m \in Nat /\ s \in Nat /\ s < d /\ n = m * d + s
  BY <1>1, Division
<1>3. r = IF 2 * s > d \/ (2 * s = d /\ m % 2 = 1) THEN m + 1 ELSE m
  BY <1>1 DEF RoundEven
<1>4. m % 2 \in {0, 1} /\ (m % 2 = 1 => (m + 1) % 2 = 0)
  BY <1>2
<1>5. CASE r = m + 1 /\ (2 * s > d \/ (2 * s = d /\ m % 2 = 1))
  <2>1. r * d = m * d + d
    BY <1>2, <1>5
  <2>2. m * d \in Nat /\ r \in Nat
    BY <1>2, <1>5
  <2>3. 2 * (r * d) = 2 * n + 2 * d - 2 * s
    BY <1>2, <2>1, <2>2
  <2>. HIDE DEF RoundEven
  <2>. QED  BY <1>2, <1>4, <1>5, <2>2, <2>3
<1>6. CASE r = m /\ ~(2 * s > d \/ (2 * s = d /\ m % 2 = 1))
  <2>1. 2 * (r * d) = 2 * n - 2 * s
    BY <1>2, <1>6
  <2>. QED  BY <1>2, <1>4, <1>6, <2>1
<1>. QED  BY <1>3, <1>5, <1>6

\* Rounding keeps the order, equal quotients included.
LEMMA RoundOrder ==
  ASSUME NEW n \in Nat, NEW d \in Nat \ {0}, NEW m \in Nat, NEW c \in Nat \ {0},
         n * c <= m * d
  PROVE  RoundEven(n, d) <= RoundEven(m, c)
<1>1. PICK r, s : r = RoundEven(n, d) /\ s = RoundEven(m, c)
  OBVIOUS
<1>2. /\ r \in Nat /\ 2 * (r * d) <= 2 * n + d
      /\ 2 * (r * d) = 2 * n + d => r % 2 = 0
  BY <1>1, RoundFacts
<1>3. /\ s \in Nat /\ 2 * m - c <= 2 * (s * c)
      /\ 2 * (s * c) = 2 * m - c => s % 2 = 0
  BY <1>1, RoundFacts
<1>4. SUFFICES ASSUME s < r PROVE FALSE
  BY <1>1, <1>2, <1>3
<1>5. PICK k : k = d * c
  OBVIOUS
<1>6. k \in Nat /\ k > 0
  BY <1>5
<1>7. (2 * r - 1) * k <= 2 * (n * c)
  <2>1. (2 * r - 1) * d <= 2 * n
    BY <1>2
  <2>2. ((2 * r - 1) * d) * c <= (2 * n) * c
    BY <1>2, <2>1
  <2>. QED  BY <1>2, <1>5, <2>2
<1>8. 2 * (m * d) <= (2 * s + 1) * k
  <2>1. 2 * m <= (2 * s + 1) * c
    BY <1>3
  <2>2. (2 * m) * d <= ((2 * s + 1) * c) * d
    BY <1>3, <2>1
  <2>. QED  BY <1>3, <1>5, <2>2
<1>9. (2 * r - 1) * k <= (2 * s + 1) * k
  BY <1>2, <1>3, <1>6, <1>7, <1>8
<1>10. 2 * r - 1 <= 2 * s + 1
  BY <1>2, <1>3, <1>6, <1>9
<1>11. r = s + 1
  BY <1>2, <1>3, <1>4, <1>10
<1>12. (2 * r - 1) * k = 2 * (n * c) /\ 2 * (m * d) = (2 * s + 1) * k
  <2>1. (2 * r - 1) * k = (2 * s + 1) * k /\ (2 * r - 1) * k \in Int
    BY <1>2, <1>3, <1>6, <1>11
  <2>. QED  BY <1>7, <1>8, <2>1
<1>13. (2 * r - 1) * d = 2 * n
  <2>1. ((2 * r - 1) * d) * c = (2 * n) * c
    BY <1>2, <1>5, <1>12
  <2>2. (2 * r - 1) * d \in Int /\ 2 * n \in Int
    BY <1>2
  <2>. QED  BY <2>1, <2>2
<1>14. (2 * s + 1) * c = 2 * m
  <2>1. ((2 * s + 1) * c) * d = (2 * m) * d
    BY <1>3, <1>5, <1>12
  <2>2. (2 * s + 1) * c \in Int /\ 2 * m \in Int
    BY <1>3
  <2>. QED  BY <2>1, <2>2
<1>15. r % 2 = 0 /\ s % 2 = 0
  BY <1>2, <1>3, <1>13, <1>14
<1>. QED  BY <1>2, <1>3, <1>11, <1>15

\* An integer is its own rounding.
LEMMA RoundExact ==
  ASSUME NEW m \in Nat, NEW d \in Nat \ {0}
  PROVE  RoundEven(m * d, d) = m
<1>1. PICK r : r = RoundEven(m * d, d)
  OBVIOUS
<1>2. m * d \in Nat
  OBVIOUS
<1>3. r \in Nat /\ 2 * (m * d) - d <= 2 * (r * d) /\ 2 * (r * d) <= 2 * (m * d) + d
  BY <1>1, <1>2, RoundFacts
<1>4. (2 * m - 1) * d <= (2 * r) * d /\ (2 * r) * d <= (2 * m + 1) * d
  BY <1>3
<1>5. 2 * m - 1 <= 2 * r /\ 2 * r <= 2 * m + 1
  BY <1>3, <1>4
<1>. QED  BY <1>1, <1>3, <1>5
--------------------------------------------------------------------------------
(* Rounding to floats.                                                     *)

\* A significand has less than B in it, and at least H.
B == 2 ^ Precision
H == 2 ^ (Precision - 1)

\* The power of two p/q.
IsScale(p, q) ==
  \/ q = 1 /\ \E k \in 0 .. 2 * Precision : p = 2 ^ k
  \/ p = 1 /\ \E k \in 0 .. Precision : q = 2 ^ k

\* n/d is neither too large nor too small for Nearest to find its scale.
InRange(n, d) ==
  /\ n \in Nat \ {0} /\ d \in Nat \ {0}
  /\ n < d * (B * B) /\ d * H <= n * (B * B)

\* The float f is n/d, rounded at the scale p/q.
Rounds(f, n, d, p, q) ==
  /\ p \in Nat \ {0} /\ q \in Nat \ {0} /\ IsScale(p, q)
  /\ H * (d * q) <= n * p /\ n * p < B * (d * q)
  /\ f = <<RoundEven(n * p, d * q) * q, p>>

\* The two powers of two that bound a significand, and the constants.
LEMMA Bits ==
  /\ H \in Nat \ {0} /\ B \in Nat \ {0} /\ B = 2 * H /\ B * B = 2 ^ (2 * Precision)
  /\ Precision \in Nat \ {0} /\ 2 ^ 0 = 1 /\ B = 2 ^ Precision
  /\ MaxReading \in Nat /\ Grams \in Nat \ {0}
  /\ 17 * (MaxReading + 1) < B /\ 34 * Grams < B
<1>1. /\ Precision \in Nat \ {0} /\ MaxReading \in Nat /\ Grams \in Nat \ {0}
      /\ 17 * (MaxReading + 1) < B /\ 34 * Grams < B
  BY WeightsAssumption DEF B
<1>2. PICK j \in Nat : Precision = j + 1
  <2>1. Precision - 1 \in Nat /\ Precision = (Precision - 1) + 1
    BY <1>1
  <2>. QED  BY <2>1
<1>3. Precision - 1 = j
  BY <1>2
<1>4. 2 ^ j \in Nat \ {0} /\ 2 ^ (j + 1) = 2 * 2 ^ j /\ 2 ^ (j + 1) \in Nat \ {0}
  BY PowerDouble
<1>5. H = 2 ^ j /\ B = 2 ^ (j + 1)
  BY <1>2, <1>3, Zenon DEF H, B
<1>6. B * B = 2 ^ (2 * Precision)
  <2>1. 2 * Precision = Precision + Precision
    BY <1>1
  <2>. QED  BY <1>1, <2>1, PowerSum, Zenon DEF B
<1>7. 2 ^ 0 = 1
  OBVIOUS
<1>. QED  BY <1>1, <1>4, <1>5, <1>6, <1>7 DEF B

\* Nearest finds a scale: upwards the least that makes n/d large enough ...
LEMMA NearestUp ==
  ASSUME NEW n, NEW d, InRange(n, d), n < d * B
  PROVE  \E p, q : Rounds(Nearest(n, d), n, d, p, q)
<1>. DEFINE T == {k \in Nat : d * H <= n * 2 ^ k}
            Fit(k) == Significant(n * 2 ^ k, d)
<1>0. /\ n \in Nat \ {0} /\ d \in Nat \ {0} /\ d * H <= n * (B * B)
      /\ 2 * Precision \in Nat /\ H \in Nat /\ B \in Nat /\ B = 2 * H
      /\ B * B = 2 ^ (2 * Precision) /\ 2 ^ 0 = 1
  BY Bits DEF InRange
<1>1. 2 * Precision \in T
  <2>1. d * H <= n * 2 ^ (2 * Precision)
    BY <1>0, Zenon
  <2>. QED  BY <1>0, <2>1
<1>2. PICK k \in T : \A l \in T : k <= l
  <2>1. T \in SUBSET Nat
    OBVIOUS
  <2>. HIDE DEF T
  <2>. QED  BY <1>1, <2>1, Least
<1>3. k \in Nat /\ k <= 2 * Precision /\ d * H <= n * 2 ^ k
  BY <1>1, <1>2
<1>4. n * 2 ^ k < d * B
  <2>1. CASE k = 0
    <3>1. n * 2 ^ k = n
      BY <1>0, <2>1
    <3>. QED  BY <3>1
  <2>2. CASE k # 0
    <3>1. PICK l \in Nat : k = l + 1
      <4>1. k - 1 \in Nat /\ k = (k - 1) + 1
        BY <1>3, <2>2
      <4>. QED  BY <4>1
    <3>2. ~(d * H <= n * 2 ^ l)
      BY <1>2, <3>1
    <3>3. 2 ^ l \in Nat /\ 2 ^ k = 2 * 2 ^ l
      BY <3>1, PowerDouble
    <3>4. n * 2 ^ k = 2 * (n * 2 ^ l) /\ d * B = 2 * (d * H)
      BY <1>0, <3>3
    <3>. QED  BY <1>0, <3>2, <3>3, <3>4
  <2>. QED  BY <2>1, <2>2
<1>5. k \in 0 .. 2 * Precision /\ Fit(k)
  BY <1>0, <1>3, <1>4 DEF Significant, H, B
<1>6. PICK e : e = CHOOSE i \in 0 .. 2 * Precision : Fit(i)
  OBVIOUS
<1>7. e \in 0 .. 2 * Precision /\ Fit(e)
  <2>. HIDE DEF Fit
  <2>. QED  BY <1>5, <1>6
<1>8. Nearest(n, d) = <<RoundEven(n * 2 ^ e, d), 2 ^ e>>
  BY <1>6 DEF Nearest, B
<1>9. 2 ^ e \in Nat \ {0} /\ e \in Nat
  BY <1>7, PowerDouble
<1>10. d * H <= n * 2 ^ e /\ n * 2 ^ e < d * B
  BY <1>7 DEF Significant, H, B
<1>11. H * (d * 1) = d * H /\ B * (d * 1) = d * B /\ d * 1 = d /\ 1 \in Nat \ {0}
  BY <1>0
<1>12. RoundEven(n * 2 ^ e, d) \in Nat
  <2>1. n * 2 ^ e \in Nat
    BY <1>0, <1>9
  <2>. QED  BY <1>0, <2>1, RoundFacts, Zenon
<1>13. RoundEven(n * 2 ^ e, d) * 1 = RoundEven(n * 2 ^ e, d)
  BY <1>12
<1>14. IsScale(2 ^ e, 1)
  BY <1>7, <1>9 DEF IsScale
<1>. HIDE DEF Fit, T
<1>15. Rounds(Nearest(n, d), n, d, 2 ^ e, 1)
  BY <1>8, <1>9, <1>10, <1>11, <1>13, <1>14, Zenon DEF Rounds
<1>. QED  BY <1>15

\* ... and downwards the least that makes it small enough.
LEMMA NearestDown ==
  ASSUME NEW n, NEW d, InRange(n, d), ~(n < d * B)
  PROVE  \E p, q : Rounds(Nearest(n, d), n, d, p, q)
<1>. DEFINE T == {k \in Nat : n < (d * 2 ^ k) * B}
            Fit(k) == Significant(n, d * 2 ^ k)
<1>0. /\ n \in Nat \ {0} /\ d \in Nat \ {0} /\ n < d * (B * B)
      /\ Precision \in Nat /\ H \in Nat /\ B \in Nat /\ B = 2 * H
      /\ B = 2 ^ Precision /\ 2 ^ 0 = 1
  BY Bits DEF InRange
<1>1. Precision \in T
  <2>1. (d * 2 ^ Precision) * B = d * (B * B)
    <3>1. (d * B) * B = d * (B * B)
      BY <1>0
    <3>. QED  BY <1>0, <3>1, Zenon
  <2>. QED  BY <1>0, <2>1
<1>2. PICK k \in T : \A l \in T : k <= l
  <2>1. T \in SUBSET Nat
    OBVIOUS
  <2>. HIDE DEF T
  <2>. QED  BY <1>1, <2>1, Least
<1>3. k \in Nat /\ k <= Precision /\ n < (d * 2 ^ k) * B
  BY <1>1, <1>2
<1>4. (d * 2 ^ k) * H <= n
  <2>1. k # 0
    <3>1. ASSUME k = 0 PROVE FALSE
      <4>1. (d * 2 ^ k) * B = d * B
        BY <1>0, <3>1
      <4>. QED  BY <1>0, <1>3, <4>1
    <3>. QED  BY <3>1
  <2>2. PICK l \in Nat : k = l + 1
    <3>1. k - 1 \in Nat /\ k = (k - 1) + 1
      BY <1>3, <2>1
    <3>. QED  BY <3>1
  <2>3. ~(n < (d * 2 ^ l) * B)
    BY <1>2, <2>2
  <2>4. 2 ^ l \in Nat /\ 2 ^ k = 2 * 2 ^ l
    BY <2>2, PowerDouble
  <2>5. (d * 2 ^ k) * H = (d * 2 ^ l) * B /\ (d * 2 ^ l) * B \in Nat
    BY <1>0, <2>4
  <2>. QED  BY <1>0, <2>3, <2>5
<1>5. k \in 0 .. Precision /\ Fit(k)
  BY <1>0, <1>3, <1>4 DEF Significant, H, B
<1>6. PICK e : e = CHOOSE i \in 0 .. Precision : Fit(i)
  OBVIOUS
<1>7. e \in 0 .. Precision /\ Fit(e)
  <2>. HIDE DEF Fit
  <2>. QED  BY <1>5, <1>6
<1>8. Nearest(n, d) = <<RoundEven(n, d * 2 ^ e) * 2 ^ e, 1>>
  BY <1>6 DEF Nearest, B
<1>9. 2 ^ e \in Nat \ {0} /\ e \in Nat
  BY <1>7, PowerDouble
<1>10. (d * 2 ^ e) * H <= n /\ n < (d * 2 ^ e) * B
  BY <1>7 DEF Significant, H, B
<1>11. /\ n * 1 = n /\ H * (d * 2 ^ e) = (d * 2 ^ e) * H
       /\ B * (d * 2 ^ e) = (d * 2 ^ e) * B /\ 1 \in Nat \ {0}
  BY <1>0, <1>9
<1>14. IsScale(1, 2 ^ e)
  BY <1>7, <1>9 DEF IsScale
<1>. HIDE DEF Fit, T
<1>15. Rounds(Nearest(n, d), n, d, 1, 2 ^ e)
  BY <1>8, <1>9, <1>10, <1>11, <1>14, Zenon DEF Rounds
<1>. QED  BY <1>15

\* Of two scales that differ one is at least twice the other.
LEMMA ScaleOrder ==
  ASSUME NEW p \in Nat \ {0}, NEW q \in Nat \ {0}, IsScale(p, q),
         NEW r \in Nat \ {0}, NEW s \in Nat \ {0}, IsScale(r, s)
  PROVE  \/ p = r /\ q = s
         \/ 2 * (q * r) <= s * p
         \/ 2 * (s * p) <= q * r
<1>0. Precision \in Nat /\ 2 ^ 0 = 1
  BY Bits
<1>1. ASSUME NEW i \in Nat, NEW j \in Nat
      PROVE  2 ^ i = 2 ^ j \/ 2 * 2 ^ i <= 2 ^ j \/ 2 * 2 ^ j <= 2 ^ i
  <2>1. i = j \/ i < j \/ j < i
    OBVIOUS
  <2>. QED  BY <2>1, PowerOrder
<1>2. ASSUME NEW i \in Nat PROVE 2 ^ i = 1 \/ 2 <= 2 ^ i
  <2>1. i = 0 \/ 0 < i
    OBVIOUS
  <2>2. 0 < i => 2 <= 2 ^ i
    <3>1. 0 \in Nat /\ 2 * 1 = 2
      OBVIOUS
    <3>2. 0 < i => 2 * 2 ^ 0 <= 2 ^ i
      BY <3>1, PowerOrder, Zenon
    <3>. QED  BY <1>0, <3>1, <3>2, Zenon
  <2>. QED  BY <1>0, <2>1, <2>2
<1>3. CASE /\ q = 1 /\ \E k \in 0 .. 2 * Precision : p = 2 ^ k
           /\ s = 1 /\ \E k \in 0 .. 2 * Precision : r = 2 ^ k
  <2>1. PICK i \in Nat, j \in Nat : p = 2 ^ i /\ r = 2 ^ j
    BY <1>0, <1>3
  <2>. QED  BY <1>1, <1>3, <2>1
<1>4. CASE /\ p = 1 /\ \E k \in 0 .. Precision : q = 2 ^ k
           /\ r = 1 /\ \E k \in 0 .. Precision : s = 2 ^ k
  <2>1. PICK i \in Nat, j \in Nat : q = 2 ^ i /\ s = 2 ^ j
    BY <1>0, <1>4
  <2>. QED  BY <1>1, <1>4, <2>1
<1>5. CASE /\ q = 1 /\ \E k \in 0 .. 2 * Precision : p = 2 ^ k
           /\ r = 1 /\ \E k \in 0 .. Precision : s = 2 ^ k
  <2>1. PICK i \in Nat, j \in Nat : p = 2 ^ i /\ s = 2 ^ j
    BY <1>0, <1>5
  <2>2. (p = 1 \/ 2 <= p) /\ (s = 1 \/ 2 <= s)
    BY <1>2, <2>1
  <2>3. p = 1 /\ s = 1 => p = r /\ q = s
    BY <1>5
  <2>4. 2 <= p \/ 2 <= s => 2 <= s * p
    OBVIOUS
  <2>. QED  BY <1>5, <2>2, <2>3, <2>4
<1>6. CASE /\ p = 1 /\ \E k \in 0 .. Precision : q = 2 ^ k
           /\ s = 1 /\ \E k \in 0 .. 2 * Precision : r = 2 ^ k
  <2>1. PICK i \in Nat, j \in Nat : q = 2 ^ i /\ r = 2 ^ j
    BY <1>0, <1>6
  <2>2. (q = 1 \/ 2 <= q) /\ (r = 1 \/ 2 <= r)
    BY <1>2, <2>1
  <2>3. q = 1 /\ r = 1 => p = r /\ q = s
    BY <1>6
  <2>4. 2 <= q \/ 2 <= r => 2 <= q * r
    OBVIOUS
  <2>. QED  BY <1>6, <2>2, <2>3, <2>4
<1>. QED  BY <1>3, <1>4, <1>5, <1>6 DEF IsScale

\* A float that is not negative: 0, or not too small to round when scaled.
IsFloat(f) == /\ f[1] \in Nat /\ f[2] \in Nat \ {0}
              /\ f[1] = 0 \/ f[2] * H <= f[1] * (B * B)

\* 0 or in range.
Ranged(n, d) == n \in Nat /\ d \in Nat \ {0} /\ (n = 0 \/ InRange(n, d))

\* The significand is one, and the float is as near as its last bit.
LEMMA RoundsFacts ==
  ASSUME NEW f, NEW n \in Nat \ {0}, NEW d \in Nat \ {0}, NEW p, NEW q, Rounds(f, n, d, p, q)
  PROVE  /\ IsFloat(f) /\ f[1] \in Nat \ {0} /\ f[2] = p
         /\ \E r \in Nat : f[1] = r * q /\ H <= r /\ r <= B
         /\ (B - 1) * (n * f[2]) <= B * (f[1] * d) /\ B * (f[1] * d) <= (B + 1) * (n * f[2])
<1>1. PICK r, k, m : k = d * q /\ m = n * p /\ r = RoundEven(m, k)
  OBVIOUS
<1>2. /\ p \in Nat \ {0} /\ q \in Nat \ {0} /\ H * k <= m /\ m < B * k
      /\ f = <<r * q, p>>
  BY <1>1 DEF Rounds
<1>3. k \in Nat \ {0} /\ m \in Nat
  BY <1>1, <1>2
<1>4. /\ H \in Nat \ {0} /\ B \in Nat \ {0} /\ B = 2 * H /\ B * B = 2 ^ (2 * Precision)
      /\ 2 * Precision \in Nat /\ Precision \in Nat /\ 2 ^ 0 = 1
  BY Bits
<1>5. /\ r \in Nat /\ 2 * m - k <= 2 * (r * k) /\ 2 * (r * k) <= 2 * m + k
  BY <1>1, <1>3, RoundFacts
<1>6. H <= r
  <2>1. H * k \in Nat /\ (H * k) * k <= m * k
    BY <1>2, <1>3, <1>4
  <2>2. RoundEven(H * k, k) = H
    BY <1>3, <1>4, RoundExact
  <2>3. RoundEven(H * k, k) <= RoundEven(m, k)
    BY <1>3, <2>1, RoundOrder
  <2>. QED  BY <1>1, <2>2, <2>3
<1>7. r <= B
  <2>1. B * k \in Nat /\ m * k <= (B * k) * k
    BY <1>2, <1>3, <1>4
  <2>2. RoundEven(B * k, k) = B
    BY <1>3, <1>4, RoundExact
  <2>3. RoundEven(m, k) <= RoundEven(B * k, k)
    BY <1>3, <2>1, RoundOrder
  <2>. QED  BY <1>1, <2>2, <2>3
<1>8. f[1] = r * q /\ f[2] = p
  BY <1>2
<1>9. r * q \in Nat \ {0} /\ H <= r * q
  BY <1>2, <1>4, <1>5, <1>6
<1>10. p <= B * B
  <2>1. CASE p = 1
    BY <1>4, <2>1
  <2>2. CASE \E i \in 0 .. 2 * Precision : p = 2 ^ i
    <3>1. PICK i \in 0 .. 2 * Precision : p = 2 ^ i
      BY <2>2
    <3>2. i \in Nat /\ (i = 2 * Precision \/ i < 2 * Precision)
      BY <1>4, <3>1
    <3>3. CASE i < 2 * Precision
      <4>1. 2 * 2 ^ i <= 2 ^ (2 * Precision)
        BY <1>4, <3>2, <3>3, PowerOrder
      <4>2. 2 * p <= B * B
        BY <1>4, <3>1, <4>1, Zenon
      <4>. QED  BY <1>2, <1>4, <4>2
    <3>4. CASE i = 2 * Precision
      <4>1. p = B * B
        BY <1>4, <3>1, <3>4, Zenon
      <4>. QED  BY <1>4, <4>1
    <3>. QED  BY <3>2, <3>3, <3>4
  <2>. QED  BY <2>1, <2>2 DEF Rounds, IsScale
<1>11. p * H <= (r * q) * (B * B)
  <2>1. PICK u : u = r * q
    OBVIOUS
  <2>2. PICK v : v = B * B
    OBVIOUS
  <2>3. v \in Nat /\ u \in Nat
    BY <1>4, <1>9, <2>1, <2>2
  <2>4. p * H <= v * u
    BY <1>2, <1>4, <1>9, <1>10, <2>1, <2>2, <2>3
  <2>. QED  BY <2>1, <2>2, <2>3, <2>4
<1>12. IsFloat(f)
  BY <1>2, <1>8, <1>9, <1>11 DEF IsFloat
<1>13. (B - 1) * m <= B * (r * k) /\ B * (r * k) <= (B + 1) * m
  <2>1. PICK u : u = r * k
    OBVIOUS
  <2>2. u \in Nat /\ 2 * m - k <= 2 * u /\ 2 * u <= 2 * m + k
    BY <1>3, <1>5, <2>1
  <2>3. H * (2 * m) - H * k <= H * (2 * u) /\ H * (2 * u) <= H * (2 * m) + H * k
    BY <1>3, <1>4, <2>2
  <2>4. B * m - m <= B * u /\ B * u <= B * m + m
    BY <1>2, <1>3, <1>4, <2>2, <2>3
  <2>. QED  BY <1>3, <1>4, <2>1, <2>2, <2>4
<1>14. f[1] * d = r * k /\ n * f[2] = m
  BY <1>1, <1>2, <1>5, <1>8
<1>. QED  BY <1>2, <1>5, <1>6, <1>7, <1>8, <1>9, <1>12, <1>13, <1>14, Zenon

\* Float gives a float, the one that Nearest finds but for 0.
LEMMA FloatFacts ==
  ASSUME NEW n, NEW d, Ranged(n, d)
  PROVE  /\ IsFloat(Float(n, d))
         /\ n = 0 => Float(n, d) = <<0, 1>>
         /\ n # 0 => /\ \E p, q : Rounds(Float(n, d), n, d, p, q)
                     /\ Float(n, d)[1] \in Nat \ {0} /\ Float(n, d) = Nearest(n, d)
<1>1. CASE n = 0
  BY <1>1 DEF Float, IsFloat
<1>2. CASE n # 0
  <2>1. InRange(n, d) /\ n \in Nat \ {0} /\ d \in Nat \ {0}
    BY <1>2 DEF Ranged
  <2>2. Float(n, d) = Nearest(n, d)
    BY <2>1 DEF Float
  <2>3. PICK p, q : Rounds(Nearest(n, d), n, d, p, q)
    BY <2>1, NearestUp, NearestDown
  <2>. QED  BY <1>2, <2>1, <2>2, <2>3, RoundsFacts
<1>. QED  BY <1>1, <1>2

\* f is not larger than g.
Leq(f, g) == f[1] * g[2] <= g[1] * f[2]

\* Rounding to floats keeps the order, also from one scale to the next.
LEMMA RoundsOrder ==
  ASSUME NEW n \in Nat \ {0}, NEW d \in Nat \ {0}, NEW m \in Nat \ {0}, NEW c \in Nat \ {0},
         NEW f, NEW p, NEW q, Rounds(f, n, d, p, q),
         NEW g, NEW r, NEW s, Rounds(g, m, c, r, s),
         n * c <= m * d
  PROVE  Leq(f, g)
<1>1. /\ p \in Nat \ {0} /\ q \in Nat \ {0} /\ r \in Nat \ {0} /\ s \in Nat \ {0}
      /\ IsScale(p, q) /\ IsScale(r, s)
      /\ H * (d * q) <= n * p /\ m * r < B * (c * s)
      /\ f = <<RoundEven(n * p, d * q) * q, p>> /\ g = <<RoundEven(m * r, c * s) * s, r>>
  BY DEF Rounds
<1>2. H \in Nat \ {0} /\ B \in Nat /\ B = 2 * H
  BY Bits
<1>3. PICK x \in Nat : f[1] = x * q /\ x <= B
  BY RoundsFacts
<1>4. PICK y \in Nat : g[1] = y * s /\ H <= y
  BY RoundsFacts
<1>5. f[2] = p /\ g[2] = r
  BY <1>1
<1>6. CASE p = r /\ q = s
  <2>1. (n * p) * (c * q) <= (m * p) * (d * q)
    <3>1. (n * c) * (p * q) <= (m * d) * (p * q)
      BY <1>1
    <3>. QED  BY <1>1, <3>1
  <2>2. n * p \in Nat /\ m * p \in Nat /\ d * q \in Nat \ {0} /\ c * q \in Nat \ {0}
    BY <1>1
  <2>3. RoundEven(n * p, d * q) <= RoundEven(m * p, c * q)
    BY <2>1, <2>2, RoundOrder
  <2>4. RoundEven(n * p, d * q) \in Nat /\ RoundEven(m * p, c * q) \in Nat
    BY <2>2, RoundFacts
  <2>5. PICK u, v : u = RoundEven(n * p, d * q) /\ v = RoundEven(m * p, c * q)
    OBVIOUS
  <2>6. f[1] = u * q /\ g[1] = v * q /\ u \in Nat /\ v \in Nat /\ u <= v
    BY <1>1, <1>6, <2>3, <2>4, <2>5
  <2>7. (u * q) * p <= (v * q) * p
    <3>1. u * q <= v * q /\ u * q \in Nat /\ v * q \in Nat
      BY <1>1, <2>6
    <3>. QED  BY <1>1, <3>1
  <2>. QED  BY <1>5, <1>6, <2>6, <2>7 DEF Leq
<1>7. CASE 2 * (q * r) <= s * p
  <2>1. x * (q * r) <= B * (q * r)
    BY <1>1, <1>2, <1>3
  <2>2. H * (2 * (q * r)) <= H * (s * p)
    BY <1>1, <1>2, <1>7
  <2>3. H * (s * p) <= y * (s * p)
    BY <1>1, <1>2, <1>4
  <2>4. x * (q * r) <= y * (s * p)
    BY <1>1, <1>2, <1>3, <1>4, <2>1, <2>2, <2>3
  <2>5. (x * q) * r = x * (q * r) /\ (y * s) * p = y * (s * p)
    BY <1>1, <1>3, <1>4
  <2>. QED  BY <1>3, <1>4, <1>5, <2>4, <2>5 DEF Leq
<1>8. CASE 2 * (s * p) <= q * r
  <2>1. PICK k : k = d * c
    OBVIOUS
  <2>2. k \in Nat \ {0}
    BY <2>1
  <2>3. (H * (d * q)) * (r * c) <= (n * p) * (r * c)
    BY <1>1, <1>2
  <2>4. (m * r) * (p * d) < (B * (c * s)) * (p * d)
    BY <1>1, <1>2
  <2>5. (n * c) * (p * r) <= (m * d) * (p * r)
    BY <1>1
  <2>6. (H * k) * (q * r) <= (n * c) * (p * r)
    <3>1. (H * (d * q)) * (r * c) = (H * k) * (q * r) /\ (n * p) * (r * c) = (n * c) * (p * r)
      BY <1>1, <1>2, <2>1
    <3>. QED  BY <2>3, <3>1
  <2>7. (m * d) * (p * r) < (H * k) * (2 * (s * p))
    <3>1. (m * r) * (p * d) = (m * d) * (p * r)
      BY <1>1
    <3>2. (B * (c * s)) * (p * d) = (H * k) * (2 * (s * p))
      BY <1>1, <1>2, <2>1
    <3>. QED  BY <2>4, <3>1, <3>2
  <2>8. (H * k) * (2 * (s * p)) <= (H * k) * (q * r)
    <3>1. H * k \in Nat
      BY <1>2, <2>2
    <3>. QED  BY <1>1, <1>8, <3>1
  <2>9. PICK a1, a2, a3, a4 : /\ a1 = (H * k) * (q * r) /\ a2 = (n * c) * (p * r)
                              /\ a3 = (m * d) * (p * r) /\ a4 = (H * k) * (2 * (s * p))
    OBVIOUS
  <2>10. a1 \in Int /\ a2 \in Int /\ a3 \in Int /\ a4 \in Int
    BY <1>1, <1>2, <2>2, <2>9
  <2>. QED  BY <2>5, <2>6, <2>7, <2>8, <2>9, <2>10
<1>. QED  BY <1>1, <1>6, <1>7, <1>8, ScaleOrder

\* The same with 0 among the numbers.
LEMMA FloatOrder ==
  ASSUME NEW n, NEW d, Ranged(n, d), NEW m, NEW c, Ranged(m, c), n * c <= m * d
  PROVE  Leq(Float(n, d), Float(m, c))
<1>1. n \in Nat /\ d \in Nat \ {0} /\ m \in Nat /\ c \in Nat \ {0}
  BY DEF Ranged
<1>2. PICK f, g : f = Float(n, d) /\ g = Float(m, c)
  OBVIOUS
<1>3. IsFloat(f) /\ IsFloat(g)
  BY <1>2, FloatFacts
<1>4. CASE n = 0
  <2>1. f[1] = 0 /\ f[2] = 1
    BY <1>2, <1>4, FloatFacts
  <2>2. 0 * g[2] <= g[1] * 1
    BY <1>3 DEF IsFloat
  <2>. QED  BY <1>2, <2>1, <2>2 DEF Leq
<1>5. CASE n # 0
  <2>1. m # 0
    <3>1. n * c # 0
      BY <1>1, <1>5
    <3>2. ASSUME m = 0 PROVE FALSE
      <4>1. m * d = 0 /\ n * c \in Nat
        BY <1>1, <3>2
      <4>. QED  BY <3>1, <4>1
    <3>. QED  BY <3>2
  <2>2. n \in Nat \ {0} /\ m \in Nat \ {0}
    BY <1>1, <1>5, <2>1
  <2>3. PICK p, q : Rounds(f, n, d, p, q)
    BY <1>2, <1>5, FloatFacts
  <2>4. PICK r, s : Rounds(g, m, c, r, s)
    BY <1>2, <2>1, FloatFacts
  <2>. QED  BY <1>1, <1>2, <2>2, <2>3, <2>4, RoundsOrder
<1>. QED  BY <1>4, <1>5

\* Integers of as many bits as a float has are floats.
LEMMA FloatExact ==
  ASSUME NEW j \in Nat, j < B
  PROVE  Ranged(j, 1) /\ Float(j, 1)[1] = j * Float(j, 1)[2]
<1>1. H \in Nat \ {0} /\ B \in Nat \ {0} /\ B = 2 * H
  BY Bits
<1>2. PICK f : f = Float(j, 1)
  OBVIOUS
<1>3. CASE j = 0
  <2>1. Ranged(j, 1)
    BY <1>3 DEF Ranged
  <2>2. f[1] = 0 /\ f[2] = 1
    BY <1>2, <1>3, <2>1, FloatFacts
  <2>. QED  BY <1>2, <1>3, <2>1, <2>2
<1>4. CASE j # 0
  <2>1. InRange(j, 1)
    <3>1. PICK k : k = B * B
      OBVIOUS
    <3>2. k \in Nat /\ B <= k
      BY <1>1, <3>1
    <3>3. k <= j * k
      BY <1>4, <3>2
    <3>4. j < 1 * k /\ 1 * H <= j * k
      BY <1>1, <3>2, <3>3
    <3>. QED  BY <1>4, <3>1, <3>4 DEF InRange
  <2>2. Ranged(j, 1)
    BY <2>1 DEF Ranged
  <2>3. PICK p, q : Rounds(f, j, 1, p, q)
    BY <1>2, <1>4, <2>2, FloatFacts
  <2>4. /\ p \in Nat \ {0} /\ q \in Nat \ {0} /\ H * (1 * q) <= j * p /\ IsScale(p, q)
        /\ f = <<RoundEven(j * p, 1 * q) * q, p>>
    BY <2>3 DEF Rounds
  <2>5. q = 1
    <3>1. CASE q = 1
      BY <3>1
    <3>2. CASE p = 1
      <4>1. H * q <= j /\ j < 2 * H
        BY <1>1, <2>4, <3>2
      <4>2. ASSUME 2 <= q PROVE FALSE
        <5>1. H * 2 <= H * q
          BY <1>1, <2>4, <4>2
        <5>. QED  BY <1>1, <2>4, <4>1, <5>1
      <4>. QED  BY <2>4, <4>2
    <3>. QED  BY <2>4, <3>1, <3>2 DEF IsScale
  <2>6. j * p \in Nat /\ 1 * q = 1 /\ 1 \in Nat \ {0} /\ (j * p) * 1 = j * p
    BY <2>4, <2>5
  <2>7. RoundEven((j * p) * 1, 1) = j * p
    BY <2>6, RoundExact
  <2>8. f[1] = j * p /\ f[2] = p
    BY <2>4, <2>5, <2>6, <2>7
  <2>. QED  BY <1>2, <2>2, <2>8
<1>. QED  BY <1>3, <1>4

\* Rounding does not pass them.
LEMMA FloatBounds ==
  ASSUME NEW n, NEW d, Ranged(n, d), NEW j \in Nat, j < B
  PROVE  /\ n <= j * d => Float(n, d)[1] <= j * Float(n, d)[2]
         /\ j * d <= n => j * Float(n, d)[2] <= Float(n, d)[1]
<1>1. PICK f, g : f = Float(n, d) /\ g = Float(j, 1)
  OBVIOUS
<1>2. /\ Ranged(j, 1) /\ IsFloat(f) /\ IsFloat(g) /\ g[1] = j * g[2]
      /\ n \in Nat /\ d \in Nat \ {0}
  BY <1>1, FloatFacts, FloatExact DEF Ranged
<1>3. f[1] \in Nat /\ f[2] \in Nat \ {0} /\ g[1] \in Nat /\ g[2] \in Nat \ {0}
  BY <1>2 DEF IsFloat
<1>4. PICK f1, f2, g2 : f1 = f[1] /\ f2 = f[2] /\ g2 = g[2]
  OBVIOUS
<1>5. ASSUME n <= j * d PROVE f1 <= j * f2
  <2>1. n * 1 <= j * d
    BY <1>2, <1>5
  <2>2. Leq(f, g)
    BY <1>1, <1>2, <2>1, FloatOrder
  <2>3. f1 * g2 <= (j * f2) * g2
    <3>1. f1 * g2 <= (j * g2) * f2
      BY <1>2, <1>4, <2>2 DEF Leq
    <3>. QED  BY <1>3, <1>4, <3>1
  <2>4. j * f2 \in Nat /\ f1 \in Nat /\ g2 \in Nat \ {0}
    BY <1>3, <1>4
  <2>. QED  BY <2>3, <2>4
<1>6. ASSUME j * d <= n PROVE j * f2 <= f1
  <2>1. j * d <= n * 1
    BY <1>2, <1>6
  <2>2. Leq(g, f)
    BY <1>1, <1>2, <2>1, FloatOrder
  <2>3. (j * f2) * g2 <= f1 * g2
    <3>1. (j * g2) * f2 <= f1 * g2
      BY <1>2, <1>4, <2>2 DEF Leq
    <3>. QED  BY <1>3, <1>4, <3>1
  <2>4. j * f2 \in Nat /\ f1 \in Nat /\ g2 \in Nat \ {0}
    BY <1>3, <1>4
  <2>. QED  BY <2>3, <2>4
<1>. QED  BY <1>1, <1>4, <1>5, <1>6
--------------------------------------------------------------------------------
(* Errors.                                                                 *)

\* x/y is n/d but for j times the last bit of a float.
Near(x, y, n, d, j) == (B - j) * (n * y) <= B * (x * d) /\ B * (x * d) <= (B + j) * (n * y)

\* Rounding adds no more than two.
LEMMA FloatNear ==
  ASSUME NEW x, NEW y, Ranged(x, y), NEW n \in Nat, NEW d \in Nat \ {0},
         NEW j \in Nat, j <= B, Near(x, y, n, d, j)
  PROVE  Near(Float(x, y)[1], Float(x, y)[2], n, d, j + 2)
<1>1. PICK f, f1, f2 : f = Float(x, y) /\ f1 = f[1] /\ f2 = f[2]
  OBVIOUS
<1>2. x \in Nat /\ y \in Nat \ {0} /\ B \in Nat \ {0}
  BY Bits DEF Ranged
<1>3. f1 \in Nat /\ f2 \in Nat \ {0}
  BY <1>1, FloatFacts DEF IsFloat
<1>4. (B - 1) * (x * f2) <= B * (f1 * y) /\ B * (f1 * y) <= (B + 1) * (x * f2)
  <2>1. CASE x = 0
    <3>1. f1 = 0
      BY <1>1, <2>1, FloatFacts
    <3>2. (B - 1) * (0 * f2) = 0 /\ B * (0 * y) = 0 /\ (B + 1) * (0 * f2) = 0
      BY <1>2, <1>3
    <3>. QED  BY <2>1, <3>1, <3>2
  <2>2. CASE x # 0
    <3>1. PICK p, q : Rounds(f, x, y, p, q)
      BY <1>1, <2>2, FloatFacts
    <3>. QED  BY <1>1, <1>2, <2>2, <3>1, RoundsFacts
  <2>. QED  BY <2>1, <2>2
<1>5. (B - j) * (n * y) <= B * (x * d) /\ B * (x * d) <= (B + j) * (n * y)
  BY DEF Near
<1>6. PICK u, v, w, z : u = f1 * d /\ v = n * f2 /\ w = x * f2 /\ z = B * (x * d)
  OBVIOUS
<1>7. u \in Nat /\ v \in Nat /\ w \in Nat /\ z \in Nat
  BY <1>2, <1>3, <1>6
<1>8. ((B - 1) * (B - j)) * v <= B * (B * u) /\ B * (B * u) <= ((B + 1) * (B + j)) * v
  <2>1. w * (B * d) = z * f2
    BY <1>2, <1>3, <1>6
  <2>2. (B * (f1 * y)) * (B * d) = (B * (B * u)) * y
    BY <1>2, <1>3, <1>6
  <2>3. /\ ((B - 1) * w) * (B * d) <= (B * (f1 * y)) * (B * d)
        /\ (B * (f1 * y)) * (B * d) <= ((B + 1) * w) * (B * d)
    <3>1. PICK a, b, c, k : /\ a = (B - 1) * w /\ b = B * (f1 * y) /\ c = (B + 1) * w
                            /\ k = B * d
      OBVIOUS
    <3>2. a \in Int /\ b \in Int /\ c \in Int /\ k \in Nat /\ a <= b /\ b <= c
      BY <1>2, <1>3, <1>4, <1>6, <1>7, <3>1
    <3>3. a * k <= b * k /\ b * k <= c * k
      BY <3>2
    <3>. QED  BY <3>1, <3>3
  <2>4. (B - j) * (v * y) <= z * f2 /\ z * f2 <= (B + j) * (v * y)
    <3>1. ((B - j) * (n * y)) * f2 <= z * f2 /\ z * f2 <= ((B + j) * (n * y)) * f2
      <4>1. PICK a, c : a = (B - j) * (n * y) /\ c = (B + j) * (n * y)
        OBVIOUS
      <4>2. a \in Int /\ c \in Int /\ a <= z /\ z <= c
        BY <1>2, <1>5, <1>6, <4>1
      <4>3. a * f2 <= z * f2 /\ z * f2 <= c * f2
        BY <1>3, <1>7, <4>2
      <4>. QED  BY <4>1, <4>3
    <3>2. /\ ((B - j) * (n * y)) * f2 = (B - j) * (v * y)
          /\ ((B + j) * (n * y)) * f2 = (B + j) * (v * y)
      BY <1>2, <1>3, <1>6
    <3>. QED  BY <3>1, <3>2
  <2>5. ((B - 1) * w) * (B * d) = (B - 1) * (z * f2) /\ ((B + 1) * w) * (B * d) = (B + 1) * (z * f2)
    <3>1. /\ ((B - 1) * w) * (B * d) = (B - 1) * (w * (B * d))
          /\ ((B + 1) * w) * (B * d) = (B + 1) * (w * (B * d))
      BY <1>2, <1>7
    <3>. QED  BY <2>1, <3>1
  <2>6. PICK m, k, t : m = v * y /\ k = z * f2 /\ t = B * (B * u)
    OBVIOUS
  <2>7. m \in Nat /\ k \in Nat /\ t \in Nat
    BY <1>2, <1>3, <1>7, <2>6
  <2>8. (B - 1) * k <= t * y /\ t * y <= (B + 1) * k
    BY <2>2, <2>3, <2>5, <2>6
  <2>9. (B - j) * m <= k /\ k <= (B + j) * m
    BY <2>4, <2>6
  <2>10. (B - 1) * ((B - j) * m) <= (B - 1) * k /\ (B + 1) * k <= (B + 1) * ((B + j) * m)
    <3>1. PICK a, c : a = (B - j) * m /\ c = (B + j) * m
      OBVIOUS
    <3>2. a \in Int /\ c \in Int /\ a <= k /\ k <= c
      BY <1>2, <2>7, <2>9, <3>1
    <3>3. (B - 1) * a <= (B - 1) * k /\ (B + 1) * k <= (B + 1) * c
      BY <1>2, <2>7, <3>2
    <3>. QED  BY <3>1, <3>3
  <2>11. (((B - 1) * (B - j)) * v) * y <= t * y /\ t * y <= (((B + 1) * (B + j)) * v) * y
    <3>1. /\ (((B - 1) * (B - j)) * v) * y = (B - 1) * ((B - j) * m)
          /\ (((B + 1) * (B + j)) * v) * y = (B + 1) * ((B + j) * m)
      BY <1>2, <1>7, <2>6
    <3>2. PICK a, b, c, e : /\ a = (B - 1) * ((B - j) * m) /\ b = (B - 1) * k
                            /\ c = (B + 1) * k /\ e = (B + 1) * ((B + j) * m)
      OBVIOUS
    <3>3. a \in Int /\ b \in Int /\ c \in Int /\ e \in Int /\ t * y \in Int
      BY <1>2, <2>7, <3>2
    <3>4. a <= t * y /\ t * y <= e
      BY <2>8, <2>10, <3>2, <3>3
    <3>. QED  BY <3>1, <3>2, <3>4
  <2>12. PICK a, c : a = ((B - 1) * (B - j)) * v /\ c = ((B + 1) * (B + j)) * v
    OBVIOUS
  <2>13. a \in Int /\ c \in Int /\ a * y <= t * y /\ t * y <= c * y
    BY <1>2, <1>7, <2>11, <2>12
  <2>14. a <= t /\ t <= c
    BY <1>2, <2>7, <2>13
  <2>. QED  BY <2>6, <2>12, <2>14
<1>9. /\ (B * (B - (j + 2))) * v <= ((B - 1) * (B - j)) * v
      /\ ((B + 1) * (B + j)) * v <= (B * (B + (j + 2))) * v
  <2>1. B * (B - (j + 2)) <= (B - 1) * (B - j) /\ (B + 1) * (B + j) <= B * (B + (j + 2))
    BY <1>2
  <2>2. PICK a, b, c, e : /\ a = B * (B - (j + 2)) /\ b = (B - 1) * (B - j)
                          /\ c = (B + 1) * (B + j) /\ e = B * (B + (j + 2))
    OBVIOUS
  <2>3. a \in Int /\ b \in Int /\ c \in Int /\ e \in Int /\ a <= b /\ c <= e
    BY <1>2, <2>1, <2>2
  <2>4. a * v <= b * v /\ c * v <= e * v
    BY <1>7, <2>3
  <2>. QED  BY <2>2, <2>4
<1>10. (B - (j + 2)) * v <= B * u /\ B * u <= (B + (j + 2)) * v
  <2>1. PICK a, c, e : a = (B - (j + 2)) * v /\ c = (B + (j + 2)) * v /\ e = B * u
    OBVIOUS
  <2>2. a \in Int /\ c \in Int /\ e \in Int
    BY <1>2, <1>7, <2>1
  <2>3. B * a <= B * e /\ B * e <= B * c
    <3>1. (B * (B - (j + 2))) * v = B * a /\ (B * (B + (j + 2))) * v = B * c
      BY <1>2, <1>7, <2>1
    <3>2. PICK g, h : g = ((B - 1) * (B - j)) * v /\ h = ((B + 1) * (B + j)) * v
      OBVIOUS
    <3>3. g \in Int /\ h \in Int
      BY <1>2, <1>7, <3>2
    <3>4. B * a <= g /\ g <= B * e /\ B * e <= h /\ h <= B * c
      BY <1>8, <1>9, <2>1, <3>1, <3>2
    <3>5. B * a \in Int /\ B * e \in Int /\ B * c \in Int
      BY <1>2, <2>2
    <3>. QED  BY <3>3, <3>4, <3>5
  <2>4. a <= e /\ e <= c
    BY <1>2, <2>2, <2>3
  <2>. QED  BY <2>1, <2>4
<1>. QED  BY <1>1, <1>6, <1>10 DEF Near
--------------------------------------------------------------------------------
(* The operations of interpolate.                                          *)

\* Floats of at most m, and of at least m.
AtMost(f, m)  == f[1] <= m * f[2]
AtLeast(f, m) == m * f[2] <= f[1]

\* The largest weight in kilograms: 17 and the largest slope.
MaxKilos == 17 * (MaxReading + 1)

\* It has as many bits as a float.
LEMMA Kilos == MaxKilos \in Nat /\ MaxKilos < B /\ 17 * MaxReading + 17 = MaxKilos
  BY Bits DEF MaxKilos

\* A slope between two points is 17 at most, and 17 at the upper one.
LEMMA SlopeFacts ==
  ASSUME NEW a \in Reading, NEW b \in Reading, b # 0
  PROVE  /\ Ranged(17 * a, b) /\ Slope(a, b) = Float(17 * a, b) /\ IsFloat(Slope(a, b))
         /\ AtMost(Slope(a, b), 17 * MaxReading)
         /\ a <= b => AtMost(Slope(a, b), 17)
         /\ a = b => AtLeast(Slope(a, b), 17)
<1>1. /\ a \in Nat /\ b \in Nat \ {0} /\ a <= MaxReading /\ b <= MaxReading
      /\ MaxReading \in Nat /\ 17 * (MaxReading + 1) < B /\ B = 2 * H /\ H \in Nat \ {0}
  BY Bits DEF Reading
<1>2. Ranged(17 * a, b)
  <2>1. CASE a = 0
    BY <1>1, <2>1 DEF Ranged
  <2>2. CASE a # 0
    <3>1. PICK k : k = B * B
      OBVIOUS
    <3>2. k \in Nat /\ B <= k /\ B * H <= k
      BY <1>1, <3>1
    <3>3. 17 * a < b * k
      <4>1. k <= b * k
        BY <1>1, <3>2
      <4>2. b * k \in Nat
        BY <1>1, <3>2
      <4>. QED  BY <1>1, <3>2, <4>1, <4>2
    <3>4. b * H <= (17 * a) * k
      <4>1. b * H <= B * H
        BY <1>1
      <4>2. k <= (17 * a) * k
        BY <1>1, <2>2, <3>2
      <4>3. b * H \in Nat /\ B * H \in Nat /\ (17 * a) * k \in Nat
        BY <1>1, <3>2
      <4>. QED  BY <3>2, <4>1, <4>2, <4>3
    <3>5. 17 * a \in Nat \ {0}
      BY <1>1, <2>2
    <3>6. InRange(17 * a, b)
      BY <1>1, <3>1, <3>3, <3>4, <3>5 DEF InRange
    <3>. QED  BY <1>1, <3>5, <3>6 DEF Ranged
  <2>. QED  BY <2>1, <2>2
<1>3. Slope(a, b) = Float(17 * a, b)
  BY <1>1 DEF Slope
<1>4. AtMost(Slope(a, b), 17 * MaxReading)
  <2>1. 17 * MaxReading \in Nat /\ 17 * MaxReading < B /\ 17 * a <= (17 * MaxReading) * b
    BY <1>1
  <2>. QED  BY <1>2, <1>3, <2>1, FloatBounds DEF AtMost
<1>5. 17 \in Nat /\ 17 < B /\ (a <= b => 17 * a <= 17 * b) /\ (a = b => 17 * b <= 17 * a)
  BY <1>1
<1>. QED  BY <1>2, <1>3, <1>4, <1>5, FloatFacts, FloatBounds DEF AtMost, AtLeast

\* 17 and a slope are 17 at least, at the lower point 17 and at the upper one 34.
LEMMA PlusFacts ==
  ASSUME NEW f, IsFloat(f), AtMost(f, 17 * MaxReading)
  PROVE  /\ Ranged(17 * f[2] + f[1], f[2]) /\ Plus(17, f) = Float(17 * f[2] + f[1], f[2])
         /\ IsFloat(Plus(17, f)) /\ AtMost(Plus(17, f), MaxKilos) /\ AtLeast(Plus(17, f), 17)
         /\ f[1] = 0 => AtMost(Plus(17, f), 17)
         /\ AtMost(f, 17) => AtMost(Plus(17, f), 34)
         /\ AtLeast(f, 17) => AtLeast(Plus(17, f), 34)
<1>1. PICK n, d : n = f[1] /\ d = f[2]
  OBVIOUS
<1>2. /\ n \in Nat /\ d \in Nat \ {0} /\ n <= (17 * MaxReading) * d
      /\ MaxReading \in Nat /\ B = 2 * H /\ H \in Nat \ {0} /\ 34 < B
  <2>1. 34 < B
    BY Bits
  <2>. QED  BY <1>1, <2>1, Bits DEF IsFloat, AtMost
<1>3. MaxKilos \in Nat /\ MaxKilos < B /\ 17 * d + n <= MaxKilos * d
  <2>1. (17 * MaxReading) * d + 17 * d = (17 * MaxReading + 17) * d
    BY <1>2
  <2>. QED  BY <1>2, <2>1, Kilos
<1>4. Ranged(17 * d + n, d)
  <2>1. PICK k : k = B * B
    OBVIOUS
  <2>2. k \in Nat /\ B <= k /\ H <= k
    BY <1>2, <2>1
  <2>3. MaxKilos * d < d * k
    BY <1>2, <1>3, <2>2
  <2>4. d * H <= (17 * d + n) * k
    <3>1. d * H <= d * k
      BY <1>2, <2>2
    <3>2. d * k <= (17 * d + n) * k
      BY <1>2, <2>2
    <3>3. d * H \in Nat /\ d * k \in Nat /\ (17 * d + n) * k \in Nat
      BY <1>2, <2>2
    <3>. QED  BY <3>1, <3>2, <3>3
  <2>5. 17 * d + n \in Nat \ {0}
    BY <1>2
  <2>6. 17 * d + n < d * k
    BY <1>2, <1>3, <2>2, <2>3
  <2>. QED  BY <1>2, <2>1, <2>4, <2>5, <2>6 DEF Ranged, InRange
<1>5. Plus(17, f) = Float(17 * d + n, d)
  BY <1>1 DEF Plus
<1>6. /\ 17 * d <= 17 * d + n
      /\ n = 0 => 17 * d + n <= 17 * d
      /\ n <= 17 * d => 17 * d + n <= 34 * d
      /\ 17 * d <= n => 34 * d <= 17 * d + n
      /\ 17 \in Nat /\ 34 \in Nat /\ 17 < B /\ 34 < B
  BY <1>2
<1>. QED  BY <1>1, <1>3, <1>4, <1>5, <1>6, FloatFacts, FloatBounds DEF AtMost, AtLeast

\* What weighs at most, or at least, j kg has at most, or at least, their grams.
LEMMA TimesFacts ==
  ASSUME NEW f, IsFloat(f), AtMost(f, MaxKilos)
  PROVE  /\ Ranged(Grams * f[1], f[2]) /\ Times(Grams, f) = Float(Grams * f[1], f[2])
         /\ IsFloat(Times(Grams, f))
         /\ f[1] = 0 => Times(Grams, f) = <<0, 1>>
         /\ \A j \in 0 .. 34 : /\ AtMost(f, j) => AtMost(Times(Grams, f), j * Grams)
                               /\ AtLeast(f, j) => AtLeast(Times(Grams, f), j * Grams)
<1>1. PICK n, d : n = f[1] /\ d = f[2]
  OBVIOUS
<1>2. /\ n \in Nat /\ d \in Nat \ {0} /\ n <= MaxKilos * d
      /\ n = 0 \/ d * H <= n * (B * B)
      /\ MaxKilos \in Nat /\ MaxKilos < B
      /\ B = 2 * H /\ H \in Nat \ {0} /\ Grams \in Nat \ {0} /\ 34 * Grams < B
  BY <1>1, Bits, Kilos DEF IsFloat, AtMost
<1>3. Ranged(Grams * n, d)
  <2>1. CASE n = 0
    BY <1>2, <2>1 DEF Ranged
  <2>2. CASE n # 0
    <3>1. PICK k : k = B * B
      OBVIOUS
    <3>2. k \in Nat /\ d * H <= n * k
      BY <1>2, <2>2, <3>1
    <3>3. Grams * n \in Nat \ {0} /\ n * k <= (Grams * n) * k
      <4>1. n <= Grams * n /\ Grams * n \in Nat \ {0}
        BY <1>2, <2>2
      <4>. QED  BY <1>2, <3>2, <4>1
    <3>4. d * H <= (Grams * n) * k
      <4>1. d * H \in Nat /\ n * k \in Nat /\ (Grams * n) * k \in Nat
        BY <1>2, <3>2, <3>3
      <4>. QED  BY <3>2, <3>3, <4>1
    <3>5. Grams * n < d * k
      <4>1. Grams * n <= Grams * (MaxKilos * d)
        BY <1>2
      <4>2. Grams * MaxKilos < k
        <5>1. Grams * MaxKilos <= Grams * B /\ Grams * B < B * B
          BY <1>2
        <5>2. Grams * MaxKilos \in Nat /\ Grams * B \in Nat
          BY <1>2
        <5>. QED  BY <3>1, <3>2, <5>1, <5>2
      <4>3. (Grams * MaxKilos) * d < k * d
        BY <1>2, <3>2, <4>2
      <4>. QED  BY <1>2, <3>2, <4>1, <4>3
    <3>6. InRange(Grams * n, d)
      BY <1>2, <3>1, <3>3, <3>4, <3>5 DEF InRange
    <3>. QED  BY <1>2, <3>3, <3>6 DEF Ranged
  <2>. QED  BY <2>1, <2>2
<1>4. Times(Grams, f) = Float(Grams * n, d)
  BY <1>1 DEF Times
<1>5. n = 0 => Grams * n = 0
  BY <1>2
<1>6. ASSUME NEW j \in 0 .. 34
      PROVE  /\ AtMost(f, j) => AtMost(Times(Grams, f), j * Grams)
             /\ AtLeast(f, j) => AtLeast(Times(Grams, f), j * Grams)
  <2>1. j * Grams \in Nat /\ j * Grams < B
    <3>1. j * Grams <= 34 * Grams /\ j * Grams \in Nat
      BY <1>2
    <3>. QED  BY <1>2, <3>1
  <2>2. n <= j * d => Grams * n <= (j * Grams) * d
    BY <1>2
  <2>3. j * d <= n => (j * Grams) * d <= Grams * n
    BY <1>2
  <2>. QED  BY <1>1, <1>3, <1>4, <2>1, <2>2, <2>3, FloatBounds DEF AtMost, AtLeast
<1>. QED  BY <1>1, <1>3, <1>4, <1>5, <1>6, FloatFacts

\* The three keep the order.
LEMMA SlopeOrder ==
  ASSUME NEW a \in Reading, NEW c \in Reading, NEW b \in Reading, b # 0, a <= c
  PROVE  Leq(Slope(a, b), Slope(c, b))
<1>1. Ranged(17 * a, b) /\ Ranged(17 * c, b)
  BY SlopeFacts
<1>2. Slope(a, b) = Float(17 * a, b) /\ Slope(c, b) = Float(17 * c, b)
  BY SlopeFacts
<1>3. (17 * a) * b <= (17 * c) * b
  BY Bits DEF Reading
<1>. QED  BY <1>1, <1>2, <1>3, FloatOrder

LEMMA PlusOrder ==
  ASSUME NEW f, IsFloat(f), AtMost(f, 17 * MaxReading),
         NEW g, IsFloat(g), AtMost(g, 17 * MaxReading), Leq(f, g)
  PROVE  Leq(Plus(17, f), Plus(17, g))
<1>1. PICK n, d, m, c : n = f[1] /\ d = f[2] /\ m = g[1] /\ c = g[2]
  OBVIOUS
<1>2. n \in Nat /\ d \in Nat \ {0} /\ m \in Nat /\ c \in Nat \ {0} /\ n * c <= m * d
  BY <1>1 DEF IsFloat, Leq
<1>3. (17 * d + n) * c <= (17 * c + m) * d
  BY <1>2
<1>4. Ranged(17 * d + n, d) /\ Plus(17, f) = Float(17 * d + n, d)
  BY <1>1, PlusFacts
<1>5. Ranged(17 * c + m, c) /\ Plus(17, g) = Float(17 * c + m, c)
  BY <1>1, PlusFacts
<1>. QED  BY <1>3, <1>4, <1>5, FloatOrder

LEMMA TimesOrder ==
  ASSUME NEW f, IsFloat(f), AtMost(f, MaxKilos),
         NEW g, IsFloat(g), AtMost(g, MaxKilos), Leq(f, g)
  PROVE  Leq(Times(Grams, f), Times(Grams, g))
<1>1. PICK n, d, m, c : n = f[1] /\ d = f[2] /\ m = g[1] /\ c = g[2]
  OBVIOUS
<1>2. /\ n \in Nat /\ d \in Nat \ {0} /\ m \in Nat /\ c \in Nat \ {0} /\ n * c <= m * d
      /\ Grams \in Nat
  BY <1>1, Bits DEF IsFloat, Leq
<1>3. (Grams * n) * c <= (Grams * m) * d
  <2>1. Grams * (n * c) <= Grams * (m * d)
    BY <1>2
  <2>. QED  BY <1>2, <2>1
<1>4. Ranged(Grams * n, d) /\ Times(Grams, f) = Float(Grams * n, d)
  BY <1>1, TimesFacts
<1>5. Ranged(Grams * m, c) /\ Times(Grams, g) = Float(Grams * m, c)
  BY <1>1, TimesFacts
<1>. QED  BY <1>3, <1>4, <1>5, FloatOrder

\* The cut.
LEMMA IntegralFacts ==
  ASSUME NEW f, IsFloat(f)
  PROVE  /\ Integral(f) \in Nat
         /\ Integral(f) * f[2] <= f[1] /\ f[1] < (Integral(f) + 1) * f[2]
<1>1. PICK n, d, w : n = f[1] /\ d = f[2] /\ w = n \div d
  OBVIOUS
<1>2. n \in Nat /\ d \in Nat \ {0}
  BY <1>1 DEF IsFloat
<1>3. Integral(f) = w
  BY <1>1, <1>2 DEF Integral
<1>4. PICK r : r = n % d
  OBVIOUS
<1>5. w \in Nat /\ r \in 0 .. d - 1 /\ n = w * d + r
  BY <1>1, <1>2, <1>4, Division
<1>6. w * d <= n /\ n < (w + 1) * d
  BY <1>2, <1>5
<1>. QED  BY <1>1, <1>3, <1>5, <1>6

\* The cut does not pass integers ...
LEMMA IntegralBounds ==
  ASSUME NEW f, IsFloat(f), NEW m \in Nat
  PROVE  /\ AtMost(f, m) => Integral(f) <= m
         /\ AtLeast(f, m) => m <= Integral(f)
<1>1. PICK n, d, w : n = f[1] /\ d = f[2] /\ w = Integral(f)
  OBVIOUS
<1>2. n \in Nat /\ d \in Nat \ {0} /\ w \in Nat /\ w * d <= n /\ n < (w + 1) * d
  BY <1>1, IntegralFacts DEF IsFloat
<1>3. ASSUME n <= m * d PROVE w <= m
  <2>1. w * d <= m * d
    BY <1>2, <1>3
  <2>. QED  BY <1>2, <2>1
<1>4. ASSUME m * d <= n PROVE m <= w
  <2>1. m * d < (w + 1) * d
    BY <1>2, <1>4
  <2>. QED  BY <1>2, <2>1
<1>. QED  BY <1>1, <1>3, <1>4 DEF AtMost, AtLeast

\* ... and keeps the order.
LEMMA IntegralOrder ==
  ASSUME NEW f, IsFloat(f), NEW g, IsFloat(g), Leq(f, g)
  PROVE  Integral(f) <= Integral(g)
<1>1. PICK n, d, m, c, w : n = f[1] /\ d = f[2] /\ m = g[1] /\ c = g[2] /\ w = Integral(f)
  OBVIOUS
<1>2. /\ n \in Nat /\ d \in Nat \ {0} /\ m \in Nat /\ c \in Nat \ {0} /\ n * c <= m * d
      /\ w \in Nat /\ w * d <= n
  BY <1>1, IntegralFacts DEF IsFloat, Leq
<1>3. (w * c) * d <= m * d
  <2>1. (w * d) * c <= n * c
    BY <1>2
  <2>. QED  BY <1>2, <2>1
<1>4. w * c <= m
  <2>1. w * c \in Nat
    BY <1>2
  <2>. QED  BY <1>2, <1>3, <2>1
<1>. QED  BY <1>1, <1>2, <1>4, IntegralBounds DEF AtLeast

\* What is near n/d by j is cut to an integer near it by j and one.
LEMMA IntegralNear ==
  ASSUME NEW f, IsFloat(f), NEW n \in Nat, NEW d \in Nat \ {0}, NEW j \in Nat,
         Near(f[1], f[2], n, d, j)
  PROVE  /\ (Integral(f) * d - n) * B <= j * n
         /\ -(d * B) - j * n <= (Integral(f) * d - n) * B
<1>1. PICK x, y, w : x = f[1] /\ y = f[2] /\ w = Integral(f)
  OBVIOUS
<1>2. /\ x \in Nat /\ y \in Nat \ {0} /\ w \in Nat /\ w * y <= x /\ x < (w + 1) * y
      /\ B \in Nat \ {0}
      /\ (B - j) * (n * y) <= B * (x * d) /\ B * (x * d) <= (B + j) * (n * y)
  BY <1>1, IntegralFacts, Bits DEF IsFloat, Near
<1>3. (B * (w * d)) * y <= ((B + j) * n) * y
  <2>1. (w * y) * (B * d) <= x * (B * d)
    BY <1>2
  <2>2. (w * y) * (B * d) = (B * (w * d)) * y /\ x * (B * d) = B * (x * d)
    BY <1>2
  <2>3. (B + j) * (n * y) = ((B + j) * n) * y
    BY <1>2
  <2>4. (B * (w * d)) * y \in Int /\ B * (x * d) \in Int /\ ((B + j) * n) * y \in Int
    BY <1>2
  <2>. QED  BY <1>2, <2>1, <2>2, <2>3, <2>4
<1>4. ((B - j) * n) * y <= (B * ((w + 1) * d)) * y
  <2>1. x * (B * d) <= ((w + 1) * y) * (B * d)
    BY <1>2
  <2>2. ((w + 1) * y) * (B * d) = (B * ((w + 1) * d)) * y /\ x * (B * d) = B * (x * d)
    BY <1>2
  <2>3. (B - j) * (n * y) = ((B - j) * n) * y
    BY <1>2
  <2>4. (B * ((w + 1) * d)) * y \in Int /\ B * (x * d) \in Int /\ ((B - j) * n) * y \in Int
    BY <1>2
  <2>. QED  BY <1>2, <2>1, <2>2, <2>3, <2>4
<1>5. B * (w * d) <= (B + j) * n
  <2>1. B * (w * d) \in Int /\ (B + j) * n \in Int
    BY <1>2
  <2>. QED  BY <1>2, <1>3, <2>1
<1>6. (B - j) * n <= B * ((w + 1) * d)
  <2>1. (B - j) * n \in Int /\ B * ((w + 1) * d) \in Int
    BY <1>2
  <2>. QED  BY <1>2, <1>4, <2>1
<1>. QED  BY <1>1, <1>2, <1>5, <1>6
--------------------------------------------------------------------------------
(* The error of the operations.                                            *)

\* A slope has the error of one rounding.
LEMMA SlopeNear ==
  ASSUME NEW a \in Reading, NEW b \in Reading, b # 0
  PROVE  Near(Slope(a, b)[1], Slope(a, b)[2], 17 * a, b, 1)
<1>1. PICK n, f1, f2 : n = 17 * a /\ f1 = Slope(a, b)[1] /\ f2 = Slope(a, b)[2]
  OBVIOUS
<1>2. n \in Nat /\ b \in Nat \ {0} /\ B \in Nat \ {0} /\ f1 \in Nat /\ f2 \in Nat \ {0}
  BY <1>1, Bits, SlopeFacts DEF Reading, IsFloat
<1>3. Ranged(n, b) /\ Slope(a, b) = Float(n, b)
  BY <1>1, SlopeFacts
<1>4. CASE n = 0
  <2>1. f1 = 0
    BY <1>1, <1>3, <1>4, FloatFacts
  <2>2. (B - 1) * (0 * f2) = 0 /\ B * (0 * b) = 0 /\ (B + 1) * (0 * f2) = 0
    BY <1>2
  <2>. QED  BY <1>1, <1>4, <2>1, <2>2 DEF Near
<1>5. CASE n # 0
  <2>1. PICK p, q : Rounds(Slope(a, b), n, b, p, q)
    BY <1>3, <1>5, FloatFacts
  <2>. QED  BY <1>1, <1>2, <1>5, <2>1, RoundsFacts DEF Near
<1>. QED  BY <1>4, <1>5

\* Adding 17 adds that of another, as 17 has none ...
LEMMA PlusNear ==
  ASSUME NEW f, IsFloat(f), AtMost(f, 17 * MaxReading),
         NEW n \in Nat, NEW d \in Nat \ {0}, NEW j \in Nat, j <= B,
         Near(f[1], f[2], n, d, j)
  PROVE  Near(Plus(17, f)[1], Plus(17, f)[2], 17 * d + n, d, j + 2)
<1>1. PICK x, y : x = f[1] /\ y = f[2]
  OBVIOUS
<1>2. /\ x \in Nat /\ y \in Nat \ {0} /\ B \in Nat \ {0}
      /\ (B - j) * (n * y) <= B * (x * d) /\ B * (x * d) <= (B + j) * (n * y)
  BY <1>1, Bits DEF IsFloat, Near
<1>3. Near(17 * y + x, y, 17 * d + n, d, j)
  <2>1. PICK k : k = 17 * (d * y)
    OBVIOUS
  <2>2. /\ k \in Nat /\ (17 * d + n) * y = k + n * y /\ (17 * y + x) * d = k + x * d
        /\ n * y \in Nat /\ x * d \in Nat
    BY <1>2, <2>1
  <2>3. PICK u, v : u = n * y /\ v = x * d
    OBVIOUS
  <2>4. u \in Nat /\ v \in Nat /\ (B - j) * u <= B * v /\ B * v <= (B + j) * u
    BY <1>2, <2>2, <2>3
  <2>5. (B - j) * k <= B * k /\ B * k <= (B + j) * k
    BY <1>2, <2>2
  <2>6. (B - j) * (k + u) <= B * (k + v) /\ B * (k + v) <= (B + j) * (k + u)
    <3>1. /\ (B - j) * (k + u) = (B - j) * k + (B - j) * u /\ B * (k + v) = B * k + B * v
          /\ (B + j) * (k + u) = (B + j) * k + (B + j) * u
      BY <1>2, <2>2, <2>4
    <3>2. PICK a1, a2, a3, b1, b2, b3 :
            /\ a1 = (B - j) * k /\ a2 = B * k /\ a3 = (B + j) * k
            /\ b1 = (B - j) * u /\ b2 = B * v /\ b3 = (B + j) * u
      OBVIOUS
    <3>3. {a1, a2, a3, b1, b2, b3} \subseteq Int
      BY <1>2, <2>2, <2>4, <3>2
    <3>4. a1 + b1 <= a2 + b2 /\ a2 + b2 <= a3 + b3
      BY <2>4, <2>5, <3>2, <3>3
    <3>. QED  BY <3>1, <3>2, <3>4
  <2>. QED  BY <2>2, <2>3, <2>6 DEF Near
<1>4. Ranged(17 * y + x, y) /\ Plus(17, f) = Float(17 * y + x, y)
  BY <1>1, PlusFacts
<1>5. 17 * d + n \in Nat
  OBVIOUS
<1>. QED  BY <1>3, <1>4, <1>5, FloatNear

\* ... and so does going over to grams.
LEMMA TimesNear ==
  ASSUME NEW f, IsFloat(f), AtMost(f, MaxKilos),
         NEW n \in Nat, NEW d \in Nat \ {0}, NEW j \in Nat, j <= B,
         Near(f[1], f[2], n, d, j)
  PROVE  Near(Times(Grams, f)[1], Times(Grams, f)[2], n * Grams, d, j + 2)
<1>1. PICK x, y : x = f[1] /\ y = f[2]
  OBVIOUS
<1>2. /\ x \in Nat /\ y \in Nat \ {0} /\ B \in Nat \ {0} /\ Grams \in Nat \ {0}
      /\ (B - j) * (n * y) <= B * (x * d) /\ B * (x * d) <= (B + j) * (n * y)
  BY <1>1, Bits DEF IsFloat, Near
<1>3. Near(Grams * x, y, n * Grams, d, j)
  <2>1. PICK a, b, c : a = (B - j) * (n * y) /\ b = B * (x * d) /\ c = (B + j) * (n * y)
    OBVIOUS
  <2>2. a \in Int /\ b \in Int /\ c \in Int /\ a <= b /\ b <= c
    BY <1>2, <2>1
  <2>3. Grams * a <= Grams * b /\ Grams * b <= Grams * c
    BY <1>2, <2>2
  <2>4. /\ (B - j) * ((n * Grams) * y) = Grams * a /\ B * ((Grams * x) * d) = Grams * b
        /\ (B + j) * ((n * Grams) * y) = Grams * c
    BY <1>2, <2>1
  <2>. QED  BY <2>3, <2>4 DEF Near
<1>4. Ranged(Grams * x, y) /\ Times(Grams, f) = Float(Grams * x, y)
  BY <1>1, TimesFacts
<1>5. n * Grams \in Nat
  BY <1>2
<1>. QED  BY <1>3, <1>4, <1>5, FloatNear
--------------------------------------------------------------------------------
(* The two lines, a readings above the lower of two points that are b      *)
(* readings apart.                                                         *)

First(a, b)  == Integral(Times(Grams, Slope(a, b)))
Second(a, b) == Integral(Times(Grams, Plus(17, Slope(a, b))))

\* The first line begins at 0 and stays below 17 kg.
LEMMA FirstFacts ==
  ASSUME NEW a \in Reading, NEW b \in Reading, b # 0, a <= b
  PROVE  /\ IsFloat(Slope(a, b)) /\ AtMost(Slope(a, b), MaxKilos)
         /\ IsFloat(Times(Grams, Slope(a, b)))
         /\ First(a, b) \in Nat /\ First(a, b) <= 17 * Grams
         /\ a = 0 => First(a, b) = 0
<1>1. PICK f, g : f = Slope(a, b) /\ g = Times(Grams, f)
  OBVIOUS
<1>2. IsFloat(f) /\ AtMost(f, 17) /\ AtMost(f, MaxKilos)
  <2>1. IsFloat(f) /\ AtMost(f, 17) /\ AtMost(f, 17 * MaxReading)
    BY <1>1, SlopeFacts
  <2>2. PICK x, y : x = f[1] /\ y = f[2]
    OBVIOUS
  <2>3. x \in Nat /\ y \in Nat /\ x <= (17 * MaxReading) * y
    BY <2>1, <2>2 DEF IsFloat, AtMost
  <2>4. (17 * MaxReading) * y <= MaxKilos * y
    BY <2>3, Kilos, Bits
  <2>5. (17 * MaxReading) * y \in Int /\ MaxKilos * y \in Int
    BY <2>3, Kilos, Bits
  <2>. QED  BY <2>1, <2>2, <2>3, <2>4, <2>5 DEF AtMost
<1>3. IsFloat(g) /\ AtMost(g, 17 * Grams)
  BY <1>1, <1>2, TimesFacts
<1>4. Integral(g) \in Nat /\ Integral(g) <= 17 * Grams
  BY <1>3, Bits, IntegralFacts, IntegralBounds
<1>5. ASSUME a = 0 PROVE Integral(g) = 0
  <2>1. f[1] = 0
    <3>1. 17 * a = 0
      BY <1>5
    <3>. QED  BY <1>1, <3>1, SlopeFacts, FloatFacts
  <2>2. g = <<0, 1>>
    BY <1>1, <1>2, <2>1, TimesFacts
  <2>3. AtMost(g, 0)
    BY <2>2 DEF AtMost
  <2>4. Integral(g) <= 0
    BY <1>3, <2>3, IntegralBounds
  <2>. QED  BY <1>4, <2>4
<1>. QED  BY <1>1, <1>2, <1>3, <1>4, <1>5 DEF First

\* The second begins at 17 kg, goes through 34 kg and stays above 17 kg.
LEMMA SecondFacts ==
  ASSUME NEW a \in Reading, NEW b \in Reading, b # 0
  PROVE  /\ IsFloat(Plus(17, Slope(a, b))) /\ AtMost(Plus(17, Slope(a, b)), MaxKilos)
         /\ IsFloat(Times(Grams, Plus(17, Slope(a, b))))
         /\ Second(a, b) \in Nat /\ 17 * Grams <= Second(a, b)
         /\ a = 0 => Second(a, b) = 17 * Grams
         /\ a = b => Second(a, b) = 34 * Grams
<1>1. PICK e, f, g : e = Slope(a, b) /\ f = Plus(17, e) /\ g = Times(Grams, f)
  OBVIOUS
<1>2. IsFloat(e) /\ AtMost(e, 17 * MaxReading)
  BY <1>1, SlopeFacts
<1>3. IsFloat(f) /\ AtMost(f, MaxKilos) /\ AtLeast(f, 17)
  BY <1>1, <1>2, PlusFacts
<1>4. IsFloat(g) /\ AtLeast(g, 17 * Grams)
  BY <1>1, <1>3, TimesFacts
<1>5. Integral(g) \in Nat /\ 17 * Grams <= Integral(g)
  BY <1>4, Bits, IntegralFacts, IntegralBounds
<1>6. ASSUME a = 0 PROVE Integral(g) = 17 * Grams
  <2>1. 17 * a = 0
    BY <1>6
  <2>2. e[1] = 0
    BY <1>1, <2>1, SlopeFacts, FloatFacts
  <2>3. AtMost(f, 17)
    BY <1>1, <1>2, <2>2, PlusFacts
  <2>4. AtMost(g, 17 * Grams)
    BY <1>1, <1>3, <2>3, TimesFacts
  <2>5. Integral(g) <= 17 * Grams
    BY <1>4, <2>4, Bits, IntegralBounds
  <2>. QED  BY <1>5, <2>5, Bits
<1>7. ASSUME a = b PROVE Integral(g) = 34 * Grams
  <2>1. AtMost(e, 17) /\ AtLeast(e, 17)
    BY <1>1, <1>7, SlopeFacts DEF Reading
  <2>2. AtMost(f, 34) /\ AtLeast(f, 34)
    BY <1>1, <1>2, <2>1, PlusFacts
  <2>3. AtMost(g, 34 * Grams) /\ AtLeast(g, 34 * Grams)
    BY <1>1, <1>3, <2>2, TimesFacts
  <2>4. Integral(g) <= 34 * Grams /\ 34 * Grams <= Integral(g)
    BY <1>4, <2>3, Bits, IntegralBounds
  <2>. QED  BY <1>5, <2>4, Bits
<1>. QED  BY <1>1, <1>3, <1>4, <1>5, <1>6, <1>7 DEF Second

\* Both rise.
LEMMA LinesOrder ==
  ASSUME NEW a \in Reading, NEW c \in Reading, NEW b \in Reading, b # 0, a <= c
  PROVE  /\ c <= b => First(a, b) <= First(c, b)
         /\ Second(a, b) <= Second(c, b)
<1>1. IsFloat(Slope(a, b)) /\ IsFloat(Slope(c, b)) /\ Leq(Slope(a, b), Slope(c, b))
  BY SlopeFacts, SlopeOrder
<1>2. ASSUME c <= b PROVE First(a, b) <= First(c, b)
  <2>1. a <= b
    BY <1>2 DEF Reading
  <2>2. Leq(Times(Grams, Slope(a, b)), Times(Grams, Slope(c, b)))
    BY <1>1, <1>2, <2>1, FirstFacts, TimesOrder
  <2>. QED  BY <1>2, <2>1, <2>2, FirstFacts, IntegralOrder DEF First
<1>3. Second(a, b) <= Second(c, b)
  <2>1. Leq(Plus(17, Slope(a, b)), Plus(17, Slope(c, b)))
    BY <1>1, SlopeFacts, PlusOrder
  <2>2. Leq(Times(Grams, Plus(17, Slope(a, b))), Times(Grams, Plus(17, Slope(c, b))))
    BY <2>1, SecondFacts, TimesOrder
  <2>. QED  BY <2>2, SecondFacts, IntegralOrder DEF Second
<1>. QED  BY <1>2, <1>3

\* A weight is off its line n/d by the gram that is cut and five times what a
\* float's last bit is to it.
LEMMA Off ==
  ASSUME NEW w \in Nat, NEW d \in Nat \ {0}, NEW n \in Nat, NEW j \in 0 .. 5,
         (w * d - n) * B <= j * n, -(d * B) - j * n <= (w * d - n) * B
  PROVE  w * d - n \in -(d + (5 * n) \div B) .. d + (5 * n) \div B
<1>1. PICK q, r, t : q = (5 * n) \div B /\ r = (5 * n) % B /\ t = w * d - n
  OBVIOUS
<1>2. B \in Nat \ {0} /\ 5 * n \in Nat /\ t \in Int
  BY <1>1, Bits
<1>3. q \in Nat /\ r \in 0 .. B - 1 /\ 5 * n = q * B + r
  BY <1>1, <1>2, Division
<1>4. j * n <= 5 * n /\ j * n \in Nat
  OBVIOUS
<1>5. t * B < (q + 1) * B
  BY <1>1, <1>2, <1>3, <1>4
<1>6. t <= q
  <2>1. t < q + 1
    BY <1>2, <1>3, <1>5
  <2>. QED  BY <1>2, <1>3, <2>1
<1>7. (-(d + q) - 1) * B < t * B
  <2>1. PICK k : k = d * B
    OBVIOUS
  <2>2. k \in Nat /\ (-(d + q) - 1) * B = -k - q * B - B /\ q * B \in Nat /\ t * B \in Int
    BY <1>2, <1>3, <2>1
  <2>3. -k - j * n <= t * B
    BY <1>1, <2>1
  <2>. QED  BY <1>2, <1>3, <1>4, <2>2, <2>3
<1>8. -(d + q) - 1 < t
  BY <1>2, <1>3, <1>7
<1>. QED  BY <1>1, <1>2, <1>3, <1>6, <1>8

\* The weights on the first line are off by no more than that ...
LEMMA FirstNear ==
  ASSUME NEW a \in Reading, NEW b \in Reading, b # 0, a <= b
  PROVE  LET n == (17 * a) * Grams
         IN  First(a, b) * b - n \in -(b + (5 * n) \div B) .. b + (5 * n) \div B
<1>1. PICK n, g : n = (17 * a) * Grams /\ g = Times(Grams, Slope(a, b))
  OBVIOUS
<1>2. /\ 17 * a \in Nat /\ b \in Nat \ {0} /\ n \in Nat /\ B \in Nat /\ 1 <= B /\ Grams \in Nat
      /\ First(a, b) = Integral(g)
  BY <1>1, Bits DEF Reading, First
<1>3. Near(g[1], g[2], n, b, 1 + 2)
  BY <1>1, <1>2, SlopeNear, FirstFacts, TimesNear
<1>4. IsFloat(g) /\ Integral(g) \in Nat
  BY <1>1, <1>2, FirstFacts
<1>5. Near(g[1], g[2], n, b, 3) /\ 3 \in 0 .. 5 /\ 3 \in Nat
  BY <1>3
<1>6. (Integral(g) * b - n) * B <= 3 * n /\ -(b * B) - 3 * n <= (Integral(g) * b - n) * B
  BY <1>2, <1>4, <1>5, IntegralNear
<1>7. Integral(g) * b - n \in -(b + (5 * n) \div B) .. b + (5 * n) \div B
  BY <1>2, <1>4, <1>5, <1>6, Off
<1>. QED  BY <1>1, <1>2, <1>7

\* ... nor are those on the second.
LEMMA SecondNear ==
  ASSUME NEW a \in Reading, NEW b \in Reading, b # 0
  PROVE  LET n == (17 * b + 17 * a) * Grams
         IN  Second(a, b) * b - n \in -(b + (5 * n) \div B) .. b + (5 * n) \div B
<1>1. PICK n, f, g : /\ n = (17 * b + 17 * a) * Grams
                     /\ f = Plus(17, Slope(a, b)) /\ g = Times(Grams, f)
  OBVIOUS
<1>2. /\ 17 * a \in Nat /\ b \in Nat \ {0} /\ 17 * b + 17 * a \in Nat /\ n \in Nat
      /\ B \in Nat /\ 1 <= B /\ 3 <= B /\ Grams \in Nat
      /\ Second(a, b) = Integral(g)
  BY <1>1, Bits DEF Reading, Second
<1>3. Near(f[1], f[2], 17 * b + 17 * a, b, 1 + 2)
  BY <1>1, <1>2, SlopeNear, SlopeFacts, PlusNear
<1>4. IsFloat(f) /\ AtMost(f, MaxKilos) /\ IsFloat(g) /\ Integral(g) \in Nat
  BY <1>1, <1>2, SecondFacts
<1>5. Near(f[1], f[2], 17 * b + 17 * a, b, 3) /\ 3 \in Nat
  BY <1>3
<1>6. Near(g[1], g[2], n, b, 3 + 2)
  BY <1>1, <1>2, <1>4, <1>5, TimesNear
<1>7. Near(g[1], g[2], n, b, 5) /\ 5 \in 0 .. 5 /\ 5 \in Nat
  BY <1>6
<1>8. (Integral(g) * b - n) * B <= 5 * n /\ -(b * B) - 5 * n <= (Integral(g) * b - n) * B
  BY <1>2, <1>4, <1>7, IntegralNear
<1>9. Integral(g) * b - n \in -(b + (5 * n) \div B) .. b + (5 * n) \div B
  BY <1>2, <1>4, <1>7, <1>8, Off
<1>. QED  BY <1>1, <1>2, <1>9
--------------------------------------------------------------------------------
(* Range: the calibration may be out of order, and the second line fall.   *)

\* The opposite of a float.
Negative(f) == <<-f[1], f[2]>>

\* The largest weight leaves room for its rounding in int32_t, or is below a float
\* that fits it.
LEMMA WidthFacts ==
  /\ 2 ^ Width \in Nat \ {0} /\ MaxKilos * Grams \in Nat
  /\ \/ 2 * (MaxKilos * Grams) <= 2 ^ Width - 1
     \/ \E k \in 1 .. Precision : /\ MaxKilos * Grams <= (B - 1) * 2 ^ k
                                  /\ (B - 1) * 2 ^ k <= 2 ^ Width - 1
<1>1. PICK k : k = Width - Precision
  OBVIOUS
<1>2. /\ k \in Nat \ {0} /\ Precision \in Nat \ {0} /\ Width \in Nat \ {0}
      /\ Width = Precision + k /\ MaxKilos * Grams <= 2 ^ Width - 2 ^ k
  BY <1>1, WeightsAssumption DEF MaxKilos
<1>3. 2 ^ k \in Nat \ {0} /\ 2 ^ Width \in Nat \ {0} /\ 2 ^ Width = B * 2 ^ k
  BY <1>2, PowerDouble, PowerSum DEF B
<1>4. B \in Nat \ {0} /\ Grams \in Nat \ {0} /\ MaxKilos \in Nat /\ MaxKilos < B /\ 34 * Grams < B
  BY Bits, Kilos
<1>5. MaxKilos * Grams \in Nat
  BY <1>4
<1>6. CASE k <= Precision
  <2>1. (B - 1) * 2 ^ k = 2 ^ Width - 2 ^ k
    BY <1>3, <1>4
  <2>. QED  BY <1>2, <1>3, <1>5, <1>6, <2>1
<1>7. CASE ~(k <= Precision)
  <2>1. 2 * B <= 2 ^ k
    BY <1>2, <1>7, PowerOrder DEF B
  <2>2. B * B <= 2 ^ Width
    <3>1. B <= 2 ^ k
      BY <1>3, <1>4, <2>1
    <3>. QED  BY <1>3, <1>4, <3>1
  <2>3. MaxKilos * (34 * Grams) <= B * B
    <3>1. MaxKilos * (34 * Grams) <= B * (34 * Grams) /\ B * (34 * Grams) <= B * B
      BY <1>4
    <3>2. /\ MaxKilos * (34 * Grams) \in Int /\ B * (34 * Grams) \in Int /\ B * B \in Int
      BY <1>4
    <3>. QED  BY <3>1, <3>2
  <2>4. PICK m : m = MaxKilos * Grams
    OBVIOUS
  <2>5. m \in Nat /\ m # 0 /\ MaxKilos * (34 * Grams) = 34 * m
    <3>1. MaxKilos # 0
      BY <1>4, Bits DEF MaxKilos
    <3>. QED  BY <1>4, <2>4, <3>1
  <2>6. B * B \in Nat
    BY <1>4
  <2>7. 2 * m <= 2 ^ Width - 1
    BY <1>3, <2>2, <2>3, <2>5, <2>6
  <2>. QED  BY <1>3, <1>5, <2>4, <2>7
<1>. QED  BY <1>6, <1>7

\* The largest float below a power of two is a float.
LEMMA FloatWide ==
  ASSUME NEW k \in 1 .. Precision
  PROVE  LET j == (B - 1) * 2 ^ k IN Ranged(j, 1) /\ Float(j, 1) = <<j, 1>>
<1>1. /\ B \in Nat \ {0} /\ H \in Nat \ {0} /\ B = 2 * H /\ Precision \in Nat \ {0}
      /\ B = 2 ^ Precision /\ 2 ^ 0 = 1
  BY Bits
<1>2. PICK j, t : j = (B - 1) * 2 ^ k /\ t = 2 ^ k
  OBVIOUS
<1>3. k \in Nat \ {0} /\ t \in Nat \ {0} /\ 2 <= t /\ t <= B
  <2>1. k \in Nat \ {0} /\ t \in Nat \ {0}
    BY <1>1, <1>2, PowerDouble
  <2>2. 2 * 2 ^ 0 <= t
    <3>1. PICK i \in Nat : i = 0
      OBVIOUS
    <3>2. i < k /\ k \in Nat
      BY <2>1, <3>1
    <3>3. 2 * 2 ^ i <= 2 ^ k
      BY <3>2, PowerOrder, Zenon
    <3>. QED  BY <1>1, <1>2, <3>1, <3>3
  <2>3. t <= B
    <3>1. CASE k = Precision
      BY <1>1, <1>2, <2>1, <3>1
    <3>2. CASE k # Precision
      <4>1. 2 * t <= B
        BY <1>1, <1>2, <2>1, <3>2, PowerOrder
      <4>. QED  BY <1>1, <2>1, <4>1
    <3>. QED  BY <3>1, <3>2
  <2>. QED  BY <1>1, <2>1, <2>2, <2>3
<1>4. j \in Nat \ {0} /\ j = B * t - t /\ B <= j /\ B * t \in Nat /\ B * t <= B * B /\ H * t <= j
  <2>1. B * t = 2 * (H * t) /\ H * t \in Nat /\ t <= H * t /\ H * 2 <= H * t
    BY <1>1, <1>3
  <2>2. (B - 1) * t = B * t - t
    BY <1>1, <1>3
  <2>3. B * t <= B * B
    BY <1>1, <1>3
  <2>. QED  BY <1>1, <1>2, <1>3, <2>1, <2>2, <2>3
<1>5. InRange(j, 1)
  <2>1. PICK m : m = B * B
    OBVIOUS
  <2>2. m \in Nat \ {0} /\ B <= m
    BY <1>1, <2>1
  <2>3. j < m
    BY <1>3, <1>4, <2>1, <2>2
  <2>4. H <= j * m
    <3>1. m <= j * m /\ j * m \in Nat
      BY <1>4, <2>2
    <3>. QED  BY <1>1, <2>2, <3>1
  <2>5. 1 * m = m /\ 1 * H = H
    BY <1>1, <2>2
  <2>. QED  BY <1>4, <2>1, <2>3, <2>4, <2>5 DEF InRange
<1>6. Ranged(j, 1)
  BY <1>4, <1>5 DEF Ranged
<1>7. PICK p, q : Rounds(Float(j, 1), j, 1, p, q)
  BY <1>4, <1>6, FloatFacts
<1>8. /\ p \in Nat \ {0} /\ q \in Nat \ {0} /\ IsScale(p, q)
      /\ H * (1 * q) <= j * p /\ j * p < B * (1 * q)
      /\ Float(j, 1) = <<RoundEven(j * p, 1 * q) * q, p>>
  BY <1>7 DEF Rounds
<1>9. 1 * q = q /\ H * q <= j * p /\ j * p < B * q
  BY <1>8
<1>10. p = 1 /\ \E e \in 0 .. Precision : q = 2 ^ e
  <2>1. q # 1
    <3>1. j <= j * p
      BY <1>4, <1>8
    <3>. QED  BY <1>1, <1>4, <1>8, <1>9, <3>1
  <2>. QED  BY <1>8, <2>1 DEF IsScale
<1>11. PICK e \in 0 .. Precision : q = 2 ^ e
  BY <1>10
<1>12. e <= k
  <2>1. SUFFICES ASSUME k < e PROVE FALSE
    BY <1>3, <1>11
  <2>2. 2 * t <= q
    BY <1>2, <1>3, <1>11, <2>1, PowerOrder
  <2>3. H * (2 * t) <= H * q /\ H * (2 * t) = B * t
    BY <1>1, <1>3, <1>8, <2>2
  <2>4. H * q \in Nat
    BY <1>1, <1>8
  <2>. QED  BY <1>3, <1>4, <1>9, <1>10, <2>3, <2>4
<1>13. PICK u \in Nat : j = u * q
  <2>1. 2 ^ (k - e) \in Nat /\ t = 2 ^ (k - e) * q
    <3>1. k - e \in Nat /\ e \in Nat /\ (k - e) + e = k
      BY <1>3, <1>11, <1>12
    <3>. QED  BY <1>2, <1>11, <3>1, PowerSum, PowerDouble
  <2>2. PICK v : v = 2 ^ (k - e)
    OBVIOUS
  <2>3. j = ((B - 1) * v) * q /\ (B - 1) * v \in Nat
    BY <1>1, <1>2, <1>8, <2>1, <2>2
  <2>. QED  BY <2>3
<1>14. RoundEven(j * p, 1 * q) = u
  <2>1. j * p = u * q /\ 1 * q = q
    BY <1>4, <1>8, <1>9, <1>10, <1>13
  <2>. QED  BY <1>8, <1>13, <2>1, RoundExact
<1>15. Float(j, 1) = <<j, 1>>
  BY <1>8, <1>10, <1>13, <1>14
<1>. QED  BY <1>2, <1>6, <1>15

\* The grams of a float that is not above the largest fit int32_t.
LEMMA TimesRange ==
  ASSUME NEW f, IsFloat(f), AtMost(f, MaxKilos)
  PROVE  AtMost(Times(Grams, f), 2 ^ Width - 1)
<1>1. PICK n, d, g, x, y, m : /\ n = Grams * f[1] /\ d = f[2] /\ g = Times(Grams, f)
                              /\ x = g[1] /\ y = g[2] /\ m = MaxKilos * Grams
  OBVIOUS
<1>2. Ranged(n, d) /\ g = Float(n, d) /\ x \in Nat /\ y \in Nat \ {0}
  BY <1>1, TimesFacts DEF IsFloat
<1>3. n \in Nat /\ d \in Nat \ {0} /\ m \in Nat /\ n <= m * d /\ B \in Nat \ {0}
  <2>1. f[1] \in Nat /\ d \in Nat \ {0} /\ f[1] <= MaxKilos * d /\ Grams \in Nat
    BY <1>1, Bits DEF IsFloat, AtMost
  <2>2. Grams * f[1] <= Grams * (MaxKilos * d)
    BY <2>1, Kilos
  <2>. QED  BY <1>1, <2>1, <2>2, Kilos, Bits
<1>4. 2 ^ Width \in Nat \ {0}
  BY WidthFacts
<1>5. CASE 2 * m <= 2 ^ Width - 1
  <2>1. x <= (2 * m) * y
    <3>1. CASE n = 0
      <4>1. x = 0
        BY <1>1, <1>2, <3>1, FloatFacts
      <4>. QED  BY <1>2, <1>3, <4>1
    <3>2. CASE n # 0
      <4>1. PICK p, q : Rounds(g, n, d, p, q)
        BY <1>2, <3>2, FloatFacts
      <4>2. B * (x * d) <= (B + 1) * (n * y)
        BY <1>1, <1>3, <3>2, <4>1, RoundsFacts
      <4>3. (B + 1) * (n * y) <= (2 * B) * (n * y)
        BY <1>2, <1>3
      <4>4. n * y <= (m * d) * y
        BY <1>2, <1>3
      <4>5. (2 * B) * (n * y) <= (2 * B) * ((m * d) * y)
        BY <1>2, <1>3, <4>4
      <4>6. (2 * B) * ((m * d) * y) = B * (((2 * m) * y) * d)
        BY <1>2, <1>3
      <4>7. B * (x * d) <= B * (((2 * m) * y) * d)
        <5>1. PICK a, b, c, e : /\ a = B * (x * d) /\ b = (B + 1) * (n * y)
                                /\ c = (2 * B) * (n * y) /\ e = (2 * B) * ((m * d) * y)
          OBVIOUS
        <5>2. a \in Int /\ b \in Int /\ c \in Int /\ e \in Int
          BY <1>2, <1>3, <5>1
        <5>. QED  BY <4>2, <4>3, <4>5, <4>6, <5>1, <5>2
      <4>8. x * d <= ((2 * m) * y) * d
        <5>1. x * d \in Nat /\ ((2 * m) * y) * d \in Nat
          BY <1>2, <1>3
        <5>. QED  BY <1>3, <4>7, <5>1
      <4>9. (2 * m) * y \in Nat
        BY <1>2, <1>3
      <4>. QED  BY <1>2, <1>3, <4>8, <4>9
    <3>. QED  BY <3>1, <3>2
  <2>2. (2 * m) * y <= (2 ^ Width - 1) * y
    BY <1>2, <1>3, <1>4, <1>5
  <2>3. (2 * m) * y \in Int /\ (2 ^ Width - 1) * y \in Int
    BY <1>2, <1>3, <1>4
  <2>. QED  BY <1>1, <1>2, <2>1, <2>2, <2>3 DEF AtMost
<1>6. ASSUME NEW k \in 1 .. Precision, m <= (B - 1) * 2 ^ k, (B - 1) * 2 ^ k <= 2 ^ Width - 1
      PROVE  AtMost(g, 2 ^ Width - 1)
  <2>1. PICK j : j = (B - 1) * 2 ^ k
    OBVIOUS
  <2>2. Ranged(j, 1) /\ Float(j, 1) = <<j, 1>>
    BY <2>1, FloatWide
  <2>3. j \in Nat /\ m <= j /\ j <= 2 ^ Width - 1
    BY <1>6, <2>1, <2>2 DEF Ranged
  <2>4. n * 1 <= j * d
    <3>1. m * d <= j * d /\ m * d \in Int /\ j * d \in Int
      BY <1>3, <2>3
    <3>. QED  BY <1>3, <3>1
  <2>5. Leq(g, <<j, 1>>)
    BY <1>2, <2>2, <2>4, FloatOrder
  <2>6. x <= j * y
    BY <1>1, <1>2, <2>3, <2>5 DEF Leq
  <2>7. j * y <= (2 ^ Width - 1) * y
    BY <1>2, <1>4, <2>3
  <2>8. j * y \in Int /\ (2 ^ Width - 1) * y \in Int
    BY <1>2, <1>4, <2>3
  <2>. QED  BY <1>1, <1>2, <2>6, <2>7, <2>8 DEF AtMost
<1>. QED  BY <1>1, <1>5, <1>6, WidthFacts

\* Rounding the opposite gives the opposite.
LEMMA FloatNegative ==
  ASSUME NEW n, NEW d, Ranged(n, d), n # 0
  PROVE  Float(-n, d) = Negative(Float(n, d)) /\ Float(n, d)[1] \in Nat \ {0}
<1>1. n \in Nat /\ -n # 0 /\ ~(-n > 0) /\ -(-n) = n
  BY DEF Ranged
<1>2. Float(n, d) = Nearest(n, d) /\ Float(n, d)[1] \in Nat \ {0}
  BY FloatFacts
<1>3. Float(-n, d) = <<-Nearest(n, d)[1], Nearest(n, d)[2]>>
  BY <1>1 DEF Float
<1>. QED  BY <1>2, <1>3 DEF Negative

\* What the conversion to int32_t makes of a float and of its opposite.
LEMMA Cut ==
  ASSUME NEW f, IsFloat(f), AtMost(f, MaxKilos)
  PROVE  /\ Integral(Times(Grams, f)) \in 0 .. 2 ^ Width - 1
         /\ f[1] # 0 => Integral(Times(Grams, Negative(f))) \in -(2 ^ Width) .. 0
<1>1. PICK n, d, g, w : n = f[1] /\ d = f[2] /\ g = Times(Grams, f) /\ w = Integral(g)
  OBVIOUS
<1>2. n \in Nat /\ d \in Nat \ {0} /\ Grams \in Nat \ {0} /\ 2 ^ Width \in Nat \ {0}
  BY <1>1, Bits, WidthFacts DEF IsFloat
<1>3. /\ Ranged(Grams * n, d) /\ g = Float(Grams * n, d) /\ IsFloat(g)
      /\ AtMost(g, 2 ^ Width - 1)
  BY <1>1, TimesFacts, TimesRange
<1>4. w \in Nat /\ w <= 2 ^ Width - 1
  <2>1. 2 ^ Width - 1 \in Nat
    BY <1>2
  <2>. QED  BY <1>1, <1>3, <2>1, IntegralFacts, IntegralBounds
<1>5. ASSUME n # 0 PROVE Integral(Times(Grams, Negative(f))) = -w
  <2>1. Grams * n # 0 /\ Grams * (-n) = -(Grams * n)
    BY <1>2, <1>5
  <2>2. Times(Grams, Negative(f)) = Float(-(Grams * n), d)
    BY <1>1, <2>1 DEF Times, Negative
  <2>3. Times(Grams, Negative(f)) = Negative(g) /\ g[1] \in Nat \ {0}
    BY <1>3, <2>1, <2>2, FloatNegative
  <2>4. PICK x, y : x = g[1] /\ y = g[2]
    OBVIOUS
  <2>5. x \in Nat \ {0} /\ ~(-x >= 0) /\ -(-x) = x /\ x >= 0
    BY <2>3, <2>4
  <2>6. Integral(Negative(g)) = -(x \div y)
    BY <2>4, <2>5 DEF Integral, Negative
  <2>7. w = x \div y
    BY <1>1, <2>4, <2>5 DEF Integral
  <2>. QED  BY <2>3, <2>6, <2>7
<1>. QED  BY <1>1, <1>2, <1>4, <1>5

\* A slope between points in the wrong order is the opposite of that between the
\* same points in the right one.
LEMMA SlopeNegative ==
  ASSUME NEW a \in Reading, NEW b \in Reading, b # 0
  PROVE  /\ a = 0 => Slope(a, -b) = Slope(a, b)
         /\ a # 0 => Slope(a, -b) = Negative(Slope(a, b))
<1>1. /\ a \in Nat /\ b \in Nat \ {0} /\ ~(-b > 0) /\ -(-b) = b /\ -17 * a = -(17 * a)
      /\ a = 0 => -(17 * a) = 17 * a
      /\ a # 0 => 17 * a # 0
  BY Bits DEF Reading
<1>2. Slope(a, -b) = Float(-(17 * a), b)
  BY <1>1 DEF Slope
<1>3. Ranged(17 * a, b) /\ Slope(a, b) = Float(17 * a, b)
  BY SlopeFacts
<1>. QED  BY <1>1, <1>2, <1>3, FloatNegative

\* The falling line: 17 less a slope is a float or the opposite of one.
LEMMA PlusNegative ==
  ASSUME NEW a \in Reading, NEW b \in Reading, b # 0, a # 0
  PROVE  \E g : /\ IsFloat(g) /\ AtMost(g, MaxKilos)
                /\ \/ Plus(17, Negative(Slope(a, b))) = g
                   \/ g[1] # 0 /\ Plus(17, Negative(Slope(a, b))) = Negative(g)
<1>1. PICK f, x, y, z : f = Slope(a, b) /\ x = f[1] /\ y = f[2] /\ z = 17 * y - x
  OBVIOUS
<1>2. /\ B \in Nat \ {0} /\ H \in Nat \ {0} /\ B = 2 * H /\ MaxReading \in Nat
      /\ MaxKilos \in Nat /\ MaxKilos < B /\ 17 <= MaxKilos /\ 17 * MaxReading <= MaxKilos
  BY Bits, Kilos
<1>3. x \in Nat /\ y \in Nat \ {0} /\ z \in Int /\ x <= (17 * MaxReading) * y
  BY <1>1, SlopeFacts DEF IsFloat, AtMost
<1>4. y = 1 \/ x <= B
  <2>1. /\ Ranged(17 * a, b) /\ f = Float(17 * a, b)
    BY <1>1, SlopeFacts
  <2>2. 17 * a \in Nat \ {0} /\ b \in Nat \ {0}
    BY DEF Reading
  <2>3. PICK p, q : Rounds(f, 17 * a, b, p, q)
    BY <2>1, <2>2, FloatFacts
  <2>4. (p = 1 \/ q = 1) /\ y = p
    BY <1>1, <2>2, <2>3, RoundsFacts DEF Rounds, IsScale
  <2>5. PICK r \in Nat : f[1] = r * q /\ r <= B
    <3>1. PICK n : n = 17 * a
      OBVIOUS
    <3>2. n \in Nat \ {0} /\ b \in Nat \ {0} /\ Rounds(f, n, b, p, q)
      BY <2>2, <2>3, <3>1
    <3>. QED  BY <3>2, RoundsFacts, Zenon
  <2>. QED  BY <1>1, <2>4, <2>5
<1>5. Plus(17, Negative(f)) = Float(z, y)
  <2>1. 17 * y + -x = z
    BY <1>1, <1>3
  <2>. QED  BY <1>1, <2>1 DEF Plus, Negative
<1>6. ASSUME NEW w \in Nat, w <= MaxKilos * y, w # 0 => y <= B \/ y <= w
      PROVE  Ranged(w, y) /\ AtMost(Float(w, y), MaxKilos)
  <2>1. Ranged(w, y)
    <3>1. PICK k : k = B * B
      OBVIOUS
    <3>2. k \in Nat /\ B <= k /\ H <= k /\ B * H <= k
      BY <1>2, <3>1
    <3>3. w < y * k
      <4>1. MaxKilos * y < y * k /\ MaxKilos * y \in Nat /\ y * k \in Nat
        BY <1>2, <1>3, <3>2
      <4>. QED  BY <1>6, <4>1
    <3>4. ASSUME w # 0 PROVE y * H <= w * k
      <4>1. CASE y <= B
        <5>1. y * H <= B * H /\ k <= w * k
          BY <1>2, <1>3, <1>6, <3>2, <3>4, <4>1
        <5>2. y * H \in Nat /\ B * H \in Nat /\ w * k \in Nat
          BY <1>2, <1>3, <1>6, <3>2
        <5>. QED  BY <3>2, <5>1, <5>2
      <4>2. CASE y <= w
        <5>1. y * H <= w * H /\ w * H <= w * k
          BY <1>2, <1>3, <1>6, <3>2, <4>2
        <5>2. y * H \in Nat /\ w * H \in Nat /\ w * k \in Nat
          BY <1>2, <1>3, <1>6, <3>2
        <5>. QED  BY <5>1, <5>2
      <4>. QED  BY <1>6, <3>4, <4>1, <4>2
    <3>. QED  BY <1>3, <1>6, <3>1, <3>3, <3>4 DEF Ranged, InRange
  <2>. QED  BY <1>2, <1>6, <2>1, FloatBounds DEF AtMost
<1>7. 17 * y <= MaxKilos * y /\ (17 * MaxReading) * y <= MaxKilos * y
  BY <1>2, <1>3
<1>8. (17 * MaxReading) * y \in Nat /\ MaxKilos * y \in Nat
  BY <1>2, <1>3
<1>9. CASE 0 <= z
  <2>1. z \in Nat /\ z <= MaxKilos * y /\ (y <= B \/ y <= z)
    BY <1>1, <1>2, <1>3, <1>4, <1>7, <1>8, <1>9
  <2>2. IsFloat(Float(z, y)) /\ AtMost(Float(z, y), MaxKilos)
    BY <1>6, <2>1, FloatFacts
  <2>. QED  BY <1>1, <1>5, <2>2
<1>10. CASE z < 0
  <2>1. -z \in Nat \ {0} /\ -(-z) = z /\ -z <= MaxKilos * y /\ y <= B
    BY <1>1, <1>2, <1>3, <1>4, <1>7, <1>8, <1>10
  <2>2. Ranged(-z, y) /\ AtMost(Float(-z, y), MaxKilos)
    BY <1>6, <2>1
  <2>3. Float(z, y) = Negative(Float(-z, y)) /\ Float(-z, y)[1] # 0
    BY <2>1, <2>2, FloatNegative
  <2>4. IsFloat(Float(-z, y))
    BY <2>2, FloatFacts
  <2>. QED  BY <1>1, <1>5, <2>2, <2>3, <2>4
<1>. QED  BY <1>3, <1>9, <1>10
--------------------------------------------------------------------------------
(* The weight of a reading.                                                *)

\* The weights on the second line fit int32_t, whether it rises or falls.
LEMMA SecondRange ==
  ASSUME NEW a \in Reading, NEW b \in Reading, b # 0
  PROVE  /\ Second(a, b) \in 0 .. 2 ^ Width - 1
         /\ Second(a, -b) \in -(2 ^ Width) .. 2 ^ Width - 1
<1>1. 2 ^ Width \in Nat \ {0}
  BY WidthFacts
<1>2. Second(a, b) \in 0 .. 2 ^ Width - 1
  BY SecondFacts, Cut DEF Second
<1>3. CASE a = 0
  <2>1. Second(a, -b) = Second(a, b)
    BY <1>3, SlopeNegative DEF Second
  <2>. QED  BY <1>1, <1>2, <2>1
<1>4. CASE a # 0
  <2>1. PICK g : /\ IsFloat(g) /\ AtMost(g, MaxKilos)
                 /\ \/ Plus(17, Negative(Slope(a, b))) = g
                    \/ g[1] # 0 /\ Plus(17, Negative(Slope(a, b))) = Negative(g)
    BY <1>4, PlusNegative
  <2>2. Second(a, -b) = Integral(Times(Grams, Plus(17, Negative(Slope(a, b)))))
    BY <1>4, SlopeNegative DEF Second
  <2>3. \/ Second(a, -b) = Integral(Times(Grams, g))
        \/ g[1] # 0 /\ Second(a, -b) = Integral(Times(Grams, Negative(g)))
    BY <2>1, <2>2
  <2>4. Second(a, -b) \in 0 .. 2 ^ Width - 1 \/ Second(a, -b) \in -(2 ^ Width) .. 0
    BY <2>1, <2>3, Cut
  <2>. QED  BY <1>1, <1>2, <2>4
<1>. QED  BY <1>3, <1>4

\* The three points of a sensor are readings.
LEMMA PointsFacts ==
  ASSUME NEW cal \in [0 .. 11 -> Reading], NEW pos \in Sensor
  PROVE  /\ cal[pos] \in Reading /\ cal[pos + 4] \in Reading /\ cal[pos + 8] \in Reading
         /\ Reading \subseteq Nat
         /\ \A a, b \in Reading : b <= a => a - b \in Reading
<1>1. pos \in 0 .. 11 /\ pos + 4 \in 0 .. 11 /\ pos + 8 \in 0 .. 11
  BY DEF Sensor
<1>2. MaxReading \in Nat
  BY Bits
<1>3. Reading \subseteq Nat /\ \A a, b \in Reading : b <= a => a - b \in Reading
  BY <1>2 DEF Reading
<1>. QED  BY <1>1, <1>3

\* The four ways through interpolate.
LEMMA InterpolateCases ==
  ASSUME NEW cal \in [0 .. 11 -> Reading], NEW pos \in Sensor, NEW v \in Reading, NEW u
  PROVE  LET w    == Interpolate(cal, pos, v, u)
             zero == cal[pos]
             mid  == cal[pos + 4]
             high == cal[pos + 8]
         IN  \/ v < zero /\ w = 0
             \/ zero <= v /\ v < mid /\ w = First(v - zero, mid - zero)
             \/ zero <= v /\ mid <= v /\ high = mid /\ w = u
             \/ zero <= v /\ mid <= v /\ high # mid /\ w = Second(v - mid, high - mid)
<1>1. PICK zero, mid, high : zero = cal[pos] /\ mid = cal[pos + 4] /\ high = cal[pos + 8]
  OBVIOUS
<1>2. zero \in Nat /\ mid \in Nat /\ v \in Nat
  BY <1>1, PointsFacts
<1>3. Interpolate(cal, pos, v, u) =
        IF v < zero THEN 0
        ELSE IF v < mid THEN First(v - zero, mid - zero)
        ELSE IF high = mid THEN u
        ELSE Second(v - mid, high - mid)
  BY <1>1 DEF Interpolate, Zero, Mid, High, First, Second
<1>4. (~(v < zero) => zero <= v) /\ (~(v < mid) => mid <= v)
  BY <1>2
<1>5. CASE v < zero
  BY <1>1, <1>3, <1>5
<1>6. CASE ~(v < zero) /\ v < mid
  BY <1>1, <1>3, <1>4, <1>6
<1>7. CASE ~(v < zero) /\ ~(v < mid) /\ high = mid
  BY <1>1, <1>3, <1>4, <1>7
<1>8. CASE ~(v < zero) /\ ~(v < mid) /\ high # mid
  BY <1>1, <1>3, <1>4, <1>8
<1>. QED  BY <1>5, <1>6, <1>7, <1>8

\* Any calibration: the weight is in range, if it is not undefined.
LEMMA InterpolateRange ==
  ASSUME NEW cal \in [0 .. 11 -> Reading], NEW pos \in Sensor, NEW v \in Reading,
         NEW u \in Int
  PROVE  /\ Interpolate(cal, pos, v, u) \in Int
         /\ v < cal[pos + 4] \/ cal[pos + 8] # cal[pos + 4] =>
              Interpolate(cal, pos, v, u) \in -(2 ^ Width) .. 2 ^ Width - 1
<1>1. PICK w, zero, mid, high : /\ w = Interpolate(cal, pos, v, u)
                                /\ zero = cal[pos] /\ mid = cal[pos + 4] /\ high = cal[pos + 8]
  OBVIOUS
<1>2. /\ zero \in Reading /\ mid \in Reading /\ high \in Reading /\ Reading \subseteq Nat
      /\ \A a, b \in Reading : b <= a => a - b \in Reading
      /\ 2 ^ Width \in Nat \ {0}
  BY <1>1, PointsFacts, WidthFacts
<1>3. \/ v < zero /\ w = 0
      \/ zero <= v /\ v < mid /\ w = First(v - zero, mid - zero)
      \/ zero <= v /\ mid <= v /\ high = mid /\ w = u
      \/ zero <= v /\ mid <= v /\ high # mid /\ w = Second(v - mid, high - mid)
  BY <1>1, InterpolateCases
<1>4. CASE v < zero /\ w = 0
  BY <1>1, <1>2, <1>4
<1>5. CASE zero <= v /\ v < mid /\ w = First(v - zero, mid - zero)
  <2>1. PICK a, b : a = v - zero /\ b = mid - zero
    OBVIOUS
  <2>2. zero <= mid /\ mid # zero /\ a <= b
    BY <1>2, <1>5, <2>1
  <2>3. a \in Reading /\ b \in Reading /\ b # 0
    BY <1>2, <1>5, <2>1, <2>2
  <2>4. w \in 0 .. 2 ^ Width - 1
    BY <1>5, <2>1, <2>2, <2>3, FirstFacts, Cut DEF First
  <2>. QED  BY <1>1, <1>2, <2>4
<1>6. CASE zero <= v /\ mid <= v /\ high = mid /\ w = u
  <2>1. ~(v < mid)
    BY <1>2, <1>6
  <2>. QED  BY <1>1, <1>6, <2>1
<1>7. CASE zero <= v /\ mid <= v /\ high # mid /\ w = Second(v - mid, high - mid)
  <2>1. PICK a : a = v - mid
    OBVIOUS
  <2>2. a \in Reading
    BY <1>2, <1>7, <2>1
  <2>3. CASE mid < high
    <3>1. PICK b : b = high - mid
      OBVIOUS
    <3>2. mid <= high /\ b # 0
      BY <1>2, <2>3, <3>1
    <3>3. b \in Reading
      BY <1>2, <3>1, <3>2
    <3>4. w \in 0 .. 2 ^ Width - 1
      BY <1>7, <2>1, <2>2, <3>1, <3>2, <3>3, SecondRange
    <3>. QED  BY <1>1, <1>2, <3>4
  <2>4. CASE high < mid
    <3>1. PICK b : b = mid - high
      OBVIOUS
    <3>2. high <= mid /\ b # 0 /\ high - mid = -b
      BY <1>2, <2>4, <3>1
    <3>3. b \in Reading
      BY <1>2, <3>1, <3>2
    <3>4. w \in -(2 ^ Width) .. 2 ^ Width - 1
      BY <1>7, <2>1, <2>2, <3>2, <3>3, SecondRange
    <3>. QED  BY <1>1, <1>2, <3>4
  <2>. QED  BY <1>2, <1>7, <2>3, <2>4
<1>. QED  BY <1>3, <1>4, <1>5, <1>6, <1>7

\* A working sensor: two lines that rise from 0 and from 17 kg.
LEMMA InterpolateAscending ==
  ASSUME NEW cal \in [0 .. 11 -> Reading], NEW pos \in Sensor, NEW v \in Reading, NEW u,
         cal[pos] < cal[pos + 4], cal[pos + 4] < cal[pos + 8]
  PROVE  LET w    == Interpolate(cal, pos, v, u)
             zero == cal[pos]
             mid  == cal[pos + 4]
             high == cal[pos + 8]
         IN  /\ w \in Nat
             /\ mid - zero \in Reading \ {0} /\ high - mid \in Reading \ {0}
             /\ \/ v < zero /\ w = 0
                \/ /\ v - zero \in Reading /\ zero <= v /\ v < mid /\ v - zero <= mid - zero
                   /\ w = First(v - zero, mid - zero) /\ w <= 17 * Grams
                \/ /\ v - mid \in Reading /\ mid <= v
                   /\ w = Second(v - mid, high - mid) /\ 17 * Grams <= w
<1>1. PICK w, zero, mid, high, b, c :
        /\ w = Interpolate(cal, pos, v, u)
        /\ zero = cal[pos] /\ mid = cal[pos + 4] /\ high = cal[pos + 8]
        /\ b = mid - zero /\ c = high - mid
  OBVIOUS
<1>2. /\ zero \in Reading /\ mid \in Reading /\ high \in Reading /\ Reading \subseteq Nat
      /\ \A i, j \in Reading : j <= i => i - j \in Reading
  BY <1>1, PointsFacts
<1>3. zero <= mid /\ mid <= high /\ mid # zero /\ high # mid /\ b # 0 /\ c # 0
  BY <1>1, <1>2
<1>4. b \in Reading /\ c \in Reading
  BY <1>1, <1>2, <1>3
<1>5. \/ v < zero /\ w = 0
      \/ zero <= v /\ v < mid /\ w = First(v - zero, b)
      \/ mid <= v /\ w = Second(v - mid, c)
  <2>1. \/ v < zero /\ w = 0
        \/ zero <= v /\ v < mid /\ w = First(v - zero, mid - zero)
        \/ zero <= v /\ mid <= v /\ high = mid /\ w = u
        \/ zero <= v /\ mid <= v /\ high # mid /\ w = Second(v - mid, high - mid)
    BY <1>1, InterpolateCases
  <2>. QED  BY <1>1, <1>3, <2>1
<1>6. CASE v < zero /\ w = 0
  BY <1>1, <1>3, <1>4, <1>6
<1>7. CASE zero <= v /\ v < mid /\ w = First(v - zero, b)
  <2>1. PICK a : a = v - zero
    OBVIOUS
  <2>2. a \in Reading /\ a <= b
    BY <1>1, <1>2, <1>7, <2>1
  <2>3. w \in Nat /\ w <= 17 * Grams
    BY <1>3, <1>4, <1>7, <2>1, <2>2, FirstFacts
  <2>. QED  BY <1>1, <1>3, <1>4, <1>7, <2>1, <2>2, <2>3
<1>8. CASE mid <= v /\ w = Second(v - mid, c)
  <2>1. PICK a : a = v - mid
    OBVIOUS
  <2>2. a \in Reading
    BY <1>1, <1>2, <1>8, <2>1
  <2>3. w \in Nat /\ 17 * Grams <= w
    BY <1>3, <1>4, <1>8, <2>1, <2>2, SecondFacts
  <2>. QED  BY <1>1, <1>3, <1>4, <1>8, <2>1, <2>2, <2>3
<1>. QED  BY <1>5, <1>6, <1>7, <1>8

\* A working sensor weighs no less at a larger reading, on whichever lines.
LEMMA InterpolateOrder ==
  ASSUME NEW cal \in [0 .. 11 -> Reading], NEW pos \in Sensor,
         cal[pos] < cal[pos + 4], cal[pos + 4] < cal[pos + 8],
         NEW v \in Reading, NEW u, NEW x \in Reading, NEW y, v <= x
  PROVE  Interpolate(cal, pos, v, u) <= Interpolate(cal, pos, x, y)
<1>1. PICK w, s, zero, mid, high, b, c, a, d, e, f :
        /\ w = Interpolate(cal, pos, v, u) /\ s = Interpolate(cal, pos, x, y)
        /\ zero = cal[pos] /\ mid = cal[pos + 4] /\ high = cal[pos + 8]
        /\ b = mid - zero /\ c = high - mid
        /\ a = v - zero /\ d = x - zero /\ e = v - mid /\ f = x - mid
  OBVIOUS
<1>2. zero \in Nat /\ mid \in Nat /\ high \in Nat /\ v \in Nat /\ x \in Nat /\ Grams \in Nat
  BY <1>1, PointsFacts, Bits
<1>3. /\ w \in Nat /\ s \in Nat /\ b \in Reading /\ b # 0 /\ c \in Reading /\ c # 0
      /\ \/ v < zero /\ w = 0
         \/ a \in Reading /\ zero <= v /\ v < mid /\ a <= b /\ w = First(a, b) /\ w <= 17 * Grams
         \/ e \in Reading /\ mid <= v /\ w = Second(e, c)
  BY <1>1, InterpolateAscending
<1>4. \/ x < zero
      \/ d \in Reading /\ x < mid /\ d <= b /\ s = First(d, b)
      \/ f \in Reading /\ mid <= x /\ s = Second(f, c) /\ 17 * Grams <= s
  BY <1>1, InterpolateAscending
<1>5. (zero <= v => a <= d) /\ e <= f /\ zero < mid
  BY <1>1, <1>2
<1>6. CASE v < zero /\ w = 0
  BY <1>1, <1>3, <1>6
<1>7. CASE a \in Reading /\ zero <= v /\ v < mid /\ a <= b /\ w = First(a, b) /\ w <= 17 * Grams
  <2>1. ~(x < zero)
    BY <1>2, <1>7
  <2>2. CASE d \in Reading /\ x < mid /\ d <= b /\ s = First(d, b)
    BY <1>1, <1>3, <1>5, <1>7, <2>2, LinesOrder
  <2>3. CASE f \in Reading /\ mid <= x /\ s = Second(f, c) /\ 17 * Grams <= s
    BY <1>1, <1>2, <1>3, <1>7, <2>3
  <2>. QED  BY <1>4, <2>1, <2>2, <2>3
<1>8. CASE e \in Reading /\ mid <= v /\ w = Second(e, c)
  <2>1. ~(x < zero) /\ ~(x < mid)
    BY <1>2, <1>5, <1>8
  <2>2. f \in Reading /\ s = Second(f, c)
    BY <1>4, <2>1
  <2>3. c \in Reading /\ c # 0 /\ e <= f
    BY <1>3, <1>5
  <2>4. Second(e, c) <= Second(f, c)
    BY <1>8, <2>2, <2>3, LinesOrder
  <2>. QED  BY <1>1, <1>8, <2>2, <2>4
<1>. QED  BY <1>3, <1>6, <1>7, <1>8
--------------------------------------------------------------------------------
(* The fields.                                                             *)

\* A field has room for 34 kg, and keeps what it has room for.
LEMMA FieldFacts ==
  /\ 2 ^ Field \in Nat \ {0} /\ 34 * Grams < 2 ^ Field
  /\ \A n \in Int : Narrow(n) \in 0 .. 2 ^ Field - 1
  /\ \A n \in Nat : n < 2 ^ Field => Narrow(n) = n
<1>1. Field \in Nat /\ 34 * Grams < 2 ^ Field
  BY WeightsAssumption
<1>2. 2 ^ Field \in Nat \ {0}
  BY <1>1, PowerDouble
<1>3. PICK f : f = 2 ^ Field
  OBVIOUS
<1>4. \A n \in Int : n % f \in 0 .. f - 1
  BY <1>2, <1>3
<1>5. \A n \in Nat : n < f => n % f = n
  BY <1>2, <1>3
<1>. QED  BY <1>1, <1>2, <1>3, <1>4, <1>5 DEF Narrow

\* A working sensor's weight passes into its field at every reading up to the one
\* at 34 kg, and at those beyond it whose weight a field has room for.
LEMMA RoomFacts ==
  ASSUME NEW cal \in [0 .. 11 -> Reading], NEW pos \in Sensor, NEW v \in Reading, NEW u,
         cal[pos] < cal[pos + 4], cal[pos + 4] < cal[pos + 8],
         NEW w, w = Interpolate(cal, pos, v, u),
         v <= cal[pos + 8] \/ w < 2 ^ Field
  PROVE  w \in Nat /\ Narrow(w) = w
<1>1. w \in Nat
  BY InterpolateAscending
<1>2. CASE v <= cal[pos + 8]
  <2>1. PICK top, s : top = cal[pos + 8] /\ s = Interpolate(cal, pos, top, u)
    OBVIOUS
  <2>2. top \in Reading /\ ~(top < cal[pos]) /\ ~(top < cal[pos + 4])
    BY <2>1, PointsFacts
  <2>3. s = 34 * Grams
    <3>1. PICK c : c = top - cal[pos + 4]
      OBVIOUS
    <3>2. c \in Reading \ {0} /\ s = Second(c, c)
      BY <2>1, <2>2, <3>1, InterpolateAscending
    <3>. QED  BY <3>2, SecondFacts
  <2>4. w <= s
    BY <1>2, <2>1, <2>2, InterpolateOrder
  <2>. QED  BY <1>1, <2>3, <2>4, FieldFacts, Bits
<1>3. CASE w < 2 ^ Field
  BY <1>1, <1>3, FieldFacts
<1>. QED  BY <1>2, <1>3
--------------------------------------------------------------------------------
(* The specification.                                                      *)

\* weights is what interpolate makes of the last report.
Weighed ==
  \A pos \in Sensor : \E undefined \in Undefined :
    weights[pos] = Interpolate(calibration, pos, values[pos], undefined)

\* The inductive invariant.
IInv ==
  /\ calibration \in [0 .. 11 -> Reading]
  /\ values \in [Sensor -> Reading]
  /\ weights \in [Sensor -> Int]
  /\ Weighed
  /\ out = [pos \in Sensor |-> Narrow(weights[pos])]

\* The weights of a report have their type and are those of interpolate.
LEMMA WeightFacts ==
  ASSUME NEW cal \in [0 .. 11 -> Reading], NEW report \in [Sensor -> Reading],
         NEW undefined \in [Sensor -> Undefined],
         NEW w,
         w = [pos \in Sensor |-> Interpolate(cal, pos, report[pos], undefined[pos])]
  PROVE  /\ w \in [Sensor -> Int]
         /\ \A pos \in Sensor : \E u \in Undefined :
              w[pos] = Interpolate(cal, pos, report[pos], u)
<1>1. ASSUME NEW pos \in Sensor
      PROVE  /\ undefined[pos] \in Undefined
             /\ Interpolate(cal, pos, report[pos], undefined[pos]) \in Int
  <2>1. undefined[pos] \in Undefined /\ undefined[pos] \in Int /\ report[pos] \in Reading
    BY WeightsAssumption
  <2>. QED  BY <2>1, InterpolateRange
<1>. QED  BY <1>1

\* Init implies the invariant, and every step preserves it.
LEMMA Inductive == Spec => []IInv
<1>1. Init => IInv
  <2>1. SUFFICES ASSUME Init PROVE IInv
    OBVIOUS
  <2>2. calibration \in [0 .. 11 -> Reading] /\ values \in [Sensor -> Reading]
    BY <2>1, WeightsAssumption DEF Init
  <2>3. PICK undefined \in [Sensor -> Undefined] :
          weights = [pos \in Sensor |->
                       Interpolate(calibration, pos, values[pos], undefined[pos])]
    BY <2>1 DEF Init
  <2>4. out = [pos \in Sensor |-> Narrow(weights[pos])]
    BY <2>1 DEF Init
  <2>. QED  BY <2>2, <2>3, <2>4, WeightFacts DEF IInv, Weighed
<1>2. IInv /\ [Next]_vars => IInv'
  <2>1. SUFFICES ASSUME IInv, [Next]_vars PROVE IInv'
    OBVIOUS
  <2>2. ASSUME NEW report \in Reports, Weigh(report) PROVE IInv'
    <3>1. /\ calibration' = calibration /\ calibration \in [0 .. 11 -> Reading]
          /\ values' = report /\ report \in [Sensor -> Reading]
      BY <2>1, <2>2, WeightsAssumption DEF IInv, Weigh
    <3>2. PICK undefined \in [Sensor -> Undefined] :
            weights' = [pos \in Sensor |->
                          Interpolate(calibration, pos, report[pos], undefined[pos])]
      BY <2>2 DEF Weigh
    <3>3. /\ weights' \in [Sensor -> Int]
          /\ \A pos \in Sensor : \E u \in Undefined :
               weights'[pos] = Interpolate(calibration, pos, report[pos], u)
      BY <3>1, <3>2, WeightFacts
    <3>4. out' = [pos \in Sensor |-> Narrow(weights'[pos])]
      BY <2>2 DEF Weigh
    <3>. QED  BY <3>1, <3>3, <3>4 DEF IInv, Weighed
  <2>3. CASE UNCHANGED vars
    BY <2>1, <2>3 DEF vars, IInv, Weighed
  <2>. QED  BY <2>1, <2>2, <2>3 DEF Next
<1>. QED  BY <1>1, <1>2, PTL DEF Spec

\* Every variable has its type, the fields of BalanceBoardData theirs, whatever
\* undefined gives, and for a working sensor interpolate never returns less than 0
\* (BalanceBoard::interpolate, wiipp.cpp).
THEOREM TypeCorrect == Spec => []TypeOK
<1>1. IInv => TypeOK
  <2>1. SUFFICES ASSUME IInv PROVE TypeOK
    OBVIOUS
  <2>2. ASSUME NEW pos \in Sensor, Ascending(pos) PROVE weights[pos] >= 0
    <3>1. PICK v, w : v = values[pos] /\ w = weights[pos]
      OBVIOUS
    <3>2. PICK u \in Undefined : w = Interpolate(calibration, pos, v, u)
      BY <2>1, <2>2, <3>1 DEF IInv, Weighed
    <3>3. /\ calibration \in [0 .. 11 -> Reading] /\ v \in Reading
          /\ calibration[pos] < calibration[pos + 4] /\ calibration[pos + 4] < calibration[pos + 8]
      BY <2>1, <2>2, <3>1 DEF IInv, Ascending
    <3>4. w \in Nat
      BY <3>2, <3>3, InterpolateAscending
    <3>. QED  BY <3>1, <3>4
  <2>3. out \in [Sensor -> 0 .. 2 ^ Field - 1]
    <3>1. \A pos \in Sensor : weights[pos] \in Int
      BY <2>1 DEF IInv
    <3>2. \A pos \in Sensor : Narrow(weights[pos]) \in 0 .. 2 ^ Field - 1
      BY <3>1, FieldFacts
    <3>. QED  BY <2>1, <3>2 DEF IInv
  <2>. QED  BY <2>1, <2>2, <2>3 DEF IInv, TypeOK
<1>. QED  BY <1>1, Inductive, PTL

\* For every calibration, out of order as well, a weight is in the range of the
\* int32_t that interpolate returns, unless the code divides by 0.
THEOREM FitsHolds == Spec => []Fits
<1>1. IInv => Fits
  <2>1. SUFFICES ASSUME IInv, NEW pos \in Sensor,
                        values[pos] < calibration[pos + 4]
                          \/ calibration[pos + 8] # calibration[pos + 4]
                 PROVE  weights[pos] \in -(2 ^ Width) .. 2 ^ Width - 1
    BY DEF Fits
  <2>2. PICK u \in Undefined : weights[pos] = Interpolate(calibration, pos, values[pos], u)
    BY <2>1 DEF IInv, Weighed
  <2>3. u \in Int /\ values[pos] \in Reading /\ calibration \in [0 .. 11 -> Reading]
    BY <2>1, WeightsAssumption DEF IInv
  <2>. QED  BY <2>1, <2>2, <2>3, InterpolateRange
<1>. QED  BY <1>1, Inductive, PTL

\* From one report to the next what the application gets of a working sensor does
\* not fall when its reading does not, until a field has no room for the weight,
\* which is beyond 34 kg: no rounding on the way, nor the change from the one line
\* to the other at 17 kg, turns the order of two weights round.
THEOREM MonotoneHolds == Spec => Monotone
<1>1. ASSUME IInv, IInv', [Next]_vars
      PROVE  [\A pos \in Sensor :
                /\ Ascending(pos)
                /\ values[pos] <= values'[pos]
                /\ Roomy(pos)'
                => out[pos] <= out'[pos]]_vars
  <2>1. SUFFICES ASSUME Next, NEW pos \in Sensor, Ascending(pos),
                        values[pos] <= values'[pos], Roomy(pos)'
                 PROVE  out[pos] <= out'[pos]
    BY <1>1
  <2>2. calibration' = calibration
    BY <2>1 DEF Next, Weigh
  <2>3. PICK v, x, w, s : v = values[pos] /\ x = values'[pos]
                          /\ w = weights[pos] /\ s = weights'[pos]
    OBVIOUS
  <2>4. PICK u \in Undefined : w = Interpolate(calibration, pos, v, u)
    BY <1>1, <2>3 DEF IInv, Weighed
  <2>5. PICK y \in Undefined : s = Interpolate(calibration, pos, x, y)
    BY <1>1, <2>2, <2>3 DEF IInv, Weighed
  <2>6. /\ calibration \in [0 .. 11 -> Reading] /\ v \in Reading /\ x \in Reading
        /\ calibration[pos] < calibration[pos + 4] /\ calibration[pos + 4] < calibration[pos + 8]
        /\ v <= x /\ (x <= calibration[pos + 8] \/ s < 2 ^ Field)
    BY <1>1, <2>1, <2>2, <2>3 DEF IInv, Ascending, Roomy
  <2>7. w \in Nat /\ w <= s
    BY <2>4, <2>5, <2>6, InterpolateOrder, InterpolateAscending
  <2>8. s \in Nat /\ Narrow(s) = s
    BY <2>5, <2>6, RoomFacts
  <2>9. Narrow(w) = w
    <3>1. v \in Nat /\ x \in Nat /\ calibration[pos + 8] \in Nat /\ 2 ^ Field \in Nat
      BY <2>6, PointsFacts, FieldFacts
    <3>2. v <= calibration[pos + 8] \/ w < 2 ^ Field
      BY <2>6, <2>7, <2>8, <3>1
    <3>. QED  BY <2>4, <2>6, <3>2, RoomFacts
  <2>10. out[pos] = Narrow(w) /\ out'[pos] = Narrow(s)
    BY <1>1, <2>3 DEF IInv
  <2>. QED  BY <2>7, <2>8, <2>9, <2>10
<1>. QED  BY <1>1, Inductive, PTL DEF Spec, Monotone

\* The application gets 0, 17 and 34 kg to the gram at a working sensor's three
\* points; elsewhere, above 34 kg as long as a field has room for the weight, what
\* it gets is off the line of the reading by the gram that is cut and five times
\* what the last bit of a float is to the weight.
THEOREM AccurateHolds == Spec => []Accurate
<1>1. IInv => Accurate
  <2>1. SUFFICES ASSUME IInv, NEW pos \in Sensor, Ascending(pos), Roomy(pos)
                 PROVE  LET v    == values[pos]
                            zero == calibration[pos]
                            mid  == calibration[pos + 4]
                            high == calibration[pos + 8]
                            below == (0 * (mid - zero) + 17 * (v - zero)) * Grams
                            above == (17 * (high - mid) + 17 * (v - mid)) * Grams
                        IN  /\ v <= zero => out[pos] = 0
                            /\ v = mid => out[pos] = 17 * Grams
                            /\ v = high => out[pos] = 34 * Grams
                            /\ v \in zero .. mid =>
                                 out[pos] * (mid - zero) - below
                                   \in -(mid - zero + (5 * below) \div B)
                                         .. mid - zero + (5 * below) \div B
                            /\ v >= mid =>
                                 out[pos] * (high - mid) - above
                                   \in -(high - mid + (5 * above) \div B)
                                         .. high - mid + (5 * above) \div B
    BY DEF Accurate, B
  <2>2. PICK v, zero, mid, high, b, c, a, e, w, n, m :
          /\ v = values[pos] /\ w = weights[pos]
          /\ zero = calibration[pos] /\ mid = calibration[pos + 4] /\ high = calibration[pos + 8]
          /\ b = mid - zero /\ c = high - mid /\ a = v - zero /\ e = v - mid
          /\ n = (17 * a) * Grams /\ m = (17 * c + 17 * e) * Grams
    OBVIOUS
  <2>3. PICK u \in Undefined : w = Interpolate(calibration, pos, v, u)
    BY <2>1, <2>2 DEF IInv, Weighed
  <2>4. /\ calibration \in [0 .. 11 -> Reading] /\ v \in Reading
        /\ calibration[pos] < calibration[pos + 4] /\ calibration[pos + 4] < calibration[pos + 8]
    BY <2>1, <2>2 DEF IInv, Ascending
  <2>5. /\ w \in Nat /\ b \in Reading /\ b # 0 /\ c \in Reading /\ c # 0
        /\ \/ v < zero /\ w = 0
           \/ a \in Reading /\ zero <= v /\ v < mid /\ a <= b /\ w = First(a, b)
           \/ e \in Reading /\ mid <= v /\ w = Second(e, c)
    BY <2>2, <2>3, <2>4, InterpolateAscending
  <2>6. /\ v \in Nat /\ zero \in Nat /\ mid \in Nat /\ high \in Nat /\ Grams \in Nat
        /\ B \in Nat \ {0} /\ zero < mid /\ mid < high /\ b \in Nat /\ c \in Nat
    BY <2>2, <2>4, PointsFacts, Bits
  <2>7. ASSUME v <= zero PROVE w = 0
    <3>1. CASE v < zero /\ w = 0
      BY <3>1
    <3>2. CASE a \in Reading /\ zero <= v /\ v < mid /\ a <= b /\ w = First(a, b)
      <4>1. a = 0
        BY <2>2, <2>6, <2>7, <3>2
      <4>. QED  BY <2>5, <3>2, <4>1, FirstFacts
    <3>3. ~(mid <= v)
      BY <2>6, <2>7
    <3>. QED  BY <2>5, <3>1, <3>2, <3>3
  <2>8. ASSUME v = mid PROVE w = 17 * Grams
    <3>1. e \in Reading /\ w = Second(e, c)
      <4>1. ~(v < mid) /\ ~(v < zero)
        BY <2>6, <2>8
      <4>. QED  BY <2>5, <4>1
    <3>2. e = 0
      BY <2>2, <2>6, <2>8
    <3>. QED  BY <2>5, <3>1, <3>2, SecondFacts
  <2>9. ASSUME v = high PROVE w = 34 * Grams
    <3>1. e = c /\ e \in Reading /\ w = Second(e, c)
      BY <2>2, <2>5, <2>6, <2>9
    <3>. QED  BY <2>5, <3>1, SecondFacts
  <2>10. ASSUME v \in zero .. mid
         PROVE  w * b - n \in -(b + (5 * n) \div B) .. b + (5 * n) \div B
    <3>1. CASE v < mid
      <4>1. a \in Reading /\ a <= b /\ w = First(a, b)
        BY <2>2, <2>5, <2>6, <2>10, <3>1, FirstFacts
      <4>. QED  BY <2>2, <2>5, <4>1, FirstNear
    <3>2. CASE v = mid
      <4>1. a = b /\ n = (17 * Grams) * b /\ 5 * n \in Nat
        <5>1. a = b
          BY <2>2, <3>2
        <5>2. n = (17 * b) * Grams
          BY <2>2, <5>1
        <5>. QED  BY <2>6, <5>1, <5>2
      <4>2. w * b - n = 0
        BY <2>6, <2>8, <3>2, <4>1
      <4>3. (5 * n) \div B \in Nat
        BY <2>6, <4>1, Division
      <4>. QED  BY <2>6, <4>2, <4>3
    <3>. QED  BY <2>6, <2>10, <3>1, <3>2
  <2>11. ASSUME v >= mid
         PROVE  w * c - m \in -(c + (5 * m) \div B) .. c + (5 * m) \div B
    <3>1. e \in Reading /\ w = Second(e, c)
      BY <2>5, <2>6, <2>11
    <3>. QED  BY <2>2, <2>5, <3>1, SecondNear
  <2>12. (0 * (mid - zero) + 17 * (v - zero)) * Grams = n
    BY <2>2, <2>6
  <2>13. out[pos] = w
    <3>1. v <= calibration[pos + 8] \/ w < 2 ^ Field
      BY <2>1, <2>2 DEF Roomy
    <3>2. Narrow(w) = w
      BY <2>3, <2>4, <3>1, RoomFacts
    <3>3. out[pos] = Narrow(w)
      BY <2>1, <2>2 DEF IInv
    <3>. QED  BY <3>2, <3>3
  <2>. QED  BY <2>2, <2>7, <2>8, <2>9, <2>10, <2>11, <2>12, <2>13
<1>. QED  BY <1>1, Inductive, PTL
================================================================================
