----------------------------- MODULE ShortsProofs -----------------------------
(***************************************************************************)
(* What incrementing a short does, for any width: the arithmetic that the  *)
(* proofs about the records of the storage rest on.                        *)
(***************************************************************************)
EXTENDS Shorts, TLAPS

(* Arithmetic of % that the solver does not find by itself.                *)
LEMMA SmallMultiple ==
  ASSUME NEW m \in Int, m > 0, NEW k \in Int, -m < m * k, m * k < m
  PROVE  k = 0
  OBVIOUS

LEMMA DivMod ==
  ASSUME NEW m \in Int, m > 0, NEW n \in Int
  PROVE  /\ n = m * (n \div m) + (n % m)
         /\ n \div m \in Int /\ n % m \in 0 .. m - 1
  OBVIOUS

LEMMA RemainderIsUnique ==
  ASSUME NEW m \in Int, m > 0, NEW q \in Int, NEW p \in Int,
         NEW r \in 0 .. m - 1, NEW s \in 0 .. m - 1, m * q + r = m * p + s
  PROVE  r = s
<1>1. m * (q - p) = s - r
  OBVIOUS
<1>2. q - p \in Int
  OBVIOUS
<1>3. q - p = 0
  BY <1>1, <1>2, SmallMultiple
<1> QED BY <1>3

LEMMA ModOfSmall ==
  ASSUME NEW m \in Int, m > 0, NEW a \in 0 .. m - 1
  PROVE  a % m = a
<1>1. a = m * (a \div m) + (a % m) /\ a \div m \in Int /\ a % m \in 0 .. m - 1
  BY DivMod
<1>2. m * 0 + a = m * (a \div m) + (a % m)
  BY <1>1
<1> QED BY <1>1, <1>2, RemainderIsUnique

LEMMA ModOfNext ==
  ASSUME NEW m \in Int, m > 0, NEW n \in Int
  PROVE  (n + 1) % m = IF n % m = m - 1 THEN 0 ELSE (n % m) + 1
<1> DEFINE q == n \div m
           r == n % m
           p == (n + 1) \div m
           s == (n + 1) % m
<1>1. n = m * q + r /\ q \in Int /\ r \in 0 .. m - 1
  BY DivMod
<1>2. n + 1 = m * p + s /\ p \in Int /\ s \in 0 .. m - 1
  BY DivMod
<1> HIDE DEF q, r, p, s
<1>3. CASE r = m - 1
  <2>1. m * (q + 1) + 0 = m * p + s
    BY <1>1, <1>2, <1>3
  <2>2. q + 1 \in Int /\ 0 \in 0 .. m - 1
    BY <1>1
  <2>3. s = 0
    BY <2>1, <2>2, <1>2, RemainderIsUnique
  <2> QED BY <2>3, <1>3 DEF s, r
<1>4. CASE r # m - 1
  <2>1. m * q + (r + 1) = m * p + s
    BY <1>1, <1>2
  <2>2. r + 1 \in 0 .. m - 1
    BY <1>1, <1>4
  <2>3. s = r + 1
    BY <2>1, <2>2, <1>1, <1>2, RemainderIsUnique
  <2> QED BY <2>3, <1>4 DEF s, r
<1> QED BY <1>3, <1>4

(* A short is in its range, and incrementing a number that was cut to a    *)
(* short gives the same short as incrementing the number.                  *)
LEMMA ShortRange == \A n \in Int : Short(n) \in Values
<1> TAKE n \in Int
<1> DEFINE a == (n + HALF) % (2 * HALF)
<1>1. a \in 0 .. 2 * HALF - 1
  <2>1. n + HALF \in Int /\ 2 * HALF \in Int /\ 2 * HALF > 0
    BY HalfAssumption
  <2> QED BY <2>1, DivMod
<1>2. Short(n) = a - HALF
  BY DEF Short
<1> HIDE DEF a
<1> QED BY <1>1, <1>2, HalfAssumption DEF Values

LEMMA ShortOfNext == \A n \in Int : Short(Short(n) + 1) = Short(n + 1)
<1> TAKE n \in Int
<1> DEFINE m == 2 * HALF
           a == (n + HALF) % m
<1>1. m \in Int /\ m > 0 /\ HALF \in Int
  BY HalfAssumption
<1>2. a \in 0 .. m - 1 /\ a \in Int
  BY <1>1, DivMod
<1>3. Short(n) = a - HALF /\ Short(n) + 1 + HALF = a + 1
  BY <1>1, <1>2 DEF Short
<1>4. Short(Short(n) + 1) = ((a + 1) % m) - HALF
  BY <1>3 DEF Short
<1>5. Short(n + 1) = (((n + HALF) + 1) % m) - HALF
  <2>1. n + 1 + HALF = (n + HALF) + 1
    BY <1>1
  <2> QED BY <2>1 DEF Short
<1>6. ((n + HALF) + 1) % m = IF a = m - 1 THEN 0 ELSE a + 1
  <2>1. n + HALF \in Int
    BY <1>1
  <2> QED BY <2>1, <1>1, ModOfNext
<1>7. (a + 1) % m = IF a = m - 1 THEN 0 ELSE a + 1
  <2>1. a % m = a
    BY <1>1, <1>2, ModOfSmall
  <2> HIDE DEF a
  <2> QED BY <2>1, <1>1, <1>2, ModOfNext
<1> QED BY <1>4, <1>5, <1>6, <1>7

LEMMA ShortOfZero == Short(0) = 0
<1>1. 2 * HALF \in Int /\ 2 * HALF > 0 /\ HALF \in 0 .. 2 * HALF - 1
      /\ 0 + HALF = HALF
  BY HalfAssumption
<1>2. HALF % (2 * HALF) = HALF
  BY <1>1, ModOfSmall
<1> QED BY <1>1, <1>2, HalfAssumption DEF Short

(* A number that fits is its own short.                                    *)
LEMMA ShortOfSmall == \A n \in 0 .. HALF - 1 : Short(n) = n
<1> TAKE n \in 0 .. HALF - 1
<1>1. 2 * HALF \in Int /\ 2 * HALF > 0 /\ n + HALF \in 0 .. 2 * HALF - 1
  BY HalfAssumption
<1>2. (n + HALF) % (2 * HALF) = n + HALF
  BY <1>1, ModOfSmall
<1> QED BY <1>1, <1>2, HalfAssumption DEF Short
=============================================================================
