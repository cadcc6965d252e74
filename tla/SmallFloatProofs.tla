-------------------------- MODULE SmallFloatProofs --------------------------
(***************************************************************************)
(* SmallFloat, for every 32 bit size: rounding down and up find the        *)
(* neighbouring bin sizes, and bins are in the order of their sizes.       *)
(* Bin 8 * e + q, with q in 8 .. 15, is the size q * 2^e.                  *)
(***************************************************************************)
EXTENDS MCSmallFloat, WellFoundedInduction, TLAPS

LEMMA LeastNat ==
  ASSUME NEW S \in SUBSET Nat, S # {}
  PROVE  \E x \in S : \A y \in S : x <= y
<1>1. PICK x \in S : \A y \in S : ~(<<y, x>> \in OpToRel(<, Nat))
  BY NatLessThanWellFounded, WFMin
<1>2. \A y \in S : ~(y < x)
  BY <1>1 DEF OpToRel
<1> QED BY <1>2

\* Induction, over a set instead of a predicate.
LEMMA SetInduction ==
  ASSUME NEW S, 0 \in S, \A n \in Nat : n \in S => n + 1 \in S
  PROVE  Nat \subseteq S
<1> SUFFICES ASSUME Nat \ S # {} PROVE FALSE
  OBVIOUS
<1>1. PICK x \in Nat \ S : \A y \in Nat \ S : x <= y
  BY LeastNat
<1>2. x - 1 \in Nat /\ x - 1 \notin Nat \ S
  BY <1>1
<1> QED BY <1>2

-----------------------------------------------------------------------------
LEMMA Powers ==
    /\ Pow2(0) = 1 /\ Pow2(1) = 2 /\ Pow2(2) = 4 /\ Pow2(3) = 8
    /\ Pow2(4) = 16 /\ Pow2(5) = 32 /\ Pow2(6) = 64 /\ Pow2(7) = 128
    /\ Pow2(8) = 256 /\ Pow2(9) = 512 /\ Pow2(10) = 1024 /\ Pow2(11) = 2048
    /\ Pow2(12) = 4096 /\ Pow2(13) = 8192 /\ Pow2(14) = 16384 /\ Pow2(15) = 32768
    /\ Pow2(16) = 65536 /\ Pow2(17) = 131072 /\ Pow2(18) = 262144 /\ Pow2(19) = 524288
    /\ Pow2(20) = 1048576 /\ Pow2(21) = 2097152 /\ Pow2(22) = 4194304 /\ Pow2(23) = 8388608
    /\ Pow2(24) = 16777216 /\ Pow2(25) = 33554432 /\ Pow2(26) = 67108864 /\ Pow2(27) = 134217728
    /\ Pow2(28) = 268435456 /\ Pow2(29) = 536870912 /\ Pow2(30) = 1073741824 /\ Pow2(31) = 2147483648
    /\ Pow2(32) = 4294967296
BY SMT DEF Pow2

LEMMA Pow2Facts ==
  \A k \in 0 .. 31 : Pow2(k) \in Nat \ {0} /\ Pow2(k + 1) = 2 * Pow2(k)
BY Powers

LEMMA Pow2Sum ==
  ASSUME NEW e \in 0 .. 32, NEW d \in 0 .. 32 - e
  PROVE  Pow2(e + d) = Pow2(d) * Pow2(e) /\ Pow2(d) \in Nat \ {0} /\ Pow2(e) \in Nat \ {0}
<1> DEFINE S == {n \in Nat : e + n <= 32 => Pow2(e + n) = Pow2(n) * Pow2(e)}
<1>1. \A k \in 0 .. 32 : Pow2(k) \in Nat \ {0}
  BY Powers
<1>2. 0 \in S
  BY <1>1, Powers
<1>3. ASSUME NEW n \in Nat, n \in S
      PROVE  n + 1 \in S
  <2> SUFFICES ASSUME e + n + 1 <= 32 PROVE Pow2(e + n + 1) = Pow2(n + 1) * Pow2(e)
    OBVIOUS
  <2>1. Pow2(e + n) = Pow2(n) * Pow2(e)
    BY <1>3
  <2>2. Pow2(e + n + 1) = 2 * Pow2(e + n) /\ Pow2(n + 1) = 2 * Pow2(n)
    BY Pow2Facts
  <2>3. Pow2(n) \in Nat /\ Pow2(e) \in Nat
    BY <1>1
  <2> HIDE DEF S
  <2> QED BY <2>1, <2>2, <2>3, 2 * (Pow2(n) * Pow2(e)) = (2 * Pow2(n)) * Pow2(e)
<1>4. Nat \subseteq S
  <2> HIDE DEF S
  <2> QED BY <1>2, <1>3, SetInduction
<1>5. d \in S
  <2> HIDE DEF S
  <2> QED BY <1>4
<1> QED BY <1>1, <1>5

LEMMA UINT32Range == \A n : n \in UINT32 <=> n \in Nat /\ n < Pow2(32)
<1>1. Pow2(16) = 65536 /\ Pow2(32) = 65536 * 65536
  BY Powers
<1> QED BY <1>1 DEF UINT32

LEMMA HighestSetBitFacts ==
  ASSUME NEW v \in UINT32, v > 0
  PROVE  /\ HighestSetBit(v) \in 0 .. 31
         /\ Pow2(HighestSetBit(v)) <= v
         /\ v < Pow2(HighestSetBit(v) + 1)
<1> DEFINE S == {k \in 0 .. 31 : v < Pow2(k + 1)}
<1>1. v \in Nat \ {0} /\ v < Pow2(32) /\ 31 \in S
  BY UINT32Range
<1>2. PICK k \in S : \A j \in S : k <= j
  BY <1>1, LeastNat
<1>3. Pow2(k) <= v
  <2>1. CASE k = 0
    BY <1>1, <2>1, Powers
  <2>2. CASE k # 0
    <3>1. k - 1 \in 0 .. 31 /\ k - 1 \notin S
      BY <1>2, <2>2
    <3>2. ~(v < Pow2((k - 1) + 1)) /\ (k - 1) + 1 = k
      BY <3>1
    <3>3. Pow2(k) \in Nat
      BY <1>2, Pow2Facts
    <3> QED BY <1>1, <3>2, <3>3
  <2> QED BY <2>1, <2>2
<1>4. \E j \in 0 .. 31 : Pow2(j) <= v /\ v < Pow2(j + 1)
  BY <1>2, <1>3
<1> QED BY <1>4 DEF HighestSetBit

\* A size from 8 on lies in the interval of its start bit, in one of eight parts.
LEMMA Mantissa ==
  ASSUME NEW size \in UINT32, size >= 8
  PROVE  LET e == MantissaStartBit(size)
         IN  /\ e \in 0 .. 28
             /\ 8 * Pow2(e) <= size
             /\ size < 16 * Pow2(e)
             /\ size \div Pow2(e) \in 8 .. 15
             /\ size % Pow2(e) \in 0 .. Pow2(e) - 1
             /\ size = (size \div Pow2(e)) * Pow2(e) + (size % Pow2(e))
<1> DEFINE k == HighestSetBit(size)
           e == MantissaStartBit(size)
           P == Pow2(e)
<1>1. size \in Nat
  BY UINT32Range
<1>2. k \in 0 .. 31 /\ Pow2(k) <= size /\ size < Pow2(k + 1)
  BY <1>1, HighestSetBitFacts
<1>3. k >= 3
  BY <1>1, <1>2, Powers
<1>4. e = k - 3 /\ e \in 0 .. 28
  BY <1>2, <1>3 DEF MantissaStartBit, MANTISSA_BITS
<1>5. P \in Nat \ {0} /\ Pow2(k) = 8 * P /\ Pow2(k + 1) = 16 * P
  <2>1. k = e + 3 /\ k + 1 = e + 4
    BY <1>2, <1>4
  <2>2. e \in 0 .. 32 /\ 3 \in 0 .. 32 - e /\ 4 \in 0 .. 32 - e
    BY <1>4
  <2>3. Pow2(e + 3) = Pow2(3) * P /\ P \in Nat \ {0}
    <3> HIDE DEF e
    <3> QED BY <2>2, Pow2Sum
  <2>4. Pow2(e + 4) = Pow2(4) * P
    <3> HIDE DEF e
    <3> QED BY <2>2, Pow2Sum
  <2>5. Pow2(3) = 8 /\ Pow2(4) = 16
    BY Powers
  <2> QED BY <2>1, <2>3, <2>4, <2>5
<1> HIDE DEF k, e, P
<1>6. size \in Nat /\ 8 * P <= size /\ size < 16 * P
  BY <1>1, <1>2, <1>5
<1>7. size \div P \in 8 .. 15 /\ size % P \in 0 .. P - 1 /\ size = (size \div P) * P + (size % P)
  BY <1>5, <1>6
<1> QED BY <1>4, <1>6, <1>7 DEF e, P

-----------------------------------------------------------------------------
LEMMA BinSize ==
  /\ \A b \in 0 .. 7 : floatToUint(b) = b
  /\ \A e \in 0 .. 29, q \in 8 .. 15 : floatToUint(8 * e + q) = q * Pow2(e)
<1>1. ASSUME NEW b \in 0 .. 7 PROVE floatToUint(b) = b
  <2>1. b \div 8 = 0 /\ b % 8 = b
    OBVIOUS
  <2> QED BY <2>1 DEF floatToUint, MANTISSA_VALUE
<1>2. ASSUME NEW e \in 0 .. 29, NEW q \in 8 .. 15
      PROVE  floatToUint(8 * e + q) = q * Pow2(e)
  <2> DEFINE b == 8 * e + q
  <2>1. b \div 8 = e + 1 /\ b % 8 = q - 8
    OBVIOUS
  <2>2. e + 1 # 0 /\ (e + 1) - 1 = e /\ (q - 8) + 8 = q
    OBVIOUS
  <2> QED BY <2>1, <2>2 DEF floatToUint, MANTISSA_VALUE
<1> QED BY <1>1, <1>2

\* Every bin from 8 on has an exponent and a mantissa.
LEMMA BinParts ==
  ASSUME NEW b \in Nat, b >= 8, b < 248
  PROVE  \E e \in 0 .. 29, q \in 8 .. 15 : b = 8 * e + q
<1>1. b = 8 * ((b \div 8) - 1) + ((b % 8) + 8) /\ (b % 8) + 8 \in 8 .. 15
  OBVIOUS
<1>2. (b \div 8) - 1 \in 0 .. 29
  OBVIOUS
<1> QED BY <1>1, <1>2

LEMMA NextBinLarger ==
  ASSUME NEW b \in Nat, b < 240
  PROVE  /\ floatToUint(b) \in Nat
         /\ floatToUint(b + 1) \in Nat
         /\ floatToUint(b) < floatToUint(b + 1)
<1>1. CASE b < 7
  <2>1. b \in 0 .. 7 /\ b + 1 \in 0 .. 7
    BY <1>1
  <2> QED BY <2>1, BinSize
<1>2. CASE b = 7
  <2>1. floatToUint(8 * 0 + 8) = 8 * Pow2(0)
    BY BinSize
  <2>2. floatToUint(8) = 8 /\ floatToUint(7) = 7
    BY <2>1, BinSize, Powers
  <2> QED BY <1>2, <2>2
<1>3. CASE b >= 8
  <2>1. PICK e \in 0 .. 29, q \in 8 .. 15 : b = 8 * e + q
    BY <1>3, BinParts
  <2>2. e \in 0 .. 28
    BY <2>1
  <2>3. Pow2(e) \in Nat \ {0} /\ Pow2(e + 1) = 2 * Pow2(e)
    BY <2>2, Pow2Facts
  <2>4. floatToUint(b) = q * Pow2(e)
    BY <2>1, BinSize
  <2>5. floatToUint(b + 1) = (q + 1) * Pow2(e)
    <3>1. CASE q < 15
      <4>1. b + 1 = 8 * e + (q + 1) /\ q + 1 \in 8 .. 15
        BY <2>1, <3>1
      <4> QED BY <4>1, BinSize
    <3>2. CASE q = 15
      <4>1. b + 1 = 8 * (e + 1) + 8 /\ e + 1 \in 0 .. 29
        BY <2>1, <2>2, <3>2
      <4>2. floatToUint(b + 1) = 8 * Pow2(e + 1)
        BY <4>1, BinSize
      <4> QED BY <2>3, <3>2, <4>2
    <3> QED BY <3>1, <3>2
  <2> QED BY <2>3, <2>4, <2>5
<1> QED BY <1>1, <1>2, <1>3

\* Bins are in the order of their sizes.
LEMMA BinOrder ==
  ASSUME NEW a \in Nat, a <= 240, NEW b \in Nat, b <= 240
  PROVE  /\ floatToUint(a) \in Nat
         /\ a < b => floatToUint(a) < floatToUint(b)
         /\ a <= b => floatToUint(a) <= floatToUint(b)
<1> DEFINE S == {n \in Nat : a + n <= 240 /\ n > 0 => floatToUint(a) < floatToUint(a + n)}
<1>1. floatToUint(a) \in Nat
  <2>1. CASE a < 240
    BY <2>1, NextBinLarger
  <2>2. CASE a = 240
    <3>1. floatToUint(239 + 1) \in Nat
      BY NextBinLarger
    <3> QED BY <2>2, <3>1
  <2> QED BY <2>1, <2>2
<1>2. 0 \in S
  OBVIOUS
<1>3. ASSUME NEW n \in Nat, n \in S
      PROVE  n + 1 \in S
  <2> SUFFICES ASSUME a + (n + 1) <= 240
               PROVE  floatToUint(a) < floatToUint(a + (n + 1))
    OBVIOUS
  <2>1. /\ floatToUint(a + n) \in Nat /\ floatToUint((a + n) + 1) \in Nat
        /\ floatToUint(a + n) < floatToUint((a + n) + 1)
    BY NextBinLarger
  <2>2. n = 0 \/ floatToUint(a) < floatToUint(a + n)
    BY <1>3
  <2>3. (a + n) + 1 = a + (n + 1) /\ (n = 0 => a + n = a)
    OBVIOUS
  <2> HIDE DEF S
  <2> QED BY <1>1, <2>1, <2>2, <2>3
<1>4. Nat \subseteq S
  <2> HIDE DEF S
  <2> QED BY <1>2, <1>3, SetInduction
<1>5. ASSUME a < b PROVE floatToUint(a) < floatToUint(b)
  <2>1. b - a \in S
    <3> HIDE DEF S
    <3> QED BY <1>4, <1>5
  <2>2. a + (b - a) = b /\ b - a > 0
    BY <1>5
  <2> QED BY <2>1, <2>2
<1>6. a <= b => floatToUint(a) <= floatToUint(b)
  <2>1. CASE a < b
    <3>1. floatToUint(b) \in Nat
      <4>1. CASE b < 240
        BY <4>1, NextBinLarger
      <4>2. CASE b = 240
        <5>1. floatToUint(239 + 1) \in Nat
          BY NextBinLarger
        <5> QED BY <4>2, <5>1
      <4> QED BY <4>1, <4>2
    <3> QED BY <1>1, <1>5, <2>1, <3>1
  <2>2. CASE a = b
    BY <1>1, <2>2
  <2> QED BY <2>1, <2>2
<1> HIDE DEF S
<1> QED BY <1>1, <1>5, <1>6

-----------------------------------------------------------------------------
\* A bin size that is at most as large as 15 of the units below P divides by P, or
\* is less than 8 * P.
LEMMA SizesAgainst ==
  ASSUME NEW e \in 0 .. 28, NEW c \in 0 .. 29, NEW k \in 0 .. 15
  PROVE  /\ Pow2(e) \in Nat \ {0}
         /\ Pow2(c) \in Nat \ {0}
         /\ \/ k * Pow2(c) < 8 * Pow2(e)
            \/ \E d \in Nat : k * Pow2(c) = d * Pow2(e)
<1> DEFINE P == Pow2(e)
           Q == Pow2(c)
<1>1. P \in Nat \ {0} /\ Q \in Nat \ {0}
  BY Pow2Facts
<1>2. CASE c < e
  <2> DEFINE g == e - c
  <2>1. c \in 0 .. 32 /\ g \in 0 .. 32 - c /\ c + g = e /\ g \in 1 .. 28
    BY <1>2
  <2>2. P = Pow2(g) * Q
    <3> HIDE DEF g
    <3> QED BY <2>1, Pow2Sum
  <2>3. Pow2(g) \in Nat /\ Pow2(g) >= 2
    <3> HIDE DEF g
    <3> QED BY <2>1, Powers
  <2> HIDE DEF g, P, Q
  <2>4. 2 * Q <= P
    BY <1>1, <2>2, <2>3
  <2>5. k * Q <= 15 * Q
    BY <1>1
  <2>6. k * Q < 8 * P
    BY <1>1, <2>4, <2>5
  <2> QED BY <1>1, <2>6 DEF P, Q
<1>3. CASE e <= c
  <2> DEFINE g == c - e
  <2>1. e \in 0 .. 32 /\ g \in 0 .. 32 - e /\ e + g = c /\ g \in 0 .. 29
    BY <1>3
  <2>2. Q = Pow2(g) * P /\ Pow2(g) \in Nat
    <3> HIDE DEF g
    <3> QED BY <2>1, Pow2Sum
  <2> HIDE DEF g, P, Q
  <2>3. k * Q = (k * Pow2(g)) * P /\ k * Pow2(g) \in Nat
    BY <1>1, <2>2
  <2> QED BY <1>1, <2>3 DEF P, Q
<1> QED BY <1>2, <1>3

\* Rounding down finds the greatest bin size that is not above the size.
LEMMA RoundDownFacts ==
  ASSUME NEW size \in UINT32
  PROVE  LET f == floatToUint(uintToFloatRoundDown(size))
         IN  /\ uintToFloatRoundDown(size) \in Nat
             /\ uintToFloatRoundDown(size) < 240
             /\ f \in Nat
             /\ f <= size
             /\ \E k \in 0 .. 15, c \in 0 .. 28 : f = k * Pow2(c) /\ Pow2(c) <= 2 * size + 1
             /\ \A k \in 0 .. 15, c \in 0 .. 29 : k * Pow2(c) <= size => k * Pow2(c) <= f
<1>0. size \in Nat
  BY UINT32Range
<1>1. CASE size < 8
  <2>1. uintToFloatRoundDown(size) = size /\ floatToUint(size) = size
    BY <1>0, <1>1, BinSize DEF uintToFloatRoundDown, MANTISSA_VALUE
  <2>2. size = size * Pow2(0) /\ size \in 0 .. 15 /\ Pow2(0) <= 2 * size + 1
    BY <1>0, <1>1, Powers
  <2> QED BY <1>0, <1>1, <2>1, <2>2
<1>2. CASE size >= 8
  <2> DEFINE e == MantissaStartBit(size)
             P == Pow2(e)
             q == size \div P
  <2>1. /\ e \in 0 .. 28 /\ 8 * P <= size
        /\ q \in 8 .. 15 /\ size % P \in 0 .. P - 1 /\ size = q * P + (size % P)
    BY <1>2, Mantissa
  <2>2. P \in Nat \ {0}
    BY <2>1, Pow2Facts
  <2>3. uintToFloatRoundDown(size) = 8 * e + q
    <3>1. q % 8 = q - 8
      BY <2>1
    <3>2. uintToFloatRoundDown(size) = ((e + 1) * 8) + (q % 8)
      BY <1>0, <1>2 DEF uintToFloatRoundDown, MANTISSA_VALUE
    <3> QED BY <2>1, <3>1, <3>2
  <2>4. floatToUint(8 * e + q) = q * P
    BY <2>1, BinSize
  <2>5. q * P \in Nat /\ q * P <= size /\ size < (q + 1) * P
    <3> HIDE DEF e, P, q
    <3>1. q * P \in Nat /\ (q + 1) * P = q * P + P
      BY <2>1, <2>2
    <3> QED BY <1>0, <2>1, <2>2, <3>1
  <2>6. P <= 2 * size + 1
    <3> HIDE DEF e, P, q
    <3> QED BY <1>0, <2>1, <2>2
  <2>7. ASSUME NEW k \in 0 .. 15, NEW c \in 0 .. 29, k * Pow2(c) <= size
        PROVE  k * Pow2(c) <= q * P
    <3>1. /\ Pow2(c) \in Nat
          /\ k * Pow2(c) < 8 * P \/ \E d \in Nat : k * Pow2(c) = d * P
      BY <2>1, SizesAgainst
    <3> HIDE DEF e, P, q
    <3>2. CASE k * Pow2(c) < 8 * P
      <4>1. 8 * P <= q * P
        BY <2>1, <2>2
      <4> QED BY <2>2, <2>5, <3>1, <3>2, <4>1
    <3>3. ASSUME NEW d \in Nat, k * Pow2(c) = d * P
          PROVE  d * P <= q * P
      <4>1. d * P < (q + 1) * P
        BY <1>0, <2>1, <2>2, <2>5, <2>7, <3>3
      <4>2. d <= q
        <5> SUFFICES ASSUME d >= q + 1 PROVE FALSE
          BY <2>1
        <5>1. d * P >= (q + 1) * P
          BY <2>1, <2>2
        <5>2. d * P \in Nat /\ (q + 1) * P \in Nat
          BY <2>1, <2>2
        <5> QED BY <4>1, <5>1, <5>2
      <4> QED BY <2>1, <2>2, <4>2
    <3> QED BY <3>1, <3>2, <3>3
  <2>8. 8 * e + q < 240 /\ 8 * e + q \in Nat
    BY <2>1
  <2>9. \E k \in 0 .. 15, c \in 0 .. 28 :
          q * P = k * Pow2(c) /\ Pow2(c) <= 2 * size + 1
    <3> HIDE DEF q
    <3> QED BY <2>1, <2>6
  <2> HIDE DEF e, P, q
  <2> QED BY <2>3, <2>4, <2>5, <2>7, <2>8, <2>9
<1> QED BY <1>0, <1>1, <1>2

\* Rounding up finds the least bin size that is not below the size.
LEMMA RoundUpFacts ==
  ASSUME NEW size \in UINT32
  PROVE  LET f == floatToUint(uintToFloatRoundUp(size))
         IN  /\ uintToFloatRoundUp(size) \in Nat
             /\ uintToFloatRoundUp(size) <= 240
             /\ f \in Nat
             /\ f >= size
             /\ 8 * (f - size) <= size
             /\ \E k \in 0 .. 15, c \in 0 .. 29 : f = k * Pow2(c) /\ Pow2(c) <= 2 * size + 1
             /\ \A k \in 0 .. 15, c \in 0 .. 29 : k * Pow2(c) >= size => k * Pow2(c) >= f
<1>0. size \in Nat
  BY UINT32Range
<1>1. CASE size < 8
  <2>1. uintToFloatRoundUp(size) = size /\ floatToUint(size) = size
    BY <1>0, <1>1, BinSize DEF uintToFloatRoundUp, MANTISSA_VALUE
  <2>2. size = size * Pow2(0) /\ size \in 0 .. 15 /\ Pow2(0) <= 2 * size + 1
    BY <1>0, <1>1, Powers
  <2> QED BY <1>0, <1>1, <2>1, <2>2
<1>2. CASE size >= 8
  <2> DEFINE e == MantissaStartBit(size)
             P == Pow2(e)
             q == size \div P
             r == size % P
             u == IF r # 0 THEN q + 1 ELSE q
  <2>1. /\ e \in 0 .. 28 /\ 8 * P <= size
        /\ q \in 8 .. 15 /\ r \in 0 .. P - 1 /\ size = q * P + r
    BY <1>2, Mantissa
  <2>2. P \in Nat \ {0} /\ Pow2(e + 1) = 2 * P
    BY <2>1, Pow2Facts
  <2>3. uintToFloatRoundUp(size) = 8 * e + u
    <3>1. q % 8 = q - 8
      BY <2>1
    <3>2. uintToFloatRoundUp(size) = ((e + 1) * 8) + (q % 8) + (IF r # 0 THEN 1 ELSE 0)
      BY <1>0, <1>2 DEF uintToFloatRoundUp, MANTISSA_VALUE
    <3> QED BY <2>1, <3>1, <3>2
  <2>4. floatToUint(8 * e + u) = u * P
    <3>1. CASE u <= 15
      <4>1. u \in 8 .. 15
        BY <2>1, <3>1
      <4> HIDE DEF u
      <4> QED BY <2>1, <4>1, BinSize
    <3>2. CASE u = 16
      <4>1. 8 * e + u = 8 * (e + 1) + 8 /\ e + 1 \in 0 .. 29
        BY <2>1, <3>2
      <4>2. floatToUint(8 * (e + 1) + 8) = 8 * Pow2(e + 1)
        BY <4>1, BinSize
      <4> HIDE DEF u
      <4> QED BY <2>2, <3>2, <4>1, <4>2
    <3> QED BY <2>1, <3>1, <3>2
  <2>5. u \in 8 .. 16 /\ (u - 1) * P < size /\ size <= u * P
    <3>1. u \in 8 .. 16
      BY <2>1
    <3> HIDE DEF e, P, q, r
    <3>2. (q + 1) * P = q * P + P /\ (q - 1) * P = q * P - P /\ q * P \in Nat
      BY <2>1, <2>2
    <3>3. CASE r = 0
      BY <2>1, <2>2, <3>1, <3>2, <3>3
    <3>4. CASE r # 0
      BY <2>1, <2>2, <3>1, <3>2, <3>4
    <3> QED BY <3>3, <3>4
  <2>6. u * P \in Nat /\ (u - 1) * P = u * P - P /\ 8 * (u * P - size) <= size
    <3> HIDE DEF e, P, q, r, u
    <3>1. u * P \in Nat /\ (u - 1) * P = u * P - P
      BY <2>2, <2>5
    <3> QED BY <1>0, <2>1, <2>2, <2>5, <3>1
  <2>7. \E k \in 0 .. 15, c \in 0 .. 29 : u * P = k * Pow2(c) /\ Pow2(c) <= 2 * size + 1
    <3>1. 2 * P <= 2 * size + 1
      <4> HIDE DEF e, P, q, r, u
      <4> QED BY <1>0, <2>1, <2>2
    <3>2. CASE u <= 15
      <4>1. u \in 0 .. 15 /\ e \in 0 .. 29 /\ P <= 2 * size + 1
        <5> HIDE DEF P, q, r, u
        <5> QED BY <1>0, <2>1, <2>2, <2>5, <3>1, <3>2
      <4> HIDE DEF q, r, u
      <4> QED BY <4>1
    <3>3. CASE u = 16
      <4>1. u * P = 8 * Pow2(e + 1) /\ e + 1 \in 0 .. 29 /\ Pow2(e + 1) <= 2 * size + 1
        <5> HIDE DEF u
        <5> QED BY <2>1, <2>2, <3>1, <3>3
      <4> HIDE DEF e, P, q, r, u
      <4> QED BY <4>1
    <3> HIDE DEF u
    <3> QED BY <2>5, <3>2, <3>3
  <2>8. ASSUME NEW k \in 0 .. 15, NEW c \in 0 .. 29, k * Pow2(c) >= size
        PROVE  k * Pow2(c) >= u * P
    <3>1. /\ Pow2(c) \in Nat
          /\ k * Pow2(c) < 8 * P \/ \E d \in Nat : k * Pow2(c) = d * P
      BY <2>1, SizesAgainst
    <3> HIDE DEF e, P, q, r, u
    <3>2. ~(k * Pow2(c) < 8 * P)
      BY <1>0, <2>1, <2>2, <2>8, <3>1
    <3>3. PICK d \in Nat : k * Pow2(c) = d * P
      BY <3>1, <3>2
    <3>4. d > u - 1
      <4> SUFFICES ASSUME d <= u - 1 PROVE FALSE
        BY <2>5
      <4>1. d * P <= (u - 1) * P
        BY <2>2, <2>5
      <4>2. d * P \in Nat /\ (u - 1) * P \in Nat
        BY <2>2, <2>5
      <4> QED BY <1>0, <2>5, <2>8, <3>3, <4>1, <4>2
    <3>5. d >= u
      BY <2>5, <3>4
    <3> QED BY <2>2, <2>5, <3>3, <3>5
  <2>9. 8 * e + u <= 240 /\ 8 * e + u \in Nat
    <3> HIDE DEF u
    <3> QED BY <2>1, <2>5
  <2> HIDE DEF e, P, q, r, u
  <2> QED BY <1>0, <2>3, <2>4, <2>5, <2>6, <2>7, <2>8, <2>9
<1> QED BY <1>0, <1>1, <1>2

-----------------------------------------------------------------------------
\* A size that rounds up to at most the size of a bin rounds up to at most the bin.
LEMMA RoundUpBelow ==
  ASSUME NEW size \in UINT32, NEW b \in Nat, b <= 240,
         floatToUint(uintToFloatRoundUp(size)) <= floatToUint(b)
  PROVE  uintToFloatRoundUp(size) <= b
<1> DEFINE a == uintToFloatRoundUp(size)
<1>1. a \in Nat /\ a <= 240 /\ floatToUint(a) \in Nat
  BY RoundUpFacts
<1>2. floatToUint(b) \in Nat
  BY BinOrder
<1> HIDE DEF a
<1>3. b < a => floatToUint(b) < floatToUint(a)
  BY <1>1, BinOrder
<1> QED BY <1>1, <1>2, <1>3 DEF a

\* allocate relies on it that a region whose bin is not below the rounded request is
\* big enough; a region larger by an eighth is never passed over.
THEOREM FitsEverySize ==
  ASSUME NEW size \in UINT32, NEW request \in UINT32
  PROVE  /\ uintToFloatRoundDown(size) >= uintToFloatRoundUp(request) => size >= request
         /\ 8 * size >= 9 * request => uintToFloatRoundDown(size) >= uintToFloatRoundUp(request)
<1> DEFINE a == uintToFloatRoundUp(request)
           b == uintToFloatRoundDown(size)
<1>1. size \in Nat /\ request \in Nat
  BY UINT32Range
<1>2. /\ a \in Nat /\ a <= 240 /\ floatToUint(a) \in Nat
      /\ floatToUint(a) >= request /\ 8 * (floatToUint(a) - request) <= request
  BY RoundUpFacts
<1>3. b \in Nat /\ b < 240 /\ floatToUint(b) \in Nat /\ floatToUint(b) <= size
  BY RoundDownFacts
<1>4. ASSUME b >= a PROVE size >= request
  <2>1. floatToUint(a) <= floatToUint(b)
    <3> HIDE DEF a, b
    <3> QED BY <1>2, <1>3, <1>4, BinOrder
  <2> HIDE DEF a, b
  <2> QED BY <1>1, <1>2, <1>3, <2>1
<1>5. ASSUME 8 * size >= 9 * request PROVE b >= a
  <2>1. floatToUint(a) <= size
    <3> HIDE DEF a, b
    <3> QED BY <1>1, <1>2, <1>5
  <2>2. floatToUint(a) <= floatToUint(b)
    <3>1. \E k \in 0 .. 15, c \in 0 .. 29 : floatToUint(a) = k * Pow2(c)
      BY RoundUpFacts
    <3> HIDE DEF a
    <3> QED BY <2>1, <3>1, RoundDownFacts
  <2>3. a <= b
    <3> HIDE DEF b
    <3> QED BY <1>3, <2>2, RoundUpBelow
  <2> HIDE DEF a, b
  <2> QED BY <1>2, <1>3, <2>3
<1> HIDE DEF a, b
<1> QED BY <1>4, <1>5 DEF a, b

\* The size of a region's bin, asked for, is found in that bin.
LEMMA BinSizeFits ==
  ASSUME NEW size \in UINT32
  PROVE  LET b == uintToFloatRoundDown(size)
         IN  /\ floatToUint(b) \in UINT32
             /\ uintToFloatRoundUp(floatToUint(b)) \in Nat
             /\ uintToFloatRoundUp(floatToUint(b)) <= b
<1> DEFINE b == uintToFloatRoundDown(size)
           f == floatToUint(b)
<1>1. size \in Nat /\ size < Pow2(32) /\ Pow2(32) \in Nat
  BY UINT32Range, Powers
<1>2. /\ b \in Nat /\ b <= 240 /\ f \in Nat /\ f <= size
      /\ \E k \in 0 .. 15, c \in 0 .. 28 : f = k * Pow2(c)
  BY RoundDownFacts
<1> HIDE DEF b, f
<1>3. f \in UINT32
  BY <1>1, <1>2, UINT32Range
<1>4. /\ uintToFloatRoundUp(f) \in Nat
      /\ \A k \in 0 .. 15, c \in 0 .. 29 :
           k * Pow2(c) >= f => k * Pow2(c) >= floatToUint(uintToFloatRoundUp(f))
      /\ floatToUint(uintToFloatRoundUp(f)) \in Nat
  BY <1>3, RoundUpFacts
<1>5. floatToUint(uintToFloatRoundUp(f)) <= f
  BY <1>2, <1>4
<1>6. uintToFloatRoundUp(f) <= b
  BY <1>2, <1>3, <1>5, RoundUpBelow DEF f
<1> QED BY <1>3, <1>4, <1>6 DEF b, f

-----------------------------------------------------------------------------
(***************************************************************************)
(* The comparisons of MCSmallFloat, however far the walk goes and whatever *)
(* the requests.                                                           *)
(***************************************************************************)
\* A bin size is among those that the facts about rounding speak of.
LEMMA BinSizesAre ==
  \A f : f \in BinSizes <=>
           \E k \in 0 .. 15, c \in 0 .. 29 : f = k * Pow2(c) /\ Pow2(c) <= 2 * MaxSize + 1
BY DEF BinSizes

Walked == /\ regionSize \in UINT32 /\ regionSize <= MaxSize
          /\ requestSize \in UINT32

\* The walk stays among the sizes that have a bin in the reference.
THEOREM WalkInvariance == WalkSpec => []Walked
<1>1. MaxSize \in Nat /\ MaxSize < Pow2(32) /\ Pow2(32) \in Nat /\ 0 < Pow2(32)
  BY MaxSizeAssumption, UINT32Range, Powers
<1>2. WalkInit => Walked
  <2>1. 0 \in UINT32
    BY <1>1, UINT32Range
  <2> QED BY <1>1, <2>1, RequestsAssumption DEF WalkInit, Walked
<1>3. Walked /\ [WalkNext]_walkVars => Walked'
  <2> SUFFICES ASSUME Walked, [WalkNext]_walkVars PROVE Walked'
    OBVIOUS
  <2>1. CASE WalkNext
    <3>1. regionSize \in Nat /\ regionSize' = regionSize + 1 /\ regionSize < MaxSize
      BY <2>1, UINT32Range DEF Walked, WalkNext
    <3>2. regionSize' \in Nat /\ regionSize' <= MaxSize /\ regionSize' < Pow2(32)
      BY <1>1, <3>1
    <3>3. regionSize' \in UINT32
      BY <3>2, UINT32Range
    <3> QED BY <2>1, <3>2, <3>3 DEF Walked, WalkNext
  <2>2. CASE UNCHANGED walkVars
    BY <2>2 DEF Walked, walkVars
  <2> QED BY <2>1, <2>2
<1> QED BY <1>2, <1>3, PTL DEF WalkSpec

\* uintToFloatRoundDown names the greatest bin size that is not above the size.
THEOREM RoundDownIsCorrect == WalkSpec => []RoundDownIsFloor
<1>1. Walked => RoundDownIsFloor
  <2> SUFFICES ASSUME Walked PROVE RoundDownIsFloor
    OBVIOUS
  <2>1. regionSize \in UINT32 /\ regionSize \in Nat /\ MaxSize \in Nat /\ regionSize <= MaxSize
    BY MaxSizeAssumption, UINT32Range DEF Walked
  <2>2. PICK f : f = floatToUint(uintToFloatRoundDown(regionSize))
    OBVIOUS
  <2>3. /\ f <= regionSize
        /\ \E k \in 0 .. 15, c \in 0 .. 28 : f = k * Pow2(c) /\ Pow2(c) <= 2 * regionSize + 1
        /\ \A k \in 0 .. 15, c \in 0 .. 29 : k * Pow2(c) <= regionSize => k * Pow2(c) <= f
    BY <2>1, <2>2, RoundDownFacts
  <2>4. f \in BinSizes
    <3>1. PICK k \in 0 .. 15, c \in 0 .. 28 : f = k * Pow2(c) /\ Pow2(c) <= 2 * regionSize + 1
      BY <2>3
    <3>2. c \in 0 .. 29 /\ Pow2(c) <= 2 * MaxSize + 1
      BY <2>1, <3>1, Pow2Facts
    <3> QED BY <3>1, <3>2, BinSizesAre
  <2>5. \A b \in BinSizes : b <= regionSize => b <= f
    BY <2>3, BinSizesAre
  <2> QED BY <2>2, <2>3, <2>4, <2>5 DEF RoundDownIsFloor
<1> QED BY <1>1, WalkInvariance, PTL

\* uintToFloatRoundUp names the least bin size that is not below the size, and wastes
\* at most an eighth.
THEOREM RoundUpIsCorrect == WalkSpec => []RoundUpIsCeiling
<1>1. Walked => RoundUpIsCeiling
  <2> SUFFICES ASSUME Walked PROVE RoundUpIsCeiling
    OBVIOUS
  <2>1. regionSize \in UINT32 /\ regionSize \in Nat /\ MaxSize \in Nat /\ regionSize <= MaxSize
    BY MaxSizeAssumption, UINT32Range DEF Walked
  <2>2. PICK f : f = floatToUint(uintToFloatRoundUp(regionSize))
    OBVIOUS
  <2>3. /\ f >= regionSize /\ 8 * (f - regionSize) <= regionSize
        /\ \E k \in 0 .. 15, c \in 0 .. 29 : f = k * Pow2(c) /\ Pow2(c) <= 2 * regionSize + 1
        /\ \A k \in 0 .. 15, c \in 0 .. 29 : k * Pow2(c) >= regionSize => k * Pow2(c) >= f
    BY <2>1, <2>2, RoundUpFacts
  <2>4. f \in BinSizes
    <3>1. PICK k \in 0 .. 15, c \in 0 .. 29 : f = k * Pow2(c) /\ Pow2(c) <= 2 * regionSize + 1
      BY <2>3
    <3>2. Pow2(c) <= 2 * MaxSize + 1
      BY <2>1, <3>1, Pow2Facts
    <3> QED BY <3>1, <3>2, BinSizesAre
  <2>5. \A b \in BinSizes : b >= regionSize => b >= f
    BY <2>3, BinSizesAre
  <2> QED BY <2>2, <2>3, <2>4, <2>5 DEF RoundUpIsCeiling
<1> QED BY <1>1, WalkInvariance, PTL

\* A region of a bin not below the request's is big enough, and one that is larger by
\* an eighth is never passed over.
THEOREM FitIsCorrect == WalkSpec => []FitIsSound
<1>1. Walked => FitIsSound
  BY FitsEverySize DEF FitIsSound, Walked
<1> QED BY <1>1, WalkInvariance, PTL
=============================================================================
