----------------------------- MODULE SmallFloat -----------------------------
(***************************************************************************)
(* OffsetAllocator::SmallFloat: the 5.3 floating point numbers that index  *)
(* the bins.  A region's bin is below 240.  Rounding a size up reaches 240 *)
(* at most, which stands for 2^32; the code's floatToUint would give 0 for *)
(* it, but is asked for the size of a region's bin only, and here it has   *)
(* no width.                                                               *)
(***************************************************************************)
EXTENDS Integers

MANTISSA_BITS == 3
MANTISSA_VALUE == 8

\* 1 << k
Pow2(k) == 2 ^ k

\* The sizes, n < 2^32 (TLC's own integers are shorter).
UINT32 == {n \in Nat : n \div Pow2(16) < Pow2(16)}

\* 31 - lzcnt_nonzero(v)
HighestSetBit(v) == CHOOSE k \in 0 .. 31 : Pow2(k) <= v /\ v < Pow2(k + 1)

MantissaStartBit(size) == HighestSetBit(size) - MANTISSA_BITS

\* Mutant: the hidden high bit is not masked away.
RoundDownUnmasked(size) ==
  IF size < MANTISSA_VALUE THEN size
  ELSE ((MantissaStartBit(size) + 1) * MANTISSA_VALUE) + (size \div Pow2(MantissaStartBit(size)))

uintToFloatRoundDown(size) ==
  IF size < MANTISSA_VALUE
    THEN size
    ELSE LET start == MantissaStartBit(size)
         IN  ((start + 1) * MANTISSA_VALUE) + ((size \div Pow2(start)) % MANTISSA_VALUE)

\* Mutant: the mantissa always rounds up.
RoundUpAlways(size) == uintToFloatRoundDown(size) + (IF size < MANTISSA_VALUE THEN 0 ELSE 1)

\* Mutant: only the lowest bit is looked at.
RoundUpLowBit(size) == uintToFloatRoundDown(size) + (IF size < 16 THEN 0 ELSE size % 2)

\* The low bits below the mantissa round up; the mantissa may carry into the exponent.
uintToFloatRoundUp(size) ==
  IF size < MANTISSA_VALUE
    THEN size
    ELSE LET start == MantissaStartBit(size)
             mantissa == (size \div Pow2(start)) % MANTISSA_VALUE
         IN  ((start + 1) * MANTISSA_VALUE) + mantissa
               + (IF size % Pow2(start) # 0 THEN 1 ELSE 0)

floatToUint(floatValue) ==
  LET exponent == floatValue \div MANTISSA_VALUE
      mantissa == floatValue % MANTISSA_VALUE
  IN  IF exponent = 0 THEN mantissa ELSE (mantissa + MANTISSA_VALUE) * Pow2(exponent - 1)
=============================================================================
