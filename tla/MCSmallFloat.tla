---------------------------- MODULE MCSmallFloat ----------------------------
(* SmallFloat against its reference: bins are the sizes m * 2^e with m < 16, and
   rounding down and up are the greatest bin below a size and the least above it.
   The behaviour walks through all pairs of a region size and a request size. *)
EXTENDS SmallFloat

CONSTANTS
  MaxSize,    (* bound of the walk; offsetAllocatorTests.cpp samples six sizes *)
  Requests    (* request sizes compared with every region size                 *)

ASSUME MaxSizeAssumption == MaxSize \in UINT32
ASSUME RequestsAssumption == Requests \subseteq UINT32

VARIABLES regionSize, requestSize

walkVars == <<regionSize, requestSize>>

WalkInit == regionSize = 0 /\ requestSize \in Requests

WalkNext == regionSize < MaxSize /\ regionSize' = regionSize + 1 /\ UNCHANGED requestSize

WalkSpec == WalkInit /\ [][WalkNext]_walkVars

(* 2^32 is the largest, which only a rounded up size has (8 * 2^29).  An exponent that
   is left out gives no size but 0 below twice MaxSize. *)
BinSizes == {k * Pow2(e) : k \in 0 .. 15, e \in {x \in 0 .. 29 : Pow2(x) <= 2 * MaxSize + 1}}

\* uintToFloatRoundDown names the greatest bin size that is not above the size.
RoundDownIsFloor ==
  LET f == floatToUint(uintToFloatRoundDown(regionSize))
  IN  f \in BinSizes /\ f <= regionSize /\ \A b \in BinSizes : b <= regionSize => b <= f

\* uintToFloatRoundUp names the least bin size that is not below the size, so a region
\* is at most an eighth larger than the request that its bin serves (README.md).
RoundUpIsCeiling ==
  LET f == floatToUint(uintToFloatRoundUp(regionSize))
  IN  /\ f \in BinSizes /\ f >= regionSize /\ \A b \in BinSizes : b >= regionSize => b >= f
      /\ 8 * (f - regionSize) <= regionSize

\* A region of a bin that is not below the request's rounded bin is big enough,
\* and a region that is a whole bin larger is never passed over.
FitIsSound ==
  LET fits == uintToFloatRoundDown(regionSize) >= uintToFloatRoundUp(requestSize)
  IN  /\ fits => regionSize >= requestSize
      /\ 8 * regionSize >= 9 * requestSize => fits
=============================================================================
