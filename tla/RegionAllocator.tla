--------------------------- MODULE RegionAllocator ---------------------------
(***************************************************************************)
(* What OffsetAllocator promises its client: an allocation is a region of  *)
(* the asked size inside [0, Size) that shares no element with another     *)
(* allocation, it stays put until it is freed, and freeing one allocation  *)
(* leaves the others alone.                                                *)
(***************************************************************************)
EXTENDS Integers

CONSTANTS Size, RequestSizes, Handles

VARIABLE regions    \* handle -> [offset, size], for the handles in its domain

Disjoint(r, s) == r.offset + r.size <= s.offset \/ s.offset + s.size <= r.offset

Allocate(h, offset, size) ==
  LET region == [offset |-> offset, size |-> size]
  IN  /\ h \notin DOMAIN regions
      /\ offset + size <= Size
      /\ \A g \in DOMAIN regions : Disjoint(region, regions[g])
      /\ regions' = [g \in (DOMAIN regions) \cup {h} |-> IF g = h THEN region ELSE regions[g]]

Free(h) == regions' = [g \in (DOMAIN regions) \ {h} |-> regions[g]]

Init == regions = [h \in {} |-> 0]

Next ==
  \/ \E h \in Handles, offset \in 0 .. Size, size \in RequestSizes : Allocate(h, offset, size)
  \/ \E h \in DOMAIN regions : Free(h)

Spec == Init /\ [][Next]_regions
=============================================================================
