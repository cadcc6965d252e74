---------------------- MODULE OffsetAllocatorRefinement ----------------------
(* OffsetAllocator implements RegionAllocator: an allocation's region is the
   offset and size of its node. *)
EXTENDS OffsetAllocator

Regions ==
  [n \in live |-> [offset |-> m.nodes[n].dataOffset, size |-> m.nodes[n].dataSize]]

Promise == INSTANCE RegionAllocator WITH Handles <- NodeIndex, regions <- Regions

\* The nodes that the client holds behave as separate regions that stay put
\* while other nodes are split, merged and moved between bins.
ImplementsRegions == Promise!Spec
=============================================================================
