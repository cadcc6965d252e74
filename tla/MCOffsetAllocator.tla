-------------------------- MODULE MCOffsetAllocator --------------------------
(* Small instances of OffsetAllocator for TLC. *)
EXTENDS OffsetAllocatorRefinement

\* What is left in a spare node, or above the top of the stack of spare nodes, is
\* overwritten before it is read: states that differ there only are the same.  The
\* two comparisons only make TLC evaluate the functions, which it cannot store lazy.
View ==
  <<[n \in InUse |-> m.nodes[n]], [i \in 0 .. m.freeOffset |-> m.freeNodes[i]],
    m.nodes = m.nodes, m.freeNodes = m.freeNodes, m.binIndices, m.usedBins, m.usedBinsTop, m.freeStorage, live>>
=============================================================================
