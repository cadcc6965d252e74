----------------------- MODULE OffsetAllocatorInvariant -----------------------
(***************************************************************************)
(* What makes the invariants of OffsetAllocator last.  A step composes     *)
(* operations on the record of the allocator, so each part is stated of a  *)
(* record, or of the node array and a set of nodes.                        *)
(***************************************************************************)
EXTENDS OffsetAllocatorRefinement

Spare(s) == {s.freeNodes[i] : i \in 0 .. s.freeOffset}
RegionsOf(s) == NodeIndex \ Spare(s)
FreeOf(s) == {n \in RegionsOf(s) : ~s.nodes[n].used}

EndOf(node) == node.dataOffset + node.dataSize
SizeSum(nodes, S) == MapThenSumSet(LAMBDA n : nodes[n].dataSize, S)

Links == NodeIndex \cup {unused}
Ranks == [NodeIndex -> Nat]

\* The members have their types; that freeStorage is in range is in StorageInv.
ShapeInv(s) ==
  s \in [nodes : [NodeIndex -> Node],
         freeNodes : [NodeIndex -> NodeIndex],
         freeOffset : NodeIndex,
         binIndices : [Bins -> Links],
         usedBins : [0 .. NUM_TOP_BINS - 1 -> SUBSET (0 .. BINS_PER_LEAF - 1)],
         usedBinsTop : SUBSET (0 .. NUM_TOP_BINS - 1),
         freeStorage : Int]

\* No node is spare twice.
StackInv(s) ==
  \A i, j \in 0 .. s.freeOffset : s.freeNodes[i] = s.freeNodes[j] => i = j

-----------------------------------------------------------------------------
\* The neighbour links of the regions U, as NeighborsChained has them.
LinkInv(nodes, U) ==
  \A n \in U :
    LET p == nodes[n].neighborPrev
        q == nodes[n].neighborNext
    IN  /\ IF p = unused THEN nodes[n].dataOffset = 0
           ELSE p \in U /\ nodes[p].neighborNext = n /\ EndOf(nodes[p]) = nodes[n].dataOffset
        /\ IF q = unused THEN EndOf(nodes[n]) = Size
           ELSE q \in U /\ nodes[q].neighborPrev = n

\* The chain is one chain: there is an order of the regions in which neighborNext is
\* the successor, and it is that of the addresses.  An empty region lies between its
\* neighbours only in this order, its offset does not tell.
InOrder(nodes, U, rank) ==
  /\ \A x, y \in U : x # y => rank[x] # rank[y]
  /\ \A x, y \in U : rank[x] < rank[y] => EndOf(nodes[x]) <= nodes[y].dataOffset
  /\ \A x, y \in U : rank[x] < rank[y] =>
       nodes[x].neighborNext # unused /\ rank[nodes[x].neighborNext] <= rank[y]
  /\ \A x \in U : nodes[x].neighborNext # unused => rank[x] < rank[nodes[x].neighborNext]

ChainInv(nodes, U) ==
  /\ LinkInv(nodes, U)
  /\ \A x \in U : EndOf(nodes[x]) <= Size
  /\ \E rank \in Ranks : InOrder(nodes, U, rank)

-----------------------------------------------------------------------------
\* The bin lists of the free regions F, as BinListsLinked has them.
ListLinks(nodes, heads, F) ==
  /\ \A n \in F : uintToFloatRoundDown(nodes[n].dataSize) \in Bins
  /\ \A n \in F :
       LET p == nodes[n].binListPrev
           q == nodes[n].binListNext
           bin == uintToFloatRoundDown(nodes[n].dataSize)
       IN  /\ IF p = unused THEN heads[bin] = n
              ELSE /\ p \in F
                   /\ uintToFloatRoundDown(nodes[p].dataSize) = bin
                   /\ nodes[p].binListNext = n
           /\ q # unused =>
                /\ q \in F
                /\ uintToFloatRoundDown(nodes[q].dataSize) = bin
                /\ nodes[q].binListPrev = n
  /\ \A b \in Bins :
       heads[b] # unused =>
         /\ heads[b] \in F
         /\ uintToFloatRoundDown(nodes[heads[b]].dataSize) = b
         /\ nodes[heads[b]].binListPrev = unused

\* No list is a ring, so each region of a bin is reached from the bin's first.
ListOrder(nodes, F, rank) ==
  \A n \in F : nodes[n].binListPrev # unused => rank[nodes[n].binListPrev] < rank[n]

ListInv(nodes, heads, F) ==
  /\ ListLinks(nodes, heads, F)
  /\ \E rank \in Ranks : ListOrder(nodes, F, rank)

\* The masks name the bins that are not empty.
MaskInv(s) ==
  /\ \A b \in Bins : (Leaf(b) \in s.usedBins[Top(b)]) <=> (s.binIndices[b] # unused)
  /\ \A t \in 0 .. NUM_TOP_BINS - 1 : (t \in s.usedBinsTop) <=> (s.usedBins[t] # {})

-----------------------------------------------------------------------------
StorageInv(s) ==
  /\ SizeSum(s.nodes, RegionsOf(s)) = Size
  /\ SizeSum(s.nodes, FreeOf(s)) = s.freeStorage

CoalescedInv(s) ==
  \A n \in FreeOf(s) :
    s.nodes[n].neighborNext # unused => s.nodes[s.nodes[n].neighborNext].used

\* What holds of the record between calls.
AllocatorInv(s) ==
  /\ ShapeInv(s)
  /\ StackInv(s)
  /\ ChainInv(s.nodes, RegionsOf(s))
  /\ ListInv(s.nodes, s.binIndices, FreeOf(s))
  /\ MaskInv(s)
  /\ StorageInv(s)
  /\ CoalescedInv(s)

\* The inductive invariant.
IInv ==
  /\ AllocatorInv(m)
  /\ live = {n \in RegionsOf(m) : m.nodes[n].used}
=============================================================================
