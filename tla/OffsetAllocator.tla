--------------------------- MODULE OffsetAllocator ---------------------------
(***************************************************************************)
(* OffsetAllocator::Allocator: regions of [0, Size) kept as nodes that are *)
(* chained to their neighbours, the free ones also in the list of the bin  *)
(* of their size.  Two levels of bit masks (here sets of bit numbers) say  *)
(* which bins are not empty, and a stack holds the spare node indices.     *)
(*                                                                         *)
(* The members of the object are the fields of one record, so that a step  *)
(* can be the composition of insertNodeIntoBin and removeNodeFromBin that  *)
(* the code makes.                                                         *)
(***************************************************************************)
EXTENDS SmallFloat, FiniteSets, FiniteSetsExt

CONSTANTS
  Size,           (* m_size                                                *)
  MaxAllocs,      (* m_maxAllocs                                           *)
  NUM_TOP_BINS,   (* 32 in the code                                        *)
  RequestSizes    (* sizes that the client asks for                        *)

BINS_PER_LEAF == 8
NUM_LEAF_BINS == NUM_TOP_BINS * BINS_PER_LEAF

\* The only caller never has less than 256 nodes; reset() needs one for the whole.
ASSUME MaxAllocsAssumption == MaxAllocs \in Nat /\ MaxAllocs >= 2
ASSUME SizeAssumption == Size \in UINT32
ASSUME RequestAssumption == RequestSizes \subseteq UINT32
\* Every size that can occur has a bin.
ASSUME BinsAssumption ==
  /\ NUM_TOP_BINS \in Nat
  /\ \A n \in 0 .. Size : uintToFloatRoundDown(n) \in 0 .. NUM_LEAF_BINS - 1
  /\ \A n \in RequestSizes : uintToFloatRoundUp(n) \in 0 .. NUM_LEAF_BINS - 1
VARIABLES
  m,      (* the members of the Allocator                                  *)
  live    (* node indices (Allocation.metadata) that the client holds      *)

vars == <<m, live>>

NodeIndex == 0 .. MaxAllocs - 1
unused == MaxAllocs             \* Node::unused, no node's index
NO_SPACE == NUM_LEAF_BINS       \* no bin's index
Bins == 0 .. NUM_LEAF_BINS - 1

Top(bin) == bin \div BINS_PER_LEAF
Leaf(bin) == bin % BINS_PER_LEAF

Node == [dataOffset : Nat, dataSize : Nat,
         binListPrev : NodeIndex \cup {unused}, binListNext : NodeIndex \cup {unused},
         neighborPrev : NodeIndex \cup {unused}, neighborNext : NodeIndex \cup {unused},
         used : BOOLEAN]

NewNode(offset, size, next) ==
  [dataOffset |-> offset, dataSize |-> size, binListPrev |-> unused, binListNext |-> next,
   neighborPrev |-> unused, neighborNext |-> unused, used |-> FALSE]

-----------------------------------------------------------------------------
\* binListPrev of node n set to p, when there is a node n.
SetPrev(nodes, n, p) == IF n = unused THEN nodes ELSE [nodes EXCEPT ![n].binListPrev = p]

findLowestSetBitAfter(mask, start) ==
  LET after == {b \in mask : b >= start}
  IN  IF after = {} THEN NO_SPACE ELSE Min(after)

\* The node that insertNodeIntoBin takes from the freelist.
SpareNode(s) == s.freeNodes[s.freeOffset]

\* The bits of a bin that is not empty any more, and of one that is empty now.
MarkBin(s, bin) ==
  LET leaves == s.usedBins[Top(bin)] \cup {Leaf(bin)}
  IN  [s EXCEPT !.usedBins = [@ EXCEPT ![Top(bin)] = leaves], !.usedBinsTop = @ \cup {Top(bin)}]

ClearBin(s, bin) ==
  LET leaves == s.usedBins[Top(bin)] \ {Leaf(bin)}
      tops == IF leaves = {} THEN s.usedBinsTop \ {Top(bin)} ELSE s.usedBinsTop
  IN  [s EXCEPT !.usedBins = [@ EXCEPT ![Top(bin)] = leaves], !.usedBinsTop = tops]

insertNodeIntoBin(s, size, dataOffset) ==
  LET bin == uintToFloatRoundDown(size)
      top == s.binIndices[bin]
      n == SpareNode(s)
      marked == IF top = unused THEN MarkBin(s, bin) ELSE s
  IN  [marked EXCEPT
        !.freeOffset = @ - 1,
        !.nodes = SetPrev([@ EXCEPT ![n] = NewNode(dataOffset, size, top)], top, n),
        !.binIndices = [@ EXCEPT ![bin] = n],
        !.freeStorage = @ + size]

\* The head of a bin's list leaves it, and the masks when the list becomes empty.
PopBinKeepingPrev(s, bin) ==   \* Mutant: the new head keeps its binListPrev.
  LET next == s.nodes[s.binIndices[bin]].binListNext
      cleared == IF next = unused THEN ClearBin(s, bin) ELSE s
  IN  [cleared EXCEPT !.binIndices = [@ EXCEPT ![bin] = next]]

PopBin(s, bin) ==
  LET next == s.nodes[s.binIndices[bin]].binListNext
      cleared == IF next = unused THEN ClearBin(s, bin) ELSE s
  IN  [cleared EXCEPT !.binIndices = [@ EXCEPT ![bin] = next],
                      !.nodes = SetPrev(@, next, unused)]

PushSpareBelow(s, n) ==   \* Mutant: m_freeOffset++ for ++m_freeOffset.
  [s EXCEPT !.freeOffset = @ + 1, !.freeNodes = [@ EXCEPT ![s.freeOffset] = n]]

PushSpare(s, n) ==
  [s EXCEPT !.freeOffset = @ + 1, !.freeNodes = [@ EXCEPT ![s.freeOffset + 1] = n]]

removeNodeKeepingStorage(s, n) ==   \* Mutant: m_freeStorage is not decreased.
  LET node == s.nodes[n]
      unlinked ==
        IF node.binListPrev # unused
          THEN [s EXCEPT !.nodes =
                 SetPrev([@ EXCEPT ![node.binListPrev].binListNext = node.binListNext],
                         node.binListNext, node.binListPrev)]
          ELSE PopBin(s, uintToFloatRoundDown(node.dataSize))
  IN  PushSpare(unlinked, n)

removeNodeFromHead(s, n) ==   \* Mutant: a node in the middle is taken for the head.
  [PushSpare(PopBin(s, uintToFloatRoundDown(s.nodes[n].dataSize)), n) EXCEPT
     !.freeStorage = @ - s.nodes[n].dataSize]

removeNodeFromBin(s, n) ==
  LET node == s.nodes[n]
      unlinked ==
        IF node.binListPrev # unused
          THEN [s EXCEPT !.nodes =
                 SetPrev([@ EXCEPT ![node.binListPrev].binListNext = node.binListNext],
                         node.binListNext, node.binListPrev)]
          ELSE PopBin(s, uintToFloatRoundDown(node.dataSize))
  IN  [PushSpare(unlinked, n) EXCEPT !.freeStorage = @ - node.dataSize]

reset ==
  insertNodeIntoBin(
    [nodes |-> [n \in NodeIndex |-> NewNode(0, 0, unused)],
     freeNodes |-> [i \in NodeIndex |-> MaxAllocs - i - 1],
     freeOffset |-> MaxAllocs - 1,
     binIndices |-> [b \in Bins |-> unused],
     usedBins |-> [t \in 0 .. NUM_TOP_BINS - 1 |-> {}],
     usedBinsTop |-> {},
     freeStorage |-> 0], Size, 0)

-----------------------------------------------------------------------------
FindBinRoundedDown(s, size) ==   \* Mutant: the request is rounded down.
  LET after == {b \in Bins : b >= uintToFloatRoundDown(size) /\ s.binIndices[b] # unused}
  IN  IF after = {} THEN NO_SPACE ELSE Min(after)

\* The bin that allocate takes a node from, or NO_SPACE.
FindBin(s, size) ==
  LET minBin == uintToFloatRoundUp(size)
      leaf == IF Top(minBin) \in s.usedBinsTop
                THEN findLowestSetBitAfter(s.usedBins[Top(minBin)], Leaf(minBin))
                ELSE NO_SPACE
      top == findLowestSetBitAfter(s.usedBinsTop, Top(minBin) + 1)
  IN  IF leaf # NO_SPACE THEN Top(minBin) * BINS_PER_LEAF + leaf
      ELSE IF top # NO_SPACE THEN top * BINS_PER_LEAF + Min(s.usedBins[top])
      ELSE NO_SPACE

\* The node has its size cut and leaves the bin; its remainder becomes a free neighbour.
TakeNodeOfSize(s, n, bin, size) ==   \* Mutant: m_freeStorage loses only what is asked.
  [PopBin(s, bin) EXCEPT !.nodes[n] = [@ EXCEPT !.dataSize = size, !.used = TRUE],
                         !.freeStorage = @ - size]

TakeNode(s, n, bin, size) ==
  LET total == s.nodes[n].dataSize
  IN  [PopBin(s, bin) EXCEPT !.nodes[n] = [@ EXCEPT !.dataSize = size, !.used = TRUE],
                             !.freeStorage = @ - total]

SplitRemainderForward(s, n, remainder) ==   \* Mutant: the old next neighbour keeps its prev.
  LET new == SpareNode(s)
      inserted == insertNodeIntoBin(s, remainder, s.nodes[n].dataOffset + s.nodes[n].dataSize)
  IN  [inserted EXCEPT !.nodes[new].neighborPrev = n,
                       !.nodes[new].neighborNext = s.nodes[n].neighborNext,
                       !.nodes[n].neighborNext = new]

SplitRemainder(s, n, remainder) ==
  LET new == SpareNode(s)
      next == s.nodes[n].neighborNext
      inserted == insertNodeIntoBin(s, remainder, s.nodes[n].dataOffset + s.nodes[n].dataSize)
      old == IF next = unused THEN inserted.nodes
             ELSE [inserted.nodes EXCEPT ![next].neighborPrev = new]
  IN  [inserted EXCEPT !.nodes = [old EXCEPT ![new].neighborPrev = n,
                                             ![new].neighborNext = next,
                                             ![n].neighborNext = new]]

CanAllocate(s, size) == s.freeOffset # 0 /\ FindBin(s, size) # NO_SPACE

\* A refused request changes nothing.
allocate(size) ==
  LET bin == FindBin(m, size)
      n == m.binIndices[bin]
      taken == TakeNode(m, n, bin, size)
      remainder == m.nodes[n].dataSize - size
  IN  /\ CanAllocate(m, size)
      /\ m' = IF remainder > 0 THEN SplitRemainder(taken, n, remainder) ELSE taken
      /\ live' = live \cup {n}

-----------------------------------------------------------------------------
IsFree(s, n) == n # unused /\ ~s.nodes[n].used

MergePrev(s, n) ==
  LET p == s.nodes[n].neighborPrev
  IN  IF ~IsFree(s, p) THEN s
      ELSE [removeNodeFromBin(s, p) EXCEPT
             !.nodes[n].neighborPrev = s.nodes[p].neighborPrev]

MergeNoNext(s, n) == s   \* Mutant: the next neighbour is not merged.

MergeNext(s, n) ==
  LET q == s.nodes[n].neighborNext
  IN  IF ~IsFree(s, q) THEN s
      ELSE [removeNodeFromBin(s, q) EXCEPT
             !.nodes[n].neighborNext = s.nodes[q].neighborNext]

\* The node index goes to the freelist and comes straight back for the combined node.
InsertCombined(s, n, size, offset) ==
  LET p == s.nodes[n].neighborPrev
      q == s.nodes[n].neighborNext
      pushed == PushSpare(s, n)
      c == SpareNode(pushed)
      inserted == insertNodeIntoBin(pushed, size, offset)
      linkedNext == IF q = unused THEN inserted.nodes
                    ELSE [inserted.nodes EXCEPT ![c].neighborNext = q, ![q].neighborPrev = c]
  IN  [inserted EXCEPT !.nodes =
        IF p = unused THEN linkedNext
        ELSE [linkedNext EXCEPT ![c].neighborPrev = p, ![p].neighborNext = c]]

freeAtOwnOffset(n) ==   \* Mutant: a merge with the previous region keeps the offset.
  LET p == m.nodes[n].neighborPrev
      q == m.nodes[n].neighborNext
      size == m.nodes[n].dataSize + (IF IsFree(m, p) THEN m.nodes[p].dataSize ELSE 0)
                                  + (IF IsFree(m, q) THEN m.nodes[q].dataSize ELSE 0)
  IN  /\ n \in live
      /\ m' = InsertCombined(MergeNext(MergePrev(m, n), n), n, size, m.nodes[n].dataOffset)
      /\ live' = live \ {n}

\* The client frees an allocation once (the code asserts node.used).
free(n) ==
  LET p == m.nodes[n].neighborPrev
      q == m.nodes[n].neighborNext
      offset == IF IsFree(m, p) THEN m.nodes[p].dataOffset ELSE m.nodes[n].dataOffset
      size == m.nodes[n].dataSize + (IF IsFree(m, p) THEN m.nodes[p].dataSize ELSE 0)
                                  + (IF IsFree(m, q) THEN m.nodes[q].dataSize ELSE 0)
  IN  /\ n \in live
      /\ m' = InsertCombined(MergeNext(MergePrev(m, n), n), n, size, offset)
      /\ live' = live \ {n}

Init == m = reset /\ live = {}

Next == \/ \E size \in RequestSizes : allocate(size)
        \/ \E n \in live : free(n)

Spec == Init /\ [][Next]_vars

-----------------------------------------------------------------------------
storageReportUnchecked ==   \* Mutant: the spare nodes are not looked at.
  LET top == Max(m.usedBinsTop)
      bin == top * BINS_PER_LEAF + Max(m.usedBins[top])
  IN  [totalFreeSpace |-> m.freeStorage,
       largestFreeRegion |-> IF m.usedBinsTop = {} THEN 0 ELSE floatToUint(bin)]

\* The highest bit of each mask (31 - lzcnt_nonzero) names the highest bin in use.
storageReport ==
  LET top == Max(m.usedBinsTop)
      bin == top * BINS_PER_LEAF + Max(m.usedBins[top])
  IN  IF m.freeOffset = 0 THEN [totalFreeSpace |-> 0, largestFreeRegion |-> 0]
      ELSE [totalFreeSpace |-> m.freeStorage,
            largestFreeRegion |-> IF m.usedBinsTop = {} THEN 0 ELSE floatToUint(bin)]

\* The number of nodes that a walk along binListNext meets in each bin.
storageReportFull ==
  [b \in Bins |->
     LET walk[k \in 0 .. MaxAllocs] ==
           IF k = 0 THEN m.binIndices[b]
           ELSE IF walk[k - 1] = unused THEN unused ELSE m.nodes[walk[k - 1]].binListNext
     IN  Cardinality({k \in 0 .. MaxAllocs : walk[k] # unused})]

-----------------------------------------------------------------------------
InUse == NodeIndex \ {m.freeNodes[i] : i \in 0 .. m.freeOffset}
FreeRegions == {n \in InUse : ~m.nodes[n].used}
BinOf(n) == uintToFloatRoundDown(m.nodes[n].dataSize)
End(n) == m.nodes[n].dataOffset + m.nodes[n].dataSize

\* Type invariant.
TypeOK ==
  /\ m \in [nodes : [NodeIndex -> Node],
            freeNodes : [NodeIndex -> NodeIndex],
            freeOffset : NodeIndex,
            binIndices : [Bins -> NodeIndex \cup {unused}],
            usedBins : [0 .. NUM_TOP_BINS - 1 -> SUBSET (0 .. BINS_PER_LEAF - 1)],
            usedBinsTop : SUBSET (0 .. NUM_TOP_BINS - 1),
            freeStorage : 0 .. Size]
  /\ live \subseteq NodeIndex

\* Every node index is spare once, or a region in use; the regions marked used
\* are the ones the client holds, so a free or a merge never returns a held node.
NodesAccounted ==
  /\ \A i, j \in 0 .. m.freeOffset : m.freeNodes[i] = m.freeNodes[j] => i = j
  /\ live = {n \in InUse : m.nodes[n].used}

\* The neighbour links chain the regions in address order from 0 to Size.
NeighborsChained ==
  \A n \in InUse :
    LET p == m.nodes[n].neighborPrev
        q == m.nodes[n].neighborNext
    IN  /\ IF p = unused THEN m.nodes[n].dataOffset = 0
           ELSE p \in InUse /\ m.nodes[p].neighborNext = n /\ End(p) = m.nodes[n].dataOffset
        /\ IF q = unused THEN End(n) = Size
           ELSE q \in InUse /\ m.nodes[q].neighborPrev = n

\* No byte is lost or given twice: the regions in use add up to the storage and
\* m_freeStorage to the free ones.
StorageAccounted ==
  /\ MapThenSumSet(LAMBDA n : m.nodes[n].dataSize, InUse) = Size
  /\ MapThenSumSet(LAMBDA n : m.nodes[n].dataSize, FreeRegions) = m.freeStorage

\* free leaves no two free neighbours: with nothing allocated one region is left.
Coalesced ==
  \A n \in FreeRegions :
    m.nodes[n].neighborNext # unused => m.nodes[m.nodes[n].neighborNext].used

\* The doubly linked list of each bin holds free regions of that bin's size, each
\* free region is linked, and the two bit masks name exactly the bins not empty.
BinListsLinked ==
  /\ \A n \in FreeRegions :
       LET p == m.nodes[n].binListPrev
           q == m.nodes[n].binListNext
       IN  /\ IF p = unused THEN m.binIndices[BinOf(n)] = n
              ELSE p \in FreeRegions /\ BinOf(p) = BinOf(n) /\ m.nodes[p].binListNext = n
           /\ q # unused =>
                q \in FreeRegions /\ BinOf(q) = BinOf(n) /\ m.nodes[q].binListPrev = n
  /\ \A b \in Bins :
       LET n == m.binIndices[b]
       IN  n # unused =>
             n \in FreeRegions /\ BinOf(n) = b /\ m.nodes[n].binListPrev = unused
  /\ \A b \in Bins : (Leaf(b) \in m.usedBins[Top(b)]) <=> (m.binIndices[b] # unused)
  /\ \A t \in 0 .. NUM_TOP_BINS - 1 : (t \in m.usedBinsTop) <=> (m.usedBins[t] # {})

\* What allocate relies on when it subtracts: the region it takes is big enough,
\* and every free region that the rounded request admits is found.
FitFound ==
  \A size \in RequestSizes :
    LET admitted == {n \in FreeRegions : BinOf(n) >= uintToFloatRoundUp(size)}
        bin == FindBin(m, size)
    IN  /\ (bin = NO_SPACE) <=> (admitted = {})
        /\ admitted # {} =>
             /\ m.nodes[m.binIndices[bin]].dataSize >= size
             /\ \A n \in admitted : BinOf(n) >= bin

\* The largest region that storageReport names is within the free space that it
\* names (the code asserts it) and is given to whoever asks for it.
ReportAllocatable ==
  LET report == storageReport
  IN  /\ report.totalFreeSpace >= report.largestFreeRegion
      /\ report.largestFreeRegion > 0 => CanAllocate(m, report.largestFreeRegion)

\* A walk along each bin's list meets every free region of the bin once.
ReportFullExact ==
  \A b \in Bins : storageReportFull[b] = Cardinality({n \in FreeRegions : BinOf(n) = b})
=============================================================================
