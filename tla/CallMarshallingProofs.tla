------------------------ MODULE CallMarshallingProofs ------------------------
(***************************************************************************)
(* CallMarshalling, for any number of threads, any signatures, and calls   *)
(* and callbacks nested to any depth: blocks stay intact, every pointer    *)
(* that a call holds is a block of its own, and a thread in which nothing  *)
(* has thrown and no callback has been given a value holds nothing when    *)
(* its last call has returned.                                             *)
(***************************************************************************)
EXTENDS MarshallingInvariant, WellFoundedInduction, TLAPS

-----------------------------------------------------------------------------
(***************************************************************************)
(* The arguments that a step goes through.                                 *)
(***************************************************************************)
LEMMA LeastNat ==
  ASSUME NEW S \in SUBSET Nat, S # {}
  PROVE  \E x \in S : \A y \in S : x <= y
<1>1. PICK x \in S : \A y \in S : ~(<<y, x>> \in OpToRel(<, Nat))
  BY NatLessThanWellFounded, WFMin
<1>2. \A y \in S : ~(y < x)
  BY <1>1 DEF OpToRel
<1> QED BY <1>2

LEMMA NextOfFacts ==
  ASSUME NEW sig, NEW kinds, NEW i \in Nat, i >= 1, Len(sig.args) \in Nat
  PROVE  /\ NextOf(sig, kinds, i) \in Nat /\ NextOf(sig, kinds, i) >= 1
         /\ NextOf(sig, kinds, i) <= Len(sig.args) + 1
         /\ i <= Len(sig.args) + 1 => NextOf(sig, kinds, i) >= i
         /\ NextOf(sig, kinds, i) <= Len(sig.args) => sig.args[NextOf(sig, kinds, i)] \in kinds
         /\ \A j \in i .. Len(sig.args) : sig.args[j] \in kinds => NextOf(sig, kinds, i) <= j
<1> DEFINE found == {j \in i .. Len(sig.args) : sig.args[j] \in kinds}
           least == CHOOSE j \in found : \A k \in found : j <= k
<1>1. NextOf(sig, kinds, i) = IF found = {} THEN Len(sig.args) + 1 ELSE least
  BY DEF NextOf
<1>2. CASE found = {}
  BY <1>1, <1>2
<1>3. CASE found # {}
  <2>0. found \in SUBSET Nat
    OBVIOUS
  <2>1. \E x \in found : \A y \in found : x <= y
    <3> HIDE DEF found
    <3> QED BY <1>3, <2>0, LeastNat
  <2>2. least \in found /\ \A k \in found : least <= k
    <3> HIDE DEF found
    <3> QED BY <2>1
  <2>3. least \in i .. Len(sig.args) /\ sig.args[least] \in kinds
    BY <2>2
  <2>4. \A j \in i .. Len(sig.args) : sig.args[j] \in kinds => least <= j
    BY <2>2
  <2> HIDE DEF least, found
  <2>5. NextOf(sig, kinds, i) = least
    BY <1>1, <1>3
  <2> QED BY <2>3, <2>4, <2>5
<1> QED BY <1>2, <1>3

-----------------------------------------------------------------------------
(***************************************************************************)
(* The memory.                                                             *)
(***************************************************************************)
\* From m to n the thread t gives back its block at old and is given one at new, and
\* the blocks of the other threads stay.
Exchange(m, n, t, old, new, size) ==
  /\ Blocks(n, t) = {b \in Blocks(m, t) : b.at # old}
                      \cup (IF new = Null THEN {} ELSE {[at |-> new, size |-> size]})
  /\ new # Null => new \notin Pointers(m, t)
  /\ \A u \in Threads \ {t} : Blocks(n, u) = Blocks(m, u)

SameBlocks(m, n) == \A u \in Threads : Blocks(n, u) = Blocks(m, u)

LEMMA MemoryFields ==
  ASSUME NEW m, m \in Memory
  PROVE  /\ m.buffer \in [Threads -> Cell \cup {Null}]
         /\ m.regions \in [Threads -> SUBSET Region]
         /\ m.heap \in SUBSET Block
         /\ m.header \in [Cell -> Offset \cup {Null}]
         /\ m = [buffer |-> m.buffer, regions |-> m.regions, heap |-> m.heap,
                 header |-> m.header]
BY DEF Memory

LEMMA RegionFields ==
  ASSUME NEW r \in Region
  PROVE  /\ r.offset \in Nat /\ r.size \in Nat /\ r.offset \in Offset
         /\ r = [offset |-> r.offset, size |-> r.size]
BY SizesAssumption DEF Region, Offset

LEMMA BlockFields ==
  ASSUME NEW b \in Block
  PROVE  /\ b.at \in Cell /\ b.at \in Nat /\ b.size \in Nat /\ b.size >= 1 /\ b.by \in Threads
         /\ b = [at |-> b.at, size |-> b.size, by |-> b.by]
BY SizesAssumption DEF Block, Cell

LEMMA CellFacts == /\ Cell \subseteq Nat /\ \A c \in Cell : c # Null /\ 1 <= c /\ c <= Cells
                   /\ \A c \in Int : 1 <= c /\ c <= Cells => c \in Cell
BY SizesAssumption, NullAssumption DEF Cell

LEMMA RangesApart ==
  ASSUME NEW a \in Int, NEW n \in Nat, NEW b \in Int, NEW k \in Nat, n >= 1, k >= 1
  PROVE  Apart(a, n, b, k) <=> Range(a, n) \cap Range(b, k) = {}
<1>1. ASSUME Apart(a, n, b, k) PROVE Range(a, n) \cap Range(b, k) = {}
  BY <1>1 DEF Apart, Range
<1>2. ASSUME ~Apart(a, n, b, k) PROVE Range(a, n) \cap Range(b, k) # {}
  <2>1. CASE a <= b
    <3>1. b \in Range(a, n) /\ b \in Range(b, k)
      BY <1>2, <2>1 DEF Apart, Range
    <3> QED BY <3>1
  <2>2. CASE b < a
    <3>1. a \in Range(a, n) /\ a \in Range(b, k)
      BY <1>2, <2>2 DEF Apart, Range
    <3> QED BY <3>1
  <2> QED BY <2>1, <2>2
<1> QED BY <1>1, <1>2

\* Room is clear of every buffer and every block.
LEMMA RoomFacts ==
  ASSUME NEW m, MemoryInv(m), NEW n \in Nat, n >= 1, NEW a \in Room(m, n)
  PROVE  /\ a \in Cell /\ a \in Nat /\ a + n - 1 <= Cells
         /\ \A t \in Threads : m.buffer[t] # Null => Apart(a, n, m.buffer[t], BufferSize)
         /\ \A b \in m.heap : Apart(a, n, b.at, b.size)
<1>1. a \in Cell /\ Range(a, n) \subseteq Cell \ Occupied(m)
  BY DEF Room, Lowest
<1>2. a \in Nat /\ a + n - 1 <= Cells
  <2>1. a + n - 1 \in Range(a, n)
    BY <1>1, CellFacts DEF Range
  <2> QED BY <1>1, <2>1, CellFacts
<1>3. ASSUME NEW t \in Threads, m.buffer[t] # Null
      PROVE  Apart(a, n, m.buffer[t], BufferSize)
  <2>1. Range(m.buffer[t], BufferSize) \subseteq Occupied(m)
    BY <1>3 DEF Occupied
  <2>2. m.buffer[t] \in Nat /\ BufferSize \in Nat /\ BufferSize >= 1
    BY <1>3, MemoryFields, CellFacts, SizesAssumption DEF MemoryInv
  <2> QED BY <1>1, <1>2, <2>1, <2>2, RangesApart
<1>4. ASSUME NEW b \in m.heap PROVE Apart(a, n, b.at, b.size)
  <2>1. Range(b.at, b.size) \subseteq Occupied(m)
    BY DEF Occupied
  <2>2. b.at \in Nat /\ b.size \in Nat /\ b.size >= 1
    BY MemoryFields, BlockFields DEF MemoryInv
  <2> QED BY <1>1, <1>2, <2>1, <2>2, RangesApart
<1> QED BY <1>1, <1>2, <1>3, <1>4

LEMMA InBlocks ==
  ASSUME NEW m, NEW t, NEW x
  PROVE  x \in Blocks(m, t) <=>
           \/ \E r \in m.regions[t] :
                x = [at |-> m.buffer[t] + r.offset + HeaderSize, size |-> r.size - HeaderSize]
           \/ \E b \in m.heap : b.by = t /\ x = [at |-> b.at, size |-> b.size]
BY DEF Blocks

\* Where the regions of a thread lie, and their headers.
LEMMA HeaderCell ==
  ASSUME NEW m, MemoryInv(m), NEW t \in Threads, NEW r \in m.regions[t]
  PROVE  /\ m.buffer[t] \in Nat /\ m.buffer[t] \in Cell /\ m.buffer[t] # Null
         /\ m.buffer[t] + BufferSize - 1 <= Cells
         /\ m.buffer[t] + r.offset \in Cell
         /\ r \in Region /\ r.offset \in Nat /\ r.size \in Nat
         /\ HeaderSize < r.size /\ r.offset + r.size <= BufferSize
<1>1. m.buffer[t] # Null /\ m.buffer[t] + BufferSize - 1 <= Cells
  BY DEF MemoryInv, LayoutInv
<1>2. m.buffer[t] \in Cell /\ m.buffer[t] \in Nat
  BY <1>1, MemoryFields, CellFacts DEF MemoryInv
<1>3. r \in Region /\ r.offset \in Nat /\ r.size \in Nat
  BY MemoryFields, RegionFields DEF MemoryInv
<1>4. HeaderSize < r.size /\ r.offset + r.size <= BufferSize
  BY DEF MemoryInv, RegionInv
<1>5. m.buffer[t] + r.offset <= Cells /\ m.buffer[t] + r.offset >= 1
  BY <1>1, <1>2, <1>3, <1>4, CellFacts, SizesAssumption
<1> QED BY <1>1, <1>2, <1>3, <1>4, <1>5, CellFacts

\* A thread's buffer is made where there is room, and holds nothing.
LEMMA ConstructedFacts ==
  ASSUME NEW m, MemoryInv(m), NEW t \in Threads, NEW n \in Constructed(m, t)
  PROVE  MemoryInv(n) /\ n.buffer[t] # Null /\ SameBlocks(m, n)
<1>1. CASE m.buffer[t] # Null
  BY <1>1 DEF Constructed, SameBlocks
<1>2. CASE m.buffer[t] = Null
  <2>1. PICK a \in Room(m, BufferSize) : n = [m EXCEPT !.buffer[t] = a]
    BY <1>2 DEF Constructed
  <2>2. /\ a \in Cell /\ a \in Nat /\ a + BufferSize - 1 <= Cells
        /\ \A u \in Threads : m.buffer[u] # Null => Apart(a, BufferSize, m.buffer[u], BufferSize)
        /\ \A b \in m.heap : Apart(a, BufferSize, b.at, b.size)
    BY SizesAssumption, RoomFacts
  <2>3. /\ m.buffer \in [Threads -> Cell \cup {Null}]
        /\ n.buffer = [m.buffer EXCEPT ![t] = a]
        /\ n.regions = m.regions /\ n.heap = m.heap /\ n.header = m.header
    BY <2>1, MemoryFields DEF MemoryInv
  <2>4. n.buffer[t] = a /\ \A u \in Threads : u # t => n.buffer[u] = m.buffer[u]
    BY <2>3
  <2>5. n \in Memory
    BY <2>1, <2>2 DEF MemoryInv, Memory
  <2>6. m.regions[t] = {}
    BY <1>2 DEF MemoryInv, LayoutInv
  <2>7. LayoutInv(n)
    BY <2>2, <2>3, <2>4, CellFacts DEF MemoryInv, LayoutInv, Apart
  <2>8. RegionInv(n)
    BY <2>3, <2>4, <2>6 DEF MemoryInv, RegionInv
  <2>9. ASSUME NEW u \in Threads PROVE Blocks(n, u) = Blocks(m, u)
    BY <2>3, <2>4, <2>6 DEF Blocks
  <2> QED BY <2>2, <2>4, <2>5, <2>7, <2>8, <2>9, CellFacts DEF MemoryInv, SameBlocks
<1> QED BY <1>1, <1>2

\* Data that is written anywhere but over a header disturbs nothing.
LEMMA WrittenFacts ==
  ASSUME NEW m, MemoryInv(m), NEW a, NEW n,
         \A t \in Threads : \A r \in m.regions[t] : m.buffer[t] + r.offset \notin Range(a, n)
  PROVE  MemoryInv(Written(m, a, n)) /\ SameBlocks(m, Written(m, a, n))
<1> DEFINE w == Written(m, a, n)
<1>1. /\ w.buffer = m.buffer /\ w.regions = m.regions /\ w.heap = m.heap
      /\ w.header = [c \in Cell |-> IF c \in Range(a, n) THEN Null ELSE m.header[c]]
  BY MemoryFields DEF MemoryInv, Written
<1>2. w \in Memory
  <2>1. w.header \in [Cell -> Offset \cup {Null}]
    BY <1>1, MemoryFields DEF MemoryInv
  <2> QED BY <1>1, <2>1, MemoryFields DEF MemoryInv, Memory, Written
<1> HIDE DEF w
<1>3. LayoutInv(w)
  BY <1>1 DEF MemoryInv, LayoutInv
<1>4. ASSUME NEW t \in Threads, NEW r \in m.regions[t]
      PROVE  w.header[m.buffer[t] + r.offset] = r.offset
  <2>1. m.buffer[t] + r.offset \in Cell
    BY HeaderCell
  <2> QED BY <1>1, <2>1 DEF MemoryInv, RegionInv
<1>5. RegionInv(w)
  BY <1>1, <1>4 DEF MemoryInv, RegionInv
<1>6. SameBlocks(m, w)
  BY <1>1 DEF SameBlocks, Blocks
<1> QED BY <1>2, <1>3, <1>5, <1>6 DEF MemoryInv, w

LEMMA BlockPlaces ==
  ASSUME NEW m, MemoryInv(m), NEW t \in Threads, NEW b \in Blocks(m, t)
  PROVE  b.at \in Cell /\ b.at \in Nat /\ b.at # Null /\ b.size \in Nat
<1>1. ASSUME NEW r \in m.regions[t],
             b = [at |-> m.buffer[t] + r.offset + HeaderSize, size |-> r.size - HeaderSize]
      PROVE  b.at \in Cell /\ b.size \in Nat
  <2>1. /\ m.buffer[t] \in Nat /\ m.buffer[t] + BufferSize - 1 <= Cells /\ r.offset \in Nat
        /\ m.buffer[t] \in Cell
        /\ r.size \in Nat /\ HeaderSize < r.size /\ r.offset + r.size <= BufferSize
    BY HeaderCell
  <2> QED BY <1>1, <2>1, CellFacts, SizesAssumption
<1>2. ASSUME NEW c \in m.heap, b = [at |-> c.at, size |-> c.size]
      PROVE  b.at \in Cell /\ b.size \in Nat
  <2>1. c \in Block
    BY MemoryFields DEF MemoryInv
  <2> QED BY <1>2, <2>1, BlockFields
<1>3. b.at \in Cell /\ b.size \in Nat
  BY <1>1, <1>2, InBlocks
<1> QED BY <1>3, CellFacts

\* The headers of other regions are not in the part of a buffer that a gap leaves.
LEMMA GapFacts ==
  ASSUME NEW m, MemoryInv(m), NEW t \in Threads, m.buffer[t] # Null,
         NEW o \in Nat, NEW k \in Nat, k >= 1, o + k <= BufferSize,
         \A r \in m.regions[t] : Apart(o, k, r.offset, r.size),
         NEW u \in Threads, NEW r \in m.regions[u]
  PROVE  m.buffer[u] + r.offset \notin Range(m.buffer[t] + o, k)
<1>1. /\ m.buffer[u] \in Nat /\ r.offset \in Nat /\ r.size \in Nat /\ r.size >= 1
      /\ r.offset + r.size <= BufferSize /\ m.buffer[u] # Null
  BY HeaderCell, SizesAssumption
<1>2. m.buffer[t] \in Nat
  BY MemoryFields, CellFacts DEF MemoryInv
<1>3. CASE u = t
  <2>1. Apart(o, k, r.offset, r.size)
    BY <1>3
  <2> QED BY <1>1, <1>2, <1>3, <2>1 DEF Apart, Range
<1>4. CASE u # t
  <2>1. Apart(m.buffer[t], BufferSize, m.buffer[u], BufferSize)
    BY <1>1, <1>4 DEF MemoryInv, LayoutInv
  <2> QED BY <1>1, <1>2, <2>1, SizesAssumption DEF Apart, Range
<1> QED BY <1>3, <1>4

\* A region of the buffer, with its header, is given to the thread.
LEMMA FromBufferFacts ==
  ASSUME NEW m, MemoryInv(m), NEW t \in Threads, m.buffer[t] # Null,
         NEW size \in Nat, size >= 1,
         NEW r \in FromBuffer(m, t, size, HeaderSize + size)
  PROVE  /\ MemoryInv(r.mem) /\ r.ptr \in Cell
         /\ Exchange(m, r.mem, t, Null, r.ptr, size)
<1> DEFINE total == HeaderSize + size
<1>1. PICK o \in Gaps(m, t, total) :
        r = Result([Written(m, m.buffer[t] + o + HeaderSize, size) EXCEPT
                      !.regions[t] = @ \cup {[offset |-> o, size |-> total]},
                      !.header[m.buffer[t] + o] = o],
                   m.buffer[t] + o + HeaderSize)
  BY DEF FromBuffer
<1> DEFINE base == m.buffer[t]
           ptr == base + o + HeaderSize
           w == Written(m, ptr, size)
           new == [offset |-> o, size |-> total]
<1>2. /\ o \in Nat /\ total \in Nat /\ o + total <= BufferSize /\ total >= 1 /\ HeaderSize >= 1
      /\ HeaderSize \in Nat /\ BufferSize \in Nat
      /\ \A s \in m.regions[t] : Apart(o, total, s.offset, s.size)
  BY <1>1, SizesAssumption DEF Gaps, Apart
<1>3. base \in Nat /\ 1 <= base /\ base + BufferSize - 1 <= Cells
  BY MemoryFields, CellFacts DEF MemoryInv, LayoutInv
<1>4. ASSUME NEW u \in Threads, NEW s \in m.regions[u]
      PROVE  m.buffer[u] + s.offset \notin Range(base + o, total)
  BY <1>2, GapFacts
<1>5. Range(ptr, size) \subseteq Range(base + o, total) /\ base + o \in Range(base + o, total)
      /\ base + o \notin Range(ptr, size)
  BY <1>2, <1>3 DEF Range
<1>6. MemoryInv(w) /\ SameBlocks(m, w)
  <2>1. \A u \in Threads : \A s \in m.regions[u] : m.buffer[u] + s.offset \notin Range(ptr, size)
    BY <1>4, <1>5
  <2> HIDE DEF ptr
  <2> QED BY <2>1, WrittenFacts
<1>7. w.buffer = m.buffer /\ w.regions = m.regions /\ w.heap = m.heap
  BY MemoryFields DEF MemoryInv, Written
<1> DEFINE n == [w EXCEPT !.regions[t] = @ \cup {new}, !.header[base + o] = o]
<1>8. r.mem = n /\ r.ptr = ptr
  BY <1>1 DEF Result
<1> HIDE DEF w
<1>9. /\ n.buffer = m.buffer /\ n.heap = m.heap
      /\ n.regions = [m.regions EXCEPT ![t] = @ \cup {new}]
      /\ n.header = [w.header EXCEPT ![base + o] = o]
  BY <1>6, <1>7, MemoryFields DEF MemoryInv
<1>10. new \in Region /\ base + o \in Cell /\ o \in Offset
  <2>1. base + o \in Int /\ 1 <= base + o /\ base + o <= Cells
    BY <1>2, <1>3, SizesAssumption
  <2>2. o \in Offset /\ total \in 1 .. BufferSize
    BY <1>2 DEF Offset
  <2> QED BY <2>1, <2>2, CellFacts DEF Region
<1>11. n \in Memory
  BY <1>6, <1>7, <1>10 DEF MemoryInv, Memory
<1> HIDE DEF n
<1>12. /\ m.regions \in [Threads -> SUBSET Region] /\ w.header \in [Cell -> Offset \cup {Null}]
  BY <1>6, MemoryFields DEF MemoryInv
<1>13. /\ n.regions[t] = m.regions[t] \cup {new}
       /\ \A u \in Threads : u # t => n.regions[u] = m.regions[u]
       /\ n.header[base + o] = o
       /\ \A c \in Cell : c # base + o => n.header[c] = w.header[c]
  BY <1>9, <1>10, <1>12
<1>14. LayoutInv(n)
  BY <1>9, <1>13 DEF MemoryInv, LayoutInv
<1>15. RegionInv(n)
  <2> SUFFICES ASSUME NEW u \in Threads, NEW s \in n.regions[u]
               PROVE  /\ HeaderSize < s.size /\ s.offset + s.size <= BufferSize
                      /\ n.header[m.buffer[u] + s.offset] = s.offset
                      /\ \A q \in n.regions[u] : s # q => Apart(s.offset, s.size, q.offset, q.size)
    BY <1>9 DEF RegionInv
  <2>1. ASSUME s \in m.regions[u]
        PROVE  /\ HeaderSize < s.size /\ s.offset + s.size <= BufferSize
               /\ n.header[m.buffer[u] + s.offset] = s.offset
    <3>1. m.buffer[u] + s.offset # base + o
      BY <1>4, <1>5, <2>1
    <3>2. m.buffer[u] + s.offset \in Cell
      BY <2>1, HeaderCell
    <3> QED BY <1>6, <1>7, <1>13, <2>1, <3>1, <3>2 DEF MemoryInv, RegionInv
  <2>2. CASE u # t
    BY <1>6, <1>7, <1>13, <2>1, <2>2 DEF MemoryInv, RegionInv
  <2>3. CASE u = t /\ s = new
    <3>1. /\ HeaderSize < s.size /\ s.offset + s.size <= BufferSize
          /\ n.header[m.buffer[u] + s.offset] = s.offset
      BY <1>2, <1>13, <2>3
    <3>2. \A q \in n.regions[u] : s # q => Apart(s.offset, s.size, q.offset, q.size)
      BY <1>2, <1>13, <2>3
    <3> QED BY <3>1, <3>2
  <2>4. CASE u = t /\ s # new
    <3>1. s \in m.regions[t]
      BY <1>13, <2>4
    <3>2. ASSUME NEW q \in n.regions[t], s # q
          PROVE  Apart(s.offset, s.size, q.offset, q.size)
      <4>1. CASE q = new
        BY <1>2, <3>1, <4>1 DEF Apart
      <4>2. CASE q # new
        BY <1>13, <3>1, <3>2, <4>2 DEF MemoryInv, RegionInv
      <4> QED BY <4>1, <4>2
    <3> QED BY <2>1, <2>4, <3>1, <3>2
  <2> QED BY <2>2, <2>3, <2>4
<1>16. Blocks(n, t) = Blocks(m, t) \cup {[at |-> ptr, size |-> size]}
  <2>1. new.size - HeaderSize = size /\ base + new.offset + HeaderSize = ptr
    BY <1>2, <1>3
  <2> HIDE DEF new
  <2> QED BY <1>9, <1>13, <2>1 DEF Blocks
<1>17. ASSUME NEW u \in Threads \ {t} PROVE Blocks(n, u) = Blocks(m, u)
  BY <1>9, <1>13 DEF Blocks
<1>18. ASSUME NEW b \in Blocks(m, t) PROVE b.at # ptr
  <2>1. ASSUME NEW s \in m.regions[t], b.at = base + s.offset + HeaderSize PROVE b.at # ptr
    <3>1. s.offset # o /\ s.offset \in Nat
      <4>1. base + s.offset # base + o
        BY <1>4, <1>5
      <4> QED BY <4>1, HeaderCell
    <3> QED BY <1>2, <1>3, <2>1, <3>1
  <2>2. ASSUME NEW c \in m.heap, b.at = c.at PROVE b.at # ptr
    <3>1. Apart(c.at, c.size, base, BufferSize)
      BY DEF MemoryInv, LayoutInv
    <3>2. c.at \in Nat /\ c.size \in Nat /\ c.size >= 1
      BY MemoryFields, BlockFields DEF MemoryInv
    <3> QED BY <1>2, <1>3, <2>2, <3>1, <3>2 DEF Apart
  <2> QED BY <2>1, <2>2, InBlocks
<1>19. {b \in Blocks(m, t) : b.at # Null} = Blocks(m, t)
  BY BlockPlaces
<1>20. ptr \in Cell /\ ptr # Null
  <2>1. ptr \in Int /\ 1 <= ptr /\ ptr <= Cells
    BY <1>2, <1>3, SizesAssumption
  <2> HIDE DEF ptr
  <2> QED BY <2>1, CellFacts
<1>21. ptr \notin Pointers(m, t)
  BY <1>18 DEF Pointers
<1> HIDE DEF ptr
<1>22. Exchange(m, n, t, Null, ptr, size)
  BY <1>16, <1>17, <1>19, <1>20, <1>21 DEF Exchange
<1> QED BY <1>8, <1>11, <1>14, <1>15, <1>20, <1>22 DEF MemoryInv

\* What finds no room in the buffer gets a block of its own, if there is room for one.
LEMMA FromHeapFacts ==
  ASSUME NEW m, MemoryInv(m), NEW t \in Threads, NEW size \in Nat, size >= 1,
         NEW r \in FromHeap(m, t, size)
  PROVE  /\ MemoryInv(r.mem) /\ r.ptr \in Cell \cup {Null}
         /\ Exchange(m, r.mem, t, Null, r.ptr, size)
<1>1. CASE Room(m, size) = {}
  <2>1. r.mem = m /\ r.ptr = Null
    BY <1>1 DEF FromHeap, Result
  <2>2. {b \in Blocks(m, t) : b.at # Null} = Blocks(m, t)
    BY BlockPlaces
  <2> QED BY <2>1, <2>2 DEF Exchange
<1>2. CASE Room(m, size) # {}
  <2>1. PICK a \in Room(m, size) :
          r = Result([Written(m, a, size) EXCEPT
                        !.heap = @ \cup {[at |-> a, size |-> size, by |-> t]}], a)
    BY <1>2 DEF FromHeap
  <2> DEFINE w == Written(m, a, size)
             new == [at |-> a, size |-> size, by |-> t]
             n == [w EXCEPT !.heap = @ \cup {new}]
  <2>2. /\ a \in Cell /\ a \in Nat /\ a + size - 1 <= Cells
        /\ \A u \in Threads : m.buffer[u] # Null => Apart(a, size, m.buffer[u], BufferSize)
        /\ \A b \in m.heap : Apart(a, size, b.at, b.size)
    BY RoomFacts
  <2>3. MemoryInv(w) /\ SameBlocks(m, w)
    <3>1. ASSUME NEW u \in Threads, NEW s \in m.regions[u]
          PROVE  m.buffer[u] + s.offset \notin Range(a, size)
      <4>1. /\ m.buffer[u] \in Nat /\ s.offset \in Nat /\ s.size \in Nat /\ s.size >= 1
            /\ s.offset + s.size <= BufferSize /\ m.buffer[u] # Null
        BY HeaderCell, SizesAssumption
      <4> QED BY <2>2, <4>1, SizesAssumption DEF Apart, Range
    <3> QED BY <3>1, WrittenFacts
  <2>4. w.buffer = m.buffer /\ w.regions = m.regions /\ w.heap = m.heap
    BY MemoryFields DEF MemoryInv, Written
  <2>5. r.mem = n /\ r.ptr = a
    BY <2>1 DEF Result
  <2> HIDE DEF w
  <2>6. /\ n.buffer = m.buffer /\ n.regions = m.regions /\ n.heap = m.heap \cup {new}
        /\ n.header = w.header
    BY <2>3, <2>4, MemoryFields DEF MemoryInv
  <2>7. new \in Block
    BY <2>2, CellFacts, SizesAssumption DEF Block
  <2>8. n \in Memory
    BY <2>3, <2>7 DEF MemoryInv, Memory
  <2> HIDE DEF n
  <2>9. LayoutInv(n)
    <3>1. \A b \in m.heap : b.at \in Nat /\ b.size \in Nat
      BY MemoryFields, BlockFields DEF MemoryInv
    <3>2. \A b \in m.heap : Apart(b.at, b.size, a, size)
      BY <2>2, <3>1 DEF Apart
    <3>3. new.at = a /\ new.size = size
      OBVIOUS
    <3> HIDE DEF new
    <3> QED BY <2>2, <2>6, <3>2, <3>3 DEF MemoryInv, LayoutInv
  <2>10. RegionInv(n)
    BY <2>3, <2>4, <2>6 DEF MemoryInv, RegionInv
  <2>11. Blocks(n, t) = Blocks(m, t) \cup {[at |-> a, size |-> size]}
    <3>1. new.at = a /\ new.size = size /\ new.by = t
      OBVIOUS
    <3> HIDE DEF new
    <3> QED BY <2>6, <3>1 DEF Blocks
  <2>12. ASSUME NEW u \in Threads \ {t} PROVE Blocks(n, u) = Blocks(m, u)
    <3>1. new.by = t
      OBVIOUS
    <3> HIDE DEF new
    <3> QED BY <2>6, <3>1 DEF Blocks
  <2>13. ASSUME NEW b \in Blocks(m, t) PROVE b.at # a
    <3>1. ASSUME NEW s \in m.regions[t], b.at = m.buffer[t] + s.offset + HeaderSize
          PROVE  b.at # a
      <4>1. /\ m.buffer[t] \in Nat /\ s.offset \in Nat /\ s.size \in Nat /\ HeaderSize < s.size
            /\ s.offset + s.size <= BufferSize /\ m.buffer[t] # Null
        BY HeaderCell
      <4> QED BY <2>2, <3>1, <4>1, SizesAssumption DEF Apart
    <3>2. ASSUME NEW c \in m.heap, b.at = c.at PROVE b.at # a
      <4>1. c.at \in Nat /\ c.size \in Nat /\ c.size >= 1
        BY MemoryFields, BlockFields DEF MemoryInv
      <4> QED BY <2>2, <3>2, <4>1 DEF Apart
    <3> QED BY <3>1, <3>2, InBlocks
  <2>14. {b \in Blocks(m, t) : b.at # Null} = Blocks(m, t)
    BY BlockPlaces
  <2>15. a \notin Pointers(m, t) /\ a # Null
    BY <2>2, <2>13, CellFacts DEF Pointers
  <2>16. Exchange(m, n, t, Null, a, size)
    BY <2>11, <2>12, <2>14, <2>15 DEF Exchange
  <2> QED BY <2>2, <2>5, <2>8, <2>9, <2>10, <2>16 DEF MemoryInv
<1> QED BY <1>1, <1>2

LEMMA SameExchange ==
  ASSUME NEW l, NEW m, NEW n, SameBlocks(l, m), NEW t \in Threads, NEW ptr, NEW size,
         Exchange(m, n, t, Null, ptr, size)
  PROVE  Exchange(l, n, t, Null, ptr, size)
BY DEF SameBlocks, Exchange, Pointers

\* A pointer that malloc returns is that of a block which nobody has.
LEMMA MallocFacts ==
  ASSUME NEW m, MemoryInv(m), NEW t \in Threads, NEW size \in Nat,
         NEW r \in Malloc(m, t, size)
  PROVE  /\ MemoryInv(r.mem) /\ r.ptr \in Cell \cup {Null}
         /\ Exchange(m, r.mem, t, Null, r.ptr, size)
<1>1. CASE size = 0
  <2>1. PICK n \in Constructed(m, t) : r = Result(n, Null)
    BY <1>1 DEF Malloc
  <2>2. MemoryInv(n) /\ SameBlocks(m, n)
    BY ConstructedFacts
  <2>3. {b \in Blocks(m, t) : b.at # Null} = Blocks(m, t)
    BY BlockPlaces
  <2> QED BY <2>1, <2>2, <2>3 DEF Exchange, SameBlocks, Result
<1>2. CASE size # 0
  <2>1. PICK n \in Constructed(m, t) :
          r \in FromBuffer(n, t, size, HeaderSize + size) \cup FromHeap(n, t, size)
    BY <1>2 DEF Malloc
  <2>2. MemoryInv(n) /\ n.buffer[t] # Null /\ SameBlocks(m, n)
    BY ConstructedFacts
  <2>3. /\ MemoryInv(r.mem) /\ r.ptr \in Cell \cup {Null}
        /\ Exchange(n, r.mem, t, Null, r.ptr, size)
    BY <1>2, <2>1, <2>2, FromBufferFacts, FromHeapFacts
  <2> QED BY <2>2, <2>3, SameExchange
<1> QED BY <1>1, <1>2

\* Two blocks of different places.
LEMMA HeapOutside ==
  ASSUME NEW m, MemoryInv(m), NEW c \in m.heap, NEW t \in Threads
  PROVE  /\ c.at \in Nat /\ c.size \in Nat /\ c.size >= 1
         /\ ~InBuffer(m, t, c.at)
         /\ \A r \in m.regions[t] : c.at # m.buffer[t] + r.offset + HeaderSize
<1>1. c.at \in Nat /\ c.size \in Nat /\ c.size >= 1
  BY MemoryFields, BlockFields DEF MemoryInv
<1>2. ASSUME m.buffer[t] # Null
      PROVE  /\ m.buffer[t] \in Nat /\ Apart(c.at, c.size, m.buffer[t], BufferSize)
  BY <1>2, MemoryFields, CellFacts DEF MemoryInv, LayoutInv
<1>3. ~InBuffer(m, t, c.at)
  BY <1>1, <1>2, SizesAssumption DEF InBuffer, Apart
<1>4. ASSUME NEW r \in m.regions[t] PROVE c.at # m.buffer[t] + r.offset + HeaderSize
  <2>1. /\ m.buffer[t] # Null /\ m.buffer[t] \in Nat /\ r.offset \in Nat /\ r.size \in Nat
        /\ HeaderSize < r.size /\ r.offset + r.size <= BufferSize
    BY HeaderCell
  <2> QED BY <1>1, <1>2, <2>1, SizesAssumption DEF Apart
<1> QED BY <1>1, <1>3, <1>4

LEMMA FewerRegions ==
  ASSUME NEW m, MemoryInv(m), NEW t \in Threads, NEW S \in SUBSET m.regions[t]
  PROVE  MemoryInv([m EXCEPT !.regions[t] = S])
<1> DEFINE n == [m EXCEPT !.regions[t] = S]
<1>1. /\ n.buffer = m.buffer /\ n.heap = m.heap /\ n.header = m.header
      /\ n.regions = [m.regions EXCEPT ![t] = S]
      /\ m.regions \in [Threads -> SUBSET Region]
  BY MemoryFields DEF MemoryInv
<1>2. n \in Memory
  BY <1>1 DEF MemoryInv, Memory
<1> HIDE DEF n
<1>3. /\ n.regions[t] = S /\ \A u \in Threads : u # t => n.regions[u] = m.regions[u]
      /\ \A u \in Threads : n.regions[u] \subseteq m.regions[u]
  BY <1>1
<1>4. LayoutInv(n)
  BY <1>1, <1>3 DEF MemoryInv, LayoutInv
<1>5. RegionInv(n)
  BY <1>1, <1>3 DEF MemoryInv, RegionInv
<1> QED BY <1>2, <1>4, <1>5 DEF MemoryInv, n

\* free finds the block of its pointer, and no other.
LEMMA FreeFacts ==
  ASSUME NEW m, MemoryInv(m), NEW t \in Threads, NEW ptr, NEW size,
         ptr # Null => ptr \in Pointers(m, t)
  PROVE  MemoryInv(Free(m, t, ptr)) /\ Exchange(m, Free(m, t, ptr), t, ptr, Null, size)
<1>1. CASE ptr = Null
  <2>1. {b \in Blocks(m, t) : b.at # Null} = Blocks(m, t)
    BY BlockPlaces
  <2> QED BY <1>1, <2>1 DEF Free, Exchange
<1>2. ASSUME NEW r \in m.regions[t], ptr = m.buffer[t] + r.offset + HeaderSize
      PROVE  MemoryInv(Free(m, t, ptr)) /\ Exchange(m, Free(m, t, ptr), t, ptr, Null, size)
  <2> DEFINE base == m.buffer[t]
             S == {s \in m.regions[t] : s.offset # r.offset}
             k == [m EXCEPT !.regions[t] = S]
             n == Written(k, base + r.offset, HeaderSize)
  <2>1. /\ base \in Nat /\ base # Null /\ r.offset \in Nat /\ r.size \in Nat
        /\ HeaderSize < r.size /\ r.offset + r.size <= BufferSize
        /\ HeaderSize \in Nat /\ HeaderSize >= 1 /\ BufferSize \in Nat
    BY HeaderCell, SizesAssumption
  <2>2. InBuffer(m, t, ptr) /\ ptr # Null /\ ptr - HeaderSize = base + r.offset
    BY <1>2, <2>1, NullAssumption DEF InBuffer
  <2>3. m.header[base + r.offset] = r.offset
    BY DEF MemoryInv, RegionInv
  <2>4. Free(m, t, ptr) = [Written(m, base + r.offset, HeaderSize) EXCEPT !.regions[t] = S]
    BY <2>2, <2>3, MemoryFields DEF Free, MemoryInv, Written
  <2>5. MemoryInv(k) /\ k.regions = [m.regions EXCEPT ![t] = S]
        /\ k.buffer = m.buffer /\ k.heap = m.heap /\ k.header = m.header
    BY FewerRegions, MemoryFields DEF MemoryInv
  <2>6. Free(m, t, ptr) = n
    BY <2>4, MemoryFields DEF MemoryInv, Written
  <2>7. /\ k.regions[t] = S /\ \A u \in Threads : u # t => k.regions[u] = m.regions[u]
    BY <2>5, MemoryFields DEF MemoryInv
  <2>8. ASSUME NEW u \in Threads, NEW s \in k.regions[u]
        PROVE  k.buffer[u] + s.offset \notin Range(base + r.offset, HeaderSize)
    <3>1. \A q \in k.regions[t] : Apart(r.offset, HeaderSize, q.offset, q.size)
      <4> SUFFICES ASSUME NEW q \in k.regions[t]
                   PROVE  Apart(r.offset, HeaderSize, q.offset, q.size)
        OBVIOUS
      <4>1. q \in m.regions[t] /\ q # r
        BY <2>7
      <4>2. Apart(r.offset, r.size, q.offset, q.size) /\ q.offset \in Nat /\ q.size \in Nat
        BY <4>1, HeaderCell DEF MemoryInv, RegionInv
      <4> QED BY <2>1, <4>2 DEF Apart
    <3>2. /\ k.buffer[t] = base /\ k.buffer[t] # Null
          /\ r.offset + HeaderSize <= BufferSize
      BY <2>1, <2>5
    <3> HIDE DEF k
    <3> QED BY <2>1, <2>5, <3>1, <3>2, GapFacts
  <2>9. MemoryInv(n) /\ SameBlocks(k, n)
    <3> HIDE DEF k
    <3> QED BY <2>5, <2>8, WrittenFacts
  <2> HIDE DEF n, k
  <2>10. Blocks(k, t) = {b \in Blocks(m, t) : b.at # ptr}
    <3>1. ASSUME NEW s \in m.regions[t]
          PROVE  s \in S <=> base + s.offset + HeaderSize # ptr
      <4>1. s.offset \in Nat
        BY HeaderCell
      <4> QED BY <1>2, <2>1, <4>1
    <3>2. \A c \in m.heap : c.at # ptr
      BY <1>2, HeapOutside
    <3>3. S \subseteq m.regions[t]
      OBVIOUS
    <3> HIDE DEF S
    <3> QED BY <2>5, <2>7, <3>1, <3>2, <3>3 DEF Blocks
  <2>11. ASSUME NEW u \in Threads \ {t} PROVE Blocks(k, u) = Blocks(m, u)
    BY <2>5, <2>7 DEF Blocks
  <2> QED BY <2>2, <2>6, <2>9, <2>10, <2>11 DEF Exchange, SameBlocks
<1>3. ASSUME NEW c \in m.heap, c.by = t, ptr = c.at
      PROVE  MemoryInv(Free(m, t, ptr)) /\ Exchange(m, Free(m, t, ptr), t, ptr, Null, size)
  <2> DEFINE H == {b \in m.heap : b.at # ptr}
             n == [m EXCEPT !.heap = H]
  <2>1. ~InBuffer(m, t, ptr) /\ ptr # Null
    BY <1>3, HeapOutside, NullAssumption
  <2>2. Free(m, t, ptr) = n
    BY <2>1 DEF Free
  <2>3. n.buffer = m.buffer /\ n.regions = m.regions /\ n.header = m.header /\ n.heap = H
    BY MemoryFields DEF MemoryInv
  <2>4. n \in Memory
    BY <2>3 DEF MemoryInv, Memory
  <2> HIDE DEF n
  <2>5. MemoryInv(n)
    BY <2>3, <2>4 DEF MemoryInv, LayoutInv, RegionInv
  <2>6. ASSUME NEW b \in m.heap, b.at = ptr PROVE b = c
    <3>1. b # c => Apart(b.at, b.size, c.at, c.size)
      BY DEF MemoryInv, LayoutInv
    <3> QED BY <1>3, <2>6, <3>1, HeapOutside DEF Apart
  <2>7. Blocks(n, t) = {b \in Blocks(m, t) : b.at # ptr}
    <3>1. \A r \in m.regions[t] : m.buffer[t] + r.offset + HeaderSize # ptr
      BY <1>3, HeapOutside
    <3> QED BY <2>3, <3>1 DEF Blocks
  <2>8. ASSUME NEW u \in Threads \ {t} PROVE Blocks(n, u) = Blocks(m, u)
    BY <1>3, <2>3, <2>6 DEF Blocks
  <2> QED BY <2>1, <2>2, <2>5, <2>7, <2>8 DEF Exchange
<1>4. ASSUME ptr # Null
      PROVE  \/ \E r \in m.regions[t] : ptr = m.buffer[t] + r.offset + HeaderSize
             \/ \E c \in m.heap : c.by = t /\ ptr = c.at
  <2>1. PICK b \in Blocks(m, t) : ptr = b.at
    BY <1>4 DEF Pointers
  <2> QED BY <2>1, InBlocks
<1> QED BY <1>1, <1>2, <1>3, <1>4

\* What native code writes to a block that the thread has, up to its end, stays in it.
LEMMA NativeWriteFacts ==
  ASSUME NEW m, MemoryInv(m), NEW t \in Threads, NEW b \in Blocks(m, t),
         NEW n \in Nat, n <= b.size
  PROVE  MemoryInv(Written(m, b.at, n)) /\ SameBlocks(m, Written(m, b.at, n))
<1> SUFFICES ASSUME NEW u \in Threads, NEW s \in m.regions[u]
             PROVE  m.buffer[u] + s.offset \notin Range(b.at, n)
  BY WrittenFacts
<1>1. /\ m.buffer[u] \in Nat /\ m.buffer[u] # Null /\ s.offset \in Nat /\ s.size \in Nat
      /\ HeaderSize < s.size /\ s.offset + s.size <= BufferSize
      /\ HeaderSize \in Nat /\ HeaderSize >= 1 /\ BufferSize \in Nat
  BY HeaderCell, SizesAssumption
<1>2. ASSUME NEW r \in m.regions[t],
             b = [at |-> m.buffer[t] + r.offset + HeaderSize, size |-> r.size - HeaderSize]
      PROVE  m.buffer[u] + s.offset \notin Range(b.at, n)
  <2>1. /\ m.buffer[t] \in Nat /\ m.buffer[t] # Null /\ r.offset \in Nat /\ r.size \in Nat
        /\ HeaderSize < r.size /\ r.offset + r.size <= BufferSize
    BY HeaderCell
  <2>2. b.at = m.buffer[t] + r.offset + HeaderSize /\ n <= r.size - HeaderSize
    BY <1>2
  <2>3. CASE u # t
    <3>1. Apart(m.buffer[t], BufferSize, m.buffer[u], BufferSize)
      BY <1>1, <2>1, <2>3 DEF MemoryInv, LayoutInv
    <3> QED BY <1>1, <2>1, <2>2, <3>1 DEF Apart, Range
  <2>4. CASE u = t /\ s # r
    <3>1. Apart(r.offset, r.size, s.offset, s.size)
      BY <2>4 DEF MemoryInv, RegionInv
    <3> QED BY <1>1, <2>1, <2>2, <2>4, <3>1 DEF Apart, Range
  <2>5. CASE u = t /\ s = r
    BY <1>1, <2>1, <2>2, <2>5 DEF Range
  <2> QED BY <2>3, <2>4, <2>5
<1>3. ASSUME NEW c \in m.heap, b = [at |-> c.at, size |-> c.size]
      PROVE  m.buffer[u] + s.offset \notin Range(b.at, n)
  <2>1. Apart(c.at, c.size, m.buffer[u], BufferSize)
    BY <1>1 DEF MemoryInv, LayoutInv
  <2>2. c.at \in Nat /\ c.size \in Nat /\ b.at = c.at /\ n <= c.size
    BY <1>3, HeapOutside
  <2> QED BY <1>1, <2>1, <2>2 DEF Apart, Range
<1> QED BY <1>2, <1>3, InBlocks

\* The end of a thread takes its own buffer only.
LEMMA DestroyedFacts ==
  ASSUME NEW m, MemoryInv(m), NEW t \in Threads, m.buffer[t] # Null
  PROVE  /\ MemoryInv(Destroyed(m, t))
         /\ \A u \in Threads \ {t} : Blocks(Destroyed(m, t), u) = Blocks(m, u)
         /\ Blocks(Destroyed(m, t), t) \subseteq Blocks(m, t)
<1> DEFINE k == [m EXCEPT !.regions[t] = {}]
           w == Written(k, m.buffer[t], BufferSize)
           n == [w EXCEPT !.buffer[t] = Null]
<1>1. /\ MemoryInv(k)
      /\ k.buffer = m.buffer /\ k.heap = m.heap
      /\ k.regions[t] = {} /\ \A u \in Threads : u # t => k.regions[u] = m.regions[u]
  BY FewerRegions, MemoryFields DEF MemoryInv
<1>2. /\ Destroyed(m, t) = n
      /\ w.regions = k.regions /\ w.buffer = k.buffer /\ w.heap = k.heap
  <2>1. m = [buffer |-> m.buffer, regions |-> m.regions, heap |-> m.heap, header |-> m.header]
    BY MemoryFields DEF MemoryInv
  <2> DEFINE header == [c \in Cell |-> IF c \in Range(m.buffer[t], BufferSize) THEN Null
                                       ELSE m.header[c]]
             regions == [m.regions EXCEPT ![t] = {}]
             buffer == [m.buffer EXCEPT ![t] = Null]
  <2>2. Written(m, m.buffer[t], BufferSize) = [m EXCEPT !.header = header]
    BY DEF Written
  <2>3. k = [buffer |-> m.buffer, regions |-> regions, heap |-> m.heap, header |-> m.header]
    BY <2>1
  <2>4. w = [k EXCEPT !.header = header]
    BY <2>3 DEF Written
  <2> HIDE DEF header, regions, k, w
  <2>5. w = [buffer |-> m.buffer, regions |-> regions, heap |-> m.heap, header |-> header]
    BY <2>3, <2>4
  <2>6. Written(m, m.buffer[t], BufferSize)
          = [buffer |-> m.buffer, regions |-> m.regions, heap |-> m.heap, header |-> header]
    BY <2>1, <2>2
  <2>7. n = [buffer |-> buffer, regions |-> regions, heap |-> m.heap, header |-> header]
    BY <2>5
  <2>8. Destroyed(m, t)
          = [buffer |-> buffer, regions |-> regions, heap |-> m.heap, header |-> header]
    <3> DEFINE r == [buffer |-> m.buffer, regions |-> m.regions, heap |-> m.heap,
                     header |-> header]
    <3>1. Destroyed(m, t) = [r EXCEPT !.buffer[t] = Null, !.regions[t] = {}]
      BY <2>6 DEF Destroyed
    <3>2. [r EXCEPT !.buffer[t] = Null] = [r EXCEPT !.buffer = buffer]
      BY Zenon
    <3> QED BY <3>1, <3>2 DEF regions
  <2> QED BY <2>3, <2>5, <2>7, <2>8
<1> HIDE DEF k
<1>3. ASSUME NEW u \in Threads, NEW s \in k.regions[u]
      PROVE  k.buffer[u] + s.offset \notin Range(m.buffer[t], BufferSize)
  <2>1. /\ k.buffer[u] \in Nat /\ k.buffer[u] # Null /\ s.offset \in Nat /\ s.size \in Nat
        /\ HeaderSize < s.size /\ s.offset + s.size <= BufferSize
    BY <1>1, HeaderCell
  <2>2. u # t /\ m.buffer[t] \in Nat
    BY <1>1, MemoryFields, CellFacts DEF MemoryInv
  <2>3. Apart(m.buffer[t], BufferSize, k.buffer[u], BufferSize)
    BY <1>1, <2>1, <2>2 DEF MemoryInv, LayoutInv
  <2> QED BY <2>1, <2>2, <2>3, SizesAssumption DEF Apart, Range
<1>4. MemoryInv(w) /\ SameBlocks(k, w)
  BY <1>1, <1>3, WrittenFacts
<1> HIDE DEF w
<1>5. /\ n.buffer = [w.buffer EXCEPT ![t] = Null]
      /\ n.regions = w.regions /\ n.heap = w.heap /\ n.header = w.header
  BY <1>4, MemoryFields DEF MemoryInv
<1>6. n \in Memory
  BY <1>4 DEF MemoryInv, Memory
<1> HIDE DEF n
<1>7. /\ n.buffer[t] = Null /\ \A u \in Threads : u # t => n.buffer[u] = m.buffer[u]
      /\ n.regions[t] = {} /\ \A u \in Threads : u # t => n.regions[u] = m.regions[u]
      /\ n.heap = m.heap
  BY <1>1, <1>2, <1>4, <1>5, MemoryFields DEF MemoryInv
<1>8. LayoutInv(n)
  BY <1>7 DEF MemoryInv, LayoutInv
<1>9. RegionInv(n)
  <2> SUFFICES ASSUME NEW u \in Threads, NEW s \in n.regions[u]
               PROVE  /\ HeaderSize < s.size /\ s.offset + s.size <= BufferSize
                      /\ n.header[n.buffer[u] + s.offset] = s.offset
                      /\ \A q \in n.regions[u] : s # q => Apart(s.offset, s.size, q.offset, q.size)
    BY DEF RegionInv
  <2>1. u # t
    BY <1>7
  <2>2. n.buffer[u] = w.buffer[u] /\ n.regions[u] = w.regions[u]
    BY <1>1, <1>2, <1>7, <2>1
  <2> QED BY <1>4, <1>5, <2>2 DEF MemoryInv, RegionInv
<1>10. \A u \in Threads \ {t} : Blocks(n, u) = Blocks(m, u)
  BY <1>7 DEF Blocks
<1>11. Blocks(n, t) \subseteq Blocks(m, t)
  BY <1>7 DEF Blocks
<1> QED BY <1>2, <1>6, <1>8, <1>9, <1>10, <1>11 DEF MemoryInv

LEMMA FreshFacts == MemoryInv(Fresh) /\ \A t \in Threads : Blocks(Fresh, t) = {}
<1>1. Fresh \in Memory
  BY DEF Fresh, Memory
<1>2. /\ Fresh.heap = {} /\ \A t \in Threads : Fresh.buffer[t] = Null /\ Fresh.regions[t] = {}
  BY DEF Fresh
<1>3. LayoutInv(Fresh) /\ RegionInv(Fresh)
  BY <1>2 DEF LayoutInv, RegionInv
<1> QED BY <1>1, <1>2, <1>3 DEF MemoryInv, Blocks

-----------------------------------------------------------------------------
(***************************************************************************)
(* The stacks of the threads.                                              *)
(***************************************************************************)
FramesInv(t) ==
  \A i \in 1 .. Depth(t) : FrameInv(t, stack[t][i]) /\ SizeInv(t, stack[t][i])

ThreadInv(t) == HoldInv(t) /\ FramesInv(t)

EarlySteps == {"Convert", "Marshal", "Native"}

LEMMA InvParts ==
  MarshallingInv <=> TypeOK /\ MemoryInv(mem) /\ \A t \in Threads : ThreadInv(t)
BY DEF MarshallingInv, ThreadInv, FramesInv

LEMMA FrameFields ==
  ASSUME NEW f \in Frame
  PROVE  /\ f.next \in Nat
         /\ f.step \in {"Convert", "Marshal", "Native", "Cleanup", "Finally",
                        "Arguments", "Managed", "Result"}
         /\ f.args \in Seq(Cell \cup {Null}) /\ f.lengths \in Seq(Nat)
         /\ f.result \in Cell \cup {Null, Foreign}
         /\ Len(f.args) \in Nat
         /\ \A i \in 1 .. Len(f.args) : f.args[i] \in Cell \cup {Null}
         /\ f.sig \in (UNION {Calls[t] : t \in Threads}) \cup Callbacks
         /\ f = [sig |-> f.sig, step |-> f.step, next |-> f.next, args |-> f.args,
                 lengths |-> f.lengths, result |-> f.result]
BY DEF Frame

LEMMA SignatureFacts ==
  /\ \A t \in Threads : \A sig \in Calls[t] :
       /\ sig.args \in Seq(ArgumentKinds) /\ sig.result \in ResultKinds
       /\ sig.shared \in BOOLEAN /\ Len(sig.args) \in Nat
       /\ \A i \in 1 .. Len(sig.args) : sig.args[i] \in ArgumentKinds
  /\ \A sig \in Callbacks :
       /\ sig.args \in Seq({"plain", "value"}) /\ sig.result \in {"plain", "text", "array"}
       /\ Len(sig.args) \in Nat
       /\ DOMAIN sig.args = 1 .. Len(sig.args)
       /\ \A i \in 1 .. Len(sig.args) : sig.args[i] \in {"plain", "value"}
<1>1. ASSUME NEW t \in Threads, NEW sig \in Calls[t]
      PROVE  /\ sig.args \in Seq(ArgumentKinds) /\ sig.result \in ResultKinds
             /\ sig.shared \in BOOLEAN
  BY SignaturesAssumption
<1>2. ASSUME NEW sig \in Callbacks
      PROVE  sig.args \in Seq({"plain", "value"}) /\ sig.result \in {"plain", "text", "array"}
  BY SignaturesAssumption
<1> QED BY <1>1, <1>2

LEMMA UpdateFacts ==
  ASSUME TypeOK, NEW t \in Threads, stack[t] # <<>>, NEW f \in Frame, Update(t, f)
  PROVE  /\ Depth(t) \in Nat /\ Depth(t) >= 1 /\ Top(t) = stack[t][Depth(t)]
         /\ Top(t) \in Frame
         /\ stack' \in [Threads -> Seq(Frame)]
         /\ Len(stack'[t]) = Depth(t) /\ stack'[t][Depth(t)] = f
         /\ \A i \in 1 .. Depth(t) : i # Depth(t) => stack'[t][i] = stack[t][i]
         /\ \A u \in Threads : u # t => stack'[u] = stack[u]
<1>1. stack \in [Threads -> Seq(Frame)] /\ stack[t] \in Seq(Frame)
  BY DEF TypeOK
<1>2. Depth(t) \in Nat /\ Depth(t) >= 1 /\ Top(t) = stack[t][Depth(t)] /\ Top(t) \in Frame
  BY <1>1 DEF Depth, Top
<1>3. stack' = [stack EXCEPT ![t] = [stack[t] EXCEPT ![Depth(t)] = f]]
  BY <1>1 DEF Update
<1>4. /\ stack'[t] = [stack[t] EXCEPT ![Depth(t)] = f]
      /\ \A u \in Threads : u # t => stack'[u] = stack[u]
  BY <1>1, <1>3
<1>5. [stack[t] EXCEPT ![Depth(t)] = f] \in Seq(Frame)
  BY <1>1, <1>2 DEF Depth
<1>6. /\ Len(stack'[t]) = Depth(t) /\ stack'[t][Depth(t)] = f
      /\ \A i \in 1 .. Depth(t) : i # Depth(t) => stack'[t][i] = stack[t][i]
  BY <1>1, <1>2, <1>4 DEF Depth
<1> QED BY <1>1, <1>2, <1>3, <1>4, <1>5, <1>6

LEMMA PushFacts ==
  ASSUME TypeOK, NEW t \in Threads, NEW f \in Frame, Push(t, f)
  PROVE  /\ Depth(t) \in Nat
         /\ stack' \in [Threads -> Seq(Frame)]
         /\ Len(stack'[t]) = Depth(t) + 1 /\ stack'[t][Depth(t) + 1] = f
         /\ \A i \in 1 .. Depth(t) : stack'[t][i] = stack[t][i]
         /\ \A u \in Threads : u # t => stack'[u] = stack[u]
<1>1. stack \in [Threads -> Seq(Frame)] /\ stack[t] \in Seq(Frame)
  BY DEF TypeOK
<1>2. stack' = [stack EXCEPT ![t] = Append(stack[t], f)]
  BY DEF Push
<1>3. /\ stack'[t] = Append(stack[t], f)
      /\ \A u \in Threads : u # t => stack'[u] = stack[u]
  BY <1>1, <1>2
<1> QED BY <1>1, <1>2, <1>3 DEF Depth

LEMMA PrefixFacts ==
  ASSUME NEW S, NEW s \in Seq(S), Len(s) >= 1
  PROVE  /\ SubSeq(s, 1, Len(s) - 1) \in Seq(S)
         /\ Len(SubSeq(s, 1, Len(s) - 1)) = Len(s) - 1
         /\ \A i \in 1 .. Len(s) - 1 : SubSeq(s, 1, Len(s) - 1)[i] = s[i]
<1> DEFINE p == SubSeq(s, 1, Len(s) - 1)
<1>1. Len(s) \in Nat /\ Len(s) - 1 \in Nat
  OBVIOUS
<1>3. \A i \in 1 .. Len(s) - 1 : p[i] = s[i]
  BY <1>1
<1>4. \A i \in 1 .. Len(s) - 1 : s[i] \in S
  BY <1>1
<1>5. p = [i \in 1 .. Len(s) - 1 |-> s[i]]
  BY <1>1
<1>6. p \in Seq(S)
  BY <1>1, <1>4, <1>5
<1>2. Len(p) = Len(s) - 1
  <2> DEFINE n == Len(s) - 1
  <2>1. n \in Nat /\ p = [i \in 1 .. n |-> s[i]]
    BY <1>1, <1>5
  <2> HIDE DEF n, p
  <2>2. Len(p) = n
    BY <2>1
  <2> QED BY <2>2 DEF n
<1> QED BY <1>2, <1>3, <1>6

LEMMA PopFacts ==
  ASSUME TypeOK, NEW t \in Threads, stack[t] # <<>>, Pop(t)
  PROVE  /\ Depth(t) \in Nat /\ Depth(t) >= 1 /\ Top(t) = stack[t][Depth(t)]
         /\ Top(t) \in Frame
         /\ stack' \in [Threads -> Seq(Frame)]
         /\ Len(stack'[t]) = Depth(t) - 1
         /\ \A i \in 1 .. Depth(t) - 1 : stack'[t][i] = stack[t][i]
         /\ \A u \in Threads : u # t => stack'[u] = stack[u]
<1>1. stack \in [Threads -> Seq(Frame)] /\ stack[t] \in Seq(Frame)
  BY DEF TypeOK
<1>2. Depth(t) \in Nat /\ Depth(t) >= 1 /\ Top(t) = stack[t][Depth(t)] /\ Top(t) \in Frame
  BY <1>1 DEF Depth, Top
<1>3. /\ stack'[t] = SubSeq(stack[t], 1, Depth(t) - 1)
      /\ stack' = [stack EXCEPT ![t] = SubSeq(stack[t], 1, Depth(t) - 1)]
      /\ \A u \in Threads : u # t => stack'[u] = stack[u]
  BY <1>1 DEF Pop, Depth
<1>4. /\ SubSeq(stack[t], 1, Depth(t) - 1) \in Seq(Frame)
      /\ Len(SubSeq(stack[t], 1, Depth(t) - 1)) = Depth(t) - 1
      /\ \A i \in 1 .. Depth(t) - 1 : SubSeq(stack[t], 1, Depth(t) - 1)[i] = stack[t][i]
  BY <1>1, <1>2, PrefixFacts DEF Depth
<1>5. stack' \in [Threads -> Seq(Frame)]
  BY <1>1, <1>3, <1>4
<1> QED BY <1>2, <1>3, <1>4, <1>5

-----------------------------------------------------------------------------
(***************************************************************************)
(* One step, one pointer.                                                  *)
(***************************************************************************)
LEMMA OtherThread ==
  ASSUME NEW u \in Threads, ThreadInv(u), stack'[u] = stack[u],
         Blocks(mem', u) = Blocks(mem, u), u \in quiet' => u \in quiet
  PROVE  ThreadInv(u)'
<1>1. Depth(u)' = Depth(u) /\ Pointers(mem', u) = Pointers(mem, u)
  BY DEF Depth, Pointers
<1>2. HoldInv(u)'
  <2>1. HoldInv(u)
    BY DEF ThreadInv
  <2>2. ASSUME NEW i \in 1 .. Depth(u), NEW k \in Places(stack[u][i]),
               Pointer(stack[u][i], k) # Null
        PROVE  /\ Pointer(stack[u][i], k) \in Pointers(mem, u)
               /\ \A j \in 1 .. Depth(u) : \A l \in Places(stack[u][j]) :
                    Pointer(stack[u][j], l) = Pointer(stack[u][i], k) => j = i /\ l = k
    BY <2>1, <2>2 DEF HoldInv
  <2>3. ASSUME u \in quiet', NEW a \in Pointers(mem, u)
        PROVE  \E i \in 1 .. Depth(u) : \E k \in Places(stack[u][i]) : Pointer(stack[u][i], k) = a
    BY <2>1, <2>3 DEF HoldInv
  <2>4. ASSUME u \in quiet', NEW i \in 1 .. Depth(u), stack[u][i].step \notin CallSteps
        PROVE  ~PassesValues(stack[u][i].sig)
    BY <2>1, <2>4 DEF HoldInv
  <2>5. ASSUME NEW i \in 1 .. Depth(u), NEW k \in Places(stack'[u][i]),
               Pointer(stack'[u][i], k) # Null
        PROVE  /\ Pointer(stack'[u][i], k) \in Pointers(mem', u)
               /\ \A j \in 1 .. Depth(u) : \A l \in Places(stack'[u][j]) :
                    Pointer(stack'[u][j], l) = Pointer(stack'[u][i], k) => j = i /\ l = k
    BY <1>1, <2>2, <2>5
  <2>6. ASSUME u \in quiet', NEW a \in Pointers(mem', u)
        PROVE  \E i \in 1 .. Depth(u) : \E k \in Places(stack'[u][i]) :
                 Pointer(stack'[u][i], k) = a
    BY <1>1, <2>3, <2>6
  <2>7. ASSUME u \in quiet', NEW i \in 1 .. Depth(u), stack'[u][i].step \notin CallSteps
        PROVE  ~PassesValues(stack'[u][i].sig)
    BY <2>4, <2>7
  <2> QED BY <1>1, <2>5, <2>6, <2>7 DEF HoldInv
<1>3. FramesInv(u)'
  BY <1>1 DEF ThreadInv, FramesInv, SizeInv
<1> QED BY <1>2, <1>3 DEF ThreadInv

LEMMA ExchangePointers ==
  ASSUME NEW m, NEW n, NEW t, NEW old, NEW new, NEW size, Exchange(m, n, t, old, new, size)
  PROVE  /\ \A a \in Pointers(n, t) : a = new \/ (a \in Pointers(m, t) /\ a # old)
         /\ \A a \in Pointers(m, t) : a # old => a \in Pointers(n, t)
         /\ new # Null => new \in Pointers(n, t)
         /\ new # Null => new \notin Pointers(m, t)
         /\ new = Null => \A a \in Pointers(n, t) : a \in Pointers(m, t) /\ a # old
<1>1. CASE new = Null
  BY <1>1 DEF Exchange, Pointers
<1>2. CASE new # Null
  <2>1. Blocks(n, t) = {b \in Blocks(m, t) : b.at # old} \cup {[at |-> new, size |-> size]}
    BY <1>2 DEF Exchange
  <2>2. [at |-> new, size |-> size].at = new
    OBVIOUS
  <2> QED BY <1>2, <2>1, <2>2 DEF Exchange, Pointers
<1> QED BY <1>1, <1>2

LEMMA PointersNotNull ==
  ASSUME NEW m, MemoryInv(m), NEW t \in Threads PROVE Null \notin Pointers(m, t)
BY BlockPlaces DEF Pointers

\* What the frame f keeps of g, when a step changes the pointer k and its length.
Carried(f, g, k, size) ==
  f.step \in EarlySteps =>
    \A i \in 1 .. Len(f.args) : f.args[i] # Null /\ f.sig.args[i] \in Buffered =>
      /\ Count(f, i) \in {0, f.lengths[i]}
      /\ IF i = k THEN f.lengths[i] = size
                  ELSE g.step \in EarlySteps /\ f.lengths[i] = g.lengths[i]

\* The frame f differs from g in the pointer k at most.
Differs(f, g, k) ==
  /\ Len(f.args) = Len(g.args) /\ f.sig = g.sig
  /\ k \in Places(f)
  /\ \A l \in Places(f) : l # k => Pointer(f, l) = Pointer(g, l)
  /\ f.step \in CallSteps <=> g.step \in CallSteps

LEMMA HoldUpdate ==
  ASSUME TypeOK, MemoryInv(mem), NEW t \in Threads, HoldInv(t),
         stack[t] # <<>>, NEW f \in Frame, Update(t, f), NEW k, NEW size,
         Differs(f, Top(t), k),
         Exchange(mem, mem', t, Pointer(Top(t), k), Pointer(f, k), size),
         quiet' = quiet
  PROVE  HoldInv(t)'
<1> DEFINE d == Depth(t)
           old == Pointer(Top(t), k)
           new == Pointer(f, k)
           P(i, l) == Pointer(stack[t][i], l)
           Q(i, l) == Pointer(stack'[t][i], l)
<1>1. /\ d \in Nat /\ d >= 1 /\ Top(t) = stack[t][d] /\ Len(stack'[t]) = d
      /\ stack'[t][d] = f /\ \A i \in 1 .. d : i # d => stack'[t][i] = stack[t][i]
  BY UpdateFacts
<1>2. \A i \in 1 .. d : Places(stack'[t][i]) = Places(stack[t][i])
  BY <1>1 DEF Differs, Places
<1>3. /\ \A i \in 1 .. d : \A l \in Places(stack[t][i]) :
           ~(i = d /\ l = k) => Q(i, l) = P(i, l)
      /\ Q(d, k) = new /\ P(d, k) = old /\ k \in Places(stack[t][d])
  BY <1>1, <1>2 DEF Differs
<1>4. /\ \A a \in Pointers(mem', t) : a = new \/ (a \in Pointers(mem, t) /\ a # old)
      /\ \A a \in Pointers(mem, t) : a # old => a \in Pointers(mem', t)
      /\ new # Null => new \in Pointers(mem', t)
      /\ new # Null => new \notin Pointers(mem, t)
      /\ new = Null => \A a \in Pointers(mem', t) : a \in Pointers(mem, t) /\ a # old
  BY ExchangePointers
<1>5. /\ \A i \in 1 .. d : \A l \in Places(stack[t][i]) : P(i, l) # Null =>
           /\ P(i, l) \in Pointers(mem, t)
           /\ \A j \in 1 .. d : \A q \in Places(stack[t][j]) :
                P(j, q) = P(i, l) => j = i /\ q = l
  BY DEF HoldInv
<1>6. d \in 1 .. d
  BY <1>1
<1> HIDE DEF P, Q, old, new, d
<1>7. ASSUME NEW i \in 1 .. d, NEW l \in Places(stack[t][i]), Q(i, l) # Null
      PROVE  /\ Q(i, l) \in Pointers(mem', t)
             /\ \A j \in 1 .. d : \A q \in Places(stack[t][j]) :
                  Q(j, q) = Q(i, l) => j = i /\ q = l
  <2>1. CASE i = d /\ l = k
    BY <1>3, <1>4, <1>5, <1>7, <2>1
  <2>2. CASE ~(i = d /\ l = k)
    <3>1. Q(i, l) = P(i, l) /\ P(i, l) \in Pointers(mem, t)
      BY <1>3, <1>5, <1>7, <2>2
    <3>2. P(i, l) # old
      BY <1>3, <1>5, <1>6, <1>7, <2>2, <3>1
    <3>3. \A j \in 1 .. d : \A q \in Places(stack[t][j]) :
            Q(j, q) = Q(i, l) => j = i /\ q = l
      BY <1>3, <1>4, <1>5, <1>7, <3>1
    <3> QED BY <1>4, <3>1, <3>2, <3>3
  <2> QED BY <2>1, <2>2
<1>8. ASSUME t \in quiet, NEW a \in Pointers(mem', t)
      PROVE  \E i \in 1 .. d : \E l \in Places(stack[t][i]) : Q(i, l) = a
  <2>1. CASE a = new /\ new # Null
    BY <1>3, <1>6, <2>1
  <2>2. CASE a \in Pointers(mem, t) /\ a # old
    <3>1. \E i \in 1 .. d : \E l \in Places(stack[t][i]) : P(i, l) = a
      BY <1>8, <2>2 DEF HoldInv, P, d
    <3> QED BY <1>3, <2>2, <3>1
  <2> QED BY <1>4, <2>1, <2>2
<1>9. ASSUME t \in quiet, NEW i \in 1 .. d, stack'[t][i].step \notin CallSteps
      PROVE  ~PassesValues(stack'[t][i].sig)
  <2>1. stack[t][i].step \notin CallSteps /\ stack'[t][i].sig = stack[t][i].sig
    BY <1>1, <1>9 DEF Differs
  <2> QED BY <1>9, <2>1 DEF HoldInv, d
<1>10. Depth(t)' = d
  BY <1>1 DEF Depth
<1>11. ASSUME NEW i \in 1 .. d, NEW l \in Places(stack'[t][i]), Pointer(stack'[t][i], l) # Null
       PROVE  /\ Pointer(stack'[t][i], l) \in Pointers(mem', t)
              /\ \A j \in 1 .. d : \A q \in Places(stack'[t][j]) :
                   Pointer(stack'[t][j], q) = Pointer(stack'[t][i], l) => j = i /\ q = l
  BY <1>2, <1>7, <1>11 DEF Q
<1>12. ASSUME t \in quiet, NEW a \in Pointers(mem', t)
       PROVE  \E i \in 1 .. d : \E l \in Places(stack'[t][i]) : Pointer(stack'[t][i], l) = a
  BY <1>2, <1>8, <1>12 DEF Q
<1> QED BY <1>9, <1>10, <1>11, <1>12 DEF HoldInv

LEMMA UpdateStep ==
  ASSUME MarshallingInv, NEW t \in Threads, stack[t] # <<>>, NEW f \in Frame, Update(t, f),
         NEW k, NEW size, Differs(f, Top(t), k), FrameInv(t, f), Carried(f, Top(t), k, size),
         MemoryInv(mem'),
         Exchange(mem, mem', t, Pointer(Top(t), k), Pointer(f, k), size),
         quiet' = quiet
  PROVE  MarshallingInv'
<1>1. TypeOK /\ MemoryInv(mem) /\ \A u \in Threads : ThreadInv(u)
  BY InvParts
<1>2. /\ Depth(t) \in Nat /\ Depth(t) >= 1 /\ Top(t) = stack[t][Depth(t)]
      /\ stack' \in [Threads -> Seq(Frame)]
      /\ Len(stack'[t]) = Depth(t) /\ stack'[t][Depth(t)] = f
      /\ \A i \in 1 .. Depth(t) : i # Depth(t) => stack'[t][i] = stack[t][i]
      /\ \A u \in Threads : u # t => stack'[u] = stack[u]
  BY <1>1, UpdateFacts
<1>3. TypeOK'
  BY <1>1, <1>2 DEF TypeOK, MemoryInv
<1>4. ASSUME NEW u \in Threads, u # t PROVE ThreadInv(u)'
  BY <1>1, <1>2, <1>4, OtherThread DEF Exchange
<1>5. HoldInv(t)'
  BY <1>1, HoldUpdate DEF ThreadInv
<1>6. ASSUME NEW i \in 1 .. Depth(t), NEW l \in 1 .. Len(stack[t][i].args),
             stack[t][i].args[l] # Null, ~(i = Depth(t) /\ l = k),
             stack[t][i].step \in EarlySteps, stack[t][i].sig.args[l] \in Buffered
      PROVE  [at |-> stack[t][i].args[l], size |-> stack[t][i].lengths[l]] \in Blocks(mem', t)
  <2> DEFINE b == [at |-> stack[t][i].args[l], size |-> stack[t][i].lengths[l]]
  <2>1. b \in Blocks(mem, t)
    BY <1>1, <1>6 DEF ThreadInv, FramesInv, SizeInv, EarlySteps
  <2>2. stack[t][i].args[l] # Pointer(Top(t), k)
    <3>1. /\ l \in Places(stack[t][i]) /\ Pointer(stack[t][i], l) = stack[t][i].args[l]
          /\ k \in Places(stack[t][Depth(t)]) /\ Depth(t) \in 1 .. Depth(t)
      <4>1. Len(stack[t][i].args) \in Nat
        BY <1>1, FrameFields DEF TypeOK, Depth
      <4> QED BY <1>2, <4>1 DEF Places, Pointer, Differs
    <3>2. Pointer(stack[t][Depth(t)], k) = Pointer(stack[t][i], l) => Depth(t) = i /\ k = l
      BY <1>1, <1>6, <3>1 DEF ThreadInv, HoldInv
    <3> QED BY <1>2, <1>6, <3>1, <3>2
  <2>3. b.at # Pointer(Top(t), k)
    BY <2>2
  <2> HIDE DEF b
  <2>4. b \in Blocks(mem', t)
    BY <2>1, <2>3 DEF Exchange
  <2> QED BY <2>4 DEF b
<1>7. SizeInv(t, f)'
  <2> SUFFICES ASSUME f.step \in EarlySteps, NEW i \in 1 .. Len(f.args), f.args[i] # Null,
                      f.sig.args[i] \in Buffered
               PROVE  /\ [at |-> f.args[i], size |-> f.lengths[i]] \in Blocks(mem', t)
                      /\ Count(f, i) \in {0, f.lengths[i]}
    BY DEF SizeInv, EarlySteps
  <2>0. i # 0 /\ i \in Places(f) /\ Len(f.args) \in Nat
    BY FrameFields DEF Places
  <2>1. Count(f, i) \in {0, f.lengths[i]}
    BY DEF Carried
  <2>2. CASE i = k
    <3>1. f.lengths[i] = size /\ Pointer(f, k) = f.args[i]
      BY <2>0, <2>2 DEF Carried, Pointer
    <3> QED BY <2>1, <3>1 DEF Exchange
  <2>3. CASE i # k
    <3>1. f.lengths[i] = Top(t).lengths[i] /\ Top(t).step \in EarlySteps
      BY <2>3 DEF Carried
    <3>2. f.args[i] = Top(t).args[i]
      BY <2>0, <2>3 DEF Differs, Pointer
    <3>3. Len(f.args) = Len(Top(t).args) /\ f.sig = Top(t).sig
      BY DEF Differs
    <3>4. [at |-> Top(t).args[i], size |-> Top(t).lengths[i]] \in Blocks(mem', t)
      BY <1>2, <1>6, <2>3, <3>1, <3>2, <3>3
    <3> QED BY <2>1, <3>1, <3>2, <3>4
  <2> QED BY <2>2, <2>3
<1>8. ASSUME NEW i \in 1 .. Depth(t)
      PROVE  FrameInv(t, stack[t][i])' /\ SizeInv(t, stack[t][i])'
  <2>1. CASE i = Depth(t)
    <3>1. stack'[t][i] = f
      BY <1>2, <2>1
    <3>2. SizeInv(t, stack[t][i])'
      BY <1>7, <3>1 DEF SizeInv
    <3> QED BY <3>1, <3>2 DEF FrameInv
  <2>2. CASE i # Depth(t)
    <3>1. stack'[t][i] = stack[t][i]
      BY <1>2, <2>2
    <3>2. FrameInv(t, stack[t][i]) /\ SizeInv(t, stack[t][i])
      BY <1>1 DEF ThreadInv, FramesInv
    <3>3. SizeInv(t, stack[t][i])'
      BY <1>6, <2>2, <3>1, <3>2 DEF SizeInv, EarlySteps
    <3> QED BY <3>1, <3>2, <3>3 DEF FrameInv
  <2> QED BY <2>1, <2>2
<1>9. Depth(t)' = Depth(t)
  BY <1>2 DEF Depth
<1>10. ThreadInv(t)'
  BY <1>5, <1>8, <1>9 DEF ThreadInv, FramesInv
<1>11. \A u \in Threads : ThreadInv(u)'
  BY <1>4, <1>10
<1> QED BY <1>3, <1>11 DEF MarshallingInv, ThreadInv, FramesInv

\* A step that leaves the memory and every pointer alone.
LEMMA StillStep ==
  ASSUME MarshallingInv, NEW t \in Threads, stack[t] # <<>>, NEW f \in Frame, Update(t, f),
         f.args = Top(t).args, f.lengths = Top(t).lengths, f.result = Top(t).result,
         f.sig = Top(t).sig, f.step \in CallSteps <=> Top(t).step \in CallSteps,
         f.step \in EarlySteps => Top(t).step \in EarlySteps,
         FrameInv(t, f), UNCHANGED <<mem, quiet>>
  PROVE  MarshallingInv'
<1>1. TypeOK /\ MemoryInv(mem) /\ \A u \in Threads : ThreadInv(u)
  BY InvParts
<1>2. /\ Depth(t) \in Nat /\ Depth(t) >= 1 /\ Top(t) = stack[t][Depth(t)]
      /\ stack' \in [Threads -> Seq(Frame)]
      /\ Len(stack'[t]) = Depth(t) /\ stack'[t][Depth(t)] = f
      /\ \A i \in 1 .. Depth(t) : i # Depth(t) => stack'[t][i] = stack[t][i]
      /\ \A u \in Threads : u # t => stack'[u] = stack[u]
  BY <1>1, UpdateFacts
<1>3. TypeOK' /\ MemoryInv(mem')
  BY <1>1, <1>2 DEF TypeOK
<1>4. ASSUME NEW u \in Threads, u # t PROVE ThreadInv(u)'
  BY <1>1, <1>2, <1>4, OtherThread
<1>5. Depth(t)' = Depth(t)
  BY <1>2 DEF Depth
<1>6. \A i \in 1 .. Depth(t) :
        /\ Places(stack'[t][i]) = Places(stack[t][i])
        /\ \A k \in Places(stack[t][i]) : Pointer(stack'[t][i], k) = Pointer(stack[t][i], k)
        /\ stack'[t][i].step \in CallSteps <=> stack[t][i].step \in CallSteps
        /\ stack'[t][i].sig = stack[t][i].sig
  BY <1>2 DEF Places, Pointer
<1>7. HoldInv(t)'
  <2>1. HoldInv(t)
    BY <1>1 DEF ThreadInv
  <2>2. ASSUME NEW i \in 1 .. Depth(t), NEW l \in Places(stack'[t][i]),
               Pointer(stack'[t][i], l) # Null
        PROVE  /\ Pointer(stack'[t][i], l) \in Pointers(mem, t)
               /\ \A j \in 1 .. Depth(t) : \A q \in Places(stack'[t][j]) :
                    Pointer(stack'[t][j], q) = Pointer(stack'[t][i], l) => j = i /\ q = l
    <3>1. l \in Places(stack[t][i]) /\ Pointer(stack'[t][i], l) = Pointer(stack[t][i], l)
      BY <1>6
    <3>2. /\ Pointer(stack[t][i], l) \in Pointers(mem, t)
          /\ \A j \in 1 .. Depth(t) : \A q \in Places(stack[t][j]) :
               Pointer(stack[t][j], q) = Pointer(stack[t][i], l) => j = i /\ q = l
      BY <2>1, <2>2, <3>1 DEF HoldInv
    <3> QED BY <1>6, <3>1, <3>2
  <2>3. ASSUME t \in quiet, NEW a \in Pointers(mem, t)
        PROVE  \E i \in 1 .. Depth(t) : \E l \in Places(stack'[t][i]) :
                 Pointer(stack'[t][i], l) = a
    BY <1>6, <2>1, <2>3 DEF HoldInv
  <2>4. ASSUME t \in quiet, NEW i \in 1 .. Depth(t), stack'[t][i].step \notin CallSteps
        PROVE  ~PassesValues(stack'[t][i].sig)
    BY <1>6, <2>1, <2>4 DEF HoldInv
  <2> QED BY <1>5, <2>2, <2>3, <2>4 DEF HoldInv
<1>8. ASSUME NEW i \in 1 .. Depth(t) PROVE FrameInv(t, stack[t][i])' /\ SizeInv(t, stack[t][i])'
  <2>1. FrameInv(t, stack[t][i]) /\ SizeInv(t, stack[t][i])
    BY <1>1 DEF ThreadInv, FramesInv
  <2>2. CASE i = Depth(t)
    <3>1. stack'[t][i] = f /\ stack[t][i] = Top(t)
      BY <1>2, <2>2
    <3>2. \A l : Count(f, l) = Count(Top(t), l)
      BY DEF Count
    <3>3. f.step \in EarlySteps =>
            \A l \in 1 .. Len(f.args) : f.args[l] # Null /\ f.sig.args[l] \in Buffered =>
              /\ [at |-> f.args[l], size |-> f.lengths[l]] \in Blocks(mem, t)
              /\ Count(f, l) \in {0, f.lengths[l]}
      BY <2>1, <3>1, <3>2 DEF SizeInv, EarlySteps
    <3>4. SizeInv(t, stack[t][i])'
      BY <3>1, <3>3 DEF SizeInv, EarlySteps
    <3> QED BY <3>1, <3>4 DEF FrameInv
  <2>3. CASE i # Depth(t)
    BY <1>2, <2>1, <2>3 DEF SizeInv, FrameInv
  <2> QED BY <2>2, <2>3
<1>9. ThreadInv(t)'
  BY <1>5, <1>7, <1>8 DEF ThreadInv, FramesInv
<1>10. \A u \in Threads : ThreadInv(u)'
  BY <1>4, <1>9
<1> QED BY <1>3, <1>10 DEF MarshallingInv, ThreadInv, FramesInv

\* A call or a callback ends, and frees its result or nothing.
LEMMA PopStep ==
  ASSUME MarshallingInv, NEW t \in Threads, stack[t] # <<>>, Pop(t), NEW old,
         old # Null => old = Top(t).result,
         MemoryInv(mem'), Exchange(mem, mem', t, old, Null, 0),
         quiet' \subseteq quiet,
         t \in quiet' => \A k \in Places(Top(t)) : Pointer(Top(t), k) \in {Null, old}
  PROVE  MarshallingInv'
<1>1. TypeOK /\ MemoryInv(mem) /\ \A u \in Threads : ThreadInv(u)
  BY InvParts
<1> DEFINE d == Depth(t)
<1>2. /\ d \in Nat /\ d >= 1 /\ Top(t) = stack[t][d] /\ Top(t) \in Frame
      /\ stack' \in [Threads -> Seq(Frame)]
      /\ Len(stack'[t]) = d - 1
      /\ \A i \in 1 .. d - 1 : stack'[t][i] = stack[t][i]
      /\ \A u \in Threads : u # t => stack'[u] = stack[u]
  BY <1>1, PopFacts
<1>3. TypeOK'
  BY <1>1, <1>2 DEF TypeOK, MemoryInv
<1>4. ASSUME NEW u \in Threads, u # t PROVE ThreadInv(u)'
  BY <1>1, <1>2, <1>4, OtherThread DEF Exchange
<1>5. Depth(t)' = d - 1 /\ d \in 1 .. d /\ \A i \in 1 .. d - 1 : i \in 1 .. d /\ i # d
  BY <1>2 DEF Depth
<1>6. /\ \A a \in Pointers(mem', t) : a \in Pointers(mem, t) /\ a # old
      /\ \A a \in Pointers(mem, t) : a # old => a \in Pointers(mem', t)
      /\ Null \notin Pointers(mem, t)
  BY <1>1, ExchangePointers, PointersNotNull
<1>7. HoldInv(t) /\ FramesInv(t)
  BY <1>1 DEF ThreadInv
<1>8. 0 \in Places(stack[t][d]) /\ Pointer(stack[t][d], 0) = Top(t).result
  BY <1>2, FrameFields DEF Places, Pointer
<1> HIDE DEF d
<1>9. ASSUME NEW i \in 1 .. d - 1, NEW l \in Places(stack[t][i]),
             Pointer(stack[t][i], l) # Null
      PROVE  Pointer(stack[t][i], l) # old
  <2>1. Pointer(stack[t][d], 0) = Pointer(stack[t][i], l) => d = i
    BY <1>5, <1>7, <1>8, <1>9 DEF HoldInv, d
  <2> QED BY <1>5, <1>8, <1>9, <2>1
<1>10. ASSUME NEW i \in 1 .. d - 1, NEW l \in Places(stack[t][i]),
              Pointer(stack[t][i], l) # Null
       PROVE  /\ Pointer(stack[t][i], l) \in Pointers(mem', t)
              /\ \A j \in 1 .. d - 1 : \A q \in Places(stack[t][j]) :
                   Pointer(stack[t][j], q) = Pointer(stack[t][i], l) => j = i /\ q = l
  <2>1. /\ Pointer(stack[t][i], l) \in Pointers(mem, t)
        /\ \A j \in 1 .. d : \A q \in Places(stack[t][j]) :
             Pointer(stack[t][j], q) = Pointer(stack[t][i], l) => j = i /\ q = l
    BY <1>5, <1>7, <1>10 DEF HoldInv, d
  <2> QED BY <1>5, <1>6, <1>9, <1>10, <2>1
<1>11. ASSUME t \in quiet', NEW a \in Pointers(mem', t)
       PROVE  \E i \in 1 .. d - 1 : \E l \in Places(stack[t][i]) : Pointer(stack[t][i], l) = a
  <2>1. PICK i \in 1 .. d : \E l \in Places(stack[t][i]) : Pointer(stack[t][i], l) = a
    BY <1>6, <1>7, <1>11 DEF HoldInv, d
  <2>2. i # d
    BY <1>2, <1>6, <1>11, <2>1 DEF d
  <2>3. i \in 1 .. d - 1
    BY <1>2, <2>2 DEF d
  <2> QED BY <2>1, <2>3
<1>12. ASSUME t \in quiet', NEW i \in 1 .. d - 1, stack[t][i].step \notin CallSteps
       PROVE  ~PassesValues(stack[t][i].sig)
  BY <1>5, <1>7, <1>12 DEF HoldInv, d
<1>13. HoldInv(t)'
  <2>0. \A i \in 1 .. d - 1 : stack'[t][i] = stack[t][i]
    BY <1>2
  <2>1. ASSUME NEW i \in 1 .. d - 1, NEW l \in Places(stack'[t][i]),
               Pointer(stack'[t][i], l) # Null
        PROVE  /\ Pointer(stack'[t][i], l) \in Pointers(mem', t)
               /\ \A j \in 1 .. d - 1 : \A q \in Places(stack'[t][j]) :
                    Pointer(stack'[t][j], q) = Pointer(stack'[t][i], l) => j = i /\ q = l
    BY <1>10, <2>0, <2>1
  <2>2. ASSUME t \in quiet', NEW a \in Pointers(mem', t)
        PROVE  \E i \in 1 .. d - 1 : \E l \in Places(stack'[t][i]) :
                 Pointer(stack'[t][i], l) = a
    BY <1>11, <2>0, <2>2
  <2>3. ASSUME t \in quiet', NEW i \in 1 .. d - 1, stack'[t][i].step \notin CallSteps
        PROVE  ~PassesValues(stack'[t][i].sig)
    BY <1>12, <2>0, <2>3
  <2> QED BY <1>5, <2>1, <2>2, <2>3 DEF HoldInv
<1>14. ASSUME NEW i \in 1 .. d - 1 PROVE FrameInv(t, stack[t][i])' /\ SizeInv(t, stack[t][i])'
  <2>1. FrameInv(t, stack[t][i]) /\ SizeInv(t, stack[t][i]) /\ stack'[t][i] = stack[t][i]
    BY <1>2, <1>5, <1>7 DEF FramesInv, d
  <2>2. ASSUME NEW l \in 1 .. Len(stack[t][i].args), stack[t][i].args[l] # Null
        PROVE  stack[t][i].args[l] # old
    <3>1. l \in Places(stack[t][i]) /\ Pointer(stack[t][i], l) = stack[t][i].args[l]
      <4>1. Len(stack[t][i].args) \in Nat
        BY <1>1, <1>5, FrameFields DEF TypeOK, Depth, d
      <4> QED BY <4>1 DEF Places, Pointer
    <3> QED BY <1>9, <2>2, <3>1
  <2>3. ASSUME NEW b \in Blocks(mem, t), b.at # old PROVE b \in Blocks(mem', t)
    BY <2>3 DEF Exchange
  <2> QED BY <2>1, <2>2, <2>3 DEF SizeInv, FrameInv
<1>15. ThreadInv(t)'
  BY <1>5, <1>13, <1>14 DEF ThreadInv, FramesInv
<1>16. \A u \in Threads : ThreadInv(u)'
  BY <1>4, <1>15
<1> QED BY <1>3, <1>16 DEF MarshallingInv, ThreadInv, FramesInv

\* A call or a callback begins, with nothing.
LEMMA PushStep ==
  ASSUME MarshallingInv, NEW t \in Threads, NEW f \in Frame, Push(t, f), FrameInv(t, f),
         \A k \in Places(f) : Pointer(f, k) = Null,
         mem' = mem, quiet' \subseteq quiet,
         t \in quiet' => f.step \in CallSteps \/ ~PassesValues(f.sig)
  PROVE  MarshallingInv'
<1>1. TypeOK /\ MemoryInv(mem) /\ \A u \in Threads : ThreadInv(u)
  BY InvParts
<1> DEFINE d == Depth(t)
<1>2. /\ d \in Nat
      /\ stack' \in [Threads -> Seq(Frame)]
      /\ Len(stack'[t]) = d + 1 /\ stack'[t][d + 1] = f
      /\ \A i \in 1 .. d : stack'[t][i] = stack[t][i]
      /\ \A u \in Threads : u # t => stack'[u] = stack[u]
  BY <1>1, PushFacts
<1>3. TypeOK' /\ MemoryInv(mem')
  BY <1>1, <1>2 DEF TypeOK
<1>4. ASSUME NEW u \in Threads, u # t PROVE ThreadInv(u)'
  BY <1>1, <1>2, <1>4, OtherThread
<1>5. Depth(t)' = d + 1 /\ \A i \in 1 .. d + 1 : i \in 1 .. d \/ i = d + 1
  BY <1>2 DEF Depth
<1>6. HoldInv(t) /\ FramesInv(t)
  BY <1>1 DEF ThreadInv
<1> HIDE DEF d
<1>7. ASSUME NEW i \in 1 .. d + 1, NEW l \in Places(stack'[t][i]),
             Pointer(stack'[t][i], l) # Null
      PROVE  /\ Pointer(stack'[t][i], l) \in Pointers(mem, t)
             /\ \A j \in 1 .. d + 1 : \A q \in Places(stack'[t][j]) :
                  Pointer(stack'[t][j], q) = Pointer(stack'[t][i], l) => j = i /\ q = l
  <2>1. i \in 1 .. d /\ stack'[t][i] = stack[t][i]
    BY <1>2, <1>5, <1>7
  <2>2. /\ Pointer(stack[t][i], l) \in Pointers(mem, t)
        /\ \A j \in 1 .. d : \A q \in Places(stack[t][j]) :
             Pointer(stack[t][j], q) = Pointer(stack[t][i], l) => j = i /\ q = l
    BY <1>6, <1>7, <2>1 DEF HoldInv, d
  <2> QED BY <1>2, <1>5, <1>7, <2>1, <2>2
<1>8. ASSUME t \in quiet', NEW a \in Pointers(mem, t)
      PROVE  \E i \in 1 .. d + 1 : \E l \in Places(stack'[t][i]) : Pointer(stack'[t][i], l) = a
  <2>1. PICK i \in 1 .. d : \E l \in Places(stack[t][i]) : Pointer(stack[t][i], l) = a
    BY <1>6, <1>8 DEF HoldInv, d
  <2>2. i \in 1 .. d + 1 /\ stack'[t][i] = stack[t][i]
    BY <1>2
  <2> QED BY <2>1, <2>2
<1>9. ASSUME t \in quiet', NEW i \in 1 .. d + 1, stack'[t][i].step \notin CallSteps
      PROVE  ~PassesValues(stack'[t][i].sig)
  BY <1>2, <1>5, <1>6, <1>9 DEF HoldInv, d
<1>10. HoldInv(t)'
  BY <1>5, <1>7, <1>8, <1>9 DEF HoldInv
<1>11. ASSUME NEW i \in 1 .. d + 1 PROVE FrameInv(t, stack[t][i])' /\ SizeInv(t, stack[t][i])'
  <2>1. CASE i = d + 1
    <3>1. stack'[t][i] = f
      BY <1>2, <2>1
    <3>2. \A l \in 1 .. Len(f.args) : f.args[l] = Null
      <4>1. Len(f.args) \in Nat
        BY FrameFields
      <4> QED BY <4>1 DEF Places, Pointer
    <3> QED BY <3>1, <3>2 DEF FrameInv, SizeInv
  <2>2. CASE i \in 1 .. d
    <3>1. FrameInv(t, stack[t][i]) /\ SizeInv(t, stack[t][i]) /\ stack'[t][i] = stack[t][i]
      BY <1>2, <1>6, <2>2 DEF FramesInv, d
    <3> QED BY <3>1 DEF FrameInv, SizeInv
  <2> QED BY <1>5, <2>1, <2>2
<1>12. ThreadInv(t)'
  BY <1>5, <1>10, <1>11 DEF ThreadInv, FramesInv
<1>13. \A u \in Threads : ThreadInv(u)'
  BY <1>4, <1>12
<1> QED BY <1>3, <1>13 DEF MarshallingInv, ThreadInv, FramesInv

-----------------------------------------------------------------------------
(***************************************************************************)
(* The actions.                                                            *)
(***************************************************************************)
RulesKept == {"NoArrayReference", "EqualLengths"} \subseteq Rules

LEMMA AtFacts ==
  ASSUME MarshallingInv, NEW t \in Threads, stack[t] # <<>>
  PROVE  /\ TypeOK /\ MemoryInv(mem) /\ HoldInv(t)
         /\ Depth(t) \in Nat /\ Depth(t) >= 1 /\ Top(t) = stack[t][Depth(t)]
         /\ Top(t) \in Frame /\ FrameInv(t, Top(t)) /\ SizeInv(t, Top(t))
         /\ Len(Top(t).sig.args) \in Nat
         /\ Len(Top(t).args) = Len(Top(t).sig.args) /\ Len(Top(t).lengths) = Len(Top(t).sig.args)
         /\ \A k \in Places(Top(t)) : Pointer(Top(t), k) # Null =>
              Pointer(Top(t), k) \in Pointers(mem, t)
<1>1. TypeOK /\ MemoryInv(mem) /\ HoldInv(t) /\ FramesInv(t)
  BY InvParts DEF ThreadInv
<1>2. /\ Depth(t) \in Nat /\ Depth(t) >= 1 /\ Top(t) = stack[t][Depth(t)]
      /\ Top(t) \in Frame
  <2>1. stack \in [Threads -> Seq(Frame)] /\ stack[t] \in Seq(Frame)
    BY <1>1 DEF TypeOK
  <2> QED BY <2>1 DEF Depth, Top
<1>3. Depth(t) \in 1 .. Depth(t)
  BY <1>2
<1>4. FrameInv(t, Top(t)) /\ SizeInv(t, Top(t))
  BY <1>1, <1>2, <1>3 DEF FramesInv
<1>5. Len(Top(t).args) = Len(Top(t).sig.args) /\ Len(Top(t).lengths) = Len(Top(t).sig.args)
  BY <1>4 DEF FrameInv
<1>6. Len(Top(t).args) \in Nat
  BY <1>2, FrameFields
<1>7. \A k \in Places(Top(t)) : Pointer(Top(t), k) # Null =>
        Pointer(Top(t), k) \in Pointers(mem, t)
  BY <1>1, <1>2, <1>3 DEF HoldInv
<1> QED BY <1>1, <1>2, <1>4, <1>5, <1>6, <1>7

\* A frame after the step of one argument.
WithArgument(g, i, p, length, next) ==
  [sig |-> g.sig, step |-> g.step, next |-> next, args |-> [g.args EXCEPT ![i] = p],
   lengths |-> [g.lengths EXCEPT ![i] = length], result |-> g.result]

\* f is such a frame.
Sets(f, g, i, p, length, next) ==
  /\ g \in Frame /\ i \in 1 .. Len(g.args) /\ Len(g.lengths) = Len(g.args)
  /\ p \in Cell \cup {Null} /\ length \in Nat /\ next \in Nat
  /\ f = WithArgument(g, i, p, length, next)

LEMMA WithArgumentFacts ==
  ASSUME NEW f, NEW g, NEW i, NEW p, NEW length, NEW next, Sets(f, g, i, p, length, next)
  PROVE  /\ f \in Frame
         /\ f.sig = g.sig /\ f.step = g.step /\ f.next = next /\ f.result = g.result
         /\ Len(f.args) = Len(g.args) /\ Len(f.lengths) = Len(g.lengths)
         /\ f.args[i] = p /\ \A j \in 1 .. Len(g.args) : j # i => f.args[j] = g.args[j]
         /\ f.lengths[i] = length
         /\ \A j \in 1 .. Len(g.args) : j # i => f.lengths[j] = g.lengths[j]
<1>0. /\ g \in Frame /\ i \in 1 .. Len(g.args) /\ Len(g.lengths) = Len(g.args)
      /\ p \in Cell \cup {Null} /\ length \in Nat /\ next \in Nat
      /\ f = WithArgument(g, i, p, length, next)
  BY DEF Sets
<1> DEFINE args == [g.args EXCEPT ![i] = p]
           lengths == [g.lengths EXCEPT ![i] = length]
<1>1. g.args \in Seq(Cell \cup {Null}) /\ g.lengths \in Seq(Nat) /\ Len(g.args) \in Nat
  BY <1>0, FrameFields
<1>2. /\ args \in Seq(Cell \cup {Null}) /\ Len(args) = Len(g.args)
      /\ args[i] = p /\ \A j \in 1 .. Len(g.args) : j # i => args[j] = g.args[j]
  BY <1>0, <1>1
<1>3. /\ lengths \in Seq(Nat) /\ Len(lengths) = Len(g.lengths)
      /\ lengths[i] = length /\ \A j \in 1 .. Len(g.args) : j # i => lengths[j] = g.lengths[j]
  BY <1>0, <1>1
<1> HIDE DEF args, lengths
<1>4. [sig |-> g.sig, step |-> g.step, next |-> next, args |-> args,
       lengths |-> lengths, result |-> g.result] \in Frame
  BY <1>0, <1>2, <1>3, FrameFields DEF Frame
<1> QED BY <1>0, <1>2, <1>3, <1>4 DEF WithArgument, args, lengths

\* The frame of a step of one argument: the step knows that it has been made.
LEMMA ArgumentFrame ==
  ASSUME NEW t \in Threads, NEW g \in Frame, FrameInv(t, g),
         NEW next, next = NextOf(g.sig, KindsOf(g.step), g.next + 1),
         g.step \in {"Convert", "Marshal", "Cleanup", "Finally", "Arguments"},
         g.next <= Len(g.sig.args),
         NEW p \in Cell \cup {Null}, g.step \in {"Cleanup", "Finally"} => p = Null,
         g.step = "Convert" /\ p # Null => g.sig.args[g.next] \in Buffered,
         NEW length \in Nat
  PROVE  /\ next \in Nat /\ g.next \in 1 .. Len(g.args)
         /\ WithArgument(g, g.next, p, length, next) \in Frame
         /\ FrameInv(t, WithArgument(g, g.next, p, length, next))
         /\ Differs(WithArgument(g, g.next, p, length, next), g, g.next)
<1> DEFINE i == g.next
           K == KindsOf(g.step)
<1>0. PICK f : f = WithArgument(g, i, p, length, next)
  OBVIOUS
<1>1. /\ Len(g.sig.args) = Len(g.args) /\ Len(g.lengths) = Len(g.args) /\ Len(g.args) \in Nat
      /\ i \in 1 .. Len(g.args) /\ i \in Nat /\ g.sig.args[i] \in K
  BY FrameFields DEF FrameInv
<1>2. /\ next \in Nat /\ next >= i + 1
      /\ next <= Len(g.args) => g.sig.args[next] \in K
      /\ \A j \in i + 1 .. Len(g.args) : g.sig.args[j] \in K => next <= j
  BY <1>1, NextOfFacts
<1>10. i = g.next
  OBVIOUS
<1> HIDE DEF i
<1>3. /\ f \in Frame
      /\ f.sig = g.sig /\ f.step = g.step /\ f.next = next /\ f.result = g.result
      /\ Len(f.args) = Len(g.args) /\ Len(f.lengths) = Len(g.lengths)
      /\ f.args[i] = p /\ \A j \in 1 .. Len(g.args) : j # i => f.args[j] = g.args[j]
  <2>1. Sets(f, g, i, p, length, next)
    BY <1>0, <1>1, <1>2 DEF Sets
  <2> QED BY <2>1, WithArgumentFacts
<1>4. /\ g.step = "Convert" => K = Arrays
      /\ g.step = "Finally" => K = Buffered
      /\ g.step \in {"Marshal", "Cleanup"} => K = {"text"}
      /\ g.step = "Arguments" => K = {"value"}
  BY DEF KindsOf
<1> HIDE DEF K
<1>5. ASSUME NEW j \in 1 .. Len(f.args), f.args[j] # Null PROVE MayHold(f, j)
  <2>1. CASE j = i
    <3>1. g.step \in {"Convert", "Marshal", "Arguments"} /\ j < next
      BY <1>1, <1>2, <1>3, <1>5, <2>1
    <3>2. g.step = "Convert" => g.sig.args[i] \in Buffered
      BY <1>3, <1>5, <1>10, <2>1
    <3>3. /\ g.step = "Marshal" => g.sig.args[i] = "text"
          /\ g.step = "Arguments" => g.sig.args[i] = "value"
      BY <1>1, <1>4
    <3> QED BY <1>3, <2>1, <3>1, <3>2, <3>3 DEF MayHold
  <2>2. CASE j # i
    <3>1. MayHold(g, j)
      BY <1>3, <1>5, <2>2 DEF FrameInv
    <3>2. CASE g.step \in {"Convert", "Marshal", "Arguments"}
      <4>1. j < i => j < next
        BY <1>1, <1>2
      <4> QED BY <1>3, <1>10, <3>1, <3>2, <4>1 DEF MayHold
    <3>3. CASE g.step \in {"Cleanup", "Finally"}
      <4>1. j >= i /\ g.sig.args[j] \in K => j >= next
        BY <1>1, <1>2, <1>3, <2>2
      <4> QED BY <1>3, <1>4, <1>10, <3>1, <3>3, <4>1 DEF MayHold, Buffered
    <3> QED BY <3>2, <3>3
  <2> QED BY <2>1, <2>2
<1>6. f.result # Null => MayReturn(f)
  BY <1>3 DEF FrameInv, MayReturn
<1>7. f.next >= 1 /\ (f.next <= Len(f.sig.args) => f.sig.args[f.next] \in KindsOf(f.step))
  BY <1>1, <1>2, <1>3 DEF K
<1>8. FrameInv(t, f)
  BY <1>1, <1>3, <1>5, <1>6, <1>7 DEF FrameInv
<1>9. Differs(f, g, i)
  BY <1>1, <1>3 DEF Differs, Places, Pointer
<1> QED BY <1>0, <1>1, <1>2, <1>3, <1>8, <1>9, <1>10

\* The frame with other arguments or lengths, before the step goes on.
Holding(g, args, lengths) ==
  [sig |-> g.sig, step |-> g.step, next |-> g.next, args |-> args, lengths |-> lengths,
   result |-> g.result]

LEMMA Advanced ==
  ASSUME NEW g, NEW i, i = g.next, NEW p, NEW length, NEW K, NEW args, NEW lengths,
         args = [g.args EXCEPT ![i] = p], lengths = [g.lengths EXCEPT ![i] = length],
         NEW h, h = Holding(g, args, lengths),
         NEW next, next = NextOf(g.sig, K, i + 1)
  PROVE  Advance(h, K) = WithArgument(g, i, p, length, next)
<1>1. h.sig = g.sig /\ h.next = i
  BY DEF Holding
<1>2. Advance(h, K) = [h EXCEPT !.next = next]
  BY <1>1 DEF Advance
<1>3. [h EXCEPT !.next = next]
        = [sig |-> g.sig, step |-> g.step, next |-> next, args |-> args, lengths |-> lengths,
           result |-> g.result]
  BY DEF Holding
<1> QED BY <1>2, <1>3 DEF WithArgument

\* A step of one argument, once its lengths are known to be right.
LEMMA ArgumentStep ==
  ASSUME MarshallingInv, NEW t \in Threads, stack[t] # <<>>, NEW g, g = Top(t), Pending(t),
         g.step \in {"Convert", "Marshal", "Cleanup", "Finally", "Arguments"},
         NEW p \in Cell \cup {Null}, g.step \in {"Cleanup", "Finally"} => p = Null,
         g.step = "Convert" /\ p # Null => g.sig.args[g.next] \in Buffered,
         NEW length \in Nat, NEW size, NEW f,
         f = WithArgument(g, g.next, p, length, NextOf(g.sig, KindsOf(g.step), g.next + 1)),
         Update(t, f), Carried(f, g, g.next, size),
         MemoryInv(mem'), Exchange(mem, mem', t, g.args[g.next], p, size), quiet' = quiet
  PROVE  MarshallingInv'
<1>1. /\ g \in Frame /\ FrameInv(t, g) /\ g.next <= Len(g.sig.args)
      /\ Len(g.lengths) = Len(g.args)
  BY AtFacts DEF Pending
<1>2. PICK next : next = NextOf(g.sig, KindsOf(g.step), g.next + 1)
  OBVIOUS
<1>3. /\ next \in Nat /\ g.next \in 1 .. Len(g.args) /\ f \in Frame /\ FrameInv(t, f)
      /\ Differs(f, g, g.next)
  BY <1>1, <1>2, ArgumentFrame
<1>4. f.args[g.next] = p
  <2>1. Sets(f, g, g.next, p, length, next)
    BY <1>1, <1>2, <1>3 DEF Sets
  <2> QED BY <2>1, WithArgumentFacts
<1>5. g.next # 0
  BY <1>3
<1>6. Exchange(mem, mem', t, Pointer(Top(t), g.next), Pointer(f, g.next), size)
  BY <1>4, <1>5 DEF Pointer
<1> QED BY <1>3, <1>6, UpdateStep

\* ConvertArgument: a shared length is that of the first array, which has been
\* converted before the others.
LEMMA ConvertArgumentStep ==
  ASSUME RulesKept, MarshallingInv, NEW t \in Threads, NEW length \in Nat,
         ConvertArgument(t, length)
  PROVE  MarshallingInv'
<1>1. PICK g : g = Top(t)
  OBVIOUS
<1>2. stack[t] # <<>> /\ g.step = "Convert" /\ Pending(t)
  BY <1>1 DEF ConvertArgument, At
<1>3. /\ g \in Frame /\ MemoryInv(mem) /\ FrameInv(t, g) /\ SizeInv(t, g)
      /\ Len(g.sig.args) \in Nat /\ Len(g.args) = Len(g.sig.args)
      /\ Len(g.lengths) = Len(g.sig.args) /\ g.next <= Len(g.sig.args)
      /\ g.next \in Nat /\ g.next >= 1
  BY <1>1, <1>2, AtFacts, FrameFields DEF Pending, FrameInv
<1>4. PICK i : i = g.next
  OBVIOUS
<1>5. i \in 1 .. Len(g.args) /\ g.sig.args[i] \in Arrays /\ g.args[i] = Null
  <2>1. i \in 1 .. Len(g.args)
    BY <1>3, <1>4
  <2>2. g.sig.args[i] \in Arrays
    BY <1>2, <1>3, <1>4 DEF FrameInv, KindsOf
  <2>3. g.args[i] # Null => MayHold(g, i)
    BY <1>3, <2>1 DEF FrameInv
  <2>4. ~MayHold(g, i)
    BY <1>2, <1>3, <1>4, <2>2 DEF MayHold, Buffered, Arrays
  <2> QED BY <2>1, <2>2, <2>3, <2>4
<1>6. PICK r \in IF Fills(g, length) THEN Malloc(mem, t, length) ELSE {Result(mem, Null)} :
        /\ mem' = r.mem
        /\ Update(t, Advance([g EXCEPT !.args[i] = r.ptr, !.lengths[i] = length], Arrays))
  BY <1>1, <1>4 DEF ConvertArgument
<1>7. quiet' = quiet /\ (Count(g, i) = length \/ Count(g, i) = 0)
  BY <1>1, <1>4 DEF ConvertArgument, RulesKept
<1>8. PICK p : p = r.ptr
  OBVIOUS
<1>9. MemoryInv(mem') /\ p \in Cell \cup {Null} /\ Exchange(mem, mem', t, Null, p, length)
  <2>1. CASE ~Fills(g, length)
    <3>1. mem' = mem /\ p = Null
      BY <1>6, <1>8, <2>1 DEF Result
    <3>2. {b \in Blocks(mem, t) : b.at # Null} = Blocks(mem, t)
      BY <1>3, BlockPlaces
    <3> QED BY <1>3, <3>1, <3>2 DEF Exchange
  <2>2. CASE Fills(g, length)
    <3>1. r \in Malloc(mem, t, length)
      BY <1>6, <2>2
    <3> QED BY <1>3, <1>6, <1>8, <3>1, MallocFacts
  <2> QED BY <2>1, <2>2
<1>10. PICK next : next = NextOf(g.sig, KindsOf(g.step), i + 1)
  OBVIOUS
<1>20. p # Null => g.sig.args[i] \in Buffered
  BY <1>4, <1>6, <1>8 DEF Fills, Result
<1>11. PICK f : f = WithArgument(g, i, p, length, next)
  OBVIOUS
<1>12. Update(t, f)
  <2>1. KindsOf(g.step) = Arrays
    BY <1>2 DEF KindsOf
  <2>2. PICK args : args = [g.args EXCEPT ![i] = p]
    OBVIOUS
  <2>3. PICK lengths : lengths = [g.lengths EXCEPT ![i] = length]
    OBVIOUS
  <2>4. PICK h : h = [g EXCEPT !.args[i] = r.ptr, !.lengths[i] = length]
    OBVIOUS
  <2>5. h = Holding(g, args, lengths)
    <3>1. PICK k : k = [g EXCEPT !.args[i] = r.ptr]
      OBVIOUS
    <3>2. k = Holding(g, args, g.lengths)
      <4>1. g = [sig |-> g.sig, step |-> g.step, next |-> g.next, args |-> g.args,
                 lengths |-> g.lengths, result |-> g.result]
        BY <1>3, FrameFields
      <4> QED BY <1>8, <2>2, <3>1, <4>1 DEF Holding
    <3>3. h = [k EXCEPT !.lengths[i] = length]
      BY <2>4, <3>1
    <3> QED BY <2>3, <3>2, <3>3 DEF Holding
  <2>6. Advance(h, Arrays) = f
    BY <1>4, <1>10, <1>11, <2>1, <2>2, <2>3, <2>5, Advanced
  <2> QED BY <1>6, <2>4, <2>6
<1>13. next \in Nat
  BY <1>3, <1>4, <1>10, NextOfFacts
<1>14. /\ f.sig = g.sig /\ f.step = g.step
       /\ Len(f.args) = Len(g.args) /\ Len(f.lengths) = Len(g.lengths)
       /\ f.args[i] = p /\ \A j \in 1 .. Len(g.args) : j # i => f.args[j] = g.args[j]
       /\ f.lengths[i] = length
       /\ \A j \in 1 .. Len(g.args) : j # i => f.lengths[j] = g.lengths[j]
  <2>1. Sets(f, g, i, p, length, next)
    BY <1>3, <1>5, <1>9, <1>11, <1>13 DEF Sets
  <2> QED BY <2>1, WithArgumentFacts
<1>15. PICK first : first = NextOf(g.sig, Arrays, 1)
  OBVIOUS
<1>16. /\ first \in Nat /\ first >= 1 /\ first <= Len(g.sig.args) + 1
       /\ \A j \in 1 .. Len(g.sig.args) : g.sig.args[j] \in Arrays => first <= j
  BY <1>3, <1>15, NextOfFacts
<1>17. /\ \A j : Count(f, j) = IF g.sig.shared THEN f.lengths[first] ELSE f.lengths[j]
       /\ \A j : Count(g, j) = IF g.sig.shared THEN g.lengths[first] ELSE g.lengths[j]
  BY <1>14, <1>15 DEF Count
<1>18. ASSUME NEW j \in 1 .. Len(f.args), f.args[j] # Null, f.sig.args[j] \in Buffered
       PROVE  /\ Count(f, j) \in {0, f.lengths[j]}
              /\ IF j = i THEN f.lengths[j] = length
                          ELSE g.step \in EarlySteps /\ f.lengths[j] = g.lengths[j]
  <2>1. j \in 1 .. Len(g.args) /\ g.sig.args[j] \in Buffered /\ first <= j /\ first <= i
        /\ first \in 1 .. Len(g.args)
    BY <1>3, <1>5, <1>14, <1>16, <1>18 DEF Arrays
  <2>2. j # i => f.lengths[j] = g.lengths[j] /\ Count(g, j) \in {0, g.lengths[j]} /\ j < i
    <3>1. ASSUME j # i PROVE g.args[j] # Null
      BY <1>14, <1>18, <2>1, <3>1
    <3>2. ASSUME j # i PROVE Count(g, j) \in {0, g.lengths[j]}
      BY <1>2, <1>3, <2>1, <3>1, <3>2 DEF SizeInv
    <3>3. ASSUME j # i PROVE j < i
      <4>1. MayHold(g, j)
        BY <1>3, <2>1, <3>1, <3>3 DEF FrameInv
      <4> QED BY <1>2, <1>4, <2>1, <4>1 DEF MayHold, Buffered
    <3> QED BY <1>14, <2>1, <3>2, <3>3
  <2>3. Count(f, j) \in {0, f.lengths[j]}
    <3>1. CASE ~g.sig.shared
      BY <1>17, <3>1
    <3>2. CASE g.sig.shared /\ first = j
      BY <1>17, <3>2
    <3>3. CASE g.sig.shared /\ first # j
      <4>1. first # i
        BY <1>16, <1>5, <2>1, <2>2, <3>3
      <4>2. f.lengths[first] = g.lengths[first]
        BY <1>14, <2>1, <4>1
      <4>3. Count(f, j) = Count(g, j) /\ Count(g, j) = Count(g, i)
        BY <1>17, <3>3, <4>2
      <4> QED BY <1>7, <1>14, <2>2, <4>3
    <3> QED BY <3>1, <3>2, <3>3
  <2> QED BY <1>2, <1>14, <2>2, <2>3 DEF EarlySteps
<1>19. Carried(f, g, i, length)
  BY <1>18 DEF Carried
<1> QED BY <1>1, <1>2, <1>4, <1>5, <1>7, <1>9, <1>10, <1>11, <1>12, <1>19, <1>20, ArgumentStep

\* A step of an argument whose length the function is not told, or no longer.
LEMMA UnsizedStep ==
  ASSUME MarshallingInv, NEW t \in Threads, stack[t] # <<>>, NEW g, g = Top(t), Pending(t),
         g.step \in {"Marshal", "Cleanup", "Finally", "Arguments"},
         NEW p \in Cell \cup {Null}, g.step \in {"Cleanup", "Finally"} => p = Null,
         NEW size, NEW K, K = KindsOf(g.step), NEW i, i = g.next,
         Update(t, Advance([g EXCEPT !.args[i] = p], K)),
         MemoryInv(mem'), Exchange(mem, mem', t, g.args[i], p, size), quiet' = quiet
  PROVE  MarshallingInv'
<1>1. /\ g \in Frame /\ FrameInv(t, g) /\ SizeInv(t, g) /\ Len(g.sig.args) \in Nat
      /\ Len(g.args) = Len(g.sig.args) /\ Len(g.lengths) = Len(g.sig.args)
      /\ i <= Len(g.sig.args) /\ i \in Nat /\ i >= 1
  BY AtFacts, FrameFields DEF Pending, FrameInv
<1>2. i \in 1 .. Len(g.args) /\ g.sig.args[i] \in K
  BY <1>1 DEF FrameInv
<1>3. PICK length : length = g.lengths[i]
  OBVIOUS
<1>4. length \in Nat
  BY <1>1, <1>2, <1>3, FrameFields
<1>5. PICK next : next = NextOf(g.sig, K, i + 1)
  OBVIOUS
<1>6. next \in Nat
  BY <1>1, <1>5, NextOfFacts
<1>7. PICK f : f = WithArgument(g, i, p, length, next)
  OBVIOUS
<1>8. Update(t, f)
  <2>1. PICK args : args = [g.args EXCEPT ![i] = p]
    OBVIOUS
  <2>2. PICK h : h = [g EXCEPT !.args[i] = p]
    OBVIOUS
  <2>3. g.lengths = [g.lengths EXCEPT ![i] = length]
    <3>1. g.lengths \in Seq(Nat)
      BY <1>1, FrameFields
    <3> QED BY <1>3, <3>1
  <2>4. h = Holding(g, args, g.lengths)
    <3>1. g = [sig |-> g.sig, step |-> g.step, next |-> g.next, args |-> g.args,
               lengths |-> g.lengths, result |-> g.result]
      BY <1>1, FrameFields
    <3> QED BY <2>1, <2>2, <3>1 DEF Holding
  <2>5. Advance(h, K) = f
    <3>1. PICK lengths : lengths = g.lengths
      OBVIOUS
    <3>2. lengths = [g.lengths EXCEPT ![i] = length] /\ h = Holding(g, args, lengths)
      BY <2>3, <2>4, <3>1
    <3> QED BY <1>5, <1>7, <2>1, <3>2, Advanced
  <2> QED BY <2>2, <2>5
<1>9. /\ f.sig = g.sig /\ f.step = g.step
      /\ Len(f.args) = Len(g.args) /\ Len(f.lengths) = Len(g.lengths)
      /\ \A j \in 1 .. Len(g.args) : j # i => f.args[j] = g.args[j]
      /\ f.lengths[i] = length
      /\ \A j \in 1 .. Len(g.args) : j # i => f.lengths[j] = g.lengths[j]
      /\ f.lengths = g.lengths
  <2>1. /\ f.sig = g.sig /\ f.step = g.step
        /\ Len(f.args) = Len(g.args) /\ Len(f.lengths) = Len(g.lengths)
        /\ \A j \in 1 .. Len(g.args) : j # i => f.args[j] = g.args[j]
        /\ f.lengths[i] = length
        /\ \A j \in 1 .. Len(g.args) : j # i => f.lengths[j] = g.lengths[j]
    <3>1. Sets(f, g, i, p, length, next)
      BY <1>1, <1>2, <1>4, <1>6, <1>7 DEF Sets
    <3> QED BY <3>1, WithArgumentFacts
  <2>2. f.lengths = [g.lengths EXCEPT ![i] = g.lengths[i]] /\ g.lengths \in Seq(Nat)
    BY <1>1, <1>3, <1>7, FrameFields DEF WithArgument
  <2>3. f.lengths = g.lengths
    BY <2>2
  <2> QED BY <2>1, <2>3
<1>10. Carried(f, g, i, size)
  <2>1. CASE g.step = "Marshal"
    <3>1. g.sig.args[i] \notin Buffered
      BY <1>2, <2>1 DEF KindsOf, Buffered
    <3>2. \A j : Count(f, j) = Count(g, j)
      BY <1>9 DEF Count
    <3>3. ASSUME NEW j \in 1 .. Len(f.args), f.args[j] # Null, f.sig.args[j] \in Buffered
          PROVE  /\ Count(f, j) \in {0, f.lengths[j]} /\ j # i
                 /\ g.step \in EarlySteps /\ f.lengths[j] = g.lengths[j]
      <4>1. j # i /\ j \in 1 .. Len(g.args) /\ g.args[j] = f.args[j]
        BY <1>9, <3>1, <3>3
      <4>2. Count(g, j) \in {0, g.lengths[j]}
        BY <1>1, <1>9, <2>1, <3>3, <4>1 DEF SizeInv
      <4> QED BY <1>9, <2>1, <3>2, <4>1, <4>2 DEF EarlySteps
    <3> QED BY <3>3 DEF Carried
  <2>2. CASE g.step # "Marshal"
    BY <1>9, <2>2 DEF Carried, EarlySteps
  <2> QED BY <2>1, <2>2
<1> QED BY <1>4, <1>5, <1>7, <1>8, <1>10, ArgumentStep

\* An argument that is not freed but made has no block yet.
LEMMA NotYetMade ==
  ASSUME MarshallingInv, NEW t \in Threads, stack[t] # <<>>, NEW g, g = Top(t), Pending(t),
         g.step \in {"Marshal", "Arguments"}
  PROVE  g.args[g.next] = Null
<1>1. /\ g \in Frame /\ FrameInv(t, g)
      /\ Len(g.args) = Len(g.sig.args) /\ Len(g.sig.args) \in Nat
      /\ g.next <= Len(g.sig.args) /\ g.next \in Nat /\ g.next >= 1
  BY AtFacts, FrameFields DEF Pending, FrameInv
<1>2. g.sig.args[g.next] \in KindsOf(g.step) /\ g.next \in 1 .. Len(g.args)
  BY <1>1 DEF FrameInv
<1>3. g.args[g.next] # Null => MayHold(g, g.next)
  BY <1>1, <1>2 DEF FrameInv
<1>4. ~MayHold(g, g.next)
  BY <1>1, <1>2 DEF MayHold, KindsOf, Buffered
<1> QED BY <1>3, <1>4

LEMMA MarshalTextStep ==
  ASSUME MarshallingInv, NEW t \in Threads, NEW length \in Nat, MarshalText(t, length)
  PROVE  MarshallingInv'
<1>1. PICK g : g = Top(t)
  OBVIOUS
<1>2. /\ stack[t] # <<>> /\ g.step = "Marshal" /\ Pending(t) /\ quiet' = quiet
      /\ \E r \in Malloc(mem, t, length + 1) :
           /\ mem' = r.mem
           /\ Update(t, Advance([g EXCEPT !.args[g.next] = r.ptr], {"text"}))
  BY <1>1 DEF MarshalText, At
<1>3. PICK r \in Malloc(mem, t, length + 1) :
        /\ mem' = r.mem
        /\ Update(t, Advance([g EXCEPT !.args[g.next] = r.ptr], {"text"}))
  BY <1>2
<1>4. PICK p : p = r.ptr
  OBVIOUS
<1>5. MemoryInv(mem') /\ p \in Cell \cup {Null} /\ Exchange(mem, mem', t, Null, p, length + 1)
  <2>1. PICK n : n = length + 1
    OBVIOUS
  <2>2. n \in Nat /\ r \in Malloc(mem, t, n) /\ MemoryInv(mem)
    BY <2>1 DEF MarshallingInv
  <2> QED BY <1>3, <1>4, <2>1, <2>2, MallocFacts
<1>6. g.args[g.next] = Null
  BY <1>1, <1>2, NotYetMade
<1>7. KindsOf(g.step) = {"text"}
  BY <1>2 DEF KindsOf
<1> QED BY <1>1, <1>2, <1>3, <1>4, <1>5, <1>6, <1>7, UnsizedStep

LEMMA PassValueStep ==
  ASSUME MarshallingInv, NEW t \in Threads, NEW length \in Nat, PassValue(t, length)
  PROVE  MarshallingInv'
<1>1. PICK g : g = Top(t)
  OBVIOUS
<1>2. /\ stack[t] # <<>> /\ g.step = "Arguments" /\ Pending(t) /\ quiet' = quiet
      /\ \E r \in Malloc(mem, t, length + 1) :
           /\ mem' = r.mem
           /\ Update(t, Advance([g EXCEPT !.args[g.next] = r.ptr], {"value"}))
  BY <1>1 DEF PassValue, At
<1>3. PICK r \in Malloc(mem, t, length + 1) :
        /\ mem' = r.mem
        /\ Update(t, Advance([g EXCEPT !.args[g.next] = r.ptr], {"value"}))
  BY <1>2
<1>4. PICK p : p = r.ptr
  OBVIOUS
<1>5. MemoryInv(mem') /\ p \in Cell \cup {Null} /\ Exchange(mem, mem', t, Null, p, length + 1)
  <2>1. PICK n : n = length + 1
    OBVIOUS
  <2>2. n \in Nat /\ r \in Malloc(mem, t, n) /\ MemoryInv(mem)
    BY <2>1 DEF MarshallingInv
  <2> QED BY <1>3, <1>4, <2>1, <2>2, MallocFacts
<1>6. g.args[g.next] = Null
  BY <1>1, <1>2, NotYetMade
<1>7. KindsOf(g.step) = {"value"}
  BY <1>2 DEF KindsOf
<1> QED BY <1>1, <1>2, <1>3, <1>4, <1>5, <1>6, <1>7, UnsizedStep

LEMMA FreeArgument ==
  ASSUME MarshallingInv, NEW t \in Threads, stack[t] # <<>>, NEW g, g = Top(t), Pending(t)
  PROVE  /\ MemoryInv(Free(mem, t, g.args[g.next]))
         /\ Exchange(mem, Free(mem, t, g.args[g.next]), t, g.args[g.next], Null, 0)
<1>1. /\ MemoryInv(mem) /\ g \in Frame /\ Len(g.args) = Len(g.sig.args) /\ Len(g.args) \in Nat
      /\ g.next <= Len(g.sig.args) /\ g.next \in Nat /\ g.next >= 1
  BY AtFacts, FrameFields DEF Pending, FrameInv
<1>2. g.next \in Places(g) /\ Pointer(g, g.next) = g.args[g.next]
  BY <1>1 DEF Places, Pointer
<1>3. g.args[g.next] # Null => g.args[g.next] \in Pointers(mem, t)
  BY <1>2, AtFacts
<1> QED BY <1>1, <1>3, FreeFacts

LEMMA FreeTextStep ==
  ASSUME MarshallingInv, NEW t \in Threads, FreeText(t)
  PROVE  MarshallingInv'
<1>1. PICK g : g = Top(t)
  OBVIOUS
<1>2. /\ stack[t] # <<>> /\ g.step = "Cleanup" /\ Pending(t) /\ quiet' = quiet
      /\ mem' = Free(mem, t, g.args[g.next])
      /\ Update(t, Advance([g EXCEPT !.args[g.next] = Null], {"text"}))
  BY <1>1 DEF FreeText, At
<1>3. MemoryInv(mem') /\ Exchange(mem, mem', t, g.args[g.next], Null, 0)
  BY <1>1, <1>2, FreeArgument
<1>4. KindsOf(g.step) = {"text"}
  BY <1>2 DEF KindsOf
<1> QED BY <1>1, <1>2, <1>3, <1>4, UnsizedStep

LEMMA FinalizeStep ==
  ASSUME MarshallingInv, NEW t \in Threads, Finalize(t)
  PROVE  MarshallingInv'
<1>1. PICK g : g = Top(t)
  OBVIOUS
<1>2. /\ stack[t] # <<>> /\ g.step = "Finally" /\ Pending(t) /\ quiet' = quiet
      /\ mem' = Free(mem, t, g.args[g.next])
      /\ Update(t, Advance([g EXCEPT !.args[g.next] = Null], Buffered))
  BY <1>1 DEF Finalize, At
<1>3. MemoryInv(mem') /\ Exchange(mem, mem', t, g.args[g.next], Null, 0)
  BY <1>1, <1>2, FreeArgument
<1>4. KindsOf(g.step) = Buffered
  BY <1>2 DEF KindsOf
<1> QED BY <1>1, <1>2, <1>3, <1>4, UnsizedStep

-----------------------------------------------------------------------------
(***************************************************************************)
(* From one step of a call to the next.                                    *)
(***************************************************************************)
Switched(g, step, next, result) ==
  [sig |-> g.sig, step |-> step, next |-> next, args |-> g.args,
   lengths |-> g.lengths, result |-> result]

\* The steps that follow each other; most do when the last argument is done.
Follows(g, step) ==
  \/ g.step = "Convert" /\ step = "Marshal" /\ g.next > Len(g.sig.args)
  \/ g.step = "Marshal" /\ step = "Native" /\ g.next > Len(g.sig.args)
  \/ g.step \in {"Marshal", "Native"} /\ step = "Cleanup"
  \/ g.step = "Cleanup" /\ step = "Finally" /\ g.next > Len(g.sig.args)
  \/ g.step = "Arguments" /\ step = "Managed" /\ g.next > Len(g.sig.args)
  \/ g.step = "Managed" /\ step = "Result"

NextAfter(g, step) ==
  IF step \in {"Native", "Managed", "Result"} THEN g.next ELSE NextOf(g.sig, KindsOf(step), 1)

LEMMA SwitchFrame ==
  ASSUME NEW t \in Threads, NEW g \in Frame, FrameInv(t, g), NEW step, Follows(g, step),
         Len(g.sig.args) \in Nat,
         NEW result \in Cell \cup {Null, Foreign},
         NEW f, f = Switched(g, step, NextAfter(g, step), result),
         result # Null => MayReturn(f)
  PROVE  f \in Frame /\ FrameInv(t, f) /\ Differs(f, g, 0)
<1>1. /\ g.next \in Nat /\ g.next >= 1 /\ Len(g.args) = Len(g.sig.args)
      /\ g.args \in Seq(Cell \cup {Null}) /\ g.lengths \in Seq(Nat)
  BY FrameFields DEF FrameInv
<1>2. PICK next : next = NextAfter(g, step)
  OBVIOUS
<1>3. /\ next \in Nat /\ next >= 1
      /\ step \notin {"Native", "Managed", "Result"} =>
           /\ next <= Len(g.sig.args) => g.sig.args[next] \in KindsOf(step)
           /\ \A j \in 1 .. Len(g.sig.args) : g.sig.args[j] \in KindsOf(step) => next <= j
  BY <1>1, <1>2, NextOfFacts DEF NextAfter
<1>4. /\ f.sig = g.sig /\ f.step = step /\ f.next = next /\ f.args = g.args
      /\ f.lengths = g.lengths /\ f.result = result
  BY <1>2 DEF Switched
<1>5. step \in CallSteps <=> g.step \in CallSteps
  BY DEF Follows, CallSteps
<1>6. f \in Frame
  BY <1>1, <1>2, <1>3, FrameFields DEF Frame, Switched, Follows
<1>7. ASSUME NEW i \in 1 .. Len(f.args), f.args[i] # Null PROVE MayHold(f, i)
  <2>1. MayHold(g, i) /\ i \in 1 .. Len(g.sig.args) /\ i \in Nat
    BY <1>1, <1>4, <1>7 DEF FrameInv
  <2>2. CASE step \in {"Marshal", "Native"}
    BY <1>1, <1>4, <2>1, <2>2 DEF MayHold, Follows, Buffered
  <2>3. CASE step = "Cleanup"
    <3>1. g.sig.args[i] = "text" => next <= i
      BY <1>3, <2>1, <2>3 DEF KindsOf
    <3> QED BY <1>1, <1>4, <2>1, <2>3, <3>1 DEF MayHold, Follows, Buffered
  <2>4. CASE step = "Finally"
    <3>1. g.sig.args[i] \in Buffered => next <= i
      BY <1>3, <2>1, <2>4 DEF KindsOf
    <3> QED BY <1>1, <1>4, <2>1, <2>4, <3>1 DEF MayHold, Follows, Buffered
  <2>5. CASE step \in {"Managed", "Result"}
    BY <1>1, <1>4, <2>1, <2>5 DEF MayHold, Follows, Buffered
  <2> QED BY <2>2, <2>3, <2>4, <2>5 DEF Follows
<1>8. FrameInv(t, f)
  <2>1. IF f.step \in CallSteps THEN f.sig \in Calls[t] /\ f.sig.result # "reference"
                                ELSE f.sig \in Callbacks
    BY <1>4, <1>5 DEF FrameInv
  <2>2. Len(f.args) = Len(f.sig.args) /\ Len(f.lengths) = Len(f.sig.args) /\ f.next >= 1
    BY <1>3, <1>4 DEF FrameInv
  <2>3. f.step \notin {"Native", "Managed", "Result"} /\ f.next <= Len(f.sig.args) =>
          f.sig.args[f.next] \in KindsOf(f.step)
    BY <1>3, <1>4
  <2> QED BY <1>4, <1>7, <2>1, <2>2, <2>3 DEF FrameInv
<1>9. Differs(f, g, 0)
  BY <1>1, <1>4, <1>5 DEF Differs, Places, Pointer
<1> QED BY <1>6, <1>8, <1>9

\* Only the result may change, and no step that comes before it begins.
LEMMA SwitchStep ==
  ASSUME MarshallingInv, NEW t \in Threads, stack[t] # <<>>, NEW g, g = Top(t),
         NEW step, Follows(g, step), NEW result \in Cell \cup {Null, Foreign},
         NEW f, f = Switched(g, step, NextAfter(g, step), result), Update(t, f),
         result # Null => MayReturn(f),
         step \in {"Cleanup", "Finally", "Managed", "Result"}, NEW size,
         MemoryInv(mem'), Exchange(mem, mem', t, g.result, result, size), quiet' = quiet
  PROVE  MarshallingInv'
<1>1. g \in Frame /\ FrameInv(t, g) /\ Len(g.sig.args) \in Nat
  BY AtFacts
<1>2. f \in Frame /\ FrameInv(t, f) /\ Differs(f, g, 0)
  BY <1>1, SwitchFrame
<1>3. f.step = step /\ f.result = result
  BY DEF Switched
<1>4. Carried(f, g, 0, size)
  BY <1>3 DEF Carried, EarlySteps
<1>5. Exchange(mem, mem', t, Pointer(Top(t), 0), Pointer(f, 0), size)
  BY <1>3 DEF Pointer
<1> QED BY <1>2, <1>4, <1>5, UpdateStep

\* Before its result is made, a frame has none.
LEMMA NoResultYet ==
  ASSUME MarshallingInv, NEW t \in Threads, stack[t] # <<>>, NEW g, g = Top(t),
         g.step \notin {"Cleanup", "Finally", "Result"}
  PROVE  g.result = Null
BY AtFacts DEF FrameInv, MayReturn

LEMMA SwitchedSelf ==
  ASSUME NEW g \in Frame PROVE g = Switched(g, g.step, g.next, g.result)
BY FrameFields DEF Switched

LEMMA StepForm ==
  ASSUME NEW g \in Frame, NEW step
  PROVE  [g EXCEPT !.step = step] = Switched(g, step, g.next, g.result)
BY SwitchedSelf DEF Switched

LEMMA ResultForm ==
  ASSUME NEW g \in Frame, NEW step, NEW next, NEW q, NEW k, k = Switched(g, step, next, q), NEW p
  PROVE  [k EXCEPT !.result = p] = Switched(g, step, next, p)
BY DEF Switched

LEMMA GotoForm ==
  ASSUME NEW g, NEW p, NEW h, h = Switched(g, g.step, g.next, p), NEW step, NEW K,
         NEW next, next = NextOf(g.sig, K, 1)
  PROVE  Goto(h, step, K) = Switched(g, step, next, p)
<1>1. h.sig = g.sig
  BY DEF Switched
<1>2. PICK k : k = [h EXCEPT !.step = step]
  OBVIOUS
<1>3. k = Switched(g, step, g.next, p)
  BY <1>2 DEF Switched
<1>4. Goto(h, step, K) = [k EXCEPT !.next = next]
  BY <1>1, <1>2 DEF Goto
<1>5. [k EXCEPT !.next = next] = Switched(g, step, next, p)
  BY <1>3 DEF Switched
<1> QED BY <1>4, <1>5

LEMMA NoExchange ==
  ASSUME NEW m, MemoryInv(m), NEW t \in Threads, NEW size
  PROVE  Exchange(m, m, t, Null, Null, size)
<1>1. {b \in Blocks(m, t) : b.at # Null} = Blocks(m, t)
  BY BlockPlaces
<1> QED BY <1>1 DEF Exchange

\* A step that only begins the next one.
LEMMA StillSwitch ==
  ASSUME MarshallingInv, NEW t \in Threads, stack[t] # <<>>, NEW g, g = Top(t),
         NEW step, Follows(g, step),
         NEW f, f = Switched(g, step, NextAfter(g, step), g.result), Update(t, f),
         g.result # Null => MayReturn(f), UNCHANGED <<mem, quiet>>
  PROVE  MarshallingInv'
<1>1. g \in Frame /\ FrameInv(t, g) /\ Len(g.sig.args) \in Nat
      /\ g.result \in Cell \cup {Null, Foreign}
  BY AtFacts, FrameFields
<1>2. f \in Frame /\ FrameInv(t, f)
  BY <1>1, SwitchFrame
<1>3. /\ f.args = g.args /\ f.lengths = g.lengths /\ f.result = g.result /\ f.sig = g.sig
      /\ f.step = step
  BY DEF Switched
<1>4. /\ f.step \in CallSteps <=> g.step \in CallSteps
      /\ f.step \in EarlySteps => g.step \in EarlySteps
  BY <1>3 DEF Follows, CallSteps, EarlySteps
<1> QED BY <1>2, <1>3, <1>4, StillStep

LEMMA TryStep ==
  ASSUME MarshallingInv, NEW t \in Threads, Try(t) PROVE MarshallingInv'
<1>1. PICK g : g = Top(t)
  OBVIOUS
<1>2. /\ stack[t] # <<>> /\ g.step = "Convert" /\ ~Pending(t) /\ UNCHANGED <<mem, quiet>>
      /\ Update(t, Goto(g, "Marshal", {"text"}))
  BY <1>1 DEF Try, At
<1>3. g \in Frame /\ Len(g.sig.args) \in Nat /\ g.next \in Nat /\ g.result = Null
  BY <1>1, <1>2, AtFacts, NoResultYet, FrameFields
<1>4. Follows(g, "Marshal") /\ NextAfter(g, "Marshal") = NextOf(g.sig, {"text"}, 1)
  BY <1>1, <1>2, <1>3 DEF Follows, NextAfter, KindsOf, Pending
<1>5. PICK f : f = Switched(g, "Marshal", NextAfter(g, "Marshal"), g.result)
  OBVIOUS
<1>6. Update(t, f)
  <2>1. g = Switched(g, g.step, g.next, g.result)
    BY <1>3, SwitchedSelf
  <2>2. Goto(g, "Marshal", {"text"}) = f
    BY <1>4, <1>5, <2>1, GotoForm
  <2> QED BY <1>2, <2>2
<1> QED BY <1>1, <1>2, <1>3, <1>4, <1>5, <1>6, StillSwitch

LEMMA MarshalThrowsStep ==
  ASSUME MarshallingInv, NEW t \in Threads, MarshalThrows(t) PROVE MarshallingInv'
<1>1. PICK g : g = Top(t)
  OBVIOUS
<1>2. /\ stack[t] # <<>> /\ g.step = "Marshal" /\ UNCHANGED <<mem, quiet>>
      /\ Update(t, Goto(g, "Cleanup", {"text"}))
  BY <1>1 DEF MarshalThrows, At
<1>3. g \in Frame /\ g.result = Null
  BY <1>1, <1>2, AtFacts, NoResultYet
<1>4. Follows(g, "Cleanup") /\ NextAfter(g, "Cleanup") = NextOf(g.sig, {"text"}, 1)
  BY <1>2 DEF Follows, NextAfter, KindsOf
<1>5. PICK f : f = Switched(g, "Cleanup", NextAfter(g, "Cleanup"), g.result)
  OBVIOUS
<1>6. Update(t, f)
  <2>1. g = Switched(g, g.step, g.next, g.result)
    BY <1>3, SwitchedSelf
  <2>2. Goto(g, "Cleanup", {"text"}) = f
    BY <1>4, <1>5, <2>1, GotoForm
  <2> QED BY <1>2, <2>2
<1> QED BY <1>1, <1>2, <1>3, <1>4, <1>5, <1>6, StillSwitch

LEMMA InvokeStep ==
  ASSUME MarshallingInv, NEW t \in Threads, Invoke(t) PROVE MarshallingInv'
<1>1. PICK g : g = Top(t)
  OBVIOUS
<1>2. /\ stack[t] # <<>> /\ g.step = "Marshal" /\ ~Pending(t) /\ UNCHANGED <<mem, quiet>>
      /\ Update(t, [g EXCEPT !.step = "Native"])
  BY <1>1 DEF Invoke, At
<1>3. g \in Frame /\ Len(g.sig.args) \in Nat /\ g.next \in Nat /\ g.result = Null
  BY <1>1, <1>2, AtFacts, NoResultYet, FrameFields
<1>4. Follows(g, "Native") /\ NextAfter(g, "Native") = g.next
  BY <1>1, <1>2, <1>3 DEF Follows, NextAfter, Pending
<1>5. PICK f : f = Switched(g, "Native", NextAfter(g, "Native"), g.result)
  OBVIOUS
<1>6. Update(t, f)
  BY <1>2, <1>3, <1>4, <1>5, StepForm
<1> QED BY <1>1, <1>2, <1>3, <1>4, <1>5, <1>6, StillSwitch

LEMMA EnterManagedStep ==
  ASSUME MarshallingInv, NEW t \in Threads, EnterManaged(t) PROVE MarshallingInv'
<1>1. PICK g : g = Top(t)
  OBVIOUS
<1>2. /\ stack[t] # <<>> /\ g.step = "Arguments" /\ ~Pending(t) /\ UNCHANGED <<mem, quiet>>
      /\ Update(t, [g EXCEPT !.step = "Managed"])
  BY <1>1 DEF EnterManaged, At
<1>3. g \in Frame /\ Len(g.sig.args) \in Nat /\ g.next \in Nat /\ g.result = Null
  BY <1>1, <1>2, AtFacts, NoResultYet, FrameFields
<1>4. Follows(g, "Managed") /\ NextAfter(g, "Managed") = g.next
  BY <1>1, <1>2, <1>3 DEF Follows, NextAfter, Pending
<1>5. PICK f : f = Switched(g, "Managed", NextAfter(g, "Managed"), g.result)
  OBVIOUS
<1>6. Update(t, f)
  BY <1>2, <1>3, <1>4, <1>5, StepForm
<1> QED BY <1>1, <1>2, <1>3, <1>4, <1>5, <1>6, StillSwitch

LEMMA NativeReturnStep ==
  ASSUME MarshallingInv, NEW t \in Threads, NEW length \in Nat, Native_Return(t, length)
  PROVE  MarshallingInv'
<1>1. PICK g : g = Top(t)
  OBVIOUS
<1>2. stack[t] # <<>> /\ g.step = "Native" /\ quiet' = quiet
  BY <1>1 DEF Native_Return, At
<1>3. /\ MemoryInv(mem) /\ g \in Frame /\ g.result = Null
      /\ g.sig.result \in {"plain", "text", "array"}
  <2>1. /\ MemoryInv(mem) /\ g \in Frame /\ FrameInv(t, g) /\ g.result = Null
    BY <1>1, <1>2, AtFacts, NoResultYet
  <2>2. g.sig \in Calls[t] /\ g.sig.result # "reference"
    BY <1>2, <2>1 DEF FrameInv, CallSteps
  <2> QED BY <2>1, <2>2, SignatureFacts DEF ResultKinds
<1>4. PICK r \in CASE g.sig.result = "plain"     -> {Result(mem, Null)}
                   [] g.sig.result = "text"      -> Malloc(mem, t, length + 1)
                   [] g.sig.result = "array"     -> Malloc(mem, t, length)
                   [] g.sig.result = "reference" -> {Result(mem, Foreign)} :
        /\ mem' = r.mem
        /\ Update(t, Goto([g EXCEPT !.result = r.ptr], "Cleanup", {"text"}))
  BY <1>1 DEF Native_Return
<1>5. PICK p : p = r.ptr
  OBVIOUS
<1>6. \E size : /\ MemoryInv(mem') /\ p \in Cell \cup {Null} /\ Exchange(mem, mem', t, Null, p, size)
                /\ p # Null => g.sig.result \in {"text", "array"}
  <2>1. CASE g.sig.result = "plain"
    <3>1. r = Result(mem, Null)
      BY <1>4, <2>1
    <3>2. mem' = mem /\ p = Null
      BY <1>4, <1>5, <3>1 DEF Result
    <3> QED BY <1>3, <3>2, NoExchange
  <2>2. CASE g.sig.result = "text"
    <3>1. r \in Malloc(mem, t, length + 1)
      BY <1>4, <2>2
    <3>2. PICK n : n = length + 1
      OBVIOUS
    <3>3. n \in Nat /\ r \in Malloc(mem, t, n)
      BY <3>1, <3>2
    <3> QED BY <1>3, <1>4, <1>5, <2>2, <3>3, MallocFacts
  <2>3. CASE g.sig.result = "array"
    <3>1. r \in Malloc(mem, t, length)
      BY <1>4, <2>3
    <3> QED BY <1>3, <1>4, <1>5, <2>3, <3>1, MallocFacts
  <2> QED BY <1>3, <2>1, <2>2, <2>3
<1>7. Follows(g, "Cleanup") /\ NextAfter(g, "Cleanup") = NextOf(g.sig, {"text"}, 1)
  BY <1>2 DEF Follows, NextAfter, KindsOf
<1>8. PICK f : f = Switched(g, "Cleanup", NextAfter(g, "Cleanup"), p)
  OBVIOUS
<1>9. Update(t, f)
  <2>1. PICK h : h = [g EXCEPT !.result = p]
    OBVIOUS
  <2>2. h = Switched(g, g.step, g.next, p)
    BY <1>3, <2>1, SwitchedSelf, ResultForm
  <2>3. Goto(h, "Cleanup", {"text"}) = f
    BY <1>7, <1>8, <2>2, GotoForm
  <2> QED BY <1>4, <1>5, <2>1, <2>3
<1>10. p # Null => MayReturn(f)
  BY <1>6, <1>8 DEF Switched, MayReturn
<1> QED BY <1>1, <1>2, <1>3, <1>6, <1>7, <1>8, <1>9, <1>10, SwitchStep

LEMMA ReturnManagedStep ==
  ASSUME MarshallingInv, NEW t \in Threads, NEW length \in Nat, ReturnManaged(t, length)
  PROVE  MarshallingInv'
<1>1. PICK g : g = Top(t)
  OBVIOUS
<1>2. stack[t] # <<>> /\ g.step = "Managed" /\ quiet' = quiet
  BY <1>1 DEF ReturnManaged, At
<1>3. /\ MemoryInv(mem) /\ g \in Frame /\ g.result = Null
      /\ g.sig.result \in {"plain", "text", "array"}
  <2>1. /\ MemoryInv(mem) /\ g \in Frame /\ FrameInv(t, g) /\ g.result = Null
    BY <1>1, <1>2, AtFacts, NoResultYet
  <2>2. g.sig \in Callbacks
    BY <1>2, <2>1 DEF FrameInv, CallSteps
  <2> QED BY <2>1, <2>2, SignatureFacts
<1>4. PICK r \in IF g.sig.result = "plain" THEN {Result(mem, Null)}
                 ELSE Malloc(mem, t, length + 1) :
        /\ mem' = r.mem
        /\ Update(t, [g EXCEPT !.step = "Result", !.result = r.ptr])
  BY <1>1 DEF ReturnManaged
<1>5. PICK p : p = r.ptr
  OBVIOUS
<1>6. \E size : /\ MemoryInv(mem') /\ p \in Cell \cup {Null} /\ Exchange(mem, mem', t, Null, p, size)
                /\ p # Null => g.sig.result \in {"text", "array"}
  <2>1. CASE g.sig.result = "plain"
    <3>1. r = Result(mem, Null)
      BY <1>4, <2>1
    <3>2. mem' = mem /\ p = Null
      BY <1>4, <1>5, <3>1 DEF Result
    <3> QED BY <1>3, <3>2, NoExchange
  <2>2. CASE g.sig.result # "plain"
    <3>1. r \in Malloc(mem, t, length + 1)
      BY <1>4, <2>2
    <3>2. PICK n : n = length + 1
      OBVIOUS
    <3>3. n \in Nat /\ r \in Malloc(mem, t, n)
      BY <3>1, <3>2
    <3> QED BY <1>3, <1>4, <1>5, <2>2, <3>3, MallocFacts
  <2> QED BY <2>1, <2>2
<1>7. Follows(g, "Result") /\ NextAfter(g, "Result") = g.next
  BY <1>2 DEF Follows, NextAfter
<1>8. PICK f : f = Switched(g, "Result", NextAfter(g, "Result"), p)
  OBVIOUS
<1>9. Update(t, f)
  <2>1. PICK k : k = [g EXCEPT !.step = "Result"]
    OBVIOUS
  <2>2. k = Switched(g, "Result", g.next, g.result)
    BY <1>3, <2>1, StepForm
  <2>3. [k EXCEPT !.result = p] = f
    BY <1>3, <1>7, <1>8, <2>2, ResultForm
  <2> QED BY <1>4, <1>5, <2>1, <2>3
<1>10. p # Null => MayReturn(f)
  BY <1>6, <1>8 DEF Switched, MayReturn
<1> QED BY <1>1, <1>2, <1>3, <1>6, <1>7, <1>8, <1>9, <1>10, SwitchStep

\* The result that a frame holds may be freed.
LEMMA FreeResult ==
  ASSUME MarshallingInv, NEW t \in Threads, stack[t] # <<>>, NEW g, g = Top(t)
  PROVE  /\ MemoryInv(Free(mem, t, g.result))
         /\ Exchange(mem, Free(mem, t, g.result), t, g.result, Null, 0)
<1>1. MemoryInv(mem) /\ g \in Frame /\ Len(g.args) \in Nat
  BY AtFacts, FrameFields
<1>2. 0 \in Places(g) /\ Pointer(g, 0) = g.result
  BY <1>1 DEF Places, Pointer
<1>3. g.result # Null => g.result \in Pointers(mem, t)
  BY <1>2, AtFacts
<1> QED BY <1>1, <1>3, FreeFacts

LEMMA FreeTextResultStep ==
  ASSUME MarshallingInv, NEW t \in Threads, FreeTextResult(t) PROVE MarshallingInv'
<1>1. PICK g : g = Top(t)
  OBVIOUS
<1>2. stack[t] # <<>> /\ g.step = "Cleanup" /\ ~Pending(t) /\ quiet' = quiet
  BY <1>1 DEF FreeTextResult, At
<1>3. /\ g \in Frame /\ FrameInv(t, g) /\ Len(g.sig.args) \in Nat /\ g.next \in Nat
      /\ g.result \in Cell \cup {Null, Foreign}
  BY <1>1, <1>2, AtFacts, FrameFields
<1>4. Follows(g, "Finally") /\ NextAfter(g, "Finally") = NextOf(g.sig, Buffered, 1)
  BY <1>1, <1>2, <1>3 DEF Follows, NextAfter, KindsOf, Pending
<1>5. CASE g.sig.result = "text"
  <2>1. PICK f : f = Switched(g, "Finally", NextAfter(g, "Finally"), Null)
    OBVIOUS
  <2>2. /\ mem' = Free(mem, t, g.result)
        /\ Update(t, Goto([g EXCEPT !.result = Null], "Finally", Buffered))
    BY <1>1, <1>5 DEF FreeTextResult
  <2>3. Update(t, f)
    <3>1. PICK p : p = Null
      OBVIOUS
    <3>2. PICK h : h = [g EXCEPT !.result = p]
      OBVIOUS
    <3>3. h = Switched(g, g.step, g.next, p)
      BY <1>3, <3>2, SwitchedSelf, ResultForm
    <3>4. Goto(h, "Finally", Buffered) = f
      BY <1>4, <2>1, <3>1, <3>3, GotoForm
    <3> QED BY <2>2, <3>1, <3>2, <3>4
  <2>4. MemoryInv(mem') /\ Exchange(mem, mem', t, g.result, Null, 0)
    BY <1>1, <1>2, <2>2, FreeResult
  <2> QED BY <1>1, <1>2, <1>4, <2>1, <2>3, <2>4, SwitchStep
<1>6. CASE g.sig.result # "text"
  <2>1. PICK f : f = Switched(g, "Finally", NextAfter(g, "Finally"), g.result)
    OBVIOUS
  <2>2. /\ mem' = mem
        /\ Update(t, Goto([g EXCEPT !.result = g.result], "Finally", Buffered))
    BY <1>1, <1>6 DEF FreeTextResult
  <2>3. Update(t, f)
    <3>1. PICK p : p = g.result
      OBVIOUS
    <3>2. PICK h : h = [g EXCEPT !.result = p]
      OBVIOUS
    <3>3. h = Switched(g, g.step, g.next, p)
      BY <1>3, <3>2, SwitchedSelf, ResultForm
    <3>4. Goto(h, "Finally", Buffered) = f
      BY <1>4, <2>1, <3>1, <3>3, GotoForm
    <3> QED BY <2>2, <3>1, <3>2, <3>4
  <2>4. g.result # Null => MayReturn(f)
    BY <1>2, <1>3, <1>6, <2>1 DEF FrameInv, MayReturn, Switched
  <2> QED BY <1>1, <1>2, <1>4, <2>1, <2>2, <2>3, <2>4, StillSwitch
<1> QED BY <1>5, <1>6

-----------------------------------------------------------------------------
(***************************************************************************)
(* Calls and callbacks begin and end.                                      *)
(***************************************************************************)
LEMMA NewFrameFacts ==
  ASSUME NEW t \in Threads, NEW sig, NEW step, NEW K, K = KindsOf(step),
         \/ step = "Convert" /\ sig \in Calls[t] /\ sig.result # "reference"
         \/ step = "Arguments" /\ sig \in Callbacks,
         NEW f, f = NewFrame(sig, step, K)
  PROVE  /\ f \in Frame /\ FrameInv(t, f) /\ f.sig = sig /\ f.step = step
         /\ \A k \in Places(f) : Pointer(f, k) = Null
<1>1. PICK n : n = Len(sig.args)
  OBVIOUS
<1>2. n \in Nat /\ sig \in (UNION {Calls[u] : u \in Threads}) \cup Callbacks
  <2>1. CASE step = "Convert" /\ sig \in Calls[t]
    BY <1>1, <2>1, SignatureFacts
  <2>2. CASE step = "Arguments" /\ sig \in Callbacks
    BY <1>1, <2>2, SignatureFacts
  <2> QED BY <2>1, <2>2
<1>3. PICK args : args = [i \in 1 .. n |-> Null]
  OBVIOUS
<1>4. PICK lengths : lengths = [i \in 1 .. n |-> 0]
  OBVIOUS
<1>5. /\ args \in Seq(Cell \cup {Null}) /\ Len(args) = n /\ \A i \in 1 .. n : args[i] = Null
      /\ lengths \in Seq(Nat) /\ Len(lengths) = n
  BY <1>2, <1>3, <1>4
<1>6. PICK next : next = NextOf(sig, K, 1)
  OBVIOUS
<1>7. next \in Nat /\ next >= 1 /\ (next <= n => sig.args[next] \in K)
  BY <1>1, <1>2, <1>6, NextOfFacts
<1>8. f = [sig |-> sig, step |-> step, next |-> next, args |-> args, lengths |-> lengths,
           result |-> Null]
  BY <1>1, <1>3, <1>4, <1>6 DEF NewFrame, Goto
<1>9. f \in Frame
  BY <1>2, <1>5, <1>7, <1>8 DEF Frame
<1>10. /\ f.sig = sig /\ f.step = step /\ f.next = next /\ f.args = args
       /\ f.lengths = lengths /\ f.result = Null
  BY <1>8
<1>11. FrameInv(t, f)
  BY <1>1, <1>5, <1>7, <1>10 DEF FrameInv, CallSteps
<1>12. \A k \in Places(f) : Pointer(f, k) = Null
  BY <1>2, <1>5, <1>10 DEF Places, Pointer
<1> QED BY <1>9, <1>10, <1>11, <1>12

LEMMA CallStep ==
  ASSUME RulesKept, MarshallingInv, NEW t \in Threads, NEW sig \in Calls[t], Call(t, sig)
  PROVE  MarshallingInv'
<1>1. PICK f : f = NewFrame(sig, "Convert", Arrays)
  OBVIOUS
<1>2. /\ sig.result # "reference" /\ Push(t, f) /\ mem' = mem /\ quiet' = quiet
  BY <1>1 DEF Call, RulesKept
<1>3. KindsOf("Convert") = Arrays
  BY DEF KindsOf
<1>4. /\ f \in Frame /\ FrameInv(t, f) /\ f.step = "Convert"
      /\ \A k \in Places(f) : Pointer(f, k) = Null
  BY <1>1, <1>2, <1>3, NewFrameFacts
<1>5. f.step \in CallSteps
  BY <1>4 DEF CallSteps
<1> QED BY <1>2, <1>4, <1>5, PushStep

LEMMA CallbackStep ==
  ASSUME MarshallingInv, NEW t \in Threads, NEW sig \in Callbacks, Callback(t, sig)
  PROVE  MarshallingInv'
<1>1. PICK f : f = NewFrame(sig, "Arguments", {"value"})
  OBVIOUS
<1>2. /\ Push(t, f) /\ mem' = mem
      /\ quiet' = IF PassesValues(sig) THEN quiet \ {t} ELSE quiet
  BY <1>1 DEF Callback
<1>3. KindsOf("Arguments") = {"value"}
  BY DEF KindsOf
<1>4. /\ f \in Frame /\ FrameInv(t, f) /\ f.sig = sig
      /\ \A k \in Places(f) : Pointer(f, k) = Null
  BY <1>1, <1>3, NewFrameFacts
<1>5. quiet' \subseteq quiet /\ (t \in quiet' => ~PassesValues(f.sig))
  BY <1>2, <1>4
<1> QED BY <1>2, <1>4, <1>5, PushStep

\* What throws outside a try block leaves its blocks behind, and the thread is no
\* longer quiet.
LEMMA ThrowStep ==
  ASSUME MarshallingInv, NEW t \in Threads, stack[t] # <<>>, Pop(t), mem' = mem,
         quiet' = quiet \ {t}
  PROVE  MarshallingInv'
<1>1. MemoryInv(mem)
  BY DEF MarshallingInv
<1>2. MemoryInv(mem') /\ Exchange(mem, mem', t, Null, Null, 0)
  BY <1>1, NoExchange
<1> QED BY <1>2, PopStep

LEMMA ReturnStep ==
  ASSUME MarshallingInv, NEW t \in Threads, Return(t) PROVE MarshallingInv'
<1>1. PICK g : g = Top(t)
  OBVIOUS
<1>2. /\ stack[t] # <<>> /\ g.step = "Finally" /\ ~Pending(t) /\ Pop(t)
      /\ mem' = Free(mem, t, g.result) /\ quiet' = quiet
  BY <1>1 DEF Return, At
<1>3. /\ g \in Frame /\ FrameInv(t, g) /\ Len(g.sig.args) \in Nat
      /\ Len(g.args) = Len(g.sig.args) /\ g.next \in Nat
  BY <1>1, <1>2, AtFacts, FrameFields
<1>4. MemoryInv(mem') /\ Exchange(mem, mem', t, g.result, Null, 0)
  BY <1>1, <1>2, FreeResult
<1>5. ASSUME NEW k \in Places(g) PROVE Pointer(g, k) \in {Null, g.result}
  <2>1. CASE k = 0
    BY <2>1 DEF Pointer
  <2>2. CASE k # 0
    <3>1. k \in 1 .. Len(g.args) /\ Pointer(g, k) = g.args[k]
      BY <1>3, <2>2 DEF Places, Pointer
    <3>2. g.args[k] # Null => MayHold(g, k)
      BY <1>3, <3>1 DEF FrameInv
    <3>3. ~MayHold(g, k)
      <4>1. ~(k >= g.next)
        BY <1>1, <1>2, <1>3, <3>1 DEF Pending
      <4> QED BY <1>2, <4>1 DEF MayHold, Buffered
    <3> QED BY <3>1, <3>2, <3>3
  <2> QED BY <2>1, <2>2
<1> QED BY <1>1, <1>2, <1>4, <1>5, PopStep

LEMMA TakeResultStep ==
  ASSUME MarshallingInv, NEW t \in Threads, TakeResult(t) PROVE MarshallingInv'
<1>1. PICK g : g = Top(t)
  OBVIOUS
<1>2. /\ stack[t] # <<>> /\ g.step = "Result" /\ Pop(t) /\ quiet' = quiet
      /\ mem' = IF g.sig.result = "text" THEN Free(mem, t, g.result) ELSE mem
  BY <1>1 DEF TakeResult, At
<1>3. /\ g \in Frame /\ FrameInv(t, g) /\ HoldInv(t) /\ Len(g.sig.args) \in Nat
      /\ Len(g.args) = Len(g.sig.args) /\ g.sig \in Callbacks
      /\ Depth(t) \in 1 .. Depth(t) /\ g = stack[t][Depth(t)] /\ MemoryInv(mem)
  BY <1>1, <1>2, AtFacts DEF FrameInv, CallSteps
<1>4. t \in quiet => ~PassesValues(g.sig)
  BY <1>2, <1>3 DEF HoldInv, CallSteps
<1>5. ASSUME t \in quiet, NEW k \in Places(g), k # 0 PROVE Pointer(g, k) = Null
  <2>1. k \in 1 .. Len(g.args) /\ Pointer(g, k) = g.args[k]
    BY <1>3, <1>5 DEF Places, Pointer
  <2>2. g.args[k] # Null => MayHold(g, k)
    BY <1>3, <2>1 DEF FrameInv
  <2>3. g.sig.args[k] # "value"
    <3>1. k \in DOMAIN g.sig.args
      BY <1>3, <2>1, SignatureFacts
    <3> QED BY <1>4, <1>5, <3>1 DEF PassesValues
  <2>4. ~MayHold(g, k)
    BY <1>2, <2>3 DEF MayHold, Buffered
  <2> QED BY <2>1, <2>2, <2>4
<1>6. CASE g.sig.result = "text"
  <2>1. MemoryInv(mem') /\ Exchange(mem, mem', t, g.result, Null, 0)
    BY <1>1, <1>2, <1>6, FreeResult
  <2>2. t \in quiet' => \A k \in Places(g) : Pointer(g, k) \in {Null, g.result}
    BY <1>2, <1>5 DEF Pointer
  <2> QED BY <1>1, <1>2, <2>1, <2>2, PopStep
<1>7. CASE g.sig.result # "text"
  <2>1. MemoryInv(mem') /\ Exchange(mem, mem', t, Null, Null, 0)
    BY <1>2, <1>3, <1>7, NoExchange
  <2>2. t \in quiet => g.result = Null
    BY <1>2, <1>3, <1>4, <1>7 DEF FrameInv, MayReturn, PassesValues
  <2>3. t \in quiet' => \A k \in Places(g) : Pointer(g, k) \in {Null, Null}
    BY <1>2, <1>5, <2>2 DEF Pointer
  <2> QED BY <1>1, <1>2, <2>1, <2>3, PopStep
<1> QED BY <1>6, <1>7

-----------------------------------------------------------------------------
(***************************************************************************)
(* Native code writes, and threads end.                                    *)
(***************************************************************************)
LEMMA NativeWriteStep ==
  ASSUME MarshallingInv, NEW t \in Threads, NEW i, Native_Write(t, i) PROVE MarshallingInv'
<1>1. PICK g : g = Top(t)
  OBVIOUS
<1>2. /\ stack[t] # <<>> /\ g.step = "Native" /\ i \in DOMAIN g.args
      /\ g.sig.args[i] = "inout" /\ g.args[i] # Null
      /\ mem' = Written(mem, g.args[i], Count(g, i)) /\ stack' = stack /\ quiet' = quiet
  BY <1>1 DEF Native_Write, At
<1>3. TypeOK /\ MemoryInv(mem) /\ (\A u \in Threads : ThreadInv(u))
  BY InvParts
<1>4. g \in Frame /\ SizeInv(t, g) /\ i \in 1 .. Len(g.args)
  BY <1>1, <1>2, AtFacts, FrameFields
<1>5. PICK b : b = [at |-> g.args[i], size |-> g.lengths[i]]
  OBVIOUS
<1>6. b \in Blocks(mem, t) /\ Count(g, i) \in {0, g.lengths[i]}
  BY <1>2, <1>4, <1>5 DEF SizeInv, Buffered
<1>7. b.at = g.args[i] /\ b.size = g.lengths[i]
  BY <1>5
<1>8. b.size \in Nat
  BY <1>3, <1>6, BlockPlaces
<1>9. Count(g, i) \in Nat /\ Count(g, i) <= b.size
  BY <1>6, <1>7, <1>8
<1>10. PICK n : n = Count(g, i)
  OBVIOUS
<1>11. MemoryInv(mem') /\ SameBlocks(mem, mem')
  <2>1. mem' = Written(mem, b.at, n) /\ n \in Nat /\ n <= b.size
    BY <1>2, <1>7, <1>9, <1>10
  <2> QED BY <1>3, <1>6, <2>1, NativeWriteFacts
<1>12. \A u \in Threads : ThreadInv(u)'
  BY <1>2, <1>3, <1>11, OtherThread DEF SameBlocks
<1>13. TypeOK'
  BY <1>2, <1>3, <1>11 DEF TypeOK, MemoryInv
<1> QED BY <1>11, <1>12, <1>13 DEF MarshallingInv, ThreadInv, FramesInv

LEMMA ThreadExitStep ==
  ASSUME MarshallingInv, NEW t \in Threads, ThreadExit(t) PROVE MarshallingInv'
<1>1. /\ stack[t] = <<>> /\ mem.buffer[t] # Null /\ mem' = Destroyed(mem, t)
      /\ stack' = stack /\ quiet' = quiet
  BY DEF ThreadExit
<1>2. TypeOK /\ MemoryInv(mem) /\ (\A u \in Threads : ThreadInv(u))
  BY InvParts
<1>3. /\ MemoryInv(mem') /\ Blocks(mem', t) \subseteq Blocks(mem, t)
      /\ \A u \in Threads \ {t} : Blocks(mem', u) = Blocks(mem, u)
  BY <1>1, <1>2, DestroyedFacts
<1>4. ASSUME NEW u \in Threads, u # t PROVE ThreadInv(u)'
  BY <1>1, <1>2, <1>3, <1>4, OtherThread
<1>5. Depth(t) = 0 /\ Depth(t)' = 0
  BY <1>1 DEF Depth
<1>6. Pointers(mem', t) \subseteq Pointers(mem, t)
  BY <1>3 DEF Pointers
<1>7. HoldInv(t)
  BY <1>2 DEF ThreadInv
<1>8. HoldInv(t)'
  BY <1>1, <1>5, <1>6, <1>7 DEF HoldInv
<1>9. ThreadInv(t)'
  BY <1>5, <1>8 DEF ThreadInv, FramesInv
<1>10. \A u \in Threads : ThreadInv(u)'
  BY <1>4, <1>9
<1>11. TypeOK'
  BY <1>1, <1>2, <1>3 DEF TypeOK, MemoryInv
<1> QED BY <1>3, <1>10, <1>11 DEF MarshallingInv, ThreadInv, FramesInv

-----------------------------------------------------------------------------
(***************************************************************************)
(* The theorems.  Their assumption is the rules of use that the program    *)
(* keeps: a call does not return a std::array& and arrays that share a     *)
(* size parameter are of one length.                                       *)
(***************************************************************************)
LEMMA MarshallingInit == Init => MarshallingInv
<1> SUFFICES ASSUME Init PROVE MarshallingInv
  OBVIOUS
<1>1. MemoryInv(mem) /\ \A t \in Threads : Blocks(mem, t) = {}
  BY FreshFacts DEF Init
<1>2. TypeOK /\ \A t \in Threads : Depth(t) = 0
  BY <1>1 DEF Init, TypeOK, MemoryInv, Depth
<1>3. \A t \in Threads : HoldInv(t)
  BY <1>1, <1>2 DEF HoldInv, Pointers
<1> QED BY <1>1, <1>2, <1>3 DEF MarshallingInv

LEMMA MarshallingNext ==
  ASSUME RulesKept PROVE MarshallingInv /\ [Next]_vars => MarshallingInv'
<1> SUFFICES ASSUME MarshallingInv, [Next]_vars PROVE MarshallingInv'
  OBVIOUS
<1>1. CASE UNCHANGED vars
  <2>1. mem' = mem /\ stack' = stack /\ quiet' = quiet
    BY <1>1 DEF vars
  <2>2. TypeOK /\ MemoryInv(mem) /\ \A t \in Threads : ThreadInv(t)
    BY InvParts
  <2>3. \A t \in Threads : ThreadInv(t)'
    BY <2>1, <2>2, OtherThread
  <2>4. TypeOK' /\ MemoryInv(mem')
    BY <2>1, <2>2 DEF TypeOK
  <2> QED BY <2>3, <2>4 DEF MarshallingInv, ThreadInv, FramesInv
<1>2. CASE Next
  <2>1. PICK t \in Threads :
          \/ \E sig \in Calls[t] : Call(t, sig)
          \/ \E sig \in Callbacks : Callback(t, sig)
          \/ \E n \in Lengths : \/ ConvertArgument(t, n) \/ MarshalText(t, n)
                                \/ PassValue(t, n) \/ ReturnManaged(t, n)
          \/ \E n \in Lengths \ {0} : Native_Return(t, n)
          \/ At(t, "Native") /\ \E i \in DOMAIN Top(t).args : Native_Write(t, i)
          \/ ConvertThrows(t) \/ Try(t) \/ MarshalThrows(t) \/ Invoke(t)
          \/ FreeText(t) \/ FreeTextResult(t) \/ Finalize(t) \/ CopyBackThrows(t) \/ Return(t)
          \/ EnterManaged(t) \/ TakeResult(t) \/ ThreadExit(t)
    BY <1>2 DEF Next
  <2>2. ASSUME NEW sig \in Calls[t], Call(t, sig) PROVE MarshallingInv'
    BY <2>2, CallStep
  <2>3. ASSUME NEW sig \in Callbacks, Callback(t, sig) PROVE MarshallingInv'
    BY <2>3, CallbackStep
  <2>4. ASSUME NEW n \in Lengths,
               \/ ConvertArgument(t, n) \/ MarshalText(t, n)
               \/ PassValue(t, n) \/ ReturnManaged(t, n)
        PROVE  MarshallingInv'
    <3>1. n \in Nat
      BY LengthsAssumption
    <3> QED BY <2>4, <3>1, ConvertArgumentStep, MarshalTextStep, PassValueStep, ReturnManagedStep
  <2>5. ASSUME NEW n \in Lengths \ {0}, Native_Return(t, n) PROVE MarshallingInv'
    <3>1. n \in Nat
      BY LengthsAssumption
    <3> QED BY <2>5, <3>1, NativeReturnStep
  <2>6. ASSUME NEW i \in DOMAIN Top(t).args, Native_Write(t, i) PROVE MarshallingInv'
    BY <2>6, NativeWriteStep
  <2>7. CASE ConvertThrows(t)
    <3>1. stack[t] # <<>> /\ Pop(t) /\ mem' = mem /\ quiet' = quiet \ {t}
      BY <2>7 DEF ConvertThrows, At
    <3> QED BY <3>1, ThrowStep
  <2>8. CASE CopyBackThrows(t)
    <3>1. stack[t] # <<>> /\ Pop(t) /\ mem' = mem /\ quiet' = quiet \ {t}
      BY <2>8 DEF CopyBackThrows, At
    <3> QED BY <3>1, ThrowStep
  <2>9. CASE Try(t) \/ MarshalThrows(t) \/ Invoke(t) \/ EnterManaged(t)
    BY <2>9, TryStep, MarshalThrowsStep, InvokeStep, EnterManagedStep
  <2>10. CASE FreeText(t) \/ FreeTextResult(t) \/ Finalize(t)
    BY <2>10, FreeTextStep, FreeTextResultStep, FinalizeStep
  <2>11. CASE Return(t) \/ TakeResult(t) \/ ThreadExit(t)
    BY <2>11, ReturnStep, TakeResultStep, ThreadExitStep
  <2> QED BY <2>1, <2>2, <2>3, <2>4, <2>5, <2>6, <2>7, <2>8, <2>9, <2>10, <2>11
<1> QED BY <1>1, <1>2

\* The inductive invariant: buffers and blocks lie apart, every region has its header,
\* and each step of a call holds the pointers that its conversions have left it
\* (csharp_emitter.cpp:3712, 4122).
THEOREM MarshallingInductive == ASSUME RulesKept PROVE Spec => []MarshallingInv
BY MarshallingInit, MarshallingNext, PTL DEF Spec

\* Memory, frames and pointers are what their types say.
THEOREM MarshallingTypes == ASSUME RulesKept PROVE Spec => []TypeOK
<1>1. MarshallingInv => TypeOK
  BY DEF MarshallingInv
<1> QED BY <1>1, MarshallingInductive, PTL

LEMMA MarshallingBlocks == MarshallingInv => BlocksIntact
<1> SUFFICES ASSUME MarshallingInv PROVE BlocksIntact
  OBVIOUS
<1>1. MemoryInv(mem)
  BY DEF MarshallingInv
<1>2. ASSUME NEW t \in Threads, NEW r \in mem.regions[t]
      PROVE  /\ mem.header[mem.buffer[t] + r.offset] = r.offset
             /\ r.offset + r.size <= BufferSize
             /\ \A s \in mem.regions[t] \ {r} :
                  r.offset + r.size <= s.offset \/ s.offset + s.size <= r.offset
  BY <1>1 DEF MemoryInv, RegionInv, Apart
<1>3. ASSUME NEW b \in mem.heap
      PROVE  Range(b.at, b.size) \cap Occupied([mem EXCEPT !.heap = @ \ {b}]) = {}
  <2>1. b.at \in Nat /\ b.size \in Nat /\ b.size >= 1
    BY <1>1, HeapOutside, MemoryFields, BlockFields DEF MemoryInv
  <2>2. PICK m : m = [mem EXCEPT !.heap = @ \ {b}]
    OBVIOUS
  <2>3. m.buffer = mem.buffer /\ m.heap = mem.heap \ {b}
    BY <1>1, <2>2, MemoryFields DEF MemoryInv
  <2>4. ASSUME NEW t \in Threads, mem.buffer[t] # Null
        PROVE  Range(b.at, b.size) \cap Range(mem.buffer[t], BufferSize) = {}
    <3>1. Apart(b.at, b.size, mem.buffer[t], BufferSize)
      BY <1>1, <2>4 DEF MemoryInv, LayoutInv
    <3>2. mem.buffer[t] \in Int /\ BufferSize \in Nat /\ BufferSize >= 1
      BY <1>1, <2>4, MemoryFields, CellFacts, SizesAssumption DEF MemoryInv
    <3> QED BY <2>1, <3>1, <3>2, RangesApart
  <2>5. ASSUME NEW c \in mem.heap \ {b}
        PROVE  Range(b.at, b.size) \cap Range(c.at, c.size) = {}
    <3>1. Apart(b.at, b.size, c.at, c.size)
      BY <1>1 DEF MemoryInv, LayoutInv
    <3>2. c.at \in Nat /\ c.size \in Nat /\ c.size >= 1
      BY <1>1, MemoryFields, BlockFields DEF MemoryInv
    <3> QED BY <2>1, <3>1, <3>2, RangesApart
  <2>6. Range(b.at, b.size) \cap Occupied(m) = {}
    BY <2>3, <2>4, <2>5 DEF Occupied
  <2> QED BY <2>2, <2>6
<1> QED BY <1>2, <1>3 DEF BlocksIntact

\* Every allocation of a buffer keeps its header, and blocks share no memory, however
\* calls, callbacks and writes are interleaved (temporary_memory_allocator.cpp:61-96).
THEOREM MarshallingBlocksIntact == ASSUME RulesKept PROVE Spec => []BlocksIntact
BY MarshallingBlocks, MarshallingInductive, PTL

LEMMA MarshallingPointers == MarshallingInv => PointersLive
<1> SUFFICES ASSUME MarshallingInv, NEW t \in Threads, NEW i \in 1 .. Depth(t),
                    NEW p \in FramePointers(stack[t][i]),
                    PointerOf(stack[t][i], p) # Null
             PROVE  /\ PointerOf(stack[t][i], p) \in Pointers(mem, t)
                    /\ \A j \in 1 .. Depth(t) : \A q \in FramePointers(stack[t][j]) :
                         <<i, p>> # <<j, q>> =>
                           PointerOf(stack[t][j], q) # PointerOf(stack[t][i], p)
  BY DEF PointersLive
<1>1. HoldInv(t)
  BY DEF MarshallingInv
<1>2. ASSUME NEW j \in 1 .. Depth(t), NEW q \in FramePointers(stack[t][j])
      PROVE  /\ q[1] \in Places(stack[t][j])
             /\ PointerOf(stack[t][j], q) = Pointer(stack[t][j], q[1])
             /\ q = <<q[1], IF q[1] = 0 THEN "result" ELSE "argument">>
  <2>1. Len(stack[t][j].args) \in Nat
    BY FrameFields DEF MarshallingInv, TypeOK, Depth
  <2>2. CASE q = <<0, "result">>
    BY <2>1, <2>2 DEF Places, PointerOf, Pointer
  <2>3. CASE q \in (1 .. Len(stack[t][j].args)) \X {"argument"}
    BY <2>1, <2>3 DEF Places, PointerOf, Pointer
  <2> QED BY <2>2, <2>3 DEF FramePointers
<1>3. /\ Pointer(stack[t][i], p[1]) \in Pointers(mem, t)
      /\ \A j \in 1 .. Depth(t) : \A l \in Places(stack[t][j]) :
           Pointer(stack[t][j], l) = Pointer(stack[t][i], p[1]) => j = i /\ l = p[1]
  BY <1>1, <1>2 DEF HoldInv
<1>4. ASSUME NEW j \in 1 .. Depth(t), NEW q \in FramePointers(stack[t][j]),
             PointerOf(stack[t][j], q) = PointerOf(stack[t][i], p)
      PROVE  <<i, p>> = <<j, q>>
  <2>1. j = i /\ q[1] = p[1]
    BY <1>2, <1>3, <1>4
  <2>2. q = p
    BY <1>2, <2>1
  <2> QED BY <2>1, <2>2
<1> QED BY <1>2, <1>3, <1>4

\* No pointer that a call or a callback holds is freed under it, and none is freed twice
\* or on another thread (temporary_memory_allocator.cpp:76-96).
THEOREM MarshallingPointersLive == ASSUME RulesKept PROVE Spec => []PointersLive
BY MarshallingPointers, MarshallingInductive, PTL

LEMMA MarshallingQuiet == MarshallingInv => QuietThreadsHoldNothing
<1> SUFFICES ASSUME MarshallingInv, NEW t \in quiet, stack[t] = <<>>
             PROVE  Blocks(mem, t) = {}
  BY DEF QuietThreadsHoldNothing
<1>1. t \in Threads /\ HoldInv(t) /\ Depth(t) = 0
  BY DEF MarshallingInv, TypeOK, Depth
<1>2. Pointers(mem, t) = {}
  BY <1>1 DEF HoldInv
<1> QED BY <1>2 DEF Pointers

\* A call that has returned has freed all that it and the stub of its import have
\* allocated, unless something has thrown outside a try block or a callback has passed
\* a value (csharp_emitter.cpp:3712, 4122; cabi_emitter.cpp:305).
THEOREM MarshallingQuietThreads == ASSUME RulesKept PROVE Spec => []QuietThreadsHoldNothing
BY MarshallingQuiet, MarshallingInductive, PTL
=============================================================================
