--------------------------- MODULE TemporaryMemory ---------------------------
(***************************************************************************)
(* temporary_memory_malloc and temporary_memory_free over the flat memory  *)
(* of a process.  Each thread has a buffer that an OffsetAllocator parcels *)
(* out; an allocation is preceded in the buffer by its header, and what    *)
(* does not fit comes from std::malloc.  free tells the two apart by the   *)
(* address alone and believes the header it finds.  The allocator is taken *)
(* for what RegionAllocator promises: a region disjoint from the others.   *)
(***************************************************************************)
EXTENDS Integers, FiniteSets

CONSTANTS
  Threads,
  Cells,         \* the size of the memory
  BufferSize,    \* kBufferSize
  HeaderSize,    \* kHeaderSize
  Null

ASSUME SizesAssumption ==
  /\ Cells \in Nat /\ BufferSize \in Nat /\ HeaderSize \in Nat \ {0}
  /\ HeaderSize < BufferSize /\ BufferSize <= Cells
ASSUME NullAssumption == Null \notin Int

Cell == 1 .. Cells
Range(at, size) == at .. at + size - 1

\* An allocation of a thread's OffsetAllocator, and a block of std::malloc.  `by`
\* remembers the thread that asked for it; only properties read it.
Offset == 0 .. BufferSize - HeaderSize - 1
Region == [offset : Offset, size : 1 .. BufferSize]
Block == [at : Cell, size : 1 .. Cells, by : Threads]

\* `buffer` is the address of a thread's buffer, Null before it is used; `header`
\* is the offset that an allocation's header at a cell records, Null for data.
Memory == [buffer : [Threads -> Cell \cup {Null}],
           regions : [Threads -> SUBSET Region],
           heap : SUBSET Block,
           header : [Cell -> Offset \cup {Null}]]

Fresh == [buffer |-> [t \in Threads |-> Null], regions |-> [t \in Threads |-> {}],
          heap |-> {}, header |-> [c \in Cell |-> Null]]

-----------------------------------------------------------------------------
Occupied(m) ==
  UNION ({Range(m.buffer[t], BufferSize) : t \in {u \in Threads : m.buffer[u] # Null}}
           \cup {Range(b.at, b.size) : b \in m.heap})

Lowest(S) == {a \in S : \A b \in S : a <= b}

\* The address that std::malloc returns; if there is none, it is a null pointer.  The
\* lowest is taken, so that blocks lie against buffers and against each other.
Room(m, size) == Lowest({a \in Cell : Range(a, size) \subseteq Cell \ Occupied(m)})

\* The thread's state, made when it first allocates or frees.
Constructed(m, t) ==
  IF m.buffer[t] # Null THEN {m}
  ELSE {[m EXCEPT !.buffer[t] = a] : a \in Room(m, BufferSize)}

\* Data is written to a payload.
Written(m, at, size) ==
  [m EXCEPT !.header = [c \in Cell |-> IF c \in Range(at, size) THEN Null ELSE m.header[c]]]

\* What a freed header says is forgotten: only a stray pointer could read it.
Destroyed(m, t) ==
  [Written(m, m.buffer[t], BufferSize) EXCEPT !.buffer[t] = Null, !.regions[t] = {}]

\* Where the allocator of t may put a region.
Gaps(m, t, size) ==
  {o \in 0 .. BufferSize - size :
     \A r \in m.regions[t] : o + size <= r.offset \/ r.offset + r.size <= o}

Result(m, ptr) == [mem |-> m, ptr |-> ptr]

FromHeap(m, t, size) ==
  IF Room(m, size) = {} THEN {Result(m, Null)}
  ELSE {Result([Written(m, a, size) EXCEPT
                  !.heap = @ \cup {[at |-> a, size |-> size, by |-> t]}], a) :
          a \in Room(m, size)}

\* Mutant: the header records the address of the region.
FromBufferAddress(m, t, size, total) ==
  {Result([Written(m, m.buffer[t] + o + HeaderSize, size) EXCEPT
             !.regions[t] = @ \cup {[offset |-> o, size |-> total]},
             !.header[m.buffer[t] + o] = m.buffer[t] + o],
          m.buffer[t] + o + HeaderSize) : o \in Gaps(m, t, total)}

\* A region with its header and the payload that the caller fills.
FromBuffer(m, t, size, total) ==
  {Result([Written(m, m.buffer[t] + o + HeaderSize, size) EXCEPT
             !.regions[t] = @ \cup {[offset |-> o, size |-> total]},
             !.header[m.buffer[t] + o] = o],
          m.buffer[t] + o + HeaderSize) : o \in Gaps(m, t, total)}

\* Mutant: the allocator is asked for the payload only.
MallocPayload(mem, t, size) ==
  IF size = 0 THEN {Result(m, Null) : m \in Constructed(mem, t)}
  ELSE UNION {FromBuffer(m, t, size, size) \cup FromHeap(m, t, size) : m \in Constructed(mem, t)}

\* The allocator may refuse a request that some gap would hold: its freelist is empty,
\* or the size rounds up to a bin above that of the gap.
Malloc(mem, t, size) ==
  IF size = 0 THEN {Result(m, Null) : m \in Constructed(mem, t)}
  ELSE UNION {FromBuffer(m, t, size, HeaderSize + size) \cup FromHeap(m, t, size) :
                m \in Constructed(mem, t)}

\* Mutant: the end of the buffer is taken for a part of it.
InBufferOrAtEnd(m, t, ptr) ==
  /\ m.buffer[t] # Null
  /\ m.buffer[t] + HeaderSize <= ptr /\ ptr <= m.buffer[t] + BufferSize

InBuffer(m, t, ptr) ==
  /\ m.buffer[t] # Null
  /\ m.buffer[t] + HeaderSize <= ptr /\ ptr < m.buffer[t] + BufferSize

Free(m, t, ptr) ==
  IF ptr = Null THEN m
  ELSE IF InBuffer(m, t, ptr)
    THEN [Written(m, ptr - HeaderSize, HeaderSize) EXCEPT
            !.regions[t] = {r \in @ : r.offset # m.header[ptr - HeaderSize]}]
    ELSE [m EXCEPT !.heap = {b \in @ : b.at # ptr}]

-----------------------------------------------------------------------------
\* What thread t has been given and has not given back, by address.
Blocks(m, t) ==
  {[at |-> m.buffer[t] + r.offset + HeaderSize, size |-> r.size - HeaderSize] : r \in m.regions[t]}
    \cup {[at |-> b.at, size |-> b.size] : b \in {c \in m.heap : c.by = t}}

Pointers(m, t) == {b.at : b \in Blocks(m, t)}
=============================================================================
