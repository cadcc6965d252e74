------------------------ MODULE MarshallingInvariant ------------------------
(***************************************************************************)
(* The inductive invariant of CallMarshalling: where buffers, blocks and   *)
(* headers lie in memory, and which pointers each step of a call holds.    *)
(***************************************************************************)
EXTENDS CallMarshalling

Apart(a, n, b, k) == a + n <= b \/ b + k <= a

\* Buffers and heap blocks lie in memory and share none of it.
LayoutInv(m) ==
  /\ \A t \in Threads :
       IF m.buffer[t] = Null THEN m.regions[t] = {} ELSE m.buffer[t] + BufferSize - 1 <= Cells
  /\ \A t, u \in Threads : t # u /\ m.buffer[t] # Null /\ m.buffer[u] # Null =>
       Apart(m.buffer[t], BufferSize, m.buffer[u], BufferSize)
  /\ \A b \in m.heap :
       /\ b.at + b.size - 1 <= Cells
       /\ \A t \in Threads : m.buffer[t] # Null => Apart(b.at, b.size, m.buffer[t], BufferSize)
       /\ \A c \in m.heap : b # c => Apart(b.at, b.size, c.at, c.size)

\* Regions lie in their buffer and share none of it; each has a payload and its header.
RegionInv(m) ==
  \A t \in Threads : \A r \in m.regions[t] :
    /\ HeaderSize < r.size /\ r.offset + r.size <= BufferSize
    /\ m.header[m.buffer[t] + r.offset] = r.offset
    /\ \A s \in m.regions[t] : r # s => Apart(r.offset, r.size, s.offset, s.size)

MemoryInv(m) == m \in Memory /\ LayoutInv(m) /\ RegionInv(m)

-----------------------------------------------------------------------------
CallSteps == {"Convert", "Marshal", "Native", "Cleanup", "Finally"}

\* The arguments that a step goes through, one by one.
KindsOf(step) ==
  CASE step = "Convert"                -> Arrays
    [] step = "Finally"                -> Buffered
    [] step \in {"Marshal", "Cleanup"} -> {"text"}
    [] step = "Arguments"              -> {"value"}
    [] OTHER                           -> {}

\* The argument i may be in temporary memory: it has been converted and not been freed.
MayHold(f, i) ==
  LET kind == f.sig.args[i] IN
  \/ kind \in Buffered /\ \/ f.step \in {"Marshal", "Native", "Cleanup"}
                          \/ f.step = "Convert" /\ i < f.next
                          \/ f.step = "Finally" /\ i >= f.next
  \/ kind = "text" /\ \/ f.step = "Native"
                      \/ f.step = "Marshal" /\ i < f.next
                      \/ f.step = "Cleanup" /\ i >= f.next
  \/ kind = "value" /\ \/ f.step \in {"Managed", "Result"}
                       \/ f.step = "Arguments" /\ i < f.next

\* So may the result.
MayReturn(f) ==
  \/ f.step \in {"Cleanup", "Result"} /\ f.sig.result \in {"text", "array"}
  \/ f.step = "Finally" /\ f.sig.result = "array"

FrameInv(t, f) ==
  /\ IF f.step \in CallSteps THEN f.sig \in Calls[t] /\ f.sig.result # "reference"
                             ELSE f.sig \in Callbacks
  /\ Len(f.args) = Len(f.sig.args) /\ Len(f.lengths) = Len(f.sig.args)
  /\ f.next >= 1
  /\ f.step \notin {"Native", "Managed", "Result"} /\ f.next <= Len(f.sig.args) =>
       f.sig.args[f.next] \in KindsOf(f.step)
  /\ \A i \in 1 .. Len(f.args) : f.args[i] # Null => MayHold(f, i)
  /\ f.result # Null => MayReturn(f)

\* Until the function has returned, what it is told of an array is the length of its
\* block, or that there is nothing.
SizeInv(t, f) ==
  f.step \in {"Convert", "Marshal", "Native"} =>
    \A i \in 1 .. Len(f.args) : f.args[i] # Null /\ f.sig.args[i] \in Buffered =>
      /\ [at |-> f.args[i], size |-> f.lengths[i]] \in Blocks(mem, t)
      /\ Count(f, i) \in {0, f.lengths[i]}

\* The pointers of a frame: 0 is the result, the others are arguments.
Places(f) == 0 .. Len(f.args)
Pointer(f, k) == IF k = 0 THEN f.result ELSE f.args[k]

\* PointersLive, and a thread that is quiet holds every block that it has been given.
HoldInv(t) ==
  /\ \A i \in 1 .. Depth(t) : \A k \in Places(stack[t][i]) :
       Pointer(stack[t][i], k) # Null =>
         /\ Pointer(stack[t][i], k) \in Pointers(mem, t)
         /\ \A j \in 1 .. Depth(t) : \A l \in Places(stack[t][j]) :
              Pointer(stack[t][j], l) = Pointer(stack[t][i], k) => j = i /\ l = k
  /\ t \in quiet =>
       /\ \A a \in Pointers(mem, t) :
            \E i \in 1 .. Depth(t) : \E k \in Places(stack[t][i]) : Pointer(stack[t][i], k) = a
       /\ \A i \in 1 .. Depth(t) :
            stack[t][i].step \notin CallSteps => ~PassesValues(stack[t][i].sig)

\* BlocksIntact, PointersLive and QuietThreadsHoldNothing, made inductive.
MarshallingInv ==
  /\ TypeOK /\ MemoryInv(mem)
  /\ \A t \in Threads :
       /\ HoldInv(t)
       /\ \A i \in 1 .. Depth(t) : FrameInv(t, stack[t][i]) /\ SizeInv(t, stack[t][i])
=============================================================================
