--------------------------- MODULE CallMarshalling ---------------------------
(***************************************************************************)
(* What a generated call does with temporary memory.  The wrapper converts *)
(* its array arguments one by one before its try block; the stub of the    *)
(* import converts texts inside one of its own, calls, takes a text result *)
(* over and frees; the wrapper's finally block copies back, frees, and     *)
(* frees an array result.  Native code may call back, and the callback may *)
(* make calls, on the same thread and from the same buffer.                *)
(***************************************************************************)
EXTENDS TemporaryMemory, Sequences

CONSTANTS
  Calls,        \* the signatures [args, result, shared] that a thread calls
  Callbacks,    \* signatures of virtual methods and std::functions: [args, result]
  Lengths,      \* of arrays and texts, in cells
  MaxDepth,     \* the calls and callbacks of a thread that may be nested in each other
  Foreign,      \* the address of an object that native code owns
  Rules         \* the rules of use that the program keeps

\* "array" is copied in, "inout" also back; "pinned" needs no buffer.  "reference"
\* is a std::array& that is returned, "value" a text or std::array by value.
ArgumentKinds == {"array", "inout", "pinned", "text"}
ResultKinds == {"plain", "text", "array", "reference"}

ASSUME SignaturesAssumption ==
  /\ Calls \in [Threads ->
       SUBSET [args : Seq(ArgumentKinds), result : ResultKinds, shared : BOOLEAN]]
  /\ Callbacks \subseteq [args : Seq({"plain", "value"}), result : {"plain", "text", "array"}]
ASSUME LengthsAssumption == Lengths \subseteq Nat /\ MaxDepth \in [Threads -> Nat]
ASSUME ForeignAssumption == Foreign \in Int \ Cell
ASSUME RulesAssumption == Rules \subseteq {"NoArrayReference", "EqualLengths"}

VARIABLES
  mem,      \* the memory
  stack,    \* the calls and callbacks that each thread is in, the innermost last
  quiet     \* threads where no step has yet thrown or passed a callback a value

vars == <<mem, stack, quiet>>

\* `args` and `result` are pointers to temporary memory, Null where there is none;
\* `lengths` of the arrays.  `next` is the argument that the step has got to.
Frame == [sig : (UNION {Calls[t] : t \in Threads}) \cup Callbacks,
          step : {"Convert", "Marshal", "Native", "Cleanup", "Finally",
                  "Arguments", "Managed", "Result"},
          next : Nat, args : Seq(Cell \cup {Null}), lengths : Seq(Nat),
          result : Cell \cup {Null, Foreign}]

Depth(t) == Len(stack[t])
Top(t) == stack[t][Depth(t)]

\* The thread is in its innermost frame at a step.
At(t, step) == stack[t] # <<>> /\ Top(t).step = step

Push(t, frame) == stack' = [stack EXCEPT ![t] = Append(@, frame)]
Pop(t) == stack' = [stack EXCEPT ![t] = SubSeq(@, 1, Len(@) - 1)]
Update(t, frame) == stack' = [stack EXCEPT ![t][Depth(t)] = frame]

\* The first argument from i on that is of one of the kinds, or one after the last.
NextOf(sig, kinds, i) ==
  LET found == {j \in i .. Len(sig.args) : sig.args[j] \in kinds} IN
  IF found = {} THEN Len(sig.args) + 1 ELSE CHOOSE j \in found : \A k \in found : j <= k

Pending(t) == Top(t).next <= Len(Top(t).sig.args)

Advance(frame, kinds) == [frame EXCEPT !.next = NextOf(frame.sig, kinds, frame.next + 1)]

Goto(frame, step, kinds) == [frame EXCEPT !.step = step, !.next = NextOf(frame.sig, kinds, 1)]

\* The arrays that are converted into a buffer, and all arrays: of one that is pinned
\* only the length is taken.
Buffered == {"array", "inout"}
Arrays == Buffered \cup {"pinned"}

NewFrame(sig, step, kinds) ==
  Goto([sig |-> sig, step |-> step, next |-> 1, args |-> [i \in 1 .. Len(sig.args) |-> Null],
        lengths |-> [i \in 1 .. Len(sig.args) |-> 0], result |-> Null], step, kinds)

Init ==
  /\ mem = Fresh
  /\ stack = [t \in Threads |-> <<>>]
  /\ quiet = Threads

-----------------------------------------------------------------------------
(***************************************************************************)
(* The wrapper, before its try block.                                      *)
(***************************************************************************)
Call(t, sig) ==
  /\ stack[t] = <<>> \/ At(t, "Managed")
  /\ Depth(t) < MaxDepth[t]
  /\ "NoArrayReference" \in Rules => sig.result # "reference"
  /\ Push(t, NewFrame(sig, "Convert", Arrays))
  /\ UNCHANGED <<mem, quiet>>

\* Arrays may share a size parameter, which is then the length of the first.
Count(frame, i) ==
  frame.lengths[IF frame.sig.shared THEN NextOf(frame.sig, Arrays, 1) ELSE i]

\* The array needs a buffer: it is neither pinned nor empty.
Fills(frame, length) == length # 0 /\ frame.sig.args[frame.next] \in Buffered

\* ArrayToNativeFixed and ArrayToNativeCounted, or the length of a pinned array.
ConvertArgument(t, length) ==
  /\ At(t, "Convert") /\ Pending(t)
  /\ "EqualLengths" \in Rules =>
       Count(Top(t), Top(t).next) = length \/ Count(Top(t), Top(t).next) = 0
  /\ \E r \in IF Fills(Top(t), length) THEN Malloc(mem, t, length) ELSE {Result(mem, Null)} :
       /\ Fills(Top(t), length) => r.ptr # Null
       /\ mem' = r.mem
       /\ Update(t, Advance([Top(t) EXCEPT !.args[Top(t).next] = r.ptr,
                                           !.lengths[Top(t).next] = length], Arrays))
  /\ UNCHANGED quiet

\* An array of the wrong length, memory that runs out, an element that does not
\* convert, a pinned array that is null: nothing frees what has been converted.
ConvertThrows(t) ==
  /\ At(t, "Convert")
  /\ \E i \in 1 .. Len(Top(t).args) : Top(t).sig.args[i] # "text"
  /\ Pop(t)
  /\ quiet' = quiet \ {t}
  /\ UNCHANGED mem

\* The arrays are validated and pinned, the try block begins.
Try(t) ==
  /\ At(t, "Convert") /\ ~Pending(t)
  /\ Update(t, Goto(Top(t), "Marshal", {"text"}))
  /\ UNCHANGED <<mem, quiet>>

-----------------------------------------------------------------------------
(***************************************************************************)
(* The stub of the import, with its own try block.                         *)
(***************************************************************************)
MarshalText(t, length) ==
  /\ At(t, "Marshal") /\ Pending(t)
  /\ \E r \in Malloc(mem, t, length + 1) :
       /\ r.ptr # Null
       /\ mem' = r.mem
       /\ Update(t, Advance([Top(t) EXCEPT !.args[Top(t).next] = r.ptr], {"text"}))
  /\ UNCHANGED quiet

\* Memory runs out.
MarshalThrows(t) ==
  /\ At(t, "Marshal") /\ Pending(t)
  /\ Update(t, Goto(Top(t), "Cleanup", {"text"}))
  /\ UNCHANGED <<mem, quiet>>

Invoke(t) ==
  /\ At(t, "Marshal") /\ ~Pending(t)
  /\ Update(t, [Top(t) EXCEPT !.step = "Native"])
  /\ UNCHANGED <<mem, quiet>>

\* The function writes an array that it may change, all of the count it was given:
\* that of the first array that has the size parameter.
Native_Write(t, i) ==
  /\ At(t, "Native") /\ i \in DOMAIN Top(t).args
  /\ Top(t).sig.args[i] = "inout" /\ Top(t).args[i] # Null
  /\ mem' = Written(mem, Top(t).args[i], Count(Top(t), i))
  /\ UNCHANGED <<stack, quiet>>

\* Mutant: a text result is a pointer into the string.
Native_ReturnAddress(t, length) ==
  /\ At(t, "Native")
  /\ Update(t, Goto([Top(t) EXCEPT !.result = IF @ = Null /\ Top(t).sig.result = "text"
                                              THEN Foreign ELSE Null], "Cleanup", {"text"}))
  /\ UNCHANGED <<mem, quiet>>

\* It returns: to_c_abi copies a text or an array, and gives a null pointer if there
\* is no memory; of a reference it gives the address.
Native_Return(t, length) ==
  /\ At(t, "Native")
  /\ \E r \in CASE Top(t).sig.result = "plain"     -> {Result(mem, Null)}
                [] Top(t).sig.result = "text"      -> Malloc(mem, t, length + 1)
                [] Top(t).sig.result = "array"     -> Malloc(mem, t, length)
                [] Top(t).sig.result = "reference" -> {Result(mem, Foreign)} :
       /\ mem' = r.mem
       /\ Update(t, Goto([Top(t) EXCEPT !.result = r.ptr], "Cleanup", {"text"}))
  /\ UNCHANGED quiet

\* Free of the marshallers: the texts, and then a text result, which has been read.
FreeText(t) ==
  /\ At(t, "Cleanup") /\ Pending(t)
  /\ mem' = Free(mem, t, Top(t).args[Top(t).next])
  /\ Update(t, Advance([Top(t) EXCEPT !.args[Top(t).next] = Null], {"text"}))
  /\ UNCHANGED quiet

FreeTextResult(t) ==
  /\ At(t, "Cleanup") /\ ~Pending(t)
  /\ LET text == Top(t).sig.result = "text" IN
     /\ mem' = IF text THEN Free(mem, t, Top(t).result) ELSE mem
     /\ Update(t, Goto([Top(t) EXCEPT !.result = IF text THEN Null ELSE @], "Finally", Buffered))
  /\ UNCHANGED quiet

-----------------------------------------------------------------------------
(***************************************************************************)
(* The wrapper's finally block.  An array result has been copied by then,  *)
(* or its elements did not convert; it is freed in either case.            *)
(***************************************************************************)
\* NativeToExistingArray for an array that may have changed, and FreeNativeBuffer.
Finalize(t) ==
  /\ At(t, "Finally") /\ Pending(t)
  /\ mem' = Free(mem, t, Top(t).args[Top(t).next])
  /\ Update(t, Advance([Top(t) EXCEPT !.args[Top(t).next] = Null], Buffered))
  /\ UNCHANGED quiet

\* An element does not convert back: the rest of the block is skipped.
CopyBackThrows(t) ==
  /\ At(t, "Finally") /\ Pending(t)
  /\ Top(t).sig.args[Top(t).next] = "inout" /\ Top(t).args[Top(t).next] # Null
  /\ Pop(t)
  /\ quiet' = quiet \ {t}
  /\ UNCHANGED mem

\* The finalize statement of the result, and the end of the call.
Return(t) ==
  /\ At(t, "Finally") /\ ~Pending(t)
  /\ mem' = Free(mem, t, Top(t).result)
  /\ Pop(t)
  /\ UNCHANGED quiet

-----------------------------------------------------------------------------
(***************************************************************************)
(* A callback: a director's method or a managed std::function.             *)
(***************************************************************************)
PassesValues(sig) ==
  sig.result = "array" \/ \E i \in DOMAIN sig.args : sig.args[i] = "value"

Callback(t, sig) ==
  /\ At(t, "Native")
  /\ Depth(t) < MaxDepth[t]
  /\ Push(t, NewFrame(sig, "Arguments", {"value"}))
  /\ quiet' = IF PassesValues(sig) THEN quiet \ {t} ELSE quiet
  /\ UNCHANGED mem

\* to_c_abi of an argument by value.
PassValue(t, length) ==
  /\ At(t, "Arguments") /\ Pending(t)
  /\ \E r \in Malloc(mem, t, length + 1) :
       /\ mem' = r.mem
       /\ Update(t, Advance([Top(t) EXCEPT !.args[Top(t).next] = r.ptr], {"value"}))
  /\ UNCHANGED quiet

\* The managed side copies the arguments and runs its code; nobody frees them.
EnterManaged(t) ==
  /\ At(t, "Arguments") /\ ~Pending(t)
  /\ Update(t, [Top(t) EXCEPT !.step = "Managed"])
  /\ UNCHANGED <<mem, quiet>>

\* It returns a text or an array in temporary memory.
ReturnManaged(t, length) ==
  /\ At(t, "Managed")
  /\ \E r \in IF Top(t).sig.result = "plain" THEN {Result(mem, Null)}
              ELSE Malloc(mem, t, length + 1) :
       /\ Top(t).sig.result # "plain" => r.ptr # Null
       /\ mem' = r.mem
       /\ Update(t, [Top(t) EXCEPT !.step = "Result", !.result = r.ptr])
  /\ UNCHANGED quiet

\* The native side copies the result, and frees a text only.
TakeResult(t) ==
  /\ At(t, "Result")
  /\ mem' = IF Top(t).sig.result = "text" THEN Free(mem, t, Top(t).result) ELSE mem
  /\ Pop(t)
  /\ UNCHANGED quiet

\* A thread ends, and its buffer with it.
ThreadExit(t) ==
  /\ stack[t] = <<>> /\ mem.buffer[t] # Null
  /\ mem' = Destroyed(mem, t)
  /\ UNCHANGED <<stack, quiet>>

-----------------------------------------------------------------------------
Next ==
  \E t \in Threads :
    \/ \E sig \in Calls[t] : Call(t, sig)
    \/ \E sig \in Callbacks : Callback(t, sig)
    \/ \E n \in Lengths : \/ ConvertArgument(t, n) \/ MarshalText(t, n)
                          \/ PassValue(t, n) \/ ReturnManaged(t, n)
    \/ \E n \in Lengths \ {0} : Native_Return(t, n)
    \/ At(t, "Native") /\ \E i \in DOMAIN Top(t).args : Native_Write(t, i)
    \/ ConvertThrows(t) \/ Try(t) \/ MarshalThrows(t) \/ Invoke(t)
    \/ FreeText(t) \/ FreeTextResult(t) \/ Finalize(t) \/ CopyBackThrows(t) \/ Return(t)
    \/ EnterManaged(t) \/ TakeResult(t) \/ ThreadExit(t)

Spec == Init /\ [][Next]_vars

-----------------------------------------------------------------------------
TypeOK ==
  /\ mem \in Memory
  /\ stack \in [Threads -> Seq(Frame)]
  /\ quiet \subseteq Threads

\* Every allocation of a thread's buffer has its header before it, which says where
\* the allocation is, whatever has been written to the payloads meanwhile
\* (temporary_memory_allocator.cpp:67, 90); blocks share no memory.
BlocksIntact ==
  /\ \A t \in Threads : \A r \in mem.regions[t] :
       /\ mem.header[mem.buffer[t] + r.offset] = r.offset
       /\ r.offset + r.size <= BufferSize
       /\ \A s \in mem.regions[t] \ {r} :
            r.offset + r.size <= s.offset \/ s.offset + s.size <= r.offset
  /\ \A b \in mem.heap : Range(b.at, b.size) \cap Occupied([mem EXCEPT !.heap = @ \ {b}]) = {}

FramePointers(f) ==
  (1 .. Len(f.args)) \X {"argument"} \cup {<<0, "result">>}

PointerOf(f, p) == IF p[2] = "result" THEN f.result ELSE f.args[p[1]]

\* What a call or a callback holds and will free is a block of its own thread that
\* nobody has freed, and no two hold the same one: every block is freed on the thread
\* it was made on, once (temporary_memory_allocator.cpp:76-96).
PointersLive ==
  \A t \in Threads : \A i \in 1 .. Depth(t) : \A p \in FramePointers(stack[t][i]) :
    LET ptr == PointerOf(stack[t][i], p) IN
    ptr # Null =>
      /\ ptr \in Pointers(mem, t)
      /\ \A j \in 1 .. Depth(t) : \A q \in FramePointers(stack[t][j]) :
           <<i, p>> # <<j, q>> => PointerOf(stack[t][j], q) # ptr

\* A thread that is in no call holds no temporary memory, unless a conversion has
\* thrown outside a try block or a callback has been given or has returned a value
\* (csharp_emitter.cpp:3712, 4122; cabi_emitter.cpp:305).
QuietThreadsHoldNothing ==
  \A t \in quiet : stack[t] = <<>> => Blocks(mem, t) = {}
=============================================================================
