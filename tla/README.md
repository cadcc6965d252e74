# csbind23 in TLA+

csbind23 generates C# bindings for C++ code. A C++ program declares what it wants
bound (`bindings_generator.hpp`), and the generator emits two things that must
agree: a C ABI layer in C++ (`cabi_emitter.cpp`) and a managed layer in C#
(`csharp_emitter.cpp`) on top of a small hand-written runtime (`src/src/cs/`). What
is hard about the result is what happens at run time on the border: two heaps, two
notions of lifetime, a garbage collector with a finalizer thread, and virtual calls
that cross from C++ back into C#.

This directory specifies that run-time behaviour, model-checks it with TLC and
proves parts of it with TLAPS. The line numbers of every definition are in the `map`
of `PROJECT.json`.

## The system

| Component | State | Operations | Properties that make it correct |
|---|---|---|---|
| Class wrappers and their life cycle (`csharp_emitter.cpp` class part, `cabi_emitter.cpp` directors, `csbind23.ownership.g.cs`, `csbind23.instance_cache.g.cs`) | native objects, wrapper fields `_cPtr`, `_ownership`, override masks, the cache of each class, the callback table of each director | constructors, wrapping of returned pointers, method and virtual calls, `SetOwnership`, `Dispose`, finalizer, collection | no use after free, no double destroy, the cache finds the live wrapper, a virtual call reaches the managed override, owned garbage is destroyed |
| OffsetAllocator (`src/src/OffsetAllocator/`) | node array, bin lists, two bit masks, stack of spare nodes | `reset`, `allocate`, `free`, `storageReport`, `storageReportFull` | allocations are disjoint regions that stay put, free space is coalesced and never lost, a fit is found when a bin admits one |
| Temporary memory (`temporary_memory_allocator.cpp`, `csbind23.memory.g.cs`, argument marshalling) | a buffer and an OffsetAllocator for each thread, headers in the buffer | allocate, free, fall-back to `malloc`, the buffers of a call's arguments | each buffer goes back once and to where it came from; a call leaves none behind |
| Callables (`std/functional.hpp`, `csbind23.callbacks.g.cs`) | reference count and `GCHandle` of a bridge, owner table of native functions | copy, call, release, wrap, unwrap | a delegate lives as long as a native copy of it; the last release frees, once |
| Std.String (`csbind23_stl.String.partial.cs`, `std/string.hpp`) | native string, managed cache | mutation, append, native mutation, read | the cache equals the native value |
| Std containers (`csbind23_stl.{Vector,Map,UnorderedMap}.partial.cs`, `std/{vector,map}.hpp`) | native container, index of an enumerator | element access, enumeration, removal | enumeration meets each entry once; elements have one owner |
| C ABI emitter, C# emitter, emitter IR utilities | none between runs: functions from the IR to text | class and module order, virtual methods, generic dispatch, exported and imported symbols | what the C# layer imports the C ABI layer exports; slots and masks agree |
| Bindings generator and IR (`bindings_generator.hpp/.cpp`, `ir.hpp`) | modules, classes, declarations | builder calls, module imports, base resolution, `infer_ownership` | what cannot be resolved is refused; both files come from the same declarations |
| Converters (`cabi/converter.hpp`, `converter_internal.hpp`) | none | templates that name types and render the conversion and finalize expressions of a call | what they allocate is freed on every path (checked where the calls are) |
| Text writer, naming, build integration | none | formatting, CMake | not specified here |

**How they interact.** A wrapper method marshals its arguments (temporary memory,
which asks OffsetAllocator for space), calls the C ABI function with the raw handle,
and the native code may call back through a director's callback table into the
managed cache and from there into an override. Returned pointers are wrapped again
by `WrapPolymorphic_*`. `Dispose()` on any thread and the finalizer thread both run
the emitted `ReleaseBase`. The emitters decide at generation time which of these
steps exist for a class; the models are of what they emit.

**What is hard.** (1) Three parties free memory: the program through `Dispose`, the
finalizer, native code. (2) Leaving a native object is three calls (director, cache,
heap), and addresses are reused in between. (3) The cache holds weak references,
which die before the finalizer runs. (4) A second wrapper of the same object shares
the cache slot and the callback table. (5) A running call holds only a raw pointer.
(6) In OffsetAllocator, unsigned arithmetic is only safe because of an invariant
that ties bins to sizes. (7) A call in progress may be entered again from below by a
callback, on the same temporary buffer. (8) A function crosses the border with two
reference counts and a garbage collector on its way, in chains when it crosses more
than once. (9) A managed cache of a native text is right only as long as every
writer is known. (10) One generic C# class stands for several C++ types, told apart
at run time. (11) Two emitters read one description with different filters and must
come to the same list. `PROJECT.json` lists each hazard at its line with the
properties that would catch it.

## The modules

### WrapperLifecycle

One step is one call that the emitted code makes into native code or into the cache;
each of them is atomic by itself (the cache locks), a wrapper operation made of
several is not, so all interleavings of threads and the finalizer at those points
are explored. Correspondence to the code:

| In the model | In the code |
|---|---|
| `native[a].kind`, `.slot` | the object at an address: plain or director; whether its callback table is filled (`X_connect_director`) |
| `wrapper[w]` | `_cPtr`, `_ownership`, the override flags computed in the constructor |
| `registry[c]` | `__csbind23_registry` of the class, `DefaultInstanceCache<T>` |
| `New`, `Register`, `Connect` | public constructor: zero-handle base constructor, create, `SetHandle`, `InitializeDerivedOverrideFlags`, cache, director |
| `WrapBorrowed`, `WrapOwned`, `BaseRegister`, `BaseConnect`, `DerivedRegister` | internal constructor, base class first, for a returned pointer and for an object returned by value |
| `Call`, `NativeCall`, `Native_Dispatch`, `Callback`, `Override`, `Return` | wrapper method or native code; the director's virtual method; the emitted callback with its `TryGet` and mask test |
| `Dispose`, `Finalize`, `Disconnect`, `Unregister`, `Destroy`, `Finish` | `Dispose()`, `~CsBind23Object()`, the emitted `Dispose(bool)` of a root class and `CsBind23Object.Dispose(bool)` |
| `Drop`, `Collect`, `NativeDelete` | the program, the runtime and native code (external) |

There are two classes: `Root`, without a generated base, and `Derived`, whose
primary base is `Root`. Only `Root` emits `Dispose(bool)`, so the cache and the
director of `Derived` are not left on disposal. This is visible in the model: a
`Derived` director keeps its callback until destroyed, which is why two properties
speak of Root directors.

`Constructed` says which of the two have a registered constructor, whose result the
wrapper owns. A class has a `_destroy` only then, and `Dispose(bool)` calls only that of
`Root` (`EmitsDestroy`; `csharp_emitter.cpp:4443`, `cabi_emitter.cpp:798`). Without it an
owned object, returned by value or of class `Derived`, is never destroyed. The model
leaves it on the heap, and `OwnedGarbageIsFreed` is stated for classes with a `_destroy`;
the safety theorems hold for either. Constructors registered with `Ownership::Borrowed`
are not modelled.

`native[a].aliased` is a history variable: it remembers that a second wrapper was
made.

**Rules of use.** C++ lifetimes cannot be safe whatever the program does. The model
names what a program must promise, and `Rules` says which promises are kept:

- `KeepAlive`: the receiver of a call stays referenced until the call returns (the
  emitted code has no `GC.KeepAlive`).
- `Exclusive`: no thread disposes an object that another thread works on, and
  ownership is taken only of an object nobody owns or works on (the emitted code has
  no lock).
- `Scoped`: a borrowing wrapper is disposed by the program while its native object
  exists, and an owner is not dropped or disposed under the feet of borrowers.

The safety runs and the memory safety theorems assume the three; type correctness is
proved without any. Dropping any of the rules makes `NoUseAfterFree` fail.
A fourth one is built into the actions: nothing is called on a wrapper that has been
disposed (`Usable`). The emitted method would pass its zero handle on
(`csharp_emitter.cpp:3763`).

### SmallFloat, OffsetAllocator, RegionAllocator, OffsetAllocatorRefinement

`SmallFloat` is the 5.3 floating point arithmetic that names bins, as operators.
`OffsetAllocator` translates `allocate` and `free` with the node links, the bin
lists, the masks (as sets of bit numbers), and the spare node stack; one call is one
step because the allocator is thread-local. `RegionAllocator` is the promise to its
client: separate regions that stay put. `OffsetAllocatorRefinement` maps each held
node to its offset and size and states that the allocator implements the promise.

### TemporaryMemory, CallMarshalling

`TemporaryMemory` is a flat memory of cells with a buffer for each thread; its
operators are `temporary_memory_malloc` and `temporary_memory_free`, statement by
statement: the header before the payload, the fall-back to `malloc`, the decision by
address. Where in the buffer a region goes is left open, as `RegionAllocator` leaves
it, and so is whether it finds one: the allocator may refuse a gap that is large enough,
for want of a spare node or because it rounds the size up to a bin above the gap's.
`malloc` takes the lowest address, so that blocks touch. `CallMarshalling` gives
each thread a stack of calls and callbacks and walks each through the phases of the
emitted code:

| In the model | In the code |
|---|---|
| `Call`, `ConvertArgument`, `ConvertThrows` | the statements before the `try` of `append_wrapper_method`, `ArrayToNative*` |
| `Try`, `MarshalText`, `MarshalThrows` | the `try`; the `LibraryImport` stub with `CsBind23StdStringMarshaller` |
| `Invoke`, `Native_Write`, `Native_Return` | the native function; arrays it fills; a text or array result, which it allocates |
| `FreeTextResult`, `FreeText`, `Finalize`, `CopyBackThrows`, `Return` | the stub's clean-up, then the `finally` with its copy-backs |
| `Callback`, `PassValue`, `EnterManaged`, `ReturnManaged`, `TakeResult` | the director's override (`append_director_method_override`) and the managed callback |
| `ThreadExit` | `~TemporaryMemoryAllocatorState` |

Some paths do leak: a conversion that throws before the `try`, a copy-back that
throws in the `finally`, values passed to callbacks, arrays that callbacks return.
The steps are in the model; `quiet` is a history variable that holds the threads on
which none of them has happened, and only those are promised to hold nothing. The
other invariants hold on all threads: a leak is all that happens.

*Rules*: `NoArrayReference` (no function that returns `std::array&`, whose result is
freed although native code owns it; without it `PointersLive` fails), `EqualLengths`
(arrays that share a size parameter have one length, since only the first is
counted, be it pinned or in a buffer; without it native code overwrites headers and
`BlocksIntact` fails). Native code may write through any of its arguments.

### CallableLifetime, Callables

`CallableLifetime` is the promise: a delegate that C++ holds a function for is not
collected, and none is held that was never there. `Callables` implements it
(`ImplementsLifetime`):

| In the model | In the code |
|---|---|
| `delegate[d]` | a managed delegate, and with `.bridge` the `CsBind23NativeDelegateHandle` attached to it |
| `handle[h]` | the `GCHandle` in a bridge's lifetime |
| `bridge[b]`: `refs`, `fn`, `lifetime` | `StdFunctionBridge::ref_count_`, its function or callback, its managed lifetime |
| `closure[c].count` | the `shared_ptr` count of the `std::function` made by `std_function_from_bridge` |
| `Pass`, `CreateBridge`, `CreateFails`, `Enter`, `Finally` | the emitted `create native`, its `catch`, `from_c_abi`, and the release in the `finally` of the call |
| `Native_Call`, `Native_Store`, `CallSlot`, `Assign`, `Uncopy` | native code with a `std::function` (external) |
| `ReturnFunction`, `Wrap`, `CallDelegate`, `RegisterFunctionPointer` | `to_c_abi`, the emitted `create managed`, a call of the delegate, the table of pinned delegates |
| `Call_Closure`, `Call_Bridge`, `Call_Delegate` | a call on its way through the chain |
| `DropClosure`, `DropBridge`, `Delete`, `Continue` | a release on its way: one atomic decrement or one destructor for each step |
| `Lose`, `Collect`, `Finalize` | the program, the collector, `~CsBind23NativeDelegateHandle` |

*Rules*: `KeepAlive` (a delegate of a native function stays referenced while it is
called: the emitted invoke has no `GC.KeepAlive`), `NonEmpty` (no empty function is
called). Without either, `CalleeExists` fails. A cycle from a delegate through
native code back to itself leaks, as in any system of counts; the model says so by
`StillReferenced`, and calls have one argument.

### Utf8, StdString, StdStringText, StdStringProofs

`StdString` keeps the bytes of each `std::string` and for each wrapper the fields
`_managedCache` and `_cacheValid` (`cache`, `Null` if not valid). `Set`,
`Append_Text`, `Append_String`, `SnapshotManaged` are the methods of the partial
class; `Lend` and `OnInvoked` are the two ends of
`CsBind23StdStringMutableMarshaller`, and `NativeWrite` what native code does in
between or to strings of its own. The conversions are parameters with an assumption.
`Utf8` defines what .NET's conversion to UTF-8 gives, for TLC and for the proofs, and the
index functions of `std/string.hpp`; `StdStringText` states that what native code indexes,
finds, cuts and replaces in the bytes is what shows in the managed text.

*Rules*: `WellFormed` (texts without embedded zeros and lone surrogates, which do
not come back as they were), `Exclusive` (native code does not return a reference to
a string it was lent), `NoOwnAppend` (no string is appended to itself, see
`csbind23_stl.String.partial.cs:168`), `QuietCalls` (a callback inside a call does
not write the cache of a string that the call has): dropping any of these makes
`CacheCoherent` fail. `Outlive` (a string is not disposed while a native call works on
it, nor by its owner while another wrapper refers to it: the generated `Dispose` asks
for neither): without it a wrapper refers to a string that is gone. Each wrapper is used
by one thread: `Append(String)` reads its argument twice (lines 167 and 168), and the
model in one step.

### GenericDispatch, Containers

`GenericDispatch` is the part of the C# emitter that makes one generic class of
several instantiations: rows of members of one shape, slots (positions whose type
varies), type parameters, and the condition that guards each instantiation.
`Containers` takes the class for granted that these operators give for what
`add_vector` and `add_map` register, and runs a program over it: wrappers owned and
borrowed, members, enumeration, passing by value (a clone, `CloneOrCreateOwned`) and
by reference, native changes. A member acts on what `Dispatch` selects for the
wrapper, not on what the native container is; that the two agree is the property.

*Rules*: `DistinctTypes` (no two instantiations have the same C# names, unless being
of pointers tells them apart), `SameItems` (a wrapper is made with the ownership its
converter gives), `NoNull`: these keep `DispatchMatches`; `Outlive` (a borrowed
container lives as long as its wrapper: `OwnedOnce`); `Unchanged` (no change during
an enumeration: `EnumerationExact`).

### Bindings, Emission, BindingsGenerator

`Bindings` is the description (`ir.hpp`) and what `emitter_ir_utils.cpp` computes
from it. What the code collects in a loop with a set of what it has met is stated as
a set with a condition: a method of a secondary base is emitted unless a method before
it has its key (`Hidden`), and the index of a callback is the number of methods before
it (`Place`). The key of a method has its name, whether it is const, and the names of its
result and parameter types; the marks `#c`, `#p`, `#r` are left out, because types of the
model that share a name share them. `Emission` has one operator for the set of functions that the C ABI of a
class or a module exports, one for what the C# side declares and one for what its
code calls, each from the emitter that writes it. A function is its symbol, the
types of its arguments in the C ABI and the declaration it is made for, so that a
symbol that stands for another overload counts as an error. `BindingsGenerator` is a
generator program: one action for each builder call, with the exceptions that a
lookup throws at once, and `generate_cabi` and `generate_csharp`, each with the
checks and the second lookup of types over a copy of the declarations.

*Rules*: `SameKeys` (methods that meet in a class through its secondary bases have
equal C ABI signatures exactly when they have equal C# signatures: the emitters drop
duplicates by different keys), `AllVisible` (no method without a wrapper where there
is a secondary base: only one emitter leaves it out), `PlainVirtuals` (an
overridable method is exported under its own name: the callback calls the base by
`method.name`, `csharp_emitter.cpp:4096`), `Complete` (no declaration between the
two generations). Without `PlainVirtuals`, `ImportsExported` fails; without another,
both properties do. `NativeCompiles` leaves out programs whose C++ file the compiler
refuses.

### The modules of the proofs

`WrapperLifecycleInvariant`, `CallableInvariant`, `MarshallingInvariant`,
`ContainersInvariant` and `OffsetAllocatorInvariant` state the inductive invariants.
`WrapperLifecycleProofs` has three parts that build on each other: types and memory,
the cache, virtual dispatch. `ContainersProofs` begins with what the emitter generates
(`GenericDispatch`) and ends with what programs do with it. `SmallFloatProofs` proves
the arithmetic of the bins for all 32-bit sizes, and `OffsetAllocatorProofs` uses it.
`BindingsProofs` is about the generator, `CallableProofs`, `CallMarshallingProofs` and
`StdStringProofs` about the components they are named for. What they prove is below.

## The runs

| Run | Instance | What it shows |
|---|---|---|
| `lifecycle` | 2 threads, finalizer, 3 wrappers, 1 address, all rules; about 317 000 states | type and inductive invariant (`DispatchInv`, which contains the others), no use after free, safe destruction, cache entries right, overrides reached |
| `lifecycle_liveness` | 1 thread, finalizer, 2 wrappers, 2 addresses, fairness | owned garbage is destroyed |
| `lifecycle_alias` | 1 thread, 2 wrappers, 1 address | **violated**: wrapping a returned pointer a second time loses the managed override (see Findings) |
| `small_float` | sizes 0..1200 against 9 requests | rounding is floor and ceiling over the bin sizes; a bin not below the rounded request fits |
| `offset_allocator` | 35 units, 5 nodes, requests 0, 7, 17, 4 top bins | consistency of nodes, neighbours, lists, masks and storage; fits are found; implements `RegionAllocator` |
| `offset_allocator_lists` | 10 units, 7 nodes, requests of 2 | several regions in one bin: unlinking at head, middle and end |
| `callables` | 2 threads, finalizer, 2 delegates, 2 handles, 3 bridges, 2 closures, 1 native variable; 248 000 states up to symmetry | counts are exact, nothing is called after its end, lifetimes as promised |
| `callables_liveness` | 1 thread, finalizer, 2 delegates, 1 handle, 2 bridges, fairness | what nothing leads to is collected |
| `std_string` | 2 wrappers, 3 strings of which native code owns one, 10 texts; 39 000 states | the cache shows the native text; index, search, cut and replace respect characters |
| `call_marshalling` | 1 thread, calls nested 3 deep, memory of 7 cells, buffer of 5; 297 000 states | the inductive invariant `MarshallingInv`, whose first conjunct is `TypeOK`; blocks stay intact, pointers live, quiet threads hold nothing |
| `containers` | 6 groups of instantiations, 2 containers, 2 wrappers, 2 items; 219 000 states up to symmetry | dispatch reaches the right type, one owner, exact enumeration and copies |
| `bindings_generator` | up to 6 declarations in 3 modules; 476 000 states | imports are exported, callback slots and type ids agree |

**Why the bounds are enough.** One address is the hardest case for the life cycle:
every new object reuses the address of an earlier one. Three wrappers are an owner,
a second wrapper of the same object, and the wrapper of the next object at the
address, while the others are still in some step of Dispose. Two threads and the
finalizer give three simultaneous operations. Two addresses matter only in that
steps on one leave the other alone, which the theorems cover. Sizes up to 1200 cross
seven exponents of SmallFloat, with every carry from mantissa into exponent at least
six times. Request 0 makes empty regions, 7 stays in the denormalised bins, 17 needs
rounding; five nodes let the freelist run empty with and without free space left.
Three bridges and two closures make the longest chain that has a middle: a delegate
over a native function over a delegate. Three nested frames are a call, a callback
in it and a call in that; a buffer of five cells takes two allocations with their
headers or one with room that is too small, so that both ways of running out occur;
one signature has a pinned array before a buffered one that shares its count;
lengths 0 to 2 include the empty array. One thread is enough there: emitted code
frees every buffer on the thread that asked for it, and threads share only `malloc`;
the theorems about the same properties are for any number of threads. The texts have characters of one to four
bytes, a text that is a prefix of another, one that overlaps itself, an embedded
zero and a lone surrogate. Two containers are a container and its clone. The groups
of `containers` are like those of the tests, and include three that the rules
exclude, so that the rules are seen to matter. `MaxCalls = 6` declarations are
enough for two modules, an import, a class with a secondary base and a virtual
method; a class `B` has the bases `P`, which is never bound, and `A`. The bounds are
`MaxCalls`, `MaxItems`, `MaxDepth`, and the finite sets of the constants; no counter
is capped otherwise.

`CHECK_DEADLOCK FALSE` is set where the system really can stop: a program may create
all its wrappers and do nothing more (a wrapper object is never reused), the walk of
`small_float` ends, a generator program ends when both files are written, every
string or bridge address may be taken, and memory that has leaked may leave nothing
to allocate.

**Fairness.** `WF` of a thread's steps inside an operation: the emitted code has no
blocking call but the cache lock, which is held for one dictionary operation. `WF`
of the finalizer thread: .NET runs the finalizer queue. No fairness is assumed of
starting operations, of dropping references, or of collection, so liveness is about
objects already disposed or collected. In `callables_liveness`: `WF` of an operation
that has begun (no step of it waits for another thread), `SF` of the return of a
native function, because it may do other things first, again and again, but returns;
`WF` of the collection of an unreachable delegate and `SF` of its finalizer, which
has to wait while the thread runs another. Here collection must be assumed: the
property is that the counts never keep it from happening.

## What is proved

All theorems hold for any sets of threads, objects and addresses, and for runs of any
length.

- `TypeCorrect`: `Spec => []TypeOK`, whatever `Rules` is. `TypeOK` is not inductive
  (a step applies the registry to a handle taken from its local variables), so
  `TypeInv` adds `HandleInv` (a wrapper in use has a handle), `ActorInv` (the handle
  and the wrapper each step works with), and `CtorAlone` (one thread constructs a
  wrapper; without it `Connect` could resurrect what another step set).
- `Inductive`, `MemorySafe`, `DestroySafe`: with the three rules, `[]IInv`,
  `[]NoUseAfterFree` and `DestroyIsSafe`. `NoUseAfterFree` speaks of the step a
  thread is in; what keeps it true is who else may be anywhere. `SafeInv` says it
  with two sets, `Referring(a)` (wrappers not yet finished with address `a`) and
  `Busy(a)` (threads in an operation on `a`): `AliveInv` (an object with a referrer
  or a worker exists), `OwnerInv` (one owner; a wrapper the program let go of is the
  only one and owns), `BusyInv` (each worker's wrapper is a referrer, a disposer
  works alone, and an owning disposer's wrapper is the only referrer), with
  `LifeInv` and `ContextInv` tying fields and local variables to the life of the
  wrapper. The proof has a lemma for each kind of step; `InnerStep`, `Begun` and
  `Ended` say once how the two sets change in the steps that only move inside, begin
  or end an operation. Where the rules are needed is visible in the proof:
  `Borrowed` uses Exclusive and Scoped, `Collected` uses KeepAlive, `Dropped` and
  `Deleted` use Scoped; the finalizer's case in `SafeInvDispose` needs no rule at
  all, only that what was dropped was alone.
- `CacheCorrect`: with the three rules, `[]OwnerRegistered`. Its invariant
  `RegistryInv` adds to `IInv` that an object wrapped only once has only one
  referrer (`AliasInv`) and that a constructor past its base part is already in the
  cache of the base (`CtorRegistered`). The step that could break it is
  `Unregister`, which empties whatever entry its address has: until `Destroy` the
  address is taken (`AliveInv`) and, by `AliasInv`, by no wrapper in use.

- `DispatchCorrect`, `RootDispatchCorrect`, `OverrideUndisposed`, by
  `DispatchInductive`: with the three rules, `[]OverrideDispatched`,
  `[]RootDispatchNeverDefault` and `[]OverrideOnUndisposed`. Each speaks of a native
  call that has already got somewhere, and is about what other threads may have done
  since the slot was read. `DispatchInv` adds to `RegistryInv` what a step has found
  out: `ConstructionInv` (how far each constructor has got with the cache and the
  slot), `OverrideInv` (a call on the object of an overriding wrapper is on its way to
  that wrapper), `RootInv`, and two facts about the heap: `SlotInv` (the slot of an
  overriding wrapper's object is filled) and `RootEntryInv` (while a Root slot is
  filled, the cache has a wrapper that refers to the object). The steps that could break
  them are `Disconnect` and `Unregister` of a Dispose: `BusyInv` says that a disposer
  works alone, so no call is under way.
- `CallablesTypeCorrect`, `CountsCorrect`: whatever the program does, `[]TypeOK` and
  `[]CountsExact`. No rule of use is assumed: counts stay exact through failed
  conversions, exceptions, nested calls and finalizers. `CountsInv` adds to the counts
  what each step of an operation holds (`ContextInv`, where `Resume` is the step that a
  nested call or release will go back to), that what is free is empty (`ObjectInv`),
  that one thread deletes a bridge (`DeleteInv`) and that a `GCHandle` is a bridge's or
  an operation's (`HandleInv`). The proof never counts a set anew: `OneMoves` says how
  a cardinality changes when one element enters or leaves, and every step changes the
  share that one closure, one bridge, one variable or one operation has in a count.
- `CallablesImplementLifetime`: `Spec => ImplementsLifetime`, again without a rule. The
  refinement mapping takes the delegates that are alive or lost for those that exist,
  and those that live closures were made for as held. `LifetimeInv` says that the bridge
  of a closure keeps its delegate by a `GCHandle`, and that what a `GCHandle` keeps is not
  collected; then each step is one of `CallableLifetime` or a stutter (`Mapped`).
- `CalleesExist`, by `CalleeInductive`: with `KeepAlive` and `NonEmpty`,
  `[]CalleeExists`. A call runs down a chain of closures, bridges and delegates of any
  length, and only its start is held by the operation. `ChainInv` says that some set of
  objects contains the callee, each member of which is held by another one or by the
  operation; a release can break no link of it (`LinksNext`) because a count that a
  link is part of is not zero. `UseInv` is what the rules add: the delegate an operation
  works with is not lost, and every bridge has something to call.
- `MarshallingBlocksIntact`, `MarshallingPointersLive`, `MarshallingQuietThreads` and
  `MarshallingTypes`, by `MarshallingInductive`: with `NoArrayReference` and
  `EqualLengths`, `[]BlocksIntact`, `[]PointersLive`, `[]QuietThreadsHoldNothing` and
  `[]TypeOK`, for any number of threads, any signatures, any sizes of the buffer, the
  header and the memory, and calls and callbacks nested to any depth. `MarshallingInv`
  has three layers. `MemoryInv` says that buffers, regions and heap blocks lie apart
  and every region has its header; `MallocFacts`, `FreeFacts` and `NativeWriteFacts`
  are proved of the memory alone and say of each operation which block one thread gains
  or loses (`Exchange`). `FrameInv` says which arguments each step of a call may have a
  pointer for (`MayHold`): those it has come past, or those it has not freed yet.
  `HoldInv` ties the two: pointers are live and distinct, and a quiet thread holds all
  of its blocks. Each action changes one pointer of the innermost frame (`UpdateStep`),
  begins a frame (`PushStep`) or ends one (`PopStep`). `NoArrayReference` is used in
  `CallStep`, `EqualLengths` in `ConvertArgumentStep`: the shared length is that of the
  first array, and `SizeInv` says that no block is shorter than what native code is
  told.
- `GroupsAreTold`, of the emitter's algorithm alone: for any number of vectors or maps of
  any item types that share a generated class, if the class has as many type parameters
  as its hand-written part (`Compiles`) and the instantiations differ in the names of
  their items or in their last item being a pointer (`Distinct`), the generated conditions select
  each instantiation by what its converter gives. `Layout` says where the members of a
  kind have a type of the items; from it follow the rows (`RowsFacts`: no two members
  have the same shape), that a row has at most one slot for each type of the items and in
  their order (`SlotCases`), that the first row with a slot gives the type parameter of
  that number (`FirstWithSlot`: a key that varies anywhere varies in `Add`, by
  `KeyVaries`), so that type arguments are the items' types (`SlotTypesFacts`), and that
  an ambiguous instantiation is `Borrowed` exactly when its last item is a pointer
  (`BorrowsFacts`). It is here that `Distinct` must refuse keys that are pointers.
- `DispatchAlwaysMatches`, `ContainersOwnedOnce`, `EnumerationAlwaysExact`, by
  `ContainersInductive`: with the five rules, `[]DispatchMatches`, `[]OwnedOnce` and
  `[]EnumerationExact`, for any groups, wrappers, addresses and items. `ContainersInv`
  adds to them what makes them last: the class stays one that `GroupsAreTold` is about
  (`ClassInv`), whoever reaches a container has the instantiation that it is of
  (`ReachInv`; without `SameItems` a call has not), every container has an owner and no
  two (`OwnerInv`, `ExclusiveInv`; what leaked is reached by nobody), and the items of
  a container have no key twice, without which a hash map's copy could be shorter than
  its original (`ItemsInv`). The rules are used where
  they are named: `DistinctTypes` in `ContainersInit`, `Outlive` in `FromBorrowedStep`,
  `NativeDestroyStep` and `DisposeStep`, `Unchanged` in `SetItemsStep`, `NoNull` and
  `SameItems` in `PassByValueStep` and `PassByReferenceStep`.
- `StringInductive`, `StringCoherent`, `StringTypes` (module `StdStringProofs`): a
  program that keeps the five rules has `[]IInv`, hence `[]CacheCoherent` and
  `[]TypeOK`, for any sets of wrappers and strings and any conversions with
  `ConversionAssumption` (clean texts come back and are concatenated as such).
  `CacheCoherent` is not inductive: a write through one wrapper must leave no other
  cache behind, so `OneOwner` says that an owned string has one wrapper and
  `OwnedCached` that only owned strings have a cache; an append must not depend on
  whether the cache is extended or read again, so `TextsClean` keeps every text one
  that the conversions preserve. The rules are used where they are named:
  `Exclusive` in `BorrowStep`, `Outlive` in `DisposeStep`, `NoOwnAppend` and
  `QuietCalls` in `AppendStringStep`, `WellFormed` in `NextIInv`.
- `IndexerCorrect` and `SlicesCorrect` (same module): `[]IndexerAgrees` and
  `[]SlicesAgree`, by `TextsClean` of the same invariant and what `Utf8` computes, for
  any texts over any set `C` of characters (`Character`: all code points but NUL and the
  surrogates). They suppose `Converts(C)`: that `ToNative` is .NET's UTF-8 as far as the
  first NUL and that `ToManaged` undoes it; `Decodable` shows that such a conversion
  exists. The recursion of `GetBytes` is taken apart once: an `Encoding` of a text is the
  list of positions where its characters end, and every text has one
  (`GetBytesEncodes`). The walks over bytes visit exactly these positions
  (`LengthAgrees`, `CharAtAgrees`), because the first byte of a character tells its
  width. A search finds only such positions (`Matched`, `MatchedBack`, `FindAgrees`),
  because no first byte of a character is a later byte of another. A part between two of
  them is the encoding of the part of the text (`BytesSlice`), and `ReplaceAgrees`
  follows by going through the matches from the last to the first.

- `RoundDownIsCorrect`, `RoundUpIsCorrect`, `FitIsCorrect` (module `SmallFloatProofs`):
  `RoundDownIsFloor`, `RoundUpIsCeiling` and `FitIsSound` for all 32-bit sizes, not only
  those of the run. The arithmetic is reduced to one fact: a size with the mantissa start
  `k` lies between two neighbouring bin sizes, `(8 + m) * 2^k` and `(9 + m) * 2^k`
  (`Pow2` is kept opaque and only doubled), and bin sizes grow with the bin
  (`floatToUint` is monotone). `FitsEverySize` is what `allocate` relies on when it
  subtracts.
- `Invariance` (module `OffsetAllocatorProofs`), and from it `TypesHold`,
  `NodesAreAccounted`, `NeighborsAreChained`, `StorageIsAccounted`, `FreeIsCoalesced`,
  `ListsAreLinked`, `FitIsFound`, `ReportIsAllocatable`, `ReportFullIsExact`: every
  invariant of the two runs, for any size, any number of nodes of at least two, any
  requests. The invariants of the runs say what each link is; `IInv` of
  `OffsetAllocatorInvariant` adds that there are no rings: the chain of neighbours and
  each bin list have a rank that grows along the links. The proof follows the code: it
  proves of `insertNodeIntoBin`, `removeNodeFromBin`, `TakeNode`, `SplitRemainder`,
  `MergePrev`, `MergeNext` and `InsertCombined` what each does to the lists, to the
  chain, to the masks and to the sums, with one node between the chain and the lists
  while a step is under way. Sums over nodes are changed by one summand at a time.
- `ImplementsRegionAllocator`: `Spec => ImplementsRegions`. Each allocation is one of
  `RegionAllocator`: the chain is in the order of addresses, so a new region is apart from
  all the others, and no other step moves one that is held.
- `ImportsAreExported`, `SlotsAreAgreed`, by `BindingsInductive` (module
  `BindingsProofs`): with the four rules, `[]ImportsExported` and `[]SlotsAgree`, for any
  classes, methods and functions and programs of any length. `IInv` says that both files
  are made of the declarations there are now (`Complete`) and that these keep the other
  rules (`Kept`). Then the theorem is about one description: `SameMethods` says that the
  two emitters, with their different keys, find the same methods for a class (`SameKeys`
  and `AllVisible`), since a method is hidden by one before it with the same key on both
  sides or on neither; the callback tables follow, and `EverythingDeclared` goes through
  each kind of function that one side emits and finds it on the other, with its overloads
  for default arguments (`WholeOverload`, `OverloadsGrow`).

The theorems rest on the named assumptions of the modules: `FinalizerAssumption` and
`NullAssumption` (the finalizer is no program thread, `Null` is no object),
`KindsAssumption` (delegates, bridges and closures are different things),
`FiniteAssumption` (a process has finitely many threads and objects; without it a
cardinality means nothing), `ConversionAssumption`, and `SizesAssumption` and
`SignaturesAssumption` (a header fits the buffer and the buffer the memory; arguments
and results are of the kinds that the emitters distinguish), and `GroupsAssumption` (a
group has at least one class, a vector one item type and a map two), for OffsetAllocator
`SizeAssumption` and `RequestAssumption` (sizes are 32-bit), `MaxAllocsAssumption` (two
nodes at least) and `BinsAssumption` (there are bins for these sizes; with 32 top bins,
as in the code, for all), and for the generator `NamesAssumption` (no module has the name
of the generator's own) and `DeclsAssumption` (declarations have the fields that `ir.hpp`
gives them). TLC evaluates them in the runs. That a rounded request fits its bin was an
assumption once; it is `FitsEverySize` now.

Induction is done by the least number for which a statement fails, or over the set of
the numbers for which it holds (`SetInduction`), since the library's induction theorems
take a predicate, which the provers cannot instantiate.

Not proved, only model-checked: the two liveness properties (fairness and ENABLED are out
of the prover's reach). Every other property of a passing run is stated by a theorem.

## Findings

`lifecycle_alias`: `WrapPolymorphic_*` constructs a wrapper for every returned
pointer without asking the instance cache (`csharp_emitter.cpp:4822`). When the
pointer is that of a managed object with an override, the new wrapper's constructor
takes over the cache entry and connects a callback table without callbacks, so
native dispatch no longer reaches the override, as
`tests/class/test_virtual.cs:81-84` expects of the object.

## What is not modelled, and why

Custom instance caches (user code), secondary base classes and several virtual
methods per class in `WrapperLifecycle` (each repeats the pattern of the one
modelled; which methods a class gets is in `Bindings`), `_cPtr` as a `HandleRef`
(only the value is used), exceptions that cross the border (class wrappers translate
none). OffsetAllocator's move constructor and destructor have no caller outside its
tests.

- *Callables*: functions of more than one argument (the arguments are converted one
  by one, as in `CallMarshalling`), null delegates, and managed callbacks that themselves
  return a `std::function`.
- *Cases that the rules exclude*: what breaks a rule of a run is not covered by its
  properties. The hazards that are such cases have a note in `PROJECT.json` that names
  the rule, and no property. Nor is it covered that a program mixes up positions counted
  in bytes with positions counted in characters.
- *Std.String*: trimming, letter case and comparison, which only compute a text;
  `StringView`, a pointer into a string without any life cycle of its own.
- *Containers*: the native iterators of `UnorderedMap`, and references to elements
  that C# never sees after the call.
- *Emitters and generator*: property and field accessors, generic functions outside
  generic classes, attributes, comments, choice of library, and all layout and
  naming; overloads are told apart by their exported names. One fault of layout was
  met that no property is about: a void method with pinned arrays
  returns from `append_wrapper_method` before the braces of its `unsafe` block are
  closed (`csharp_emitter.cpp:3827`).
- *Builders*: that a builder holds a pointer into a vector that grows
  (`bindings_generator.hpp:2305`) is a matter of C++ memory that a model of
  sequences does not see.
- The text writer, naming and CMake keep no state, and no property is about their
  text.

## Plan

What is left, in order:

1. Two threads in the run of `CallMarshalling`, once a coarser model of `malloc` makes
   the instance small enough; the theorems do not need it.
2. Properties and fields in `Emission`, and the exports of callables.
3. Wrapper life cycle and call marshalling in one module: a callback that throws
   while the wrapper of its receiver is disposed.
