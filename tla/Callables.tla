------------------------------ MODULE Callables ------------------------------
(***************************************************************************)
(* Functions that cross the border.  A managed delegate passed as a        *)
(* std::function is kept by a GCHandle that belongs to a reference-counted *)
(* StdFunctionBridge; C++ holds it through closures that share one count   *)
(* each (std::shared_ptr) and have one reference of the bridge.  A         *)
(* std::function returned to C# is copied into a bridge too, which belongs *)
(* to the CsBind23NativeDelegateHandle attached to the new delegate and is *)
(* released by its finalizer.  Bridges chain: a returned delegate may be   *)
(* passed back.  Releases run one link of the chain at a time.             *)
(***************************************************************************)
EXTENDS Integers, FiniteSets

CONSTANTS
  Threads, Finalizer,   \* threads that call; the thread that runs finalizers
  Delegates, Handles,   \* managed delegates; entries of the GCHandle table
  Bridges, Closures,    \* addresses of StdFunctionBridge and of shared closures
  Slots,                \* std::function variables of the native code
  Null, Empty, Plain,   \* nothing; an empty function; one without a bridge
  Rules                 \* the rules of use that the program keeps

ASSUME FinalizerAssumption == Finalizer \notin Threads
ASSUME NullAssumption ==
  /\ {Null, Empty, Plain} \cap (Closures \cup Bridges \cup Handles \cup Delegates) = {}
  /\ Null # Empty /\ Null # Plain /\ Empty # Plain
ASSUME RulesAssumption == Rules \subseteq {"KeepAlive", "NonEmpty"}
\* The three kinds of objects that a call goes through are told apart.
ASSUME KindsAssumption ==
  Delegates \cap Bridges = {} /\ Delegates \cap Closures = {} /\ Bridges \cap Closures = {}
\* A process has finitely many of each.
ASSUME FiniteAssumption ==
  \A S \in {Threads, Delegates, Bridges, Closures, Slots} : IsFiniteSet(S)

VARIABLES delegate, pinned, handle, bridge, closure, slot, pc, ctx

vars == <<delegate, pinned, handle, bridge, closure, slot, pc, ctx>>

Actors == Threads \cup {Finalizer}
Function == {Empty, Plain} \cup Closures

\* `life`: "lost" is unreachable for the program; "dead" is collected with the
\* finalizer of its owner still to run.  `bridge` is what the owner releases.
Delegate == [life : {"none", "live", "lost", "dead"}, bridge : Bridges \cup {Null}]
NoDelegate == [life |-> "none", bridge |-> Null]

\* `refs` is 0 in a bridge that runs its destructor.
Bridge == [state : {"free", "live"}, refs : Nat, fn : Function, lifetime : Handles \cup {Null}]
NoBridge == [state |-> "free", refs |-> 0, fn |-> Empty, lifetime |-> Null]

\* `of` remembers the delegate it was made for; only properties read it.
Closure == [count : Nat, bridge : Bridges \cup {Null}, of : Delegates \cup {Null}]
NoClosure == [count |-> 0, bridge |-> Null, of |-> Null]

\* The local variables of a step: `d`, `h`, `b` and `c` are what the running
\* operation holds, `at` is where a call or a release has got to, `then` is what
\* follows it.
Context == [d : Delegates \cup {Null}, h : Handles \cup {Null}, b : Bridges \cup {Null},
            c : Closures \cup {Null},
            at : Delegates \cup Bridges \cup Closures \cup {Null},
            then : {"idle", "Native", "Finally", "Uncopy"}]
NoContext == [d |-> Null, h |-> Null, b |-> Null, c |-> Null, at |-> Null, then |-> "idle"]

Steps == {"idle", "CreateBridge", "Enter", "Native", "Finally", "Uncopy", "Wrap",
          "Call", "DropClosure", "DropBridge", "Delete"}

Init ==
  /\ delegate = [d \in Delegates |-> NoDelegate]
  /\ pinned = {}
  /\ handle = [h \in Handles |-> Null]
  /\ bridge = [b \in Bridges |-> NoBridge]
  /\ closure = [c \in Closures |-> NoClosure]
  /\ slot = [s \in Slots |-> Empty]
  /\ pc = [t \in Actors |-> "idle"]
  /\ ctx = [t \in Actors |-> NoContext]

Goto(t, step) == pc' = [pc EXCEPT ![t] = step]

\* Ends an operation, or goes on with what was to follow a call or a release.
Continue(t, context) ==
  /\ Goto(t, context.then)
  /\ ctx' = [ctx EXCEPT ![t] = IF context.then = "idle" THEN NoContext
                               ELSE [context EXCEPT !.at = Null, !.then = "idle"]]

\* Calls or releases `at`, and then goes on with `then`.
Walk(t, step, context, at, then) ==
  /\ Goto(t, step)
  /\ ctx' = [ctx EXCEPT ![t] = [context EXCEPT !.at = at, !.then = then]]

Copied(f) ==
  [c \in Closures |-> IF c = f THEN [closure[c] EXCEPT !.count = @ + 1] ELSE closure[c]]

-----------------------------------------------------------------------------
(***************************************************************************)
(* A managed call with a std::function argument.                           *)
(***************************************************************************)
Pass(t, d, h) ==
  /\ pc[t] = "idle"
  /\ delegate[d].life \in {"none", "live"} /\ handle[h] = Null
  /\ delegate' = [delegate EXCEPT ![d].life = "live"]
  /\ handle' = [handle EXCEPT ![h] = d]
  /\ Goto(t, "CreateBridge")
  /\ ctx' = [ctx EXCEPT ![t] = [NoContext EXCEPT !.d = d, !.h = h]]
  /\ UNCHANGED <<pinned, bridge, closure, slot>>

CreateBridge(t, b) ==
  /\ pc[t] = "CreateBridge"
  /\ bridge[b].state = "free"
  /\ bridge' = [bridge EXCEPT ![b] =
       [state |-> "live", refs |-> 1, fn |-> Empty, lifetime |-> ctx[t].h]]
  /\ Goto(t, "Enter")
  /\ ctx' = [ctx EXCEPT ![t].h = Null, ![t].b = b]
  /\ UNCHANGED <<delegate, pinned, handle, closure, slot>>

\* Mutant: without the catch block.
CreateFailsLeaking(t) ==
  /\ pc[t] = "CreateBridge"
  /\ Continue(t, NoContext)
  /\ UNCHANGED <<delegate, pinned, handle, bridge, closure, slot>>

\* The call into C++ throws: the handle is freed before the exception goes on.
CreateFails(t) ==
  /\ pc[t] = "CreateBridge"
  /\ handle' = [handle EXCEPT ![ctx[t].h] = Null]
  /\ Continue(t, NoContext)
  /\ UNCHANGED <<delegate, pinned, bridge, closure, slot>>

\* Mutant: without add_ref.
EnterBorrowing(t, c) ==
  /\ pc[t] = "Enter"
  /\ closure[c].count = 0
  /\ closure' = [closure EXCEPT ![c] = [count |-> 1, bridge |-> ctx[t].b, of |-> ctx[t].d]]
  /\ Goto(t, "Native")
  /\ ctx' = [ctx EXCEPT ![t].c = c]
  /\ UNCHANGED <<delegate, pinned, handle, bridge, slot>>

\* std_function_from_bridge, for the parameter of the native function.
Enter(t, c) ==
  /\ pc[t] = "Enter"
  /\ closure[c].count = 0
  /\ bridge' = [bridge EXCEPT ![ctx[t].b].refs = @ + 1]
  /\ closure' = [closure EXCEPT ![c] = [count |-> 1, bridge |-> ctx[t].b, of |-> ctx[t].d]]
  /\ Goto(t, "Native")
  /\ ctx' = [ctx EXCEPT ![t].c = c]
  /\ UNCHANGED <<delegate, pinned, handle, slot>>

\* The native function calls its parameter, moves it into a variable (the value
\* the variable had is destroyed), or returns, which destroys the parameter.
Native_Call(t) ==
  /\ pc[t] = "Native"
  /\ Walk(t, "Call", ctx[t], ctx[t].c, "Native")
  /\ UNCHANGED <<delegate, pinned, handle, bridge, closure, slot>>

Native_Store(t, s) ==
  /\ pc[t] = "Native"
  /\ slot' = [slot EXCEPT ![s] = ctx[t].c]
  /\ LET moved == [ctx[t] EXCEPT !.c = Null] IN
     IF slot[s] \in Closures
       THEN Walk(t, "DropClosure", moved, slot[s], "Finally")
       ELSE Continue(t, [moved EXCEPT !.then = "Finally"])
  /\ UNCHANGED <<delegate, pinned, handle, bridge, closure>>

Native_Return(t) ==
  /\ pc[t] = "Native"
  /\ Walk(t, "DropClosure", [ctx[t] EXCEPT !.c = Null], ctx[t].c, "Finally")
  /\ UNCHANGED <<delegate, pinned, handle, bridge, closure, slot>>

\* The finally block of the wrapper: __csbind23_ReleaseNativeCallable.
Finally(t) ==
  /\ pc[t] = "Finally"
  /\ Walk(t, "DropBridge", [ctx[t] EXCEPT !.b = Null], ctx[t].b, "idle")
  /\ UNCHANGED <<delegate, pinned, handle, bridge, closure, slot>>

-----------------------------------------------------------------------------
(***************************************************************************)
(* Functions that native code keeps: it copies one to call it, so that     *)
(* another thread may replace the variable, and empties its variables.     *)
(***************************************************************************)
CallSlot(t, s) ==
  /\ pc[t] = "idle" /\ slot[s] \in Closures
  /\ closure' = Copied(slot[s])
  /\ Walk(t, "Call", [NoContext EXCEPT !.c = slot[s]], slot[s], "Uncopy")
  /\ UNCHANGED <<delegate, pinned, handle, bridge, slot>>

Uncopy(t) ==
  /\ pc[t] = "Uncopy"
  /\ Walk(t, "DropClosure", [ctx[t] EXCEPT !.c = Null], ctx[t].c, "idle")
  /\ UNCHANGED <<delegate, pinned, handle, bridge, closure, slot>>

Assign(t, s, f) ==
  /\ pc[t] = "idle" /\ f \in {Empty, Plain} /\ slot[s] # f
  /\ slot' = [slot EXCEPT ![s] = f]
  /\ IF slot[s] \in Closures
       THEN Walk(t, "DropClosure", NoContext, slot[s], "idle")
       ELSE UNCHANGED <<pc, ctx>>
  /\ UNCHANGED <<delegate, pinned, handle, bridge, closure>>

-----------------------------------------------------------------------------
(***************************************************************************)
(* A native function that returns a std::function: to_c_abi copies it into *)
(* a bridge, whether it is empty or not; C# makes the delegate.            *)
(***************************************************************************)
ReturnFunction(t, s, b) ==
  /\ pc[t] = "idle" /\ bridge[b].state = "free"
  /\ "NonEmpty" \in Rules => slot[s] # Empty
  /\ bridge' = [bridge EXCEPT ![b] =
       [state |-> "live", refs |-> 1, fn |-> slot[s], lifetime |-> Null]]
  /\ closure' = Copied(slot[s])
  /\ Goto(t, "Wrap")
  /\ ctx' = [ctx EXCEPT ![t] = [NoContext EXCEPT !.b = b]]
  /\ UNCHANGED <<delegate, pinned, handle, slot>>

\* __csbind23_CreateManagedCallable, with the owner attached to the delegate.
Wrap(t, d) ==
  /\ pc[t] = "Wrap"
  /\ delegate[d].life = "none"
  /\ delegate' = [delegate EXCEPT ![d] = [life |-> "live", bridge |-> ctx[t].b]]
  /\ Continue(t, NoContext)
  /\ UNCHANGED <<pinned, handle, bridge, closure, slot>>

CallDelegate(t, d) ==
  /\ pc[t] = "idle"
  /\ delegate[d].life = "live" /\ delegate[d].bridge # Null
  /\ Walk(t, "Call", [NoContext EXCEPT !.d = d], delegate[d].bridge, "idle")
  /\ UNCHANGED <<delegate, pinned, handle, bridge, closure, slot>>

\* A delegate passed as a function pointer is kept for good.
RegisterFunctionPointer(t, d) ==
  /\ pc[t] = "idle"
  /\ delegate[d].life \in {"none", "live"}
  /\ delegate' = [delegate EXCEPT ![d].life = "live"]
  /\ pinned' = pinned \cup {d}
  /\ UNCHANGED <<handle, bridge, closure, slot, pc, ctx>>

-----------------------------------------------------------------------------
(***************************************************************************)
(* A call walks the chain: closure, bridge, delegate, until it reaches the *)
(* code of a delegate of the program or a native function.                 *)
(***************************************************************************)
Call_Closure(t) ==
  /\ pc[t] = "Call" /\ ctx[t].at \in Closures
  /\ Walk(t, "Call", ctx[t], closure[ctx[t].at].bridge, ctx[t].then)
  /\ UNCHANGED <<delegate, pinned, handle, bridge, closure, slot>>

Call_Bridge(t) ==
  /\ pc[t] = "Call" /\ ctx[t].at \in Bridges
  /\ LET b == bridge[ctx[t].at] IN
     CASE b.fn = Plain      -> Continue(t, ctx[t])
       [] b.fn \in Closures -> Walk(t, "Call", ctx[t], b.fn, ctx[t].then)
       [] b.fn = Empty      -> /\ b.lifetime # Null
                               /\ Walk(t, "Call", ctx[t], handle[b.lifetime], ctx[t].then)
  /\ UNCHANGED <<delegate, pinned, handle, bridge, closure, slot>>

Call_Delegate(t) ==
  /\ pc[t] = "Call" /\ ctx[t].at \in Delegates
  /\ IF delegate[ctx[t].at].bridge = Null
       THEN Continue(t, ctx[t])
       ELSE Walk(t, "Call", ctx[t], delegate[ctx[t].at].bridge, ctx[t].then)
  /\ UNCHANGED <<delegate, pinned, handle, bridge, closure, slot>>

(***************************************************************************)
(* A release walks it too, as far as it takes the last reference.          *)
(***************************************************************************)
DropClosure(t) ==
  LET c == ctx[t].at IN
  /\ pc[t] = "DropClosure"
  /\ IF closure[c].count = 1
       THEN /\ closure' = [closure EXCEPT ![c] = NoClosure]
            /\ Walk(t, "DropBridge", ctx[t], closure[c].bridge, ctx[t].then)
       ELSE /\ closure' = [closure EXCEPT ![c].count = @ - 1]
            /\ Continue(t, ctx[t])
  /\ UNCHANGED <<delegate, pinned, handle, bridge, slot>>

\* Mutant: release compares the new value of the counter.
DropBridgeEarly(t) ==
  LET b == ctx[t].at IN
  /\ pc[t] = "DropBridge"
  /\ bridge' = [bridge EXCEPT ![b].refs = @ - 1]
  /\ IF bridge[b].refs <= 2
       THEN Walk(t, "Delete", ctx[t], b, ctx[t].then)
       ELSE Continue(t, ctx[t])
  /\ UNCHANGED <<delegate, pinned, handle, closure, slot>>

\* StdFunctionBridge::release: the counter, and then the destructor.
DropBridge(t) ==
  LET b == ctx[t].at IN
  /\ pc[t] = "DropBridge"
  /\ bridge' = [bridge EXCEPT ![b].refs = @ - 1]
  /\ IF bridge[b].refs = 1
       THEN Walk(t, "Delete", ctx[t], b, ctx[t].then)
       ELSE Continue(t, ctx[t])
  /\ UNCHANGED <<delegate, pinned, handle, closure, slot>>

Delete(t) ==
  LET b == ctx[t].at IN
  /\ pc[t] = "Delete"
  /\ bridge' = [bridge EXCEPT ![b] = NoBridge]
  /\ handle' = [h \in Handles |-> IF h = bridge[b].lifetime THEN Null ELSE handle[h]]
  /\ IF bridge[b].fn \in Closures
       THEN Walk(t, "DropClosure", ctx[t], bridge[b].fn, ctx[t].then)
       ELSE Continue(t, ctx[t])
  /\ UNCHANGED <<delegate, pinned, closure, slot>>

-----------------------------------------------------------------------------
\* The program has no reference any more.  Unless it keeps a delegate that it
\* calls, the one that runs is among them.
Lose(d) ==
  /\ delegate[d].life = "live"
  /\ "KeepAlive" \in Rules => \A t \in Threads : ctx[t].d # d
  /\ delegate' = [delegate EXCEPT ![d].life = "lost"]
  /\ UNCHANGED <<pinned, handle, bridge, closure, slot, pc, ctx>>

Collect(d) ==
  /\ delegate[d].life = "lost" /\ d \notin pinned
  /\ \A h \in Handles : handle[h] # d
  /\ delegate' = [delegate EXCEPT ![d] =
       IF @.bridge = Null THEN NoDelegate ELSE [@ EXCEPT !.life = "dead"]]
  /\ UNCHANGED <<pinned, handle, bridge, closure, slot, pc, ctx>>

\* Mutant: the owner has no finalizer.
FinalizeNothing(d) ==
  /\ delegate[d].life = "dead"
  /\ delegate' = [delegate EXCEPT ![d] = NoDelegate]
  /\ UNCHANGED <<pinned, handle, bridge, closure, slot, pc, ctx>>

\* The finalizer of the owner.
Finalize(d) ==
  /\ pc[Finalizer] = "idle" /\ delegate[d].life = "dead"
  /\ delegate' = [delegate EXCEPT ![d] = NoDelegate]
  /\ Walk(Finalizer, "DropBridge", NoContext, delegate[d].bridge, "idle")
  /\ UNCHANGED <<pinned, handle, bridge, closure, slot>>

-----------------------------------------------------------------------------
Start(t) ==
  \/ \E d \in Delegates : \/ \E h \in Handles : Pass(t, d, h)
                          \/ CallDelegate(t, d) \/ RegisterFunctionPointer(t, d)
  \/ \E s \in Slots : \/ CallSlot(t, s)
                      \/ \E f \in {Empty, Plain} : Assign(t, s, f)
                      \/ \E b \in Bridges : ReturnFunction(t, s, b)

ChooseInNative(t) == Native_Call(t) \/ \E s \in Slots : Native_Store(t, s)

Proceed(t) ==
  \/ \E b \in Bridges : CreateBridge(t, b)
  \/ \E c \in Closures : Enter(t, c)
  \/ \E d \in Delegates : Wrap(t, d)
  \/ CreateFails(t) \/ Native_Return(t) \/ Finally(t) \/ Uncopy(t)
  \/ Call_Closure(t) \/ Call_Bridge(t) \/ Call_Delegate(t)
  \/ DropClosure(t) \/ DropBridge(t) \/ Delete(t)

Next ==
  \/ \E t \in Threads : Start(t) \/ ChooseInNative(t)
  \/ \E t \in Actors : Proceed(t)
  \/ \E d \in Delegates : Lose(d) \/ Collect(d) \/ Finalize(d)

Spec == Init /\ [][Next]_vars

\* Operations that run get on, native functions return, the collector and the
\* finalizer thread get to their work.
Fairness ==
  /\ \A t \in Actors : WF_vars(Proceed(t)) /\ SF_vars(Native_Return(t))
  /\ \A d \in Delegates : WF_vars(Collect(d)) /\ SF_vars(Finalize(d))

FairSpec == Spec /\ Fairness

-----------------------------------------------------------------------------
TypeOK ==
  /\ delegate \in [Delegates -> Delegate]
  /\ pinned \subseteq Delegates
  /\ handle \in [Handles -> Delegates \cup {Null}]
  /\ bridge \in [Bridges -> Bridge]
  /\ closure \in [Closures -> Closure]
  /\ slot \in [Slots -> Function]
  /\ pc \in [Actors -> Steps]
  /\ ctx \in [Actors -> Context]

\* What holds a reference of bridge b: a running operation or an owner, the
\* closures on it, and the releases on their way.
BridgeHolders(b) ==
  ({t \in Actors : ctx[t].b = b} \X {"operation"})
    \cup ({t \in Actors : pc[t] = "DropBridge" /\ ctx[t].at = b} \X {"release"})
    \cup ({d \in Delegates : delegate[d].bridge = b} \X {"owner"})
    \cup ({c \in Closures : closure[c].bridge = b} \X {"closure"})

ClosureHolders(c) ==
  ({s \in Slots : slot[s] = c} \X {"variable"})
    \cup ({b \in Bridges : bridge[b].fn = c} \X {"bridge"})
    \cup ({t \in Actors : ctx[t].c = c} \X {"operation"})
    \cup ({t \in Actors : pc[t] = "DropClosure" /\ ctx[t].at = c} \X {"release"})

HandleHolders(h) ==
  {b \in Bridges : bridge[b].lifetime = h} \cup {t \in Actors : ctx[t].h = h}

\* Every reference count is the number of those that hold a reference, and every
\* GCHandle has one owner: nothing is released twice or too late, however copies,
\* calls, owners and finalizers interleave (functional.hpp:56).
CountsExact ==
  /\ \A b \in Bridges : bridge[b].refs = Cardinality(BridgeHolders(b))
  /\ \A c \in Closures : closure[c].count = Cardinality(ClosureHolders(c))
  /\ \A h \in Handles : Cardinality(HandleHolders(h)) = IF handle[h] = Null THEN 0 ELSE 1

\* A call never arrives at a closure, a bridge or a delegate that is gone, nor at a
\* bridge that has nothing to call.
CalleeExists ==
  \A t \in Actors : pc[t] = "Call" =>
    \/ ctx[t].at \in Closures /\ closure[ctx[t].at].count > 0
    \/ /\ ctx[t].at \in Bridges /\ bridge[ctx[t].at].refs > 0
       /\ bridge[ctx[t].at].fn # Empty \/ bridge[ctx[t].at].lifetime # Null
    \/ ctx[t].at \in Delegates /\ delegate[ctx[t].at].life \in {"live", "lost"}

HeldClosures ==
  Closures \cap ({slot[s] : s \in Slots} \cup {ctx[t].c : t \in Actors}
                   \cup {bridge[b].fn : b \in Bridges})

\* C++ can use a delegate as long as it holds a function made for it.
Lifetime == INSTANCE CallableLifetime WITH
  present <- {d \in Delegates : delegate[d].life \in {"live", "lost"}},
  held <- {closure[c].of : c \in HeldClosures}

ImplementsLifetime == Lifetime!Spec

\* What can lead to a delegate that the program itself has lost: a variable of the
\* native code, a function pointer, or a delegate made for a native function.
StillReferenced ==
  \/ pinned # {}
  \/ \E s \in Slots : slot[s] \in Closures
  \/ \E d \in Delegates : delegate[d].life = "live" /\ delegate[d].bridge # Null

\* A lost delegate goes away once nothing leads to it: no release is forgotten, by
\* finally blocks, closures, bridges or finalizers.
LostAreCollected ==
  \A d \in Delegates : []<>(delegate[d].life # "lost" \/ StillReferenced)
=============================================================================
