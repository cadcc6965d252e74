-------------------------- MODULE WrapperLifecycle --------------------------
(***************************************************************************)
(* The life of the managed wrappers that csbind23 generates for C++        *)
(* classes: construction and wrapping, the per-class instance cache, the   *)
(* native director through which a C++ virtual call reaches a managed      *)
(* override, Dispose and the finalizer, ownership transfer, garbage        *)
(* collection, and the reuse of native addresses.                          *)
(*                                                                         *)
(* One step is one call that the generated code makes into native code or  *)
(* into the cache: each is atomic on its own (the cache takes its lock),   *)
(* a wrapper operation made of several of them is not.                     *)
(*                                                                         *)
(* "Root" is a generated class without a generated base, "Derived" one     *)
(* whose primary base is Root; both have one virtual method.               *)
(***************************************************************************)
EXTENDS Naturals, FiniteSets

CONSTANTS
  Threads,    (* managed threads of the program                            *)
  Finalizer,  (* the runtime's finalizer thread                            *)
  Wrappers,   (* managed wrapper objects                                   *)
  Addresses,  (* addresses at which native objects can be created          *)
  Constructed, (* classes with a registered constructor, whose result the  *)
              (* wrapper owns                                              *)
  Null,       (* IntPtr.Zero, and "no wrapper"                             *)
  Rules       (* the rules of use that the program keeps, see Obeys        *)

ASSUME FinalizerAssumption == Finalizer \notin Threads
ASSUME NullAssumption == Null \notin Wrappers \cup Addresses
ASSUME RulesAssumption == Rules \subseteq {"KeepAlive", "Exclusive", "Scoped"}

VARIABLES
  native,    (* the native heap                                            *)
  wrapper,   (* the fields of every wrapper and where it is in its life    *)
  registry,  (* __csbind23_registry of each class: address -> wrapper      *)
  roots,     (* wrappers that the program still holds a reference to       *)
  pc,        (* next step of the operation each thread is in               *)
  ctx        (* local variables of that operation                          *)

vars == <<native, wrapper, registry, roots, pc, ctx>>

Class == {"Root", "Derived"}

ASSUME ConstructedAssumption == Constructed \subseteq Class

Actors == Threads \cup {Finalizer}

(***************************************************************************)
(* A native object is a plain C++ object or the director of a class.  slot *)
(* is TRUE when the callback table holds the managed callback.  aliased is *)
(* history: a second wrapper has been made for this object.                *)
(***************************************************************************)
Native == [kind : {"free", "Plain"} \cup Class, slot : BOOLEAN, aliased : BOOLEAN]

Freed == [kind |-> "free", slot |-> FALSE, aliased |-> FALSE]

(***************************************************************************)
(* "none": not allocated; "ctor": its constructor runs; "live";            *)
(* "disposed": Dispose() returned, so the finalizer is suppressed;         *)
(* "unreachable": collected, weak references to it are cleared and it      *)
(* waits for the finalizer; "dead".                                        *)
(***************************************************************************)
Life == {"none", "ctor", "live", "disposed", "unreachable", "dead"}

Wrapper == [life : Life, cls : Class, handle : Addresses \cup {Null},
            owned : BOOLEAN, mask : BOOLEAN]

Context == [w : Wrappers \cup {Null}, h : Addresses \cup {Null}, owned : BOOLEAN,
            cls : Class, inst : Wrappers \cup {Null},
            result : {"none", "default", "base", "override"}]

NoContext == [w |-> Null, h |-> Null, owned |-> FALSE, cls |-> "Root", inst |-> Null,
              result |-> "none"]

CtorSteps == {"Register", "Connect", "BaseRegister", "BaseConnect", "DerivedRegister"}
CallSteps == {"Native", "Callback", "Override", "Return"}
DisposeSteps == {"Disconnect", "Unregister", "Destroy", "Finish"}

Init ==
  /\ native = [a \in Addresses |-> Freed]
  /\ wrapper = [w \in Wrappers |-> [life |-> "none", cls |-> "Root", handle |-> Null,
                                    owned |-> FALSE, mask |-> FALSE]]
  /\ registry = [c \in Class |-> [a \in Addresses |-> Null]]
  /\ roots = {}
  /\ pc = [t \in Actors |-> "idle"]
  /\ ctx = [t \in Actors |-> NoContext]

-----------------------------------------------------------------------------
(***************************************************************************)
(* Helpers.                                                                *)
(***************************************************************************)
Goto(t, label) == pc' = [pc EXCEPT ![t] = label]

Begin(t, label, w, h, owned) ==
  /\ pc[t] = "idle"
  /\ Goto(t, label)
  /\ ctx' = [ctx EXCEPT ![t] = [NoContext EXCEPT !.w = w, !.h = h, !.owned = owned]]

End(t) == Goto(t, "idle") /\ ctx' = [ctx EXCEPT ![t] = NoContext]

Disposing(w) == \E t \in Actors : pc[t] \in DisposeSteps /\ ctx[t].w = w

\* The wrapper has left its native object, only its own fields are left to clear.
Finishing(w) == \E t \in Actors : pc[t] = "Finish" /\ ctx[t].w = w

(***************************************************************************)
(* A class has a _destroy if it has such a constructor, and Dispose(bool)  *)
(* of a root class calls that of its own class only.  Without it an object *)
(* that its wrapper owns stays on the heap: one that was returned by value,*)
(* or one of Derived.                                                      *)
(***************************************************************************)
EmitsDestroy == "Root" \in Constructed

\* Wrappers that refer to the native object at a.
Referring(a) == {w \in Wrappers : wrapper[w].handle = a /\ ~Finishing(w)}

\* DefaultInstanceCache<T>.TryGet: the entry's weak reference has a target.
TryGet(c, a) ==
  LET w == registry[c][a]
  IN  IF w # Null /\ wrapper[w].life \in {"ctor", "live", "disposed"} THEN w ELSE Null

\* X_connect_director: dynamic_cast to the director of class c, then set_callbacks.
ConnectDirector(c, a, mask) ==
  native' = IF native[a].kind = c THEN [native EXCEPT ![a].slot = mask] ELSE native

(***************************************************************************)
(* What the program promises, each rule assumed only when it is in Rules.  *)
(*   KeepAlive: a caller holds the receiver until the call returns.        *)
(*   Exclusive: an object that one thread disposes, or a native object     *)
(*              whose wrapper is disposed, is not in use by another thread.*)
(*   Scoped:    a wrapper that only borrows is disposed by the program     *)
(*              while the native object it refers to still exists.         *)
(* Operations on a wrapper that is disposed already, which pass a zero     *)
(* handle to native code, are outside Usable: no program here makes them.  *)
(***************************************************************************)
Obeys(rule, condition) == rule \in Rules => condition

\* Threads whose operation still works on the native object at a.
Busy(a) == {t \in Actors : pc[t] \notin {"idle", "Finish"} /\ ctx[t].h = a}

BeingDisposed(a) == \E t \in Busy(a) : pc[t] \in DisposeSteps

Usable(w) ==
  /\ w \in roots
  /\ wrapper[w].life = "live"
  /\ Obeys("Exclusive", ~Disposing(w) /\ ~BeingDisposed(wrapper[w].handle))

Unowned(a) == \A v \in Referring(a) : ~wrapper[v].owned

-----------------------------------------------------------------------------
(***************************************************************************)
(* Public constructor of class c: base(IntPtr.Zero, Borrowed), whose body  *)
(* registers and connects nothing for a zero handle, then                  *)
(* SetHandle(create(), Owned) and InitializeDerivedOverrideFlags.          *)
(***************************************************************************)
New(t, w, c, a, overrides) ==
  /\ c \in Constructed
  /\ wrapper[w].life = "none"
  /\ native[a].kind = "free"
  /\ native' = [native EXCEPT ![a] = [Freed EXCEPT !.kind = c]]
  /\ wrapper' = [wrapper EXCEPT ![w] =
       [life |-> "ctor", cls |-> c, handle |-> a, owned |-> TRUE, mask |-> overrides]]
  /\ Begin(t, "Register", w, a, FALSE)
  /\ UNCHANGED <<registry, roots>>

\* A parameter conversion throws before create(): the object keeps the zero handle.
NewThrows(t, w, c) ==
  /\ pc[t] = "idle"
  /\ c \in Constructed
  /\ wrapper[w].life = "none"
  /\ wrapper' = [wrapper EXCEPT ![w].life = "unreachable", ![w].cls = c]
  /\ UNCHANGED <<native, registry, roots, pc, ctx>>

Register(t) ==
  /\ pc[t] = "Register"
  /\ registry' = [registry EXCEPT ![wrapper[ctx[t].w].cls][ctx[t].h] = ctx[t].w]
  /\ Goto(t, "Connect")
  /\ UNCHANGED <<native, wrapper, roots, ctx>>

\* Mutant: the callbacks are connected before the override flags are set.
ConnectBeforeFlags(t) ==
  /\ pc[t] = "Connect"
  /\ ConnectDirector(wrapper[ctx[t].w].cls, ctx[t].h, FALSE)
  /\ wrapper' = [wrapper EXCEPT ![ctx[t].w].life = "live"]
  /\ roots' = roots \cup {ctx[t].w}
  /\ End(t)
  /\ UNCHANGED registry

Connect(t) ==
  LET w == ctx[t].w IN
  /\ pc[t] = "Connect"
  /\ ConnectDirector(wrapper[w].cls, ctx[t].h, wrapper[w].mask)
  /\ wrapper' = [wrapper EXCEPT ![w].life = "live"]
  /\ roots' = roots \cup {w}
  /\ End(t)
  /\ UNCHANGED registry

(***************************************************************************)
(* WrapPolymorphic constructs a new wrapper for a pointer that native code *)
(* returned; it never asks the cache.  A director is of no registered      *)
(* dynamic type, so it is wrapped as the declared class c.                 *)
(***************************************************************************)
WrapBorrowed(t, w, c, a) ==
  /\ wrapper[w].life = "none"
  /\ native[a].kind # "free"
  /\ c = "Derived" => native[a].kind = "Derived"
  /\ Obeys("Exclusive", ~BeingDisposed(a))
  /\ Obeys("Scoped", \A v \in Referring(a) : wrapper[v].owned => v \in roots)
  /\ native' = [native EXCEPT ![a].aliased = TRUE]
  /\ wrapper' = [wrapper EXCEPT ![w] =
       [life |-> "ctor", cls |-> c, handle |-> a, owned |-> FALSE, mask |-> FALSE]]
  /\ Begin(t, "BaseRegister", w, a, FALSE)
  /\ UNCHANGED <<registry, roots>>

\* An object returned by value, which its converter put on the heap: the wrapper
\* owns it (the .Owned case of assign_bound_class_managed_converter), whether or not
\* the class has a constructor.
WrapOwned(t, w, a) ==
  /\ wrapper[w].life = "none"
  /\ native[a].kind = "free"
  /\ native' = [native EXCEPT ![a] = [Freed EXCEPT !.kind = "Plain"]]
  /\ wrapper' = [wrapper EXCEPT ![w] =
       [life |-> "ctor", cls |-> "Root", handle |-> a, owned |-> TRUE, mask |-> FALSE]]
  /\ Begin(t, "BaseRegister", w, a, FALSE)
  /\ UNCHANGED <<registry, roots>>

BaseRegister(t) ==
  /\ pc[t] = "BaseRegister"
  /\ registry' = [registry EXCEPT !["Root"][ctx[t].h] = ctx[t].w]
  /\ Goto(t, "BaseConnect")
  /\ UNCHANGED <<native, wrapper, roots, ctx>>

\* The generated class overrides nothing, so every callback it connects is null.
BaseConnect(t) ==
  LET w == ctx[t].w IN
  /\ pc[t] = "BaseConnect"
  /\ ConnectDirector("Root", ctx[t].h, FALSE)
  /\ IF wrapper[w].cls = "Derived"
       THEN Goto(t, "DerivedRegister") /\ UNCHANGED <<wrapper, roots, ctx>>
       ELSE /\ wrapper' = [wrapper EXCEPT ![w].life = "live"]
            /\ roots' = roots \cup {w}
            /\ End(t)
  /\ UNCHANGED registry

DerivedRegister(t) ==
  LET w == ctx[t].w IN
  /\ pc[t] = "DerivedRegister"
  /\ registry' = [registry EXCEPT !["Derived"][ctx[t].h] = w]
  /\ wrapper' = [wrapper EXCEPT ![w].life = "live"]
  /\ roots' = roots \cup {w}
  /\ End(t)
  /\ UNCHANGED native

-----------------------------------------------------------------------------
(***************************************************************************)
(* A wrapper method passes the raw handle to native code, which makes a    *)
(* virtual call on the object.  The director calls the callback of its     *)
(* slot or the C++ base; the callback asks the cache of its class.         *)
(***************************************************************************)
Call(t, w) ==
  /\ Usable(w)
  /\ Begin(t, "Native", w, wrapper[w].handle, FALSE)
  /\ UNCHANGED <<native, wrapper, registry, roots>>

\* Native code uses an object that it owns itself.
NativeCall(t, a) ==
  /\ native[a].kind # "free"
  /\ Unowned(a)
  /\ Obeys("Exclusive", ~BeingDisposed(a))
  /\ Begin(t, "Native", Null, a, FALSE)
  /\ UNCHANGED <<native, wrapper, registry, roots>>

Native_Dispatch(t) ==
  LET obj == native[ctx[t].h] IN
  /\ pc[t] = "Native"
  /\ IF obj.slot
       THEN Goto(t, "Callback") /\ ctx' = [ctx EXCEPT ![t].cls = obj.kind]
       ELSE Goto(t, "Return") /\ ctx' = [ctx EXCEPT ![t].result = "base"]
  /\ UNCHANGED <<native, wrapper, registry, roots>>

Callback(t) ==
  LET inst == TryGet(ctx[t].cls, ctx[t].h) IN
  /\ pc[t] = "Callback"
  /\ IF inst = Null
       THEN Goto(t, "Return") /\ ctx' = [ctx EXCEPT ![t].result = "default"]
       ELSE Goto(t, "Override") /\ ctx' = [ctx EXCEPT ![t].inst = inst]
  /\ UNCHANGED <<native, wrapper, registry, roots>>

\* The callback tests the instance's mask; the base call goes to the same object.
Override(t) ==
  /\ pc[t] = "Override"
  /\ Goto(t, "Return")
  /\ ctx' = [ctx EXCEPT ![t].result = IF wrapper[ctx[t].inst].mask THEN "override" ELSE "base",
                        ![t].inst = Null]
  /\ UNCHANGED <<native, wrapper, registry, roots>>

Return(t) ==
  /\ pc[t] = "Return"
  /\ End(t)
  /\ UNCHANGED <<native, wrapper, registry, roots>>

SetOwnership(t, w, owned) ==
  /\ pc[t] = "idle"
  /\ Usable(w)
  /\ Obeys("Exclusive", owned /\ ~wrapper[w].owned =>
                            Unowned(wrapper[w].handle) /\ Busy(wrapper[w].handle) = {})
  /\ wrapper' = IF wrapper[w].handle = Null THEN wrapper
                ELSE [wrapper EXCEPT ![w].owned = owned]
  /\ UNCHANGED <<native, registry, roots, pc, ctx>>

-----------------------------------------------------------------------------
(***************************************************************************)
(* Dispose.  Only Root classes emit an override of Dispose(bool), so it is *)
(* Root's director and Root's cache that it leaves, whatever the class.    *)
(***************************************************************************)
\* Mutant: the native object is destroyed before the cache forgets it.
DestroyFirst == [Disconnect |-> "Destroy", Destroy |-> "Unregister", Unregister |-> "Finish"]

DisposeOrder == [Disconnect |-> "Unregister", Unregister |-> "Destroy", Destroy |-> "Finish"]

\* Mutant: the class emits no Dispose(bool), only that of CsBind23Object runs.
BeginBaseDispose(t, w) == Begin(t, "Finish", w, wrapper[w].handle, wrapper[w].owned)

BeginDispose(t, w) ==
  LET h == wrapper[w].handle IN
  Begin(t, IF h = Null THEN "Finish" ELSE "Disconnect", w, h, wrapper[w].owned)

Dispose(t, w) ==
  /\ Usable(w)
  /\ Obeys("Exclusive", Busy(wrapper[w].handle) = {})
  /\ Obeys("Scoped", wrapper[w].owned => Referring(wrapper[w].handle) = {w})
  /\ BeginDispose(t, w)
  /\ UNCHANGED <<native, wrapper, registry, roots>>

Finalize(w) ==
  /\ wrapper[w].life = "unreachable"
  /\ BeginDispose(Finalizer, w)
  /\ UNCHANGED <<native, wrapper, registry, roots>>

\* Mutant: the director keeps its callbacks.
SkipDisconnect(t) ==
  /\ pc[t] = "Disconnect"
  /\ Goto(t, DisposeOrder.Disconnect)
  /\ UNCHANGED <<native, wrapper, registry, roots, ctx>>

Disconnect(t) ==
  /\ pc[t] = "Disconnect"
  /\ ConnectDirector("Root", ctx[t].h, FALSE)
  /\ Goto(t, DisposeOrder.Disconnect)
  /\ UNCHANGED <<wrapper, registry, roots, ctx>>

Unregister(t) ==
  /\ pc[t] = "Unregister"
  /\ registry' = [registry EXCEPT !["Root"][ctx[t].h] = Null]
  /\ Goto(t, DisposeOrder.Unregister)
  /\ UNCHANGED <<native, wrapper, roots, ctx>>

\* Mutant: _ownership is not consulted.
DestroyBorrowed(t) ==
  /\ pc[t] = "Destroy"
  /\ native' = IF EmitsDestroy THEN [native EXCEPT ![ctx[t].h] = Freed] ELSE native
  /\ Goto(t, DisposeOrder.Destroy)
  /\ UNCHANGED <<wrapper, registry, roots, ctx>>

\* Mutant: the storage is freed with its callback table still filled.
DestroyConnected(t) ==
  /\ pc[t] = "Destroy"
  /\ native' = IF EmitsDestroy /\ ctx[t].owned
                 THEN [native EXCEPT ![ctx[t].h].kind = "free"] ELSE native
  /\ Goto(t, DisposeOrder.Destroy)
  /\ UNCHANGED <<wrapper, registry, roots, ctx>>

Destroy(t) ==
  /\ pc[t] = "Destroy"
  /\ native' = IF EmitsDestroy /\ ctx[t].owned
                 THEN [native EXCEPT ![ctx[t].h] = Freed] ELSE native
  /\ Goto(t, DisposeOrder.Destroy)
  /\ UNCHANGED <<wrapper, registry, roots, ctx>>

\* Mutant: the finalizer is suppressed but the handle stays.
FinishKeepingHandle(t) ==
  /\ pc[t] = "Finish"
  /\ wrapper' = [wrapper EXCEPT ![ctx[t].w].life = IF t = Finalizer THEN "dead" ELSE "live"]
  /\ End(t)
  /\ UNCHANGED <<native, registry, roots>>

\* CsBind23Object.Dispose(bool): Dispose() suppresses the finalizer.
Finish(t) ==
  /\ pc[t] = "Finish"
  /\ wrapper' = [wrapper EXCEPT ![ctx[t].w].handle = Null, ![ctx[t].w].owned = FALSE,
                   ![ctx[t].w].life = IF t = Finalizer THEN "dead" ELSE "disposed"]
  /\ End(t)
  /\ UNCHANGED <<native, registry, roots>>

-----------------------------------------------------------------------------
(***************************************************************************)
(* The program drops its last reference, and the runtime collects.         *)
(***************************************************************************)
Drop(w) ==
  /\ w \in roots
  /\ Obeys("Scoped", \/ wrapper[w].life = "disposed"
                     \/ /\ wrapper[w].owned
                        /\ Referring(wrapper[w].handle) = {w})
  /\ roots' = roots \ {w}
  /\ UNCHANGED <<native, wrapper, registry, pc, ctx>>

\* References that the frames of running operations hold.
Held(w) ==
  \E t \in Actors :
    \/ ctx[t].inst = w
    \/ ctx[t].w = w /\ pc[t] \in CtorSteps \cup DisposeSteps
    \/ ctx[t].w = w /\ pc[t] \in CallSteps /\ "KeepAlive" \in Rules

Collect(w) ==
  /\ w \notin roots
  /\ ~Held(w)
  /\ \/ /\ wrapper[w].life = "live"
        /\ wrapper' = [wrapper EXCEPT ![w].life = "unreachable"]
     \/ /\ wrapper[w].life = "disposed"
        /\ wrapper' = [wrapper EXCEPT ![w].life = "dead"]
  /\ UNCHANGED <<native, registry, roots, pc, ctx>>

\* Native code deletes an object that it owns.
NativeDelete(a) ==
  /\ native[a].kind # "free"
  /\ Unowned(a)
  /\ Obeys("Exclusive", Busy(a) = {})
  /\ Obeys("Scoped", Referring(a) = {})
  /\ native' = [native EXCEPT ![a] = Freed]
  /\ UNCHANGED <<wrapper, registry, roots, pc, ctx>>

-----------------------------------------------------------------------------
Start(t) ==
  \/ \E w \in Wrappers, c \in Class, a \in Addresses :
       \/ \E overrides \in BOOLEAN : New(t, w, c, a, overrides)
       \/ WrapBorrowed(t, w, c, a)
  \/ \E w \in Wrappers, c \in Class : NewThrows(t, w, c)
  \/ \E w \in Wrappers, a \in Addresses : WrapOwned(t, w, a)
  \/ \E w \in Wrappers : Call(t, w) \/ Dispose(t, w)
  \/ \E a \in Addresses : NativeCall(t, a)
  \/ \E w \in Wrappers, owned \in BOOLEAN : SetOwnership(t, w, owned)

CtorStep(t) ==
  Register(t) \/ Connect(t) \/ BaseRegister(t) \/ BaseConnect(t) \/ DerivedRegister(t)
CallStep(t) == Native_Dispatch(t) \/ Callback(t) \/ Override(t) \/ Return(t)
DisposeStep(t) == Disconnect(t) \/ Unregister(t) \/ Destroy(t) \/ Finish(t)

FinalizerStep == DisposeStep(Finalizer) \/ \E w \in Wrappers : Finalize(w)

Next ==
  \/ \E t \in Threads : Start(t) \/ CtorStep(t) \/ CallStep(t) \/ DisposeStep(t)
  \/ FinalizerStep
  \/ \E w \in Wrappers : Drop(w) \/ Collect(w)
  \/ \E a \in Addresses : NativeDelete(a)

Spec == Init /\ [][Next]_vars

(***************************************************************************)
(* An operation that has begun goes on, and the finalizer thread serves    *)
(* its queue.  Nothing obliges the program to start or to drop anything,   *)
(* nor the runtime to collect.                                             *)
(***************************************************************************)
Fairness ==
  /\ WF_vars(FinalizerStep)
  /\ \A t \in Threads : WF_vars(CtorStep(t) \/ CallStep(t) \/ DisposeStep(t))

FairSpec == Spec /\ Fairness
-----------------------------------------------------------------------------
(***************************************************************************)
(* Type invariant.                                                         *)
(***************************************************************************)
TypeOK ==
  /\ native \in [Addresses -> Native]
  /\ wrapper \in [Wrappers -> Wrapper]
  /\ registry \in [Class -> [Addresses -> Wrappers \cup {Null}]]
  /\ roots \subseteq Wrappers
  /\ pc \in [Actors -> {"idle"} \cup CtorSteps \cup CallSteps \cup DisposeSteps]
  /\ ctx \in [Actors -> Context]
  /\ \A a \in Addresses : native[a].slot => native[a].kind \in Class

\* The steps in which a thread reads or writes the native object it works on.
Touching(t) ==
  \/ pc[t] \in {"Connect", "BaseConnect", "Native", "Override", "Return", "Disconnect"}
  \/ pc[t] = "Destroy" /\ EmitsDestroy /\ ctx[t].owned

\* No generated call reaches native memory that has been freed, and no object
\* is destroyed twice.
NoUseAfterFree == \A t \in Actors : Touching(t) => native[ctx[t].h].kind # "free"

\* A native object goes only when no other thread is working on it and no other
\* wrapper still refers to it, so nobody can meet the next object at its address.
DestroyIsSafe ==
  [][\A a \in Addresses :
       native[a].kind # "free" /\ native'[a].kind = "free" =>
         \E w \in Wrappers \cup {Null} :
           /\ Referring(a) \subseteq {w}
           /\ \A t \in Busy(a) : ctx[t].w = w /\ pc[t] = "Destroy"]_vars

\* The cache of its class finds a constructed wrapper by its handle, as long as
\* no second wrapper was made for the object: whatever another thread or the
\* finalizer disposes meanwhile, the earlier object at the same address included.
OwnerRegistered ==
  \A w \in Wrappers :
    /\ wrapper[w].life = "live"
    /\ ~native[wrapper[w].handle].aliased
    /\ ~Disposing(w)
    => registry[wrapper[w].cls][wrapper[w].handle] = w

\* A virtual call made by native code has run w's override when it returns.
Dispatched(t, w) ==
  /\ pc[t] = "Return"
  /\ wrapper[w].life = "live"
  /\ wrapper[w].mask
  /\ wrapper[w].handle = ctx[t].h
  /\ ~Disposing(w)
  => ctx[t].result = "override"

\* Native dispatch reaches the managed override of every object that was never
\* wrapped a second time.
OverrideDispatched ==
  \A t \in Actors, w \in Wrappers :
    pc[t] = "Return" /\ ~native[ctx[t].h].aliased => Dispatched(t, w)

\* The same of every object, as ManagedOverride_NativeDispatch_UsesManagedOverride
\* (tests/class/test_virtual.cs) has it.
NativeDispatchUsesManagedOverride == \A t \in Actors, w \in Wrappers : Dispatched(t, w)

\* A native call on a Root director never falls into the window in which its slot
\* is set but the cache has no instance, where the callback returns default.
RootDispatchNeverDefault ==
  \A t \in Actors :
    pc[t] = "Return" /\ native[ctx[t].h].kind = "Root" => ctx[t].result # "default"

\* The override of a Root director runs on the wrapper that still has its handle.
OverrideOnUndisposed ==
  \A t \in Actors :
    pc[t] = "Override" /\ native[ctx[t].h].kind = "Root" =>
      wrapper[ctx[t].inst].handle = ctx[t].h

\* The finalizer or Dispose() still has to destroy the object at a for w.
Owes(w, a) ==
  /\ wrapper[w].owned /\ wrapper[w].handle = a
  /\ wrapper[w].life = "unreachable" \/ Disposing(w)
  /\ ~Finishing(w)

\* A native object whose owner was collected or disposed is destroyed, if its root
\* class has a _destroy (csharp_emitter.cpp:4443); of others this promises nothing.
OwnedGarbageIsFreed ==
  \A w \in Wrappers, a \in Addresses :
    (EmitsDestroy /\ Owes(w, a)) ~> (native[a].kind = "free")
=============================================================================
