---------------------- MODULE WrapperLifecycleInvariant ----------------------
(***************************************************************************)
(* The inductive invariants of WrapperLifecycle.  TypeInv holds whatever   *)
(* the program does; IInv needs a program that keeps the three rules of    *)
(* use, and implies that no generated call reaches freed native memory.    *)
(***************************************************************************)
EXTENDS WrapperLifecycle

\* A wrapper in use has a handle.
HandleInv == \A w \in Wrappers : wrapper[w].life \in {"ctor", "live"} => wrapper[w].handle # Null

\* What each step knows about the wrapper and the handle it works with.
ActorInv(t) ==
  /\ pc[t] \notin {"idle", "Finish"} => ctx[t].h \in Addresses
  /\ pc[t] \in CtorSteps => ctx[t].w \in Wrappers /\ wrapper[ctx[t].w].life = "ctor"
  /\ pc[t] \in DisposeSteps =>
       ctx[t].w \in Wrappers /\ wrapper[ctx[t].w].life \notin {"none", "ctor"}
  /\ pc[t] = "Override" => ctx[t].inst \in Wrappers

CtorAlone ==
  \A t, u \in Actors :
    pc[t] \in CtorSteps /\ pc[u] \in CtorSteps /\ ctx[t].w = ctx[u].w => t = u

StepInv == HandleInv /\ (\A t \in Actors : ActorInv(t)) /\ CtorAlone

TypeInv == TypeOK /\ StepInv

-----------------------------------------------------------------------------
\* What the fields of a wrapper say in each part of its life.
LifeInv ==
  \A w \in Wrappers :
    /\ wrapper[w].life \notin {"ctor", "live", "unreachable"} => wrapper[w].handle = Null
    /\ wrapper[w].owned => wrapper[w].handle # Null
    /\ w \in roots => wrapper[w].life \in {"live", "disposed"}

\* The wrapper an operation works with keeps the fields that the operation read.
OpInv(t) ==
  LET w == ctx[t].w IN
  /\ pc[t] \in CtorSteps => wrapper[w].handle = ctx[t].h
  /\ pc[t] \in CallSteps /\ w # Null =>
       w \in Wrappers /\ wrapper[w].life = "live" /\ wrapper[w].handle = ctx[t].h
  /\ pc[t] \in DisposeSteps =>
       /\ wrapper[w].handle = ctx[t].h
       /\ wrapper[w].owned = ctx[t].owned
       /\ wrapper[w].life = (IF t = Finalizer THEN "unreachable" ELSE "live")

\* One thread at most disposes a wrapper.
DisposeAlone ==
  \A t, u \in Actors :
    pc[t] \in DisposeSteps /\ pc[u] \in DisposeSteps /\ ctx[t].w = ctx[u].w => t = u

ContextInv == (\A t \in Actors : OpInv(t)) /\ DisposeAlone

\* A native object exists while a wrapper refers to it or a thread works on it.
AliveInv ==
  \A a \in Addresses : Referring(a) # {} \/ Busy(a) # {} => native[a].kind # "free"

\* A native object has one owner, and one whose wrapper the program let go of
\* has no other wrapper.
OwnerInv ==
  \A a \in Addresses : \A v, w \in Referring(a) :
    /\ wrapper[v].owned /\ wrapper[w].owned => v = w
    /\ w \notin roots /\ wrapper[w].life \in {"live", "unreachable"} =>
         wrapper[w].owned /\ v = w

\* Whoever works on a native object does so through a wrapper that refers to it,
\* or as native code on an object without owner; whoever disposes it is alone.
BusyInv ==
  \A a \in Addresses : \A t \in Busy(a) :
    /\ ctx[t].w = Null => Unowned(a)
    /\ ctx[t].w # Null => ctx[t].w \in Referring(a)
    /\ pc[t] \in DisposeSteps =>
         /\ Busy(a) = {t}
         /\ ctx[t].owned => Referring(a) = {ctx[t].w}

SafeInv == LifeInv /\ ContextInv /\ AliveInv /\ OwnerInv /\ BusyInv

\* The inductive invariant of a program that keeps the rules of use.
IInv == TypeInv /\ SafeInv

-----------------------------------------------------------------------------
\* A native object that was not wrapped a second time has one wrapper.
AliasInv ==
  \A a \in Addresses : ~native[a].aliased => \A v, w \in Referring(a) : v = w

\* A constructor that has passed the cache has its entry, of the class that the
\* rest of the constructor takes it to be.
CtorRegistered(t) ==
  LET w == ctx[t].w
      h == ctx[t].h
  IN  /\ pc[t] = "Connect" /\ ~native[h].aliased => registry[wrapper[w].cls][h] = w
      /\ pc[t] = "BaseConnect" /\ ~native[h].aliased => registry["Root"][h] = w
      /\ pc[t] = "DerivedRegister" => wrapper[w].cls = "Derived"

\* OwnerRegistered, made inductive.
RegistryInv == IInv /\ AliasInv /\ (\A t \in Actors : CtorRegistered(t)) /\ OwnerRegistered

-----------------------------------------------------------------------------
\* Until a public constructor has connected the callbacks, its object is of its own
\* class and has no second wrapper; the other constructors make wrappers of generated
\* classes, which override nothing.
ConstructionInv(t) ==
  LET w == ctx[t].w
      h == ctx[t].h
  IN  /\ pc[t] \in {"Register", "Connect"} =>
           native[h].kind = wrapper[w].cls /\ wrapper[w].owned /\ ~native[h].aliased
      /\ pc[t] \in {"BaseRegister", "BaseConnect", "DerivedRegister"} => ~wrapper[w].mask

\* A wrapper whose override every native call on its object has to reach.
Overriding(w) ==
  /\ wrapper[w].life = "live" /\ wrapper[w].mask
  /\ ~native[wrapper[w].handle].aliased /\ ~Disposing(w)

\* Its object's slot holds the callback of its class.
SlotInv ==
  \A w \in Wrappers : Overriding(w) =>
    native[wrapper[w].handle].slot /\ native[wrapper[w].handle].kind = wrapper[w].cls

\* Each step of a native call on the object is on the way to the override.
OverrideInv(t) ==
  \A w \in Wrappers : Overriding(w) /\ wrapper[w].handle = ctx[t].h =>
    /\ pc[t] = "Callback" => ctx[t].cls = wrapper[w].cls
    /\ pc[t] = "Override" => ctx[t].inst = w
    /\ pc[t] = "Return" => ctx[t].result = "override"

\* A native call on the object at a reaches the cache, or has reached it already.
Dispatching(a) == native[a].slot \/ \E t \in Busy(a) : pc[t] = "Callback"

\* A Root object whose calls reach the cache has an entry there that refers to it.
RootEntryInv ==
  \A a \in Addresses :
    native[a].kind = "Root" /\ Dispatching(a) => registry["Root"][a] \in Referring(a)

\* What the steps of calls and of Dispose know about a Root object.
RootInv(t) ==
  LET h == ctx[t].h IN
  /\ pc[t] \in {"Unregister", "Destroy"} /\ native[h].kind = "Root" => ~native[h].slot
  /\ pc[t] = "Callback" /\ native[h].kind = "Root" => ctx[t].cls = "Root"
  /\ pc[t] = "Override" /\ native[h].kind = "Root" => ctx[t].inst \in Referring(h)
  /\ pc[t] = "Return" /\ native[h].kind = "Root" => ctx[t].result # "default"

\* OverrideDispatched, RootDispatchNeverDefault and OverrideOnUndisposed, made inductive.
DispatchInv ==
  /\ RegistryInv
  /\ \A t \in Actors : ConstructionInv(t) /\ OverrideInv(t) /\ RootInv(t)
  /\ SlotInv /\ RootEntryInv
=============================================================================
