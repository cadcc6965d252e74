----------------------- MODULE WrapperLifecycleProofs -----------------------
(***************************************************************************)
(* Type correctness of WrapperLifecycle, for any number of threads,        *)
(* wrappers and addresses, and whatever rules of use the program keeps;    *)
(* and its memory safety: a program that keeps the three rules of use      *)
(* never touches native memory that was freed, and never destroys an       *)
(* object while somebody works on it or refers to it.                      *)
(***************************************************************************)
EXTENDS WrapperLifecycleInvariant, TLAPS

\* The part of TypeOK about the native heap.
NativeOK ==
  /\ native \in [Addresses -> Native]
  /\ \A a \in Addresses : native[a].slot => native[a].kind \in Class

\* connect_director and disconnect_director fill a slot of a director only.
LEMMA ConnectDirectorType ==
  ASSUME NativeOK, NEW c \in Class, NEW a, NEW mask \in BOOLEAN, ConnectDirector(c, a, mask)
  PROVE  NativeOK'
BY DEF NativeOK, ConnectDirector, Native, Class

\* A change of one field keeps a wrapper a wrapper.
LEMMA WrapperFields ==
  ASSUME wrapper \in [Wrappers -> Wrapper], NEW w
  PROVE  /\ \A l \in Life : [wrapper EXCEPT ![w].life = l] \in [Wrappers -> Wrapper]
         /\ \A l \in Life, c \in Class :
              [wrapper EXCEPT ![w].life = l, ![w].cls = c] \in [Wrappers -> Wrapper]
         /\ \A l \in Life :
              [wrapper EXCEPT ![w].handle = Null, ![w].owned = FALSE, ![w].life = l]
                \in [Wrappers -> Wrapper]
BY DEF Wrapper

LEMMA TypeInvInit == Init => TypeInv
BY NullAssumption DEF Init, TypeInv, TypeOK, StepInv, HandleInv, ActorInv, CtorAlone, Native,
   Freed, Wrapper, Life, Class, Context, NoContext, CtorSteps, DisposeSteps, CallSteps

LEMMA TypeInvNext == TypeInv /\ [Next]_vars => TypeInv'
<1> SUFFICES ASSUME TypeInv, [Next]_vars PROVE TypeInv'
  OBVIOUS
<1> USE NullAssumption DEF TypeInv, TypeOK, StepInv, HandleInv, ActorInv, CtorAlone, Actors, Native,
      Freed, Wrapper, Life, Class, Context, NoContext, CtorSteps, DisposeSteps, CallSteps, Goto, Begin, End
<1>1. ASSUME NEW t \in Actors, NEW w \in Wrappers, NEW c \in Class, NEW a \in Addresses,
             NEW o \in BOOLEAN, New(t, w, c, a, o)
      PROVE  TypeInv'
  <2>1. TypeOK'
    BY <1>1 DEF New
  <2>2. StepInv'
    BY <1>1 DEF New
  <2> QED BY <2>1, <2>2
<1>2. ASSUME NEW t \in Actors, NEW w \in Wrappers, NEW c \in Class, NewThrows(t, w, c)
      PROVE  TypeInv'
  <2>1. wrapper' \in [Wrappers -> Wrapper]
    BY <1>2, WrapperFields DEF NewThrows
  <2>2. TypeOK'
    BY <1>2, <2>1 DEF NewThrows
  <2>3. StepInv'
    BY <1>2 DEF NewThrows
  <2> QED BY <2>2, <2>3
<1>3. ASSUME NEW t \in Actors, Register(t)
      PROVE  TypeInv'
  <2>1. TypeOK'
    BY <1>3 DEF Register
  <2>2. StepInv'
    BY <1>3 DEF Register
  <2> QED BY <2>1, <2>2
<1>4. ASSUME NEW t \in Actors, Connect(t)
      PROVE  TypeInv'
  <2>1. NativeOK'
    BY <1>4, ConnectDirectorType DEF NativeOK, Connect
  <2>2. wrapper' \in [Wrappers -> Wrapper]
    BY <1>4, WrapperFields DEF Connect
  <2>3. TypeOK'
    BY <1>4, <2>1, <2>2 DEF NativeOK, Connect
  <2>4. StepInv'
    BY <1>4 DEF Connect
  <2> QED BY <2>3, <2>4
<1>5. ASSUME NEW t \in Actors, NEW w \in Wrappers, NEW c \in Class, NEW a \in Addresses,
             WrapBorrowed(t, w, c, a)
      PROVE  TypeInv'
  <2>1. NativeOK'
    <3>1. native' = [native EXCEPT ![a].aliased = TRUE]
      BY <1>5 DEF WrapBorrowed
    <3>2. NativeOK
      BY DEF NativeOK
    <3> QED BY ONLY <3>1, <3>2, a \in Addresses DEF NativeOK, Native, Class
  <2>2. ctx' \in [Actors -> Context]
    BY <1>5 DEF WrapBorrowed
  <2>3. TypeOK'
    BY <1>5, <2>1, <2>2 DEF NativeOK, WrapBorrowed
  <2>4. StepInv'
    BY <1>5 DEF WrapBorrowed
  <2> QED BY <2>3, <2>4
<1>6. ASSUME NEW t \in Actors, NEW w \in Wrappers, NEW a \in Addresses, WrapOwned(t, w, a)
      PROVE  TypeInv'
  <2>1. TypeOK'
    BY <1>6 DEF WrapOwned
  <2>2. StepInv'
    BY <1>6 DEF WrapOwned
  <2> QED BY <2>1, <2>2
<1>7. ASSUME NEW t \in Actors, BaseRegister(t)
      PROVE  TypeInv'
  <2>1. TypeOK'
    BY <1>7 DEF BaseRegister
  <2>2. StepInv'
    BY <1>7 DEF BaseRegister
  <2> QED BY <2>1, <2>2
<1>8. ASSUME NEW t \in Actors, BaseConnect(t)
      PROVE  TypeInv'
  <2>1. NativeOK'
    BY <1>8, ConnectDirectorType DEF NativeOK, BaseConnect
  <2>2. wrapper' \in [Wrappers -> Wrapper]
    <3>1. CASE wrapper' = wrapper
      BY <3>1
    <3>2. CASE wrapper' = [wrapper EXCEPT ![ctx[t].w].life = "live"]
      BY <3>2, WrapperFields
    <3> QED BY <1>8, <3>1, <3>2 DEF BaseConnect
  <2>3. CASE wrapper[ctx[t].w].cls = "Derived"
    <3>1. TypeOK'
      BY <1>8, <2>1, <2>2, <2>3 DEF NativeOK, BaseConnect
    <3>2. StepInv'
      BY <1>8, <2>3 DEF BaseConnect
    <3> QED BY <3>1, <3>2
  <2>4. CASE wrapper[ctx[t].w].cls # "Derived"
    <3>1. /\ pc[t] = "BaseConnect" /\ pc' = [pc EXCEPT ![t] = "idle"]
          /\ ctx' = [ctx EXCEPT ![t] = NoContext]
          /\ wrapper' = [wrapper EXCEPT ![ctx[t].w].life = "live"]
          /\ roots' = roots \cup {ctx[t].w} /\ registry' = registry
      BY <1>8, <2>4 DEF BaseConnect
    <3>2. TypeOK'
      BY <2>1, <2>2, <3>1 DEF NativeOK
    <3>3. StepInv'
      BY <3>1
    <3> QED BY <3>2, <3>3
  <2> QED BY <2>3, <2>4
<1>9. ASSUME NEW t \in Actors, DerivedRegister(t)
      PROVE  TypeInv'
  <2>1. wrapper' \in [Wrappers -> Wrapper]
    BY <1>9, WrapperFields DEF DerivedRegister
  <2>2. TypeOK'
    BY <1>9, <2>1 DEF DerivedRegister
  <2>3. StepInv'
    BY <1>9 DEF DerivedRegister
  <2> QED BY <2>2, <2>3
<1>10. ASSUME NEW t \in Actors, NEW w \in Wrappers, Call(t, w)
      PROVE  TypeInv'
  <2>1. TypeOK'
    BY <1>10 DEF Call, Usable
  <2>2. StepInv'
    BY <1>10 DEF Call, Usable
  <2> QED BY <2>1, <2>2
<1>11. ASSUME NEW t \in Actors, NEW a \in Addresses, NativeCall(t, a)
      PROVE  TypeInv'
  <2>1. TypeOK'
    BY <1>11 DEF NativeCall
  <2>2. StepInv'
    BY <1>11 DEF NativeCall
  <2> QED BY <2>1, <2>2
<1>12. ASSUME NEW t \in Actors, Native_Dispatch(t)
      PROVE  TypeInv'
  <2>1. TypeOK'
    BY <1>12 DEF Native_Dispatch
  <2>2. StepInv'
    BY <1>12 DEF Native_Dispatch
  <2> QED BY <2>1, <2>2
<1>13. ASSUME NEW t \in Actors, Callback(t)
      PROVE  TypeInv'
  <2>1. TypeOK'
    BY <1>13 DEF Callback, TryGet
  <2>2. StepInv'
    <3> DEFINE inst == TryGet(ctx[t].cls, ctx[t].h)
    <3>1. pc[t] = "Callback" /\ wrapper' = wrapper
      BY <1>13 DEF Callback
    <3>2. inst = Null \/ inst \in Wrappers
      BY <1>13 DEF Callback, TryGet
    <3>3. \/ pc' = [pc EXCEPT ![t] = "Return"] /\ ctx' = [ctx EXCEPT ![t].result = "default"]
          \/ /\ inst \in Wrappers
             /\ pc' = [pc EXCEPT ![t] = "Override"] /\ ctx' = [ctx EXCEPT ![t].inst = inst]
      BY <1>13, <3>2 DEF Callback
    <3> HIDE DEF inst
    <3>4. \A u \in Actors : ctx'[u].w = ctx[u].w /\ ctx'[u].h = ctx[u].h
      BY ONLY <3>3, ctx \in [Actors -> Context], t \in Actors DEF Context
    <3>5. \A u \in Actors : u # t => ctx'[u] = ctx[u]
      BY ONLY <3>3, ctx \in [Actors -> Context], t \in Actors
    <3>6. pc'[t] = "Override" => ctx'[t].inst \in Wrappers
      BY ONLY <3>3, ctx \in [Actors -> Context], t \in Actors, TypeOK DEF Context, TypeOK
    <3>7. \A u \in Actors : u # t => pc'[u] = pc[u]
      BY <3>3
    <3>8. pc'[t] \in {"Return", "Override"}
      BY <3>3
    <3>9. HandleInv'
      BY <3>1
    <3>10. ASSUME NEW u \in Actors PROVE ActorInv(u)'
      BY <3>1, <3>4, <3>5, <3>6, <3>7, <3>8
    <3>11. CtorAlone'
      BY <3>1, <3>4, <3>7, <3>8
    <3> QED BY <3>9, <3>10, <3>11
  <2> QED BY <2>1, <2>2
<1>14. ASSUME NEW t \in Actors, Override(t)
      PROVE  TypeInv'
  <2>1. PICK r \in {"override", "base"} :
          ctx' = [ctx EXCEPT ![t].result = r, ![t].inst = Null]
    BY <1>14 DEF Override
  <2>2. TypeOK'
    BY <1>14, <2>1 DEF Override
  <2>3. StepInv'
    <3>1. pc[t] = "Override" /\ pc' = [pc EXCEPT ![t] = "Return"] /\ wrapper' = wrapper
      BY <1>14 DEF Override
    <3>2. \A u \in Actors : ctx'[u].w = ctx[u].w /\ ctx'[u].h = ctx[u].h
      BY ONLY <2>1, ctx \in [Actors -> Context], t \in Actors DEF Context
    <3>3. \A u \in Actors : u # t => ctx'[u] = ctx[u]
      BY ONLY <2>1, ctx \in [Actors -> Context], t \in Actors
    <3>4. HandleInv'
      BY <3>1
    <3>5. ASSUME NEW u \in Actors PROVE ActorInv(u)'
      BY <3>1, <3>2, <3>3
    <3>6. CtorAlone'
      BY <3>1, <3>2
    <3> QED BY <3>4, <3>5, <3>6
  <2> QED BY <2>2, <2>3
<1>15. ASSUME NEW t \in Actors, Return(t)
      PROVE  TypeInv'
  <2>1. TypeOK'
    BY <1>15 DEF Return
  <2>2. StepInv'
    BY <1>15 DEF Return
  <2> QED BY <2>1, <2>2
<1>16. ASSUME NEW t \in Actors, NEW w \in Wrappers, NEW o \in BOOLEAN, SetOwnership(t, w, o)
      PROVE  TypeInv'
  <2>1. TypeOK'
    BY <1>16 DEF SetOwnership, Usable
  <2>2. StepInv'
    BY <1>16 DEF SetOwnership, Usable
  <2> QED BY <2>1, <2>2
<1>17. ASSUME NEW t \in Actors, NEW w \in Wrappers, Dispose(t, w)
      PROVE  TypeInv'
  <2>1. TypeOK'
    BY <1>17 DEF Dispose, Usable, BeginDispose
  <2>2. StepInv'
    BY <1>17 DEF Dispose, Usable, BeginDispose
  <2> QED BY <2>1, <2>2
<1>18. ASSUME NEW w \in Wrappers, Finalize(w)
      PROVE  TypeInv'
  <2>1. TypeOK'
    BY <1>18 DEF Finalize, BeginDispose
  <2>2. StepInv'
    BY <1>18 DEF Finalize, BeginDispose
  <2> QED BY <2>1, <2>2
<1>19. ASSUME NEW t \in Actors, Disconnect(t)
      PROVE  TypeInv'
  <2>1. NativeOK'
    BY <1>19, ConnectDirectorType DEF NativeOK, Disconnect
  <2>2. TypeOK'
    BY <1>19, <2>1 DEF NativeOK, Disconnect, DisposeOrder
  <2>3. StepInv'
    BY <1>19 DEF Disconnect, DisposeOrder
  <2> QED BY <2>2, <2>3
<1>20. ASSUME NEW t \in Actors, Unregister(t)
      PROVE  TypeInv'
  <2>1. TypeOK'
    BY <1>20 DEF Unregister, DisposeOrder
  <2>2. StepInv'
    BY <1>20 DEF Unregister, DisposeOrder
  <2> QED BY <2>1, <2>2
<1>21. ASSUME NEW t \in Actors, Destroy(t)
      PROVE  TypeInv'
  <2>1. TypeOK'
    BY <1>21 DEF Destroy, DisposeOrder
  <2>2. StepInv'
    BY <1>21 DEF Destroy, DisposeOrder
  <2> QED BY <2>1, <2>2
<1>22. ASSUME NEW t \in Actors, Finish(t)
      PROVE  TypeInv'
  <2> DEFINE l == IF t = Finalizer THEN "dead" ELSE "disposed"
  <2>1. wrapper' = [wrapper EXCEPT ![ctx[t].w].handle = Null, ![ctx[t].w].owned = FALSE,
                                   ![ctx[t].w].life = l]
    BY <1>22 DEF Finish
  <2>2. l \in {"dead", "disposed"}
    OBVIOUS
  <2> HIDE DEF l
  <2>3. wrapper' \in [Wrappers -> Wrapper]
    BY <2>1, <2>2, WrapperFields
  <2>4. TypeOK'
    BY <1>22, <2>3 DEF Finish
  <2>5. StepInv'
    <3>1. HandleInv'
      BY <2>1, <2>2
    <3>2. ASSUME NEW u \in Actors PROVE ActorInv(u)'
      BY <1>22, <2>1, <2>2 DEF Finish
    <3>3. CtorAlone'
      BY <1>22 DEF Finish
    <3> QED BY <3>1, <3>2, <3>3
  <2> QED BY <2>4, <2>5
<1>23. ASSUME NEW w \in Wrappers, Drop(w)
      PROVE  TypeInv'
  <2>1. TypeOK'
    BY <1>23 DEF Drop
  <2>2. StepInv'
    BY <1>23 DEF Drop
  <2> QED BY <2>1, <2>2
<1>24. ASSUME NEW w \in Wrappers, Collect(w)
      PROVE  TypeInv'
  <2>1. PICK l \in {"unreachable", "dead"} : wrapper' = [wrapper EXCEPT ![w].life = l]
    BY <1>24 DEF Collect
  <2>2. wrapper' \in [Wrappers -> Wrapper]
    BY <2>1, WrapperFields
  <2>3. TypeOK'
    BY <1>24, <2>2 DEF Collect
  <2>4. StepInv'
    BY <1>24, <2>1 DEF Collect, Held
  <2> QED BY <2>3, <2>4
<1>25. ASSUME NEW a \in Addresses, NativeDelete(a)
      PROVE  TypeInv'
  <2>1. TypeOK'
    BY <1>25 DEF NativeDelete
  <2>2. StepInv'
    BY <1>25 DEF NativeDelete
  <2> QED BY <2>1, <2>2
<1>26. CASE UNCHANGED vars
  BY <1>26 DEF vars
<1> HIDE DEF TypeInv, Class
<1> QED
  BY <1>1, <1>2, <1>3, <1>4, <1>5, <1>6, <1>7, <1>8, <1>9, <1>10, <1>11, <1>12, <1>13,
     <1>14, <1>15, <1>16, <1>17, <1>18, <1>19, <1>20, <1>21, <1>22, <1>23, <1>24, <1>25,
     <1>26 DEF Next, Start, CtorStep, CallStep, DisposeStep, FinalizerStep

\* TypeOK holds in every reachable state, for any number of threads, wrappers
\* and addresses, even of a program that keeps none of the rules of use.
THEOREM TypeCorrect == Spec => []TypeOK
<1>1. TypeInv => TypeOK
  BY DEF TypeInv
<1> QED BY <1>1, TypeInvInit, TypeInvNext, PTL DEF Spec

-----------------------------------------------------------------------------
RulesKept == Rules = {"KeepAlive", "Exclusive", "Scoped"}

\* The fields of the operations that SafeInv is about.
SameOperation(u) == ctx'[u].w = ctx[u].w /\ ctx'[u].h = ctx[u].h /\ ctx'[u].owned = ctx[u].owned

SameKinds == \A a \in Addresses : native'[a].kind = native[a].kind

-----------------------------------------------------------------------------
\* A step inside one operation that changes neither a wrapper nor the kind of a
\* native object.
LEMMA InnerStep ==
  ASSUME TypeInv, SafeInv, NEW t \in Actors, SameKinds,
         wrapper' = wrapper, roots' = roots,
         \A u \in Actors : SameOperation(u),
         \A u \in Actors : u # t => pc'[u] = pc[u],
         NEW Steps \in {CtorSteps, CallSteps, DisposeSteps \ {"Finish"}},
         pc[t] \in Steps, pc'[t] \in Steps
  PROVE  SafeInv'
<1>1. \A u \in Actors : /\ pc'[u] \in CtorSteps <=> pc[u] \in CtorSteps
                        /\ pc'[u] \in CallSteps <=> pc[u] \in CallSteps
                        /\ pc'[u] \in DisposeSteps <=> pc[u] \in DisposeSteps
                        /\ pc'[u] = "Finish" <=> pc[u] = "Finish"
                        /\ pc'[u] = "idle" <=> pc[u] = "idle"
  BY DEF CtorSteps, CallSteps, DisposeSteps
<1>2. \A a \in Addresses : Referring(a)' = Referring(a)
  BY <1>1 DEF Referring, Finishing, SameOperation
<1>3. \A a \in Addresses : Busy(a)' = Busy(a)
  BY <1>1 DEF Busy, SameOperation
<1>4. \A a \in Addresses : Unowned(a)' <=> Unowned(a)
  BY <1>2 DEF Unowned
<1>5. LifeInv'
  BY DEF SafeInv, LifeInv
<1>6. ContextInv'
  BY <1>1 DEF SafeInv, ContextInv, OpInv, DisposeAlone, SameOperation
<1>7. AliveInv'
  BY <1>2, <1>3 DEF SafeInv, AliveInv, SameKinds
<1>8. OwnerInv'
  BY <1>2 DEF SafeInv, OwnerInv
<1>9. BusyInv'
  BY <1>1, <1>2, <1>3, <1>4 DEF SafeInv, BusyInv, SameOperation, Busy
<1> QED BY <1>5, <1>6, <1>7, <1>8, <1>9 DEF SafeInv

\* What the first step of an operation, and the last in which it still works on
\* its object, do to the operations and to the sets that SafeInv is about.
Begun(t, step, w, h, o) ==
  /\ pc[t] = "idle" /\ pc'[t] = step
  /\ \A u \in Actors : u # t => pc'[u] = pc[u] /\ ctx'[u] = ctx[u]
  /\ ctx'[t].w = w /\ ctx'[t].h = h /\ ctx'[t].owned = o
  /\ \A v : Finishing(v)' <=> Finishing(v)
  /\ \A b \in Addresses : Busy(b)' = IF b = h THEN Busy(b) \cup {t} ELSE Busy(b)

Ended(t) ==
  /\ pc'[t] = "idle"
  /\ \A u \in Actors : u # t => pc'[u] = pc[u] /\ ctx'[u] = ctx[u]
  /\ \A v : Finishing(v)' <=> Finishing(v)
  /\ \A b \in Addresses : Busy(b)' = Busy(b) \ {t}

\* An operation that begins, other than a mere Finish.
LEMMA BeginFrame ==
  ASSUME TypeInv, NEW t \in Actors, NEW step \in CtorSteps \cup CallSteps \cup DisposeSteps,
         step # "Finish", NEW w, NEW h, NEW o, Begin(t, step, w, h, o)
  PROVE  Begun(t, step, w, h, o)
<1> DEFINE c == [NoContext EXCEPT !.w = w, !.h = h, !.owned = o]
<1>1. pc[t] = "idle" /\ pc' = [pc EXCEPT ![t] = step] /\ ctx' = [ctx EXCEPT ![t] = c]
  BY DEF Begin, Goto
<1>2. c.w = w /\ c.h = h /\ c.owned = o
  BY DEF NoContext
<1> HIDE DEF c
<1>3. /\ pc'[t] = step /\ ctx'[t] = c
      /\ \A u \in Actors : u # t => pc'[u] = pc[u] /\ ctx'[u] = ctx[u]
  BY <1>1 DEF TypeInv, TypeOK
<1>4. step \notin {"idle", "Finish"}
  BY DEF CtorSteps, CallSteps, DisposeSteps
<1>5. \A v : Finishing(v)' <=> Finishing(v)
  BY <1>1, <1>3, <1>4 DEF Finishing
<1>6. \A b \in Addresses : Busy(b)' = IF b = h THEN Busy(b) \cup {t} ELSE Busy(b)
  BY <1>1, <1>2, <1>3, <1>4 DEF Busy
<1> QED BY <1>1, <1>2, <1>3, <1>5, <1>6 DEF Begun

\* An operation that ends in a step in which it still works on its object.
LEMMA EndFrame ==
  ASSUME TypeInv, NEW t \in Actors, pc[t] # "Finish", End(t)
  PROVE  Ended(t)
<1>1. /\ pc'[t] = "idle"
      /\ \A u \in Actors : u # t => pc'[u] = pc[u] /\ ctx'[u] = ctx[u]
  BY DEF TypeInv, TypeOK, End, Goto
<1>2. \A v : Finishing(v)' <=> Finishing(v)
  BY <1>1 DEF Finishing
<1>3. \A a \in Addresses : Busy(a)' = Busy(a) \ {t}
  BY <1>1 DEF Busy
<1> QED BY <1>1, <1>2, <1>3 DEF Ended

\* A wrapper whose constructor runs, or that was never constructed, is not being
\* disposed.
LEMMA NotFinishing ==
  ASSUME TypeInv, NEW w \in Wrappers, wrapper[w].life \in {"none", "ctor"}
  PROVE  ~Finishing(w)
BY DEF TypeInv, StepInv, ActorInv, Finishing, DisposeSteps

\* The last step of a constructor.
LEMMA ConstructionEnds ==
  ASSUME TypeInv, SafeInv, NEW t \in Actors, pc[t] \in CtorSteps, SameKinds,
         wrapper' = [wrapper EXCEPT ![ctx[t].w].life = "live"],
         roots' = roots \cup {ctx[t].w}, End(t)
  PROVE  SafeInv'
<1> DEFINE w == ctx[t].w
<1>1. w \in Wrappers /\ wrapper[w].life = "ctor" /\ pc[t] # "Finish"
  BY DEF TypeInv, StepInv, ActorInv, CtorSteps
<1>2. /\ \A v \in Wrappers : wrapper'[v].handle = wrapper[v].handle
                             /\ wrapper'[v].owned = wrapper[v].owned
      /\ \A v \in Wrappers : v # w => wrapper'[v] = wrapper[v]
      /\ wrapper'[w].life = "live"
  BY ONLY wrapper' = [wrapper EXCEPT ![w].life = "live"], wrapper \in [Wrappers -> Wrapper], <1>1,
     TypeInv DEF TypeInv, TypeOK, Wrapper
<1> HIDE DEF w
<1>3. /\ pc'[t] = "idle"
      /\ \A u \in Actors : u # t => pc'[u] = pc[u] /\ ctx'[u] = ctx[u]
      /\ \A v : Finishing(v)' <=> Finishing(v)
      /\ \A a \in Addresses : Busy(a)' = Busy(a) \ {t}
  BY <1>1, EndFrame DEF Ended
<1>4. \A a \in Addresses : Referring(a)' = Referring(a)
  BY <1>2, <1>3 DEF Referring
<1>5. \A a \in Addresses : Unowned(a)' <=> Unowned(a)
  BY <1>2, <1>4 DEF Unowned, Referring
<1>6. LifeInv'
  BY <1>1, <1>2 DEF SafeInv, LifeInv, w
<1>7. ContextInv'
  BY <1>1, <1>2, <1>3 DEF SafeInv, ContextInv, OpInv, DisposeAlone, TypeInv, StepInv, CtorAlone, w,
       CtorSteps, CallSteps, DisposeSteps, ActorInv
<1>8. AliveInv'
  BY <1>3, <1>4 DEF SafeInv, AliveInv, SameKinds
<1>9. OwnerInv'
  BY <1>2, <1>4 DEF SafeInv, OwnerInv, w, Referring
<1>10. BusyInv'
  BY <1>3, <1>4, <1>5 DEF SafeInv, BusyInv, Busy
<1> QED BY <1>6, <1>7, <1>8, <1>9, <1>10 DEF SafeInv

\* A wrapper is made for an object that was just created, which it owns.
LEMMA Created ==
  ASSUME TypeInv, SafeInv, NEW t \in Actors, NEW w \in Wrappers, NEW a \in Addresses,
         NEW step \in CtorSteps, NEW r \in Wrapper, NEW n \in Native,
         wrapper[w].life = "none", native[a].kind = "free", n.kind # "free",
         r.life = "ctor", r.handle = a,
         native' = [native EXCEPT ![a] = n],
         wrapper' = [wrapper EXCEPT ![w] = r], roots' = roots,
         Begin(t, step, w, a, FALSE)
  PROVE  SafeInv'
<1>1. /\ wrapper'[w] = r
      /\ \A v \in Wrappers : v # w => wrapper'[v] = wrapper[v]
      /\ native'[a] = n
      /\ \A b \in Addresses : b # a => native'[b] = native[b]
  BY DEF TypeInv, TypeOK
<1>2. step # "Finish" /\ step \notin CallSteps \cup DisposeSteps
  BY DEF CtorSteps, CallSteps, DisposeSteps
<1>3. /\ pc[t] = "idle" /\ pc'[t] = step
      /\ \A u \in Actors : u # t => pc'[u] = pc[u] /\ ctx'[u] = ctx[u]
      /\ ctx'[t].w = w /\ ctx'[t].h = a /\ ctx'[t].owned = FALSE
      /\ \A v : Finishing(v)' <=> Finishing(v)
      /\ \A b \in Addresses : Busy(b)' = IF b = a THEN Busy(b) \cup {t} ELSE Busy(b)
  <2>1. step \in CtorSteps \cup CallSteps \cup DisposeSteps
    OBVIOUS
  <2>2. Begun(t, step, w, a, FALSE)
    BY <1>2, <2>1, BeginFrame
  <2> QED BY <2>2 DEF Begun
<1>4. Referring(a) = {} /\ Busy(a) = {}
  BY DEF SafeInv, AliveInv
<1>5. wrapper[w].handle = Null /\ w \notin roots
  BY DEF SafeInv, LifeInv
<1>6. ~Finishing(w)
  BY NotFinishing
<1>7. Referring(a)' = {w} /\ \A b \in Addresses : b # a => Referring(b)' = Referring(b)
  BY <1>1, <1>3, <1>4, <1>5, <1>6, NullAssumption DEF Referring
<1>8. \A b \in Addresses : b # a => (Unowned(b)' <=> Unowned(b))
  BY <1>1, <1>5, <1>7, NullAssumption DEF Unowned, Referring
<1>9. LifeInv'
  BY <1>1, <1>5, NullAssumption DEF SafeInv, LifeInv
<1>10. ContextInv'
  BY <1>1, <1>2, <1>3, <1>5 DEF SafeInv, ContextInv, OpInv, DisposeAlone, TypeInv, StepInv, ActorInv
<1>11. AliveInv'
  BY <1>1, <1>3, <1>7 DEF SafeInv, AliveInv
<1>12. OwnerInv'
  BY <1>1, <1>5, <1>7, NullAssumption DEF SafeInv, OwnerInv, Referring
<1>13. BusyInv'
  <2>1. ASSUME NEW b \in Addresses, b # a, NEW u \in Busy(b)' PROVE u \in Busy(b) /\ u # t
    BY <1>3, <2>1 DEF Busy
  <2> QED BY <1>1, <1>2, <1>3, <1>4, <1>7, <1>8, <2>1, NullAssumption DEF SafeInv, BusyInv, Busy
<1> QED BY <1>9, <1>10, <1>11, <1>12, <1>13 DEF SafeInv

\* A second wrapper is made for an object that native code returned: it borrows,
\* and by Scoped the program still holds the owner.
LEMMA Borrowed ==
  ASSUME RulesKept, TypeInv, SafeInv, NEW t \in Actors, NEW w \in Wrappers, NEW c \in Class,
         NEW a \in Addresses, WrapBorrowed(t, w, c, a)
  PROVE  SafeInv'
<1> DEFINE r == [life |-> "ctor", cls |-> c, handle |-> a, owned |-> FALSE, mask |-> FALSE]
<1>1. /\ wrapper[w].life = "none" /\ native[a].kind # "free" /\ ~BeingDisposed(a)
      /\ \A v \in Referring(a) : wrapper[v].owned => v \in roots
      /\ native' = [native EXCEPT ![a].aliased = TRUE]
      /\ wrapper' = [wrapper EXCEPT ![w] = r] /\ roots' = roots
      /\ Begin(t, "BaseRegister", w, a, FALSE)
  BY DEF WrapBorrowed, RulesKept, Obeys
<1>2. r.life = "ctor" /\ r.handle = a /\ ~r.owned
  OBVIOUS
<1> HIDE DEF r
<1>3. /\ wrapper'[w] = r
      /\ \A v \in Wrappers : v # w => wrapper'[v] = wrapper[v]
  BY <1>1 DEF TypeInv, TypeOK
<1>4. SameKinds
  BY <1>1 DEF TypeInv, TypeOK, Native, SameKinds
<1>5. /\ pc[t] = "idle" /\ pc'[t] = "BaseRegister"
      /\ \A u \in Actors : u # t => pc'[u] = pc[u] /\ ctx'[u] = ctx[u]
      /\ ctx'[t].w = w /\ ctx'[t].h = a /\ ctx'[t].owned = FALSE
      /\ \A v : Finishing(v)' <=> Finishing(v)
      /\ \A b \in Addresses : Busy(b)' = IF b = a THEN Busy(b) \cup {t} ELSE Busy(b)
  <2>1. "BaseRegister" \in CtorSteps
    BY DEF CtorSteps
  <2>2. /\ "BaseRegister" \in CtorSteps \cup CallSteps \cup DisposeSteps
        /\ "BaseRegister" # "Finish"
    BY <2>1
  <2>3. Begun(t, "BaseRegister", w, a, FALSE)
    BY <1>1, <2>2, BeginFrame
  <2> QED BY <2>3 DEF Begun
<1>6. wrapper[w].handle = Null /\ w \notin roots
  BY <1>1 DEF SafeInv, LifeInv
<1>7. ~Finishing(w)
  BY <1>1, NotFinishing
<1>8. \A b \in Addresses : Referring(b)' = IF b = a THEN Referring(b) \cup {w} ELSE Referring(b)
  BY <1>2, <1>3, <1>5, <1>6, <1>7, NullAssumption DEF Referring
<1>9. \A b \in Addresses : w \notin Referring(b)
  BY <1>6, NullAssumption DEF Referring
<1>10. \A b \in Addresses : Unowned(b) => Unowned(b)'
  BY <1>2, <1>3, <1>8, <1>9 DEF Unowned, Referring
<1>11. LifeInv'
  BY <1>2, <1>3, <1>6, <1>1, NullAssumption DEF SafeInv, LifeInv
<1>12. ContextInv'
  BY <1>1, <1>2, <1>3, <1>5 DEF SafeInv, ContextInv, OpInv, DisposeAlone, TypeInv, StepInv,
       ActorInv,
       CtorSteps, CallSteps, DisposeSteps
<1>13. AliveInv'
  BY <1>1, <1>4, <1>5, <1>8 DEF SafeInv, AliveInv, SameKinds
<1>14. OwnerInv'
  BY <1>1, <1>2, <1>3, <1>8, <1>9 DEF SafeInv, OwnerInv
<1>15. BusyInv'
  <2>1. ASSUME NEW u \in Busy(a) PROVE pc[u] \notin DisposeSteps
    BY <1>1, <2>1 DEF BeingDisposed
  <2> QED BY <1>1, <1>5, <1>8, <1>10, <2>1, NullAssumption DEF SafeInv, BusyInv, Busy, DisposeSteps
<1> QED BY <1>11, <1>12, <1>13, <1>14, <1>15 DEF SafeInv

\* A call of a wrapper method, or native code that uses its own object, begins.
LEMMA Called ==
  ASSUME RulesKept, TypeInv, SafeInv, NEW t \in Actors,
         \/ \E w \in Wrappers : Call(t, w)
         \/ \E a \in Addresses : NativeCall(t, a)
  PROVE  SafeInv'
<1>1. PICK w \in Wrappers \cup {Null}, h \in Addresses :
        /\ \/ /\ w = Null /\ Unowned(h) /\ native[h].kind # "free"
           \/ /\ w \in Wrappers /\ wrapper[w].life = "live" /\ wrapper[w].handle = h
              /\ ~Disposing(w)
        /\ ~BeingDisposed(h)
        /\ Begin(t, "Native", w, h, FALSE)
        /\ UNCHANGED <<native, wrapper, roots>>
  BY DEF Call, NativeCall, Usable, RulesKept, Obeys, TypeInv, TypeOK, Wrapper, StepInv, HandleInv
<1>2. /\ pc[t] = "idle" /\ pc'[t] = "Native"
      /\ \A u \in Actors : u # t => pc'[u] = pc[u] /\ ctx'[u] = ctx[u]
      /\ ctx'[t].w = w /\ ctx'[t].h = h /\ ctx'[t].owned = FALSE
      /\ \A v : Finishing(v)' <=> Finishing(v)
      /\ \A b \in Addresses : Busy(b)' = IF b = h THEN Busy(b) \cup {t} ELSE Busy(b)
  <2>1. "Native" \in CallSteps
    BY DEF CallSteps
  <2>2. Begun(t, "Native", w, h, FALSE)
    BY <1>1, <2>1, BeginFrame
  <2> QED BY <2>2 DEF Begun
<1>3. \A b \in Addresses : Referring(b)' = Referring(b)
  BY <1>1, <1>2 DEF Referring
<1>4. \A b \in Addresses : Unowned(b)' <=> Unowned(b)
  BY <1>1, <1>3 DEF Unowned
<1>5. w # Null => w \in Referring(h)
  BY <1>1 DEF Referring, Finishing, Disposing, DisposeSteps
<1>6. LifeInv'
  BY <1>1 DEF SafeInv, LifeInv
<1>7. ContextInv'
  BY <1>1, <1>2, NullAssumption DEF SafeInv, ContextInv, OpInv, DisposeAlone, CtorSteps,
       CallSteps, DisposeSteps
<1>8. AliveInv'
  BY <1>1, <1>2, <1>3, <1>5, NullAssumption DEF SafeInv, AliveInv
<1>9. OwnerInv'
  BY <1>1, <1>3 DEF SafeInv, OwnerInv
<1>10. BusyInv'
  <2>1. ASSUME NEW u \in Busy(h) PROVE pc[u] \notin DisposeSteps
    BY <1>1, <2>1 DEF BeingDisposed
  <2> QED BY <1>1, <1>2, <1>3, <1>4, <1>5, <2>1, NullAssumption DEF SafeInv, BusyInv, Busy,
       DisposeSteps
<1> QED BY <1>6, <1>7, <1>8, <1>9, <1>10 DEF SafeInv

\* A call returns.
LEMMA Returned ==
  ASSUME TypeInv, SafeInv, NEW t \in Actors, Return(t)
  PROVE  SafeInv'
<1>1. pc[t] = "Return" /\ UNCHANGED <<native, wrapper, roots>> /\ End(t)
  BY DEF Return
<1>2. /\ pc'[t] = "idle"
      /\ \A u \in Actors : u # t => pc'[u] = pc[u] /\ ctx'[u] = ctx[u]
      /\ \A v : Finishing(v)' <=> Finishing(v)
      /\ \A a \in Addresses : Busy(a)' = Busy(a) \ {t}
  BY <1>1, EndFrame DEF Ended
<1>3. \A a \in Addresses : Referring(a)' = Referring(a)
  BY <1>1, <1>2 DEF Referring
<1>4. \A a \in Addresses : Unowned(a)' <=> Unowned(a)
  BY <1>1, <1>3 DEF Unowned
<1>5. LifeInv'
  BY <1>1 DEF SafeInv, LifeInv
<1>6. ContextInv'
  BY <1>1, <1>2 DEF SafeInv, ContextInv, OpInv, DisposeAlone, CtorSteps, CallSteps, DisposeSteps
<1>7. AliveInv'
  BY <1>1, <1>2, <1>3 DEF SafeInv, AliveInv
<1>8. OwnerInv'
  BY <1>1, <1>3 DEF SafeInv, OwnerInv
<1>9. BusyInv'
  BY <1>1, <1>2, <1>3, <1>4 DEF SafeInv, BusyInv, Busy
<1> QED BY <1>5, <1>6, <1>7, <1>8, <1>9 DEF SafeInv

\* A constructor that throws leaves a wrapper without a handle to the finalizer.
LEMMA Thrown ==
  ASSUME TypeInv, SafeInv, NEW t \in Actors, NEW w \in Wrappers, NEW c \in Class,
         NewThrows(t, w, c)
  PROVE  SafeInv'
<1>1. /\ wrapper[w].life = "none" /\ wrapper[w].handle = Null /\ w \notin roots
      /\ wrapper' = [wrapper EXCEPT ![w].life = "unreachable", ![w].cls = c]
      /\ UNCHANGED <<native, roots, pc, ctx>>
  BY DEF NewThrows, SafeInv, LifeInv
<1>2. /\ \A v \in Wrappers : wrapper'[v].handle = wrapper[v].handle
                             /\ wrapper'[v].owned = wrapper[v].owned
      /\ \A v \in Wrappers : v # w => wrapper'[v] = wrapper[v]
      /\ wrapper'[w].life = "unreachable"
  BY ONLY <1>1, TypeInv DEF TypeInv, TypeOK, Wrapper
<1>3. \A a \in Addresses : Referring(a)' = Referring(a) /\ Busy(a)' = Busy(a)
  BY <1>1, <1>2 DEF Referring, Finishing, Busy
<1>4. \A a \in Addresses : Unowned(a)' <=> Unowned(a)
  BY <1>2, <1>3 DEF Unowned, Referring
<1>5. LifeInv'
  BY <1>1, <1>2 DEF SafeInv, LifeInv
<1>6. ContextInv'
  <2>1. \A u \in Actors : pc[u] \in CtorSteps \cup DisposeSteps => ctx[u].w \in Wrappers \ {w}
    BY <1>1 DEF TypeInv, StepInv, ActorInv
  <2>2. \A u \in Actors : pc[u] \in CallSteps => ctx[u].w # w
    BY <1>1, NullAssumption DEF SafeInv, ContextInv, OpInv
  <2>3. ASSUME NEW u \in Actors PROVE OpInv(u)'
    <3>1. pc'[u] = pc[u] /\ ctx'[u] = ctx[u]
      BY <1>1
    <3>2. ctx[u].w \in Wrappers /\ ctx[u].w # w => wrapper'[ctx[u].w] = wrapper[ctx[u].w]
      BY <1>2
    <3>3. OpInv(u)
      BY DEF SafeInv, ContextInv
    <3> QED BY <2>1, <2>2, <3>1, <3>2, <3>3 DEF OpInv
  <2>4. DisposeAlone'
    BY <1>1 DEF SafeInv, ContextInv, DisposeAlone
  <2> QED BY <2>3, <2>4 DEF ContextInv
<1>7. AliveInv'
  BY <1>1, <1>3 DEF SafeInv, AliveInv
<1>8. OwnerInv'
  <2>1. \A a \in Addresses : Referring(a) \subseteq Wrappers \ {w}
    BY <1>1, NullAssumption DEF Referring
  <2>2. \A a \in Addresses : \A v \in Referring(a) : wrapper'[v] = wrapper[v]
    BY <1>2, <2>1
  <2>3. OwnerInv
    BY DEF SafeInv
  <2>4. roots' = roots /\ \A a \in Addresses : Referring(a)' = Referring(a)
    BY <1>1, <1>3
  <2> QED BY ONLY <2>2, <2>3, <2>4 DEF OwnerInv
<1>9. BusyInv'
  BY <1>1, <1>2, <1>3, <1>4 DEF SafeInv, BusyInv, Busy
<1> QED BY <1>5, <1>6, <1>7, <1>8, <1>9 DEF SafeInv

\* Ownership moves to a wrapper only when no other wrapper owns the object and
\* no thread works on it.
LEMMA OwnershipSet ==
  ASSUME RulesKept, TypeInv, SafeInv, NEW t \in Actors, NEW w \in Wrappers,
         NEW owned \in BOOLEAN, SetOwnership(t, w, owned)
  PROVE  SafeInv'
<1> DEFINE h == wrapper[w].handle
<1>1. /\ w \in roots /\ wrapper[w].life = "live" /\ h \in Addresses /\ ~Disposing(w)
      /\ owned /\ ~wrapper[w].owned => Unowned(h) /\ Busy(h) = {}
      /\ wrapper' = [wrapper EXCEPT ![w].owned = owned]
      /\ UNCHANGED <<native, roots, pc, ctx>>
  BY DEF SetOwnership, Usable, RulesKept, Obeys, TypeInv, TypeOK, Wrapper, StepInv, HandleInv
<1>2. /\ \A v \in Wrappers : wrapper'[v].handle = wrapper[v].handle
                             /\ wrapper'[v].life = wrapper[v].life
      /\ \A v \in Wrappers : v # w => wrapper'[v] = wrapper[v]
      /\ wrapper'[w].owned = owned
  BY ONLY <1>1, TypeInv DEF TypeInv, TypeOK, Wrapper
<1>3. \A a \in Addresses : Referring(a)' = Referring(a) /\ Busy(a)' = Busy(a)
  BY <1>1, <1>2 DEF Referring, Finishing, Busy
<1>4. \A a \in Addresses : a # h => w \notin Referring(a)
  BY DEF Referring
<1>5. w \in Referring(h)
  BY <1>1 DEF Referring, Finishing, Disposing, DisposeSteps
<1> HIDE DEF h
<1>6. \A a \in Addresses : Unowned(a) /\ Busy(a) # {} => Unowned(a)'
  BY <1>1, <1>2, <1>3, <1>4, <1>5 DEF Unowned, Referring
<1>7. LifeInv'
  BY <1>1, <1>2, NullAssumption DEF SafeInv, LifeInv, h
<1>8. ContextInv'
  <2>1. \A u \in Actors : pc[u] \in DisposeSteps => ctx[u].w # w
    BY <1>1 DEF Disposing
  <2> QED BY <1>1, <1>2, <2>1 DEF SafeInv, ContextInv, OpInv, DisposeAlone, TypeInv, StepInv,
       ActorInv
<1>9. AliveInv'
  BY <1>1, <1>3 DEF SafeInv, AliveInv
<1>10. OwnerInv'
  <2>1. \A a \in Addresses : \A v \in Referring(a) :
          v # w => wrapper'[v].owned = wrapper[v].owned /\ wrapper'[v].life = wrapper[v].life
    BY <1>2 DEF Referring
  <2>2. owned => \A v \in Referring(h) : v # w => ~wrapper[v].owned
    BY <1>1, <1>5 DEF SafeInv, OwnerInv, Unowned
  <2> QED BY <1>1, <1>2, <1>3, <1>4, <1>5, <2>1, <2>2 DEF SafeInv, OwnerInv
<1>11. BusyInv'
  BY <1>1, <1>2, <1>3, <1>6 DEF SafeInv, BusyInv, Busy
<1> QED BY <1>7, <1>8, <1>9, <1>10, <1>11 DEF SafeInv

\* Dispose begins on an object that nobody works on; so does the finalizer, since
\* the program let go of the wrapper.
LEMMA DisposeBegun ==
  ASSUME TypeInv, SafeInv, NEW t \in Actors, NEW w \in Wrappers,
         BeginDispose(t, w), UNCHANGED <<native, wrapper, roots>>,
         wrapper[w].life = (IF t = Finalizer THEN "unreachable" ELSE "live"), ~Disposing(w),
         \A h \in Addresses : wrapper[w].handle = h =>
           /\ Busy(h) = {}
           /\ wrapper[w].owned => Referring(h) = {w}
  PROVE  SafeInv'
<1> DEFINE h == wrapper[w].handle
           step == IF h = Null THEN "Finish" ELSE "Disconnect"
           c == [NoContext EXCEPT !.w = w, !.h = h, !.owned = wrapper[w].owned]
<1>1. /\ pc[t] = "idle" /\ pc' = [pc EXCEPT ![t] = step] /\ ctx' = [ctx EXCEPT ![t] = c]
      /\ c.w = w /\ c.h = h /\ c.owned = wrapper[w].owned
  BY DEF BeginDispose, Begin, Goto, NoContext
<1>2. /\ step \in DisposeSteps /\ step \notin CtorSteps \cup CallSteps /\ step # "idle"
      /\ step = "Finish" <=> h = Null
  BY DEF DisposeSteps, CtorSteps, CallSteps
<1>3. h = Null \/ h \in Addresses
  BY DEF TypeInv, TypeOK, Wrapper
<1>4. ~Finishing(w)
  BY DEF Disposing, Finishing, DisposeSteps
<1> HIDE DEF step, c
<1>5. /\ pc'[t] = step /\ ctx'[t] = c
      /\ \A u \in Actors : u # t => pc'[u] = pc[u] /\ ctx'[u] = ctx[u]
  BY <1>1 DEF TypeInv, TypeOK
<1>6. \A v : v # w => (Finishing(v)' <=> Finishing(v))
  BY <1>1, <1>5 DEF Finishing
<1>7. h # Null => ~Finishing(w)'
  BY <1>1, <1>2, <1>4, <1>5 DEF Finishing
<1>8. \A a \in Addresses : Referring(a)' = Referring(a)
  BY <1>4, <1>6, <1>7, NullAssumption DEF Referring
<1>9. \A a \in Addresses : Busy(a)' = IF a = h THEN Busy(a) \cup {t} ELSE Busy(a)
  BY <1>1, <1>2, <1>5, NullAssumption DEF Busy
<1>10. \A a \in Addresses : Unowned(a)' <=> Unowned(a)
  BY <1>8 DEF Unowned
<1>11. h # Null => w \in Referring(h)
  BY <1>4 DEF Referring
<1>12. LifeInv'
  BY DEF SafeInv, LifeInv
<1>13. ContextInv'
  <2>1. \A u \in Actors : pc[u] \in DisposeSteps => ctx[u].w # w
    BY DEF Disposing
  <2>2. \A u \in Actors : OpInv(u)'
    BY <1>1, <1>2, <1>5 DEF SafeInv, ContextInv, OpInv
  <2>3. DisposeAlone'
    BY <1>1, <1>5, <2>1 DEF SafeInv, ContextInv, DisposeAlone
  <2> QED BY <2>2, <2>3 DEF ContextInv
<1>14. AliveInv'
  BY <1>3, <1>8, <1>9, <1>11, NullAssumption DEF SafeInv, AliveInv
<1>15. OwnerInv'
  BY <1>8 DEF SafeInv, OwnerInv
<1>16. BusyInv'
  <2>1. ASSUME NEW a \in Addresses, NEW u \in Busy(a)' PROVE a # h => u \in Busy(a) /\ u # t
    BY <1>1, <1>9, <2>1 DEF Busy
  <2> QED BY <1>1, <1>5, <1>8, <1>9, <1>10, <1>11, <2>1, NullAssumption DEF SafeInv, BusyInv
<1> QED BY <1>12, <1>13, <1>14, <1>15, <1>16 DEF SafeInv

\* destroy() takes an object that its disposer owns out of the native heap; the
\* wrapper refers to it no longer.
LEMMA Destroyed ==
  ASSUME TypeInv, SafeInv, NEW t \in Actors, Destroy(t)
  PROVE  SafeInv'
<1> DEFINE w == ctx[t].w
           h == ctx[t].h
<1>1. /\ pc[t] = "Destroy" /\ pc' = [pc EXCEPT ![t] = "Finish"]
      /\ native' = IF EmitsDestroy /\ ctx[t].owned
                   THEN [native EXCEPT ![h] = Freed] ELSE native
      /\ UNCHANGED <<wrapper, roots, ctx>>
  BY DEF Destroy, DisposeOrder, Goto
<1>2. wrapper' = wrapper /\ roots' = roots /\ ctx' = ctx
  BY <1>1
<1>3. /\ pc'[t] = "Finish"
      /\ \A u \in Actors : u # t => pc'[u] = pc[u]
  BY <1>1 DEF TypeInv, TypeOK
<1>4. \A u \in Actors : /\ pc'[u] \in CtorSteps <=> pc[u] \in CtorSteps
                        /\ pc'[u] \in CallSteps <=> pc[u] \in CallSteps
                        /\ pc'[u] \in DisposeSteps <=> pc[u] \in DisposeSteps
  BY <1>1, <1>3 DEF CtorSteps, CallSteps, DisposeSteps
<1>5. w \in Wrappers /\ h \in Addresses /\ wrapper[w].handle = h /\ t \in Busy(h)
  BY <1>1 DEF TypeInv, StepInv, ActorInv, SafeInv, ContextInv, OpInv, DisposeSteps, Busy
<1>6. Busy(h) = {t} /\ (ctx[t].owned => Referring(h) = {w})
  BY <1>1, <1>5 DEF SafeInv, BusyInv, DisposeSteps
<1> HIDE DEF w, h
<1>7. \A v : Finishing(v)' <=> Finishing(v) \/ v = w
  BY <1>1, <1>2, <1>3 DEF Finishing, w
<1>8. \A a \in Addresses : Referring(a)' = Referring(a) \ {w}
  BY <1>2, <1>7 DEF Referring
<1>9. \A a \in Addresses : a # h => w \notin Referring(a)
  BY <1>5 DEF Referring
<1>10. \A a \in Addresses : Busy(a)' = Busy(a) \ {t}
  BY <1>2, <1>3 DEF Busy
<1>11. \A a \in Addresses : a # h => t \notin Busy(a)
  BY DEF Busy, h
<1>12. \A a \in Addresses : a # h => native'[a] = native[a]
  BY <1>1, <1>5 DEF TypeInv, TypeOK
<1>13. LifeInv'
  BY <1>2 DEF SafeInv, LifeInv
<1>14. ContextInv'
  BY <1>2, <1>4 DEF SafeInv, ContextInv, OpInv, DisposeAlone
<1>15. AliveInv'
  <2>1. CASE ctx[t].owned
    BY <1>6, <1>8, <1>10, <1>12, <2>1 DEF SafeInv, AliveInv
  <2>2. CASE ~ctx[t].owned
    BY <1>1, <1>8, <1>10, <2>2 DEF SafeInv, AliveInv
  <2> QED BY <2>1, <2>2
<1>16. OwnerInv'
  BY <1>2, <1>8 DEF SafeInv, OwnerInv
<1>17. BusyInv'
  <2>1. SUFFICES ASSUME NEW a \in Addresses, NEW u \in Busy(a)'
                 PROVE  /\ ctx[u].w = Null => Unowned(a)'
                        /\ ctx[u].w # Null => ctx[u].w \in Referring(a)'
                        /\ pc'[u] \in DisposeSteps =>
                             Busy(a)' = {u} /\ (ctx[u].owned => Referring(a)' = {ctx[u].w})
    BY <1>2 DEF BusyInv
  <2>2. u \in Busy(a) /\ a # h /\ u # t
    BY <1>6, <1>10, <2>1
  <2>3. Referring(a)' = Referring(a) /\ Busy(a)' = Busy(a) /\ pc'[u] = pc[u]
    <3>1. u \in Actors
      BY <2>2 DEF Busy
    <3> QED BY <1>3, <1>8, <1>9, <1>10, <1>11, <2>2, <3>1
  <2>4. Unowned(a)' <=> Unowned(a)
    BY <1>2, <2>3 DEF Unowned
  <2> QED BY <2>2, <2>3, <2>4 DEF SafeInv, BusyInv
<1> QED BY <1>13, <1>14, <1>15, <1>16, <1>17 DEF SafeInv

\* The last step of Dispose clears the wrapper's fields.
LEMMA Finished ==
  ASSUME TypeInv, SafeInv, NEW t \in Actors, Finish(t)
  PROVE  SafeInv'
<1> DEFINE w == ctx[t].w
           l == IF t = Finalizer THEN "dead" ELSE "disposed"
<1>1. /\ pc[t] = "Finish" /\ pc' = [pc EXCEPT ![t] = "idle"]
      /\ ctx' = [ctx EXCEPT ![t] = NoContext]
      /\ wrapper' = [wrapper EXCEPT ![w].handle = Null, ![w].owned = FALSE, ![w].life = l]
      /\ native' = native /\ roots' = roots
  BY DEF Finish, End, Goto
<1>2. /\ w \in Wrappers
      /\ wrapper[w].life = (IF t = Finalizer THEN "unreachable" ELSE "live")
      /\ Finishing(w)
  BY <1>1 DEF TypeInv, StepInv, ActorInv, SafeInv, ContextInv, OpInv, DisposeSteps, Finishing
<1>3. /\ pc'[t] = "idle"
      /\ \A u \in Actors : u # t => pc'[u] = pc[u] /\ ctx'[u] = ctx[u]
  BY <1>1 DEF TypeInv, TypeOK
<1>4. /\ \A v \in Wrappers : v # w => wrapper'[v] = wrapper[v]
      /\ wrapper'[w].handle = Null /\ ~wrapper'[w].owned /\ wrapper'[w].life = l
  BY ONLY <1>1, <1>2, TypeInv DEF TypeInv, TypeOK, Wrapper
<1>5. \A v : v # w => (Finishing(v)' <=> Finishing(v))
  BY <1>1, <1>3 DEF Finishing
<1>6. \A a \in Addresses : Referring(a)' = Referring(a) /\ w \notin Referring(a)
  BY <1>2, <1>4, <1>5, NullAssumption DEF Referring
<1>7. \A a \in Addresses : Busy(a)' = Busy(a) /\ t \notin Busy(a)
  BY <1>1, <1>3 DEF Busy
<1>8. \A a \in Addresses : \A v \in Referring(a) : wrapper'[v] = wrapper[v]
  BY <1>4, <1>6 DEF Referring
<1>9. \A u \in Actors : u # t /\ pc[u] \in CtorSteps \cup CallSteps \cup DisposeSteps =>
                        ctx[u].w # w
  <2>1. SUFFICES ASSUME NEW u \in Actors, u # t,
                        pc[u] \in CtorSteps \cup CallSteps \cup DisposeSteps, ctx[u].w = w
                 PROVE  FALSE
    OBVIOUS
  <2>2. CASE pc[u] \in CtorSteps
    BY <1>2, <2>1, <2>2 DEF TypeInv, StepInv, ActorInv
  <2>3. CASE pc[u] \in CallSteps
    <3>1. u \in Busy(ctx[u].h) /\ ctx[u].h \in Addresses
      BY <2>3 DEF Busy, CallSteps, TypeInv, StepInv, ActorInv
    <3>2. w # Null
      BY <1>2, NullAssumption
    <3> QED BY <1>6, <2>1, <3>1, <3>2 DEF SafeInv, BusyInv
  <2>4. CASE pc[u] \in DisposeSteps
    BY <1>1, <2>1, <2>4 DEF SafeInv, ContextInv, DisposeAlone, DisposeSteps
  <2> QED BY <2>1, <2>2, <2>3, <2>4
<1>10. l \in {"dead", "disposed"}
  OBVIOUS
<1>11. w \in roots => l = "disposed"
  BY <1>2 DEF SafeInv, LifeInv
<1> HIDE DEF w, l
<1>12. LifeInv'
  BY <1>1, <1>4, <1>10, <1>11 DEF SafeInv, LifeInv
<1>13. ContextInv'
  <2>1. ASSUME NEW u \in Actors PROVE OpInv(u)'
    <3>1. CASE u = t
      BY <1>3, <3>1 DEF OpInv, CtorSteps, CallSteps, DisposeSteps
    <3>2. CASE u # t
      <4>1. pc'[u] = pc[u] /\ ctx'[u] = ctx[u]
        BY <1>3, <3>2
      <4>2. pc[u] \in CtorSteps \cup DisposeSteps => ctx[u].w \in Wrappers
        BY DEF TypeInv, StepInv, ActorInv
      <4>3. OpInv(u)
        BY DEF SafeInv, ContextInv
      <4> QED BY <1>4, <1>9, <3>2, <4>1, <4>2, <4>3 DEF OpInv
    <3> QED BY <3>1, <3>2
  <2>2. DisposeAlone'
    BY <1>3 DEF SafeInv, ContextInv, DisposeAlone, DisposeSteps
  <2> QED BY <2>1, <2>2 DEF ContextInv
<1>14. AliveInv'
  BY <1>1, <1>6, <1>7 DEF SafeInv, AliveInv
<1>15. OwnerInv'
  <2>1. OwnerInv /\ roots' = roots /\ \A a \in Addresses : Referring(a)' = Referring(a)
    BY <1>1, <1>6 DEF SafeInv
  <2> QED BY ONLY <1>8, <2>1 DEF OwnerInv
<1>16. BusyInv'
  <2>1. \A a \in Addresses : Unowned(a)' <=> Unowned(a)
    BY <1>6, <1>8 DEF Unowned
  <2>2. \A a \in Addresses : \A u \in Busy(a) : pc'[u] = pc[u] /\ ctx'[u] = ctx[u]
    BY <1>3, <1>7 DEF Busy
  <2> QED BY <1>6, <1>7, <2>1, <2>2 DEF SafeInv, BusyInv
<1> QED BY <1>12, <1>13, <1>14, <1>15, <1>16 DEF SafeInv

\* The program lets go of a wrapper that it disposed, or of the only one of an
\* object, which owns it.
LEMMA Dropped ==
  ASSUME RulesKept, TypeInv, SafeInv, NEW w \in Wrappers, Drop(w)
  PROVE  SafeInv'
<1>1. /\ \/ wrapper[w].life = "disposed"
         \/ wrapper[w].owned /\ Referring(wrapper[w].handle) = {w}
      /\ roots' = roots \ {w}
      /\ native' = native /\ wrapper' = wrapper /\ pc' = pc /\ ctx' = ctx
  BY DEF Drop, RulesKept, Obeys
<1>2. \A a \in Addresses : /\ Referring(a)' = Referring(a) /\ Busy(a)' = Busy(a)
                           /\ Unowned(a)' <=> Unowned(a)
  BY <1>1 DEF Referring, Finishing, Busy, Unowned
<1>3. \A a \in Addresses : w \in Referring(a) => wrapper[w].owned /\ Referring(a) = {w}
  BY <1>1, NullAssumption DEF SafeInv, LifeInv, Referring
<1>4. LifeInv'
  BY <1>1 DEF SafeInv, LifeInv
<1>5. ContextInv'
  BY <1>1 DEF SafeInv, ContextInv, OpInv, DisposeAlone
<1>6. AliveInv'
  BY <1>1, <1>2 DEF SafeInv, AliveInv
<1>7. OwnerInv'
  <2>1. OwnerInv
    BY DEF SafeInv
  <2> QED BY ONLY <1>1, <1>2, <1>3, <2>1 DEF OwnerInv
<1>8. BusyInv'
  BY <1>1, <1>2 DEF SafeInv, BusyInv
<1> QED BY <1>4, <1>5, <1>6, <1>7, <1>8 DEF SafeInv

\* The runtime collects a wrapper that no frame holds.
LEMMA Collected ==
  ASSUME RulesKept, TypeInv, SafeInv, NEW w \in Wrappers, Collect(w)
  PROVE  SafeInv'
<1>1. PICK l \in {"unreachable", "dead"} :
        /\ wrapper' = [wrapper EXCEPT ![w].life = l]
        /\ wrapper[w].life = (IF l = "unreachable" THEN "live" ELSE "disposed")
        /\ w \notin roots
        /\ native' = native /\ roots' = roots /\ pc' = pc /\ ctx' = ctx
  BY DEF Collect
<1>2. \A u \in Actors : pc[u] \in CtorSteps \cup CallSteps \cup DisposeSteps => ctx[u].w # w
  BY DEF Collect, Held, RulesKept
<1>3. /\ \A v \in Wrappers : wrapper'[v].handle = wrapper[v].handle
                             /\ wrapper'[v].owned = wrapper[v].owned
      /\ \A v \in Wrappers : v # w => wrapper'[v] = wrapper[v]
      /\ wrapper'[w].life = l
  BY ONLY <1>1, TypeInv DEF TypeInv, TypeOK, Wrapper
<1>4. \A a \in Addresses : Referring(a)' = Referring(a) /\ Busy(a)' = Busy(a)
  BY <1>1, <1>3 DEF Referring, Finishing, Busy
<1>5. \A a \in Addresses : Unowned(a)' <=> Unowned(a)
  BY <1>3, <1>4 DEF Unowned, Referring
<1>6. LifeInv'
  BY <1>1, <1>3 DEF SafeInv, LifeInv
<1>7. ContextInv'
  <2>1. ASSUME NEW u \in Actors PROVE OpInv(u)'
    <3>1. pc'[u] = pc[u] /\ ctx'[u] = ctx[u]
      BY <1>1
    <3>2. pc[u] \in CtorSteps \cup DisposeSteps => ctx[u].w \in Wrappers
      BY DEF TypeInv, StepInv, ActorInv
    <3>3. OpInv(u)
      BY DEF SafeInv, ContextInv
    <3> QED BY <1>2, <1>3, <3>1, <3>2, <3>3 DEF OpInv
  <2>2. DisposeAlone'
    BY <1>1 DEF SafeInv, ContextInv, DisposeAlone
  <2> QED BY <2>1, <2>2 DEF ContextInv
<1>8. AliveInv'
  BY <1>1, <1>4 DEF SafeInv, AliveInv
<1>9. OwnerInv'
  <2>1. \A a \in Addresses : \A v \in Referring(a) :
          /\ wrapper'[v].owned = wrapper[v].owned
          /\ v # w => wrapper'[v].life = wrapper[v].life
          /\ v = w => wrapper[v].life = "live"
    BY <1>1, <1>3, NullAssumption DEF Referring, SafeInv, LifeInv
  <2>2. OwnerInv
    BY DEF SafeInv
  <2> QED BY ONLY <1>1, <1>4, <2>1, <2>2 DEF OwnerInv
<1>10. BusyInv'
  BY <1>1, <1>4, <1>5 DEF SafeInv, BusyInv
<1> QED BY <1>6, <1>7, <1>8, <1>9, <1>10 DEF SafeInv

\* Native code deletes an object that no wrapper refers to and nobody works on.
LEMMA Deleted ==
  ASSUME RulesKept, TypeInv, SafeInv, NEW a \in Addresses, NativeDelete(a)
  PROVE  SafeInv'
<1>1. /\ Busy(a) = {} /\ Referring(a) = {}
      /\ native' = [native EXCEPT ![a] = Freed]
      /\ wrapper' = wrapper /\ roots' = roots /\ pc' = pc /\ ctx' = ctx
  BY DEF NativeDelete, RulesKept, Obeys
<1>2. \A b \in Addresses : b # a => native'[b] = native[b]
  BY <1>1 DEF TypeInv, TypeOK
<1>3. \A b \in Addresses : /\ Referring(b)' = Referring(b) /\ Busy(b)' = Busy(b)
                           /\ Unowned(b)' <=> Unowned(b)
  BY <1>1 DEF Referring, Finishing, Busy, Unowned
<1>4. LifeInv' /\ ContextInv'
  BY <1>1 DEF SafeInv, LifeInv, ContextInv, OpInv, DisposeAlone
<1>5. AliveInv'
  BY <1>1, <1>2, <1>3 DEF SafeInv, AliveInv
<1>6. OwnerInv' /\ BusyInv'
  BY <1>1, <1>3 DEF SafeInv, OwnerInv, BusyInv
<1> QED BY <1>4, <1>5, <1>6 DEF SafeInv

-----------------------------------------------------------------------------
LEMMA SafeInvInit == Init => SafeInv
<1> SUFFICES ASSUME Init PROVE SafeInv
  OBVIOUS
<1>1. \A t \in Actors : pc[t] = "idle"
  BY DEF Init
<1>2. \A w \in Wrappers : /\ wrapper[w].life = "none" /\ wrapper[w].handle = Null
                          /\ ~wrapper[w].owned /\ w \notin roots
  BY DEF Init
<1>3. \A a \in Addresses : Referring(a) = {} /\ Busy(a) = {}
  BY <1>1, <1>2, NullAssumption DEF Referring, Busy
<1>4. LifeInv
  BY <1>2 DEF LifeInv
<1>5. ContextInv
  BY <1>1 DEF ContextInv, OpInv, DisposeAlone, CtorSteps, CallSteps, DisposeSteps
<1>6. AliveInv /\ OwnerInv /\ BusyInv
  BY <1>3 DEF AliveInv, OwnerInv, BusyInv
<1> QED BY <1>4, <1>5, <1>6 DEF SafeInv

\* connect_director and disconnect_director leave every object where it is.
LEMMA ConnectDirectorKinds ==
  ASSUME TypeInv, NEW c \in Class, NEW a, NEW mask, ConnectDirector(c, a, mask)
  PROVE  SameKinds
BY DEF ConnectDirector, SameKinds, TypeInv, TypeOK, Native

\* The constructors.
LEMMA SafeInvCtor ==
  ASSUME TypeInv, SafeInv, NEW t \in Actors,
         \/ \E w \in Wrappers, a \in Addresses :
              \/ \E c \in Class, overrides \in BOOLEAN : New(t, w, c, a, overrides)
              \/ WrapOwned(t, w, a)
         \/ CtorStep(t)
  PROVE  SafeInv'
<1>1. ASSUME NEW w \in Wrappers, NEW a \in Addresses, NEW c \in Class, NEW overrides \in BOOLEAN,
             New(t, w, c, a, overrides)
      PROVE  SafeInv'
  <2> DEFINE r == [life |-> "ctor", cls |-> c, handle |-> a, owned |-> TRUE, mask |-> overrides]
             n == [Freed EXCEPT !.kind = c]
  <2>1. /\ wrapper[w].life = "none" /\ native[a].kind = "free"
        /\ native' = [native EXCEPT ![a] = n] /\ wrapper' = [wrapper EXCEPT ![w] = r]
        /\ roots' = roots /\ Begin(t, "Register", w, a, FALSE)
    BY <1>1 DEF New
  <2>2. r \in Wrapper /\ r.life = "ctor" /\ r.handle = a
    BY DEF Wrapper, Life
  <2>3. n \in Native /\ n.kind # "free"
    BY DEF Freed, Native, Class
  <2>4. "Register" \in CtorSteps
    BY DEF CtorSteps
  <2> HIDE DEF r, n
  <2> QED BY <2>1, <2>2, <2>3, <2>4, Created
<1>2. ASSUME NEW w \in Wrappers, NEW a \in Addresses, WrapOwned(t, w, a)
      PROVE  SafeInv'
  <2> DEFINE r == [life |-> "ctor", cls |-> "Root", handle |-> a, owned |-> TRUE, mask |-> FALSE]
             n == [Freed EXCEPT !.kind = "Plain"]
  <2>1. /\ wrapper[w].life = "none" /\ native[a].kind = "free"
        /\ native' = [native EXCEPT ![a] = n] /\ wrapper' = [wrapper EXCEPT ![w] = r]
        /\ roots' = roots /\ Begin(t, "BaseRegister", w, a, FALSE)
    BY <1>2 DEF WrapOwned
  <2>2. r \in Wrapper /\ r.life = "ctor" /\ r.handle = a
    BY DEF Wrapper, Life, Class
  <2>3. n \in Native /\ n.kind # "free"
    BY DEF Freed, Native
  <2>4. "BaseRegister" \in CtorSteps
    BY DEF CtorSteps
  <2> HIDE DEF r, n
  <2> QED BY <2>1, <2>2, <2>3, <2>4, Created
<1>3. CASE Register(t) \/ BaseRegister(t)
  BY <1>3, InnerStep DEF Register, BaseRegister, SameKinds, SameOperation, Goto, CtorSteps,
     TypeInv, TypeOK
<1>4. CASE Connect(t)
  <2>1. wrapper[ctx[t].w].cls \in Class /\ pc[t] \in CtorSteps
    BY <1>4 DEF Connect, CtorSteps, TypeInv, TypeOK, StepInv, ActorInv, Wrapper
  <2>2. SameKinds
    BY <1>4, <2>1, ConnectDirectorKinds DEF Connect
  <2> QED BY <1>4, <2>1, <2>2, ConstructionEnds DEF Connect
<1>5. CASE BaseConnect(t)
  <2>1. pc[t] \in CtorSteps /\ SameKinds
    BY <1>5, ConnectDirectorKinds DEF BaseConnect, CtorSteps, Class
  <2>2. CASE wrapper[ctx[t].w].cls = "Derived"
    BY <1>5, <2>1, <2>2, InnerStep DEF BaseConnect, SameOperation, Goto, CtorSteps, TypeInv, TypeOK
  <2>3. CASE wrapper[ctx[t].w].cls # "Derived"
    BY <1>5, <2>1, <2>3, ConstructionEnds DEF BaseConnect
  <2> QED BY <2>2, <2>3
<1>6. CASE DerivedRegister(t)
  BY <1>6, ConstructionEnds DEF DerivedRegister, CtorSteps, SameKinds
<1> QED BY <1>1, <1>2, <1>3, <1>4, <1>5, <1>6 DEF CtorStep

\* The steps of a call, and those of Dispose up to Destroy.
LEMMA SafeInvInner ==
  ASSUME TypeInv, SafeInv, NEW t \in Actors,
         \/ Native_Dispatch(t) \/ Callback(t) \/ Override(t)
         \/ Disconnect(t) \/ Unregister(t)
  PROVE  SafeInv'
<1>1. wrapper' = wrapper /\ roots' = roots
  BY DEF Native_Dispatch, Callback, Override, Disconnect, Unregister
<1>2. SameKinds
  <2>1. CASE Disconnect(t)
    BY <2>1, ConnectDirectorKinds DEF Disconnect, Class
  <2> QED BY <2>1 DEF Native_Dispatch, Callback, Override, Unregister, SameKinds
<1>3. ctx \in [Actors -> Context]
  BY DEF TypeInv, TypeOK
<1>4. \A u \in Actors : SameOperation(u)
  <2>1. CASE Native_Dispatch(t)
    BY ONLY <1>3, <2>1, t \in Actors DEF Native_Dispatch, Context, SameOperation
  <2>2. CASE Callback(t)
    BY ONLY <1>3, <2>2, t \in Actors DEF Callback, Context, SameOperation
  <2>3. CASE Override(t)
    BY ONLY <1>3, <2>3, t \in Actors DEF Override, Context, SameOperation
  <2>4. CASE Disconnect(t) \/ Unregister(t)
    BY <2>4 DEF Disconnect, Unregister, SameOperation
  <2> QED BY <2>1, <2>2, <2>3, <2>4
<1>5. PICK step : /\ pc' = [pc EXCEPT ![t] = step]
                  /\ \/ pc[t] \in CallSteps /\ step \in CallSteps
                     \/ pc[t] \in DisposeSteps \ {"Finish"} /\ step \in DisposeSteps \ {"Finish"}
  BY DEF Native_Dispatch, Callback, Override, Disconnect, Unregister, Goto, DisposeOrder, CallSteps,
     DisposeSteps
<1>6. pc'[t] = step /\ \A u \in Actors : u # t => pc'[u] = pc[u]
  BY <1>5 DEF TypeInv, TypeOK
<1> QED BY <1>1, <1>2, <1>4, <1>5, <1>6, InnerStep

\* Dispose() and the finalizer begin.
LEMMA SafeInvDispose ==
  ASSUME RulesKept, TypeInv, SafeInv, NEW w \in Wrappers,
         (\E t \in Threads : Dispose(t, w)) \/ Finalize(w)
  PROVE  SafeInv'
<1>1. ASSUME NEW t \in Threads, Dispose(t, w) PROVE SafeInv'
  <2>1. /\ BeginDispose(t, w) /\ UNCHANGED <<native, wrapper, roots>>
        /\ wrapper[w].life = "live" /\ ~Disposing(w)
        /\ Busy(wrapper[w].handle) = {}
        /\ wrapper[w].owned => Referring(wrapper[w].handle) = {w}
    BY <1>1 DEF Dispose, Usable, RulesKept, Obeys
  <2>2. t \in Actors /\ t # Finalizer
    BY FinalizerAssumption DEF Actors
  <2> QED BY <2>1, <2>2, DisposeBegun
<1>2. CASE Finalize(w)
  <2> DEFINE h == wrapper[w].handle
  <2>1. /\ BeginDispose(Finalizer, w) /\ UNCHANGED <<native, wrapper, roots>>
        /\ wrapper[w].life = "unreachable" /\ Finalizer \in Actors
    BY <1>2 DEF Finalize, Actors
  <2>2. pc[Finalizer] = "idle" /\ w \notin roots
    BY <2>1 DEF BeginDispose, Begin, SafeInv, LifeInv
  <2>3. \A u \in Actors : pc[u] \in CtorSteps \cup CallSteps \cup DisposeSteps => ctx[u].w # w
    BY <2>1, <2>2, NullAssumption DEF SafeInv, ContextInv, OpInv, TypeInv, StepInv, ActorInv,
       CtorSteps, CallSteps, DisposeSteps
  <2>4. ~Disposing(w)
    BY <2>3 DEF Disposing
  <2>5. ASSUME h \in Addresses PROVE Busy(h) = {} /\ Referring(h) = {w}
    <3>1. w \in Referring(h)
      BY <2>4 DEF Referring, Finishing, Disposing, DisposeSteps
    <3>2. wrapper[w].owned /\ Referring(h) = {w}
      BY <2>1, <2>2, <2>5, <3>1 DEF SafeInv, OwnerInv, Referring
    <3>3. ~Unowned(h)
      BY <3>1, <3>2 DEF Unowned
    <3>4. ASSUME NEW u \in Busy(h) PROVE FALSE
      <4>1. ctx[u].w = w
        BY <2>5, <3>2, <3>3, <3>4 DEF SafeInv, BusyInv
      <4>2. u \in Actors /\ pc[u] \in CtorSteps \cup CallSteps \cup DisposeSteps
        BY <3>4 DEF Busy, TypeInv, TypeOK
      <4> QED BY <2>3, <4>1, <4>2
    <3> QED BY <3>2, <3>4
  <2> QED BY <2>1, <2>4, <2>5, DisposeBegun
<1> QED BY <1>1, <1>2

LEMMA SafeInvNext ==
  ASSUME RulesKept, TypeInv, SafeInv, [Next]_vars
  PROVE  SafeInv'
<1>1. ASSUME NEW t \in Threads, Start(t) PROVE SafeInv'
  <2>1. t \in Actors
    BY DEF Actors
  <2> QED BY <1>1, <2>1, SafeInvCtor, Borrowed, Thrown, Called, SafeInvDispose,
       OwnershipSet DEF Start
<1>2. ASSUME NEW t \in Actors, CtorStep(t) PROVE SafeInv'
  BY <1>2, SafeInvCtor
<1>3. ASSUME NEW t \in Actors, CallStep(t) PROVE SafeInv'
  BY <1>3, SafeInvInner, Returned DEF CallStep
<1>4. ASSUME NEW t \in Actors, DisposeStep(t) PROVE SafeInv'
  BY <1>4, SafeInvInner, Destroyed, Finished DEF DisposeStep
<1>5. ASSUME NEW w \in Wrappers, Finalize(w) \/ Drop(w) \/ Collect(w) PROVE SafeInv'
  BY <1>5, SafeInvDispose, Dropped, Collected
<1>6. ASSUME NEW a \in Addresses, NativeDelete(a) PROVE SafeInv'
  BY <1>6, Deleted
<1>7. CASE UNCHANGED vars
  BY <1>7 DEF vars, SafeInv, LifeInv, ContextInv, OpInv, DisposeAlone, AliveInv, OwnerInv, BusyInv,
     Referring, Finishing, Busy, Unowned
<1> QED BY <1>1, <1>2, <1>3, <1>4, <1>5, <1>6, <1>7 DEF Next, FinalizerStep, Actors

\* A program that keeps the rules of use stays in IInv.
THEOREM Inductive == ASSUME RulesKept PROVE Spec => []IInv
<1>1. Init => IInv
  BY TypeInvInit, SafeInvInit DEF IInv
<1>2. IInv /\ [Next]_vars => IInv'
  BY TypeInvNext, SafeInvNext DEF IInv
<1> QED BY <1>1, <1>2, PTL DEF Spec

\* No generated call reaches native memory that has been freed, and no object is
\* destroyed twice: whatever the number of threads, wrappers and addresses.
THEOREM MemorySafe == ASSUME RulesKept PROVE Spec => []NoUseAfterFree
<1>1. IInv => NoUseAfterFree
  <2> SUFFICES ASSUME IInv, NEW t \in Actors, Touching(t)
               PROVE  native[ctx[t].h].kind # "free"
    BY DEF NoUseAfterFree
  <2>1. ctx[t].h \in Addresses /\ t \in Busy(ctx[t].h)
    BY DEF IInv, TypeInv, StepInv, ActorInv, Touching, Busy
  <2> QED BY <2>1 DEF IInv, SafeInv, AliveInv
<1> QED BY <1>1, Inductive, PTL

\* destroy() by the owner's disposer and native code are the only ones that free.
LEMMA WhoFrees ==
  ASSUME TypeInv, [Next]_vars, NEW a \in Addresses,
         native[a].kind # "free", native'[a].kind = "free"
  PROVE  \/ \E t \in Actors : Destroy(t) /\ ctx[t].owned /\ ctx[t].h = a
         \/ NativeDelete(a)
<1>1. ~SameKinds
  BY DEF SameKinds
<1>2. ASSUME NEW t \in Actors, NEW w \in Wrappers, NEW b \in Addresses,
             \/ \E c \in Class, overrides \in BOOLEAN : New(t, w, c, b, overrides)
             \/ WrapOwned(t, w, b)
      PROVE  FALSE
  <2>1. PICK k \in Class \cup {"Plain"} : native' = [native EXCEPT ![b] = [Freed EXCEPT !.kind = k]]
    BY <1>2 DEF New, WrapOwned
  <2> QED BY <2>1 DEF TypeInv, TypeOK, Class, Freed
<1>3. ASSUME NEW t \in Actors, NEW w \in Wrappers, NEW b \in Addresses, NEW c \in Class,
             WrapBorrowed(t, w, c, b)
      PROVE  FALSE
  BY <1>1, <1>3 DEF WrapBorrowed, SameKinds, TypeInv, TypeOK, Native
<1>4. ASSUME NEW t \in Actors, Connect(t) \/ BaseConnect(t) \/ Disconnect(t)
      PROVE  FALSE
  <2>1. CASE Connect(t)
    <3>1. wrapper[ctx[t].w].cls \in Class
      BY <2>1 DEF Connect, CtorSteps, TypeInv, TypeOK, StepInv, ActorInv, Wrapper
    <3> QED BY <1>1, <2>1, <3>1, ConnectDirectorKinds DEF Connect
  <2>2. CASE BaseConnect(t) \/ Disconnect(t)
    BY <1>1, <2>2, ConnectDirectorKinds DEF BaseConnect, Disconnect, Class
  <2> QED BY <1>4, <2>1, <2>2
<1>5. native' # native
  BY <1>1 DEF SameKinds
<1>6. ASSUME NEW t \in Threads, Start(t) PROVE FALSE
  BY <1>2, <1>3, <1>5, <1>6 DEF Start, NewThrows, Call, Dispose, NativeCall, SetOwnership, Actors
<1>7. ASSUME NEW t \in Actors, CtorStep(t) \/ CallStep(t) PROVE FALSE
  BY <1>4, <1>5, <1>7 DEF CtorStep, CallStep, Register, BaseRegister, DerivedRegister,
       Native_Dispatch,
     Callback, Override, Return
<1>8. ASSUME NEW t \in Actors, DisposeStep(t)
      PROVE  Destroy(t) /\ ctx[t].owned /\ ctx[t].h = a
  <2>1. Destroy(t)
    BY <1>4, <1>5, <1>8 DEF DisposeStep, Unregister, Finish
  <2> QED BY <1>5, <2>1 DEF Destroy, TypeInv, TypeOK
<1>9. ASSUME NEW w \in Wrappers, Finalize(w) \/ Drop(w) \/ Collect(w) PROVE FALSE
  BY <1>5, <1>9 DEF Finalize, Drop, Collect
<1>10. ASSUME NEW b \in Addresses, NativeDelete(b) PROVE b = a
  BY <1>10 DEF NativeDelete, TypeInv, TypeOK
<1> QED
  BY <1>5, <1>6, <1>7, <1>8, <1>9, <1>10 DEF Next, FinalizerStep, Actors, vars

\* An object goes only when no other thread works on it and no other wrapper
\* refers to it.
THEOREM DestroySafe == ASSUME RulesKept PROVE Spec => DestroyIsSafe
<1> DEFINE Alone(a) ==
      native[a].kind # "free" /\ native'[a].kind = "free" =>
        \E w \in Wrappers \cup {Null} :
          /\ Referring(a) \subseteq {w}
          /\ \A t \in Busy(a) : ctx[t].w = w /\ pc[t] = "Destroy"
<1>1. IInv /\ [Next]_vars => [\A a \in Addresses : Alone(a)]_vars
  <2> SUFFICES ASSUME IInv, [Next]_vars, NEW a \in Addresses,
                      native[a].kind # "free", native'[a].kind = "free"
               PROVE  \E w \in Wrappers \cup {Null} :
                        /\ Referring(a) \subseteq {w}
                        /\ \A t \in Busy(a) : ctx[t].w = w /\ pc[t] = "Destroy"
    OBVIOUS
  <2>1. CASE NativeDelete(a)
    BY <2>1 DEF NativeDelete, RulesKept, Obeys
  <2>2. ASSUME NEW t \in Actors, Destroy(t), ctx[t].owned, ctx[t].h = a
        PROVE  /\ ctx[t].w \in Wrappers /\ pc[t] = "Destroy"
               /\ Referring(a) = {ctx[t].w} /\ Busy(a) = {t}
    <3>1. ctx[t].w \in Wrappers /\ pc[t] = "Destroy" /\ t \in Busy(a)
      BY <2>2 DEF Destroy, Busy, IInv, TypeInv, StepInv, ActorInv, DisposeSteps
    <3> QED BY <2>2, <3>1 DEF IInv, SafeInv, BusyInv, DisposeSteps
  <2> QED BY <2>1, <2>2, WhoFrees DEF IInv
<1> QED BY <1>1, Inductive, PTL DEF Spec, DestroyIsSafe

-----------------------------------------------------------------------------
(***************************************************************************)
(* The instance cache of WrapperLifecycle, for any number of threads,      *)
(* wrappers and addresses: in a program that keeps the rules of use, the   *)
(* wrapper of an object that was wrapped once is found by the object's     *)
(* address, although addresses are used again and Dispose empties cache    *)
(* entries on other threads.                                               *)
(***************************************************************************)
CtorLate == {"Connect", "BaseConnect", "DerivedRegister"}

\* A step that makes no wrapper, no entry of the cache and no constructor step.
QuietStep ==
  /\ \A a \in Addresses : Referring(a)' \subseteq Referring(a)
  /\ \A a \in Addresses : native'[a].kind # "free" => native'[a].aliased = native[a].aliased
  /\ \A w \in Wrappers : wrapper'[w].life = "live" /\ ~Disposing(w)' =>
       /\ wrapper[w].life = "live" /\ ~Disposing(w)
       /\ wrapper'[w].handle = wrapper[w].handle /\ wrapper'[w].cls = wrapper[w].cls
  /\ \A t \in Actors : pc'[t] \in CtorLate =>
       /\ pc'[t] = pc[t] /\ ctx'[t] = ctx[t]
       /\ wrapper'[ctx[t].w].cls = wrapper[ctx[t].w].cls
  /\ registry' = registry

-----------------------------------------------------------------------------
\* A wrapper in use refers to an object that exists.
LEMMA LiveRefers ==
  ASSUME IInv, NEW w \in Wrappers, wrapper[w].life \in {"ctor", "live"}, ~Disposing(w)
  PROVE  /\ wrapper[w].handle \in Addresses
         /\ w \in Referring(wrapper[w].handle)
         /\ native[wrapper[w].handle].kind # "free"
<1>1. wrapper[w].handle \in Addresses
  BY DEF IInv, TypeInv, TypeOK, Wrapper, StepInv, HandleInv
<1>2. w \in Referring(wrapper[w].handle)
  BY DEF Referring, Finishing, Disposing, DisposeSteps
<1> QED BY <1>1, <1>2 DEF IInv, SafeInv, AliveInv

\* So does the thread that constructs one.
LEMMA CtorRefers ==
  ASSUME IInv, NEW t \in Actors, pc[t] \in CtorSteps
  PROVE  /\ ctx[t].h \in Addresses /\ ctx[t].w \in Wrappers
         /\ wrapper[ctx[t].w].life = "ctor" /\ wrapper[ctx[t].w].handle = ctx[t].h
         /\ t \in Busy(ctx[t].h) /\ ctx[t].w \in Referring(ctx[t].h)
         /\ native[ctx[t].h].kind # "free"
<1>1. pc[t] \notin {"idle", "Finish"}
  BY DEF CtorSteps
<1>2. /\ ctx[t].h \in Addresses /\ ctx[t].w \in Wrappers
      /\ wrapper[ctx[t].w].life = "ctor" /\ wrapper[ctx[t].w].handle = ctx[t].h
  BY <1>1 DEF IInv, TypeInv, StepInv, ActorInv, SafeInv, ContextInv, OpInv
<1>3. t \in Busy(ctx[t].h)
  BY <1>1 DEF Busy
<1>4. ctx[t].w \in Referring(ctx[t].h)
  BY <1>2, NotFinishing DEF IInv, Referring
<1> QED BY <1>2, <1>3, <1>4 DEF IInv, SafeInv, AliveInv

\* A step that enters no late constructor step and writes no cache entry keeps the invariant.
LEMMA Quiet ==
  ASSUME RegistryInv, IInv', QuietStep
  PROVE  RegistryInv'
<1>1. AliasInv'
  <2>1. SUFFICES ASSUME NEW a \in Addresses, ~native'[a].aliased,
                        NEW v \in Referring(a)', NEW w \in Referring(a)'
                 PROVE  v = w
    BY DEF AliasInv
  <2>2. native'[a].kind # "free"
    BY <2>1 DEF IInv, SafeInv, AliveInv
  <2> QED BY <2>1, <2>2 DEF QuietStep, RegistryInv, AliasInv
<1>2. ASSUME NEW t \in Actors PROVE CtorRegistered(t)'
  <2>1. CASE pc'[t] \in CtorLate
    <3>1. pc'[t] = pc[t] /\ ctx'[t] = ctx[t] /\ wrapper'[ctx[t].w].cls = wrapper[ctx[t].w].cls
      BY <2>1 DEF QuietStep
    <3>2. pc'[t] \in CtorSteps
      BY <2>1 DEF CtorLate, CtorSteps
    <3>3. ctx'[t].h \in Addresses /\ native'[ctx'[t].h].kind # "free"
      <4>1. pc'[t] \notin {"idle", "Finish"}
        BY <2>1 DEF CtorLate
      <4>2. ctx'[t].h \in Addresses
        BY <4>1 DEF IInv, TypeInv, StepInv, ActorInv
      <4>3. \A h \in Addresses : ctx'[t].h = h => Busy(h)' # {}
        BY <4>1 DEF Busy
      <4> QED BY <4>2, <4>3 DEF IInv, SafeInv, AliveInv
    <3>4. native'[ctx[t].h].aliased = native[ctx[t].h].aliased
      BY <3>1, <3>3 DEF QuietStep
    <3> QED BY <3>1, <3>4 DEF QuietStep, RegistryInv, CtorRegistered
  <2>2. CASE pc'[t] \notin CtorLate
    BY <2>2 DEF CtorLate, CtorRegistered
  <2> QED BY <2>1, <2>2
<1>3. OwnerRegistered'
  <2>1. SUFFICES ASSUME NEW w \in Wrappers, wrapper'[w].life = "live",
                        ~native'[wrapper'[w].handle].aliased, ~Disposing(w)'
                 PROVE  registry'[wrapper'[w].cls][wrapper'[w].handle] = w
    BY DEF OwnerRegistered
  <2>2. /\ wrapper[w].life = "live" /\ ~Disposing(w) /\ registry' = registry
        /\ wrapper'[w].handle = wrapper[w].handle /\ wrapper'[w].cls = wrapper[w].cls
    BY <2>1 DEF QuietStep
  <2>3. wrapper'[w].handle \in Addresses /\ native'[wrapper'[w].handle].kind # "free"
    <3>1. wrapper'[w].handle \in Addresses
      BY <2>2, LiveRefers DEF RegistryInv
    <3>2. ~Finishing(w)'
      BY <2>1 DEF Disposing, Finishing, DisposeSteps
    <3>3. \A a \in Addresses : wrapper'[w].handle = a => Referring(a)' # {}
      BY <3>2 DEF Referring
    <3> QED BY <3>1, <3>3 DEF IInv, SafeInv, AliveInv
  <2> QED BY <2>1, <2>2, <2>3 DEF QuietStep, RegistryInv, OwnerRegistered
<1> QED BY <1>1, <1>2, <1>3 DEF RegistryInv

\* The same, said of the fields: no operation leaves Dispose and none gets past
\* the cache in a constructor.
LEMMA QuietFields ==
  ASSUME RegistryInv, IInv', NEW t \in Actors, registry' = registry,
         \A w \in Wrappers : wrapper'[w].handle = wrapper[w].handle,
         \A w \in Wrappers : wrapper[w].life # "none" => wrapper'[w].cls = wrapper[w].cls,
         \A w \in Wrappers : wrapper'[w].life = "live" => wrapper[w].life = "live",
         \A a \in Addresses : native'[a].kind # "free" => native'[a].aliased = native[a].aliased,
         \A u \in Actors : u # t => pc'[u] = pc[u] /\ ctx'[u] = ctx[u],
         pc[t] \in DisposeSteps => /\ pc[t] # "Finish" /\ pc'[t] \in DisposeSteps
                                   /\ ctx'[t].w = ctx[t].w,
         pc'[t] \notin CtorLate
  PROVE  RegistryInv'
<1>1. \A w \in Wrappers : Finishing(w) => Finishing(w)'
  BY DEF Finishing, DisposeSteps
<1>2. \A a \in Addresses : Referring(a)' \subseteq Referring(a)
  BY <1>1 DEF Referring
<1>3. \A w \in Wrappers : Disposing(w) => Disposing(w)'
  BY DEF Disposing
<1>4. \A u \in Actors : pc'[u] \in CtorLate =>
        /\ pc'[u] = pc[u] /\ ctx'[u] = ctx[u]
        /\ wrapper'[ctx[u].w].cls = wrapper[ctx[u].w].cls
  <2>1. SUFFICES ASSUME NEW u \in Actors, pc'[u] \in CtorLate
                 PROVE  /\ pc'[u] = pc[u] /\ ctx'[u] = ctx[u]
                        /\ wrapper'[ctx[u].w].cls = wrapper[ctx[u].w].cls
    OBVIOUS
  <2>2. pc'[u] = pc[u] /\ ctx'[u] = ctx[u] /\ pc[u] \in CtorSteps
    BY <2>1 DEF CtorLate, CtorSteps
  <2> QED BY <2>2, CtorRefers DEF RegistryInv
<1>5. QuietStep
  BY <1>2, <1>3, <1>4 DEF QuietStep
<1> QED BY <1>5, Quiet

\* An entry of the cache is written or emptied by a thread that works on the
\* object with its only wrapper, which is not in use.
LEMMA EntryWritten ==
  ASSUME RegistryInv, NEW t \in Actors, NEW c \in Class,
         t \in Busy(ctx[t].h), ctx[t].w \in Referring(ctx[t].h), ctx[t].h \in Addresses,
         wrapper[ctx[t].w].life = "ctor" \/ Disposing(ctx[t].w),
         pc[t] \in CtorSteps \cup DisposeSteps,
         NEW e, registry' = [registry EXCEPT ![c][ctx[t].h] = e]
  PROVE  /\ \A w \in Wrappers :
              /\ wrapper[w].life = "live" /\ ~native[wrapper[w].handle].aliased
              /\ ~Disposing(w)
              => registry'[wrapper[w].cls][wrapper[w].handle] = w
         /\ \A u \in Actors :
              u # t /\ pc[u] \in CtorLate /\ ~native[ctx[u].h].aliased =>
                \A d \in Class : registry'[d][ctx[u].h] = registry[d][ctx[u].h]
<1>1. \A d \in Class, a \in Addresses :
        a # ctx[t].h => registry'[d][a] = registry[d][a]
  BY DEF RegistryInv, IInv, TypeInv, TypeOK
<1>2. ASSUME NEW w \in Wrappers, wrapper[w].life = "live",
             ~native[wrapper[w].handle].aliased, ~Disposing(w)
      PROVE  registry'[wrapper[w].cls][wrapper[w].handle] = w
  <2>1. wrapper[w].handle \in Addresses /\ w \in Referring(wrapper[w].handle)
    BY <1>2, LiveRefers DEF RegistryInv
  <2>2. wrapper[w].handle # ctx[t].h
    BY <1>2, <2>1 DEF RegistryInv, AliasInv
  <2>3. wrapper[w].cls \in Class
    BY DEF RegistryInv, IInv, TypeInv, TypeOK, Wrapper
  <2> QED BY <1>1, <1>2, <2>1, <2>2, <2>3 DEF RegistryInv, OwnerRegistered
<1>3. ASSUME NEW u \in Actors, u # t, pc[u] \in CtorLate, ~native[ctx[u].h].aliased
      PROVE  ctx[u].h \in Addresses /\ ctx[u].h # ctx[t].h
  <2>1. pc[u] \in CtorSteps
    BY <1>3 DEF CtorLate, CtorSteps
  <2>2. /\ ctx[u].h \in Addresses /\ ctx[u].w \in Referring(ctx[u].h)
        /\ u \in Busy(ctx[u].h)
    BY <2>1, CtorRefers DEF RegistryInv
  <2>3. SUFFICES ASSUME ctx[u].h = ctx[t].h PROVE FALSE
    BY <2>2
  <2>4. ctx[u].w = ctx[t].w
    BY <1>3, <2>2, <2>3 DEF RegistryInv, AliasInv
  <2>5. CASE pc[t] \in CtorSteps
    BY <1>3, <2>1, <2>4, <2>5 DEF RegistryInv, IInv, TypeInv, StepInv, CtorAlone
  <2>6. CASE pc[t] \in DisposeSteps
    BY <1>3, <2>2, <2>3, <2>6 DEF RegistryInv, IInv, SafeInv, BusyInv
  <2> QED BY <2>5, <2>6
<1> QED BY <1>1, <1>2, <1>3

\* Constructors register what they construct.
LEMMA RegistryCtorEntry ==
  ASSUME RegistryInv, IInv', NEW t \in Actors, Register(t) \/ BaseRegister(t)
  PROVE  RegistryInv'
<1> DEFINE w == ctx[t].w
           h == ctx[t].h
<1>1. PICK c \in Class, step \in {"Connect", "BaseConnect"} :
        /\ registry' = [registry EXCEPT ![c][h] = w]
        /\ pc' = [pc EXCEPT ![t] = step]
        /\ step = "Connect" => c = wrapper[w].cls
        /\ step = "BaseConnect" => c = "Root"
  <2>1. CASE Register(t)
    <3>1. wrapper[w].cls \in Class
      BY <2>1, CtorRefers DEF Register, CtorSteps, RegistryInv, IInv, TypeInv, TypeOK, Wrapper
    <3> QED BY <2>1, <3>1 DEF Register, Goto
  <2>2. CASE BaseRegister(t)
    BY <2>2 DEF BaseRegister, Goto, Class
  <2> QED BY <2>1, <2>2
<1>2. /\ pc[t] \in {"Register", "BaseRegister"}
      /\ native' = native /\ wrapper' = wrapper /\ ctx' = ctx
  BY DEF Register, BaseRegister
<1>3. /\ pc'[t] = step
      /\ \A u \in Actors : u # t => pc'[u] = pc[u]
      /\ registry'[c][h] = w
  <2>1. h \in Addresses
    BY <1>2, CtorRefers DEF CtorSteps, RegistryInv
  <2> QED BY <1>1, <2>1 DEF RegistryInv, IInv, TypeInv, TypeOK
<1>4. pc[t] \in CtorSteps
  BY <1>2 DEF CtorSteps
<1>5. /\ t \in Busy(h) /\ w \in Referring(h) /\ h \in Addresses /\ wrapper[w].life = "ctor"
  BY <1>4, CtorRefers DEF RegistryInv
<1>6. /\ \A v : Finishing(v)' <=> Finishing(v)
      /\ \A v : Disposing(v)' <=> Disposing(v)
  BY <1>1, <1>2, <1>3 DEF Finishing, Disposing, DisposeSteps
<1>7. \A a \in Addresses : Referring(a)' = Referring(a)
  BY <1>2, <1>6 DEF Referring
<1>8. /\ \A v \in Wrappers :
           /\ wrapper[v].life = "live" /\ ~native[wrapper[v].handle].aliased
           /\ ~Disposing(v)
           => registry'[wrapper[v].cls][wrapper[v].handle] = v
      /\ \A u \in Actors :
           u # t /\ pc[u] \in CtorLate /\ ~native[ctx[u].h].aliased =>
             \A d \in Class : registry'[d][ctx[u].h] = registry[d][ctx[u].h]
  BY <1>1, <1>4, <1>5, EntryWritten
<1> HIDE DEF w, h
<1>9. AliasInv'
  BY <1>2, <1>7 DEF RegistryInv, AliasInv
<1>10. OwnerRegistered'
  BY <1>2, <1>6, <1>8 DEF OwnerRegistered
<1>11. ASSUME NEW u \in Actors PROVE CtorRegistered(u)'
  <2>1. CASE u = t
    BY <1>1, <1>2, <1>3, <2>1 DEF CtorRegistered, w, h
  <2>2. CASE u # t
    <3>1. pc'[u] = pc[u] /\ CtorRegistered(u)
      BY <1>3, <2>2 DEF RegistryInv
    <3>2. pc[u] \in CtorLate => wrapper[ctx[u].w].cls \in Class
      <4>1. pc[u] \in CtorLate => pc[u] \in CtorSteps
        BY DEF CtorLate, CtorSteps
      <4> QED BY <4>1, CtorRefers DEF RegistryInv, IInv, TypeInv, TypeOK, Wrapper
    <3> QED BY <1>2, <1>8, <2>2, <3>1, <3>2 DEF CtorRegistered, CtorLate, Class
  <2> QED BY <2>1, <2>2
<1> QED BY <1>9, <1>10, <1>11 DEF RegistryInv

\* connect_director leaves the history of an object alone.
LEMMA ConnectDirectorAliased ==
  ASSUME TypeInv, NEW c \in Class, NEW a, NEW mask, ConnectDirector(c, a, mask)
  PROVE  \A b \in Addresses : native'[b].aliased = native[b].aliased
BY DEF ConnectDirector, TypeInv, TypeOK, Native

\* The last step of a constructor: what it constructed is in the cache.
LEMMA RegistryCtorEnd ==
  ASSUME RegistryInv, IInv', NEW t \in Actors, pc[t] \in CtorSteps,
         wrapper' = [wrapper EXCEPT ![ctx[t].w].life = "live"], End(t),
         \A a \in Addresses : native'[a].aliased = native[a].aliased,
         \A v \in Wrappers :
           /\ wrapper[v].life = "live" /\ ~native[wrapper[v].handle].aliased
           /\ ~Disposing(v)
           => registry'[wrapper[v].cls][wrapper[v].handle] = v,
         \A u \in Actors :
           u # t /\ pc[u] \in CtorLate /\ ~native[ctx[u].h].aliased =>
             \A d \in Class : registry'[d][ctx[u].h] = registry[d][ctx[u].h],
         ~native[ctx[t].h].aliased => registry'[wrapper[ctx[t].w].cls][ctx[t].h] = ctx[t].w
  PROVE  RegistryInv'
<1> DEFINE w == ctx[t].w
           h == ctx[t].h
<1>1. /\ w \in Wrappers /\ h \in Addresses /\ wrapper[w].life = "ctor"
      /\ wrapper[w].handle = h /\ pc[t] \notin DisposeSteps
  BY CtorRefers DEF RegistryInv, CtorSteps, DisposeSteps
<1>2. /\ \A v \in Wrappers : wrapper'[v].handle = wrapper[v].handle
                             /\ wrapper'[v].cls = wrapper[v].cls
      /\ \A v \in Wrappers : v # w => wrapper'[v] = wrapper[v]
  <2>1. wrapper \in [Wrappers -> Wrapper]
    BY DEF RegistryInv, IInv, TypeInv, TypeOK
  <2> QED BY ONLY <1>1, <2>1, wrapper' = [wrapper EXCEPT ![w].life = "live"] DEF Wrapper
<1>3. Ended(t)
  <2>1. pc[t] # "Finish"
    BY DEF CtorSteps
  <2> QED BY <2>1, EndFrame DEF RegistryInv, IInv
<1>4. \A a \in Addresses : Referring(a)' = Referring(a)
  BY <1>2, <1>3 DEF Referring, Ended
<1>5. \A v : Disposing(v)' <=> Disposing(v)
  BY <1>1, <1>3 DEF Disposing, Ended, DisposeSteps
<1>6. AliasInv'
  BY <1>4 DEF RegistryInv, AliasInv
<1>7. OwnerRegistered'
  <2>1. SUFFICES ASSUME NEW v \in Wrappers, wrapper'[v].life = "live",
                        ~native'[wrapper'[v].handle].aliased, ~Disposing(v)'
                 PROVE  registry'[wrapper'[v].cls][wrapper'[v].handle] = v
    BY DEF OwnerRegistered
  <2>2. CASE v = w
    BY <1>1, <1>2, <2>1, <2>2
  <2>3. CASE v # w
    <3>1. wrapper'[v] = wrapper[v] /\ wrapper[v].life = "live" /\ ~Disposing(v)
      BY <1>2, <1>5, <2>1, <2>3
    <3>2. wrapper[v].handle \in Addresses
      BY <3>1, LiveRefers DEF RegistryInv
    <3> QED BY <2>1, <3>1, <3>2
  <2> QED BY <2>2, <2>3
<1> HIDE DEF w, h
<1>8. ASSUME NEW u \in Actors PROVE CtorRegistered(u)'
  <2>1. CASE pc'[u] \in CtorLate
    <3>1. u # t /\ pc'[u] = pc[u] /\ ctx'[u] = ctx[u] /\ CtorRegistered(u)
      BY <1>3, <2>1 DEF CtorLate, Ended, RegistryInv
    <3>2. pc[u] \in CtorSteps
      BY <2>1, <3>1 DEF CtorLate, CtorSteps
    <3>3. ctx[u].w \in Wrappers /\ ctx[u].h \in Addresses
      BY <3>2, CtorRefers DEF RegistryInv
    <3>4. wrapper[ctx[u].w].cls \in Class
      BY <3>3 DEF RegistryInv, IInv, TypeInv, TypeOK, Wrapper
    <3> QED BY <1>2, <2>1, <3>1, <3>3, <3>4 DEF CtorRegistered, CtorLate, Class
  <2>2. CASE pc'[u] \notin CtorLate
    BY <2>2 DEF CtorLate, CtorRegistered
  <2> QED BY <2>1, <2>2
<1> QED BY <1>6, <1>7, <1>8 DEF RegistryInv

\* The steps of a constructor after its first entry.
LEMMA RegistryCtorStep ==
  ASSUME RegistryInv, IInv', NEW t \in Actors, Connect(t) \/ BaseConnect(t) \/ DerivedRegister(t)
  PROVE  RegistryInv'
<1> DEFINE w == ctx[t].w
           h == ctx[t].h
<1>1. pc[t] \in CtorSteps /\ pc[t] \in CtorLate
  BY DEF Connect, BaseConnect, DerivedRegister, CtorSteps, CtorLate
<1>2. /\ t \in Busy(h) /\ w \in Referring(h) /\ h \in Addresses /\ w \in Wrappers
      /\ wrapper[w].life = "ctor" /\ wrapper[w].handle = h
  BY <1>1, CtorRefers DEF RegistryInv
<1>3. wrapper[w].cls \in Class
  BY <1>2 DEF RegistryInv, IInv, TypeInv, TypeOK, Wrapper
<1>4. TypeInv /\ CtorRegistered(t)
  BY DEF RegistryInv, IInv
<1>5. CASE Connect(t)
  <2>1. \A a \in Addresses : native'[a].aliased = native[a].aliased
    BY <1>3, <1>4, <1>5, ConnectDirectorAliased DEF Connect
  <2>2. registry' = registry
    BY <1>5 DEF Connect
  <2>3. ~native[h].aliased => registry[wrapper[w].cls][h] = w
    BY <1>4, <1>5 DEF CtorRegistered, Connect
  <2>4. wrapper' = [wrapper EXCEPT ![w].life = "live"] /\ End(t)
    BY <1>5 DEF Connect
  <2>5. OwnerRegistered
    BY DEF RegistryInv
  <2> QED BY <1>1, <2>1, <2>2, <2>3, <2>4, <2>5, RegistryCtorEnd DEF OwnerRegistered
<1>6. CASE BaseConnect(t) /\ wrapper[w].cls = "Root"
  <2>1. \A a \in Addresses : native'[a].aliased = native[a].aliased
    BY <1>4, <1>6, ConnectDirectorAliased DEF BaseConnect, Class
  <2>2. registry' = registry
    BY <1>6 DEF BaseConnect
  <2>3. ~native[h].aliased => registry[wrapper[w].cls][h] = w
    BY <1>4, <1>6 DEF CtorRegistered, BaseConnect
  <2>4. wrapper' = [wrapper EXCEPT ![w].life = "live"] /\ End(t)
    BY <1>6 DEF BaseConnect
  <2>5. OwnerRegistered
    BY DEF RegistryInv
  <2> QED BY <1>1, <2>1, <2>2, <2>3, <2>4, <2>5, RegistryCtorEnd DEF OwnerRegistered
<1>7. CASE BaseConnect(t) /\ wrapper[w].cls = "Derived"
  <2>1. /\ pc' = [pc EXCEPT ![t] = "DerivedRegister"] /\ pc[t] = "BaseConnect"
        /\ wrapper' = wrapper /\ ctx' = ctx /\ registry' = registry
    BY <1>7 DEF BaseConnect, Goto
  <2>2. \A a \in Addresses : native'[a].aliased = native[a].aliased
    BY <1>4, <1>7, ConnectDirectorAliased DEF BaseConnect, Class
  <2>3. pc'[t] = "DerivedRegister" /\ \A u \in Actors : u # t => pc'[u] = pc[u]
    BY <1>4, <2>1 DEF TypeInv, TypeOK
  <2>4. /\ \A v : Finishing(v)' <=> Finishing(v)
        /\ \A v : Disposing(v)' <=> Disposing(v)
    BY <2>1, <2>3 DEF Finishing, Disposing, DisposeSteps
  <2>5. \A a \in Addresses : Referring(a)' = Referring(a)
    BY <2>1, <2>4 DEF Referring
  <2>6. AliasInv'
    BY <2>2, <2>5 DEF RegistryInv, AliasInv
  <2>7. OwnerRegistered'
    <3>1. \A v \in Wrappers :
            wrapper[v].life = "live" /\ ~Disposing(v) => wrapper[v].handle \in Addresses
      BY LiveRefers DEF RegistryInv
    <3> QED BY <2>1, <2>2, <2>4, <3>1 DEF RegistryInv, OwnerRegistered
  <2>8. ASSUME NEW u \in Actors PROVE CtorRegistered(u)'
    <3>1. CASE u = t
      BY <1>7, <2>1, <2>3, <3>1 DEF CtorRegistered
    <3>2. CASE u # t
      <4>1. pc[u] \in {"Connect", "BaseConnect"} => ctx[u].h \in Addresses
        BY CtorRefers DEF RegistryInv, CtorSteps
      <4> QED BY <2>1, <2>2, <2>3, <3>2, <4>1 DEF RegistryInv, CtorRegistered
    <3> QED BY <3>1, <3>2
  <2> QED BY <2>6, <2>7, <2>8 DEF RegistryInv
<1>8. CASE DerivedRegister(t)
  <2>1. /\ registry' = [registry EXCEPT !["Derived"][h] = w] /\ native' = native
        /\ wrapper' = [wrapper EXCEPT ![w].life = "live"] /\ End(t)
    BY <1>8 DEF DerivedRegister
  <2>2. wrapper[w].cls = "Derived" /\ "Derived" \in Class
    BY <1>4, <1>8 DEF CtorRegistered, DerivedRegister, Class
  <2>3. registry'[wrapper[w].cls][h] = w
    BY <1>2, <1>4, <2>1, <2>2 DEF TypeInv, TypeOK
  <2>4. /\ \A v \in Wrappers :
             /\ wrapper[v].life = "live" /\ ~native[wrapper[v].handle].aliased
             /\ ~Disposing(v)
             => registry'[wrapper[v].cls][wrapper[v].handle] = v
        /\ \A u \in Actors :
             u # t /\ pc[u] \in CtorLate /\ ~native[ctx[u].h].aliased =>
               \A d \in Class : registry'[d][ctx[u].h] = registry[d][ctx[u].h]
    BY <1>1, <1>2, <2>1, <2>2, EntryWritten
  <2>5. \A a \in Addresses : native'[a].aliased = native[a].aliased
    BY <2>1
  <2>6. wrapper' = [wrapper EXCEPT ![w].life = "live"] /\ End(t)
    BY <2>1
  <2> QED BY ONLY RegistryInv, IInv', t \in Actors, <1>1, <2>3, <2>4, <2>5, <2>6, RegistryCtorEnd,
              Zenon
<1> QED BY <1>3, <1>5, <1>6, <1>7, <1>8 DEF Class

\* A wrapper that is made has no entry yet: it is the only one of a new object, or
\* the object counts as wrapped twice from now on.
LEMMA RegistryMade ==
  ASSUME RegistryInv, IInv', NEW t \in Actors, NEW w \in Wrappers, NEW a \in Addresses,
         NEW step \in {"Register", "BaseRegister"}, NEW r, NEW n,
         wrapper[w].life = "none", r.life = "ctor", r.handle = a,
         n.aliased \/ native[a].kind = "free",
         native' = [native EXCEPT ![a] = n], wrapper' = [wrapper EXCEPT ![w] = r],
         registry' = registry, Begin(t, step, w, a, FALSE)
  PROVE  RegistryInv'
<1>1. /\ wrapper'[w] = r
      /\ \A v \in Wrappers : v # w => wrapper'[v] = wrapper[v]
      /\ native'[a] = n
      /\ \A b \in Addresses : b # a => native'[b] = native[b]
  BY DEF RegistryInv, IInv, TypeInv, TypeOK
<1>2. Begun(t, step, w, a, FALSE)
  <2>1. step \in CtorSteps \cup CallSteps \cup DisposeSteps /\ step # "Finish"
    BY DEF CtorSteps
  <2> QED BY <2>1, BeginFrame DEF RegistryInv, IInv
<1>3. wrapper[w].handle = Null
  BY DEF RegistryInv, IInv, SafeInv, LifeInv
<1>4. \A b \in Addresses : b # a => Referring(b)' = Referring(b)
  BY <1>1, <1>2, <1>3, NullAssumption DEF Referring, Begun
<1>5. native[a].kind = "free" => Referring(a) = {} /\ Referring(a)' \subseteq {w}
  <2>1. SUFFICES ASSUME native[a].kind = "free"
                 PROVE  Referring(a) = {} /\ Referring(a)' \subseteq {w}
    OBVIOUS
  <2>2. Referring(a) = {}
    BY <2>1 DEF RegistryInv, IInv, SafeInv, AliveInv
  <2> QED BY <1>1, <1>2, <2>2 DEF Referring, Begun
<1>6. AliasInv'
  BY <1>1, <1>4, <1>5 DEF RegistryInv, AliasInv
<1>7. \A v : Disposing(v) => Disposing(v)'
  BY <1>2 DEF Disposing, Begun, DisposeSteps
<1>8. OwnerRegistered'
  <2>1. SUFFICES ASSUME NEW v \in Wrappers, wrapper'[v].life = "live",
                        ~native'[wrapper'[v].handle].aliased, ~Disposing(v)'
                 PROVE  registry'[wrapper'[v].cls][wrapper'[v].handle] = v
    BY DEF OwnerRegistered
  <2>2. v # w /\ wrapper'[v] = wrapper[v] /\ ~Disposing(v)
    BY <1>1, <1>7, <2>1
  <2>3. /\ wrapper[v].handle \in Addresses /\ v \in Referring(wrapper[v].handle)
        /\ native[wrapper[v].handle].kind # "free"
    BY <2>1, <2>2, LiveRefers DEF RegistryInv
  <2>4. wrapper[v].handle # a
    BY <1>1, <2>1, <2>2, <2>3
  <2> QED BY <1>1, <2>1, <2>2, <2>3, <2>4 DEF RegistryInv, OwnerRegistered
<1>9. ASSUME NEW u \in Actors PROVE CtorRegistered(u)'
  <2>1. CASE pc'[u] \in CtorLate
    <3>1. u # t /\ pc'[u] = pc[u] /\ ctx'[u] = ctx[u] /\ CtorRegistered(u)
      BY <1>2, <2>1 DEF CtorLate, Begun, RegistryInv
    <3>2. pc[u] \in CtorSteps
      BY <2>1, <3>1 DEF CtorLate, CtorSteps
    <3>3. /\ ctx[u].w \in Wrappers /\ ctx[u].h \in Addresses /\ ctx[u].w # w
          /\ native[ctx[u].h].kind # "free"
      BY <3>2, CtorRefers DEF RegistryInv
    <3>4. ~native'[ctx[u].h].aliased => ~native[ctx[u].h].aliased
      BY <1>1, <3>3
    <3> QED BY <1>1, <3>1, <3>3, <3>4 DEF CtorRegistered
  <2>2. CASE pc'[u] \notin CtorLate
    BY <2>2 DEF CtorLate, CtorRegistered
  <2> QED BY <2>1, <2>2
<1> QED BY <1>6, <1>8, <1>9 DEF RegistryInv

\* Dispose empties the entry of a wrapper that is not in use any more.
LEMMA RegistryUnregister ==
  ASSUME RegistryInv, IInv', NEW t \in Actors, Unregister(t)
  PROVE  RegistryInv'
<1> DEFINE w == ctx[t].w
           h == ctx[t].h
<1>1. /\ pc[t] = "Unregister" /\ pc' = [pc EXCEPT ![t] = "Destroy"]
      /\ registry' = [registry EXCEPT !["Root"][h] = Null]
      /\ native' = native /\ wrapper' = wrapper /\ ctx' = ctx
  BY DEF Unregister, DisposeOrder, Goto
<1>2. pc'[t] = "Destroy" /\ \A u \in Actors : u # t => pc'[u] = pc[u]
  BY <1>1 DEF RegistryInv, IInv, TypeInv, TypeOK
<1>3. /\ pc[t] \in DisposeSteps /\ pc[t] \notin {"idle", "Finish"}
      /\ w \in Wrappers /\ h \in Addresses
  BY <1>1 DEF DisposeSteps, RegistryInv, IInv, TypeInv, StepInv, ActorInv
<1>4. t \in Busy(h) /\ Disposing(w)
  BY <1>3 DEF Busy, Disposing
<1>5. w \in Referring(h)
  BY <1>3, <1>4, NullAssumption DEF RegistryInv, IInv, SafeInv, BusyInv
<1>6. /\ \A v \in Wrappers :
           /\ wrapper[v].life = "live" /\ ~native[wrapper[v].handle].aliased
           /\ ~Disposing(v)
           => registry'[wrapper[v].cls][wrapper[v].handle] = v
      /\ \A u \in Actors :
           u # t /\ pc[u] \in CtorLate /\ ~native[ctx[u].h].aliased =>
             \A d \in Class : registry'[d][ctx[u].h] = registry[d][ctx[u].h]
  <2>1. "Root" \in Class
    BY DEF Class
  <2> QED BY <1>1, <1>3, <1>4, <1>5, <2>1, EntryWritten
<1>7. /\ \A v : Finishing(v)' <=> Finishing(v)
      /\ \A v : Disposing(v)' <=> Disposing(v)
  BY <1>1, <1>2 DEF Finishing, Disposing, DisposeSteps
<1>8. \A a \in Addresses : Referring(a)' = Referring(a)
  BY <1>1, <1>7 DEF Referring
<1>9. AliasInv'
  BY <1>1, <1>8 DEF RegistryInv, AliasInv
<1>10. OwnerRegistered'
  BY <1>1, <1>6, <1>7 DEF OwnerRegistered
<1>11. ASSUME NEW u \in Actors PROVE CtorRegistered(u)'
  <2>1. CASE u = t
    BY <1>2, <2>1 DEF CtorRegistered
  <2>2. CASE u # t
    <3>1. pc'[u] = pc[u] /\ CtorRegistered(u)
      BY <1>2, <2>2 DEF RegistryInv
    <3>2. pc[u] \in CtorLate => wrapper[ctx[u].w].cls \in Class
      <4>1. pc[u] \in CtorLate => pc[u] \in CtorSteps
        BY DEF CtorLate, CtorSteps
      <4> QED BY <4>1, CtorRefers DEF RegistryInv, IInv, TypeInv, TypeOK, Wrapper
    <3> QED BY <1>1, <1>6, <2>2, <3>1, <3>2 DEF CtorRegistered, CtorLate, Class
  <2> QED BY <2>1, <2>2
<1> QED BY <1>9, <1>10, <1>11 DEF RegistryInv

\* The last step of Dispose.
LEMMA RegistryFinish ==
  ASSUME RegistryInv, IInv', NEW t \in Actors, Finish(t)
  PROVE  RegistryInv'
<1> DEFINE w == ctx[t].w
           l == IF t = Finalizer THEN "dead" ELSE "disposed"
<1>1. /\ pc[t] = "Finish" /\ pc' = [pc EXCEPT ![t] = "idle"]
      /\ ctx' = [ctx EXCEPT ![t] = NoContext]
      /\ wrapper' = [wrapper EXCEPT ![w].handle = Null, ![w].owned = FALSE, ![w].life = l]
      /\ native' = native /\ registry' = registry
  BY DEF Finish, End, Goto
<1>2. TypeInv /\ w \in Wrappers /\ l \in {"dead", "disposed"}
  BY <1>1 DEF RegistryInv, IInv, TypeInv, StepInv, ActorInv, DisposeSteps
<1> HIDE DEF l
<1>3. /\ pc'[t] = "idle"
      /\ \A u \in Actors : u # t => pc'[u] = pc[u] /\ ctx'[u] = ctx[u]
  BY <1>1, <1>2 DEF TypeInv, TypeOK
<1>4. /\ \A v \in Wrappers : v # w => wrapper'[v] = wrapper[v]
      /\ wrapper'[w].handle = Null /\ wrapper'[w].life = l
  BY ONLY <1>1, <1>2 DEF TypeInv, TypeOK, Wrapper
<1>5. \A v : v # w => (Finishing(v)' <=> Finishing(v))
  BY <1>1, <1>3 DEF Finishing
<1>6. \A v : v # w => (Disposing(v)' <=> Disposing(v))
  BY <1>1, <1>3 DEF Disposing, DisposeSteps
<1>7. \A a \in Addresses : Referring(a)' \subseteq Referring(a)
  BY <1>4, <1>5, NullAssumption DEF Referring
<1>8. \A u \in Actors : pc'[u] \in CtorLate =>
        /\ pc'[u] = pc[u] /\ ctx'[u] = ctx[u]
        /\ wrapper'[ctx[u].w].cls = wrapper[ctx[u].w].cls
  <2>1. SUFFICES ASSUME NEW u \in Actors, pc'[u] \in CtorLate
                 PROVE  /\ pc'[u] = pc[u] /\ ctx'[u] = ctx[u]
                        /\ wrapper'[ctx[u].w].cls = wrapper[ctx[u].w].cls
    OBVIOUS
  <2>2. pc'[u] = pc[u] /\ ctx'[u] = ctx[u] /\ pc[u] \in CtorSteps
    BY <1>3, <2>1 DEF CtorLate, CtorSteps
  <2>3. ctx[u].w \in Wrappers /\ wrapper[ctx[u].w].life = "ctor"
    BY <2>2, CtorRefers DEF RegistryInv
  <2>4. wrapper[w].life # "ctor"
    BY <1>1, <1>2 DEF TypeInv, StepInv, ActorInv, DisposeSteps
  <2> QED BY <1>4, <2>2, <2>3, <2>4
<1>9. QuietStep
  BY <1>1, <1>2, <1>4, <1>6, <1>7, <1>8 DEF QuietStep
<1> QED BY <1>9, Quiet

\* The operations that begin and leave the cache alone.
LEMMA RegistryBegin ==
  ASSUME RegistryInv, IInv', NEW t \in Actors,
         \/ \E w \in Wrappers :
              \/ Call(t, w)
              \/ BeginDispose(t, w) /\ UNCHANGED <<native, wrapper, registry, roots>>
         \/ \E a \in Addresses : NativeCall(t, a)
  PROVE  RegistryInv'
<1>1. PICK step \in {"Native", "Disconnect", "Finish"} : \E w, h, o : Begin(t, step, w, h, o)
  BY DEF Call, NativeCall, BeginDispose
<1>2. native' = native /\ wrapper' = wrapper /\ registry' = registry
  BY DEF Call, NativeCall
<1>3. /\ pc[t] = "idle" /\ pc'[t] = step
      /\ \A u \in Actors : u # t => pc'[u] = pc[u] /\ ctx'[u] = ctx[u]
  BY <1>1 DEF Begin, Goto, RegistryInv, IInv, TypeInv, TypeOK
<1>4. pc[t] \notin DisposeSteps /\ pc'[t] \notin CtorLate
  BY <1>3 DEF DisposeSteps, CtorLate
<1> QED BY <1>2, <1>3, <1>4, QuietFields

\* The steps inside an operation that leave the cache alone.
LEMMA RegistryInner ==
  ASSUME RegistryInv, IInv', NEW t \in Actors,
         \/ CallStep(t) \/ Disconnect(t) \/ Destroy(t)
  PROVE  RegistryInv'
<1>1. wrapper' = wrapper /\ registry' = registry
  BY DEF CallStep, Native_Dispatch, Callback, Override, Return, Disconnect, Destroy
<1>2. \A a \in Addresses : native'[a].kind # "free" => native'[a].aliased = native[a].aliased
  <2>1. TypeInv
    BY DEF RegistryInv, IInv
  <2>2. CASE CallStep(t)
    BY <2>2 DEF CallStep, Native_Dispatch, Callback, Override, Return
  <2>3. CASE Disconnect(t)
    BY <2>1, <2>3, ConnectDirectorAliased DEF Disconnect, Class
  <2>4. CASE Destroy(t)
    BY <2>1, <2>4 DEF Destroy, Freed, TypeInv, TypeOK
  <2> QED BY <2>2, <2>3, <2>4
<1>3. PICK step, c :
        /\ pc' = [pc EXCEPT ![t] = step] /\ ctx' = [ctx EXCEPT ![t] = c]
        /\ \/ pc[t] \in CallSteps /\ step \in CallSteps \cup {"idle"}
           \/ pc[t] \in {"Disconnect", "Destroy"} /\ step \in {"Unregister", "Finish"} /\ c = ctx[t]
  <2>1. ctx = [ctx EXCEPT ![t] = ctx[t]]
    BY DEF RegistryInv, IInv, TypeInv, TypeOK
  <2>2. CASE Native_Dispatch(t)
    BY <2>2 DEF Native_Dispatch, Goto, CallSteps
  <2>3. CASE Callback(t)
    BY <2>3 DEF Callback, Goto, CallSteps
  <2>4. CASE Override(t)
    BY <2>4 DEF Override, Goto, CallSteps
  <2>5. CASE Return(t)
    BY <2>5 DEF Return, End, Goto, CallSteps
  <2>6. CASE Disconnect(t) \/ Destroy(t)
    BY <2>1, <2>6 DEF Disconnect, Destroy, Goto, DisposeOrder
  <2> QED BY <2>2, <2>3, <2>4, <2>5, <2>6 DEF CallStep
<1>4. pc'[t] = step /\ ctx'[t] = c /\ \A u \in Actors : u # t => pc'[u] = pc[u] /\ ctx'[u] = ctx[u]
  BY <1>3 DEF RegistryInv, IInv, TypeInv, TypeOK
<1>5. /\ pc[t] \in DisposeSteps => /\ pc[t] # "Finish" /\ pc'[t] \in DisposeSteps
                                   /\ ctx'[t].w = ctx[t].w
      /\ pc'[t] \notin CtorLate
  BY <1>3, <1>4 DEF DisposeSteps, CallSteps, CtorLate
<1> QED BY <1>1, <1>2, <1>4, <1>5, QuietFields

\* What the program, the runtime and native code do to wrappers and objects.
LEMMA RegistryOutside ==
  ASSUME RegistryInv, IInv', NEW t \in Actors, pc[t] = "idle",
         \/ \E w \in Wrappers, c \in Class : NewThrows(t, w, c)
         \/ \E w \in Wrappers, owned \in BOOLEAN : SetOwnership(t, w, owned)
  PROVE  RegistryInv'
<1>1. TypeInv
  BY DEF RegistryInv, IInv
<1>2. ASSUME NEW w \in Wrappers, NEW c \in Class, NewThrows(t, w, c) PROVE RegistryInv'
  <2>1. /\ wrapper[w].life = "none" /\ native' = native /\ registry' = registry
        /\ pc' = pc /\ ctx' = ctx
        /\ wrapper' = [wrapper EXCEPT ![w].life = "unreachable", ![w].cls = c]
    BY <1>2 DEF NewThrows
  <2>2. /\ \A v \in Wrappers : wrapper'[v].handle = wrapper[v].handle
        /\ \A v \in Wrappers : v # w => wrapper'[v] = wrapper[v]
        /\ wrapper'[w].life = "unreachable"
    BY ONLY <1>1, <2>1 DEF TypeInv, TypeOK, Wrapper
  <2>3. pc[t] \notin DisposeSteps /\ pc'[t] \notin CtorLate
    BY <2>1 DEF DisposeSteps, CtorLate
  <2> QED BY <2>1, <2>2, <2>3, QuietFields
<1>3. ASSUME NEW w \in Wrappers, NEW owned \in BOOLEAN, SetOwnership(t, w, owned) PROVE RegistryInv'
  <2>1. /\ native' = native /\ registry' = registry /\ pc' = pc /\ ctx' = ctx
        /\ wrapper' = wrapper \/ wrapper' = [wrapper EXCEPT ![w].owned = owned]
    BY <1>3 DEF SetOwnership
  <2>2. \A v \in Wrappers : /\ wrapper'[v].handle = wrapper[v].handle
                            /\ wrapper'[v].life = wrapper[v].life
                            /\ wrapper'[v].cls = wrapper[v].cls
    BY ONLY <1>1, <2>1 DEF TypeInv, TypeOK, Wrapper
  <2>3. pc[t] \notin DisposeSteps /\ pc'[t] \notin CtorLate
    BY <2>1 DEF DisposeSteps, CtorLate
  <2> QED BY <2>1, <2>2, <2>3, QuietFields
<1> QED BY <1>2, <1>3

\* The steps that need no thread: garbage, and the deletes of native code.
LEMMA RegistryAnyTime ==
  ASSUME RegistryInv, IInv',
         \/ \E w \in Wrappers : Drop(w) \/ Collect(w)
         \/ \E a \in Addresses : NativeDelete(a)
  PROVE  RegistryInv'
<1>1. TypeInv
  BY DEF RegistryInv, IInv
<1>2. registry' = registry /\ pc' = pc /\ ctx' = ctx
  BY DEF Drop, Collect, NativeDelete
<1>3. \A a \in Addresses : native'[a].kind # "free" => native'[a].aliased = native[a].aliased
  <2>1. CASE native' = native
    BY <2>1
  <2>2. ASSUME NEW b \in Addresses, native' = [native EXCEPT ![b] = Freed]
        PROVE  \A a \in Addresses :
                 native'[a].kind # "free" => native'[a].aliased = native[a].aliased
    BY ONLY <1>1, <2>2 DEF TypeInv, TypeOK, Freed
  <2>3. native' = native \/ \E b \in Addresses : native' = [native EXCEPT ![b] = Freed]
    BY DEF Drop, Collect, NativeDelete
  <2> QED BY <2>1, <2>2, <2>3
<1>4. \A v \in Wrappers : /\ wrapper'[v].handle = wrapper[v].handle
                          /\ wrapper'[v].cls = wrapper[v].cls
                          /\ wrapper'[v].life = "live" => wrapper[v].life = "live"
  <2>1. CASE wrapper' = wrapper
    BY <2>1
  <2>2. ASSUME NEW w \in Wrappers, NEW l \in {"unreachable", "dead"},
               wrapper' = [wrapper EXCEPT ![w].life = l]
        PROVE  \A v \in Wrappers : /\ wrapper'[v].handle = wrapper[v].handle
                                   /\ wrapper'[v].cls = wrapper[v].cls
                                   /\ wrapper'[v].life = "live" => wrapper[v].life = "live"
    BY ONLY <1>1, <2>2 DEF TypeInv, TypeOK, Wrapper
  <2> QED BY <2>1, <2>2 DEF Drop, Collect, NativeDelete
<1>5. \A v : (Finishing(v)' <=> Finishing(v)) /\ (Disposing(v)' <=> Disposing(v))
  BY <1>2 DEF Finishing, Disposing
<1>6. \A a \in Addresses : Referring(a)' \subseteq Referring(a)
  BY <1>4, <1>5 DEF Referring
<1>7. \A u \in Actors : pc'[u] \in CtorLate =>
        /\ pc'[u] = pc[u] /\ ctx'[u] = ctx[u]
        /\ wrapper'[ctx[u].w].cls = wrapper[ctx[u].w].cls
  <2>1. \A u \in Actors : pc[u] \in CtorLate => pc[u] \in CtorSteps
    BY DEF CtorLate, CtorSteps
  <2> QED BY <1>2, <1>4, <2>1, CtorRefers DEF RegistryInv
<1>8. QuietStep
  BY <1>2, <1>3, <1>4, <1>5, <1>6, <1>7 DEF QuietStep
<1> QED BY <1>8, Quiet

\* The constructors begin.
LEMMA RegistryNew ==
  ASSUME RegistryInv, IInv', NEW t \in Actors, NEW w \in Wrappers, NEW a \in Addresses,
         \/ \E c \in Class, overrides \in BOOLEAN : New(t, w, c, a, overrides)
         \/ \E c \in Class : WrapBorrowed(t, w, c, a)
         \/ WrapOwned(t, w, a)
  PROVE  RegistryInv'
<1>1. PICK step \in {"Register", "BaseRegister"} : \E r, n :
        /\ wrapper[w].life = "none" /\ r.life = "ctor" /\ r.handle = a
        /\ n.aliased \/ native[a].kind = "free"
        /\ native' = [native EXCEPT ![a] = n] /\ wrapper' = [wrapper EXCEPT ![w] = r]
        /\ registry' = registry /\ Begin(t, step, w, a, FALSE)
  <2>1. CASE \E c \in Class, overrides \in BOOLEAN : New(t, w, c, a, overrides)
    BY <2>1 DEF New
  <2>2. ASSUME NEW c \in Class, WrapBorrowed(t, w, c, a)
        PROVE  \E r, n : /\ r.life = "ctor" /\ r.handle = a /\ n.aliased
                         /\ native' = [native EXCEPT ![a] = n]
                         /\ wrapper' = [wrapper EXCEPT ![w] = r]
    <3> DEFINE r == [life |-> "ctor", cls |-> c, handle |-> a, owned |-> FALSE, mask |-> FALSE]
               n == [native[a] EXCEPT !.aliased = TRUE]
    <3>1. native[a] \in Native
      BY DEF RegistryInv, IInv, TypeInv, TypeOK
    <3>2. n.aliased
      BY <3>1 DEF Native
    <3>3. native' = [native EXCEPT ![a] = n] /\ wrapper' = [wrapper EXCEPT ![w] = r]
      BY <2>2 DEF WrapBorrowed
    <3>4. r.life = "ctor" /\ r.handle = a
      OBVIOUS
    <3> HIDE DEF r, n
    <3> QED BY <3>2, <3>3, <3>4
  <2>3. CASE WrapOwned(t, w, a)
    BY <2>3 DEF WrapOwned
  <2> QED BY <2>1, <2>2, <2>3 DEF WrapBorrowed
<1>2. PICK r, n :
        /\ wrapper[w].life = "none" /\ r.life = "ctor" /\ r.handle = a
        /\ n.aliased \/ native[a].kind = "free"
        /\ native' = [native EXCEPT ![a] = n] /\ wrapper' = [wrapper EXCEPT ![w] = r]
        /\ registry' = registry /\ Begin(t, step, w, a, FALSE)
  BY <1>1
<1> QED BY ONLY RegistryInv, IInv', <1>2, step \in {"Register", "BaseRegister"}, RegistryMade

\* Every step of the specification.
LEMMA RegistryNext ==
  ASSUME RegistryInv, IInv', [Next]_vars
  PROVE  RegistryInv'
<1>1. ASSUME NEW t \in Threads, Start(t) PROVE RegistryInv'
  <2>1. t \in Actors
    BY DEF Actors
  <2>2. CASE \E w \in Wrappers, c \in Class : NewThrows(t, w, c)
    BY <2>1, <2>2, RegistryOutside DEF NewThrows
  <2>3. CASE \E w \in Wrappers, owned \in BOOLEAN : SetOwnership(t, w, owned)
    BY <2>1, <2>3, RegistryOutside DEF SetOwnership
  <2>4. CASE \E w \in Wrappers : Dispose(t, w)
    BY <2>1, <2>4, RegistryBegin DEF Dispose
  <2>5. ASSUME NEW w \in Wrappers, NEW a \in Addresses,
               \/ \E c \in Class, overrides \in BOOLEAN : New(t, w, c, a, overrides)
               \/ \E c \in Class : WrapBorrowed(t, w, c, a)
               \/ WrapOwned(t, w, a)
        PROVE  RegistryInv'
    BY <2>1, <2>5, RegistryNew
  <2>6. CASE \/ \E w \in Wrappers : Call(t, w)
             \/ \E a \in Addresses : NativeCall(t, a)
    BY ONLY <2>1, <2>6, RegistryInv, IInv', RegistryBegin, Zenon
  <2>7. CASE \E w \in Wrappers, c \in Class, a \in Addresses :
               \/ \E overrides \in BOOLEAN : New(t, w, c, a, overrides)
               \/ WrapBorrowed(t, w, c, a)
    BY <2>5, <2>7
  <2>8. CASE \E w \in Wrappers, a \in Addresses : WrapOwned(t, w, a)
    BY <2>5, <2>8
  <2> QED BY <1>1, <2>2, <2>3, <2>4, <2>6, <2>7, <2>8 DEF Start
<1>2. ASSUME NEW t \in Actors, CtorStep(t) \/ CallStep(t) \/ DisposeStep(t) PROVE RegistryInv'
  BY <1>2, RegistryCtorEntry, RegistryCtorStep, RegistryInner, RegistryUnregister, RegistryFinish
     DEF CtorStep, DisposeStep
<1>3. ASSUME NEW w \in Wrappers, Finalize(w) PROVE RegistryInv'
  BY <1>3, RegistryBegin DEF Finalize, Actors
<1>4. CASE UNCHANGED vars
  BY <1>4 DEF vars, RegistryInv, AliasInv, CtorRegistered, OwnerRegistered, Referring,
              Finishing, Disposing
<1> QED BY <1>1, <1>2, <1>3, <1>4, RegistryAnyTime DEF Next, FinalizerStep, Actors

\* The initial states: no wrapper, an empty cache.
LEMMA RegistryInit == Init => RegistryInv
<1> SUFFICES ASSUME Init PROVE RegistryInv
  OBVIOUS
<1>1. IInv
  BY TypeInvInit, SafeInvInit DEF IInv
<1>2. AliasInv
  BY NullAssumption DEF AliasInv, Referring, Init
<1>3. \A t \in Actors : CtorRegistered(t)
  BY DEF CtorRegistered, Init
<1>4. OwnerRegistered
  BY DEF OwnerRegistered, Init
<1> QED BY <1>1, <1>2, <1>3, <1>4 DEF RegistryInv

\* The cache of its class finds the wrapper of every object that was wrapped once,
\* for any number of threads, wrappers and addresses.
THEOREM CacheCorrect == ASSUME RulesKept PROVE Spec => []OwnerRegistered
<1>1. RegistryInv /\ [Next]_vars => RegistryInv'
  <2> SUFFICES ASSUME RegistryInv, [Next]_vars PROVE RegistryInv'
    OBVIOUS
  <2>1. TypeInv' /\ SafeInv'
    BY TypeInvNext, SafeInvNext DEF RegistryInv, IInv
  <2> QED BY <2>1, RegistryNext DEF IInv
<1>2. RegistryInv => OwnerRegistered
  BY DEF RegistryInv
<1> QED BY <1>1, <1>2, RegistryInit, PTL DEF Spec

-----------------------------------------------------------------------------
(***************************************************************************)
(* Virtual dispatch in WrapperLifecycle, for any number of threads,        *)
(* wrappers and addresses: in a program that keeps the rules of use, a     *)
(* native call on an object that was wrapped once runs the managed         *)
(* override, a call on a Root object never falls into the default result,  *)
(* and its override runs on a wrapper that has not been disposed.          *)
(***************************************************************************)
\* The steps that ConstructionInv, OverrideInv and RootInv say something about.
KnownSteps ==
  {"Register", "Connect", "BaseRegister", "BaseConnect", "DerivedRegister",
   "Callback", "Override", "Return", "Unregister", "Destroy"}

\* A native call is on its way from the slot of the object at a to its override.
Underway(a) == Dispatching(a) \/ \E t \in Busy(a) : pc[t] = "Override"

-----------------------------------------------------------------------------
\* A wrapper that overrides refers to an object that exists.
LEMMA OverridingRefers ==
  ASSUME IInv, NEW w \in Wrappers, Overriding(w)
  PROVE  /\ wrapper[w].handle \in Addresses /\ wrapper[w].cls \in Class
         /\ w \in Referring(wrapper[w].handle)
         /\ native[wrapper[w].handle].kind # "free"
<1>1. wrapper[w].cls \in Class
  BY DEF IInv, TypeInv, TypeOK, Wrapper
<1> QED BY <1>1, LiveRefers DEF Overriding

\* So does a thread that works on one.
LEMMA BusyRefers ==
  ASSUME IInv, NEW t \in Actors, pc[t] \notin {"idle", "Finish"}
  PROVE  /\ ctx[t].h \in Addresses /\ t \in Busy(ctx[t].h)
         /\ native[ctx[t].h].kind # "free"
<1>1. ctx[t].h \in Addresses /\ t \in Busy(ctx[t].h)
  BY DEF IInv, TypeInv, StepInv, ActorInv, Busy
<1> QED BY <1>1 DEF IInv, SafeInv, AliveInv

\* A wrapper refers to an object from its construction until Dispose leaves it.
LEMMA RootEntryFound ==
  ASSUME RegistryInv, NEW t \in Actors, pc[t] = "Callback",
         NEW v \in Referring(ctx[t].h)
  PROVE  wrapper[v].life \in {"ctor", "live"}
<1>1. ctx[t].h \in Addresses /\ t \in Busy(ctx[t].h)
  BY BusyRefers DEF RegistryInv
<1>2. v \in Wrappers /\ wrapper[v].handle = ctx[t].h
  BY DEF Referring
<1>3. wrapper[v].life \in {"ctor", "live", "unreachable"}
  BY <1>1, <1>2, NullAssumption DEF RegistryInv, IInv, SafeInv, LifeInv
<1>4. ASSUME wrapper[v].life = "unreachable" PROVE FALSE
  <2>1. v \notin roots
    BY <1>2, <1>4 DEF RegistryInv, IInv, SafeInv, LifeInv
  <2>2. wrapper[v].owned /\ \A w \in Referring(ctx[t].h) : w = v
    BY <1>1, <1>4, <2>1 DEF RegistryInv, IInv, SafeInv, OwnerInv
  <2>3. ctx[t].w # Null
    BY <1>1, <2>2 DEF RegistryInv, IInv, SafeInv, BusyInv, Unowned
  <2>4. ctx[t].w = v
    BY <1>1, <2>2, <2>3 DEF RegistryInv, IInv, SafeInv, BusyInv
  <2>5. wrapper[v].life = "live"
    BY <2>3, <2>4 DEF RegistryInv, IInv, SafeInv, ContextInv, OpInv, CallSteps
  <2> QED BY <1>4, <2>5
<1> QED BY <1>3, <1>4

\* While a native call is inside an object, nobody disposes a wrapper of it.
LEMMA CalledNotDisposed ==
  ASSUME RegistryInv, NEW t \in Actors, pc[t] \in CallSteps, NEW u \in Actors,
         pc[u] \in DisposeSteps, pc[u] # "Finish"
  PROVE  ctx[u].h # ctx[t].h
<1>1. t # u /\ pc[t] \notin {"idle", "Finish"} /\ pc[u] \notin {"idle", "Finish"}
  BY DEF CallSteps, DisposeSteps
<1>2. /\ ctx[t].h \in Addresses /\ t \in Busy(ctx[t].h)
      /\ ctx[u].h \in Addresses /\ u \in Busy(ctx[u].h)
  BY <1>1, BusyRefers DEF RegistryInv
<1> QED BY <1>1, <1>2 DEF RegistryInv, IInv, SafeInv, BusyInv

-----------------------------------------------------------------------------
\* A step that leaves the objects that exist, the cache and the steps of KnownSteps
\* alone, brings no wrapper to life and lets no wrapper go whose call is underway.
LEMMA DispatchQuiet ==
  ASSUME DispatchInv, RegistryInv', registry' = registry,
         \A u \in Actors : pc'[u] \in KnownSteps => pc'[u] = pc[u] /\ ctx'[u] = ctx[u],
         \A w \in Wrappers : wrapper[w].life = "ctor" => wrapper'[w] = wrapper[w],
         \A w \in Wrappers : wrapper'[w].life = "live" /\ ~Disposing(w)' =>
           /\ wrapper[w].life = "live" /\ ~Disposing(w)
           /\ wrapper'[w].handle = wrapper[w].handle
           /\ wrapper'[w].cls = wrapper[w].cls /\ wrapper'[w].mask = wrapper[w].mask,
         \A a \in Addresses : native'[a].kind # "free" => native'[a] = native[a],
         \A a \in Addresses : native'[a].kind = "Root" /\ Underway(a)' =>
           Referring(a) \subseteq Referring(a)'
  PROVE  DispatchInv'
<1>1. ASSUME NEW u \in Actors, pc'[u] \in KnownSteps
      PROVE  /\ pc'[u] = pc[u] /\ ctx'[u] = ctx[u]
             /\ ctx[u].h \in Addresses
             /\ \A a \in Addresses : a = ctx[u].h => u \in Busy(a) /\ u \in Busy(a)'
             /\ native'[ctx[u].h] = native[ctx[u].h] /\ native'[ctx[u].h].kind # "free"
  <2>1. pc'[u] = pc[u] /\ ctx'[u] = ctx[u] /\ pc[u] \notin {"idle", "Finish"}
    BY <1>1 DEF KnownSteps
  <2>2. /\ ctx[u].h \in Addresses
        /\ \A a \in Addresses : a = ctx[u].h => u \in Busy(a) /\ u \in Busy(a)'
    BY <2>1, BusyRefers DEF DispatchInv, RegistryInv, Busy
  <2>3. native'[ctx[u].h].kind # "free"
    BY <2>2 DEF RegistryInv, IInv, SafeInv, AliveInv
  <2> QED BY <2>1, <2>2, <2>3
<1>2. ASSUME NEW w \in Wrappers, Overriding(w)'
      PROVE  /\ Overriding(w) /\ wrapper'[w].handle = wrapper[w].handle
             /\ wrapper'[w].cls = wrapper[w].cls
             /\ native'[wrapper[w].handle] = native[wrapper[w].handle]
  <2>1. /\ wrapper[w].life = "live" /\ ~Disposing(w) /\ wrapper[w].mask
        /\ wrapper'[w].handle = wrapper[w].handle /\ wrapper'[w].cls = wrapper[w].cls
    BY <1>2 DEF Overriding
  <2>2. wrapper[w].handle \in Addresses
    BY <2>1, LiveRefers DEF DispatchInv, RegistryInv
  <2>3. ~Finishing(w)'
    BY <1>2 DEF Overriding, Disposing, Finishing, DisposeSteps
  <2>4. native'[wrapper[w].handle].kind # "free"
    BY <2>1, <2>2, <2>3 DEF RegistryInv, IInv, SafeInv, AliveInv, Referring
  <2>5. native'[wrapper[w].handle] = native[wrapper[w].handle]
    BY <2>2, <2>4
  <2> QED BY <1>2, <2>1, <2>5 DEF Overriding
<1>3. ASSUME NEW u \in Actors PROVE ConstructionInv(u)'
  <2>1. CASE pc'[u] \in CtorSteps
    <3>1. pc'[u] \in KnownSteps
      BY <2>1 DEF CtorSteps, KnownSteps
    <3>2. ctx[u].w \in Wrappers /\ wrapper[ctx[u].w].life = "ctor"
      BY <1>1, <2>1, <3>1, CtorRefers DEF DispatchInv, RegistryInv
    <3> QED BY <1>1, <3>1, <3>2 DEF DispatchInv, ConstructionInv
  <2>2. CASE pc'[u] \notin CtorSteps
    BY <2>2 DEF CtorSteps, ConstructionInv
  <2> QED BY <2>1, <2>2
<1>4. ASSUME NEW u \in Actors PROVE OverrideInv(u)'
  BY <1>1, <1>2 DEF DispatchInv, OverrideInv, KnownSteps
<1>5. ASSUME NEW u \in Actors PROVE RootInv(u)'
  <2>1. CASE pc'[u] \in KnownSteps
    <3>1. \A a \in Addresses : a = ctx[u].h /\ pc'[u] = "Override" => Underway(a)'
      BY <1>1, <2>1 DEF Underway
    <3>2. \A a \in Addresses :
            a = ctx[u].h /\ pc'[u] = "Override" /\ native'[a].kind = "Root" =>
              Referring(a) \subseteq Referring(a)'
      BY <1>1, <2>1, <3>1
    <3> QED BY <1>1, <2>1, <3>2 DEF DispatchInv, RootInv
  <2>2. CASE pc'[u] \notin KnownSteps
    BY <2>2 DEF KnownSteps, RootInv
  <2> QED BY <2>1, <2>2
<1>6. SlotInv'
  BY <1>2 DEF DispatchInv, SlotInv
<1>7. RootEntryInv'
  <2>1. SUFFICES ASSUME NEW a \in Addresses, native'[a].kind = "Root", Dispatching(a)'
                 PROVE  registry'["Root"][a] \in Referring(a)'
    BY DEF RootEntryInv
  <2>2. native'[a] = native[a] /\ Referring(a) \subseteq Referring(a)'
    BY <2>1 DEF Underway
  <2>3. Dispatching(a)
    <3>1. CASE native'[a].slot
      BY <2>2, <3>1 DEF Dispatching
    <3>2. ASSUME NEW u \in Busy(a)', pc'[u] = "Callback" PROVE Dispatching(a)
      BY <1>1, <3>2 DEF Dispatching, Busy, KnownSteps
    <3> QED BY <2>1, <3>1, <3>2 DEF Dispatching
  <2> QED BY <2>1, <2>2, <2>3 DEF DispatchInv, RootEntryInv
<1> QED BY <1>3, <1>4, <1>5, <1>6, <1>7 DEF DispatchInv

\* The operations that begin with an object that exists already, and the calls that end.
LEMMA DispatchBegin ==
  ASSUME DispatchInv, RegistryInv', NEW t \in Actors,
         \/ \E w \in Wrappers :
              \/ Call(t, w)
              \/ BeginDispose(t, w) /\ UNCHANGED <<native, wrapper, registry, roots>>
         \/ \E a \in Addresses : NativeCall(t, a)
         \/ Return(t)
  PROVE  DispatchInv'
<1>1. /\ native' = native /\ wrapper' = wrapper /\ registry' = registry
      /\ pc[t] \in {"idle", "Return"}
  BY DEF Call, NativeCall, BeginDispose, Begin, Return
<1>a. PICK step \in {"Native", "Disconnect", "Finish", "idle"} : \E c :
        /\ pc' = [pc EXCEPT ![t] = step] /\ ctx' = [ctx EXCEPT ![t] = c]
        /\ step = "Finish" => c.w \in Wrappers /\ wrapper[c.w].handle = Null
  <2>1. CASE Return(t)
    BY <2>1 DEF Return, End, Goto
  <2>2. ASSUME NEW w \in Wrappers, BeginDispose(t, w)
        PROVE  \E step \in {"Native", "Disconnect", "Finish", "idle"} : \E c :
                 /\ pc' = [pc EXCEPT ![t] = step] /\ ctx' = [ctx EXCEPT ![t] = c]
                 /\ step = "Finish" => c.w \in Wrappers /\ wrapper[c.w].handle = Null
    <3> DEFINE h == wrapper[w].handle
               s == IF h = Null THEN "Finish" ELSE "Disconnect"
               c == [NoContext EXCEPT !.w = w, !.h = h, !.owned = wrapper[w].owned]
    <3>1. pc' = [pc EXCEPT ![t] = s] /\ ctx' = [ctx EXCEPT ![t] = c]
      BY <2>2 DEF BeginDispose, Begin, Goto
    <3>2. c.w = w
      BY DEF NoContext
    <3>3. s = "Finish" => h = Null
      OBVIOUS
    <3>4. s \in {"Native", "Disconnect", "Finish", "idle"}
      OBVIOUS
    <3> HIDE DEF c, s
    <3> QED BY <3>1, <3>2, <3>3, <3>4
  <2>3. CASE \/ \E w \in Wrappers : Call(t, w)
             \/ \E a \in Addresses : NativeCall(t, a)
    BY <2>3 DEF Call, NativeCall, Begin, Goto
  <2> QED BY <2>1, <2>2, <2>3
<1>2. PICK c :
        /\ pc' = [pc EXCEPT ![t] = step] /\ ctx' = [ctx EXCEPT ![t] = c]
        /\ step = "Finish" => c.w \in Wrappers /\ wrapper[c.w].handle = Null
  BY <1>a
<1>3. /\ pc'[t] = step /\ ctx'[t] = c
      /\ \A u \in Actors : u # t => pc'[u] = pc[u] /\ ctx'[u] = ctx[u]
  BY <1>2 DEF DispatchInv, RegistryInv, IInv, TypeInv, TypeOK
<1>4. \A u \in Actors : pc'[u] \in KnownSteps => pc'[u] = pc[u] /\ ctx'[u] = ctx[u]
  BY <1>3 DEF KnownSteps
<1>5. \A w : Disposing(w) => Disposing(w)'
  BY <1>1, <1>3 DEF Disposing, DisposeSteps
<1>6. \A a \in Addresses : Referring(a) \subseteq Referring(a)'
  BY <1>1, <1>2, <1>3, NullAssumption DEF Referring, Finishing
<1> QED BY <1>1, <1>4, <1>5, <1>6, DispatchQuiet

\* Dispose destroys an object that it owns; a borrowed one has lost its callbacks.
LEMMA DispatchDestroy ==
  ASSUME DispatchInv, RegistryInv', NEW t \in Actors, Destroy(t)
  PROVE  DispatchInv'
<1> DEFINE h == ctx[t].h
<1>1. /\ pc[t] = "Destroy" /\ pc' = [pc EXCEPT ![t] = "Finish"]
      /\ wrapper' = wrapper /\ registry' = registry /\ ctx' = ctx
      /\ native' = IF EmitsDestroy /\ ctx[t].owned
                   THEN [native EXCEPT ![h] = Freed] ELSE native
  BY DEF Destroy, DisposeOrder, Goto
<1>2. /\ pc'[t] = "Finish"
      /\ \A u \in Actors : u # t => pc'[u] = pc[u]
  BY <1>1 DEF DispatchInv, RegistryInv, IInv, TypeInv, TypeOK
<1>3. h \in Addresses /\ t \in Busy(h)
  BY <1>1, BusyRefers DEF DispatchInv, RegistryInv
<1>4. \A u \in Actors : pc'[u] \in KnownSteps => pc'[u] = pc[u] /\ ctx'[u] = ctx[u]
  BY <1>1, <1>2 DEF KnownSteps
<1>5. \A w : Disposing(w) => Disposing(w)'
  BY <1>1, <1>2 DEF Disposing, DisposeSteps
<1>6. \A a \in Addresses : native'[a].kind # "free" => native'[a] = native[a]
  BY <1>1, <1>3 DEF Freed, DispatchInv, RegistryInv, IInv, TypeInv, TypeOK
<1>7. ASSUME NEW a \in Addresses, native'[a].kind = "Root", Underway(a)'
      PROVE  Referring(a) \subseteq Referring(a)'
  <2>1. CASE a # h
    <3>1. \A w : Finishing(w)' => Finishing(w) \/ w = ctx[t].w
      BY <1>1, <1>2 DEF Finishing
    <3>2. wrapper[ctx[t].w].handle = h
      BY <1>1 DEF DispatchInv, RegistryInv, IInv, SafeInv, ContextInv, OpInv, DisposeSteps
    <3> QED BY <1>1, <2>1, <3>1, <3>2 DEF Referring
  <2>2. CASE a = h
    <3>1. native'[a] = native[a] /\ ~native[a].slot
      BY <1>1, <1>3, <1>6, <1>7, <2>2 DEF DispatchInv, RootInv
    <3>2. Busy(a) = {t}
      BY <1>1, <1>3, <2>2 DEF DispatchInv, RegistryInv, IInv, SafeInv, BusyInv, DisposeSteps
    <3>3. Busy(a)' = {}
      BY <1>1, <1>2, <3>2 DEF Busy
    <3> QED BY <1>7, <3>1, <3>3 DEF Underway, Dispatching
  <2> QED BY <2>1, <2>2
<1> QED BY <1>1, <1>4, <1>5, <1>6, <1>7, DispatchQuiet

\* The last step of Dispose: the wrapper had left its object.
LEMMA DispatchFinish ==
  ASSUME DispatchInv, RegistryInv', NEW t \in Actors, Finish(t)
  PROVE  DispatchInv'
<1> DEFINE w == ctx[t].w
           l == IF t = Finalizer THEN "dead" ELSE "disposed"
<1>1. /\ pc[t] = "Finish" /\ pc' = [pc EXCEPT ![t] = "idle"]
      /\ ctx' = [ctx EXCEPT ![t] = NoContext]
      /\ wrapper' = [wrapper EXCEPT ![w].handle = Null, ![w].owned = FALSE, ![w].life = l]
      /\ native' = native /\ registry' = registry
  BY DEF Finish, End, Goto
<1>2. /\ TypeInv /\ w \in Wrappers /\ l \in {"dead", "disposed"} /\ Finishing(w)
      /\ wrapper[w].life # "ctor"
  BY <1>1 DEF DispatchInv, RegistryInv, IInv, TypeInv, StepInv, ActorInv, DisposeSteps, Finishing
<1> HIDE DEF l
<1>3. /\ pc'[t] = "idle"
      /\ \A u \in Actors : u # t => pc'[u] = pc[u] /\ ctx'[u] = ctx[u]
  BY <1>1, <1>2 DEF TypeInv, TypeOK
<1>4. /\ \A v \in Wrappers : v # w => wrapper'[v] = wrapper[v]
      /\ wrapper'[w].life = l
  BY ONLY <1>1, <1>2 DEF TypeInv, TypeOK, Wrapper
<1>5. \A u \in Actors : pc'[u] \in KnownSteps => pc'[u] = pc[u] /\ ctx'[u] = ctx[u]
  BY <1>3 DEF KnownSteps
<1>6. \A v : v # w => (Disposing(v) => Disposing(v)') /\ (Finishing(v)' => Finishing(v))
  BY <1>1, <1>3 DEF Disposing, Finishing, DisposeSteps
<1>7. \A a \in Addresses : Referring(a) \subseteq Referring(a)'
  BY <1>2, <1>4, <1>6 DEF Referring
<1>8. \A v \in Wrappers : wrapper'[v].life = "live" /\ ~Disposing(v)' =>
        /\ wrapper[v].life = "live" /\ ~Disposing(v)
        /\ wrapper'[v].handle = wrapper[v].handle
        /\ wrapper'[v].cls = wrapper[v].cls /\ wrapper'[v].mask = wrapper[v].mask
  BY <1>2, <1>4, <1>6
<1>9. \A v \in Wrappers : wrapper[v].life = "ctor" => wrapper'[v] = wrapper[v]
  BY <1>2, <1>4
<1> QED BY <1>1, <1>5, <1>7, <1>8, <1>9, DispatchQuiet

\* The handles stay, no wrapper comes to life, and those that live keep their class.
WrappersKept ==
  \A v \in Wrappers :
    /\ wrapper'[v].handle = wrapper[v].handle
    /\ wrapper[v].life = "ctor" => wrapper'[v] = wrapper[v]
    /\ wrapper'[v].life = "live" =>
         /\ wrapper[v].life = "live"
         /\ wrapper'[v].cls = wrapper[v].cls /\ wrapper'[v].mask = wrapper[v].mask

\* What the program, the runtime and native code do between operations.
LEMMA DispatchOutside ==
  ASSUME DispatchInv, RegistryInv',
         \/ \E t \in Actors, w \in Wrappers, c \in Class : NewThrows(t, w, c)
         \/ \E t \in Actors, w \in Wrappers, owned \in BOOLEAN : SetOwnership(t, w, owned)
         \/ \E w \in Wrappers : Drop(w) \/ Collect(w)
         \/ \E a \in Addresses : NativeDelete(a)
  PROVE  DispatchInv'
<1>1. TypeInv
  BY DEF DispatchInv, RegistryInv, IInv
<1>2. registry' = registry /\ pc' = pc /\ ctx' = ctx
  BY DEF NewThrows, SetOwnership, Drop, Collect, NativeDelete
<1>3. \A a \in Addresses : native'[a].kind # "free" => native'[a] = native[a]
  <2>1. native' = native \/ \E b \in Addresses : native' = [native EXCEPT ![b] = Freed]
    BY DEF NewThrows, SetOwnership, Drop, Collect, NativeDelete
  <2>2. native \in [Addresses -> Native] /\ Freed.kind = "free"
    BY <1>1 DEF TypeInv, TypeOK, Freed
  <2> QED BY ONLY <2>1, <2>2
<1>4. WrappersKept
  <2>1. wrapper \in [Wrappers -> Wrapper]
    BY <1>1 DEF TypeInv, TypeOK
  <2>2. CASE wrapper' = wrapper
    BY <2>2 DEF WrappersKept
  <2>3. ASSUME NEW w \in Wrappers, NEW c, wrapper[w].life = "none",
               wrapper' = [wrapper EXCEPT ![w].life = "unreachable", ![w].cls = c]
        PROVE  WrappersKept
    BY ONLY <2>1, <2>3 DEF Wrapper, WrappersKept
  <2>4. ASSUME NEW w \in Wrappers, NEW o, wrapper[w].life = "live",
               wrapper' = [wrapper EXCEPT ![w].owned = o]
        PROVE  WrappersKept
    BY ONLY <2>1, <2>4 DEF Wrapper, WrappersKept
  <2>5. ASSUME NEW w \in Wrappers, NEW l \in {"unreachable", "dead"}, wrapper[w].life # "ctor",
               wrapper' = [wrapper EXCEPT ![w].life = l]
        PROVE  WrappersKept
    BY ONLY <2>1, <2>5 DEF Wrapper, WrappersKept
  <2>6. CASE \E t \in Actors, w \in Wrappers, c \in Class : NewThrows(t, w, c)
    BY ONLY <2>3, <2>6 DEF NewThrows
  <2>7. CASE \E t \in Actors, w \in Wrappers, owned \in BOOLEAN : SetOwnership(t, w, owned)
    BY <2>2, <2>4, <2>7 DEF SetOwnership, Usable
  <2>8. CASE \E w \in Wrappers : Collect(w)
    BY ONLY <2>5, <2>8 DEF Collect
  <2> QED BY <2>2, <2>6, <2>7, <2>8 DEF Drop, NativeDelete
<1>5. \A v : (Finishing(v)' <=> Finishing(v)) /\ (Disposing(v)' <=> Disposing(v))
  BY <1>2 DEF Finishing, Disposing
<1>6. \A a \in Addresses : Referring(a) \subseteq Referring(a)'
  BY <1>4, <1>5 DEF Referring, WrappersKept
<1> QED BY <1>2, <1>3, <1>4, <1>5, <1>6, DispatchQuiet DEF WrappersKept

-----------------------------------------------------------------------------
\* A wrapper that is made: of a new object without callbacks, or a second one of an
\* object whose constructors have all ended.
LEMMA DispatchMade ==
  ASSUME DispatchInv, RegistryInv', NEW t \in Actors, NEW w \in Wrappers, NEW a \in Addresses,
         NEW step \in {"Register", "BaseRegister"}, NEW r, NEW n,
         wrapper[w].life = "none", r.life = "ctor", r.handle = a,
         native' = [native EXCEPT ![a] = n], wrapper' = [wrapper EXCEPT ![w] = r],
         registry' = registry, Begin(t, step, w, a, FALSE),
         step = "Register" => n.kind = r.cls /\ r.owned /\ ~n.aliased,
         step = "BaseRegister" => ~r.mask,
         \/ native[a].kind = "free" /\ ~n.slot
         \/ /\ n.aliased /\ n.kind = native[a].kind /\ n.slot = native[a].slot
            /\ \A v \in Referring(a) : wrapper[v].owned => v \in roots
  PROVE  DispatchInv'
<1>1. /\ wrapper'[w] = r
      /\ \A v \in Wrappers : v # w => wrapper'[v] = wrapper[v]
      /\ native'[a] = n
      /\ \A b \in Addresses : b # a => native'[b] = native[b]
  BY DEF DispatchInv, RegistryInv, IInv, TypeInv, TypeOK
<1>2. Begun(t, step, w, a, FALSE)
  <2>1. step \in CtorSteps \cup CallSteps \cup DisposeSteps /\ step # "Finish"
    BY DEF CtorSteps
  <2> QED BY <2>1, BeginFrame DEF DispatchInv, RegistryInv, IInv
<1>3. \A b \in Addresses : Referring(b) \subseteq Referring(b)'
  <2>1. wrapper[w].handle = Null
    BY DEF DispatchInv, RegistryInv, IInv, SafeInv, LifeInv
  <2> QED BY <1>1, <1>2, <2>1, NullAssumption DEF Referring, Begun
<1>4. native[a].kind = "free" => Referring(a) = {} /\ Busy(a) = {}
  BY DEF DispatchInv, RegistryInv, IInv, SafeInv, AliveInv
<1>5. ASSUME NEW u \in Actors, pc'[u] \in KnownSteps, u # t
      PROVE  /\ pc'[u] = pc[u] /\ ctx'[u] = ctx[u] /\ ctx[u].h \in Addresses
             /\ u \in Busy(ctx[u].h)
             /\ native'[ctx[u].h].kind = native[ctx[u].h].kind
             /\ native'[ctx[u].h].slot = native[ctx[u].h].slot
  <2>1. pc'[u] = pc[u] /\ ctx'[u] = ctx[u]
    BY <1>2, <1>5 DEF Begun
  <2>2. ctx[u].h \in Addresses /\ u \in Busy(ctx[u].h)
    BY <1>5, <2>1, BusyRefers DEF DispatchInv, RegistryInv, KnownSteps
  <2>3. CASE ctx[u].h = a
    BY <1>1, <1>4, <2>1, <2>2, <2>3
  <2>4. CASE ctx[u].h # a
    BY <1>1, <2>1, <2>2, <2>4
  <2> QED BY <2>1, <2>2, <2>3, <2>4
<1>6. ASSUME NEW v \in Wrappers, Overriding(v)'
      PROVE  /\ Overriding(v) /\ wrapper'[v] = wrapper[v]
             /\ native'[wrapper[v].handle] = native[wrapper[v].handle]
  <2>1. v # w /\ wrapper'[v] = wrapper[v] /\ wrapper[v].life = "live"
    BY <1>1, <1>6 DEF Overriding
  <2>2. ~Disposing(v)
    BY <1>2, <1>6 DEF Overriding, Disposing, Begun, DisposeSteps
  <2>3. wrapper[v].handle \in Addresses /\ v \in Referring(wrapper[v].handle)
    BY <2>1, <2>2, LiveRefers DEF DispatchInv, RegistryInv
  <2>4. wrapper[v].handle # a
    BY <1>1, <1>4, <1>6, <2>1, <2>3 DEF Overriding
  <2> QED BY <1>1, <1>6, <2>1, <2>2, <2>3, <2>4 DEF Overriding
<1>7. ASSUME NEW u \in Actors PROVE ConstructionInv(u)'
  <2>1. CASE u = t
    BY <1>1, <1>2, <2>1 DEF ConstructionInv, Begun
  <2>2. CASE u # t /\ pc'[u] \in CtorSteps
    <3>1. /\ pc'[u] = pc[u] /\ ctx'[u] = ctx[u] /\ pc'[u] \in KnownSteps
      BY <1>2, <2>2 DEF Begun, CtorSteps, KnownSteps
    <3>2. /\ ctx[u].w \in Wrappers /\ ctx[u].h \in Addresses
          /\ wrapper[ctx[u].w].life = "ctor" /\ ctx[u].w \in Referring(ctx[u].h)
      BY <2>2, <3>1, CtorRefers DEF DispatchInv, RegistryInv
    <3>3. wrapper'[ctx[u].w] = wrapper[ctx[u].w] /\ ctx[u].w \notin roots
      BY <1>1, <3>2 DEF DispatchInv, RegistryInv, IInv, SafeInv, LifeInv
    <3>4. CASE ctx[u].h # a
      BY <1>1, <3>1, <3>2, <3>3, <3>4 DEF DispatchInv, ConstructionInv
    <3>5. CASE ctx[u].h = a
      <4>1. ~wrapper[ctx[u].w].owned
        BY <1>4, <3>2, <3>3, <3>5
      <4> QED BY <3>1, <3>3, <4>1 DEF DispatchInv, ConstructionInv
    <3> QED BY <3>4, <3>5
  <2>3. CASE pc'[u] \notin CtorSteps
    BY <2>3 DEF CtorSteps, ConstructionInv
  <2> QED BY <2>1, <2>2, <2>3
<1>8. ASSUME NEW u \in Actors PROVE OverrideInv(u)'
  <2>1. CASE u = t
    BY <1>2, <2>1 DEF OverrideInv, Begun
  <2>2. CASE u # t
    BY <1>5, <1>6, <2>2 DEF DispatchInv, OverrideInv, KnownSteps
  <2> QED BY <2>1, <2>2
<1>9. ASSUME NEW u \in Actors PROVE RootInv(u)'
  <2>1. CASE u = t
    BY <1>2, <2>1 DEF RootInv, Begun
  <2>2. CASE u # t
    <3>1. CASE pc'[u] \in KnownSteps
      <4>1. RootInv(u)
        BY DEF DispatchInv
      <4> QED BY <1>3, <1>5, <2>2, <3>1, <4>1 DEF RootInv
    <3>2. CASE pc'[u] \notin KnownSteps
      BY <3>2 DEF RootInv, KnownSteps
    <3> QED BY <3>1, <3>2
  <2> QED BY <2>1, <2>2
<1>10. SlotInv'
  BY <1>6 DEF DispatchInv, SlotInv
<1>11. RootEntryInv'
  <2>1. SUFFICES ASSUME NEW b \in Addresses, native'[b].kind = "Root", Dispatching(b)'
                 PROVE  registry'["Root"][b] \in Referring(b)'
    BY DEF RootEntryInv
  <2>2. ASSUME NEW u \in Busy(b)', pc'[u] = "Callback" PROVE u \in Busy(b) /\ pc[u] = "Callback"
    BY <1>2, <2>2 DEF Begun, Busy
  <2>3. native[b].kind = "Root" /\ Dispatching(b)
    <3>1. CASE b # a
      BY <1>1, <2>1, <2>2, <3>1 DEF Dispatching
    <3>2. CASE b = a /\ native[a].kind # "free"
      BY <1>1, <2>1, <2>2, <3>2 DEF Dispatching
    <3>3. CASE b = a /\ native[a].kind = "free"
      BY <1>1, <1>4, <2>1, <2>2, <3>3 DEF Dispatching, DispatchInv, RegistryInv, IInv, TypeInv, TypeOK, Class
    <3> QED BY <3>1, <3>2, <3>3
  <2> QED BY <1>3, <2>1, <2>3 DEF DispatchInv, RootEntryInv
<1> QED BY <1>7, <1>8, <1>9, <1>10, <1>11 DEF DispatchInv

\* The constructors begin.
LEMMA DispatchNew ==
  ASSUME RulesKept, DispatchInv, RegistryInv',
         NEW t \in Actors, NEW w \in Wrappers, NEW a \in Addresses,
         \/ \E c \in Class, overrides \in BOOLEAN : New(t, w, c, a, overrides)
         \/ \E c \in Class : WrapBorrowed(t, w, c, a)
         \/ WrapOwned(t, w, a)
  PROVE  DispatchInv'
<1>1. ASSUME NEW c \in Class, NEW overrides \in BOOLEAN, New(t, w, c, a, overrides)
      PROVE  DispatchInv'
  <2> DEFINE r == [life |-> "ctor", cls |-> c, handle |-> a, owned |-> TRUE, mask |-> overrides]
             n == [Freed EXCEPT !.kind = c]
  <2>1. /\ wrapper[w].life = "none" /\ native[a].kind = "free"
        /\ native' = [native EXCEPT ![a] = n] /\ wrapper' = [wrapper EXCEPT ![w] = r]
        /\ registry' = registry /\ Begin(t, "Register", w, a, FALSE)
    BY <1>1 DEF New
  <2>2. r.life = "ctor" /\ r.handle = a /\ r.cls = c /\ r.owned
    OBVIOUS
  <2>3. n.kind = c /\ ~n.slot /\ ~n.aliased
    BY DEF Freed
  <2> HIDE DEF r, n
  <2> QED BY ONLY DispatchInv, RegistryInv', t \in Actors, w \in Wrappers, a \in Addresses,
                  <2>1, <2>2, <2>3, DispatchMade
<1>2. CASE WrapOwned(t, w, a)
  <2> DEFINE r == [life |-> "ctor", cls |-> "Root", handle |-> a, owned |-> TRUE, mask |-> FALSE]
             n == [Freed EXCEPT !.kind = "Plain"]
  <2>1. /\ wrapper[w].life = "none" /\ native[a].kind = "free"
        /\ native' = [native EXCEPT ![a] = n] /\ wrapper' = [wrapper EXCEPT ![w] = r]
        /\ registry' = registry /\ Begin(t, "BaseRegister", w, a, FALSE)
    BY <1>2 DEF WrapOwned
  <2>2. r.life = "ctor" /\ r.handle = a /\ ~r.mask
    OBVIOUS
  <2>3. ~n.slot
    BY DEF Freed
  <2> HIDE DEF r, n
  <2> QED BY ONLY DispatchInv, RegistryInv', t \in Actors, w \in Wrappers, a \in Addresses,
                  <2>1, <2>2, <2>3, DispatchMade
<1>3. ASSUME NEW c \in Class, WrapBorrowed(t, w, c, a)
      PROVE  DispatchInv'
  <2> DEFINE r == [life |-> "ctor", cls |-> c, handle |-> a, owned |-> FALSE, mask |-> FALSE]
             n == [native[a] EXCEPT !.aliased = TRUE]
  <2>1. /\ wrapper[w].life = "none"
        /\ \A v \in Referring(a) : wrapper[v].owned => v \in roots
        /\ native' = [native EXCEPT ![a] = n] /\ wrapper' = [wrapper EXCEPT ![w] = r]
        /\ registry' = registry /\ Begin(t, "BaseRegister", w, a, FALSE)
    BY <1>3 DEF WrapBorrowed, RulesKept, Obeys
  <2>2. r.life = "ctor" /\ r.handle = a /\ ~r.mask
    OBVIOUS
  <2>3. n.aliased /\ n.kind = native[a].kind /\ n.slot = native[a].slot
    BY DEF DispatchInv, RegistryInv, IInv, TypeInv, TypeOK, Native
  <2> HIDE DEF r, n
  <2> QED BY ONLY DispatchInv, RegistryInv', t \in Actors, w \in Wrappers, a \in Addresses,
                  <2>1, <2>2, <2>3, DispatchMade
<1> QED BY <1>1, <1>2, <1>3

-----------------------------------------------------------------------------
\* What a step of a constructor does: it writes its own wrapper to the cache, or
\* connects the callbacks of its object, and may bring its wrapper to life.
CtorStepEffect(t) ==
  LET w == ctx[t].w
      h == ctx[t].h
  IN  /\ \A u \in Actors : u # t => pc'[u] = pc[u] /\ ctx'[u] = ctx[u]
      /\ pc'[t] \in {"Connect", "BaseConnect", "DerivedRegister", "idle"}
      /\ pc'[t] # "idle" => wrapper' = wrapper /\ ctx'[t] = ctx[t]
      /\ pc'[t] = "Connect" => pc[t] = "Register"
      /\ pc'[t] \in {"BaseConnect", "DerivedRegister"} => pc[t] \in {"BaseRegister", "BaseConnect"}
      /\ \A v \in Wrappers :
           /\ wrapper'[v].handle = wrapper[v].handle /\ wrapper'[v].cls = wrapper[v].cls
           /\ wrapper'[v].owned = wrapper[v].owned /\ wrapper'[v].mask = wrapper[v].mask
           /\ v # w => wrapper'[v].life = wrapper[v].life
      /\ \A a \in Addresses :
           /\ native'[a].kind = native[a].kind /\ native'[a].aliased = native[a].aliased
           /\ a # h => native'[a].slot = native[a].slot
           /\ registry'["Root"][a] = registry["Root"][a] \/ (a = h /\ registry'["Root"][a] = w)
      /\ native'[h].slot => native[h].slot \/ pc[t] = "Connect"
      /\ wrapper'[w].life = "live" /\ wrapper[w].mask =>
           /\ pc[t] = "Connect"
           /\ native'[h].slot /\ native'[h].kind = wrapper[w].cls

LEMMA CtorStepFacts ==
  ASSUME DispatchInv, NEW t \in Actors, CtorStep(t)
  PROVE  pc[t] \in CtorSteps /\ CtorStepEffect(t)
<1> DEFINE w == ctx[t].w
           h == ctx[t].h
           Lives == /\ \A v \in Wrappers :
                         /\ wrapper'[v].handle = wrapper[v].handle
                         /\ wrapper'[v].cls = wrapper[v].cls
                         /\ wrapper'[v].owned = wrapper[v].owned
                         /\ wrapper'[v].mask = wrapper[v].mask
                         /\ v # w => wrapper'[v].life = wrapper[v].life
                    /\ pc'[t] = "idle"
                    /\ \A u \in Actors : u # t => pc'[u] = pc[u] /\ ctx'[u] = ctx[u]
           Slots == /\ \A a \in Addresses :
                         /\ native'[a].kind = native[a].kind
                         /\ native'[a].aliased = native[a].aliased
                         /\ a # h => native'[a].slot = native[a].slot
                    /\ native'[h].slot => native[h].slot \/ pc[t] = "Connect"
<1>1. pc[t] \in CtorSteps
  BY DEF CtorStep, Register, Connect, BaseRegister, BaseConnect, DerivedRegister, CtorSteps
<1>2. /\ h \in Addresses /\ w \in Wrappers /\ wrapper[w].life = "ctor"
      /\ wrapper[w].cls \in Class
  BY <1>1, CtorRefers DEF DispatchInv, RegistryInv, IInv, TypeInv, TypeOK, Wrapper
<1>3. TypeInv /\ ConstructionInv(t)
  BY DEF DispatchInv, RegistryInv, IInv
<1>4. /\ pc \in [Actors -> {"idle"} \cup CtorSteps \cup CallSteps \cup DisposeSteps]
      /\ ctx \in [Actors -> Context] /\ wrapper \in [Wrappers -> Wrapper]
      /\ native \in [Addresses -> Native]
      /\ registry \in [Class -> [Addresses -> Wrappers \cup {Null}]]
  BY <1>3 DEF TypeInv, TypeOK
<1>5. ASSUME NEW c \in Class, registry' = [registry EXCEPT ![c][h] = w]
      PROVE  \A a \in Addresses :
               registry'["Root"][a] = registry["Root"][a] \/ (a = h /\ registry'["Root"][a] = w)
  BY ONLY <1>2, <1>4, <1>5 DEF Class
<1>6. ASSUME wrapper' = [wrapper EXCEPT ![w].life = "live"]
      PROVE  \A v \in Wrappers :
               /\ wrapper'[v].handle = wrapper[v].handle /\ wrapper'[v].cls = wrapper[v].cls
               /\ wrapper'[v].owned = wrapper[v].owned /\ wrapper'[v].mask = wrapper[v].mask
               /\ v # w => wrapper'[v].life = wrapper[v].life
  BY ONLY <1>2, <1>4, <1>6 DEF Wrapper
<1>7. ASSUME NEW c, NEW step, pc' = [pc EXCEPT ![t] = step], ctx' = [ctx EXCEPT ![t] = c]
      PROVE  /\ pc'[t] = step /\ ctx'[t] = c
             /\ \A u \in Actors : u # t => pc'[u] = pc[u] /\ ctx'[u] = ctx[u]
  BY ONLY <1>4, <1>7, t \in Actors
<1>8. ASSUME NEW c \in Class, NEW mask \in BOOLEAN, ConnectDirector(c, h, mask)
      PROVE  /\ \A a \in Addresses :
                  /\ native'[a].kind = native[a].kind /\ native'[a].aliased = native[a].aliased
                  /\ a # h => native'[a].slot = native[a].slot
             /\ native'[h].slot => native[h].slot \/ mask
             /\ native[h].kind = c => native'[h].slot = mask
  BY ONLY <1>2, <1>4, <1>8 DEF ConnectDirector, Native
<1>9. CASE Register(t)
  <2>1. /\ pc[t] = "Register" /\ pc' = [pc EXCEPT ![t] = "Connect"]
        /\ registry' = [registry EXCEPT ![wrapper[w].cls][h] = w]
        /\ native' = native /\ wrapper' = wrapper /\ ctx' = ctx
    BY <1>9 DEF Register, Goto
  <2>2. pc'[t] = "Connect" /\ \A u \in Actors : u # t => pc'[u] = pc[u]
    BY <1>4, <2>1
  <2> QED BY <1>1, <1>2, <1>5, <2>1, <2>2 DEF CtorStepEffect
<1>10. CASE BaseRegister(t)
  <2>1. /\ pc[t] = "BaseRegister" /\ pc' = [pc EXCEPT ![t] = "BaseConnect"]
        /\ registry' = [registry EXCEPT !["Root"][h] = w]
        /\ native' = native /\ wrapper' = wrapper /\ ctx' = ctx
    BY <1>10 DEF BaseRegister, Goto
  <2>2. pc'[t] = "BaseConnect" /\ \A u \in Actors : u # t => pc'[u] = pc[u]
    BY <1>4, <2>1
  <2>3. "Root" \in Class
    BY DEF Class
  <2> QED BY <1>1, <1>2, <1>5, <2>1, <2>2, <2>3 DEF CtorStepEffect
<1>11. CASE Connect(t)
  <2>1. /\ pc[t] = "Connect" /\ ConnectDirector(wrapper[w].cls, h, wrapper[w].mask)
        /\ wrapper' = [wrapper EXCEPT ![w].life = "live"] /\ registry' = registry
        /\ pc' = [pc EXCEPT ![t] = "idle"] /\ ctx' = [ctx EXCEPT ![t] = NoContext]
    BY <1>11 DEF Connect, End, Goto
  <2>2. wrapper[w].mask \in BOOLEAN
    BY <1>2, <1>4 DEF Wrapper
  <2>3. native[h].kind = wrapper[w].cls
    BY <1>3, <2>1 DEF ConstructionInv
  <2>4. Lives
    BY <1>6, <1>7, <2>1 DEF Lives
  <2>5. /\ Slots
        /\ native'[h].slot = wrapper[w].mask /\ native'[h].kind = wrapper[w].cls
    BY <1>2, <1>8, <2>1, <2>2, <2>3 DEF Slots
  <2> QED BY <1>1, <2>1, <2>4, <2>5 DEF CtorStepEffect, Lives, Slots
<1>12. CASE BaseConnect(t)
  <2>1. pc[t] = "BaseConnect" /\ ConnectDirector("Root", h, FALSE) /\ registry' = registry
    BY <1>12 DEF BaseConnect
  <2>2. ~wrapper[w].mask /\ "Root" \in Class
    BY <1>3, <2>1 DEF ConstructionInv, Class
  <2>3. CASE wrapper[w].cls = "Derived"
    <3>1. pc' = [pc EXCEPT ![t] = "DerivedRegister"] /\ wrapper' = wrapper /\ ctx' = ctx
      BY <1>12, <2>3 DEF BaseConnect, Goto
    <3>2. pc'[t] = "DerivedRegister" /\ \A u \in Actors : u # t => pc'[u] = pc[u]
      BY <1>4, <3>1
    <3> QED BY <1>1, <1>2, <1>8, <2>1, <2>2, <3>1, <3>2 DEF CtorStepEffect
  <2>4. CASE wrapper[w].cls # "Derived"
    <3>1. /\ pc' = [pc EXCEPT ![t] = "idle"] /\ ctx' = [ctx EXCEPT ![t] = NoContext]
          /\ wrapper' = [wrapper EXCEPT ![w].life = "live"]
      BY <1>12, <2>4 DEF BaseConnect, End, Goto
    <3>2. Lives
      BY <1>6, <1>7, <3>1 DEF Lives
    <3>3. Slots
      BY <1>8, <2>1, <2>2 DEF Slots
    <3> QED BY <1>1, <2>1, <2>2, <3>2, <3>3 DEF CtorStepEffect, Lives, Slots
  <2> QED BY <2>3, <2>4
<1>13. CASE DerivedRegister(t)
  <2>1. /\ pc[t] = "DerivedRegister" /\ native' = native
        /\ registry' = [registry EXCEPT !["Derived"][h] = w]
        /\ wrapper' = [wrapper EXCEPT ![w].life = "live"]
        /\ pc' = [pc EXCEPT ![t] = "idle"] /\ ctx' = [ctx EXCEPT ![t] = NoContext]
    BY <1>13 DEF DerivedRegister, End, Goto
  <2>2. ~wrapper[w].mask /\ "Derived" \in Class
    BY <1>3, <2>1 DEF ConstructionInv, Class
  <2>3. Lives
    BY <1>6, <1>7, <2>1 DEF Lives
  <2>4. \A a \in Addresses :
          registry'["Root"][a] = registry["Root"][a] \/ (a = h /\ registry'["Root"][a] = w)
    BY <1>5, <2>1, <2>2
  <2> QED BY <1>1, <2>1, <2>2, <2>3, <2>4 DEF CtorStepEffect, Lives
<1> QED BY <1>9, <1>10, <1>11, <1>12, <1>13 DEF CtorStep

\* The steps of the constructors.  The one that connects the callbacks of an object
\* meets no native call on it.
LEMMA DispatchCtorStep ==
  ASSUME DispatchInv, RegistryInv', NEW t \in Actors, CtorStep(t)
  PROVE  DispatchInv'
<1> DEFINE w == ctx[t].w
           h == ctx[t].h
<1>1. pc[t] \in CtorSteps /\ CtorStepEffect(t)
  BY CtorStepFacts
<1>2. /\ h \in Addresses /\ w \in Wrappers /\ wrapper[w].life = "ctor"
      /\ wrapper[w].handle = h /\ w \in Referring(h) /\ t \in Busy(h)
  BY <1>1, CtorRefers DEF DispatchInv, RegistryInv
<1>3. \A u \in Actors : u # t => pc'[u] = pc[u] /\ ctx'[u] = ctx[u]
  BY <1>1 DEF CtorStepEffect
<1>4. pc'[t] \in {"Connect", "BaseConnect", "DerivedRegister", "idle"}
  BY <1>1 DEF CtorStepEffect
<1>5. \A v \in Wrappers :
        /\ wrapper'[v].handle = wrapper[v].handle /\ wrapper'[v].cls = wrapper[v].cls
        /\ wrapper'[v].owned = wrapper[v].owned /\ wrapper'[v].mask = wrapper[v].mask
        /\ v # w => wrapper'[v].life = wrapper[v].life
  BY <1>1 DEF CtorStepEffect
<1>6. \A a \in Addresses :
        /\ native'[a].kind = native[a].kind /\ native'[a].aliased = native[a].aliased
        /\ a # h => native'[a].slot = native[a].slot
  BY <1>1 DEF CtorStepEffect
<1>7. \A v : (Disposing(v)' <=> Disposing(v)) /\ (Finishing(v)' <=> Finishing(v))
  BY <1>1, <1>3, <1>4 DEF Disposing, Finishing, CtorSteps, DisposeSteps
<1>8. \A a \in Addresses : Referring(a)' = Referring(a)
  BY <1>5, <1>7 DEF Referring
<1>9. ASSUME NEW v \in Wrappers, Overriding(v)'
      PROVE  \/ /\ Overriding(v) /\ wrapper[v].handle \in Addresses
                /\ wrapper[v].handle # h
             \/ /\ v = w /\ pc[t] = "Connect" /\ ~native[h].aliased
                /\ native'[h].slot /\ native'[h].kind = wrapper[w].cls
  <2>1. CASE v = w
    <3>1. wrapper'[w].life = "live" /\ wrapper[w].mask /\ ~native[h].aliased
      BY <1>2, <1>5, <1>6, <1>9, <2>1 DEF Overriding
    <3> QED BY <1>1, <2>1, <3>1 DEF CtorStepEffect
  <2>2. CASE v # w
    <3>1. wrapper[v].life = "live" /\ wrapper[v].mask /\ ~Disposing(v)
      BY <1>5, <1>7, <1>9, <2>2 DEF Overriding
    <3>2. wrapper[v].handle \in Addresses /\ v \in Referring(wrapper[v].handle)
      BY <3>1, LiveRefers DEF DispatchInv, RegistryInv
    <3>3. ~native[wrapper[v].handle].aliased
      BY <1>5, <1>6, <1>9, <3>2 DEF Overriding
    <3>4. wrapper[v].handle # h
      BY <1>2, <2>2, <3>2, <3>3 DEF DispatchInv, RegistryInv, AliasInv
    <3> QED BY <3>1, <3>2, <3>3, <3>4 DEF Overriding
  <2> QED BY <2>1, <2>2
<1>10. ASSUME pc[t] = "Connect", NEW u \in Actors, u # t, pc[u] \in CallSteps, ctx[u].h = h
       PROVE  FALSE
  <2>1. u \in Busy(h)
    BY <1>10 DEF Busy, CallSteps
  <2>2. wrapper[w].owned /\ ~native[h].aliased
    BY <1>10 DEF DispatchInv, ConstructionInv
  <2>3. ctx[u].w # Null
    BY <1>2, <2>1, <2>2 DEF DispatchInv, RegistryInv, IInv, SafeInv, BusyInv, Unowned
  <2>4. ctx[u].w \in Referring(h)
    BY <1>2, <2>1, <2>3 DEF DispatchInv, RegistryInv, IInv, SafeInv, BusyInv
  <2>5. ctx[u].w = w
    BY <1>2, <2>2, <2>4 DEF DispatchInv, RegistryInv, AliasInv
  <2>6. wrapper[w].life = "live"
    BY <1>10, <2>3, <2>5 DEF DispatchInv, RegistryInv, IInv, SafeInv, ContextInv, OpInv
  <2> QED BY <1>2, <2>6
<1>11. ASSUME NEW u \in Actors PROVE ConstructionInv(u)'
  <2>1. CASE u = t
    <3>1. ConstructionInv(t)
      BY DEF DispatchInv
    <3>2. pc'[t] = "idle" \/ (wrapper' = wrapper /\ ctx'[t] = ctx[t])
      BY <1>1 DEF CtorStepEffect
    <3>3. /\ pc'[t] = "Connect" => pc[t] = "Register"
          /\ pc'[t] \in {"BaseConnect", "DerivedRegister"} =>
               pc[t] \in {"BaseRegister", "BaseConnect"}
      BY <1>1 DEF CtorStepEffect
    <3> QED BY <1>2, <1>4, <1>6, <2>1, <3>1, <3>2, <3>3 DEF ConstructionInv
  <2>2. CASE u # t /\ pc[u] \in CtorSteps
    <3>1. ctx[u].w \in Wrappers /\ ctx[u].h \in Addresses
      BY <2>2, CtorRefers DEF DispatchInv, RegistryInv
    <3> QED BY <1>3, <1>5, <1>6, <2>2, <3>1 DEF DispatchInv, ConstructionInv
  <2>3. CASE u # t /\ pc[u] \notin CtorSteps
    BY <1>3, <2>3 DEF CtorSteps, ConstructionInv
  <2> QED BY <2>1, <2>2, <2>3
<1>12. ASSUME NEW u \in Actors PROVE OverrideInv(u)'
  <2>1. CASE u = t
    BY <1>4, <2>1 DEF OverrideInv
  <2>2. CASE u # t
    <3>1. SUFFICES ASSUME NEW v \in Wrappers, Overriding(v)', wrapper'[v].handle = ctx'[u].h,
                          pc'[u] \in {"Callback", "Override", "Return"}
                   PROVE  /\ pc'[u] = "Callback" => ctx'[u].cls = wrapper'[v].cls
                          /\ pc'[u] = "Override" => ctx'[u].inst = v
                          /\ pc'[u] = "Return" => ctx'[u].result = "override"
      BY DEF OverrideInv
    <3>2. Overriding(v) \/ (v = w /\ pc[t] = "Connect")
      BY <1>9, <3>1
    <3>3. pc[u] \in CallSteps /\ ctx[u].h = wrapper[v].handle
      BY <1>3, <1>5, <2>2, <3>1 DEF CallSteps
    <3>4. Overriding(v)
      BY <1>2, <1>10, <2>2, <3>2, <3>3
    <3> QED BY <1>3, <1>5, <2>2, <3>3, <3>4 DEF DispatchInv, OverrideInv
  <2> QED BY <2>1, <2>2
<1>13. ASSUME NEW u \in Actors PROVE RootInv(u)'
  <2>1. CASE u = t
    BY <1>4, <2>1 DEF RootInv
  <2>2. CASE u # t /\ pc[u] \in {"Unregister", "Destroy", "Callback", "Override", "Return"}
    <3>1. ctx[u].h \in Addresses /\ u \in Busy(ctx[u].h)
      BY <2>2, BusyRefers DEF DispatchInv, RegistryInv
    <3>2. pc[u] \in {"Unregister", "Destroy"} => ctx[u].h # h
      BY <1>2, <2>2, <3>1 DEF DispatchInv, RegistryInv, IInv, SafeInv, BusyInv, DisposeSteps
    <3> QED BY <1>3, <1>6, <1>8, <2>2, <3>1, <3>2 DEF DispatchInv, RootInv
  <2>3. CASE u # t /\ pc[u] \notin {"Unregister", "Destroy", "Callback", "Override", "Return"}
    BY <1>3, <2>3 DEF RootInv
  <2> QED BY <2>1, <2>2, <2>3
<1>14. SlotInv'
  BY <1>2, <1>5, <1>6, <1>9 DEF DispatchInv, SlotInv
<1>15. RootEntryInv'
  <2>1. SUFFICES ASSUME NEW a \in Addresses, native'[a].kind = "Root", Dispatching(a)'
                 PROVE  registry'["Root"][a] \in Referring(a)
    BY <1>8 DEF RootEntryInv
  <2>2. registry'["Root"][a] = registry["Root"][a] \/ (a = h /\ registry'["Root"][a] = w)
    BY <1>1 DEF CtorStepEffect
  <2>3. \A u \in Busy(a)' : pc'[u] = "Callback" => u \in Busy(a) /\ pc[u] = "Callback"
    BY <1>3, <1>4 DEF Busy
  <2>4. Dispatching(a) \/ (a = h /\ pc[t] = "Connect")
    <3>1. native'[h].slot => native[h].slot \/ pc[t] = "Connect"
      BY <1>1 DEF CtorStepEffect
    <3> QED BY <1>6, <2>1, <2>3, <3>1 DEF Dispatching
  <2>5. CASE Dispatching(a)
    BY <1>2, <1>6, <2>1, <2>2, <2>5 DEF DispatchInv, RootEntryInv
  <2>6. CASE a = h /\ pc[t] = "Connect"
    <3>1. registry["Root"][h] = w
      BY <1>6, <2>1, <2>6 DEF DispatchInv, ConstructionInv, RegistryInv, CtorRegistered
    <3> QED BY <1>2, <2>2, <2>6, <3>1
  <2> QED BY <2>4, <2>5, <2>6
<1> QED BY <1>11, <1>12, <1>13, <1>14, <1>15 DEF DispatchInv

-----------------------------------------------------------------------------
\* What the next step of a native call on the object at h finds and decides.
CallStepEffect(t, step, c) ==
  LET h == ctx[t].h
      entry == TryGet(ctx[t].cls, h)
  IN  /\ c.h = h
      /\ \/ pc[t] = "Native" /\ step = "Callback" /\ native[h].slot /\ c.cls = native[h].kind
         \/ pc[t] = "Native" /\ step = "Return" /\ ~native[h].slot /\ c.result = "base"
         \/ pc[t] = "Callback" /\ step = "Return" /\ entry = Null /\ c.result = "default"
         \/ pc[t] = "Callback" /\ step = "Override" /\ entry # Null /\ c.inst = entry
         \/ /\ pc[t] = "Override" /\ step = "Return"
            /\ c.result = (IF wrapper[ctx[t].inst].mask THEN "override" ELSE "base")

LEMMA CallStepFacts ==
  ASSUME TypeInv, NEW t \in Actors, Native_Dispatch(t) \/ Callback(t) \/ Override(t)
  PROVE  /\ native' = native /\ wrapper' = wrapper /\ registry' = registry
         /\ \A u \in Actors : u # t => pc'[u] = pc[u] /\ ctx'[u] = ctx[u]
         /\ CallStepEffect(t, pc'[t], ctx'[t])
<1>1. /\ ctx \in [Actors -> Context]
      /\ pc \in [Actors -> {"idle"} \cup CtorSteps \cup CallSteps \cup DisposeSteps]
  BY DEF TypeInv, TypeOK
<1>2. CASE Native_Dispatch(t)
  BY <1>1, <1>2 DEF Native_Dispatch, Goto, CallStepEffect, Context
<1>3. CASE Callback(t)
  BY <1>1, <1>3 DEF Callback, Goto, CallStepEffect, Context
<1>4. CASE Override(t)
  BY <1>1, <1>4 DEF Override, Goto, CallStepEffect, Context
<1> QED BY <1>2, <1>3, <1>4

\* The steps of a native call: from the slot to the cache, to the override, and back.
LEMMA DispatchCall ==
  ASSUME DispatchInv, RegistryInv', NEW t \in Actors,
         Native_Dispatch(t) \/ Callback(t) \/ Override(t)
  PROVE  DispatchInv'
<1> DEFINE h == ctx[t].h
<1>1. /\ native' = native /\ wrapper' = wrapper /\ registry' = registry
      /\ \A u \in Actors : u # t => pc'[u] = pc[u] /\ ctx'[u] = ctx[u]
      /\ CallStepEffect(t, pc'[t], ctx'[t])
  BY CallStepFacts DEF DispatchInv, RegistryInv, IInv
<1>2. /\ pc[t] \in {"Native", "Callback", "Override"}
      /\ pc'[t] \in {"Callback", "Override", "Return"} /\ ctx'[t].h = h
  BY <1>1 DEF CallStepEffect
<1>3. h \in Addresses /\ t \in Busy(h)
  BY <1>2, BusyRefers DEF DispatchInv, RegistryInv
<1>4. \A v : (Disposing(v)' <=> Disposing(v)) /\ (Finishing(v)' <=> Finishing(v))
  BY <1>1, <1>2 DEF Disposing, Finishing, DisposeSteps
<1>5. \A v : Overriding(v)' <=> Overriding(v)
  BY <1>1, <1>4 DEF Overriding
<1>6. \A a : Referring(a)' = Referring(a)
  BY <1>1, <1>4 DEF Referring
<1>7. OverrideInv(t)'
  <2>1. SUFFICES ASSUME NEW w \in Wrappers, Overriding(w), wrapper[w].handle = h
                 PROVE  /\ pc'[t] = "Callback" => ctx'[t].cls = wrapper[w].cls
                        /\ pc'[t] = "Override" => ctx'[t].inst = w
                        /\ pc'[t] = "Return" => ctx'[t].result = "override"
    BY <1>1, <1>2, <1>5 DEF OverrideInv
  <2>2. CASE pc[t] = "Native"
    BY <1>1, <2>1, <2>2 DEF CallStepEffect, DispatchInv, SlotInv
  <2>3. CASE pc[t] = "Callback"
    <3>1. ctx[t].cls = wrapper[w].cls
      BY <2>1, <2>3 DEF DispatchInv, OverrideInv
    <3>2. registry[wrapper[w].cls][h] = w
      BY <2>1 DEF DispatchInv, RegistryInv, OwnerRegistered, Overriding
    <3>3. TryGet(ctx[t].cls, h) = w /\ w # Null
      BY <2>1, <3>1, <3>2, NullAssumption DEF TryGet, Overriding
    <3> QED BY <1>1, <2>3, <3>3 DEF CallStepEffect
  <2>4. CASE pc[t] = "Override"
    BY <1>1, <2>1, <2>4 DEF CallStepEffect, DispatchInv, OverrideInv, Overriding
  <2> QED BY <1>2, <2>2, <2>3, <2>4
<1>8. RootInv(t)'
  <2>1. SUFFICES ASSUME native[h].kind = "Root"
                 PROVE  /\ pc'[t] = "Callback" => ctx'[t].cls = "Root"
                        /\ pc'[t] = "Override" => ctx'[t].inst \in Referring(h)
                        /\ pc'[t] = "Return" => ctx'[t].result # "default"
    BY <1>1, <1>2, <1>6 DEF RootInv
  <2>2. CASE pc[t] \in {"Native", "Override"}
    BY <1>1, <2>1, <2>2 DEF CallStepEffect
  <2>3. CASE pc[t] = "Callback"
    <3>1. ctx[t].cls = "Root"
      BY <2>1, <2>3 DEF DispatchInv, RootInv
    <3>2. registry["Root"][h] \in Referring(h)
      BY <1>3, <2>1, <2>3 DEF DispatchInv, RootEntryInv, Dispatching
    <3>3. TryGet(ctx[t].cls, h) \in Referring(h)
      BY <2>3, <3>1, <3>2, RootEntryFound, NullAssumption DEF DispatchInv, TryGet, Referring
    <3>4. TryGet(ctx[t].cls, h) # Null
      BY <3>3, NullAssumption DEF Referring
    <3> QED BY <1>1, <2>3, <3>3, <3>4 DEF CallStepEffect
  <2> QED BY <1>2, <2>2, <2>3
<1>9. ASSUME NEW u \in Actors, u # t PROVE (ConstructionInv(u) /\ OverrideInv(u) /\ RootInv(u))'
  BY <1>1, <1>5, <1>6, <1>9 DEF DispatchInv, ConstructionInv, OverrideInv, RootInv
<1>10. ConstructionInv(t)'
  BY <1>2 DEF ConstructionInv
<1>11. SlotInv'
  BY <1>1, <1>5 DEF DispatchInv, SlotInv
<1>12. RootEntryInv'
  <2>1. SUFFICES ASSUME NEW a \in Addresses, native[a].kind = "Root", Dispatching(a)'
                 PROVE  registry["Root"][a] \in Referring(a)
    BY <1>1, <1>6 DEF RootEntryInv
  <2>2. ASSUME NEW u \in Busy(a)', pc'[u] = "Callback" PROVE Dispatching(a)
    <3>1. CASE u = t
      BY <1>1, <1>2, <2>2, <3>1 DEF Busy, Dispatching, CallStepEffect
    <3>2. CASE u # t
      BY <1>1, <2>2, <3>2 DEF Busy, Dispatching
    <3> QED BY <3>1, <3>2
  <2>3. Dispatching(a)
    BY <1>1, <2>1, <2>2 DEF Dispatching
  <2> QED BY <2>1, <2>3 DEF DispatchInv, RootEntryInv
<1> QED BY <1>7, <1>8, <1>9, <1>10, <1>11, <1>12 DEF DispatchInv

\* Dispose leaves the director and the cache of Root: no thread is in a call on the
\* object, and no wrapper of it that is not disposed has overrides to lose.
LEMMA DispatchLeave ==
  ASSUME DispatchInv, RegistryInv', NEW t \in Actors, Disconnect(t) \/ Unregister(t)
  PROVE  DispatchInv'
<1> DEFINE h == ctx[t].h
<1>1. /\ pc[t] \in {"Disconnect", "Unregister"} /\ wrapper' = wrapper /\ ctx' = ctx
      /\ pc' = [pc EXCEPT ![t] = IF pc[t] = "Disconnect" THEN "Unregister" ELSE "Destroy"]
  BY DEF Disconnect, Unregister, DisposeOrder, Goto
<1>2. /\ pc'[t] = IF pc[t] = "Disconnect" THEN "Unregister" ELSE "Destroy"
      /\ \A u \in Actors : u # t => pc'[u] = pc[u]
  BY <1>1 DEF DispatchInv, RegistryInv, IInv, TypeInv, TypeOK
<1>3. h \in Addresses /\ t \in Busy(h) /\ Busy(h) = {t}
  <2>1. h \in Addresses /\ t \in Busy(h)
    BY <1>1, BusyRefers DEF DispatchInv, RegistryInv
  <2> QED BY <1>1, <2>1 DEF DispatchInv, RegistryInv, IInv, SafeInv, BusyInv, DisposeSteps
<1>4. \A v : (Disposing(v)' <=> Disposing(v)) /\ (Finishing(v)' <=> Finishing(v))
  BY <1>1, <1>2 DEF Disposing, Finishing, DisposeSteps
<1>5. \A a : Referring(a)' = Referring(a)
  BY <1>1, <1>4 DEF Referring
<1>6. \A a \in Addresses :
        /\ native'[a].kind = native[a].kind /\ native'[a].aliased = native[a].aliased
        /\ a # h => native'[a].slot = native[a].slot
        /\ native'[a].slot => native[a].slot
        /\ native[a].kind = "Root" /\ a = h /\ pc[t] = "Disconnect" => ~native'[a].slot
        /\ pc[t] = "Unregister" => native'[a] = native[a]
  <2>1. native \in [Addresses -> Native]
    BY DEF DispatchInv, RegistryInv, IInv, TypeInv, TypeOK
  <2>2. CASE Disconnect(t)
    BY ONLY <1>3, <2>1, <2>2 DEF Disconnect, ConnectDirector, Native
  <2>3. CASE Unregister(t)
    BY <2>3 DEF Unregister
  <2> QED BY <2>2, <2>3
<1>7. \A a \in Addresses : a # h => registry'["Root"][a] = registry["Root"][a]
  <2>1. registry \in [Class -> [Addresses -> Wrappers \cup {Null}]]
    BY DEF DispatchInv, RegistryInv, IInv, TypeInv, TypeOK
  <2>2. CASE Disconnect(t)
    BY <2>2 DEF Disconnect
  <2>3. CASE Unregister(t)
    BY <2>1, <2>3 DEF Unregister, Class
  <2> QED BY <2>2, <2>3
<1>8. ASSUME NEW v \in Wrappers, Overriding(v)'
      PROVE  Overriding(v) /\ wrapper[v].handle \in Addresses /\ wrapper[v].handle # h
  <2>1. wrapper[v].life = "live" /\ wrapper[v].mask /\ ~Disposing(v)
    BY <1>1, <1>4, <1>8 DEF Overriding
  <2>2. wrapper[v].handle \in Addresses /\ v \in Referring(wrapper[v].handle)
    BY <2>1, LiveRefers DEF DispatchInv, RegistryInv
  <2>3. Overriding(v)
    BY <1>1, <1>6, <1>8, <2>1, <2>2 DEF Overriding
  <2>4. wrapper[v].handle # h
    <3>1. ctx[t].w \in Wrappers /\ wrapper[ctx[t].w].handle = h
      BY <1>1 DEF DispatchInv, RegistryInv, IInv, TypeInv, StepInv, ActorInv, SafeInv, ContextInv,
                  OpInv, DisposeSteps
    <3>2. ctx[t].w \in Referring(h)
      BY <1>1, <1>3, <3>1, NullAssumption DEF DispatchInv, RegistryInv, IInv, SafeInv, BusyInv
    <3>3. Disposing(ctx[t].w)
      BY <1>1 DEF Disposing, DisposeSteps
    <3> QED BY <1>3, <2>1, <2>2, <2>3, <3>2, <3>3 DEF DispatchInv, RegistryInv, AliasInv, Overriding
  <2> QED BY <2>2, <2>3, <2>4
<1>9. ASSUME NEW u \in Actors PROVE (ConstructionInv(u) /\ OverrideInv(u) /\ RootInv(u))'
  <2>1. CASE u = t
    <3>1. RootInv(t)
      BY DEF DispatchInv
    <3> QED BY <1>1, <1>2, <1>3, <1>6, <2>1, <3>1 DEF ConstructionInv, OverrideInv, RootInv
  <2>2. CASE u # t /\ pc[u] \in KnownSteps
    <3>1. ctx[u].h \in Addresses /\ u \in Busy(ctx[u].h)
      BY <2>2, BusyRefers DEF DispatchInv, RegistryInv, KnownSteps
    <3>2. ctx[u].h # h
      BY <1>3, <2>2, <3>1
    <3>3. ConstructionInv(u) /\ OverrideInv(u) /\ RootInv(u)
      BY DEF DispatchInv
    <3> QED BY <1>1, <1>2, <1>5, <1>6, <1>8, <2>2, <3>1, <3>2, <3>3
               DEF ConstructionInv, OverrideInv, RootInv
  <2>3. CASE u # t /\ pc[u] \notin KnownSteps
    BY <1>2, <2>3 DEF KnownSteps, ConstructionInv, OverrideInv, RootInv
  <2> QED BY <2>1, <2>2, <2>3
<1>10. SlotInv'
  BY <1>1, <1>6, <1>8 DEF DispatchInv, SlotInv
<1>11. RootEntryInv'
  <2>1. SUFFICES ASSUME NEW a \in Addresses, native[a].kind = "Root", Dispatching(a)'
                 PROVE  registry'["Root"][a] \in Referring(a)
    BY <1>5, <1>6 DEF RootEntryInv
  <2>2. \A u \in Busy(a)' : pc'[u] = "Callback" => u \in Busy(a) /\ pc[u] = "Callback" /\ u # t
    BY <1>1, <1>2 DEF Busy
  <2>3. Dispatching(a)
    BY <1>6, <2>1, <2>2 DEF Dispatching
  <2>4. a # h
    <3>1. CASE pc[t] = "Disconnect"
      BY <1>3, <1>6, <2>1, <2>2, <3>1 DEF Dispatching
    <3>2. CASE pc[t] = "Unregister"
      BY <1>3, <1>6, <2>1, <2>2, <3>2 DEF Dispatching, DispatchInv, RootInv
    <3> QED BY <1>1, <3>1, <3>2
  <2> QED BY <1>7, <2>1, <2>3, <2>4 DEF DispatchInv, RootEntryInv
<1> QED BY <1>9, <1>10, <1>11 DEF DispatchInv

-----------------------------------------------------------------------------
\* Every step of the specification.
LEMMA DispatchNext ==
  ASSUME RulesKept, DispatchInv, RegistryInv', [Next]_vars
  PROVE  DispatchInv'
<1>1. ASSUME NEW t \in Threads, Start(t) PROVE DispatchInv'
  <2>1. t \in Actors
    BY DEF Actors
  <2>2. CASE \/ \E w \in Wrappers, c \in Class : NewThrows(t, w, c)
             \/ \E w \in Wrappers, owned \in BOOLEAN : SetOwnership(t, w, owned)
    BY <2>1, <2>2, DispatchOutside
  <2>3. CASE \E w \in Wrappers : Dispose(t, w)
    BY <2>1, <2>3, DispatchBegin DEF Dispose
  <2>4. ASSUME NEW w \in Wrappers, NEW a \in Addresses,
               \/ \E c \in Class, overrides \in BOOLEAN : New(t, w, c, a, overrides)
               \/ \E c \in Class : WrapBorrowed(t, w, c, a)
               \/ WrapOwned(t, w, a)
        PROVE  DispatchInv'
    BY <2>1, <2>4, DispatchNew
  <2>5. CASE \/ \E w \in Wrappers : Call(t, w)
             \/ \E a \in Addresses : NativeCall(t, a)
    BY ONLY <2>1, <2>5, DispatchInv, RegistryInv', DispatchBegin, Zenon
  <2>6. CASE \E w \in Wrappers, c \in Class, a \in Addresses :
               \/ \E overrides \in BOOLEAN : New(t, w, c, a, overrides)
               \/ WrapBorrowed(t, w, c, a)
    BY <2>4, <2>6
  <2>7. CASE \E w \in Wrappers, a \in Addresses : WrapOwned(t, w, a)
    BY <2>4, <2>7
  <2> QED BY <1>1, <2>2, <2>3, <2>5, <2>6, <2>7 DEF Start
<1>2. ASSUME NEW t \in Actors, CtorStep(t) PROVE DispatchInv'
  BY <1>2, DispatchCtorStep
<1>3. ASSUME NEW t \in Actors, CallStep(t) PROVE DispatchInv'
  BY <1>3, DispatchCall, DispatchBegin DEF CallStep
<1>4. ASSUME NEW t \in Actors, DisposeStep(t) PROVE DispatchInv'
  BY <1>4, DispatchLeave, DispatchDestroy, DispatchFinish DEF DisposeStep
<1>5. ASSUME NEW w \in Wrappers, Finalize(w) PROVE DispatchInv'
  BY <1>5, DispatchBegin DEF Finalize, Actors
<1>6. CASE UNCHANGED vars
  BY <1>6, DispatchQuiet DEF vars, Disposing, Referring, Finishing
<1> QED BY <1>1, <1>2, <1>3, <1>4, <1>5, <1>6, DispatchOutside DEF Next, FinalizerStep, Actors

\* The initial states: no object, and nobody at work.
LEMMA DispatchInit == Init => DispatchInv
<1> SUFFICES ASSUME Init PROVE DispatchInv
  OBVIOUS
<1>1. RegistryInv
  BY RegistryInit
<1>2. \A t \in Actors : ConstructionInv(t) /\ OverrideInv(t) /\ RootInv(t)
  BY DEF ConstructionInv, OverrideInv, RootInv, Init
<1>3. SlotInv
  BY DEF SlotInv, Overriding, Init
<1>4. RootEntryInv
  BY DEF RootEntryInv, Init, Freed
<1> QED BY <1>1, <1>2, <1>3, <1>4 DEF DispatchInv

\* The invariant holds in every state of a program that keeps the rules of use.
THEOREM DispatchInductive == ASSUME RulesKept PROVE Spec => []DispatchInv
<1>1. DispatchInv /\ [Next]_vars => DispatchInv'
  <2> SUFFICES ASSUME DispatchInv, [Next]_vars PROVE DispatchInv'
    OBVIOUS
  <2>1. IInv'
    BY TypeInvNext, SafeInvNext DEF DispatchInv, RegistryInv, IInv
  <2>2. RegistryInv'
    BY <2>1, RegistryNext DEF DispatchInv
  <2> QED BY <2>2, DispatchNext
<1> QED BY <1>1, DispatchInit, PTL DEF Spec

\* A virtual call that native code makes on an object that was wrapped once has run
\* the managed override when it returns, whatever other threads construct, dispose
\* or let the finalizer dispose meanwhile.
THEOREM DispatchCorrect == ASSUME RulesKept PROVE Spec => []OverrideDispatched
<1>1. DispatchInv => OverrideDispatched
  BY DEF DispatchInv, OverrideInv, Overriding, OverrideDispatched, Dispatched
<1> QED BY <1>1, DispatchInductive, PTL

\* A native call on a Root director never finds its slot set and the cache empty: the
\* callback never has to make up a default result, aliased objects included.
THEOREM RootDispatchCorrect == ASSUME RulesKept PROVE Spec => []RootDispatchNeverDefault
<1>1. DispatchInv => RootDispatchNeverDefault
  BY DEF DispatchInv, RootInv, RootDispatchNeverDefault
<1> QED BY <1>1, DispatchInductive, PTL

\* The override of a Root director runs on a wrapper that still has the handle of the
\* object that is called, so a callback cannot run on a disposed instance.
THEOREM OverrideUndisposed == ASSUME RulesKept PROVE Spec => []OverrideOnUndisposed
<1>1. DispatchInv => OverrideOnUndisposed
  BY DEF DispatchInv, RootInv, OverrideOnUndisposed, Referring
<1> QED BY <1>1, DispatchInductive, PTL
=============================================================================
