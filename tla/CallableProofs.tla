---------------------------- MODULE CallableProofs ----------------------------
(***************************************************************************)
(* Callables, for any number of threads, delegates, handles, bridges,      *)
(* closures and variables: reference counts are exact, a call never        *)
(* arrives at something that is gone, and C++ can use a delegate as long   *)
(* as it holds a function made for it.                                     *)
(***************************************************************************)
EXTENDS CallableInvariant, FiniteSetTheorems, TLAPS

One(condition) == IF condition THEN 1 ELSE 0

-----------------------------------------------------------------------------
(***************************************************************************)
(* Counting.                                                               *)
(***************************************************************************)
LEMMA ActorsFinite == IsFiniteSet(Actors)
<1>1. IsFiniteSet(Threads)
  BY FiniteAssumption
<1> QED BY <1>1, FS_AddElement DEF Actors

\* At most one element enters or leaves.
LEMMA OneMoves ==
  ASSUME NEW S, IsFiniteSet(S), NEW A \in SUBSET S, NEW B \in SUBSET S, NEW x,
         \A y \in S : y # x => (y \in A <=> y \in B)
  PROVE  /\ Cardinality(A) \in Nat /\ Cardinality(B) \in Nat
         /\ Cardinality(B) = Cardinality(A) - One(x \in A) + One(x \in B)
<1>1. /\ IsFiniteSet(A) /\ IsFiniteSet(B)
      /\ Cardinality(A) \in Nat /\ Cardinality(B) \in Nat
  BY FS_Subset, FS_CardinalityType
<1>2. CASE x \in A <=> x \in B
  <2>1. A = B
    BY <1>2
  <2> QED BY <1>1, <2>1 DEF One
<1>3. CASE x \in A /\ x \notin B
  <2>1. B = A \ {x}
    BY <1>3
  <2> QED BY <1>1, <1>3, <2>1, FS_RemoveElement DEF One
<1>4. CASE x \notin A /\ x \in B
  <2>1. B = A \cup {x}
    BY <1>4
  <2> QED BY <1>1, <1>4, <2>1, FS_AddElement DEF One
<1> QED BY <1>2, <1>3, <1>4

LEMMA MemberCount ==
  ASSUME NEW A, IsFiniteSet(A), NEW x
  PROVE  One(x \in A) <= Cardinality(A)
<1>1. Cardinality(A) \in Nat /\ (x \in A => Cardinality(A) # 0)
  BY FS_CardinalityType, FS_EmptySet
<1> QED BY <1>1 DEF One

LEMMA TaggedCount ==
  ASSUME NEW A, IsFiniteSet(A), NEW k
  PROVE  /\ IsFiniteSet(A \X {k})
         /\ Cardinality(A \X {k}) = Cardinality(A) /\ Cardinality(A) \in Nat
<1>1. IsFiniteSet({k}) /\ Cardinality({k}) = 1
  BY FS_Singleton
<1>2. IsFiniteSet(A \X {k}) /\ Cardinality(A \X {k}) = Cardinality(A) * Cardinality({k})
  BY <1>1, FS_Product
<1>3. Cardinality(A) \in Nat
  BY FS_CardinalityType
<1> QED BY <1>1, <1>2, <1>3

LEMMA DisjointCount ==
  ASSUME NEW A, NEW B, IsFiniteSet(A), IsFiniteSet(B), A \cap B = {}
  PROVE  /\ IsFiniteSet(A \cup B)
         /\ Cardinality(A \cup B) = Cardinality(A) + Cardinality(B)
<1>1. Cardinality(A) \in Nat /\ Cardinality(B) \in Nat
  BY FS_CardinalityType
<1>2. Cardinality(A \cap B) = 0
  BY FS_EmptySet
<1>3. /\ IsFiniteSet(A \cup B)
      /\ Cardinality(A \cup B) = Cardinality(A) + Cardinality(B) - Cardinality(A \cap B)
  BY FS_Union
<1> QED BY <1>1, <1>2, <1>3

Tagged(A, B, C, D, i, j, k, l) ==
  (A \X {i}) \cup (B \X {j}) \cup (C \X {k}) \cup (D \X {l})

\* Holders of four kinds are counted kind by kind.
LEMMA KindsCount ==
  ASSUME NEW A, NEW B, NEW C, NEW D,
         IsFiniteSet(A), IsFiniteSet(B), IsFiniteSet(C), IsFiniteSet(D),
         NEW i, NEW j, NEW k, NEW l, i # j, i # k, i # l, j # k, j # l, k # l
  PROVE  /\ Cardinality(Tagged(A, B, C, D, i, j, k, l))
              = Cardinality(A) + Cardinality(B) + Cardinality(C) + Cardinality(D)
         /\ Cardinality(A) \in Nat /\ Cardinality(B) \in Nat
         /\ Cardinality(C) \in Nat /\ Cardinality(D) \in Nat
<1> DEFINE P == A \X {i}
           Q == B \X {j}
           R == C \X {k}
           S == D \X {l}
<1>1. /\ IsFiniteSet(P) /\ Cardinality(P) = Cardinality(A) /\ Cardinality(A) \in Nat
      /\ IsFiniteSet(Q) /\ Cardinality(Q) = Cardinality(B) /\ Cardinality(B) \in Nat
      /\ IsFiniteSet(R) /\ Cardinality(R) = Cardinality(C) /\ Cardinality(C) \in Nat
      /\ IsFiniteSet(S) /\ Cardinality(S) = Cardinality(D) /\ Cardinality(D) \in Nat
  BY TaggedCount
<1>2. P \cap Q = {} /\ (P \cup Q) \cap R = {} /\ (P \cup Q \cup R) \cap S = {}
  OBVIOUS
<1> HIDE DEF P, Q, R, S
<1>3. IsFiniteSet(P \cup Q) /\ Cardinality(P \cup Q) = Cardinality(P) + Cardinality(Q)
  BY <1>1, <1>2, DisjointCount
<1>4. /\ IsFiniteSet(P \cup Q \cup R)
      /\ Cardinality(P \cup Q \cup R) = Cardinality(P \cup Q) + Cardinality(R)
  BY <1>1, <1>2, <1>3, DisjointCount
<1>5. Cardinality(P \cup Q \cup R \cup S) = Cardinality(P \cup Q \cup R) + Cardinality(S)
  BY <1>1, <1>2, <1>4, DisjointCount
<1>6. Cardinality(P \cup Q \cup R \cup S)
        = Cardinality(A) + Cardinality(B) + Cardinality(C) + Cardinality(D)
  BY <1>1, <1>3, <1>4, <1>5
<1> QED BY <1>1, <1>6 DEF P, Q, R, S, Tagged

-----------------------------------------------------------------------------
\* How many references of bridge b do these have: the operation of t, the release of u,
\* the owner d and the closure c; and of closure c: variable s, bridge b, t and u.
BridgeShare(t, u, d, c, b) ==
  One(ctx[t].b = b) + One(pc[u] = "DropBridge" /\ ctx[u].at = b)
    + One(d \in Delegates /\ delegate[d].bridge = b)
    + One(c \in Closures /\ closure[c].bridge = b)

ClosureShare(s, b, t, u, c) ==
  One(s \in Slots /\ slot[s] = c) + One(b \in Bridges /\ bridge[b].fn = c)
    + One(ctx[t].c = c) + One(pc[u] = "DropClosure" /\ ctx[u].at = c)

\* The share of any four of them is a part of the count, which changes as theirs does
\* when the others keep what they have.
LEMMA BridgeChange ==
  ASSUME NEW b \in Bridges, NEW t \in Actors, NEW u \in Actors, NEW d, NEW c
  PROVE  /\ BridgeShare(t, u, d, c, b) \in Nat /\ Cardinality(BridgeHolders(b)) \in Nat
         /\ Cardinality(BridgeHolders(b))' \in Nat
         /\ BridgeShare(t, u, d, c, b) <= Cardinality(BridgeHolders(b))
         /\ /\ \A v \in Actors : v # t => (ctx'[v].b = b <=> ctx[v].b = b)
            /\ \A v \in Actors : v # u =>
                 (pc'[v] = "DropBridge" /\ ctx'[v].at = b <=> pc[v] = "DropBridge" /\ ctx[v].at = b)
            /\ \A e \in Delegates : e # d => (delegate'[e].bridge = b <=> delegate[e].bridge = b)
            /\ \A e \in Closures : e # c => (closure'[e].bridge = b <=> closure[e].bridge = b)
            => Cardinality(BridgeHolders(b))' - BridgeShare(t, u, d, c, b)'
                 = Cardinality(BridgeHolders(b)) - BridgeShare(t, u, d, c, b)
<1> DEFINE A == {v \in Actors : ctx[v].b = b}
           B == {v \in Actors : pc[v] = "DropBridge" /\ ctx[v].at = b}
           C == {e \in Delegates : delegate[e].bridge = b}
           D == {e \in Closures : closure[e].bridge = b}
<1>1. IsFiniteSet(Actors) /\ IsFiniteSet(Delegates) /\ IsFiniteSet(Closures)
  BY ActorsFinite, FiniteAssumption
<1>2. /\ IsFiniteSet(A) /\ IsFiniteSet(B) /\ IsFiniteSet(C) /\ IsFiniteSet(D)
      /\ IsFiniteSet(A') /\ IsFiniteSet(B') /\ IsFiniteSet(C') /\ IsFiniteSet(D')
  BY <1>1, FS_Subset
<1>3. /\ BridgeHolders(b) = Tagged(A, B, C, D, "operation", "release", "owner", "closure")
      /\ BridgeHolders(b)' = Tagged(A', B', C', D', "operation", "release", "owner", "closure")
  BY DEF BridgeHolders, Tagged
<1>4. /\ t \in A <=> ctx[t].b = b
      /\ t \in A' <=> ctx'[t].b = b
      /\ u \in B <=> pc[u] = "DropBridge" /\ ctx[u].at = b
      /\ u \in B' <=> pc'[u] = "DropBridge" /\ ctx'[u].at = b
      /\ d \in C <=> d \in Delegates /\ delegate[d].bridge = b
      /\ d \in C' <=> d \in Delegates /\ delegate'[d].bridge = b
      /\ c \in D <=> c \in Closures /\ closure[c].bridge = b
      /\ c \in D' <=> c \in Closures /\ closure'[c].bridge = b
  OBVIOUS
<1>5. /\ BridgeShare(t, u, d, c, b) = One(t \in A) + One(u \in B) + One(d \in C) + One(c \in D)
      /\ BridgeShare(t, u, d, c, b)' = One(t \in A') + One(u \in B') + One(d \in C') + One(c \in D')
  BY <1>4 DEF BridgeShare, One
<1>6. /\ A \in SUBSET Actors /\ A' \in SUBSET Actors /\ B \in SUBSET Actors /\ B' \in SUBSET Actors
      /\ C \in SUBSET Delegates /\ C' \in SUBSET Delegates
      /\ D \in SUBSET Closures /\ D' \in SUBSET Closures
  OBVIOUS
<1>7. /\ \A v \in Actors : v \in A <=> ctx[v].b = b
      /\ \A v \in Actors : v \in A' <=> ctx'[v].b = b
      /\ \A v \in Actors : v \in B <=> pc[v] = "DropBridge" /\ ctx[v].at = b
      /\ \A v \in Actors : v \in B' <=> pc'[v] = "DropBridge" /\ ctx'[v].at = b
      /\ \A e \in Delegates : e \in C <=> delegate[e].bridge = b
      /\ \A e \in Delegates : e \in C' <=> delegate'[e].bridge = b
      /\ \A e \in Closures : e \in D <=> closure[e].bridge = b
      /\ \A e \in Closures : e \in D' <=> closure'[e].bridge = b
  OBVIOUS
<1> HIDE DEF A, B, C, D
<1>8. /\ Cardinality(BridgeHolders(b))
           = Cardinality(A) + Cardinality(B) + Cardinality(C) + Cardinality(D)
      /\ Cardinality(BridgeHolders(b)')
           = Cardinality(A') + Cardinality(B') + Cardinality(C') + Cardinality(D')
  BY <1>2, <1>3, KindsCount
<1>9. /\ One(t \in A) <= Cardinality(A) /\ One(u \in B) <= Cardinality(B)
      /\ One(d \in C) <= Cardinality(C) /\ One(c \in D) <= Cardinality(D)
  BY <1>2, MemberCount
<1>10. ASSUME \A v \in Actors : v # t => (v \in A' <=> v \in A),
              \A v \in Actors : v # u => (v \in B' <=> v \in B),
              \A e \in Delegates : e # d => (e \in C' <=> e \in C),
              \A e \in Closures : e # c => (e \in D' <=> e \in D)
       PROVE  /\ Cardinality(A') = Cardinality(A) - One(t \in A) + One(t \in A')
              /\ Cardinality(B') = Cardinality(B) - One(u \in B) + One(u \in B')
              /\ Cardinality(C') = Cardinality(C) - One(d \in C) + One(d \in C')
              /\ Cardinality(D') = Cardinality(D) - One(c \in D) + One(c \in D')
  BY <1>1, <1>6, <1>10, OneMoves
<1>11. /\ Cardinality(A) \in Nat /\ Cardinality(B) \in Nat
       /\ Cardinality(C) \in Nat /\ Cardinality(D) \in Nat
       /\ Cardinality(A') \in Nat /\ Cardinality(B') \in Nat
       /\ Cardinality(C') \in Nat /\ Cardinality(D') \in Nat
  BY <1>2, FS_CardinalityType
<1>12. /\ One(t \in A) \in Nat /\ One(u \in B) \in Nat /\ One(d \in C) \in Nat /\ One(c \in D) \in Nat
       /\ One(t \in A') \in Nat /\ One(u \in B') \in Nat
       /\ One(d \in C') \in Nat /\ One(c \in D') \in Nat
  BY DEF One
<1> QED BY <1>5, <1>7, <1>8, <1>9, <1>10, <1>11, <1>12

LEMMA ClosureChange ==
  ASSUME NEW c \in Closures, NEW t \in Actors, NEW u \in Actors, NEW s, NEW b
  PROVE  /\ ClosureShare(s, b, t, u, c) \in Nat /\ Cardinality(ClosureHolders(c)) \in Nat
         /\ Cardinality(ClosureHolders(c))' \in Nat
         /\ ClosureShare(s, b, t, u, c) <= Cardinality(ClosureHolders(c))
         /\ /\ \A e \in Slots : e # s => (slot'[e] = c <=> slot[e] = c)
            /\ \A e \in Bridges : e # b => (bridge'[e].fn = c <=> bridge[e].fn = c)
            /\ \A v \in Actors : v # t => (ctx'[v].c = c <=> ctx[v].c = c)
            /\ \A v \in Actors : v # u =>
                 (pc'[v] = "DropClosure" /\ ctx'[v].at = c <=> pc[v] = "DropClosure" /\ ctx[v].at = c)
            => Cardinality(ClosureHolders(c))' - ClosureShare(s, b, t, u, c)'
                 = Cardinality(ClosureHolders(c)) - ClosureShare(s, b, t, u, c)
<1> DEFINE A == {e \in Slots : slot[e] = c}
           B == {e \in Bridges : bridge[e].fn = c}
           C == {v \in Actors : ctx[v].c = c}
           D == {v \in Actors : pc[v] = "DropClosure" /\ ctx[v].at = c}
<1>1. IsFiniteSet(Slots) /\ IsFiniteSet(Bridges) /\ IsFiniteSet(Actors)
  BY ActorsFinite, FiniteAssumption
<1>2. /\ IsFiniteSet(A) /\ IsFiniteSet(B) /\ IsFiniteSet(C) /\ IsFiniteSet(D)
      /\ IsFiniteSet(A') /\ IsFiniteSet(B') /\ IsFiniteSet(C') /\ IsFiniteSet(D')
  BY <1>1, FS_Subset
<1>3. /\ ClosureHolders(c) = Tagged(A, B, C, D, "variable", "bridge", "operation", "release")
      /\ ClosureHolders(c)' = Tagged(A', B', C', D', "variable", "bridge", "operation", "release")
  BY DEF ClosureHolders, Tagged
<1>4. /\ s \in A <=> s \in Slots /\ slot[s] = c
      /\ s \in A' <=> s \in Slots /\ slot'[s] = c
      /\ b \in B <=> b \in Bridges /\ bridge[b].fn = c
      /\ b \in B' <=> b \in Bridges /\ bridge'[b].fn = c
      /\ t \in C <=> ctx[t].c = c
      /\ t \in C' <=> ctx'[t].c = c
      /\ u \in D <=> pc[u] = "DropClosure" /\ ctx[u].at = c
      /\ u \in D' <=> pc'[u] = "DropClosure" /\ ctx'[u].at = c
  OBVIOUS
<1>5. /\ ClosureShare(s, b, t, u, c) = One(s \in A) + One(b \in B) + One(t \in C) + One(u \in D)
      /\ ClosureShare(s, b, t, u, c)' = One(s \in A') + One(b \in B') + One(t \in C') + One(u \in D')
  BY <1>4 DEF ClosureShare, One
<1>6. /\ A \in SUBSET Slots /\ A' \in SUBSET Slots /\ B \in SUBSET Bridges /\ B' \in SUBSET Bridges
      /\ C \in SUBSET Actors /\ C' \in SUBSET Actors /\ D \in SUBSET Actors /\ D' \in SUBSET Actors
  OBVIOUS
<1>7. /\ \A e \in Slots : e \in A <=> slot[e] = c
      /\ \A e \in Slots : e \in A' <=> slot'[e] = c
      /\ \A e \in Bridges : e \in B <=> bridge[e].fn = c
      /\ \A e \in Bridges : e \in B' <=> bridge'[e].fn = c
      /\ \A v \in Actors : v \in C <=> ctx[v].c = c
      /\ \A v \in Actors : v \in C' <=> ctx'[v].c = c
      /\ \A v \in Actors : v \in D <=> pc[v] = "DropClosure" /\ ctx[v].at = c
      /\ \A v \in Actors : v \in D' <=> pc'[v] = "DropClosure" /\ ctx'[v].at = c
  OBVIOUS
<1> HIDE DEF A, B, C, D
<1>8. /\ Cardinality(ClosureHolders(c))
           = Cardinality(A) + Cardinality(B) + Cardinality(C) + Cardinality(D)
      /\ Cardinality(ClosureHolders(c)')
           = Cardinality(A') + Cardinality(B') + Cardinality(C') + Cardinality(D')
  BY <1>2, <1>3, KindsCount
<1>9. /\ One(s \in A) <= Cardinality(A) /\ One(b \in B) <= Cardinality(B)
      /\ One(t \in C) <= Cardinality(C) /\ One(u \in D) <= Cardinality(D)
  BY <1>2, MemberCount
<1>10. ASSUME \A e \in Slots : e # s => (e \in A' <=> e \in A),
              \A e \in Bridges : e # b => (e \in B' <=> e \in B),
              \A v \in Actors : v # t => (v \in C' <=> v \in C),
              \A v \in Actors : v # u => (v \in D' <=> v \in D)
       PROVE  /\ Cardinality(A') = Cardinality(A) - One(s \in A) + One(s \in A')
              /\ Cardinality(B') = Cardinality(B) - One(b \in B) + One(b \in B')
              /\ Cardinality(C') = Cardinality(C) - One(t \in C) + One(t \in C')
              /\ Cardinality(D') = Cardinality(D) - One(u \in D) + One(u \in D')
  BY <1>1, <1>6, <1>10, OneMoves
<1>11. /\ Cardinality(A) \in Nat /\ Cardinality(B) \in Nat
       /\ Cardinality(C) \in Nat /\ Cardinality(D) \in Nat
       /\ Cardinality(A') \in Nat /\ Cardinality(B') \in Nat
       /\ Cardinality(C') \in Nat /\ Cardinality(D') \in Nat
  BY <1>2, FS_CardinalityType
<1>12. /\ One(s \in A) \in Nat /\ One(b \in B) \in Nat /\ One(t \in C) \in Nat /\ One(u \in D) \in Nat
       /\ One(s \in A') \in Nat /\ One(b \in B') \in Nat
       /\ One(t \in C') \in Nat /\ One(u \in D') \in Nat
  BY DEF One
<1> QED BY <1>5, <1>7, <1>8, <1>9, <1>10, <1>11, <1>12

\* A step keeps the counts exact when each count changes as the shares of what the step
\* touches do: a thread, a delegate, a closure, a variable and a bridge.
LEMMA CountStep ==
  ASSUME CountInv, NEW t \in Actors, NEW d, NEW c, NEW s, NEW b,
         \A v \in Actors : v # t => pc'[v] = pc[v] /\ ctx'[v] = ctx[v],
         \A e \in Delegates : e # d => delegate'[e].bridge = delegate[e].bridge,
         \A e \in Closures : e # c => closure'[e].bridge = closure[e].bridge,
         \A e \in Slots : e # s => slot'[e] = slot[e],
         \A e \in Bridges : e # b => bridge'[e].fn = bridge[e].fn,
         \A e \in Bridges :
           /\ bridge'[e].refs \in Int
           /\ bridge'[e].refs - BridgeShare(t, t, d, c, e)'
                = bridge[e].refs - BridgeShare(t, t, d, c, e),
         \A e \in Closures :
           /\ closure'[e].count \in Int
           /\ closure'[e].count - ClosureShare(s, b, t, t, e)'
                = closure[e].count - ClosureShare(s, b, t, t, e)
  PROVE  /\ CountInv'
         /\ \A e \in Bridges : bridge'[e].refs \in Nat
         /\ \A e \in Closures : closure'[e].count \in Nat
<1>1. ASSUME NEW e \in Bridges
      PROVE  bridge'[e].refs = Cardinality(BridgeHolders(e))' /\ bridge'[e].refs \in Nat
  <2>1. Cardinality(BridgeHolders(e))' - BridgeShare(t, t, d, c, e)'
          = Cardinality(BridgeHolders(e)) - BridgeShare(t, t, d, c, e)
    BY BridgeChange
  <2>2. BridgeShare(t, t, d, c, e) \in Nat /\ Cardinality(BridgeHolders(e)) \in Nat
    BY BridgeChange
  <2>3. BridgeShare(t, t, d, c, e)' \in Nat
    BY DEF BridgeShare, One
  <2>4. Cardinality(BridgeHolders(e))' \in Nat
    BY BridgeChange
  <2> QED BY <2>1, <2>2, <2>3, <2>4 DEF CountInv
<1>2. ASSUME NEW e \in Closures
      PROVE  closure'[e].count = Cardinality(ClosureHolders(e))' /\ closure'[e].count \in Nat
  <2>1. Cardinality(ClosureHolders(e))' - ClosureShare(s, b, t, t, e)'
          = Cardinality(ClosureHolders(e)) - ClosureShare(s, b, t, t, e)
    BY ClosureChange
  <2>2. ClosureShare(s, b, t, t, e) \in Nat /\ Cardinality(ClosureHolders(e)) \in Nat
    BY ClosureChange
  <2>3. ClosureShare(s, b, t, t, e)' \in Nat
    BY DEF ClosureShare, One
  <2>4. Cardinality(ClosureHolders(e))' \in Nat
    BY ClosureChange
  <2> QED BY <2>1, <2>2, <2>3, <2>4 DEF CountInv
<1> QED BY <1>1, <1>2 DEF CountInv

-----------------------------------------------------------------------------
(***************************************************************************)
(* What the control operators do to the thread that takes the step.        *)
(***************************************************************************)
Others(t) == \A u \in Actors : u # t => pc'[u] = pc[u] /\ ctx'[u] = ctx[u]

LEMMA WalkFacts ==
  ASSUME TypeOK, NEW t \in Actors, NEW step, NEW context \in Context, NEW at, NEW then,
         Walk(t, step, context, at, then)
  PROVE  /\ pc'[t] = step /\ Others(t)
         /\ ctx'[t].d = context.d /\ ctx'[t].h = context.h /\ ctx'[t].b = context.b
         /\ ctx'[t].c = context.c /\ ctx'[t].at = at /\ ctx'[t].then = then
         /\ /\ at \in Delegates \cup Bridges \cup Closures \cup {Null}
            /\ then \in {"idle", "Native", "Finally", "Uncopy"} /\ step \in Steps
            => pc' \in [Actors -> Steps] /\ ctx' \in [Actors -> Context]
BY DEF TypeOK, Walk, Goto, Others, Context

LEMMA ContinueFacts ==
  ASSUME TypeOK, NEW t \in Actors, NEW context \in Context, Continue(t, context)
  PROVE  /\ pc'[t] = context.then /\ Others(t)
         /\ context.then = "idle" => ctx'[t] = NoContext
         /\ context.then # "idle" =>
              /\ ctx'[t].d = context.d /\ ctx'[t].h = context.h /\ ctx'[t].b = context.b
              /\ ctx'[t].c = context.c /\ ctx'[t].at = Null /\ ctx'[t].then = "idle"
         /\ pc' \in [Actors -> Steps] /\ ctx' \in [Actors -> Context]
BY DEF TypeOK, Continue, Goto, Others, Context, NoContext, Steps

-----------------------------------------------------------------------------
(***************************************************************************)
(* Frames of the parts of the invariant.                                   *)
(***************************************************************************)
LEMMA ContextFrame ==
  ASSUME CountsInv, NEW t \in Actors, Others(t), ContextInv(t)'
  PROVE  \A u \in Actors : ContextInv(u)'
<1> SUFFICES ASSUME NEW u \in Actors, u # t PROVE ContextInv(u)'
  OBVIOUS
<1>1. pc'[u] = pc[u] /\ ctx'[u] = ctx[u] /\ ContextInv(u)
  BY DEF Others, CountsInv
<1> QED BY <1>1 DEF ContextInv, Resume

LEMMA HandleFrame ==
  ASSUME CountsInv, NEW t \in Actors, Others(t), ctx'[t].h = ctx[t].h,
         \A h \in Handles : handle'[h] = handle[h],
         \A b \in Bridges : bridge'[b].lifetime = bridge[b].lifetime
  PROVE  HandleInv'
<1>1. \A u \in Actors : ctx'[u].h = ctx[u].h
  BY DEF Others
<1> QED BY <1>1 DEF CountsInv, HandleInv

\* The bridges that other threads delete stay as they are, and t deletes one that is
\* not among them.
LEMMA DeleteFrame ==
  ASSUME CountsInv, NEW t \in Actors, Others(t),
         \A b \in Bridges :
           /\ bridge[b].state = "live" /\ bridge[b].refs = 0
           /\ ~(pc[t] = "Delete" /\ ctx[t].at = b)
           => bridge'[b].state = "live" /\ bridge'[b].refs = 0,
         pc'[t] = "Delete" =>
           /\ bridge'[ctx'[t].at].state = "live" /\ bridge'[ctx'[t].at].refs = 0
           /\ bridge[ctx'[t].at].refs # 0
  PROVE  DeleteInv'
<1>1. ASSUME NEW u \in Actors, u # t, pc'[u] = "Delete"
      PROVE  /\ bridge'[ctx'[u].at].state = "live" /\ bridge'[ctx'[u].at].refs = 0
             /\ bridge[ctx'[u].at].refs = 0
  <2>1. pc[u] = "Delete" /\ ctx'[u] = ctx[u]
    BY <1>1 DEF Others
  <2>2. /\ ctx[u].at \in Bridges
        /\ bridge[ctx[u].at].state = "live" /\ bridge[ctx[u].at].refs = 0
        /\ ~(pc[t] = "Delete" /\ ctx[t].at = ctx[u].at)
    BY <1>1, <2>1 DEF CountsInv, ContextInv, DeleteInv
  <2> QED BY <2>1, <2>2
<1>2. ASSUME NEW u \in Actors, NEW v \in Actors, pc'[u] = "Delete", pc'[v] = "Delete",
             ctx'[u].at = ctx'[v].at
      PROVE  u = v
  <2>1. CASE u # t /\ v # t
    BY <1>2, <2>1 DEF CountsInv, DeleteInv, Others
  <2>2. CASE u # t /\ v = t
    BY <1>1, <1>2, <2>2
  <2>3. CASE u = t /\ v # t
    BY <1>1, <1>2, <2>3
  <2> QED BY <2>1, <2>2, <2>3
<1>3. ASSUME NEW u \in Actors, pc'[u] = "Delete"
      PROVE  bridge'[ctx'[u].at].state = "live" /\ bridge'[ctx'[u].at].refs = 0
  BY <1>1, <1>3
<1> QED BY <1>2, <1>3 DEF DeleteInv

\* A step that changes nothing but the local variables of its thread, and keeps what
\* they hold or leaves it to a release.
LEMMA LocalStep ==
  ASSUME CountsInv, NEW t \in Actors, Others(t),
         UNCHANGED <<delegate, pinned, handle, bridge, closure, slot>>,
         pc' \in [Actors -> Steps], ctx' \in [Actors -> Context],
         ctx'[t].h = ctx[t].h, pc'[t] # "Delete", ContextInv(t)',
         pc[t] \notin Releases,
         \/ ctx'[t].b = ctx[t].b /\ pc'[t] # "DropBridge"
         \/ ctx'[t].b = Null /\ pc'[t] = "DropBridge" /\ ctx'[t].at = ctx[t].b,
         \/ ctx'[t].c = ctx[t].c /\ pc'[t] # "DropClosure"
         \/ ctx'[t].c = Null /\ pc'[t] = "DropClosure" /\ ctx'[t].at = ctx[t].c
  PROVE  CountsInv'
<1>1. TypeOK'
  BY DEF CountsInv, TypeOK
<1>2. ObjectInv'
  BY DEF CountsInv, ObjectInv
<1>3. HandleInv'
  BY HandleFrame
<1>4. \A u \in Actors : ContextInv(u)'
  BY ContextFrame
<1>5. DeleteInv'
  BY DeleteFrame
<1>6. \A b \in Bridges :
        /\ bridge[b].refs \in Int
        /\ BridgeShare(t, t, Null, Null, b)' = BridgeShare(t, t, Null, Null, b)
  BY NullAssumption DEF CountsInv, TypeOK, Bridge, BridgeShare, One, Releases
<1>7. \A c \in Closures :
        /\ closure[c].count \in Int
        /\ ClosureShare(Null, Null, t, t, c)' = ClosureShare(Null, Null, t, t, c)
  BY NullAssumption DEF CountsInv, TypeOK, Closure, ClosureShare, One, Releases
<1>8. CountInv'
  BY <1>6, <1>7, CountStep DEF CountsInv, Others
<1> QED BY <1>1, <1>2, <1>3, <1>4, <1>5, <1>8 DEF CountsInv

-----------------------------------------------------------------------------
(***************************************************************************)
(* The steps of calls, and those that hand a reference to a release.       *)
(***************************************************************************)
LEMMA ThreadTypes ==
  ASSUME TypeOK, NEW t \in Actors
  PROVE  /\ ctx[t] \in Context /\ pc[t] \in Steps
         /\ ctx[t].d \in Delegates \cup {Null} /\ ctx[t].h \in Handles \cup {Null}
         /\ ctx[t].b \in Bridges \cup {Null} /\ ctx[t].c \in Closures \cup {Null}
         /\ ctx[t].at \in Delegates \cup Bridges \cup Closures \cup {Null}
         /\ ctx[t].then \in {"idle", "Native", "Finally", "Uncopy"}
BY DEF TypeOK, Context

\* A thread that has nothing to do holds nothing.
LEMMA IdleHolds ==
  ASSUME CountsInv, NEW t \in Actors, pc[t] = "idle"
  PROVE  /\ ctx[t] = NoContext /\ NoContext \in Context
         /\ ctx[t].d = Null /\ ctx[t].h = Null /\ ctx[t].b = Null /\ ctx[t].c = Null
         /\ ctx[t].at = Null
BY DEF CountsInv, ContextInv, NoContext, Context

\* A step of a call that goes on to `at`.
LEMMA CallGoesOn ==
  ASSUME CountsInv, NEW t \in Threads, NEW context \in Context,
         NEW at \in Delegates \cup Bridges \cup Closures \cup {Null},
         NEW then \in {"idle", "Native", "Uncopy"},
         Walk(t, "Call", context, at, then),
         UNCHANGED <<delegate, pinned, handle, bridge, closure, slot>>,
         Resume(t) = then, pc[t] \in {"idle", "Native", "Call"},
         context.h = ctx[t].h, context.b = ctx[t].b, context.c = ctx[t].c,
         Resume(t) = "Native" => context.d = ctx[t].d
  PROVE  CountsInv'
<1>1. t \in Actors /\ ContextInv(t) /\ TypeOK
  BY DEF Actors, CountsInv
<1>2. /\ pc'[t] = "Call" /\ Others(t)
      /\ ctx'[t].d = context.d /\ ctx'[t].h = context.h /\ ctx'[t].b = context.b
      /\ ctx'[t].c = context.c /\ ctx'[t].at = at /\ ctx'[t].then = then
      /\ pc' \in [Actors -> Steps] /\ ctx' \in [Actors -> Context]
  BY <1>1, WalkFacts DEF Steps
<1>3. ContextInv(t)'
  BY <1>1, <1>2 DEF ContextInv, Resume, Releases
<1> QED BY <1>1, <1>2, <1>3, LocalStep DEF Releases

LEMMA CountsCall ==
  ASSUME CountsInv, NEW t \in Threads,
         \/ Native_Call(t)
         \/ \E d \in Delegates : CallDelegate(t, d)
  PROVE  CountsInv'
<1>1. t \in Actors /\ ContextInv(t) /\ TypeOK /\ ctx[t] \in Context
  BY ThreadTypes DEF Actors, CountsInv
<1>2. CASE Native_Call(t)
  <2>1. /\ pc[t] = "Native" /\ Resume(t) = "Native"
        /\ ctx[t].c \in Closures \cup {Null}
        /\ Walk(t, "Call", ctx[t], ctx[t].c, "Native")
        /\ UNCHANGED <<delegate, pinned, handle, bridge, closure, slot>>
    BY <1>1, <1>2, ThreadTypes DEF Native_Call, Resume, Releases
  <2> QED BY <1>1, <2>1, CallGoesOn
<1>3. ASSUME NEW d \in Delegates, CallDelegate(t, d) PROVE CountsInv'
  <2> DEFINE context == [NoContext EXCEPT !.d = d]
  <2>1. /\ pc[t] = "idle" /\ Resume(t) = "idle"
        /\ Walk(t, "Call", context, delegate[d].bridge, "idle")
        /\ UNCHANGED <<delegate, pinned, handle, bridge, closure, slot>>
    BY <1>3 DEF CallDelegate, Resume, Releases
  <2>2. /\ context \in Context
        /\ context.h = ctx[t].h /\ context.b = ctx[t].b /\ context.c = ctx[t].c
    BY <1>1, <2>1, IdleHolds DEF NoContext, Context
  <2>3. delegate[d].bridge \in Bridges \cup {Null}
    BY <1>1 DEF TypeOK, Delegate
  <2> HIDE DEF context
  <2> QED BY <1>1, <2>1, <2>2, <2>3, CallGoesOn
<1> QED BY <1>2, <1>3

\* A step of a call that has arrived.
LEMMA CallArrives ==
  ASSUME CountsInv, NEW t \in Actors, pc[t] = "Call", Continue(t, ctx[t]),
         UNCHANGED <<delegate, pinned, handle, bridge, closure, slot>>
  PROVE  CountsInv'
<1>1. ContextInv(t) /\ TypeOK /\ ctx[t] \in Context
  BY ThreadTypes DEF CountsInv
<1>2. /\ pc'[t] = ctx[t].then /\ Others(t)
      /\ ctx[t].then = "idle" => ctx'[t] = NoContext
      /\ ctx[t].then # "idle" =>
           /\ ctx'[t].d = ctx[t].d /\ ctx'[t].h = ctx[t].h /\ ctx'[t].b = ctx[t].b
           /\ ctx'[t].c = ctx[t].c
      /\ pc' \in [Actors -> Steps] /\ ctx' \in [Actors -> Context]
  BY <1>1, ContinueFacts
<1>3. /\ ctx[t].then \in {"idle", "Native", "Uncopy"} /\ Resume(t) = ctx[t].then
      /\ Resume(t) = "idle" => ctx[t].h = Null /\ ctx[t].b = Null /\ ctx[t].c = Null
  BY <1>1 DEF ContextInv, Resume
<1>4. ctx'[t].h = ctx[t].h /\ ctx'[t].b = ctx[t].b /\ ctx'[t].c = ctx[t].c
  BY <1>2, <1>3 DEF NoContext
<1>5. ContextInv(t)'
  <2>1. Resume(t)' = Resume(t)
    BY <1>2, <1>3 DEF Resume, Releases
  <2> QED BY <1>1, <1>2, <1>3, <1>4, <2>1 DEF ContextInv, Releases
<1> QED BY <1>2, <1>3, <1>4, <1>5, LocalStep DEF Releases

LEMMA CountsCallStep ==
  ASSUME CountsInv, NEW t \in Actors, Call_Closure(t) \/ Call_Bridge(t) \/ Call_Delegate(t)
  PROVE  CountsInv'
<1>1. /\ pc[t] = "Call" /\ UNCHANGED <<delegate, pinned, handle, bridge, closure, slot>>
  BY DEF Call_Closure, Call_Bridge, Call_Delegate
<1>2. /\ TypeOK /\ t \in Threads /\ ctx[t] \in Context /\ Resume(t) = ctx[t].then
      /\ ctx[t].then \in {"idle", "Native", "Uncopy"}
  BY <1>1, ThreadTypes DEF CountsInv, ContextInv, Resume
<1>3. ASSUME NEW at \in Delegates \cup Bridges \cup Closures \cup {Null},
             Walk(t, "Call", ctx[t], at, ctx[t].then)
      PROVE  CountsInv'
  BY <1>1, <1>2, <1>3, CallGoesOn
<1>4. CASE Call_Closure(t)
  <2>1. /\ Walk(t, "Call", ctx[t], closure[ctx[t].at].bridge, ctx[t].then)
        /\ closure[ctx[t].at].bridge \in Bridges \cup {Null}
    BY <1>2, <1>4 DEF Call_Closure, TypeOK, Closure
  <2> QED BY <1>3, <2>1
<1>5. CASE Call_Bridge(t)
  <2> DEFINE b == bridge[ctx[t].at]
  <2>1. b.fn \in Function /\ b.lifetime \in Handles \cup {Null}
    BY <1>2, <1>5 DEF Call_Bridge, TypeOK, Bridge
  <2>2. \/ Continue(t, ctx[t])
        \/ b.fn \in Closures /\ Walk(t, "Call", ctx[t], b.fn, ctx[t].then)
        \/ b.lifetime # Null /\ Walk(t, "Call", ctx[t], handle[b.lifetime], ctx[t].then)
    BY <1>5, <2>1, NullAssumption DEF Call_Bridge, Function
  <2>3. b.lifetime # Null => handle[b.lifetime] \in Delegates \cup {Null}
    BY <1>2, <2>1 DEF TypeOK
  <2> QED BY <1>1, <1>3, <2>2, <2>3, CallArrives
<1>6. CASE Call_Delegate(t)
  <2>1. \/ Continue(t, ctx[t])
        \/ Walk(t, "Call", ctx[t], delegate[ctx[t].at].bridge, ctx[t].then)
    BY <1>6 DEF Call_Delegate
  <2>2. delegate[ctx[t].at].bridge \in Bridges \cup {Null}
    BY <1>2, <1>6 DEF Call_Delegate, TypeOK, Delegate
  <2> QED BY <1>1, <1>3, <2>1, <2>2, CallArrives
<1> QED BY <1>4, <1>5, <1>6

\* The operation's reference goes to a release.
LEMMA CountsRelease ==
  ASSUME CountsInv, NEW t \in Actors, Native_Return(t) \/ Finally(t) \/ Uncopy(t)
  PROVE  CountsInv'
<1>1. /\ ContextInv(t) /\ TypeOK /\ ctx[t] \in Context
      /\ UNCHANGED <<delegate, pinned, handle, bridge, closure, slot>>
  BY ThreadTypes DEF CountsInv, Native_Return, Finally, Uncopy
<1>2. CASE \/ Native_Return(t) \/ Uncopy(t)
  <2> DEFINE context == [ctx[t] EXCEPT !.c = Null]
  <2>1. PICK then \in {"idle", "Finally"} :
          /\ Walk(t, "DropClosure", context, ctx[t].c, then)
          /\ \/ pc[t] = "Native" /\ then = "Finally"
             \/ pc[t] = "Uncopy" /\ then = "idle"
    BY <1>2 DEF Native_Return, Uncopy
  <2>2. /\ context \in Context /\ context.d = ctx[t].d /\ context.h = ctx[t].h
        /\ context.b = ctx[t].b /\ context.c = Null
    BY <1>1 DEF Context
  <2>3. ctx[t].c \in Closures
    BY <1>1, <2>1, ThreadTypes DEF ContextInv, Resume, Releases
  <2> HIDE DEF context
  <2>4. /\ pc'[t] = "DropClosure" /\ Others(t)
        /\ ctx'[t].d = context.d /\ ctx'[t].h = context.h /\ ctx'[t].b = context.b
        /\ ctx'[t].c = context.c /\ ctx'[t].at = ctx[t].c /\ ctx'[t].then = then
        /\ pc' \in [Actors -> Steps] /\ ctx' \in [Actors -> Context]
    BY <1>1, <2>1, <2>2, <2>3, WalkFacts DEF Steps
  <2>5. ContextInv(t)'
    BY <1>1, <2>1, <2>2, <2>3, <2>4 DEF ContextInv, Resume, Releases
  <2> QED BY <1>1, <2>1, <2>2, <2>4, <2>5, LocalStep DEF Releases
<1>3. CASE Finally(t)
  <2> DEFINE context == [ctx[t] EXCEPT !.b = Null]
  <2>1. pc[t] = "Finally" /\ Walk(t, "DropBridge", context, ctx[t].b, "idle")
    BY <1>3 DEF Finally
  <2>2. /\ context \in Context /\ context.d = ctx[t].d /\ context.h = ctx[t].h
        /\ context.b = Null /\ context.c = ctx[t].c
    BY <1>1 DEF Context
  <2>3. ctx[t].b \in Bridges
    BY <1>1, <2>1, ThreadTypes DEF ContextInv, Resume, Releases
  <2> HIDE DEF context
  <2>4. /\ pc'[t] = "DropBridge" /\ Others(t)
        /\ ctx'[t].d = context.d /\ ctx'[t].h = context.h /\ ctx'[t].b = context.b
        /\ ctx'[t].c = context.c /\ ctx'[t].at = ctx[t].b /\ ctx'[t].then = "idle"
        /\ pc' \in [Actors -> Steps] /\ ctx' \in [Actors -> Context]
    BY <1>1, <2>1, <2>2, <2>3, WalkFacts DEF Steps
  <2>5. ContextInv(t)'
    BY <1>1, <2>1, <2>2, <2>3, <2>4 DEF ContextInv, Resume, Releases
  <2> QED BY <1>1, <2>1, <2>2, <2>4, <2>5, LocalStep DEF Releases
<1> QED BY <1>2, <1>3

-----------------------------------------------------------------------------
(***************************************************************************)
(* Passing a delegate.                                                     *)
(***************************************************************************)
LEMMA CountsPass ==
  ASSUME CountsInv, NEW t \in Actors, NEW d \in Delegates, NEW h \in Handles, Pass(t, d, h)
  PROVE  CountsInv'
<1> DEFINE context == [NoContext EXCEPT !.d = d, !.h = h]
<1>1. /\ pc[t] = "idle" /\ delegate[d].life \in {"none", "live"} /\ handle[h] = Null
      /\ delegate' = [delegate EXCEPT ![d].life = "live"]
      /\ handle' = [handle EXCEPT ![h] = d]
      /\ pc' = [pc EXCEPT ![t] = "CreateBridge"] /\ ctx' = [ctx EXCEPT ![t] = context]
      /\ UNCHANGED <<pinned, bridge, closure, slot>>
  BY DEF Pass, Goto
<1>2. TypeOK /\ ContextInv(t)
  BY DEF CountsInv
<1>3. /\ context \in Context /\ context.d = d /\ context.h = h /\ context.b = Null
      /\ context.c = Null /\ context.at = Null /\ context.then = "idle"
  BY DEF NoContext, Context
<1> HIDE DEF context
<1>4. /\ pc'[t] = "CreateBridge" /\ ctx'[t] = context /\ Others(t)
      /\ pc' \in [Actors -> Steps] /\ ctx' \in [Actors -> Context]
  BY <1>1, <1>2, <1>3 DEF TypeOK, Others, Steps
<1>5. /\ ctx[t].h = Null /\ ctx[t].b = Null /\ ctx[t].c = Null
  BY <1>1, IdleHolds
<1>6. /\ delegate' \in [Delegates -> Delegate]
      /\ \A e \in Delegates : delegate'[e].bridge = delegate[e].bridge
      /\ \A e \in Delegates : delegate'[e].life =
           IF e = d THEN "live" ELSE delegate[e].life
  BY <1>1, <1>2 DEF TypeOK, Delegate
<1>7. /\ handle'[h] = d /\ d # Null
      /\ \A k \in Handles : k # h => handle'[k] = handle[k]
      /\ handle' \in [Handles -> Delegates \cup {Null}]
  BY <1>1, <1>2, NullAssumption DEF TypeOK
<1>8. TypeOK'
  BY <1>1, <1>2, <1>4, <1>6, <1>7 DEF TypeOK
<1>9. ObjectInv'
  BY <1>1, <1>6 DEF CountsInv, ObjectInv
<1>10. HandleInv'
  <2>1. \A u \in Actors : ctx'[u].h = IF u = t THEN h ELSE ctx[u].h
    BY <1>3, <1>4 DEF Others
  <2>2. /\ \A b \in Bridges : bridge[b].lifetime # h
        /\ \A u \in Actors : ctx[u].h # h
    BY <1>1 DEF CountsInv, HandleInv
  <2>3. \A k \in Handles : k # h => \A u \in Actors : ctx'[u].h = k <=> ctx[u].h = k
    BY <1>5, <2>1, NullAssumption
  <2>4. ASSUME NEW k \in Handles, k # h
        PROVE  /\ handle'[k] # Null <=> \/ \E b \in Bridges : bridge'[b].lifetime = k
                                        \/ \E u \in Actors : ctx'[u].h = k
               /\ \A a, b \in Bridges : bridge'[a].lifetime = k /\ bridge'[b].lifetime = k => a = b
               /\ \A u, v \in Actors : ctx'[u].h = k /\ ctx'[v].h = k => u = v
               /\ \A b \in Bridges, u \in Actors : ~(bridge'[b].lifetime = k /\ ctx'[u].h = k)
    BY <1>1, <1>7, <2>3, <2>4 DEF CountsInv, HandleInv
  <2> QED BY <1>1, <1>7, <2>1, <2>2, <2>4 DEF HandleInv
<1>11. ContextInv(t)'
  BY <1>3, <1>4, NullAssumption DEF ContextInv, Resume, Releases
<1>12. CountInv'
  <2>1. \A b \in Bridges :
          /\ bridge'[b].refs \in Int
          /\ bridge'[b].refs - BridgeShare(t, t, d, Null, b)'
               = bridge[b].refs - BridgeShare(t, t, d, Null, b)
    BY <1>1, <1>2, <1>3, <1>4, <1>5, <1>6 DEF BridgeShare, One, TypeOK, Bridge
  <2>2. \A c \in Closures :
          /\ closure'[c].count \in Int
          /\ closure'[c].count - ClosureShare(Null, Null, t, t, c)'
               = closure[c].count - ClosureShare(Null, Null, t, t, c)
    BY <1>1, <1>2, <1>3, <1>4, <1>5 DEF ClosureShare, One, TypeOK, Closure
  <2>3. /\ CountInv /\ bridge' = bridge /\ closure' = closure /\ slot' = slot
        /\ \A v \in Actors : v # t => pc'[v] = pc[v] /\ ctx'[v] = ctx[v]
    BY <1>1, <1>4 DEF CountsInv, Others
  <2>4. \A e \in Delegates : delegate'[e].bridge = delegate[e].bridge
    BY <1>6
  <2> QED BY ONLY t \in Actors, <2>1, <2>2, <2>3, <2>4, CountStep
<1> QED BY <1>1, <1>4, <1>8, <1>9, <1>10, <1>11, <1>12, DeleteFrame, ContextFrame DEF CountsInv

\* The handle goes from the operation to the new bridge.
LEMMA CountsCreate ==
  ASSUME CountsInv, NEW t \in Actors, NEW b \in Bridges, CreateBridge(t, b)
  PROVE  CountsInv'
<1> DEFINE n == [state |-> "live", refs |-> 1, fn |-> Empty, lifetime |-> ctx[t].h]
           context == [ctx[t] EXCEPT !.h = Null, !.b = b]
<1>1. /\ pc[t] = "CreateBridge" /\ bridge[b].state = "free"
      /\ bridge' = [bridge EXCEPT ![b] = n]
      /\ pc' = [pc EXCEPT ![t] = "Enter"] /\ ctx' = [ctx EXCEPT ![t] = context]
      /\ UNCHANGED <<delegate, pinned, handle, closure, slot>>
  <2>1. ctx' = [ctx EXCEPT ![t].h = Null, ![t].b = b]
    BY DEF CreateBridge
  <2>2. ctx \in [Actors -> Context]
    BY DEF CountsInv, TypeOK
  <2>3. ctx' = [ctx EXCEPT ![t] = context]
    BY ONLY <2>1, <2>2, t \in Actors DEF context, Context
  <2> QED BY <2>3 DEF CreateBridge, Goto
<1>2. TypeOK /\ ContextInv(t) /\ Resume(t) = "CreateBridge"
  BY <1>1 DEF CountsInv, Resume, Releases
<1>3. /\ pc'[t] = "Enter" /\ Others(t)
      /\ ctx'[t].d = ctx[t].d /\ ctx'[t].h = Null /\ ctx'[t].b = b /\ ctx'[t].c = ctx[t].c
      /\ pc' \in [Actors -> Steps] /\ ctx' \in [Actors -> Context]
  <2>1. /\ context \in Context /\ context.d = ctx[t].d /\ context.h = Null
        /\ context.b = b /\ context.c = ctx[t].c
    BY <1>2, ThreadTypes DEF Context
  <2> HIDE DEF context
  <2> QED BY <1>1, <1>2, <2>1 DEF TypeOK, Others, Steps
<1>4. ctx[t].h \in Handles /\ ctx[t].b = Null /\ ctx[t].c = Null /\ ctx[t].d # Null
  BY <1>2, ThreadTypes DEF ContextInv
<1>5. bridge[b] = NoBridge
  BY <1>1 DEF CountsInv, ObjectInv
<1>6. /\ n \in Bridge /\ n.state = "live" /\ n.refs = 1 /\ n.fn = Empty /\ n.lifetime = ctx[t].h
      /\ bridge[b].refs = 0 /\ bridge[b].fn = Empty /\ bridge[b].lifetime = Null
  BY <1>4, <1>5 DEF Bridge, Function, NoBridge
<1> HIDE DEF n
<1>7. /\ bridge'[b] = n /\ \A e \in Bridges : e # b => bridge'[e] = bridge[e]
      /\ bridge' \in [Bridges -> Bridge]
  BY <1>1, <1>2, <1>6 DEF TypeOK
<1>8. TypeOK'
  BY <1>1, <1>2, <1>3, <1>7 DEF TypeOK
<1>9. ObjectInv'
  BY <1>1, <1>6, <1>7 DEF CountsInv, ObjectInv
<1>10. HandleInv'
  <2>1. \A u \in Actors : ctx'[u].h = IF u = t THEN Null ELSE ctx[u].h
    BY <1>3 DEF Others
  <2>2. \A a \in Bridges : bridge'[a].lifetime = IF a = b THEN ctx[t].h ELSE bridge[a].lifetime
    BY <1>6, <1>7
  <2>3. ASSUME NEW k \in Handles
        PROVE  /\ handle'[k] # Null <=> \/ \E a \in Bridges : bridge'[a].lifetime = k
                                        \/ \E u \in Actors : ctx'[u].h = k
               /\ \A a, c \in Bridges : bridge'[a].lifetime = k /\ bridge'[c].lifetime = k => a = c
               /\ \A u, v \in Actors : ctx'[u].h = k /\ ctx'[v].h = k => u = v
               /\ \A a \in Bridges, u \in Actors : ~(bridge'[a].lifetime = k /\ ctx'[u].h = k)
    <3>1. /\ handle[k] # Null <=> \/ \E a \in Bridges : bridge[a].lifetime = k
                                  \/ \E u \in Actors : ctx[u].h = k
          /\ \A a, c \in Bridges : bridge[a].lifetime = k /\ bridge[c].lifetime = k => a = c
          /\ \A u, v \in Actors : ctx[u].h = k /\ ctx[v].h = k => u = v
          /\ \A a \in Bridges, u \in Actors : ~(bridge[a].lifetime = k /\ ctx[u].h = k)
      BY DEF CountsInv, HandleInv
    <3>2. k # Null
      BY NullAssumption
    <3>3. /\ \A a \in Bridges : bridge'[a].lifetime = k <=>
               bridge[a].lifetime = k \/ (a = b /\ k = ctx[t].h)
          /\ \A u \in Actors : ctx'[u].h = k <=> ctx[u].h = k /\ u # t
      BY <1>6, <2>1, <2>2, <3>2
    <3>4. handle'[k] = handle[k]
      BY <1>1
    <3> HIDE DEF n, context
    <3> QED BY ONLY t \in Actors, b \in Bridges, <3>1, <3>3, <3>4
  <2> QED BY <2>3 DEF HandleInv
<1>11. ContextInv(t)'
  BY <1>3, <1>4, NullAssumption DEF ContextInv, Resume, Releases
<1>12. CountInv'
  <2>1. \A e \in Bridges :
          /\ bridge'[e].refs \in Int
          /\ bridge'[e].refs - BridgeShare(t, t, Null, Null, e)'
               = bridge[e].refs - BridgeShare(t, t, Null, Null, e)
    BY <1>1, <1>2, <1>3, <1>4, <1>6, <1>7, NullAssumption DEF BridgeShare, One, TypeOK, Bridge
  <2>2. \A c \in Closures :
          /\ closure'[c].count \in Int
          /\ closure'[c].count - ClosureShare(Null, b, t, t, c)'
               = closure[c].count - ClosureShare(Null, b, t, t, c)
    BY <1>1, <1>2, <1>3, <1>4, <1>6, <1>7, NullAssumption DEF ClosureShare, One, TypeOK, Closure
  <2> QED BY <1>1, <1>3, <1>7, <2>1, <2>2, CountStep DEF CountsInv, Others
<1> QED BY <1>1, <1>3, <1>7, <1>8, <1>9, <1>10, <1>11, <1>12, DeleteFrame, ContextFrame
           DEF CountsInv

\* The call that creates the bridge fails: the handle is freed.
LEMMA CountsCreateFails ==
  ASSUME CountsInv, NEW t \in Actors, CreateFails(t)
  PROVE  CountsInv'
<1>1. /\ pc[t] = "CreateBridge" /\ handle' = [handle EXCEPT ![ctx[t].h] = Null]
      /\ Continue(t, NoContext) /\ UNCHANGED <<delegate, pinned, bridge, closure, slot>>
  BY DEF CreateFails
<1>2. TypeOK /\ ContextInv(t) /\ Resume(t) = "CreateBridge"
  BY <1>1 DEF CountsInv, Resume, Releases
<1>3. ctx[t].h \in Handles /\ ctx[t].b = Null /\ ctx[t].c = Null
  BY <1>2, ThreadTypes DEF ContextInv
<1>4. NoContext \in Context /\ NoContext.then = "idle"
  BY DEF NoContext, Context
<1>5. /\ pc'[t] = "idle" /\ Others(t) /\ ctx'[t] = NoContext
      /\ pc' \in [Actors -> Steps] /\ ctx' \in [Actors -> Context]
  BY <1>1, <1>2, <1>4, ContinueFacts
<1>6. ctx'[t].h = Null /\ ctx'[t].b = Null /\ ctx'[t].c = Null
  BY <1>5 DEF NoContext
<1>7. /\ \A k \in Handles : handle'[k] = IF k = ctx[t].h THEN Null ELSE handle[k]
      /\ handle' \in [Handles -> Delegates \cup {Null}]
  BY <1>1, <1>2 DEF TypeOK
<1>8. TypeOK'
  BY <1>1, <1>2, <1>5, <1>7 DEF TypeOK
<1>9. ObjectInv'
  BY <1>1 DEF CountsInv, ObjectInv
<1>10. HandleInv'
  <2>1. \A u \in Actors : ctx'[u].h = IF u = t THEN Null ELSE ctx[u].h
    BY <1>5, <1>6 DEF Others
  <2>2. ASSUME NEW k \in Handles
        PROVE  /\ handle'[k] # Null <=> \/ \E a \in Bridges : bridge[a].lifetime = k
                                        \/ \E u \in Actors : ctx'[u].h = k
               /\ \A u, v \in Actors : ctx'[u].h = k /\ ctx'[v].h = k => u = v
               /\ \A a \in Bridges, u \in Actors : ~(bridge[a].lifetime = k /\ ctx'[u].h = k)
               /\ \A a, c \in Bridges : bridge[a].lifetime = k /\ bridge[c].lifetime = k => a = c
    <3>1. /\ handle[k] # Null <=> \/ \E a \in Bridges : bridge[a].lifetime = k
                                  \/ \E u \in Actors : ctx[u].h = k
          /\ \A a, c \in Bridges : bridge[a].lifetime = k /\ bridge[c].lifetime = k => a = c
          /\ \A u, v \in Actors : ctx[u].h = k /\ ctx[v].h = k => u = v
          /\ \A a \in Bridges, u \in Actors : ~(bridge[a].lifetime = k /\ ctx[u].h = k)
      BY DEF CountsInv, HandleInv
    <3>2. k # Null
      BY NullAssumption
    <3>3. CASE k = ctx[t].h
      BY <1>7, <2>1, <3>1, <3>2, <3>3
    <3>4. CASE k # ctx[t].h
      BY <1>7, <2>1, <3>1, <3>2, <3>4
    <3> QED BY <3>3, <3>4
  <2> QED BY <1>1, <2>2 DEF HandleInv
<1>11. ContextInv(t)'
  BY <1>5, <1>6 DEF ContextInv, Resume, Releases
<1>12. CountInv'
  <2>1. \A e \in Bridges :
          /\ bridge'[e].refs \in Int
          /\ bridge'[e].refs - BridgeShare(t, t, Null, Null, e)'
               = bridge[e].refs - BridgeShare(t, t, Null, Null, e)
    BY <1>1, <1>2, <1>3, <1>5, <1>6, NullAssumption DEF BridgeShare, One, TypeOK, Bridge
  <2>2. \A c \in Closures :
          /\ closure'[c].count \in Int
          /\ closure'[c].count - ClosureShare(Null, Null, t, t, c)'
               = closure[c].count - ClosureShare(Null, Null, t, t, c)
    BY <1>1, <1>2, <1>3, <1>5, <1>6, NullAssumption DEF ClosureShare, One, TypeOK, Closure
  <2> QED BY <1>1, <1>5, <2>1, <2>2, CountStep DEF CountsInv, Others
<1> QED BY <1>1, <1>5, <1>8, <1>9, <1>10, <1>11, <1>12, DeleteFrame, ContextFrame DEF CountsInv

\* What is held is there.
LEMMA HeldBridge ==
  ASSUME CountsInv, NEW b \in Bridges, NEW t \in Actors, NEW u \in Actors, NEW d, NEW c
  PROVE  /\ BridgeShare(t, u, d, c, b) \in Nat /\ bridge[b].refs \in Nat
         /\ BridgeShare(t, u, d, c, b) <= bridge[b].refs
         /\ bridge[b].refs # 0 => bridge[b].state = "live"
<1>1. bridge[b] \in Bridge /\ (bridge[b].state = "free" => bridge[b] = NoBridge)
  BY DEF CountsInv, TypeOK, ObjectInv
<1>2. bridge[b].refs # 0 => bridge[b].state = "live"
  BY <1>1 DEF Bridge, NoBridge
<1> QED BY <1>1, <1>2, BridgeChange DEF CountsInv, CountInv, Bridge

LEMMA HeldClosure ==
  ASSUME CountsInv, NEW c \in Closures, NEW t \in Actors, NEW u \in Actors, NEW s, NEW b
  PROVE  /\ ClosureShare(s, b, t, u, c) \in Nat /\ closure[c].count \in Nat
         /\ ClosureShare(s, b, t, u, c) <= closure[c].count
         /\ closure[c].count # 0 => closure[c].bridge \in Bridges
BY ClosureChange DEF CountsInv, CountInv, TypeOK, Closure, ObjectInv

\* The new closure takes a reference of the bridge, and is the operation's.
LEMMA CountsEnter ==
  ASSUME CountsInv, NEW t \in Actors, NEW c \in Closures, Enter(t, c)
  PROVE  CountsInv'
<1>1. /\ TypeOK /\ ContextInv(t) /\ pc[t] = "Enter" /\ closure[c].count = 0
      /\ UNCHANGED <<delegate, pinned, handle, slot>>
  BY DEF Enter, CountsInv
<1>2. PICK b \in Bridges : b = ctx[t].b
  BY <1>1, ThreadTypes DEF ContextInv, Resume, Releases
<1>3. ctx[t].c = Null /\ ctx[t].h = Null /\ ctx[t].d # Null /\ ctx[t].d \in Delegates \cup {Null}
  BY <1>1, ThreadTypes DEF ContextInv, Resume, Releases
<1> DEFINE n == [count |-> 1, bridge |-> b, of |-> ctx[t].d]
           m == [bridge[b] EXCEPT !.refs = @ + 1]
           context == [ctx[t] EXCEPT !.c = c]
<1>4. /\ pc'[t] = "Native" /\ Others(t)
      /\ ctx'[t].d = ctx[t].d /\ ctx'[t].h = Null /\ ctx'[t].b = b /\ ctx'[t].c = c
      /\ pc' \in [Actors -> Steps] /\ ctx' \in [Actors -> Context]
  <2>1. /\ context \in Context /\ context.d = ctx[t].d /\ context.h = Null
        /\ context.b = b /\ context.c = c
    BY <1>1, <1>2, <1>3, ThreadTypes DEF Context
  <2>2. ctx' = [ctx EXCEPT ![t] = context] /\ pc' = [pc EXCEPT ![t] = "Native"]
    BY <1>1 DEF Enter, Goto, TypeOK
  <2> HIDE DEF context
  <2> QED BY <1>1, <2>1, <2>2 DEF TypeOK, Others, Steps
<1>5. bridge[b].refs \in Nat /\ bridge[b].refs >= 1 /\ bridge[b].state = "live"
  <2>1. BridgeShare(t, t, Null, Null, b) >= 1
    BY <1>1, <1>2 DEF BridgeShare, One
  <2> QED BY <2>1, HeldBridge
<1>6. /\ m \in Bridge /\ m.state = "live" /\ m.refs = bridge[b].refs + 1
      /\ m.fn = bridge[b].fn /\ m.lifetime = bridge[b].lifetime
  BY <1>1, <1>5 DEF TypeOK, Bridge
<1>7. /\ bridge'[b] = m /\ \A e \in Bridges : e # b => bridge'[e] = bridge[e]
      /\ bridge' \in [Bridges -> Bridge]
  <2>1. bridge' = [bridge EXCEPT ![b] = m]
    BY <1>1, <1>2 DEF Enter, TypeOK
  <2> HIDE DEF m
  <2> QED BY <1>1, <1>6, <2>1 DEF TypeOK
<1>8. n \in Closure /\ n.count = 1 /\ n.bridge = b /\ closure[c].bridge = Null
  BY <1>1, <1>3 DEF Closure, CountsInv, ObjectInv, NoClosure
<1>9. closure' = [closure EXCEPT ![c] = n]
  BY <1>2 DEF Enter
<1> HIDE DEF m, n, context
<1>10. /\ closure'[c] = n /\ \A e \in Closures : e # c => closure'[e] = closure[e]
       /\ closure' \in [Closures -> Closure]
  BY <1>1, <1>8, <1>9 DEF TypeOK
<1>11. TypeOK'
  BY <1>1, <1>4, <1>7, <1>10 DEF TypeOK
<1>12. ObjectInv'
  BY <1>1, <1>6, <1>7, <1>8, <1>10, NullAssumption DEF CountsInv, ObjectInv
<1>13. HandleInv'
  BY <1>1, <1>3, <1>4, <1>6, <1>7, HandleFrame
<1>14. DeleteInv'
  BY <1>4, <1>5, <1>7, DeleteFrame
<1>15. ContextInv(t)'
  BY <1>3, <1>4, NullAssumption DEF ContextInv, Resume, Releases
<1>16. CountInv'
  <2>1. \A e \in Bridges :
          /\ bridge'[e].refs \in Int
          /\ bridge'[e].refs - BridgeShare(t, t, Null, c, e)'
               = bridge[e].refs - BridgeShare(t, t, Null, c, e)
    BY <1>1, <1>2, <1>4, <1>5, <1>6, <1>7, <1>8, <1>10, NullAssumption
       DEF BridgeShare, One, TypeOK, Bridge
  <2>2. \A e \in Closures :
          /\ closure'[e].count \in Int
          /\ closure'[e].count - ClosureShare(Null, b, t, t, e)'
               = closure[e].count - ClosureShare(Null, b, t, t, e)
    BY <1>1, <1>2, <1>3, <1>4, <1>6, <1>7, <1>8, <1>10, NullAssumption
       DEF ClosureShare, One, TypeOK, Closure
  <2>3. /\ CountInv /\ delegate' = delegate /\ slot' = slot
        /\ \A v \in Actors : v # t => pc'[v] = pc[v] /\ ctx'[v] = ctx[v]
    BY <1>1, <1>4 DEF CountsInv, Others
  <2>4. /\ \A e \in Closures : e # c => closure'[e].bridge = closure[e].bridge
        /\ \A e \in Bridges : bridge'[e].fn = bridge[e].fn
    BY <1>6, <1>7, <1>10
  <2> QED BY ONLY t \in Actors, <2>1, <2>2, <2>3, <2>4, CountStep
<1> QED BY <1>4, <1>11, <1>12, <1>13, <1>14, <1>15, <1>16, ContextFrame DEF CountsInv

-----------------------------------------------------------------------------
(***************************************************************************)
(* Variables of the native code.                                           *)
(***************************************************************************)
\* The operation of t stores f in the variable s: what they held of c is still held.
Balance(t, s, f, c) ==
  One(slot[s] = c) + One(ctx[t].c = c)
    = One(f = c) + One(ctx'[t].c = c) + One(pc'[t] = "DropClosure" /\ ctx'[t].at = c)

\* A variable gets a new value; the old one goes to a release.
LEMMA StoreStep ==
  ASSUME CountsInv, NEW t \in Actors, NEW s \in Slots, NEW f, f \in Function, Others(t),
         slot' = [slot EXCEPT ![s] = f],
         UNCHANGED <<delegate, pinned, handle, bridge, closure>>,
         pc' \in [Actors -> Steps], ctx' \in [Actors -> Context],
         ctx'[t].h = ctx[t].h, ctx'[t].b = ctx[t].b, ContextInv(t)',
         pc[t] \notin Releases, pc'[t] \notin {"DropBridge", "Delete"},
         \A c \in Closures : Balance(t, s, f, c)
  PROVE  CountsInv'
<1>1. /\ slot'[s] = f /\ \A e \in Slots : e # s => slot'[e] = slot[e]
      /\ slot' \in [Slots -> Function]
  BY DEF CountsInv, TypeOK
<1>2. TypeOK'
  BY <1>1 DEF CountsInv, TypeOK
<1>3. ObjectInv'
  BY DEF CountsInv, ObjectInv
<1>4. HandleInv'
  BY HandleFrame
<1>5. DeleteInv'
  BY DeleteFrame
<1>6. CountInv'
  <2>1. \A b \in Bridges :
          /\ bridge'[b].refs \in Int
          /\ bridge'[b].refs - BridgeShare(t, t, Null, Null, b)'
               = bridge[b].refs - BridgeShare(t, t, Null, Null, b)
    BY NullAssumption DEF CountsInv, TypeOK, Bridge, BridgeShare, One, Releases
  <2>2. \A c \in Closures :
          /\ closure'[c].count \in Int
          /\ closure'[c].count - ClosureShare(s, Null, t, t, c)'
               = closure[c].count - ClosureShare(s, Null, t, t, c)
    <3> SUFFICES ASSUME NEW c \in Closures
                 PROVE  /\ closure[c].count \in Int
                        /\ ClosureShare(s, Null, t, t, c)' = ClosureShare(s, Null, t, t, c)
      BY DEF ClosureShare, One
    <3>1. closure[c].count \in Int
      BY DEF CountsInv, TypeOK, Closure
    <3>2. /\ ClosureShare(s, Null, t, t, c) = One(slot[s] = c) + One(ctx[t].c = c)
          /\ ClosureShare(s, Null, t, t, c)'
               = One(f = c) + One(ctx'[t].c = c) + One(pc'[t] = "DropClosure" /\ ctx'[t].at = c)
      BY <1>1, NullAssumption DEF ClosureShare, One, Releases
    <3> QED BY <3>1, <3>2 DEF Balance
  <2> QED BY <1>1, <2>1, <2>2, CountStep DEF CountsInv, Others
<1> QED BY <1>2, <1>3, <1>4, <1>5, <1>6, ContextFrame DEF CountsInv

LEMMA CountsStore ==
  ASSUME CountsInv, NEW t \in Actors, NEW s \in Slots, Native_Store(t, s)
  PROVE  CountsInv'
<1> DEFINE moved == [ctx[t] EXCEPT !.c = Null]
           last == [moved EXCEPT !.then = "Finally"]
<1>1. /\ TypeOK /\ ContextInv(t) /\ pc[t] = "Native" /\ slot' = [slot EXCEPT ![s] = ctx[t].c]
      /\ UNCHANGED <<delegate, pinned, handle, bridge, closure>>
      /\ IF slot[s] \in Closures THEN Walk(t, "DropClosure", moved, slot[s], "Finally")
                                 ELSE Continue(t, last)
  BY DEF Native_Store, CountsInv
<1>2. PICK c \in Closures : c = ctx[t].c
  BY <1>1, ThreadTypes DEF ContextInv, Resume, Releases
<1>3. /\ moved \in Context /\ moved.d = ctx[t].d /\ moved.h = ctx[t].h
      /\ moved.b = ctx[t].b /\ moved.c = Null
      /\ last \in Context /\ last.d = ctx[t].d /\ last.h = ctx[t].h
      /\ last.b = ctx[t].b /\ last.c = Null /\ last.then = "Finally"
  BY <1>1, ThreadTypes DEF Context
<1> HIDE DEF moved, last
<1>4. /\ Others(t) /\ pc' \in [Actors -> Steps] /\ ctx' \in [Actors -> Context]
      /\ ctx'[t].d = ctx[t].d /\ ctx'[t].h = ctx[t].h /\ ctx'[t].b = ctx[t].b /\ ctx'[t].c = Null
      /\ IF slot[s] \in Closures
           THEN pc'[t] = "DropClosure" /\ ctx'[t].at = slot[s] /\ ctx'[t].then = "Finally"
           ELSE pc'[t] = "Finally"
  <2>1. CASE slot[s] \in Closures
    BY <1>1, <1>3, <2>1, WalkFacts DEF Steps
  <2>2. CASE slot[s] \notin Closures
    BY <1>1, <1>3, <2>2, ContinueFacts
  <2> QED BY <2>1, <2>2
<1>5. ContextInv(t)'
  BY <1>1, <1>4 DEF ContextInv, Resume, Releases
<1>6. \A e \in Closures : Balance(t, s, c, e)
  BY <1>2, <1>4, NullAssumption DEF Balance, One
<1>7. c \in Function
  BY DEF Function
<1>8. /\ slot' = [slot EXCEPT ![s] = c]
      /\ ctx'[t].h = ctx[t].h /\ ctx'[t].b = ctx[t].b
      /\ pc[t] \notin Releases /\ pc'[t] \notin {"DropBridge", "Delete"}
  BY <1>1, <1>2, <1>4 DEF Releases
<1> QED BY ONLY CountsInv, t \in Actors, s \in Slots, <1>1, <1>4, <1>5, <1>6, <1>7, <1>8, StoreStep

LEMMA CountsAssign ==
  ASSUME CountsInv, NEW t \in Actors, NEW s \in Slots, NEW f \in {Empty, Plain}, Assign(t, s, f)
  PROVE  CountsInv'
<1>1. /\ TypeOK /\ ContextInv(t) /\ pc[t] = "idle" /\ slot' = [slot EXCEPT ![s] = f]
      /\ UNCHANGED <<delegate, pinned, handle, bridge, closure>>
      /\ IF slot[s] \in Closures THEN Walk(t, "DropClosure", NoContext, slot[s], "idle")
                                 ELSE UNCHANGED <<pc, ctx>>
  BY DEF Assign, CountsInv
<1>2. /\ ctx[t].d = Null /\ ctx[t].h = Null /\ ctx[t].b = Null /\ ctx[t].c = Null
      /\ NoContext \in Context
  BY <1>1, IdleHolds
<1>3. /\ Others(t) /\ pc' \in [Actors -> Steps] /\ ctx' \in [Actors -> Context]
      /\ ctx'[t].h = Null /\ ctx'[t].b = Null /\ ctx'[t].c = Null
      /\ IF slot[s] \in Closures
           THEN pc'[t] = "DropClosure" /\ ctx'[t].at = slot[s] /\ ctx'[t].then = "idle"
           ELSE pc'[t] = "idle" /\ ctx'[t] = ctx[t]
  <2>1. CASE slot[s] \in Closures
    BY <1>1, <1>2, <2>1, WalkFacts DEF Steps, NoContext
  <2>2. CASE slot[s] \notin Closures
    BY <1>1, <1>2, <2>2 DEF Others, TypeOK
  <2> QED BY <2>1, <2>2
<1>4. ContextInv(t)'
  BY <1>1, <1>3 DEF ContextInv, Resume, Releases
<1>5. \A e \in Closures : Balance(t, s, f, e)
  BY <1>2, <1>3, NullAssumption DEF Balance, One
<1>6. f \in Function
  BY DEF Function
<1>7. /\ ctx'[t].h = ctx[t].h /\ ctx'[t].b = ctx[t].b
      /\ pc[t] \notin Releases /\ pc'[t] \notin {"DropBridge", "Delete"}
  BY <1>1, <1>2, <1>3 DEF Releases
<1> QED BY ONLY CountsInv, t \in Actors, s \in Slots, <1>1, <1>3, <1>4, <1>5, <1>6, <1>7, StoreStep

LEMMA CopiedFacts ==
  ASSUME TypeOK, NEW f
  PROVE  /\ Copied(f) \in [Closures -> Closure]
         /\ \A c \in Closures : /\ Copied(f)[c].bridge = closure[c].bridge
                                /\ Copied(f)[c].of = closure[c].of
                                /\ c = f => Copied(f)[c].count = closure[c].count + 1
                                /\ c # f => Copied(f)[c] = closure[c]
BY DEF TypeOK, Copied, Closure

\* The native code copies a function to call it.
LEMMA CountsCallSlot ==
  ASSUME CountsInv, NEW t \in Threads, NEW s \in Slots, CallSlot(t, s)
  PROVE  CountsInv'
<1>1. /\ t \in Actors /\ TypeOK /\ ContextInv(t) /\ pc[t] = "idle"
      /\ UNCHANGED <<delegate, pinned, handle, bridge, slot>>
  BY DEF CallSlot, CountsInv, Actors
<1>2. PICK c \in Closures : c = slot[s]
  BY DEF CallSlot
<1> DEFINE context == [NoContext EXCEPT !.c = c]
<1>3. /\ ctx[t].h = Null /\ ctx[t].b = Null /\ ctx[t].c = Null /\ NoContext \in Context
  BY <1>1, IdleHolds
<1>4. /\ closure' = Copied(c) /\ Walk(t, "Call", context, c, "Uncopy")
  BY <1>2 DEF CallSlot
<1>5. /\ context \in Context /\ context.h = Null /\ context.b = Null /\ context.c = c
  BY DEF Context, NoContext
<1> HIDE DEF context
<1>6. /\ pc'[t] = "Call" /\ Others(t)
      /\ ctx'[t].h = Null /\ ctx'[t].b = Null /\ ctx'[t].c = c /\ ctx'[t].then = "Uncopy"
      /\ pc' \in [Actors -> Steps] /\ ctx' \in [Actors -> Context]
  BY <1>1, <1>4, <1>5, WalkFacts DEF Steps
<1>7. /\ closure' \in [Closures -> Closure]
      /\ \A e \in Closures : /\ closure'[e].bridge = closure[e].bridge
                             /\ e = c => closure'[e].count = closure[e].count + 1
                             /\ e # c => closure'[e] = closure[e]
  BY <1>1, <1>4, CopiedFacts
<1>8. closure[c].count \in Nat /\ closure[c].count # 0
  <2>1. ClosureShare(s, Null, t, t, c) >= 1
    BY <1>2 DEF ClosureShare, One
  <2> QED BY <1>1, <2>1, HeldClosure
<1>9. TypeOK'
  BY <1>1, <1>6, <1>7 DEF TypeOK
<1>10. ObjectInv'
  BY <1>1, <1>7, <1>8 DEF CountsInv, ObjectInv
<1>11. HandleInv'
  BY <1>1, <1>3, <1>6, HandleFrame
<1>12. DeleteInv'
  BY <1>1, <1>6, DeleteFrame
<1>13. ContextInv(t)'
  BY <1>6, NullAssumption DEF ContextInv, Resume, Releases
<1>14. CountInv'
  <2>1. \A e \in Bridges :
          /\ bridge'[e].refs \in Int
          /\ bridge'[e].refs - BridgeShare(t, t, Null, Null, e)'
               = bridge[e].refs - BridgeShare(t, t, Null, Null, e)
    BY <1>1, <1>3, <1>6, <1>7, NullAssumption DEF BridgeShare, One, TypeOK, Bridge
  <2>2. \A e \in Closures :
          /\ closure'[e].count \in Int
          /\ closure'[e].count - ClosureShare(Null, Null, t, t, e)'
               = closure[e].count - ClosureShare(Null, Null, t, t, e)
    BY <1>1, <1>3, <1>6, <1>7, NullAssumption DEF ClosureShare, One, TypeOK, Closure
  <2>3. /\ CountInv /\ delegate' = delegate /\ slot' = slot /\ bridge' = bridge
        /\ \A v \in Actors : v # t => pc'[v] = pc[v] /\ ctx'[v] = ctx[v]
    BY <1>1, <1>6 DEF CountsInv, Others
  <2> QED BY ONLY <1>1, <1>7, <2>1, <2>2, <2>3, CountStep
<1> QED BY <1>1, <1>6, <1>9, <1>10, <1>11, <1>12, <1>13, <1>14, ContextFrame DEF CountsInv

-----------------------------------------------------------------------------
(***************************************************************************)
(* Returning a function.                                                   *)
(***************************************************************************)
LEMMA CountsReturn ==
  ASSUME CountsInv, NEW t \in Actors, NEW s \in Slots, NEW b \in Bridges, ReturnFunction(t, s, b)
  PROVE  CountsInv'
<1>1. /\ TypeOK /\ ContextInv(t) /\ pc[t] = "idle" /\ bridge[b].state = "free"
      /\ UNCHANGED <<delegate, pinned, handle, slot>>
  BY DEF ReturnFunction, CountsInv
<1>2. PICK f \in Function : f = slot[s]
  BY <1>1 DEF TypeOK
<1> DEFINE n == [state |-> "live", refs |-> 1, fn |-> f, lifetime |-> Null]
           context == [NoContext EXCEPT !.b = b]
<1>3. /\ ctx[t].h = Null /\ ctx[t].b = Null /\ ctx[t].c = Null /\ NoContext \in Context
  BY <1>1, IdleHolds
<1>4. /\ bridge' = [bridge EXCEPT ![b] = n] /\ closure' = Copied(f)
      /\ pc' = [pc EXCEPT ![t] = "Wrap"] /\ ctx' = [ctx EXCEPT ![t] = context]
  BY <1>2 DEF ReturnFunction, Goto
<1>5. /\ context \in Context /\ context.h = Null /\ context.b = b /\ context.c = Null
  BY DEF Context, NoContext
<1>6. bridge[b].refs = 0 /\ bridge[b].fn = Empty /\ bridge[b].lifetime = Null
  BY <1>1 DEF CountsInv, ObjectInv, NoBridge
<1>7. /\ n \in Bridge /\ n.state = "live" /\ n.refs = 1 /\ n.fn = f /\ n.lifetime = Null
  BY DEF Bridge
<1> HIDE DEF n, context
<1>8. /\ pc'[t] = "Wrap" /\ Others(t)
      /\ ctx'[t].h = Null /\ ctx'[t].b = b /\ ctx'[t].c = Null
      /\ pc' \in [Actors -> Steps] /\ ctx' \in [Actors -> Context]
  BY <1>1, <1>4, <1>5 DEF TypeOK, Others, Steps
<1>9. /\ bridge'[b] = n /\ \A e \in Bridges : e # b => bridge'[e] = bridge[e]
      /\ bridge' \in [Bridges -> Bridge]
  BY <1>1, <1>4, <1>7 DEF TypeOK
<1>10. /\ closure' \in [Closures -> Closure]
       /\ \A e \in Closures : /\ closure'[e].bridge = closure[e].bridge
                              /\ e = f => closure'[e].count = closure[e].count + 1
                              /\ e # f => closure'[e] = closure[e]
  BY <1>1, <1>4, CopiedFacts
<1>11. ASSUME f \in Closures PROVE closure[f].count \in Nat /\ closure[f].count # 0
  <2>1. ClosureShare(s, Null, t, t, f) >= 1
    BY <1>2 DEF ClosureShare, One
  <2> QED BY <1>11, <2>1, HeldClosure
<1>12. TypeOK'
  BY <1>1, <1>8, <1>9, <1>10 DEF TypeOK
<1>13. ObjectInv'
  BY <1>1, <1>7, <1>9, <1>10, <1>11 DEF CountsInv, ObjectInv
<1>14. HandleInv'
  <2>1. \A e \in Bridges : bridge'[e].lifetime = bridge[e].lifetime
    BY <1>6, <1>7, <1>9
  <2> QED BY <1>1, <1>3, <1>8, <2>1, HandleFrame
<1>15. DeleteInv'
  <2>1. \A e \in Bridges : bridge[e].state = "live" => bridge'[e] = bridge[e]
    BY <1>1, <1>9
  <2> QED BY <1>8, <2>1, DeleteFrame
<1>16. ContextInv(t)'
  BY <1>8, NullAssumption DEF ContextInv, Resume, Releases
<1>17. CountInv'
  <2>1. \A e \in Bridges :
          /\ bridge'[e].refs \in Int
          /\ bridge'[e].refs - BridgeShare(t, t, Null, Null, e)'
               = bridge[e].refs - BridgeShare(t, t, Null, Null, e)
    BY <1>1, <1>3, <1>6, <1>7, <1>8, <1>9, <1>10, NullAssumption
       DEF BridgeShare, One, TypeOK, Bridge
  <2>2. \A e \in Closures :
          /\ closure'[e].count \in Int
          /\ closure'[e].count - ClosureShare(Null, b, t, t, e)'
               = closure[e].count - ClosureShare(Null, b, t, t, e)
    BY <1>1, <1>3, <1>6, <1>7, <1>8, <1>9, <1>10, NullAssumption
       DEF ClosureShare, One, TypeOK, Closure
  <2>3. /\ CountInv /\ delegate' = delegate /\ slot' = slot
        /\ \A v \in Actors : v # t => pc'[v] = pc[v] /\ ctx'[v] = ctx[v]
        /\ \A e \in Bridges : e # b => bridge'[e].fn = bridge[e].fn
    BY <1>1, <1>8, <1>9 DEF CountsInv, Others
  <2> QED BY ONLY t \in Actors, <1>10, <2>1, <2>2, <2>3, CountStep
<1> QED BY <1>8, <1>12, <1>13, <1>14, <1>15, <1>16, <1>17, ContextFrame DEF CountsInv

\* The new delegate is the owner of the bridge.
LEMMA CountsWrap ==
  ASSUME CountsInv, NEW t \in Actors, NEW d \in Delegates, Wrap(t, d)
  PROVE  CountsInv'
<1>1. /\ TypeOK /\ ContextInv(t) /\ pc[t] = "Wrap" /\ delegate[d].life = "none"
      /\ Continue(t, NoContext) /\ UNCHANGED <<pinned, handle, bridge, closure, slot>>
  BY DEF Wrap, CountsInv
<1>2. PICK b \in Bridges : b = ctx[t].b
  BY <1>1, ThreadTypes DEF ContextInv, Resume, Releases
<1> DEFINE n == [life |-> "live", bridge |-> b]
<1>3. ctx[t].h = Null /\ ctx[t].c = Null
  BY <1>1 DEF ContextInv, Resume, Releases
<1>4. NoContext \in Context /\ NoContext.then = "idle"
  BY DEF NoContext, Context
<1>5. /\ pc'[t] = "idle" /\ Others(t) /\ ctx'[t] = NoContext
      /\ pc' \in [Actors -> Steps] /\ ctx' \in [Actors -> Context]
  BY <1>1, <1>4, ContinueFacts
<1>6. ctx'[t].h = Null /\ ctx'[t].b = Null /\ ctx'[t].c = Null
  BY <1>5 DEF NoContext
<1>7. n \in Delegate /\ n.life = "live" /\ n.bridge = b /\ delegate[d].bridge = Null
  BY <1>1 DEF Delegate, CountsInv, ObjectInv
<1>8. delegate' = [delegate EXCEPT ![d] = n]
  BY <1>2 DEF Wrap
<1> HIDE DEF n
<1>9. /\ delegate'[d] = n /\ \A e \in Delegates : e # d => delegate'[e] = delegate[e]
      /\ delegate' \in [Delegates -> Delegate]
  BY <1>1, <1>7, <1>8 DEF TypeOK
<1>10. TypeOK'
  BY <1>1, <1>5, <1>9 DEF TypeOK
<1>11. ObjectInv'
  BY <1>1, <1>7, <1>9 DEF CountsInv, ObjectInv
<1>12. HandleInv'
  BY <1>1, <1>3, <1>5, <1>6, HandleFrame
<1>13. DeleteInv'
  BY <1>1, <1>5, DeleteFrame
<1>14. ContextInv(t)'
  BY <1>5, <1>6 DEF ContextInv, Resume, Releases
<1>15. CountInv'
  <2>1. \A e \in Bridges :
          /\ bridge'[e].refs \in Int
          /\ bridge'[e].refs - BridgeShare(t, t, d, Null, e)'
               = bridge[e].refs - BridgeShare(t, t, d, Null, e)
    BY <1>1, <1>2, <1>5, <1>6, <1>7, <1>9, NullAssumption DEF BridgeShare, One, TypeOK, Bridge
  <2>2. \A e \in Closures :
          /\ closure'[e].count \in Int
          /\ closure'[e].count - ClosureShare(Null, Null, t, t, e)'
               = closure[e].count - ClosureShare(Null, Null, t, t, e)
    BY <1>1, <1>3, <1>5, <1>6, NullAssumption DEF ClosureShare, One, TypeOK, Closure
  <2>3. /\ CountInv /\ slot' = slot /\ bridge' = bridge /\ closure' = closure
        /\ \A v \in Actors : v # t => pc'[v] = pc[v] /\ ctx'[v] = ctx[v]
        /\ \A e \in Delegates : e # d => delegate'[e].bridge = delegate[e].bridge
    BY <1>1, <1>5, <1>9 DEF CountsInv, Others
  <2> QED BY ONLY t \in Actors, <2>1, <2>2, <2>3, CountStep
<1> QED BY <1>1, <1>5, <1>10, <1>11, <1>12, <1>13, <1>14, <1>15, ContextFrame DEF CountsInv

-----------------------------------------------------------------------------
(***************************************************************************)
(* Delegates.                                                              *)
(***************************************************************************)
\* A delegate is used, lost or collected, but what it owns stays.
LEMMA DelegateStep ==
  ASSUME CountsInv, UNCHANGED <<handle, bridge, closure, slot, pc, ctx>>,
         pinned' \subseteq Delegates, delegate' \in [Delegates -> Delegate],
         \A d \in Delegates : /\ delegate'[d].bridge = delegate[d].bridge
                              /\ delegate'[d].life = "none" => delegate'[d].bridge = Null
                              /\ delegate'[d].life = "dead" => delegate'[d].bridge # Null
  PROVE  CountsInv'
<1>1. Finalizer \in Actors /\ Others(Finalizer) /\ ContextInv(Finalizer)'
  BY DEF Actors, Others, CountsInv, ContextInv, Resume
<1>2. TypeOK'
  BY DEF CountsInv, TypeOK
<1>3. ObjectInv'
  BY DEF CountsInv, ObjectInv
<1>4. HandleInv'
  BY DEF CountsInv, HandleInv
<1>5. DeleteInv'
  BY DEF CountsInv, DeleteInv
<1>6. CountInv'
  <2>1. \A b \in Bridges : BridgeHolders(b)' = BridgeHolders(b)
    BY DEF BridgeHolders
  <2>2. \A c \in Closures : ClosureHolders(c)' = ClosureHolders(c)
    BY DEF ClosureHolders
  <2> QED BY <2>1, <2>2 DEF CountsInv, CountInv
<1> QED BY <1>1, <1>2, <1>3, <1>4, <1>5, <1>6, ContextFrame DEF CountsInv

LEMMA CountsDelegate ==
  ASSUME CountsInv, NEW d \in Delegates,
         Lose(d) \/ Collect(d) \/ \E t \in Threads : RegisterFunctionPointer(t, d)
  PROVE  CountsInv'
<1>1. /\ TypeOK /\ ObjectInv /\ UNCHANGED <<handle, bridge, closure, slot, pc, ctx>>
      /\ pinned' \subseteq Delegates
  BY DEF CountsInv, TypeOK, Lose, Collect, RegisterFunctionPointer
<1>2. CASE Lose(d) \/ \E t \in Threads : RegisterFunctionPointer(t, d)
  <2>1. PICK life \in {"live", "lost"} : delegate' = [delegate EXCEPT ![d].life = life]
    BY <1>2 DEF Lose, RegisterFunctionPointer
  <2>2. /\ delegate' \in [Delegates -> Delegate]
        /\ \A e \in Delegates : /\ delegate'[e].bridge = delegate[e].bridge
                                /\ e # d => delegate'[e] = delegate[e]
        /\ delegate'[d].life = life
    BY <1>1, <2>1 DEF TypeOK, Delegate
  <2> QED BY <1>1, <2>2, DelegateStep DEF ObjectInv
<1>3. CASE Collect(d)
  <2> DEFINE n == IF delegate[d].bridge = Null THEN NoDelegate
                                               ELSE [delegate[d] EXCEPT !.life = "dead"]
  <2>1. delegate' = [delegate EXCEPT ![d] = n]
    BY <1>1, <1>3 DEF Collect, TypeOK
  <2>2. /\ n \in Delegate /\ n.bridge = delegate[d].bridge
        /\ n.life = "none" => n.bridge = Null
        /\ n.life = "dead" => n.bridge # Null
    BY <1>1 DEF TypeOK, Delegate, NoDelegate
  <2> HIDE DEF n
  <2>3. /\ delegate'[d] = n /\ \A e \in Delegates : e # d => delegate'[e] = delegate[e]
        /\ delegate' \in [Delegates -> Delegate]
    BY <1>1, <2>1, <2>2 DEF TypeOK
  <2> QED BY <1>1, <2>2, <2>3, DelegateStep DEF ObjectInv
<1> QED BY <1>2, <1>3

\* The owner's reference goes to a release.
LEMMA CountsFinalize ==
  ASSUME CountsInv, NEW d \in Delegates, Finalize(d)
  PROVE  CountsInv'
<1>1. PICK t \in Actors : t = Finalizer
  BY DEF Actors
<1>2. /\ TypeOK /\ pc[t] = "idle" /\ delegate[d].life = "dead"
      /\ delegate' = [delegate EXCEPT ![d] = NoDelegate]
      /\ UNCHANGED <<pinned, handle, bridge, closure, slot>>
  BY <1>1 DEF Finalize, CountsInv
<1>3. PICK b \in Bridges : b = delegate[d].bridge
  BY <1>2 DEF CountsInv, ObjectInv, TypeOK, Delegate
<1>4. Walk(t, "DropBridge", NoContext, b, "idle")
  BY <1>1, <1>3 DEF Finalize
<1>5. /\ ctx[t].h = Null /\ ctx[t].b = Null /\ ctx[t].c = Null /\ NoContext \in Context
  BY <1>2, IdleHolds
<1>6. /\ pc'[t] = "DropBridge" /\ Others(t) /\ ctx'[t].h = Null /\ ctx'[t].b = Null
      /\ ctx'[t].c = Null /\ ctx'[t].at = b /\ ctx'[t].then = "idle"
      /\ pc' \in [Actors -> Steps] /\ ctx' \in [Actors -> Context]
  BY <1>2, <1>4, <1>5, WalkFacts DEF NoContext, Steps
<1>7. NoDelegate \in Delegate /\ NoDelegate.life = "none" /\ NoDelegate.bridge = Null
  BY DEF Delegate, NoDelegate
<1>8. /\ delegate'[d] = NoDelegate /\ \A e \in Delegates : e # d => delegate'[e] = delegate[e]
      /\ delegate' \in [Delegates -> Delegate]
  BY <1>2, <1>7 DEF TypeOK
<1>9. TypeOK'
  BY <1>2, <1>6, <1>8 DEF TypeOK
<1>10. ObjectInv'
  BY <1>2, <1>7, <1>8 DEF CountsInv, ObjectInv
<1>11. HandleInv'
  BY <1>2, <1>5, <1>6, HandleFrame
<1>12. DeleteInv'
  BY <1>2, <1>6, DeleteFrame
<1>13. ContextInv(t)'
  BY <1>6 DEF ContextInv, Resume, Releases
<1>14. CountInv'
  <2>1. \A e \in Bridges :
          /\ bridge'[e].refs \in Int
          /\ bridge'[e].refs - BridgeShare(t, t, d, Null, e)'
               = bridge[e].refs - BridgeShare(t, t, d, Null, e)
    BY <1>2, <1>3, <1>5, <1>6, <1>7, <1>8, NullAssumption DEF BridgeShare, One, TypeOK, Bridge
  <2>2. \A e \in Closures :
          /\ closure'[e].count \in Int
          /\ closure'[e].count - ClosureShare(Null, Null, t, t, e)'
               = closure[e].count - ClosureShare(Null, Null, t, t, e)
    BY <1>2, <1>5, <1>6, NullAssumption DEF ClosureShare, One, TypeOK, Closure
  <2>3. /\ CountInv /\ slot' = slot /\ bridge' = bridge /\ closure' = closure
        /\ \A v \in Actors : v # t => pc'[v] = pc[v] /\ ctx'[v] = ctx[v]
        /\ \A e \in Delegates : e # d => delegate'[e].bridge = delegate[e].bridge
    BY <1>2, <1>6, <1>8 DEF CountsInv, Others
  <2> QED BY ONLY t \in Actors, <2>1, <2>2, <2>3, CountStep
<1> QED BY <1>2, <1>6, <1>9, <1>10, <1>11, <1>12, <1>13, <1>14, ContextFrame DEF CountsInv

-----------------------------------------------------------------------------
(***************************************************************************)
(* Releases.                                                               *)
(***************************************************************************)
LEMMA ReleaseGoesOn ==
  ASSUME CountsInv, NEW t \in Actors, pc[t] \in Releases, NEW step \in Releases, NEW at,
         IF step = "DropClosure" THEN at \in Closures ELSE at \in Bridges,
         Walk(t, step, ctx[t], at, ctx[t].then)
  PROVE  /\ Others(t) /\ ContextInv(t)' /\ pc'[t] = step /\ ctx'[t].at = at
         /\ pc' \in [Actors -> Steps] /\ ctx' \in [Actors -> Context]
         /\ ctx'[t].h = ctx[t].h /\ ctx'[t].b = ctx[t].b /\ ctx'[t].c = ctx[t].c
<1>1. /\ TypeOK /\ ContextInv(t) /\ ctx[t] \in Context /\ step \in Steps
      /\ at \in Delegates \cup Bridges \cup Closures \cup {Null}
      /\ ctx[t].then \in {"idle", "Finally"}
  BY ThreadTypes DEF CountsInv, ContextInv, Releases, Steps
<1>2. /\ pc'[t] = step /\ Others(t)
      /\ ctx'[t].d = ctx[t].d /\ ctx'[t].h = ctx[t].h /\ ctx'[t].b = ctx[t].b
      /\ ctx'[t].c = ctx[t].c /\ ctx'[t].at = at /\ ctx'[t].then = ctx[t].then
      /\ pc' \in [Actors -> Steps] /\ ctx' \in [Actors -> Context]
  BY <1>1, WalkFacts
<1>3. ContextInv(t)'
  BY <1>1, <1>2 DEF ContextInv, Resume, Releases
<1> QED BY <1>2, <1>3

LEMMA ReleaseEnds ==
  ASSUME CountsInv, NEW t \in Actors, pc[t] \in Releases, Continue(t, ctx[t])
  PROVE  /\ Others(t) /\ ContextInv(t)' /\ pc'[t] \in {"idle", "Finally"}
         /\ pc' \in [Actors -> Steps] /\ ctx' \in [Actors -> Context]
         /\ ctx'[t].h = ctx[t].h /\ ctx'[t].b = ctx[t].b /\ ctx'[t].c = ctx[t].c
<1>1. /\ TypeOK /\ ContextInv(t) /\ ctx[t] \in Context /\ Resume(t) = ctx[t].then
      /\ ctx[t].then \in {"idle", "Finally"}
  BY ThreadTypes DEF CountsInv, ContextInv, Releases, Resume
<1>2. /\ pc'[t] = ctx[t].then /\ Others(t)
      /\ ctx[t].then = "idle" => ctx'[t] = NoContext
      /\ ctx[t].then # "idle" =>
           /\ ctx'[t].d = ctx[t].d /\ ctx'[t].h = ctx[t].h /\ ctx'[t].b = ctx[t].b
           /\ ctx'[t].c = ctx[t].c
      /\ pc' \in [Actors -> Steps] /\ ctx' \in [Actors -> Context]
  BY <1>1, ContinueFacts
<1>3. Resume(t) = "idle" => ctx[t].h = Null /\ ctx[t].b = Null /\ ctx[t].c = Null
  BY <1>1 DEF ContextInv
<1>4. ctx'[t].h = ctx[t].h /\ ctx'[t].b = ctx[t].b /\ ctx'[t].c = ctx[t].c
  BY <1>1, <1>2, <1>3 DEF NoContext
<1>5. ContextInv(t)'
  <2>1. Resume(t)' = Resume(t)
    BY <1>1, <1>2 DEF Resume, Releases
  <2> QED BY <1>1, <1>2, <1>4, <2>1 DEF ContextInv, Releases
<1> QED BY <1>1, <1>2, <1>4, <1>5

\* One holder fewer, or none and the reference of the bridge goes to a release.
LEMMA CountsDropClosure ==
  ASSUME CountsInv, NEW t \in Actors, DropClosure(t)
  PROVE  CountsInv'
<1>1. /\ TypeOK /\ ContextInv(t) /\ pc[t] = "DropClosure" /\ pc[t] \in Releases
      /\ UNCHANGED <<delegate, pinned, handle, bridge, slot>>
  BY DEF DropClosure, CountsInv, Releases
<1>2. PICK c \in Closures : c = ctx[t].at
  BY <1>1 DEF ContextInv
<1>3. closure[c].count \in Nat /\ closure[c].count >= 1 /\ closure[c].bridge \in Bridges
  <2>1. ClosureShare(Null, Null, t, t, c) >= 1
    BY <1>1, <1>2 DEF ClosureShare, One
  <2> QED BY <2>1, HeldClosure
<1> DEFINE last == closure[c].count = 1
           n == IF last THEN NoClosure ELSE [closure[c] EXCEPT !.count = @ - 1]
<1>4. closure' = [closure EXCEPT ![c] = n]
  BY <1>1, <1>2 DEF DropClosure, TypeOK
<1>5. IF last THEN Walk(t, "DropBridge", ctx[t], closure[c].bridge, ctx[t].then)
              ELSE Continue(t, ctx[t])
  BY <1>2 DEF DropClosure
<1>6. /\ n \in Closure /\ n.count = closure[c].count - 1
      /\ last => n = NoClosure /\ n.bridge = Null
      /\ ~last => n.bridge = closure[c].bridge /\ n.count # 0
  BY <1>1, <1>3 DEF TypeOK, Closure, NoClosure
<1>7. n.count = 0 <=> last
  BY <1>3, <1>6
<1> HIDE DEF n
<1>8. /\ Others(t) /\ ContextInv(t)'
      /\ pc' \in [Actors -> Steps] /\ ctx' \in [Actors -> Context]
      /\ ctx'[t].h = ctx[t].h /\ ctx'[t].b = ctx[t].b /\ ctx'[t].c = ctx[t].c
      /\ IF last THEN pc'[t] = "DropBridge" /\ ctx'[t].at = closure[c].bridge
                 ELSE pc'[t] \in {"idle", "Finally"}
  <2>1. CASE last
    BY <1>1, <1>3, <1>5, <2>1, ReleaseGoesOn DEF Releases
  <2>2. CASE ~last
    BY <1>1, <1>5, <2>2, ReleaseEnds
  <2> QED BY <2>1, <2>2
<1>9. /\ closure'[c] = n /\ \A e \in Closures : e # c => closure'[e] = closure[e]
      /\ closure' \in [Closures -> Closure]
  BY <1>1, <1>4, <1>6 DEF TypeOK
<1>10. TypeOK'
  BY <1>1, <1>8, <1>9 DEF TypeOK
<1>11. ObjectInv'
  BY <1>1, <1>3, <1>6, <1>7, <1>9, NullAssumption DEF CountsInv, ObjectInv
<1>12. HandleInv'
  BY <1>1, <1>8, HandleFrame
<1>13. DeleteInv'
  BY <1>1, <1>8, DeleteFrame
<1>14. CountInv'
  <2>1. \A e \in Bridges :
          /\ bridge'[e].refs \in Int
          /\ bridge'[e].refs - BridgeShare(t, t, Null, c, e)'
               = bridge[e].refs - BridgeShare(t, t, Null, c, e)
    BY <1>1, <1>6, <1>8, <1>9, NullAssumption DEF BridgeShare, One, TypeOK, Bridge
  <2>2. \A e \in Closures :
          /\ closure'[e].count \in Int
          /\ closure'[e].count - ClosureShare(Null, Null, t, t, e)'
               = closure[e].count - ClosureShare(Null, Null, t, t, e)
    BY <1>1, <1>2, <1>3, <1>6, <1>8, <1>9, NullAssumption DEF ClosureShare, One, TypeOK, Closure
  <2>3. /\ CountInv /\ delegate' = delegate /\ slot' = slot /\ bridge' = bridge
        /\ \A v \in Actors : v # t => pc'[v] = pc[v] /\ ctx'[v] = ctx[v]
        /\ \A e \in Closures : e # c => closure'[e].bridge = closure[e].bridge
    BY <1>1, <1>8, <1>9 DEF CountsInv, Others
  <2> QED BY ONLY t \in Actors, <2>1, <2>2, <2>3, CountStep
<1> QED BY <1>8, <1>10, <1>11, <1>12, <1>13, <1>14, ContextFrame DEF CountsInv

\* One reference fewer, or none and the thread runs the destructor.
LEMMA CountsDropBridge ==
  ASSUME CountsInv, NEW t \in Actors, DropBridge(t)
  PROVE  CountsInv'
<1>1. /\ TypeOK /\ ContextInv(t) /\ pc[t] = "DropBridge" /\ pc[t] \in Releases
      /\ UNCHANGED <<delegate, pinned, handle, closure, slot>>
  BY DEF DropBridge, CountsInv, Releases
<1>2. PICK b \in Bridges : b = ctx[t].at
  BY <1>1 DEF ContextInv
<1>3. bridge[b].refs \in Nat /\ bridge[b].refs >= 1 /\ bridge[b].state = "live"
  <2>1. BridgeShare(t, t, Null, Null, b) >= 1
    BY <1>1, <1>2 DEF BridgeShare, One
  <2> QED BY <2>1, HeldBridge
<1> DEFINE last == bridge[b].refs = 1
           n == [bridge[b] EXCEPT !.refs = @ - 1]
<1>4. bridge' = [bridge EXCEPT ![b] = n]
  BY <1>1, <1>2 DEF DropBridge, TypeOK
<1>5. IF last THEN Walk(t, "Delete", ctx[t], b, ctx[t].then) ELSE Continue(t, ctx[t])
  BY <1>2 DEF DropBridge
<1>6. /\ n \in Bridge /\ n.refs = bridge[b].refs - 1 /\ n.state = "live"
      /\ n.fn = bridge[b].fn /\ n.lifetime = bridge[b].lifetime
  BY <1>1, <1>3 DEF TypeOK, Bridge
<1> HIDE DEF n
<1>7. /\ Others(t) /\ ContextInv(t)'
      /\ pc' \in [Actors -> Steps] /\ ctx' \in [Actors -> Context]
      /\ ctx'[t].h = ctx[t].h /\ ctx'[t].b = ctx[t].b /\ ctx'[t].c = ctx[t].c
      /\ IF last THEN pc'[t] = "Delete" /\ ctx'[t].at = b
                 ELSE pc'[t] \in {"idle", "Finally"}
  <2>1. CASE last
    BY <1>1, <1>5, <2>1, ReleaseGoesOn DEF Releases
  <2>2. CASE ~last
    BY <1>1, <1>5, <2>2, ReleaseEnds
  <2> QED BY <2>1, <2>2
<1>8. /\ bridge'[b] = n /\ \A e \in Bridges : e # b => bridge'[e] = bridge[e]
      /\ bridge' \in [Bridges -> Bridge]
  BY <1>1, <1>4, <1>6 DEF TypeOK
<1>9. TypeOK'
  BY <1>1, <1>7, <1>8 DEF TypeOK
<1>10. ObjectInv'
  BY <1>1, <1>6, <1>8 DEF CountsInv, ObjectInv
<1>11. HandleInv'
  BY <1>1, <1>6, <1>7, <1>8, HandleFrame
<1>12. DeleteInv'
  BY <1>3, <1>6, <1>7, <1>8, DeleteFrame
<1>13. CountInv'
  <2>1. \A e \in Bridges :
          /\ bridge'[e].refs \in Int
          /\ bridge'[e].refs - BridgeShare(t, t, Null, Null, e)'
               = bridge[e].refs - BridgeShare(t, t, Null, Null, e)
    BY <1>1, <1>2, <1>3, <1>6, <1>7, <1>8, NullAssumption DEF BridgeShare, One, TypeOK, Bridge
  <2>2. \A e \in Closures :
          /\ closure'[e].count \in Int
          /\ closure'[e].count - ClosureShare(Null, b, t, t, e)'
               = closure[e].count - ClosureShare(Null, b, t, t, e)
    BY <1>1, <1>6, <1>7, <1>8, NullAssumption DEF ClosureShare, One, TypeOK, Closure
  <2>3. /\ CountInv /\ delegate' = delegate /\ slot' = slot /\ closure' = closure
        /\ \A v \in Actors : v # t => pc'[v] = pc[v] /\ ctx'[v] = ctx[v]
        /\ \A e \in Bridges : bridge'[e].fn = bridge[e].fn
    BY <1>1, <1>6, <1>7, <1>8 DEF CountsInv, Others
  <2> QED BY ONLY t \in Actors, <2>1, <2>2, <2>3, CountStep
<1> QED BY <1>7, <1>9, <1>10, <1>11, <1>12, <1>13, ContextFrame DEF CountsInv

\* The destructor frees the handle and hands the function on to a release.
LEMMA CountsDelete ==
  ASSUME CountsInv, NEW t \in Actors, Delete(t)
  PROVE  CountsInv'
<1>1. /\ TypeOK /\ ContextInv(t) /\ pc[t] = "Delete" /\ pc[t] \in Releases
      /\ UNCHANGED <<delegate, pinned, closure, slot>>
  BY DEF Delete, CountsInv, Releases
<1>2. PICK b \in Bridges : b = ctx[t].at
  BY <1>1 DEF ContextInv
<1>3. bridge[b].refs = 0 /\ bridge[b].fn \in Function
  BY <1>1, <1>2 DEF CountsInv, DeleteInv, TypeOK, Bridge
<1> DEFINE has == bridge[b].fn \in Closures
<1>4. /\ bridge' = [bridge EXCEPT ![b] = NoBridge]
      /\ handle' = [h \in Handles |-> IF h = bridge[b].lifetime THEN Null ELSE handle[h]]
      /\ IF has THEN Walk(t, "DropClosure", ctx[t], bridge[b].fn, ctx[t].then)
                ELSE Continue(t, ctx[t])
  BY <1>2 DEF Delete
<1>5. /\ NoBridge \in Bridge /\ NoBridge.refs = 0 /\ NoBridge.state = "free"
      /\ NoBridge.fn = Empty /\ NoBridge.lifetime = Null
  BY DEF NoBridge, Bridge, Function
<1>6. /\ Others(t) /\ ContextInv(t)'
      /\ pc' \in [Actors -> Steps] /\ ctx' \in [Actors -> Context]
      /\ ctx'[t].h = ctx[t].h /\ ctx'[t].b = ctx[t].b /\ ctx'[t].c = ctx[t].c
      /\ IF has THEN pc'[t] = "DropClosure" /\ ctx'[t].at = bridge[b].fn
                ELSE pc'[t] \in {"idle", "Finally"}
  <2>1. CASE has
    BY <1>1, <1>4, <2>1, ReleaseGoesOn DEF Releases
  <2>2. CASE ~has
    BY <1>1, <1>4, <2>2, ReleaseEnds
  <2> QED BY <2>1, <2>2
<1>7. /\ bridge'[b] = NoBridge /\ \A e \in Bridges : e # b => bridge'[e] = bridge[e]
      /\ bridge' \in [Bridges -> Bridge]
  BY <1>1, <1>4, <1>5 DEF TypeOK
<1>8. /\ \A h \in Handles : handle'[h] = IF h = bridge[b].lifetime THEN Null ELSE handle[h]
      /\ handle' \in [Handles -> Delegates \cup {Null}]
  BY <1>1, <1>4 DEF TypeOK
<1>9. TypeOK'
  BY <1>1, <1>6, <1>7, <1>8 DEF TypeOK
<1>10. ObjectInv'
  BY <1>1, <1>7 DEF CountsInv, ObjectInv
<1>11. HandleInv'
  <2>1. \A u \in Actors : ctx'[u].h = ctx[u].h
    BY <1>6 DEF Others
  <2>2. \A e \in Bridges : bridge'[e].lifetime = IF e = b THEN Null ELSE bridge[e].lifetime
    BY <1>5, <1>7
  <2>3. ASSUME NEW k \in Handles
        PROVE  /\ handle'[k] # Null <=> \/ \E a \in Bridges : bridge'[a].lifetime = k
                                        \/ \E u \in Actors : ctx'[u].h = k
               /\ \A a, c \in Bridges : bridge'[a].lifetime = k /\ bridge'[c].lifetime = k => a = c
               /\ \A u, v \in Actors : ctx'[u].h = k /\ ctx'[v].h = k => u = v
               /\ \A a \in Bridges, u \in Actors : ~(bridge'[a].lifetime = k /\ ctx'[u].h = k)
    <3>1. /\ handle[k] # Null <=> \/ \E a \in Bridges : bridge[a].lifetime = k
                                  \/ \E u \in Actors : ctx[u].h = k
          /\ \A a, c \in Bridges : bridge[a].lifetime = k /\ bridge[c].lifetime = k => a = c
          /\ \A u, v \in Actors : ctx[u].h = k /\ ctx[v].h = k => u = v
          /\ \A a \in Bridges, u \in Actors : ~(bridge[a].lifetime = k /\ ctx[u].h = k)
      BY DEF CountsInv, HandleInv
    <3>2. k # Null
      BY NullAssumption
    <3>3. CASE k = bridge[b].lifetime
      BY <1>8, <2>1, <2>2, <3>1, <3>2, <3>3
    <3>4. CASE k # bridge[b].lifetime
      BY <1>8, <2>1, <2>2, <3>1, <3>2, <3>4
    <3> QED BY <3>3, <3>4
  <2> QED BY <2>3 DEF HandleInv
<1>12. DeleteInv'
  BY <1>1, <1>2, <1>6, <1>7, DeleteFrame
<1>13. CountInv'
  <2>1. \A e \in Bridges :
          /\ bridge'[e].refs \in Int
          /\ bridge'[e].refs - BridgeShare(t, t, Null, Null, e)'
               = bridge[e].refs - BridgeShare(t, t, Null, Null, e)
    BY <1>1, <1>3, <1>5, <1>6, <1>7, NullAssumption DEF BridgeShare, One, TypeOK, Bridge
  <2>2. \A e \in Closures :
          /\ closure'[e].count \in Int
          /\ closure'[e].count - ClosureShare(Null, b, t, t, e)'
               = closure[e].count - ClosureShare(Null, b, t, t, e)
    BY <1>1, <1>5, <1>6, <1>7, NullAssumption DEF ClosureShare, One, TypeOK, Closure
  <2>3. /\ CountInv /\ delegate' = delegate /\ slot' = slot /\ closure' = closure
        /\ \A v \in Actors : v # t => pc'[v] = pc[v] /\ ctx'[v] = ctx[v]
        /\ \A e \in Bridges : e # b => bridge'[e].fn = bridge[e].fn
    BY <1>1, <1>6, <1>7 DEF CountsInv, Others
  <2> QED BY ONLY t \in Actors, <2>1, <2>2, <2>3, CountStep
<1> QED BY <1>6, <1>9, <1>10, <1>11, <1>12, <1>13, ContextFrame DEF CountsInv

-----------------------------------------------------------------------------
(***************************************************************************)
(* The invariant.                                                          *)
(***************************************************************************)
LEMMA CountsInit == Init => CountsInv
<1> SUFFICES ASSUME Init PROVE CountsInv
  OBVIOUS
<1>1. /\ NoContext \in Context /\ NoBridge \in Bridge /\ NoClosure \in Closure
      /\ NoDelegate \in Delegate
      /\ NoContext.h = Null /\ NoContext.b = Null /\ NoContext.c = Null
      /\ NoBridge.refs = 0 /\ NoBridge.fn = Empty /\ NoBridge.lifetime = Null
      /\ NoClosure.count = 0 /\ NoClosure.bridge = Null
      /\ NoDelegate.life = "none" /\ NoDelegate.bridge = Null
  BY DEF NoContext, NoBridge, NoClosure, NoDelegate, Context, Bridge, Closure, Delegate, Function
<1>2. /\ \A t \in Actors : pc[t] = "idle" /\ ctx[t] = NoContext
      /\ \A b \in Bridges : bridge[b] = NoBridge
      /\ \A c \in Closures : closure[c] = NoClosure
      /\ \A d \in Delegates : delegate[d] = NoDelegate
      /\ \A s \in Slots : slot[s] = Empty
      /\ \A h \in Handles : handle[h] = Null
  BY DEF Init
<1>3. TypeOK
  BY <1>1 DEF Init, TypeOK, Steps, Function
<1>4. ObjectInv
  BY <1>1, <1>2 DEF ObjectInv
<1>5. DeleteInv
  BY <1>2 DEF DeleteInv
<1>6. HandleInv
  BY <1>1, <1>2, NullAssumption DEF HandleInv
<1>7. CountInv
  <2>1. \A b \in Bridges : BridgeHolders(b) = {}
    BY <1>1, <1>2, NullAssumption DEF BridgeHolders
  <2>2. \A c \in Closures : ClosureHolders(c) = {}
    BY <1>1, <1>2, NullAssumption DEF ClosureHolders
  <2> QED BY <1>1, <1>2, <2>1, <2>2, FS_EmptySet DEF CountInv
<1>8. \A t \in Actors : ContextInv(t)
  BY <1>1, <1>2 DEF ContextInv, Resume, Releases
<1> QED BY <1>3, <1>4, <1>5, <1>6, <1>7, <1>8 DEF CountsInv

LEMMA CountsNext == CountsInv /\ [Next]_vars => CountsInv'
<1> SUFFICES ASSUME CountsInv, [Next]_vars PROVE CountsInv'
  OBVIOUS
<1>1. ASSUME NEW t \in Threads, Start(t) PROVE CountsInv'
  <2>1. t \in Actors
    BY DEF Actors
  <2> QED BY <1>1, <2>1, CountsPass, CountsCall, CountsDelegate, CountsCallSlot, CountsAssign,
             CountsReturn DEF Start
<1>2. ASSUME NEW t \in Threads, ChooseInNative(t) PROVE CountsInv'
  <2>1. t \in Actors
    BY DEF Actors
  <2> QED BY <1>2, <2>1, CountsCall, CountsStore DEF ChooseInNative
<1>3. ASSUME NEW t \in Actors, Proceed(t) PROVE CountsInv'
  BY <1>3, CountsCreate, CountsEnter, CountsWrap, CountsCreateFails, CountsRelease,
     CountsCallStep, CountsDropClosure, CountsDropBridge, CountsDelete DEF Proceed
<1>4. ASSUME NEW d \in Delegates, Lose(d) \/ Collect(d) \/ Finalize(d) PROVE CountsInv'
  BY <1>4, CountsDelegate, CountsFinalize
<1>5. CASE UNCHANGED vars
  <2>1. /\ pinned' \subseteq Delegates /\ delegate' \in [Delegates -> Delegate]
        /\ UNCHANGED <<delegate, handle, bridge, closure, slot, pc, ctx>>
    BY <1>5 DEF vars, CountsInv, TypeOK
  <2> QED BY <2>1, DelegateStep DEF CountsInv, ObjectInv
<1> QED BY <1>1, <1>2, <1>3, <1>4, <1>5 DEF Next

LEMMA CountsInductive == Spec => []CountsInv
BY CountsInit, CountsNext, PTL DEF Spec

\* Every variable keeps its type: a reference count, which is an unsigned counter of the
\* code, never goes below zero (functional.hpp:56).
THEOREM CallablesTypeCorrect == Spec => []TypeOK
<1>1. CountsInv => TypeOK
  BY DEF CountsInv
<1> QED BY <1>1, CountsInductive, PTL

\* Every reference count is the number of those that hold a reference, and every GCHandle
\* in use has one owner, whatever the program does with its functions: for any number of
\* threads, and with no rule of use (functional.hpp:56).
THEOREM CountsCorrect == Spec => []CountsExact
<1>1. CountsInv => CountsExact
  <2> SUFFICES ASSUME CountsInv PROVE CountsExact
    OBVIOUS
  <2>1. ASSUME NEW h \in Handles
        PROVE  Cardinality(HandleHolders(h)) = IF handle[h] = Null THEN 0 ELSE 1
    <3>1. /\ handle[h] # Null <=> HandleHolders(h) # {}
          /\ \A a, b \in Bridges : bridge[a].lifetime = h /\ bridge[b].lifetime = h => a = b
          /\ \A t, u \in Actors : ctx[t].h = h /\ ctx[u].h = h => t = u
          /\ \A b \in Bridges, t \in Actors : ~(bridge[b].lifetime = h /\ ctx[t].h = h)
      BY DEF CountsInv, HandleInv, HandleHolders
    <3>2. CASE handle[h] = Null
      BY <3>1, <3>2, FS_EmptySet
    <3>3. CASE handle[h] # Null
      <4>1. PICK x \in HandleHolders(h) : HandleHolders(h) = {x}
        BY <3>1, <3>3 DEF HandleHolders
      <4> QED BY <3>3, <4>1, FS_Singleton
    <3> QED BY <3>2, <3>3
  <2> QED BY <2>1 DEF CountsInv, CountInv, CountsExact
<1> QED BY <1>1, CountsInductive, PTL

-----------------------------------------------------------------------------
(***************************************************************************)
(* What the operation of a thread still holds after a step.                *)
(***************************************************************************)
Passing == {"Enter", "Native", "Finally"}

\* After the step the operation of t is where it was, or holds no passed delegate; it
\* works with no other delegate but one that the program has.
GoesOn(t) ==
  /\ Others(t) /\ Resume(t)' # "CreateBridge"
  /\ ctx'[t].d # Null => ctx'[t].d = ctx[t].d \/ delegate[ctx'[t].d].life = "live"
  /\ Resume(t)' \in Passing =>
       Resume(t) \in Passing /\ ctx'[t].b = ctx[t].b /\ ctx'[t].d = ctx[t].d

LEMMA WalkGoesOn ==
  ASSUME TypeOK, NEW t \in Actors, NEW step \in Releases \cup {"Call"}, NEW context \in Context,
         NEW at, NEW then, Walk(t, step, context, at, then), then # "CreateBridge",
         then \in Passing =>
           Resume(t) \in Passing /\ context.b = ctx[t].b /\ context.d = ctx[t].d,
         context.d # Null => context.d = ctx[t].d \/ delegate[context.d].life = "live"
  PROVE  GoesOn(t)
<1>1. /\ pc'[t] = step /\ Others(t) /\ ctx'[t].then = then
      /\ ctx'[t].b = context.b /\ ctx'[t].d = context.d
  BY DEF TypeOK, Walk, Goto, Others, Context
<1>2. Resume(t)' = then
  BY <1>1 DEF Resume
<1> QED BY <1>1, <1>2 DEF GoesOn

LEMMA ContinueGoesOn ==
  ASSUME TypeOK, NEW t \in Actors, NEW context \in Context, Continue(t, context),
         context.then \in Passing =>
           Resume(t) \in Passing /\ context.b = ctx[t].b /\ context.d = ctx[t].d,
         context.d \in {ctx[t].d, Null}
  PROVE  GoesOn(t)
<1>1. /\ pc'[t] = context.then /\ Others(t)
      /\ context.then # "idle" => ctx'[t].b = context.b /\ ctx'[t].d = context.d
      /\ context.then = "idle" => ctx'[t].d = Null
      /\ context.then \in {"idle", "Native", "Finally", "Uncopy"}
  BY ContinueFacts DEF Context, NoContext
<1>2. Resume(t)' = context.then
  BY <1>1 DEF Resume, Releases
<1> QED BY <1>1, <1>2 DEF GoesOn, Passing

LEMMA SameGoesOn ==
  ASSUME NEW t \in Actors, UNCHANGED <<pc, ctx>>, Resume(t) # "CreateBridge"
  PROVE  GoesOn(t)
BY DEF GoesOn, Others, Resume

\* A step of a call or of a release goes on to something else or is the last.
LEMMA WalksOrEnds ==
  ASSUME TypeOK, NEW t \in Actors,
         \/ Call_Closure(t) \/ Call_Bridge(t) \/ Call_Delegate(t)
         \/ DropClosure(t) \/ DropBridge(t) \/ Delete(t)
  PROVE  \/ Continue(t, ctx[t])
         \/ \E step \in Releases \cup {"Call"} : \E at : Walk(t, step, ctx[t], at, ctx[t].then)
<1>1. CASE Call_Bridge(t)
  <2>1. bridge[ctx[t].at].fn \in {Empty, Plain} \cup Closures
    BY <1>1 DEF Call_Bridge, TypeOK, Bridge, Function
  <2> QED BY <1>1, <2>1, NullAssumption DEF Call_Bridge
<1>2. CASE Call_Closure(t) \/ Call_Delegate(t)
  BY <1>2 DEF Call_Closure, Call_Delegate
<1>3. CASE DropClosure(t) \/ DropBridge(t) \/ Delete(t)
  BY <1>3 DEF DropClosure, DropBridge, Delete, Releases
<1> QED BY <1>1, <1>2, <1>3

\* All operations but the two steps that make a passed delegate known to C++.
LEMMA OperationGoesOn ==
  ASSUME CountsInv, NEW t \in Actors,
         \/ \E d \in Delegates :
              CallDelegate(t, d) \/ RegisterFunctionPointer(t, d) \/ Wrap(t, d)
         \/ \E s \in Slots : \/ CallSlot(t, s) \/ Native_Store(t, s)
                             \/ \E f \in {Empty, Plain} : Assign(t, s, f)
                             \/ \E b \in Bridges : ReturnFunction(t, s, b)
         \/ \E c \in Closures : Enter(t, c)
         \/ CreateFails(t) \/ Native_Call(t) \/ Native_Return(t) \/ Finally(t) \/ Uncopy(t)
         \/ Call_Closure(t) \/ Call_Bridge(t) \/ Call_Delegate(t)
         \/ DropClosure(t) \/ DropBridge(t) \/ Delete(t)
  PROVE  GoesOn(t)
<1>1. /\ TypeOK /\ ContextInv(t) /\ ctx[t] \in Context /\ NoContext \in Context
      /\ NoContext.then = "idle" /\ NoContext.d = Null
  BY ThreadTypes DEF CountsInv, NoContext, Context
<1>2. ASSUME NEW d \in Delegates,
             CallDelegate(t, d) \/ RegisterFunctionPointer(t, d) \/ Wrap(t, d)
      PROVE  GoesOn(t)
  <2>1. CASE CallDelegate(t, d)
    <3> DEFINE context == [NoContext EXCEPT !.d = d]
    <3>1. /\ context \in Context /\ context.d = d /\ delegate[d].life = "live"
          /\ Walk(t, "Call", context, delegate[d].bridge, "idle")
      BY <2>1 DEF CallDelegate, NoContext, Context
    <3> HIDE DEF context
    <3> QED BY <1>1, <3>1, WalkGoesOn DEF Passing
  <2>2. CASE RegisterFunctionPointer(t, d)
    BY <2>2, SameGoesOn DEF RegisterFunctionPointer, Resume, Releases
  <2>3. CASE Wrap(t, d)
    BY <1>1, <2>3, ContinueGoesOn DEF Wrap, Passing
  <2> QED BY <1>2, <2>1, <2>2, <2>3
<1>3. ASSUME NEW s \in Slots, CallSlot(t, s) PROVE GoesOn(t)
  <2> DEFINE context == [NoContext EXCEPT !.c = slot[s]]
  <2>1. /\ context \in Context /\ context.d = Null
        /\ Walk(t, "Call", context, slot[s], "Uncopy")
    BY <1>3 DEF CallSlot, NoContext, Context
  <2> HIDE DEF context
  <2> QED BY <1>1, <2>1, WalkGoesOn DEF Passing
<1>4. ASSUME NEW s \in Slots, Native_Store(t, s) PROVE GoesOn(t)
  <2> DEFINE moved == [ctx[t] EXCEPT !.c = Null]
             last == [moved EXCEPT !.then = "Finally"]
  <2>1. /\ Resume(t) \in Passing
        /\ moved \in Context /\ moved.b = ctx[t].b /\ moved.d = ctx[t].d
        /\ last \in Context /\ last.b = ctx[t].b /\ last.d = ctx[t].d
    BY <1>1, <1>4 DEF Native_Store, Context, Resume, Releases, Passing
  <2>2. IF slot[s] \in Closures THEN Walk(t, "DropClosure", moved, slot[s], "Finally")
                                ELSE Continue(t, last)
    BY <1>4 DEF Native_Store
  <2> HIDE DEF moved, last
  <2> QED BY <1>1, <2>1, <2>2, WalkGoesOn, ContinueGoesOn DEF Releases
<1>5. ASSUME NEW s \in Slots, NEW f \in {Empty, Plain}, Assign(t, s, f) PROVE GoesOn(t)
  <2>1. /\ Resume(t) = "idle"
        /\ Walk(t, "DropClosure", NoContext, slot[s], "idle") \/ UNCHANGED <<pc, ctx>>
    BY <1>5 DEF Assign, Resume, Releases
  <2> QED BY <1>1, <2>1, WalkGoesOn, SameGoesOn DEF Releases, Passing
<1>6. ASSUME NEW s \in Slots, NEW b \in Bridges, ReturnFunction(t, s, b) PROVE GoesOn(t)
  BY <1>1, <1>6 DEF ReturnFunction, Goto, TypeOK, GoesOn, Others, Resume, Releases, Passing
<1>7. ASSUME NEW c \in Closures, Enter(t, c) PROVE GoesOn(t)
  BY <1>1, <1>7 DEF Enter, Goto, TypeOK, Context, GoesOn, Others, Resume, Releases, Passing
<1>8. CASE CreateFails(t)
  BY <1>1, <1>8, ContinueGoesOn DEF CreateFails, Passing
<1>9. CASE Native_Call(t)
  BY <1>1, <1>9, WalkGoesOn DEF Native_Call, Resume, Releases, Passing
<1>10. CASE Native_Return(t) \/ Finally(t) \/ Uncopy(t)
  <2> DEFINE without == [ctx[t] EXCEPT !.c = Null]
             released == [ctx[t] EXCEPT !.b = Null]
  <2>1. /\ without \in Context /\ without.b = ctx[t].b /\ without.d = ctx[t].d
        /\ released \in Context /\ released.d = ctx[t].d
        /\ pc[t] = "Native" => Resume(t) \in Passing
    BY <1>1 DEF Context, Resume, Releases, Passing
  <2>2. \/ pc[t] = "Native" /\ Walk(t, "DropClosure", without, ctx[t].c, "Finally")
        \/ Walk(t, "DropClosure", without, ctx[t].c, "idle")
        \/ Walk(t, "DropBridge", released, ctx[t].b, "idle")
    BY <1>10 DEF Native_Return, Finally, Uncopy
  <2> HIDE DEF without, released
  <2> QED BY <1>1, <2>1, <2>2, WalkGoesOn DEF Releases, Passing
<1>11. CASE \/ Call_Closure(t) \/ Call_Bridge(t) \/ Call_Delegate(t)
            \/ DropClosure(t) \/ DropBridge(t) \/ Delete(t)
  <2>1. /\ pc[t] \in Releases \cup {"Call"} /\ Resume(t) = ctx[t].then
        /\ ctx[t].then # "CreateBridge"
    BY <1>1, <1>11 DEF Call_Closure, Call_Bridge, Call_Delegate, DropClosure, DropBridge, Delete,
                       Releases, Resume, Context
  <2>2. \/ Continue(t, ctx[t])
        \/ \E step \in Releases \cup {"Call"} : \E at : Walk(t, step, ctx[t], at, ctx[t].then)
    BY <1>1, <1>11, WalksOrEnds
  <2> QED BY <1>1, <2>1, <2>2, WalkGoesOn, ContinueGoesOn
<1> QED BY <1>2, <1>3, <1>4, <1>5, <1>6, <1>7, <1>8, <1>9, <1>10, <1>11

-----------------------------------------------------------------------------
(***************************************************************************)
(* The delegates that C++ holds are kept.                                  *)
(***************************************************************************)
\* What the operation of t does with the delegate that it passes.
PassInv(t) ==
  /\ Resume(t) = "CreateBridge" => handle[ctx[t].h] = ctx[t].d
  /\ Resume(t) \in Passing => Keeps(ctx[t].b, ctx[t].d)

\* A GCHandle keeps a delegate from being collected.
RootInv == \A h \in Handles : handle[h] # Null => delegate[handle[h]].life \in {"live", "lost"}

LEMMA LifetimeParts ==
  LifetimeInv <=>
    /\ \A c \in Closures :
         closure[c].count > 0 => closure[c].of # Null /\ Keeps(closure[c].bridge, closure[c].of)
    /\ \A t \in Actors : PassInv(t)
    /\ RootInv
BY DEF LifetimeInv, PassInv, RootInv, Passing

\* The operation of t changes no bridge that has a reference, and no closure but a new
\* one.
LEMMA LifetimeStep ==
  ASSUME CountsInv, LifetimeInv, NEW t \in Actors, Others(t),
         \A b \in Bridges : bridge[b].refs # 0 =>
           /\ bridge'[b].lifetime = bridge[b].lifetime
           /\ bridge[b].lifetime # Null => handle'[bridge[b].lifetime] = handle[bridge[b].lifetime],
         \A u \in Actors : u # t /\ ctx[u].h # Null => handle'[ctx[u].h] = handle[ctx[u].h],
         \A c \in Closures : closure'[c].count > 0 =>
           \/ /\ closure[c].count > 0
              /\ closure'[c].bridge = closure[c].bridge /\ closure'[c].of = closure[c].of
           \/ closure'[c].of # Null /\ Keeps(closure[c].bridge, closure[c].of)',
         PassInv(t)', RootInv'
  PROVE  LifetimeInv'
<1>1. ASSUME NEW b \in Bridges, NEW d, bridge[b].refs # 0, Keeps(b, d)
      PROVE  Keeps(b, d)'
  BY <1>1 DEF Keeps
<1>2. ASSUME NEW c \in Closures, closure'[c].count > 0
      PROVE  closure'[c].of # Null /\ Keeps(closure[c].bridge, closure[c].of)'
  <2>1. CASE /\ closure[c].count > 0
             /\ closure'[c].bridge = closure[c].bridge /\ closure'[c].of = closure[c].of
    <3>1. closure[c].of # Null /\ Keeps(closure[c].bridge, closure[c].of)
      BY <2>1 DEF LifetimeInv
    <3>2. PICK b \in Bridges : b = closure[c].bridge
      BY <2>1 DEF CountsInv, ObjectInv, TypeOK, Closure
    <3>3. BridgeShare(t, t, Null, c, b) >= 1
      BY <3>2 DEF BridgeShare, One
    <3>4. bridge[b].refs # 0
      BY <3>3, HeldBridge
    <3> QED BY <1>1, <2>1, <3>1, <3>2, <3>4 DEF Keeps
  <2> QED BY <1>2, <2>1
<1>3. ASSUME NEW u \in Actors, u # t PROVE PassInv(u)'
  <2>1. pc'[u] = pc[u] /\ ctx'[u] = ctx[u] /\ Resume(u)' = Resume(u)
    BY <1>3 DEF Others, Resume
  <2>2. ContextInv(u) /\ PassInv(u) /\ TypeOK
    BY LifetimeParts DEF CountsInv
  <2>3. CASE Resume(u) = "CreateBridge"
    BY <1>3, <2>1, <2>2, <2>3 DEF ContextInv, PassInv, Passing
  <2>4. CASE Resume(u) \in Passing
    <3>1. PICK b \in Bridges : b = ctx[u].b
      BY <2>2, <2>4, ThreadTypes DEF ContextInv, Passing
    <3>2. BridgeShare(u, u, Null, Null, b) >= 1
      BY <3>1 DEF BridgeShare, One
    <3>3. bridge[b].refs # 0
      BY <3>2, HeldBridge
    <3> QED BY <1>1, <2>1, <2>2, <2>4, <3>1, <3>3 DEF PassInv, Passing, Keeps
  <2> QED BY <2>1, <2>3, <2>4 DEF PassInv
<1> QED BY <1>2, <1>3 DEF LifetimeInv, PassInv, RootInv, Passing

LEMMA LifetimeGoesOn ==
  ASSUME CountsInv, LifetimeInv, NEW t \in Actors, GoesOn(t),
         \A b \in Bridges : bridge[b].refs # 0 =>
           /\ bridge'[b].lifetime = bridge[b].lifetime
           /\ bridge[b].lifetime # Null => handle'[bridge[b].lifetime] = handle[bridge[b].lifetime],
         \A u \in Actors : u # t /\ ctx[u].h # Null => handle'[ctx[u].h] = handle[ctx[u].h],
         \A c \in Closures : closure'[c].count > 0 =>
           \/ /\ closure[c].count > 0
              /\ closure'[c].bridge = closure[c].bridge /\ closure'[c].of = closure[c].of
           \/ closure'[c].of # Null /\ Keeps(closure[c].bridge, closure[c].of)',
         RootInv'
  PROVE  LifetimeInv'
<1>1. ASSUME Resume(t)' \in Passing PROVE Keeps(ctx[t].b, ctx[t].d)'
  <2>1. Resume(t) \in Passing /\ ctx'[t].b = ctx[t].b /\ ctx'[t].d = ctx[t].d
    BY <1>1 DEF GoesOn
  <2>2. PICK b \in Bridges : b = ctx[t].b
    BY <2>1, ThreadTypes DEF ContextInv, Passing, CountsInv
  <2>3. BridgeShare(t, t, Null, Null, b) >= 1
    BY <2>2 DEF BridgeShare, One
  <2>4. bridge[b].refs # 0
    BY <2>3, HeldBridge
  <2>5. Keeps(b, ctx[t].d)
    BY <2>1, <2>2, LifetimeParts DEF PassInv
  <2> QED BY <2>1, <2>2, <2>4, <2>5 DEF Keeps
<1>2. PassInv(t)' /\ Others(t)
  BY <1>1 DEF PassInv, GoesOn
<1> QED BY <1>2, LifetimeStep

\* Steps that change neither bridges nor handles.
LEMMA LifetimeLocal ==
  ASSUME CountsInv, LifetimeInv, NEW t \in Actors,
         \/ \E d \in Delegates :
              CallDelegate(t, d) \/ RegisterFunctionPointer(t, d) \/ Wrap(t, d)
         \/ \E s \in Slots : \/ CallSlot(t, s) \/ Native_Store(t, s)
                             \/ \E f \in {Empty, Plain} : Assign(t, s, f)
         \/ Native_Call(t) \/ Native_Return(t) \/ Finally(t) \/ Uncopy(t)
         \/ Call_Closure(t) \/ Call_Bridge(t) \/ Call_Delegate(t) \/ DropClosure(t)
  PROVE  LifetimeInv'
<1>1. GoesOn(t)
  BY OperationGoesOn
<1>2. TypeOK /\ RootInv /\ UNCHANGED <<handle, bridge>>
  BY LifetimeParts DEF CallDelegate, RegisterFunctionPointer, Wrap, CallSlot, Native_Store, Assign,
     Native_Call, Native_Return, Finally, Uncopy, Call_Closure, Call_Bridge, Call_Delegate,
     DropClosure, CountsInv
<1>3. RootInv'
  <2>1. CASE \E d \in Delegates : RegisterFunctionPointer(t, d) \/ Wrap(t, d)
    BY <1>2, <2>1 DEF RootInv, RegisterFunctionPointer, Wrap, TypeOK, Delegate
  <2>2. CASE delegate' = delegate
    BY <1>2, <2>2 DEF RootInv
  <2> QED BY <2>1, <2>2 DEF CallDelegate, CallSlot, Native_Store, Assign, Native_Call,
       Native_Return, Finally, Uncopy, Call_Closure, Call_Bridge, Call_Delegate, DropClosure
<1>4. ASSUME NEW c \in Closures, closure'[c].count > 0
      PROVE  /\ closure[c].count > 0
             /\ closure'[c].bridge = closure[c].bridge /\ closure'[c].of = closure[c].of
  <2>1. ASSUME NEW s \in Slots, CallSlot(t, s)
        PROVE  /\ closure[c].count > 0
               /\ closure'[c].bridge = closure[c].bridge /\ closure'[c].of = closure[c].of
    <3>1. /\ closure'[c].bridge = closure[c].bridge /\ closure'[c].of = closure[c].of
          /\ c # slot[s] => closure'[c] = closure[c]
      BY <1>2, <2>1, CopiedFacts DEF CallSlot
    <3>2. ASSUME c = slot[s] PROVE closure[c].count > 0
      <4>1. ClosureShare(s, Null, t, t, c) >= 1
        BY <3>2 DEF ClosureShare, One
      <4> QED BY <4>1, HeldClosure
    <3> QED BY <1>4, <3>1, <3>2
  <2>2. CASE DropClosure(t)
    <3>1. PICK b \in Closures : b = ctx[t].at
      BY <2>2 DEF DropClosure, CountsInv, ContextInv
    <3>2. \/ closure' = [closure EXCEPT ![b] = NoClosure]
          \/ closure' = [closure EXCEPT ![b].count = @ - 1]
      BY <2>2, <3>1 DEF DropClosure
    <3>3. c = b => closure[c].count # 0
      <4>1. ASSUME c = b PROVE ClosureShare(Null, Null, t, t, c) >= 1
        BY <2>2, <3>1, <4>1 DEF ClosureShare, One, DropClosure
      <4> QED BY <4>1, HeldClosure
    <3>4. closure[c] \in Closure
      BY <1>2 DEF TypeOK
    <3> QED BY <1>2, <1>4, <3>2, <3>3, <3>4 DEF TypeOK, Closure, NoClosure
  <2>3. CASE closure' = closure
    BY <1>4, <2>3
  <2> QED BY <2>1, <2>2, <2>3 DEF CallDelegate, RegisterFunctionPointer, Wrap, CallSlot,
       Native_Store, Assign, Native_Call, Native_Return, Finally, Uncopy, Call_Closure,
       Call_Bridge, Call_Delegate
<1>5. /\ \A b \in Bridges : bridge'[b].lifetime = bridge[b].lifetime
      /\ \A h : handle'[h] = handle[h]
  BY <1>2
<1> QED BY <1>1, <1>3, <1>4, <1>5, LifetimeGoesOn

\* A bridge for a returned function has no handle.
LEMMA LifetimeReturn ==
  ASSUME CountsInv, LifetimeInv, NEW t \in Actors, NEW s \in Slots, NEW b \in Bridges,
         ReturnFunction(t, s, b)
  PROVE  LifetimeInv'
<1>1. GoesOn(t)
  BY OperationGoesOn
<1>2. /\ TypeOK /\ RootInv /\ delegate' = delegate /\ handle' = handle /\ bridge[b].refs = 0
      /\ closure' = Copied(slot[s]) /\ \A e \in Bridges : e # b => bridge'[e] = bridge[e]
  BY LifetimeParts DEF ReturnFunction, CountsInv, ObjectInv, NoBridge, TypeOK
<1>3. ASSUME NEW c \in Closures, closure'[c].count > 0
      PROVE  /\ closure[c].count > 0
             /\ closure'[c].bridge = closure[c].bridge /\ closure'[c].of = closure[c].of
  <2>1. /\ closure'[c].bridge = closure[c].bridge /\ closure'[c].of = closure[c].of
        /\ c # slot[s] => closure'[c] = closure[c]
    BY <1>2, CopiedFacts
  <2>2. ASSUME c = slot[s] PROVE closure[c].count > 0
    <3>1. ClosureShare(s, Null, t, t, c) >= 1
      BY <2>2 DEF ClosureShare, One
    <3> QED BY <3>1, HeldClosure
  <2> QED BY <1>3, <2>1, <2>2
<1>4. /\ RootInv' /\ \A e \in Bridges : bridge[e].refs # 0 => bridge'[e] = bridge[e]
      /\ \A h : handle'[h] = handle[h]
  BY <1>2 DEF RootInv
<1> QED BY <1>1, <1>3, <1>4, LifetimeGoesOn

\* The new closure is made for the delegate that the operation passes.
LEMMA LifetimeEnter ==
  ASSUME CountsInv, LifetimeInv, NEW t \in Actors, NEW c \in Closures, Enter(t, c)
  PROVE  LifetimeInv'
<1>1. GoesOn(t)
  BY OperationGoesOn
<1>2. /\ TypeOK /\ RootInv /\ ContextInv(t) /\ delegate' = delegate /\ handle' = handle
      /\ pc[t] = "Enter" /\ Resume(t) \in Passing
  BY LifetimeParts DEF Enter, CountsInv, Resume, Releases, Passing
<1>3. \A e \in Bridges : bridge'[e].lifetime = bridge[e].lifetime
  BY <1>2 DEF Enter, TypeOK, Bridge
<1>4. ctx[t].d # Null /\ ctx[t].b \in Bridges /\ Keeps(ctx[t].b, ctx[t].d)
  BY <1>2, LifetimeParts, ThreadTypes DEF ContextInv, PassInv, Passing
<1>5. /\ closure'[c].of = ctx[t].d /\ closure'[c].bridge = ctx[t].b
      /\ \A e \in Closures : e # c => closure'[e] = closure[e]
  BY <1>2 DEF Enter, TypeOK
<1>6. closure'[c].of # Null /\ Keeps(closure[c].bridge, closure[c].of)'
  BY <1>2, <1>3, <1>4, <1>5 DEF Keeps
<1>7. RootInv' /\ \A h : handle'[h] = handle[h]
  BY <1>2 DEF RootInv
<1> QED BY <1>1, <1>3, <1>5, <1>6, <1>7, LifetimeGoesOn

LEMMA LifetimeDropBridge ==
  ASSUME CountsInv, LifetimeInv, NEW t \in Actors, DropBridge(t)
  PROVE  LifetimeInv'
<1>1. GoesOn(t)
  BY OperationGoesOn
<1>2. /\ TypeOK /\ RootInv /\ UNCHANGED <<delegate, handle, closure>>
  BY LifetimeParts DEF DropBridge, CountsInv
<1>3. \A e \in Bridges : bridge'[e].lifetime = bridge[e].lifetime
  BY <1>2 DEF DropBridge, TypeOK, Bridge
<1>4. RootInv' /\ \A h : handle'[h] = handle[h]
  BY <1>2 DEF RootInv
<1> QED BY <1>1, <1>2, <1>3, <1>4, LifetimeGoesOn

\* A handle is freed only with the bridge that has it, and with the operation.
LEMMA LifetimeFree ==
  ASSUME CountsInv, LifetimeInv, NEW t \in Actors, Delete(t) \/ CreateFails(t)
  PROVE  LifetimeInv'
<1>1. GoesOn(t) /\ TypeOK /\ HandleInv /\ RootInv /\ UNCHANGED <<delegate, closure>>
  BY OperationGoesOn, LifetimeParts DEF CountsInv, Delete, CreateFails
<1>2. CASE Delete(t)
  <2>1. PICK b \in Bridges : b = ctx[t].at
    BY <1>2 DEF Delete, CountsInv, ContextInv
  <2>2. bridge[b].refs = 0
    BY <1>2, <2>1 DEF Delete, CountsInv, DeleteInv
  <2>3. /\ \A h \in Handles : handle'[h] = IF h = bridge[b].lifetime THEN Null ELSE handle[h]
        /\ \A e \in Bridges : e # b => bridge'[e] = bridge[e]
    BY <1>1, <1>2, <2>1 DEF Delete, TypeOK
  <2>4. /\ \A e \in Bridges : bridge[e].lifetime \in Handles \cup {Null}
        /\ \A u \in Actors : ctx[u].h \in Handles \cup {Null}
    BY <1>1, ThreadTypes DEF TypeOK, Bridge
  <2>5. \A e \in Bridges : bridge[e].refs # 0 =>
          /\ bridge'[e].lifetime = bridge[e].lifetime
          /\ bridge[e].lifetime # Null => handle'[bridge[e].lifetime] = handle[bridge[e].lifetime]
    BY <1>1, <2>2, <2>3, <2>4 DEF HandleInv
  <2>6. \A u \in Actors : u # t /\ ctx[u].h # Null => handle'[ctx[u].h] = handle[ctx[u].h]
    BY <1>1, <2>3, <2>4 DEF HandleInv
  <2>7. RootInv'
    BY <1>1, <2>3 DEF RootInv
  <2> QED BY <1>1, <2>5, <2>6, <2>7, LifetimeGoesOn
<1>3. CASE CreateFails(t)
  <2>1. /\ bridge' = bridge
        /\ \A h \in Handles : handle'[h] = IF h = ctx[t].h THEN Null ELSE handle[h]
    BY <1>1, <1>3 DEF CreateFails, TypeOK
  <2>2. /\ \A e \in Bridges : bridge[e].lifetime \in Handles \cup {Null}
        /\ \A u \in Actors : ctx[u].h \in Handles \cup {Null}
    BY <1>1, ThreadTypes DEF TypeOK, Bridge
  <2>3. \A e \in Bridges : bridge[e].refs # 0 =>
          /\ bridge'[e].lifetime = bridge[e].lifetime
          /\ bridge[e].lifetime # Null => handle'[bridge[e].lifetime] = handle[bridge[e].lifetime]
    BY <1>1, <2>1, <2>2 DEF HandleInv
  <2>4. \A u \in Actors : u # t /\ ctx[u].h # Null => handle'[ctx[u].h] = handle[ctx[u].h]
    BY <1>1, <2>1, <2>2 DEF HandleInv
  <2>5. RootInv'
    BY <1>1, <2>1 DEF RootInv
  <2> QED BY <1>1, <2>3, <2>4, <2>5, LifetimeGoesOn
<1> QED BY <1>2, <1>3

\* The handle is made for the delegate, and the bridge takes it over.
LEMMA LifetimePass ==
  ASSUME CountsInv, LifetimeInv, NEW t \in Actors, NEW d \in Delegates, NEW h \in Handles,
         Pass(t, d, h)
  PROVE  LifetimeInv'
<1> DEFINE context == [NoContext EXCEPT !.d = d, !.h = h]
<1>1. /\ TypeOK /\ HandleInv /\ RootInv /\ UNCHANGED <<bridge, closure>> /\ handle[h] = Null
      /\ handle' = [handle EXCEPT ![h] = d]
      /\ delegate' = [delegate EXCEPT ![d].life = "live"]
      /\ pc' = [pc EXCEPT ![t] = "CreateBridge"] /\ ctx' = [ctx EXCEPT ![t] = context]
  BY LifetimeParts DEF CountsInv, Pass, Goto
<1>2. context.d = d /\ context.h = h
  BY DEF NoContext
<1> HIDE DEF context
<1>3. Others(t) /\ pc'[t] = "CreateBridge" /\ ctx'[t].d = d /\ ctx'[t].h = h
  BY <1>1, <1>2 DEF TypeOK, Others
<1>4. handle'[h] = d /\ \A k \in Handles : k # h => handle'[k] = handle[k]
  BY <1>1 DEF TypeOK
<1>5. PassInv(t)'
  BY <1>3, <1>4 DEF PassInv, Resume, Releases, Passing
<1>6. /\ \A e \in Bridges : bridge[e].lifetime # h /\ bridge[e].lifetime \in Handles \cup {Null}
      /\ \A u \in Actors : ctx[u].h # h /\ ctx[u].h \in Handles \cup {Null}
  BY <1>1, ThreadTypes DEF HandleInv, TypeOK, Bridge
<1>7. RootInv'
  <2>1. /\ delegate'[d].life = "live"
        /\ \A e \in Delegates : e # d => delegate'[e] = delegate[e]
    BY <1>1 DEF TypeOK, Delegate
  <2>2. \A k \in Handles : handle[k] \in Delegates \cup {Null}
    BY <1>1 DEF TypeOK
  <2> QED BY <1>1, <1>4, <2>1, <2>2 DEF RootInv
<1>8. /\ \A e \in Bridges : bridge[e].refs # 0 =>
           /\ bridge'[e].lifetime = bridge[e].lifetime
           /\ bridge[e].lifetime # Null => handle'[bridge[e].lifetime] = handle[bridge[e].lifetime]
      /\ \A u \in Actors : u # t /\ ctx[u].h # Null => handle'[ctx[u].h] = handle[ctx[u].h]
  BY <1>1, <1>4, <1>6
<1> QED BY <1>1, <1>3, <1>5, <1>7, <1>8, LifetimeStep

LEMMA LifetimeCreate ==
  ASSUME CountsInv, LifetimeInv, NEW t \in Actors, NEW b \in Bridges, CreateBridge(t, b)
  PROVE  LifetimeInv'
<1>1. /\ TypeOK /\ ContextInv(t) /\ PassInv(t) /\ RootInv
      /\ UNCHANGED <<delegate, handle, closure>>
      /\ pc[t] = "CreateBridge" /\ Resume(t) = "CreateBridge"
  BY LifetimeParts DEF CountsInv, CreateBridge, Resume, Releases
<1>2. bridge[b].refs = 0
  BY DEF CreateBridge, CountsInv, ObjectInv, NoBridge
<1>3. /\ bridge'[b].lifetime = ctx[t].h /\ \A e \in Bridges : e # b => bridge'[e] = bridge[e]
  BY <1>1 DEF CreateBridge, TypeOK
<1>4. /\ Others(t) /\ pc'[t] = "Enter" /\ ctx'[t].b = b /\ ctx'[t].d = ctx[t].d
  BY <1>1 DEF CreateBridge, Goto, TypeOK, Context, Others
<1>5. ctx[t].h # Null /\ handle[ctx[t].h] = ctx[t].d
  BY <1>1 DEF ContextInv, PassInv
<1>6. PassInv(t)'
  <2>1. Resume(t)' = "Enter"
    BY <1>4 DEF Resume, Releases
  <2> QED BY <1>1, <1>3, <1>4, <1>5, <2>1 DEF PassInv, Keeps
<1>7. RootInv' /\ \A h : handle'[h] = handle[h]
  BY <1>1 DEF RootInv
<1> QED BY <1>1, <1>2, <1>3, <1>4, <1>6, <1>7, LifetimeStep

\* What is collected has no handle.
LEMMA LifetimeDelegate ==
  ASSUME CountsInv, LifetimeInv, NEW d \in Delegates, Lose(d) \/ Collect(d) \/ Finalize(d)
  PROVE  LifetimeInv'
<1>1. /\ TypeOK /\ RootInv /\ UNCHANGED <<handle, bridge, closure>>
  BY LifetimeParts DEF CountsInv, Lose, Collect, Finalize
<1>2. PICK t \in Actors : t = Finalizer
  BY DEF Actors
<1>3. Others(t) /\ PassInv(t)'
  <2>1. CASE Lose(d) \/ Collect(d)
    <3>1. UNCHANGED <<pc, ctx>> /\ PassInv(t)
      BY <2>1, LifetimeParts DEF Lose, Collect
    <3> QED BY <1>1, <3>1 DEF Others, PassInv, Resume, Keeps
  <2>2. CASE Finalize(d)
    <3>1. Walk(t, "DropBridge", NoContext, delegate[d].bridge, "idle") /\ NoContext \in Context
      BY <1>2, <2>2 DEF Finalize, NoContext, Context
    <3>2. Others(t) /\ pc'[t] = "DropBridge" /\ ctx'[t].then = "idle"
      BY <1>1, <3>1 DEF TypeOK, Walk, Goto, Others, Context
    <3> QED BY <3>2 DEF PassInv, Resume, Releases, Passing
  <2> QED BY <2>1, <2>2
<1>4. RootInv'
  <2>1. \A e \in Delegates : e # d => delegate'[e] = delegate[e]
    BY <1>1 DEF Lose, Collect, Finalize, TypeOK
  <2>2. \/ delegate'[d].life = "lost"
        \/ \A h \in Handles : handle[h] # d
    <3>1. CASE Lose(d)
      BY <1>1, <3>1 DEF Lose, TypeOK, Delegate
    <3>2. CASE Collect(d) \/ Finalize(d)
      BY <1>1, <3>2, NullAssumption DEF Collect, Finalize, RootInv
    <3> QED BY <3>1, <3>2
  <2>3. \A h \in Handles : handle[h] \in Delegates \cup {Null}
    BY <1>1 DEF TypeOK
  <2> QED BY <1>1, <2>1, <2>2, <2>3 DEF RootInv
<1>5. /\ \A b \in Bridges : bridge'[b].lifetime = bridge[b].lifetime
      /\ \A h : handle'[h] = handle[h]
  BY <1>1
<1> QED BY <1>1, <1>3, <1>4, <1>5, LifetimeStep

LEMMA LifetimeInit == Init => LifetimeInv
BY DEF Init, LifetimeInv, Resume, Releases, NoClosure

LEMMA LifetimeNext == CountsInv /\ LifetimeInv /\ [Next]_vars => LifetimeInv'
<1> SUFFICES ASSUME CountsInv, LifetimeInv, [Next]_vars PROVE LifetimeInv'
  OBVIOUS
<1>1. ASSUME NEW t \in Threads, Start(t) \/ ChooseInNative(t) PROVE LifetimeInv'
  <2>1. t \in Actors
    BY DEF Actors
  <2> QED BY <1>1, <2>1, LifetimeLocal, LifetimeReturn, LifetimePass DEF Start, ChooseInNative
<1>2. ASSUME NEW t \in Actors, Proceed(t) PROVE LifetimeInv'
  BY <1>2, LifetimeLocal, LifetimeCreate, LifetimeEnter, LifetimeFree, LifetimeDropBridge
     DEF Proceed
<1>3. ASSUME NEW d \in Delegates, Lose(d) \/ Collect(d) \/ Finalize(d) PROVE LifetimeInv'
  BY <1>3, LifetimeDelegate
<1>4. CASE UNCHANGED vars
  BY <1>4 DEF vars, LifetimeInv, Resume, Keeps
<1> QED BY <1>1, <1>2, <1>3, <1>4 DEF Next

LEMMA LifetimeInductive == Spec => [](CountsInv /\ LifetimeInv)
BY CountsInit, CountsNext, LifetimeInit, LifetimeNext, PTL DEF Spec

-----------------------------------------------------------------------------
(***************************************************************************)
(* Callables implements CallableLifetime.                                  *)
(***************************************************************************)
Present == {d \in Delegates : delegate[d].life \in {"live", "lost"}}
HeldDelegates == {closure[c].of : c \in HeldClosures}

\* A step of the abstract specification, or one that it does not see.
Mapped == Lifetime!Next \/ UNCHANGED <<Present, HeldDelegates>>

\* What is held counts, and the delegate it was made for is there.
LEMMA HeldFacts ==
  ASSUME CountsInv, LifetimeInv, NEW c \in HeldClosures
  PROVE  /\ c \in Closures /\ closure[c].count > 0
         /\ closure[c].of \in Delegates /\ closure[c].of \in Present
         /\ \E h \in Handles : handle[h] = closure[c].of
<1>1. c \in Closures
  BY DEF HeldClosures
<1>2. closure[c].count \in Nat /\ closure[c].count # 0
  <2>1. CASE \E s \in Slots : slot[s] = c
    <3>1. PICK s \in Slots : slot[s] = c
      BY <2>1
    <3>2. Finalizer \in Actors
      BY DEF Actors
    <3>3. ClosureShare(s, Null, Finalizer, Finalizer, c) >= 1
      BY <3>1 DEF ClosureShare, One
    <3> QED BY <1>1, <3>2, <3>3, HeldClosure
  <2>2. CASE \E t \in Actors : ctx[t].c = c
    <3>1. PICK t \in Actors : ctx[t].c = c
      BY <2>2
    <3>2. ClosureShare(Null, Null, t, t, c) >= 1
      BY <3>1 DEF ClosureShare, One
    <3> QED BY <1>1, <3>2, HeldClosure
  <2>3. CASE \E b \in Bridges : bridge[b].fn = c
    <3>1. PICK b \in Bridges : bridge[b].fn = c
      BY <2>3
    <3>2. Finalizer \in Actors
      BY DEF Actors
    <3>3. ClosureShare(Null, b, Finalizer, Finalizer, c) >= 1
      BY <3>1 DEF ClosureShare, One
    <3> QED BY <1>1, <3>2, <3>3, HeldClosure
  <2> QED BY <2>1, <2>2, <2>3 DEF HeldClosures
<1>3. closure[c].of # Null /\ Keeps(closure[c].bridge, closure[c].of)
  BY <1>1, <1>2 DEF LifetimeInv
<1>4. TypeOK /\ closure[c] \in Closure /\ closure[c].bridge \in Bridges
  BY <1>1, <1>2 DEF CountsInv, ObjectInv, TypeOK, Closure
<1>5. bridge[closure[c].bridge].lifetime \in Handles
  BY <1>3, <1>4 DEF Keeps, TypeOK, Bridge
<1> QED BY <1>1, <1>2, <1>3, <1>4, <1>5 DEF Keeps, LifetimeInv, Present, Closure

\* A release that goes on from a closure takes its last holder, when it takes the last.
LEMMA HeldTwice ==
  ASSUME CountsInv, NEW t \in Actors, pc[t] = "DropClosure", ctx[t].at \in HeldClosures
  PROVE  closure[ctx[t].at].count # 1
<1>1. PICK c \in Closures : c = ctx[t].at
  BY DEF HeldClosures
<1>2. CASE \E s \in Slots : slot[s] = c
  <2>1. PICK s \in Slots : slot[s] = c
    BY <1>2
  <2>2. ClosureShare(s, Null, t, t, c) >= 2
    BY <1>1, <2>1 DEF ClosureShare, One
  <2> QED BY <1>1, <2>2, HeldClosure
<1>3. CASE \E u \in Actors : ctx[u].c = c
  <2>1. PICK u \in Actors : ctx[u].c = c
    BY <1>3
  <2>2. ClosureShare(Null, Null, u, t, c) >= 2
    BY <1>1, <2>1 DEF ClosureShare, One
  <2> QED BY <1>1, <2>2, HeldClosure
<1>4. CASE \E b \in Bridges : bridge[b].fn = c
  <2>1. PICK b \in Bridges : bridge[b].fn = c
    BY <1>4
  <2>2. ClosureShare(Null, b, t, t, c) >= 2
    BY <1>1, <2>1 DEF ClosureShare, One
  <2> QED BY <1>1, <2>2, HeldClosure
<1> QED BY <1>1, <1>2, <1>3, <1>4 DEF HeldClosures

\* At most one closure is not held any more.
LEMMA LetsGo ==
  ASSUME CountsInv, LifetimeInv, Present' = Present, NEW x,
         \A c \in Closures : /\ c \in HeldClosures' => c \in HeldClosures
                             /\ c \in HeldClosures /\ c # x => c \in HeldClosures',
         \A c \in HeldClosures : closure'[c].of = closure[c].of
  PROVE  Mapped
<1>1. /\ HeldClosures \subseteq Closures /\ HeldClosures' \subseteq Closures
      /\ HeldDelegates' = {closure[c].of : c \in HeldClosures'}
  BY DEF HeldClosures, HeldDelegates
<1>2. CASE HeldDelegates' = HeldDelegates
  BY <1>2 DEF Mapped
<1>3. CASE HeldDelegates' # HeldDelegates
  <2>1. x \in HeldClosures /\ x \notin HeldClosures'
    BY <1>1, <1>3 DEF HeldDelegates
  <2>2. PICK d \in Delegates : d = closure[x].of /\ d \in HeldDelegates
    BY <2>1, HeldFacts DEF HeldDelegates
  <2>3. HeldDelegates' = HeldDelegates \ {d}
    BY <1>1, <1>3, <2>1, <2>2 DEF HeldDelegates
  <2>4. Lifetime!LetGo(d)
    BY <2>2, <2>3 DEF Lifetime!LetGo, Present, HeldDelegates
  <2> QED BY <2>2, <2>4 DEF Mapped, Lifetime!Next
<1> QED BY <1>2, <1>3

\* Nothing changes for C++.
LEMMA HoldsOn ==
  ASSUME \A v \in Actors : ctx'[v].c = ctx[v].c, \A s \in Slots : slot'[s] = slot[s],
         \A b \in Bridges : bridge'[b].fn = bridge[b].fn,
         \A c \in HeldClosures : closure'[c].of = closure[c].of
  PROVE  HeldClosures' = HeldClosures /\ HeldDelegates' = HeldDelegates
<1>1. ASSUME NEW c PROVE c \in HeldClosures' <=> c \in HeldClosures
  BY DEF HeldClosures
<1>2. HeldClosures' = HeldClosures
  BY <1>1
<1> QED BY <1>2 DEF HeldDelegates

\* What the threads hold of closures after a step of t.
LEMMA WalkHolds ==
  ASSUME TypeOK, NEW t \in Actors, NEW step, NEW context \in Context, NEW at, NEW then,
         Walk(t, step, context, at, then)
  PROVE  \A v \in Actors : ctx'[v].c = IF v = t THEN context.c ELSE ctx[v].c
BY DEF TypeOK, Walk, Context

LEMMA ContinueHolds ==
  ASSUME TypeOK, NEW t \in Actors, NEW context \in Context, Continue(t, context),
         context.then = "idle" => context.c = Null
  PROVE  \A v \in Actors : ctx'[v].c = IF v = t THEN context.c ELSE ctx[v].c
BY DEF TypeOK, Continue, Context, NoContext

LEMMA HoldsSame ==
  ASSUME CountsInv, NEW t \in Actors,
         \/ \E d \in Delegates : \/ \E h \in Handles : Pass(t, d, h)
                                 \/ CallDelegate(t, d) \/ RegisterFunctionPointer(t, d)
                                 \/ Wrap(t, d)
         \/ \E b \in Bridges : CreateBridge(t, b)
         \/ CreateFails(t) \/ Native_Call(t) \/ Finally(t)
         \/ Call_Closure(t) \/ Call_Bridge(t) \/ Call_Delegate(t)
         \/ DropClosure(t) \/ DropBridge(t) \/ Delete(t)
  PROVE  \A v \in Actors : ctx'[v].c = ctx[v].c
<1>1. /\ TypeOK /\ ContextInv(t) /\ ctx[t] \in Context
      /\ NoContext \in Context /\ NoContext.c = Null /\ NoContext.then = "idle"
  BY ThreadTypes DEF CountsInv, NoContext, Context
<1>2. ASSUME NEW d \in Delegates, \/ \E h \in Handles : Pass(t, d, h)
                                  \/ CallDelegate(t, d)
      PROVE  \A v \in Actors : ctx'[v].c = ctx[v].c
  <2>1. pc[t] = "idle" /\ ctx[t].c = Null
    BY <1>2, IdleHolds DEF Pass, CallDelegate
  <2>2. ASSUME NEW h \in Handles, Pass(t, d, h) PROVE \A v \in Actors : ctx'[v].c = ctx[v].c
    <3> DEFINE context == [NoContext EXCEPT !.d = d, !.h = h]
    <3>1. context.c = Null /\ ctx' = [ctx EXCEPT ![t] = context]
      BY <2>2 DEF Pass, NoContext
    <3> HIDE DEF context
    <3> QED BY <1>1, <2>1, <3>1 DEF TypeOK
  <2>3. CASE CallDelegate(t, d)
    <3> DEFINE context == [NoContext EXCEPT !.d = d]
    <3>1. /\ context \in Context /\ context.c = Null
          /\ Walk(t, "Call", context, delegate[d].bridge, "idle")
      BY <2>3 DEF CallDelegate, NoContext, Context
    <3> HIDE DEF context
    <3> QED BY <1>1, <2>1, <3>1, WalkHolds
  <2> QED BY <1>2, <2>2, <2>3
<1>3. ASSUME \E b \in Bridges : CreateBridge(t, b)
      PROVE  \A v \in Actors : ctx'[v].c = ctx[v].c
  <2>1. PICK b \in Bridges : ctx' = [ctx EXCEPT ![t].h = Null, ![t].b = b]
    BY <1>3 DEF CreateBridge
  <2> DEFINE context == [ctx[t] EXCEPT !.h = Null, !.b = b]
  <2>2. ctx' = [ctx EXCEPT ![t] = context] /\ context.c = ctx[t].c
    BY <1>1, <2>1 DEF TypeOK, Context
  <2> HIDE DEF context
  <2> QED BY <1>1, <2>2 DEF TypeOK
<1>4. ASSUME CreateFails(t) \/ \E d \in Delegates : Wrap(t, d)
      PROVE  \A v \in Actors : ctx'[v].c = ctx[v].c
  <2>1. ctx[t].c = Null /\ Continue(t, NoContext)
    BY <1>1, <1>4 DEF CreateFails, Wrap, ContextInv, Resume, Releases
  <2> QED BY <1>1, <2>1, ContinueHolds
<1>5. ASSUME Native_Call(t) PROVE \A v \in Actors : ctx'[v].c = ctx[v].c
  <2>1. Walk(t, "Call", ctx[t], ctx[t].c, "Native")
    BY <1>5 DEF Native_Call
  <2> QED BY <1>1, <2>1, WalkHolds
<1>6. ASSUME Finally(t) PROVE \A v \in Actors : ctx'[v].c = ctx[v].c
  <2> DEFINE context == [ctx[t] EXCEPT !.b = Null]
  <2>1. /\ context \in Context /\ context.c = ctx[t].c
        /\ Walk(t, "DropBridge", context, ctx[t].b, "idle")
    BY <1>1, <1>6 DEF Finally, Context
  <2> HIDE DEF context
  <2> QED BY <1>1, <2>1, WalkHolds
<1>7. ASSUME \/ Call_Closure(t) \/ Call_Bridge(t) \/ Call_Delegate(t)
             \/ DropClosure(t) \/ DropBridge(t) \/ Delete(t)
      PROVE  \A v \in Actors : ctx'[v].c = ctx[v].c
  <2>1. ctx[t].then = "idle" => ctx[t].c = Null
    BY <1>1, <1>7 DEF Call_Closure, Call_Bridge, Call_Delegate, DropClosure, DropBridge, Delete,
                      ContextInv, Resume, Releases
  <2>2. \/ Continue(t, ctx[t])
        \/ \E step \in Releases \cup {"Call"} : \E at : Walk(t, step, ctx[t], at, ctx[t].then)
    BY <1>1, <1>7, WalksOrEnds
  <2> QED BY <1>1, <2>1, <2>2, WalkHolds, ContinueHolds
<1>8. ASSUME \E d \in Delegates : RegisterFunctionPointer(t, d)
      PROVE  \A v \in Actors : ctx'[v].c = ctx[v].c
  BY <1>8 DEF RegisterFunctionPointer
<1> QED BY <1>2, <1>3, <1>4, <1>5, <1>6, <1>7, <1>8

\* Passing, pinning and collecting.
LEMMA MappedPresent ==
  ASSUME CountsInv, LifetimeInv, NEW d \in Delegates,
         \/ Lose(d) \/ Collect(d) \/ Finalize(d)
         \/ \E t \in Actors : \/ RegisterFunctionPointer(t, d) \/ Wrap(t, d)
                              \/ \E h \in Handles : Pass(t, d, h)
  PROVE  Mapped
<1>1. /\ TypeOK /\ \A s : slot'[s] = slot[s] /\ \A b : bridge'[b] = bridge[b]
      /\ \A c : closure'[c] = closure[c]
  BY DEF CountsInv, Lose, Collect, Finalize, RegisterFunctionPointer, Wrap, Pass
<1>2. \A v \in Actors : ctx'[v].c = ctx[v].c
  <2>1. CASE Lose(d) \/ Collect(d)
    BY <2>1 DEF Lose, Collect
  <2>2. CASE Finalize(d)
    <3>1. PICK t \in Actors : t = Finalizer
      BY DEF Actors
    <3>2. ctx[t].c = Null /\ Walk(t, "DropBridge", NoContext, delegate[d].bridge, "idle")
      BY <2>2, <3>1, IdleHolds DEF Finalize
    <3>3. NoContext \in Context /\ NoContext.c = Null
      BY DEF NoContext, Context
    <3> QED BY <1>1, <3>2, <3>3, WalkHolds
  <2>3. CASE \E t \in Actors : \/ RegisterFunctionPointer(t, d) \/ Wrap(t, d)
                               \/ \E h \in Handles : Pass(t, d, h)
    BY <2>3, HoldsSame
  <2> QED BY <2>1, <2>2, <2>3
<1>3. HeldDelegates' = HeldDelegates
  BY <1>1, <1>2, HoldsOn
<1>4. \A e \in Delegates : e # d => delegate'[e] = delegate[e]
  BY <1>1 DEF Lose, Collect, Finalize, RegisterFunctionPointer, Wrap, Pass, TypeOK
<1>5. CASE d \in Present <=> d \in Present'
  <2>1. \A e : e \in Present' <=> e \in Present
    BY <1>4, <1>5 DEF Present
  <2>2. Present' = Present
    BY <2>1
  <2> QED BY <1>3, <2>2 DEF Mapped
<1>6. CASE d \notin Present /\ d \in Present'
  <2>1. \A e : e \in Present' <=> e \in Present \cup {d}
    BY <1>4, <1>6 DEF Present
  <2>2. Present' = Present \cup {d}
    BY <2>1
  <2>3. Lifetime!Create(d)
    BY <1>3, <1>6, <2>2 DEF Lifetime!Create, Present, HeldDelegates
  <2> QED BY <2>3 DEF Mapped, Lifetime!Next
<1>7. CASE d \in Present /\ d \notin Present'
  <2>1. \A e : e \in Present' <=> e \in Present \ {d}
    BY <1>4, <1>7 DEF Present
  <2>2. Present' = Present \ {d}
    BY <2>1
  <2>3. delegate[d].life \in {"live", "lost"} /\ delegate'[d].life \notin {"live", "lost"}
    BY <1>7 DEF Present
  <2>4. Collect(d)
    BY <1>1, <2>3 DEF Lose, Finalize, RegisterFunctionPointer, Wrap, Pass, TypeOK, Delegate
  <2>5. d \notin HeldDelegates
    BY <2>4, HeldFacts DEF Collect, HeldDelegates
  <2>6. Lifetime!Vanish(d)
    BY <1>3, <1>7, <2>2, <2>5 DEF Lifetime!Vanish, Present, HeldDelegates
  <2> QED BY <2>6 DEF Mapped, Lifetime!Next
<1> QED BY <1>5, <1>6, <1>7

\* Steps of calls and releases, and those that copy a function.
LEMMA MappedSame ==
  ASSUME CountsInv, LifetimeInv, NEW t \in Actors,
         \/ \E d \in Delegates : CallDelegate(t, d)
         \/ \E b \in Bridges : CreateBridge(t, b)
         \/ CreateFails(t) \/ Native_Call(t) \/ Finally(t)
         \/ Call_Closure(t) \/ Call_Bridge(t) \/ Call_Delegate(t)
         \/ DropClosure(t) \/ DropBridge(t)
  PROVE  Mapped
<1>1. TypeOK /\ delegate' = delegate /\ slot' = slot
  BY DEF CountsInv, CallDelegate, CreateBridge, CreateFails, Native_Call, Finally, Call_Closure,
         Call_Bridge, Call_Delegate, DropClosure, DropBridge
<1>2. \A v \in Actors : ctx'[v].c = ctx[v].c
  BY HoldsSame
<1>3. \A b \in Bridges : bridge'[b].fn = bridge[b].fn
  <2>1. ASSUME NEW b \in Bridges, CreateBridge(t, b)
        PROVE  \A e \in Bridges : bridge'[e].fn = bridge[e].fn
    <3>1. bridge[b].fn = Empty
      BY <2>1 DEF CreateBridge, CountsInv, ObjectInv, NoBridge
    <3>2. bridge'[b].fn = Empty /\ \A e \in Bridges : e # b => bridge'[e] = bridge[e]
      BY <1>1, <2>1 DEF CreateBridge, TypeOK
    <3> QED BY <3>1, <3>2
  <2>2. CASE DropBridge(t)
    BY <1>1, <2>2 DEF DropBridge, TypeOK, Bridge
  <2>3. CASE bridge' = bridge
    BY <2>3
  <2> QED BY <2>1, <2>2, <2>3 DEF CallDelegate, CreateFails, Native_Call, Finally, Call_Closure,
         Call_Bridge, Call_Delegate, DropClosure
<1>4. \A c \in HeldClosures : closure'[c].of = closure[c].of
  <2>1. CASE DropClosure(t)
    <3>1. PICK b \in Closures : b = ctx[t].at
      BY <2>1 DEF DropClosure, CountsInv, ContextInv
    <3>2. /\ pc[t] = "DropClosure"
          /\ \/ closure' = [closure EXCEPT ![b] = NoClosure] /\ closure[b].count = 1
             \/ closure' = [closure EXCEPT ![b].count = @ - 1]
      BY <2>1, <3>1 DEF DropClosure
    <3>3. b \in HeldClosures => closure[b].count # 1
      BY <3>1, <3>2, HeldTwice
    <3> QED BY <1>1, <3>2, <3>3 DEF TypeOK, Closure, HeldClosures
  <2>2. CASE closure' = closure
    BY <2>2
  <2> QED BY <2>1, <2>2 DEF CallDelegate, CreateBridge, CreateFails, Native_Call, Finally,
         Call_Closure, Call_Bridge, Call_Delegate, DropBridge
<1>5. HeldDelegates' = HeldDelegates
  BY <1>1, <1>2, <1>3, <1>4, HoldsOn
<1> QED BY <1>1, <1>5 DEF Mapped, Present

\* A copied function was held already.
LEMMA MappedCopy ==
  ASSUME CountsInv, LifetimeInv, NEW t \in Actors, NEW s \in Slots,
         CallSlot(t, s) \/ \E b \in Bridges : ReturnFunction(t, s, b)
  PROVE  Mapped
<1>1. TypeOK /\ pc[t] = "idle" /\ delegate' = delegate /\ slot' = slot /\ closure' = Copied(slot[s])
  BY DEF CountsInv, CallSlot, ReturnFunction
<1>2. ctx[t].c = Null /\ NoContext \in Context /\ NoContext.c = Null
  BY <1>1, IdleHolds DEF NoContext
<1>3. \A c \in Closures : closure'[c].of = closure[c].of
  BY <1>1, CopiedFacts
<1>4. HeldClosures' = HeldClosures
  <2>1. CASE CallSlot(t, s)
    <3> DEFINE context == [NoContext EXCEPT !.c = slot[s]]
    <3>1. /\ context \in Context /\ context.c = slot[s] /\ slot[s] \in Closures
          /\ Walk(t, "Call", context, slot[s], "Uncopy")
      BY <1>2, <2>1 DEF CallSlot, NoContext, Context
    <3>2. bridge' = bridge
      BY <2>1 DEF CallSlot
    <3> HIDE DEF context
    <3>3. \A v \in Actors : ctx'[v].c = IF v = t THEN slot[s] ELSE ctx[v].c
      BY <1>1, <3>1, WalkHolds
    <3>4. ASSUME NEW c PROVE c \in HeldClosures' <=> c \in HeldClosures
      BY <1>1, <1>2, <3>2, <3>3, NullAssumption DEF HeldClosures
    <3> QED BY <3>4
  <2>2. ASSUME NEW b \in Bridges, ReturnFunction(t, s, b) PROVE HeldClosures' = HeldClosures
    <3> DEFINE context == [NoContext EXCEPT !.b = b]
    <3>1. context.c = Null /\ ctx' = [ctx EXCEPT ![t] = context]
      BY <2>2 DEF ReturnFunction, NoContext
    <3> HIDE DEF context
    <3>2. \A v \in Actors : ctx'[v].c = ctx[v].c
      BY <1>1, <1>2, <3>1 DEF TypeOK
    <3>3. bridge[b].fn = Empty
      BY <2>2 DEF ReturnFunction, CountsInv, ObjectInv, NoBridge
    <3>4. bridge'[b].fn = slot[s] /\ \A e \in Bridges : e # b => bridge'[e] = bridge[e]
      BY <1>1, <2>2 DEF ReturnFunction, TypeOK
    <3>5. ASSUME NEW c PROVE c \in HeldClosures' <=> c \in HeldClosures
      BY <1>1, <3>2, <3>3, <3>4, NullAssumption DEF HeldClosures
    <3> QED BY <3>5
  <2> QED BY <2>1, <2>2
<1>5. HeldDelegates' = HeldDelegates
  BY <1>3, <1>4 DEF HeldDelegates, HeldClosures
<1> QED BY <1>1, <1>5 DEF Mapped, Present

\* A new function: C++ gets hold of a delegate, which is there.
LEMMA MappedEnter ==
  ASSUME CountsInv, LifetimeInv, NEW t \in Actors, NEW c \in Closures, Enter(t, c)
  PROVE  Mapped
<1>1. /\ TypeOK /\ ContextInv(t) /\ PassInv(t) /\ RootInv
      /\ pc[t] = "Enter" /\ delegate' = delegate /\ slot' = slot /\ closure[c].count = 0
  BY LifetimeParts DEF CountsInv, Enter
<1>2. PICK d \in Delegates : d = ctx[t].d
  BY <1>1, ThreadTypes DEF ContextInv, Resume, Releases
<1>3. d \in Present
  <2>1. Keeps(ctx[t].b, d) /\ ctx[t].b \in Bridges
    BY <1>1, <1>2, ThreadTypes DEF PassInv, Passing, Resume, Releases, ContextInv
  <2>2. bridge[ctx[t].b].lifetime \in Handles
    BY <1>1, <2>1 DEF Keeps, TypeOK, Bridge
  <2> QED BY <1>1, <2>1, <2>2, NullAssumption DEF Keeps, RootInv, Present
<1>4. /\ closure'[c].of = d /\ \A e \in Closures : e # c => closure'[e] = closure[e]
      /\ \A b \in Bridges : bridge'[b].fn = bridge[b].fn
  BY <1>1, <1>2 DEF Enter, TypeOK, Bridge
<1>5. /\ ctx'[t].c = c /\ ctx[t].c = Null
      /\ \A v \in Actors : v # t => ctx'[v].c = ctx[v].c
  BY <1>1 DEF Enter, TypeOK, Context, ContextInv, Resume, Releases
<1>6. c \notin HeldClosures
  BY <1>1, HeldFacts
<1>7. ASSUME NEW e PROVE e \in HeldClosures' <=> e \in HeldClosures \cup {c}
  BY <1>1, <1>4, <1>5, NullAssumption DEF HeldClosures
<1>8. HeldDelegates' = HeldDelegates \cup {d}
  <2>1. /\ HeldClosures' = HeldClosures \cup {c} /\ HeldClosures \subseteq Closures
        /\ HeldDelegates' = {closure'[e].of : e \in HeldClosures'}
    BY <1>7 DEF HeldClosures, HeldDelegates
  <2> QED BY <1>4, <1>6, <2>1 DEF HeldDelegates
<1>9. Lifetime!Hold(d)
  BY <1>1, <1>3, <1>8 DEF Lifetime!Hold, Present, HeldDelegates
<1> QED BY <1>9 DEF Mapped, Lifetime!Next

\* A variable, an operation or a bridge gives its function up.
LEMMA MappedLetGo ==
  ASSUME CountsInv, LifetimeInv, NEW t \in Actors,
         \/ \E s \in Slots : \/ Native_Store(t, s)
                             \/ \E f \in {Empty, Plain} : Assign(t, s, f)
         \/ Native_Return(t) \/ Uncopy(t) \/ Delete(t)
  PROVE  Mapped
<1>1. TypeOK /\ delegate' = delegate /\ closure' = closure /\ ctx[t] \in Context
  BY ThreadTypes DEF CountsInv, Native_Store, Assign, Native_Return, Uncopy, Delete
<1>2. ASSUME NEW s \in Slots, Native_Store(t, s) PROVE Mapped
  <2> DEFINE moved == [ctx[t] EXCEPT !.c = Null]
             last == [moved EXCEPT !.then = "Finally"]
  <2>1. PICK x : x = slot[s]
    OBVIOUS
  <2>2. /\ moved \in Context /\ moved.c = Null
        /\ last \in Context /\ last.c = Null /\ last.then = "Finally"
    BY <1>1 DEF Context
  <2>3. /\ slot' = [slot EXCEPT ![s] = ctx[t].c] /\ bridge' = bridge
        /\ IF slot[s] \in Closures THEN Walk(t, "DropClosure", moved, slot[s], "Finally")
                                   ELSE Continue(t, last)
    BY <1>2 DEF Native_Store
  <2> HIDE DEF moved, last
  <2>4. \A v \in Actors : ctx'[v].c = IF v = t THEN Null ELSE ctx[v].c
    BY <1>1, <2>2, <2>3, WalkHolds, ContinueHolds
  <2>5. \A e \in Slots : slot'[e] = IF e = s THEN ctx[t].c ELSE slot[e]
    BY <1>1, <2>3 DEF TypeOK
  <2>6. \A c \in Closures : /\ c \in HeldClosures' => c \in HeldClosures
                            /\ c \in HeldClosures /\ c # x => c \in HeldClosures'
    BY <2>1, <2>3, <2>4, <2>5, NullAssumption DEF HeldClosures
  <2> QED BY <1>1, <2>6, LetsGo DEF Present
<1>3. ASSUME NEW s \in Slots, NEW f \in {Empty, Plain}, Assign(t, s, f) PROVE Mapped
  <2>1. PICK x : x = slot[s]
    OBVIOUS
  <2>2. /\ ctx[t].c = Null /\ NoContext \in Context /\ NoContext.c = Null
    BY <1>3, IdleHolds DEF Assign, NoContext
  <2>3. /\ slot' = [slot EXCEPT ![s] = f] /\ bridge' = bridge
        /\ IF slot[s] \in Closures THEN Walk(t, "DropClosure", NoContext, slot[s], "idle")
                                   ELSE ctx' = ctx
    BY <1>3 DEF Assign
  <2>4. \A v \in Actors : ctx'[v].c = ctx[v].c
    BY <1>1, <2>2, <2>3, WalkHolds
  <2>5. \A e \in Slots : slot'[e] = IF e = s THEN f ELSE slot[e]
    BY <1>1, <2>3 DEF TypeOK
  <2>6. \A c \in Closures : /\ c \in HeldClosures' => c \in HeldClosures
                            /\ c \in HeldClosures /\ c # x => c \in HeldClosures'
    BY <2>1, <2>3, <2>4, <2>5, NullAssumption DEF HeldClosures
  <2> QED BY <1>1, <2>6, LetsGo DEF Present
<1>4. CASE Native_Return(t) \/ Uncopy(t)
  <2> DEFINE context == [ctx[t] EXCEPT !.c = Null]
  <2>1. PICK x : x = ctx[t].c
    OBVIOUS
  <2>2. context \in Context /\ context.c = Null
    BY <1>1 DEF Context
  <2>3. /\ slot' = slot /\ bridge' = bridge
        /\ \E then : Walk(t, "DropClosure", context, ctx[t].c, then)
    BY <1>4 DEF Native_Return, Uncopy
  <2> HIDE DEF context
  <2>4. \A v \in Actors : ctx'[v].c = IF v = t THEN Null ELSE ctx[v].c
    BY <1>1, <2>2, <2>3, WalkHolds
  <2>5. \A c \in Closures : /\ c \in HeldClosures' => c \in HeldClosures
                            /\ c \in HeldClosures /\ c # x => c \in HeldClosures'
    BY <2>1, <2>3, <2>4, NullAssumption DEF HeldClosures
  <2> QED BY <1>1, <2>5, LetsGo DEF Present
<1>5. CASE Delete(t)
  <2>1. PICK b \in Bridges : b = ctx[t].at
    BY <1>5 DEF Delete, CountsInv, ContextInv
  <2>2. PICK x : x = bridge[b].fn
    OBVIOUS
  <2>3. /\ slot' = slot /\ bridge'[b].fn = Empty
        /\ \A e \in Bridges : e # b => bridge'[e] = bridge[e]
    BY <1>1, <1>5, <2>1 DEF Delete, TypeOK, NoBridge
  <2>4. \A v \in Actors : ctx'[v].c = ctx[v].c
    BY <1>5, HoldsSame
  <2>5. \A c \in Closures : /\ c \in HeldClosures' => c \in HeldClosures
                            /\ c \in HeldClosures /\ c # x => c \in HeldClosures'
    BY <2>2, <2>3, <2>4, NullAssumption DEF HeldClosures
  <2> QED BY <1>1, <2>5, LetsGo DEF Present
<1> QED BY <1>2, <1>3, <1>4, <1>5

LEMMA MappedNext == CountsInv /\ LifetimeInv /\ [Next]_vars => Mapped
<1> SUFFICES ASSUME CountsInv, LifetimeInv, [Next]_vars PROVE Mapped
  OBVIOUS
<1>1. ASSUME NEW t \in Threads, Start(t) \/ ChooseInNative(t) PROVE Mapped
  <2>1. t \in Actors
    BY DEF Actors
  <2> QED BY <1>1, <2>1, MappedPresent, MappedSame, MappedCopy, MappedLetGo
             DEF Start, ChooseInNative
<1>2. ASSUME NEW t \in Actors, Proceed(t) PROVE Mapped
  BY <1>2, MappedPresent, MappedSame, MappedEnter, MappedLetGo DEF Proceed
<1>3. ASSUME NEW d \in Delegates, Lose(d) \/ Collect(d) \/ Finalize(d) PROVE Mapped
  BY <1>3, MappedPresent
<1>4. CASE UNCHANGED vars
  BY <1>4 DEF vars, Mapped, Present, HeldDelegates, HeldClosures
<1> QED BY <1>1, <1>2, <1>3, <1>4 DEF Next

\* A delegate exists as long as C++ holds a function that was made for it, and C++ gets
\* hold only of delegates that exist, however calls, releases, owners and the collector
\* interleave (csbind23.callbacks.g.cs:34).
THEOREM CallablesImplementLifetime == Spec => ImplementsLifetime
<1>1. Init => Lifetime!Init
  <2> SUFFICES ASSUME Init PROVE Present = {} /\ HeldClosures = {}
    BY DEF Lifetime!Init, Present
  <2>1. Present = {}
    BY DEF Init, Present, NoDelegate
  <2>2. HeldClosures = {}
    BY NullAssumption DEF Init, HeldClosures, NoContext, NoBridge
  <2> QED BY <2>1, <2>2
<1>2. Mapped => [Lifetime!Next]_<<{d \in Delegates : delegate[d].life \in {"live", "lost"}},
                                  {closure[c].of : c \in HeldClosures}>>
  BY DEF Mapped, Present, HeldDelegates
<1> QED BY <1>1, <1>2, LifetimeInductive, MappedNext, PTL
           DEF Spec, ImplementsLifetime, Lifetime!Spec

-----------------------------------------------------------------------------
(***************************************************************************)
(* What the rules of use are for.                                          *)
(***************************************************************************)
RulesKept == {"KeepAlive", "NonEmpty"} \subseteq Rules

\* A live bridge has something to call.
CallableInv ==
  \A b \in Bridges :
    bridge[b].state = "live" => bridge[b].fn # Empty \/ bridge[b].lifetime # Null

LEMMA UseCallable ==
  ASSUME RulesKept, CountsInv, UseInv, [Next]_vars
  PROVE  CallableInv'
<1>1. TypeOK /\ CallableInv
  BY DEF CountsInv, UseInv, CallableInv
<1>2. ASSUME NEW t \in Actors, NEW b \in Bridges, CreateBridge(t, b) PROVE CallableInv'
  <2>1. ctx[t].h # Null
    BY <1>2 DEF CreateBridge, CountsInv, ContextInv, Resume, Releases
  <2>2. bridge'[b].lifetime = ctx[t].h /\ \A e \in Bridges : e # b => bridge'[e] = bridge[e]
    BY <1>1, <1>2 DEF CreateBridge, TypeOK
  <2> QED BY <1>1, <2>1, <2>2 DEF CallableInv
<1>3. ASSUME NEW t \in Threads, NEW s \in Slots, NEW b \in Bridges, ReturnFunction(t, s, b)
      PROVE  CallableInv'
  <2>1. slot[s] # Empty
    BY <1>3 DEF ReturnFunction, RulesKept
  <2>2. bridge'[b].fn = slot[s] /\ \A e \in Bridges : e # b => bridge'[e] = bridge[e]
    BY <1>1, <1>3 DEF ReturnFunction, TypeOK
  <2> QED BY <1>1, <2>1, <2>2 DEF CallableInv
<1>4. ASSUME NEW t \in Actors, \E c \in Closures : Enter(t, c) PROVE CallableInv'
  BY <1>1, <1>4 DEF Enter, TypeOK, Bridge, CallableInv
<1>5. ASSUME NEW t \in Actors, DropBridge(t) PROVE CallableInv'
  BY <1>1, <1>5 DEF DropBridge, TypeOK, Bridge, CallableInv
<1>6. ASSUME NEW t \in Actors, Delete(t) PROVE CallableInv'
  <2>1. PICK b \in Bridges : b = ctx[t].at
    BY <1>6 DEF Delete, CountsInv, ContextInv
  <2>2. bridge'[b].state = "free" /\ \A e \in Bridges : e # b => bridge'[e] = bridge[e]
    BY <1>1, <1>6, <2>1 DEF Delete, TypeOK, NoBridge
  <2> QED BY <1>1, <2>2 DEF CallableInv
<1>7. CASE bridge' = bridge
  BY <1>1, <1>7 DEF CallableInv
<1>8. ASSUME NEW t \in Threads, Start(t) \/ ChooseInNative(t) PROVE CallableInv'
  BY <1>3, <1>7, <1>8 DEF Start, ChooseInNative, Pass, CallDelegate, RegisterFunctionPointer,
     CallSlot, Assign, Native_Call, Native_Store
<1>9. ASSUME NEW t \in Actors, Proceed(t) PROVE CallableInv'
  BY <1>2, <1>4, <1>5, <1>6, <1>7, <1>9 DEF Proceed, Wrap, CreateFails, Native_Return, Finally,
     Uncopy, Call_Closure, Call_Bridge, Call_Delegate, DropClosure
<1>10. ASSUME NEW d \in Delegates, Lose(d) \/ Collect(d) \/ Finalize(d) PROVE CallableInv'
  BY <1>7, <1>10 DEF Lose, Collect, Finalize
<1> QED BY <1>7, <1>8, <1>9, <1>10 DEF Next, vars

\* The operations of threads work with live delegates.
AliveInv == \A t \in Threads : ctx[t].d # Null => delegate[ctx[t].d].life = "live"

\* Nobody takes a delegate that an operation of a thread works with.
LEMMA AliveStays ==
  ASSUME RulesKept, TypeOK, [Next]_vars, NEW d \in Delegates, delegate[d].life = "live"
  PROVE  \/ delegate'[d].life = "live"
         \/ Lose(d) /\ \A t \in Threads : ctx[t].d # d
<1>1. ASSUME NEW e \in Delegates, Lose(e)
      PROVE  \/ delegate'[d].life = "live"
             \/ Lose(d) /\ \A t \in Threads : ctx[t].d # d
  BY <1>1 DEF Lose, RulesKept, TypeOK
<1>2. ASSUME NEW e \in Delegates, Collect(e) \/ Finalize(e) PROVE delegate'[d].life = "live"
  <2>1. e # d
    BY <1>2 DEF Collect, Finalize
  <2> QED BY <1>2, <2>1 DEF Collect, Finalize, TypeOK
<1>3. ASSUME NEW t \in Threads, Start(t) \/ ChooseInNative(t) PROVE delegate'[d].life = "live"
  BY <1>3 DEF Start, ChooseInNative, Pass, CallDelegate, RegisterFunctionPointer, CallSlot,
     Assign, ReturnFunction, Native_Call, Native_Store, TypeOK, Delegate
<1>4. ASSUME NEW t \in Actors, Proceed(t) PROVE delegate'[d].life = "live"
  BY <1>4 DEF Proceed, CreateBridge, Enter, Wrap, CreateFails, Native_Return, Finally, Uncopy,
     Call_Closure, Call_Bridge, Call_Delegate, DropClosure, DropBridge, Delete, TypeOK, Delegate
<1> QED BY <1>1, <1>2, <1>3, <1>4 DEF Next, vars

\* A step of t leaves it with the delegate it had, with none, or with a live one.
LEMMA TakesAlive ==
  ASSUME CountsInv, NEW t \in Actors,
         (t \in Threads /\ (Start(t) \/ ChooseInNative(t))) \/ Proceed(t)
  PROVE  /\ Others(t)
         /\ ctx'[t].d # Null =>
              \/ ctx'[t].d = ctx[t].d
              \/ delegate[ctx'[t].d].life = "live"
              \/ delegate'[ctx'[t].d].life = "live"
<1>1. ASSUME NEW d \in Delegates, NEW h \in Handles, Pass(t, d, h)
      PROVE  Others(t) /\ ctx'[t].d = d /\ delegate'[d].life = "live"
  <2> DEFINE context == [NoContext EXCEPT !.d = d, !.h = h]
  <2>1. /\ context.d = d /\ ctx' = [ctx EXCEPT ![t] = context]
        /\ pc' = [pc EXCEPT ![t] = "CreateBridge"]
        /\ delegate' = [delegate EXCEPT ![d].life = "live"]
    BY <1>1 DEF Pass, Goto, NoContext
  <2> HIDE DEF context
  <2> QED BY <2>1 DEF Others, CountsInv, TypeOK, Delegate
<1>2. ASSUME NEW b \in Bridges, CreateBridge(t, b)
      PROVE  Others(t) /\ ctx'[t].d = ctx[t].d
  <2> DEFINE context == [ctx[t] EXCEPT !.h = Null, !.b = b]
  <2>1. ctx' = [ctx EXCEPT ![t].h = Null, ![t].b = b] /\ pc' = [pc EXCEPT ![t] = "Enter"]
    BY <1>2 DEF CreateBridge, Goto
  <2>2. ctx' = [ctx EXCEPT ![t] = context] /\ context.d = ctx[t].d
    BY <2>1 DEF CountsInv, TypeOK, Context
  <2> HIDE DEF context
  <2> QED BY <2>1, <2>2 DEF Others, CountsInv, TypeOK
<1>3. CASE GoesOn(t)
  BY <1>3 DEF GoesOn
<1> QED BY <1>1, <1>2, <1>3, OperationGoesOn DEF Start, ChooseInNative, Proceed

LEMMA UseAlive ==
  ASSUME RulesKept, CountsInv, UseInv, [Next]_vars
  PROVE  AliveInv'
<1> SUFFICES ASSUME NEW t \in Threads, ctx'[t].d # Null
             PROVE  delegate'[ctx'[t].d].life = "live"
  BY DEF AliveInv
<1>1. /\ TypeOK /\ t \in Actors
      /\ ctx[t].d # Null => ctx[t].d \in Delegates /\ delegate[ctx[t].d].life = "live"
  BY ThreadTypes DEF CountsInv, UseInv, Actors
<1>2. CASE ctx'[t].d = ctx[t].d
  <2>1. ~ (ctx[t].d \in Delegates /\ \A u \in Threads : ctx[u].d # ctx[t].d)
    OBVIOUS
  <2> QED BY <1>1, <1>2, <2>1, AliveStays
<1>3. CASE ctx'[t].d # ctx[t].d
  <2>1. (Start(t) \/ ChooseInNative(t)) \/ Proceed(t)
    <3>1. ASSUME NEW u \in Actors, u # t,
                 (u \in Threads /\ (Start(u) \/ ChooseInNative(u))) \/ Proceed(u)
          PROVE  FALSE
      BY <1>1, <1>3, <3>1, TakesAlive DEF Others
    <3>2. ASSUME NEW d \in Delegates, Lose(d) \/ Collect(d) \/ Finalize(d) PROVE FALSE
      <4>1. CASE Lose(d) \/ Collect(d)
        BY <1>3, <4>1 DEF Lose, Collect
      <4>2. CASE Finalize(d)
        BY <1>1, <1>3, <4>2, FinalizerAssumption DEF Finalize, Walk, TypeOK
      <4> QED BY <3>2, <4>1, <4>2
    <3>3. ~ UNCHANGED vars
      BY <1>3 DEF vars
    <3> QED BY <3>1, <3>2, <3>3 DEF Next, Actors
  <2>2. PICK d \in Delegates : d = ctx'[t].d
    BY CountsNext, ThreadTypes, <1>1 DEF CountsInv, TypeOK, Context
  <2>3. delegate[d].life = "live" \/ delegate'[d].life = "live"
    BY <1>1, <1>3, <2>1, <2>2, TakesAlive
  <2>4. ~ Lose(d)
    BY <1>3 DEF Lose
  <2> QED BY <1>1, <2>2, <2>3, <2>4, AliveStays
<1> QED BY <1>2, <1>3

LEMMA UseNext ==
  ASSUME RulesKept, CountsInv, UseInv, [Next]_vars
  PROVE  UseInv'
BY UseAlive, UseCallable DEF UseInv, AliveInv, CallableInv

-----------------------------------------------------------------------------
(***************************************************************************)
(* The chain of a call.                                                    *)
(***************************************************************************)
\* What is in the chain is held, and so it is there.
LEMMA ChainAlive ==
  ASSUME CountsInv, LifetimeInv, UseInv, NEW t \in Threads, NEW P, Chain(t, P), NEW x \in P
  PROVE  /\ x \in Closures => x \in HeldClosures
         /\ x \in Bridges => bridge[x].refs \in Nat \ {0} /\ bridge[x].state = "live"
         /\ x \in Delegates => x \in Present
<1>1. TypeOK /\ t \in Actors /\ Held(t, P, x)
  BY DEF CountsInv, Actors, Chain
<1>2. /\ \A c \in Closures : closure[c].bridge \in Bridges \cup {Null}
      /\ \A b \in Bridges : bridge[b].fn \in {Empty, Plain} \cup Closures
      /\ \A d \in Delegates : delegate[d].bridge \in Bridges \cup {Null}
  BY <1>1 DEF TypeOK, Closure, Bridge, Function, Delegate
<1>3. ASSUME NEW b \in Bridges, Keeps(b, x)
      PROVE  /\ x \in Delegates \cup {Null}
             /\ x \in Delegates => x \in Present
  <2>1. bridge[b].lifetime \in Handles /\ handle[bridge[b].lifetime] = x
    BY <1>1, <1>3 DEF Keeps, TypeOK, Bridge
  <2> QED BY <1>1, <2>1, NullAssumption DEF TypeOK, LifetimeInv, Present
<1>4. CASE x \in Closures
  <2>1. x \notin Bridges /\ x \notin Delegates /\ x # Null
    BY <1>4, KindsAssumption, NullAssumption
  <2>2. ctx[t].c = x \/ \E b \in Bridges : bridge[b].fn = x
    BY <1>1, <1>2, <1>3, <2>1 DEF Held
  <2> QED BY <1>1, <1>4, <2>1, <2>2 DEF HeldClosures
<1>5. CASE x \in Bridges
  <2>1. x \notin Closures /\ x \notin Delegates /\ x # Null /\ x # Empty /\ x # Plain
    BY <1>5, KindsAssumption, NullAssumption
  <2>2. \/ \E c \in Closures : closure[c].bridge = x
        \/ \E d \in Delegates : delegate[d].bridge = x
    BY <1>1, <1>2, <1>3, <2>1 DEF Held
  <2>3. PICK c, d : BridgeShare(t, t, d, c, x) >= 1
    <3>1. CASE \E c \in Closures : closure[c].bridge = x
      <4>1. PICK c \in Closures : closure[c].bridge = x
        BY <3>1
      <4>2. BridgeShare(t, t, Null, c, x) >= 1
        BY <4>1 DEF BridgeShare, One
      <4> QED BY <4>2
    <3>2. CASE \E d \in Delegates : delegate[d].bridge = x
      <4>1. PICK d \in Delegates : delegate[d].bridge = x
        BY <3>2
      <4>2. BridgeShare(t, t, d, Null, x) >= 1
        BY <4>1 DEF BridgeShare, One
      <4> QED BY <4>2
    <3> QED BY <2>2, <3>1, <3>2
  <2>4. bridge[x].refs \in Nat /\ bridge[x].refs # 0 /\ bridge[x].state = "live"
    BY <1>1, <1>5, <2>3, HeldBridge
  <2> QED BY <2>1, <2>4
<1>6. CASE x \in Delegates
  <2>1. x \notin Closures /\ x \notin Bridges /\ x # Null /\ x # Empty /\ x # Plain
    BY <1>6, KindsAssumption, NullAssumption
  <2>2. ctx[t].d = x \/ \E b \in Bridges : Keeps(b, x)
    BY <1>1, <1>2, <2>1 DEF Held
  <2>3. x \in Present
    BY <1>3, <1>6, <2>1, <2>2 DEF UseInv, Present
  <2> QED BY <2>1, <2>3
<1> QED BY <1>4, <1>5, <1>6

\* What is there keeps what it leads to.
LinksKept ==
  /\ \A c \in HeldClosures : closure'[c].bridge = closure[c].bridge
  /\ \A b \in Bridges : bridge[b].refs # 0 =>
       /\ bridge'[b].fn = bridge[b].fn /\ bridge'[b].lifetime = bridge[b].lifetime
       /\ bridge[b].lifetime # Null => handle'[bridge[b].lifetime] = handle[bridge[b].lifetime]
  /\ \A d \in Present : delegate'[d].bridge = delegate[d].bridge

LEMMA ChainFrame ==
  ASSUME CountsInv, LifetimeInv, UseInv, LinksKept, NEW t \in Threads, NEW P, Chain(t, P),
         ctx'[t].c = ctx[t].c, ctx'[t].d = ctx[t].d
  PROVE  Chain(t, P)'
<1>1. ASSUME NEW x \in P PROVE Held(t, P, x)'
  <2>1. Held(t, P, x)
    BY DEF Chain
  <2>2. \A c \in P \cap Closures : closure'[c].bridge = closure[c].bridge
    BY ChainAlive DEF LinksKept
  <2>3. \A b \in P \cap Bridges : /\ bridge'[b].fn = bridge[b].fn
                                  /\ Keeps(b, x) => Keeps(b, x)'
    <3>1. \A b \in P \cap Bridges : bridge[b].refs # 0
      BY ChainAlive
    <3> QED BY <3>1 DEF LinksKept, Keeps
  <2>4. \A d \in P \cap Delegates : delegate'[d].bridge = delegate[d].bridge
    BY ChainAlive DEF LinksKept
  <2> QED BY <2>1, <2>2, <2>3, <2>4 DEF Held
<1> QED BY <1>1 DEF Chain

LEMMA ClosureLinks ==
  ASSUME CountsInv, LifetimeInv, [Next]_vars, NEW c \in HeldClosures
  PROVE  closure'[c].bridge = closure[c].bridge
<1>1. TypeOK /\ c \in Closures /\ closure[c].count # 0
  BY HeldFacts DEF CountsInv
<1>2. ASSUME NEW t \in Actors, NEW e \in Closures, Enter(t, e)
      PROVE  closure'[c].bridge = closure[c].bridge
  BY <1>1, <1>2 DEF Enter, TypeOK
<1>3. ASSUME NEW t \in Threads, NEW s \in Slots,
             CallSlot(t, s) \/ \E b \in Bridges : ReturnFunction(t, s, b)
      PROVE  closure'[c].bridge = closure[c].bridge
  BY <1>1, <1>3, CopiedFacts DEF CallSlot, ReturnFunction
<1>4. ASSUME NEW t \in Actors, DropClosure(t) PROVE closure'[c].bridge = closure[c].bridge
  <2>1. PICK b \in Closures : b = ctx[t].at
    BY <1>4 DEF DropClosure, CountsInv, ContextInv
  <2>2. /\ pc[t] = "DropClosure"
        /\ \/ closure' = [closure EXCEPT ![b] = NoClosure] /\ closure[b].count = 1
           \/ closure' = [closure EXCEPT ![b].count = @ - 1]
    BY <1>4, <2>1 DEF DropClosure
  <2>3. b = c => closure[b].count # 1
    BY <2>1, <2>2, HeldTwice
  <2> QED BY <1>1, <2>2, <2>3 DEF TypeOK, Closure
<1>5. CASE closure' = closure
  BY <1>5
<1>6. ASSUME NEW t \in Threads, Start(t) \/ ChooseInNative(t)
      PROVE  closure'[c].bridge = closure[c].bridge
  BY <1>3, <1>5, <1>6 DEF Start, ChooseInNative, Pass, CallDelegate, RegisterFunctionPointer,
     Assign, Native_Call, Native_Store
<1>7. ASSUME NEW t \in Actors, Proceed(t) PROVE closure'[c].bridge = closure[c].bridge
  BY <1>2, <1>4, <1>5, <1>7 DEF Proceed, CreateBridge, Wrap, CreateFails, Native_Return, Finally,
     Uncopy, Call_Closure, Call_Bridge, Call_Delegate, DropBridge, Delete
<1>8. ASSUME NEW d \in Delegates, Lose(d) \/ Collect(d) \/ Finalize(d)
      PROVE  closure'[c].bridge = closure[c].bridge
  BY <1>5, <1>8 DEF Lose, Collect, Finalize
<1> QED BY <1>5, <1>6, <1>7, <1>8 DEF Next, vars

LEMMA BridgeLinks ==
  ASSUME CountsInv, LifetimeInv, [Next]_vars, NEW b \in Bridges, bridge[b].refs # 0
  PROVE  /\ bridge'[b].fn = bridge[b].fn /\ bridge'[b].lifetime = bridge[b].lifetime
         /\ bridge[b].lifetime # Null =>
              handle'[bridge[b].lifetime] = handle[bridge[b].lifetime]
<1> DEFINE Goal == /\ bridge'[b].fn = bridge[b].fn /\ bridge'[b].lifetime = bridge[b].lifetime
                   /\ bridge[b].lifetime # Null =>
                        handle'[bridge[b].lifetime] = handle[bridge[b].lifetime]
<1>1. /\ TypeOK /\ HandleInv /\ bridge[b].state = "live"
      /\ bridge[b].lifetime \in Handles \cup {Null}
  BY DEF CountsInv, ObjectInv, NoBridge, TypeOK, Bridge
<1>2. ASSUME bridge' = bridge, handle' = handle PROVE Goal
  BY <1>2
<1>3. ASSUME NEW t \in Threads, NEW d \in Delegates, NEW h \in Handles, Pass(t, d, h) PROVE Goal
  BY <1>1, <1>3 DEF Pass, HandleInv, TypeOK
<1>4. ASSUME NEW t \in Actors, NEW e \in Bridges, CreateBridge(t, e) PROVE Goal
  BY <1>1, <1>4 DEF CreateBridge, TypeOK
<1>5. ASSUME NEW t \in Actors, CreateFails(t) PROVE Goal
  <2>1. ctx[t].h # bridge[b].lifetime \/ bridge[b].lifetime = Null
    BY <1>1 DEF HandleInv
  <2> QED BY <1>1, <1>5, <2>1 DEF CreateFails, TypeOK
<1>6. ASSUME NEW t \in Actors, (\E c \in Closures : Enter(t, c)) \/ DropBridge(t) PROVE Goal
  BY <1>1, <1>6 DEF Enter, DropBridge, TypeOK, Bridge
<1>7. ASSUME NEW t \in Threads, NEW s \in Slots, NEW e \in Bridges, ReturnFunction(t, s, e)
      PROVE  Goal
  BY <1>1, <1>7 DEF ReturnFunction, TypeOK
<1>8. ASSUME NEW t \in Actors, Delete(t) PROVE Goal
  <2>1. PICK e \in Bridges : e = ctx[t].at
    BY <1>8 DEF Delete, CountsInv, ContextInv
  <2>2. e # b
    BY <1>8, <2>1 DEF Delete, CountsInv, DeleteInv
  <2>3. bridge[b].lifetime # bridge[e].lifetime \/ bridge[b].lifetime = Null
    BY <1>1, <2>2 DEF HandleInv
  <2> QED BY <1>1, <1>8, <2>1, <2>2, <2>3 DEF Delete, TypeOK
<1> HIDE DEF Goal
<1>9. ASSUME NEW t \in Threads, Start(t) \/ ChooseInNative(t) PROVE Goal
  BY <1>2, <1>3, <1>7, <1>9 DEF Start, ChooseInNative, CallDelegate, RegisterFunctionPointer,
     CallSlot, Assign, Native_Call, Native_Store
<1>10. ASSUME NEW t \in Actors, Proceed(t) PROVE Goal
  BY <1>2, <1>4, <1>5, <1>6, <1>8, <1>10 DEF Proceed, Wrap, Native_Return, Finally, Uncopy,
     Call_Closure, Call_Bridge, Call_Delegate, DropClosure
<1>11. ASSUME NEW d \in Delegates, Lose(d) \/ Collect(d) \/ Finalize(d) PROVE Goal
  BY <1>2, <1>11 DEF Lose, Collect, Finalize
<1>12. Goal
  BY <1>2, <1>9, <1>10, <1>11 DEF Next, vars
<1> QED BY <1>12 DEF Goal

LEMMA DelegateLinks ==
  ASSUME CountsInv, [Next]_vars, NEW d \in Present
  PROVE  delegate'[d].bridge = delegate[d].bridge
<1>1. TypeOK /\ d \in Delegates /\ delegate[d].life \in {"live", "lost"}
  BY DEF CountsInv, Present
<1>2. ASSUME NEW t \in Threads, Start(t) \/ ChooseInNative(t)
      PROVE  delegate'[d].bridge = delegate[d].bridge
  <2>1. ASSUME NEW e \in Delegates,
               (\E h \in Handles : Pass(t, e, h)) \/ RegisterFunctionPointer(t, e)
        PROVE  delegate'[d].bridge = delegate[d].bridge
    <3>1. delegate' = [delegate EXCEPT ![e].life = "live"]
      BY <2>1 DEF Pass, RegisterFunctionPointer
    <3> QED BY <1>1, <3>1 DEF TypeOK, Delegate
  <2>2. CASE delegate' = delegate
    BY <2>2
  <2> QED BY <1>2, <2>1, <2>2 DEF Start, ChooseInNative, CallDelegate, CallSlot, Assign,
       ReturnFunction, Native_Call, Native_Store
<1>3. ASSUME NEW t \in Actors, Proceed(t) PROVE delegate'[d].bridge = delegate[d].bridge
  BY <1>1, <1>3 DEF Proceed, CreateBridge, Enter, Wrap, CreateFails, Native_Return, Finally,
     Uncopy, Call_Closure, Call_Bridge, Call_Delegate, DropClosure, DropBridge, Delete, TypeOK,
     Delegate
<1>4. ASSUME NEW e \in Delegates, Lose(e) \/ Collect(e) \/ Finalize(e)
      PROVE  delegate'[d].bridge = delegate[d].bridge
  <2>1. CASE e # d
    BY <1>1, <1>4, <2>1 DEF Lose, Collect, Finalize, TypeOK
  <2>2. CASE e = d
    <3>1. Lose(d) \/ Collect(d)
      BY <1>1, <1>4, <2>2 DEF Finalize
    <3> QED BY <1>1, <3>1 DEF Lose, Collect, NoDelegate, TypeOK, Delegate
  <2> QED BY <2>1, <2>2
<1> QED BY <1>2, <1>3, <1>4 DEF Next, vars

LEMMA LinksNext ==
  ASSUME CountsInv, LifetimeInv, [Next]_vars
  PROVE  LinksKept
BY ClosureLinks, BridgeLinks, DelegateLinks DEF LinksKept

\* The steps that begin a call and those that take it further.
Calls(t) ==
  \/ Native_Call(t) \/ Call_Closure(t) \/ Call_Bridge(t) \/ Call_Delegate(t)
  \/ \E s \in Slots : CallSlot(t, s)
  \/ \E d \in Delegates : CallDelegate(t, d)

LEMMA CallsOnly ==
  ASSUME CountsInv, [Next]_vars, NEW t \in Threads, pc'[t] = "Call"
  PROVE  Calls(t) \/ (pc[t] = "Call" /\ ctx'[t] = ctx[t])
<1>1. TypeOK /\ t \in Actors /\ ctx[t] \in Context
  BY ThreadTypes DEF CountsInv, Actors
<1>2. ASSUME NEW u \in Actors, u # t,
             (u \in Threads /\ (Start(u) \/ ChooseInNative(u))) \/ Proceed(u)
      PROVE  pc[t] = "Call" /\ ctx'[t] = ctx[t]
  BY <1>1, <1>2, TakesAlive DEF Others
<1>3. ASSUME Start(t) \/ ChooseInNative(t) PROVE Calls(t) \/ UNCHANGED <<pc, ctx>>
  <2>1. ASSUME NEW d \in Delegates, NEW h \in Handles, Pass(t, d, h) PROVE FALSE
    BY <1>1, <2>1 DEF Pass, Goto, TypeOK
  <2>2. ASSUME NEW s \in Slots, NEW b \in Bridges, ReturnFunction(t, s, b) PROVE FALSE
    BY <1>1, <2>2 DEF ReturnFunction, Goto, TypeOK
  <2>3. ASSUME NEW s \in Slots, NEW f \in {Empty, Plain}, Assign(t, s, f)
        PROVE  UNCHANGED <<pc, ctx>>
    BY <1>1, <2>3 DEF Assign, Walk, Goto, TypeOK
  <2>4. ASSUME NEW s \in Slots, Native_Store(t, s) PROVE FALSE
    <3> DEFINE moved == [ctx[t] EXCEPT !.c = Null]
               last == [moved EXCEPT !.then = "Finally"]
    <3>1. last.then = "Finally"
      BY <1>1 DEF Context
    <3>2. Walk(t, "DropClosure", moved, slot[s], "Finally") \/ Continue(t, last)
      BY <2>4 DEF Native_Store
    <3> HIDE DEF moved, last
    <3> QED BY <1>1, <3>1, <3>2 DEF Walk, Continue, Goto, TypeOK
  <2> QED BY <1>3, <2>1, <2>2, <2>3, <2>4 DEF Start, ChooseInNative, Calls,
       RegisterFunctionPointer
<1>4. ASSUME Proceed(t) PROVE Calls(t)
  <2>1. ASSUME \/ \E b \in Bridges : CreateBridge(t, b)
               \/ \E c \in Closures : Enter(t, c)
        PROVE  FALSE
    BY <1>1, <2>1 DEF CreateBridge, Enter, Goto, TypeOK
  <2>2. ASSUME CreateFails(t) \/ \E d \in Delegates : Wrap(t, d) PROVE FALSE
    BY <1>1, <2>2 DEF CreateFails, Wrap, Continue, Goto, TypeOK, NoContext
  <2>3. ASSUME Native_Return(t) \/ Finally(t) \/ Uncopy(t) PROVE FALSE
    BY <1>1, <2>3 DEF Native_Return, Finally, Uncopy, Walk, Goto, TypeOK
  <2>4. ASSUME DropClosure(t) \/ DropBridge(t) \/ Delete(t) PROVE FALSE
    BY <1>1, <2>4 DEF DropClosure, DropBridge, Delete, Walk, Continue, Goto, TypeOK, Context
  <2> QED BY <1>4, <2>1, <2>2, <2>3, <2>4 DEF Proceed, Calls
<1>5. ASSUME NEW d \in Delegates, Lose(d) \/ Collect(d) \/ Finalize(d)
      PROVE  pc[t] = "Call" /\ ctx'[t] = ctx[t]
  <2>1. CASE Lose(d) \/ Collect(d)
    BY <2>1 DEF Lose, Collect
  <2>2. CASE Finalize(d)
    BY <1>1, <2>2, FinalizerAssumption DEF Finalize, Walk, Goto, TypeOK
  <2> QED BY <1>5, <2>1, <2>2
<1>6. Calls(t) \/ (pc[t] = "Call" /\ ctx'[t] = ctx[t]) \/ UNCHANGED <<pc, ctx>>
  BY <1>2, <1>3, <1>4, <1>5 DEF Next, vars, Actors
<1> QED BY <1>6

LEMMA ChainGrows ==
  ASSUME NEW t, NEW P, Chain(t, P)', NEW y \in Closures \cup Bridges \cup Delegates,
         Held(t, P \cup {y}, y)'
  PROVE  Chain(t, P \cup {y})'
<1>1. ASSUME NEW x \in P PROVE Held(t, P \cup {y}, x)'
  BY DEF Chain, Held
<1> QED BY <1>1 DEF Chain

\* Where a call goes is held by what it has come along.
LEMMA CallHeld ==
  ASSUME CountsInv, LifetimeInv, UseInv, ChainInv, [Next]_vars, NEW t \in Threads, Calls(t),
         pc'[t] = "Call"
  PROVE  \E P \in SUBSET (Closures \cup Bridges \cup Delegates) :
           ctx'[t].at \in P /\ Chain(t, P)'
<1>1. TypeOK /\ t \in Actors /\ ctx[t] \in Context
  BY ThreadTypes DEF CountsInv, Actors
<1>2. ASSUME NEW c \in Closures, ctx'[t].c = c, ctx'[t].at = c
      PROVE  ctx'[t].at \in {c} /\ Chain(t, {c})'
  BY <1>2 DEF Chain, Held
<1>3. CASE Native_Call(t)
  <2>1. PICK c \in Closures : c = ctx[t].c
    BY <1>1, <1>3, ThreadTypes DEF Native_Call, CountsInv, ContextInv, Resume, Releases
  <2>2. ctx'[t].c = c /\ ctx'[t].at = c
    BY <1>1, <1>3, <2>1 DEF Native_Call, Walk, TypeOK, Context
  <2> QED BY <1>2, <2>2
<1>4. ASSUME NEW s \in Slots, CallSlot(t, s)
      PROVE  \E P \in SUBSET (Closures \cup Bridges \cup Delegates) :
               ctx'[t].at \in P /\ Chain(t, P)'
  <2>1. PICK c \in Closures : c = slot[s]
    BY <1>4 DEF CallSlot
  <2>2. ctx'[t].c = c /\ ctx'[t].at = c
    BY <1>1, <1>4, <2>1 DEF CallSlot, Walk, TypeOK, NoContext
  <2> QED BY <1>2, <2>2
<1>5. ASSUME NEW d \in Delegates, CallDelegate(t, d)
      PROVE  \E P \in SUBSET (Closures \cup Bridges \cup Delegates) :
               ctx'[t].at \in P /\ Chain(t, P)'
  <2>1. PICK b \in Bridges : b = delegate[d].bridge
    BY <1>1, <1>5 DEF CallDelegate, TypeOK, Delegate
  <2>2. ctx'[t].d = d /\ ctx'[t].at = b /\ delegate'[d].bridge = b
    BY <1>1, <1>5, <2>1 DEF CallDelegate, Walk, TypeOK, NoContext
  <2>3. Chain(t, {d, b})'
    BY <2>2 DEF Chain, Held
  <2> QED BY <2>2, <2>3
<1>6. CASE Call_Closure(t) \/ Call_Bridge(t) \/ Call_Delegate(t)
  <2>1. /\ pc[t] = "Call" /\ UNCHANGED <<delegate, handle, bridge, closure>>
    BY <1>6 DEF Call_Closure, Call_Bridge, Call_Delegate
  <2>2. PICK P \in SUBSET (Closures \cup Bridges \cup Delegates) :
          ctx[t].at \in P /\ Chain(t, P)
    BY <1>1, <2>1 DEF ChainInv
  <2>3. PICK x \in P : x = ctx[t].at
    BY <2>2
  <2>4. ctx[t].then \in {"idle", "Native", "Uncopy"}
    BY <1>1, <2>1 DEF CountsInv, ContextInv
  <2>5. PICK y : /\ Walk(t, "Call", ctx[t], y, ctx[t].then)
                 /\ \/ x \in Closures /\ closure[x].bridge = y
                    \/ x \in Bridges /\ bridge[x].fn = y /\ y \in Closures
                    \/ x \in Bridges /\ Keeps(x, y)
                    \/ x \in Delegates /\ delegate[x].bridge = y /\ y # Null
    <3>1. ~ Continue(t, ctx[t])
      BY <1>1, <2>4 DEF Continue, Goto, TypeOK
    <3>2. CASE Call_Closure(t)
      BY <2>3, <3>2 DEF Call_Closure
    <3>3. CASE Call_Delegate(t)
      BY <2>3, <3>1, <3>3 DEF Call_Delegate
    <3>4. CASE Call_Bridge(t)
      <4>1. x \in Bridges /\ bridge[x].fn \in {Empty, Plain} \cup Closures
        BY <1>1, <2>3, <3>4 DEF Call_Bridge, TypeOK, Bridge, Function
      <4>2. \/ bridge[x].fn \in Closures /\ Walk(t, "Call", ctx[t], bridge[x].fn, ctx[t].then)
            \/ /\ bridge[x].lifetime # Null
               /\ Walk(t, "Call", ctx[t], handle[bridge[x].lifetime], ctx[t].then)
        BY <2>3, <3>1, <3>4, <4>1, NullAssumption DEF Call_Bridge
      <4> QED BY <4>1, <4>2 DEF Keeps
    <3> QED BY <1>6, <3>2, <3>3, <3>4
  <2>6. y \in Closures \cup Bridges \cup Delegates
    <3>1. CASE x \in Closures /\ closure[x].bridge = y
      <4>1. x \in HeldClosures
        BY <2>2, <3>1, ChainAlive
      <4>2. closure[x].count # 0
        BY <4>1, HeldFacts
      <4> QED BY <3>1, <4>2 DEF CountsInv, ObjectInv, TypeOK, Closure
    <3>2. CASE x \in Bridges /\ Keeps(x, y)
      <4>1. bridge[x].lifetime \in Handles /\ handle[bridge[x].lifetime] = y
        BY <1>1, <3>2 DEF Keeps, TypeOK, Bridge
      <4>2. y # Null
        BY <3>2, <4>1 DEF CountsInv, HandleInv
      <4> QED BY <1>1, <4>1, <4>2 DEF TypeOK
    <3>3. CASE x \in Delegates /\ delegate[x].bridge = y /\ y # Null
      BY <1>1, <3>3 DEF TypeOK, Delegate
    <3> QED BY <2>5, <3>1, <3>2, <3>3
  <2>7. ctx'[t].c = ctx[t].c /\ ctx'[t].d = ctx[t].d /\ ctx'[t].at = y
    BY <1>1, <2>5 DEF Walk, TypeOK, Context
  <2>8. Chain(t, P)'
    BY <2>2, <2>7, LinksNext, ChainFrame
  <2>9. Held(t, P \cup {y}, y)'
    BY <2>1, <2>5 DEF Held, Keeps
  <2>10. Chain(t, P \cup {y})'
    BY <2>6, <2>8, <2>9, ChainGrows
  <2> QED BY <2>6, <2>7, <2>10
<1> QED BY <1>2, <1>3, <1>4, <1>5, <1>6 DEF Calls

LEMMA ChainNext ==
  ASSUME CountsInv, LifetimeInv, UseInv, ChainInv, [Next]_vars, CountsInv'
  PROVE  ChainInv'
<1> SUFFICES ASSUME NEW t \in Actors, pc'[t] = "Call"
             PROVE  \E P \in SUBSET (Closures \cup Bridges \cup Delegates) :
                      ctx'[t].at \in P /\ Chain(t, P)'
  BY DEF ChainInv
<1>1. t \in Threads
  BY DEF CountsInv, ContextInv
<1>2. CASE Calls(t)
  BY <1>1, <1>2, CallHeld
<1>3. CASE pc[t] = "Call" /\ ctx'[t] = ctx[t]
  <2>1. PICK P \in SUBSET (Closures \cup Bridges \cup Delegates) :
          ctx[t].at \in P /\ Chain(t, P)
    BY <1>3 DEF ChainInv
  <2>2. Chain(t, P)'
    BY <1>1, <1>3, <2>1, LinksNext, ChainFrame
  <2> QED BY <1>3, <2>1, <2>2
<1> QED BY <1>1, <1>2, <1>3, CallsOnly

\* The chain that a running call has come along is held by its operation, and the rules
\* of use keep what hangs on it: the argument for CalleesExist, as an invariant
\* (functional.hpp:51-63, csbind23.callbacks.g.cs:51).
THEOREM CalleeInductive == ASSUME RulesKept PROVE Spec => []CalleeInv
<1>1. Init => CalleeInv
  <2>1. Init => ChainInv
    BY DEF Init, ChainInv
  <2>2. Init => UseInv
    BY DEF Init, UseInv, NoContext, NoBridge, Actors
  <2> QED BY <2>1, <2>2, CountsInit, LifetimeInit DEF CalleeInv
<1>2. CalleeInv /\ [Next]_vars => CalleeInv'
  <2> SUFFICES ASSUME CalleeInv, [Next]_vars PROVE CalleeInv'
    OBVIOUS
  <2>1. CountsInv /\ LifetimeInv /\ ChainInv /\ UseInv
    BY DEF CalleeInv
  <2>2. CountsInv' /\ LifetimeInv'
    BY <2>1, CountsNext, LifetimeNext
  <2>3. UseInv'
    BY <2>1, UseNext
  <2>4. ChainInv'
    BY <2>1, <2>2, ChainNext
  <2> QED BY <2>2, <2>3, <2>4 DEF CalleeInv
<1> QED BY <1>1, <1>2, PTL DEF Spec

\* A program that keeps the delegates it calls, and returns no empty function, never has
\* a call arrive at a closure, a bridge or a delegate that is gone, or at a bridge that
\* has nothing to call (csbind23.callbacks.g.cs:51).
THEOREM CalleesExist == ASSUME RulesKept PROVE Spec => []CalleeExists
<1>1. CalleeInv => CalleeExists
  <2> SUFFICES ASSUME CalleeInv, NEW t \in Actors, pc[t] = "Call"
               PROVE  \/ ctx[t].at \in Closures /\ closure[ctx[t].at].count > 0
                      \/ /\ ctx[t].at \in Bridges /\ bridge[ctx[t].at].refs > 0
                         /\ \/ bridge[ctx[t].at].fn # Empty
                            \/ bridge[ctx[t].at].lifetime # Null
                      \/ ctx[t].at \in Delegates /\ delegate[ctx[t].at].life \in {"live", "lost"}
    BY DEF CalleeExists
  <2>1. CountsInv /\ LifetimeInv /\ ChainInv /\ UseInv /\ t \in Threads
    BY DEF CalleeInv, CountsInv, ContextInv
  <2>2. PICK P \in SUBSET (Closures \cup Bridges \cup Delegates) :
          ctx[t].at \in P /\ Chain(t, P)
    BY <2>1 DEF ChainInv
  <2>3. PICK x \in P : x = ctx[t].at
    BY <2>2
  <2>4. CASE x \in Closures
    BY <2>1, <2>2, <2>3, <2>4, ChainAlive, HeldFacts
  <2>5. CASE x \in Bridges
    <3>1. bridge[x].refs \in Nat \ {0} /\ bridge[x].state = "live"
      BY <2>1, <2>2, <2>5, ChainAlive
    <3>2. bridge[x].fn # Empty \/ bridge[x].lifetime # Null
      BY <2>1, <2>5, <3>1 DEF UseInv
    <3> QED BY <2>3, <2>5, <3>1, <3>2
  <2>6. CASE x \in Delegates
    BY <2>1, <2>2, <2>3, <2>6, ChainAlive DEF Present
  <2> QED BY <2>4, <2>5, <2>6
<1> QED BY <1>1, CalleeInductive, PTL
=============================================================================
