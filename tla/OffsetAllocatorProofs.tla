------------------------ MODULE OffsetAllocatorProofs ------------------------
(***************************************************************************)
(* OffsetAllocator, for any storage below 2^32, any number of nodes and    *)
(* any request sizes: the lists, masks, neighbours and sums of the         *)
(* allocator stay as they should, and its client gets separate regions.    *)
(***************************************************************************)
EXTENDS OffsetAllocatorInvariant, SmallFloatProofs, FiniteSetTheorems

LEMMA ConstantFacts ==
  /\ MaxAllocs \in Nat /\ MaxAllocs >= 2
  /\ unused \notin NodeIndex
  /\ IsFiniteSet(NodeIndex) /\ Cardinality(NodeIndex) = MaxAllocs
  /\ NUM_TOP_BINS \in Nat
  /\ Size \in UINT32 /\ Size \in Nat
<1>1. /\ MaxAllocs \in Nat /\ MaxAllocs >= 2
      /\ NUM_TOP_BINS \in Nat /\ Size \in UINT32 /\ Size \in Nat
  BY MaxAllocsAssumption, BinsAssumption, SizeAssumption, UINT32Range
<1>2. IsFiniteSet(NodeIndex) /\ Cardinality(NodeIndex) = MaxAllocs
  BY <1>1, FS_Interval DEF NodeIndex
<1> QED BY <1>1, <1>2 DEF NodeIndex, unused

-----------------------------------------------------------------------------
(***************************************************************************)
(* Sums of sizes.                                                          *)
(***************************************************************************)
Sizes(nodes, S) == \A n \in S : nodes[n].dataSize \in Nat

Chosen(S) == CHOOSE x \in S : TRUE

\* What the fold's function on the subsets of S does at one of them.
FoldAt(nodes, I, T) == IF T = {} THEN 0 ELSE nodes[Chosen(T)].dataSize + I[T \ {Chosen(T)}]

IsFold(nodes, I, D) == I = [T \in D |-> FoldAt(nodes, I, T)]

LEMMA SumUnfold ==
  ASSUME NEW nodes, NEW S
  PROVE  SizeSum(nodes, S) = (CHOOSE I : IsFold(nodes, I, SUBSET S))[S]
BY DEF SizeSum, MapThenSumSet, MapThenFoldSet, IsFold, FoldAt, Chosen

LEMMA ChosenFacts ==
  ASSUME NEW S, IsFiniteSet(S), S # {}
  PROVE  /\ Chosen(S) \in S
         /\ IsFiniteSet(S \ {Chosen(S)})
         /\ Cardinality(S) \in Nat \ {0}
         /\ Cardinality(S \ {Chosen(S)}) = Cardinality(S) - 1
<1>1. Chosen(S) \in S
  BY DEF Chosen
<1> QED BY <1>1, FS_RemoveElement, FS_CardinalityType, FS_EmptySet

\* A finite set has the function that the fold is defined by.
LEMMA FoldExists ==
  ASSUME NEW nodes, NEW S, IsFiniteSet(S)
  PROVE  \E I : IsFold(nodes, I, SUBSET S)
<1> DEFINE D(n) == {T \in SUBSET S : Cardinality(T) <= n}
           N == {n \in Nat : \E I : IsFold(nodes, I, D(n))}
<1>1. \A T \in SUBSET S : IsFiniteSet(T) /\ Cardinality(T) \in Nat /\ Cardinality(T) <= Cardinality(S)
  BY FS_Subset, FS_CardinalityType
<1>2. 0 \in N
  <2> DEFINE I == [T \in D(0) |-> 0]
  <2>1. \A T \in D(0) : T = {}
    BY <1>1, FS_EmptySet
  <2>2. IsFold(nodes, I, D(0))
    BY <2>1 DEF IsFold, FoldAt
  <2> QED BY <2>2
<1>3. ASSUME NEW n \in Nat, n \in N
      PROVE  n + 1 \in N
  <2>1. PICK I : IsFold(nodes, I, D(n))
    BY <1>3
  <2> DEFINE J == [T \in D(n + 1) |-> FoldAt(nodes, I, T)]
  <2>2. \A T \in D(n) : T \in D(n + 1) /\ J[T] = I[T]
    BY <1>1, <2>1 DEF IsFold
  <2>3. \A T \in D(n + 1) : T # {} => T \ {Chosen(T)} \in D(n)
    <3> SUFFICES ASSUME NEW T \in D(n + 1), T # {} PROVE T \ {Chosen(T)} \in D(n)
      OBVIOUS
    <3> QED BY <1>1, ChosenFacts
  <2>4. \A T \in D(n + 1) : FoldAt(nodes, I, T) = FoldAt(nodes, J, T)
    <3> HIDE DEF J, D
    <3> QED BY <2>2, <2>3 DEF FoldAt
  <2>5. IsFold(nodes, J, D(n + 1))
    BY <2>4 DEF IsFold
  <2> HIDE DEF J, D
  <2> QED BY <2>5
<1>4. Nat \subseteq N
  <2> HIDE DEF N
  <2> QED BY <1>2, <1>3, SetInduction
<1>5. D(Cardinality(S)) = SUBSET S
  BY <1>1
<1>6. Cardinality(S) \in N
  <2> HIDE DEF N
  <2> QED BY <1>4, FS_CardinalityType
<1> HIDE DEF D
<1> QED BY <1>5, <1>6

\* Its value depends on the sizes of the elements only.
LEMMA FoldsAgree ==
  ASSUME NEW f, NEW I, NEW D, IsFold(f, I, D),
         NEW g, NEW J, NEW E, IsFold(g, J, E),
         NEW S, IsFiniteSet(S), SUBSET S \subseteq D, SUBSET S \subseteq E,
         \A x \in S : f[x].dataSize = g[x].dataSize
  PROVE  I[S] = J[S]
<1> DEFINE N == {n \in Nat : \A T \in SUBSET S : Cardinality(T) = n => I[T] = J[T]}
<1>1. \A T \in SUBSET S : IsFiniteSet(T) /\ Cardinality(T) \in Nat
  BY FS_Subset, FS_CardinalityType
<1>2. \A T \in SUBSET S : I[T] = FoldAt(f, I, T) /\ J[T] = FoldAt(g, J, T)
  BY DEF IsFold
<1>3. 0 \in N
  <2>1. \A T \in SUBSET S : Cardinality(T) = 0 => T = {}
    BY <1>1, FS_EmptySet
  <2> QED BY <1>2, <2>1 DEF FoldAt
<1>4. ASSUME NEW n \in Nat, n \in N
      PROVE  n + 1 \in N
  <2> SUFFICES ASSUME NEW T \in SUBSET S, Cardinality(T) = n + 1
               PROVE  I[T] = J[T]
    OBVIOUS
  <2>1. T # {} /\ Chosen(T) \in T /\ Cardinality(T \ {Chosen(T)}) = n
    <3>1. T # {}
      BY FS_EmptySet
    <3> QED BY <1>1, <3>1, ChosenFacts
  <2>2. I[T \ {Chosen(T)}] = J[T \ {Chosen(T)}]
    BY <1>4, <2>1
  <2> QED BY <1>2, <2>1, <2>2 DEF FoldAt
<1>5. Nat \subseteq N
  <2> HIDE DEF N
  <2> QED BY <1>3, <1>4, SetInduction
<1>6. Cardinality(S) \in N
  <2> HIDE DEF N
  <2> QED BY <1>1, <1>5
<1> QED BY <1>6

\* Any element may be taken first.
LEMMA FoldTakes ==
  ASSUME NEW nodes, NEW S, IsFiniteSet(S), Sizes(nodes, S),
         NEW I, IsFold(nodes, I, SUBSET S), NEW x \in S
  PROVE  /\ I[S] = nodes[x].dataSize + I[S \ {x}]
         /\ I[S] \in Nat /\ I[S \ {x}] \in Nat
<1> DEFINE Takes(T) == I[T] \in Nat /\ \A y \in T : I[T] = nodes[y].dataSize + I[T \ {y}]
           N == {n \in Nat : \A T \in SUBSET S : Cardinality(T) <= n => Takes(T)}
<1>1. \A T \in SUBSET S : IsFiniteSet(T) /\ Cardinality(T) \in Nat
  BY FS_Subset, FS_CardinalityType
<1>2. \A T \in SUBSET S : I[T] = FoldAt(nodes, I, T)
  BY DEF IsFold
<1>3. 0 \in N
  <2>1. \A T \in SUBSET S : Cardinality(T) <= 0 => T = {}
    BY <1>1, FS_EmptySet
  <2>2. I[{}] = 0
    BY <1>2 DEF FoldAt
  <2>3. Takes({})
    BY <2>2
  <2> HIDE DEF Takes
  <2> QED BY <2>1, <2>3
<1>4. ASSUME NEW n \in Nat, n \in N
      PROVE  n + 1 \in N
  <2>0. ASSUME NEW T \in SUBSET S, Cardinality(T) = n + 1
        PROVE  Takes(T)
    <3> HIDE DEF Takes
    <3> DEFINE h == Chosen(T)
    <3>0. IsFiniteSet(T)
      BY <1>1
    <3>1. T # {}
      BY <2>0, <3>0, FS_EmptySet
    <3>2. h \in T /\ Cardinality(T \ {h}) = n
      <4>1. h \in T /\ Cardinality(T \ {h}) = Cardinality(T) - 1
        BY <3>0, <3>1, ChosenFacts
      <4> QED BY <2>0, <4>1
    <3>3. I[T] = nodes[h].dataSize + I[T \ {h}]
      BY <1>2, <3>1 DEF FoldAt
    <3> HIDE DEF h
    <3>4. I[T \ {h}] \in Nat
          /\ \A y \in T \ {h} : I[T \ {h}] = nodes[y].dataSize + I[(T \ {h}) \ {y}]
      <4>1. T \ {h} \in SUBSET S /\ Cardinality(T \ {h}) <= n
        BY <3>2
      <4>2. Takes(T \ {h})
        BY <1>4, <4>1
      <4> QED BY <4>2 DEF Takes
    <3>5. \A y \in T : nodes[y].dataSize \in Nat
      BY DEF Sizes
    <3>6. ASSUME NEW y \in T, y # h
          PROVE  I[T] = nodes[y].dataSize + I[T \ {y}]
      <4> DEFINE U == (T \ {h}) \ {y}
      <4>1. Cardinality(T \ {y}) = n
        BY <2>0, <3>0, FS_RemoveElement, SMTT(60)
      <4>2. h \in T \ {y} /\ (T \ {y}) \ {h} = U
        BY <3>2, <3>6
      <4>3. T \ {y} \in SUBSET S /\ Cardinality(T \ {y}) <= n
        BY <4>1
      <4>4. I[T \ {y}] = nodes[h].dataSize + I[U]
        <5>1. Takes(T \ {y})
          BY <1>4, <4>3
        <5> QED BY <4>2, <5>1 DEF Takes
      <4>5. I[T \ {h}] = nodes[y].dataSize + I[U]
        BY <3>4, <3>6
      <4>6. IsFiniteSet(T \ {y}) /\ Cardinality((T \ {y}) \ {h}) = n - 1
        <5>1. IsFiniteSet(T \ {y})
          BY <3>0, FS_RemoveElement
        <5> QED BY <4>1, <4>2, <5>1, FS_RemoveElement
      <4>7. Takes(U)
        <5>1. Cardinality(U) = n - 1
          BY <4>2, <4>6
        <5>2. U \in SUBSET S
          OBVIOUS
        <5> HIDE DEF U
        <5> QED BY <1>4, <5>1, <5>2
      <4>8. I[U] \in Nat
        BY <4>7 DEF Takes
      <4> HIDE DEF U
      <4> QED BY <3>2, <3>3, <3>5, <4>4, <4>5, <4>8
    <3>7. I[T] \in Nat
      BY <3>2, <3>3, <3>4, <3>5
    <3> QED BY <3>3, <3>6, <3>7 DEF Takes
  <2> HIDE DEF Takes
  <2> QED BY <1>1, <1>4, <2>0
<1>5. Nat \subseteq N
  <2> HIDE DEF N
  <2> QED BY <1>3, <1>4, SetInduction
<1>6. Cardinality(S) \in N /\ Cardinality(S \ {x}) \in N
  <2> HIDE DEF N
  <2> QED BY <1>1, <1>5
<1>7. Takes(S) /\ Takes(S \ {x})
  <2> HIDE DEF Takes
  <2>1. S \in SUBSET S /\ S \ {x} \in SUBSET S
    OBVIOUS
  <2>2. Cardinality(S) <= Cardinality(S) /\ Cardinality(S \ {x}) <= Cardinality(S \ {x})
    BY <1>1, <2>1
  <2> QED BY <1>6, <2>1, <2>2
<1> QED BY <1>7

\* A sum is the value of a fold's function that is defined on more sets, too.
LEMMA SumFold ==
  ASSUME NEW nodes, NEW S, IsFiniteSet(S),
         NEW I, NEW D, IsFold(nodes, I, D), SUBSET S \subseteq D
  PROVE  SizeSum(nodes, S) = I[S]
<1> DEFINE J == CHOOSE K : IsFold(nodes, K, SUBSET S)
           E == SUBSET S
<1>1. IsFold(nodes, J, E)
  BY FoldExists
<1>2. SUBSET S \subseteq E /\ SizeSum(nodes, S) = J[S]
  BY SumUnfold
<1> HIDE DEF J, E
<1>3. J[S] = I[S]
  BY <1>1, <1>2, FoldsAgree
<1> QED BY <1>2, <1>3

\* One element more.
LEMMA SumAdd ==
  ASSUME NEW nodes, NEW S, IsFiniteSet(S), Sizes(nodes, S), NEW x \in S, NEW T, T = S \ {x}
  PROVE  /\ SizeSum(nodes, S) = nodes[x].dataSize + SizeSum(nodes, T)
         /\ SizeSum(nodes, T) \in Nat
         /\ nodes[x].dataSize \in Nat
<1> DEFINE D == SUBSET S
<1>1. PICK I : IsFold(nodes, I, SUBSET S)
  BY FoldExists
<1>2. I[S] = nodes[x].dataSize + I[T] /\ I[T] \in Nat
  BY <1>1, FoldTakes
<1>3. IsFiniteSet(T)
  BY FS_RemoveElement
<1>4. IsFold(nodes, I, D) /\ SUBSET S \subseteq D /\ SUBSET T \subseteq D
  BY <1>1
<1> HIDE DEF D
<1>5. SizeSum(nodes, S) = I[S] /\ SizeSum(nodes, T) = I[T]
  BY <1>3, <1>4, SumFold
<1> QED BY <1>2, <1>5 DEF Sizes

LEMMA SumSame ==
  ASSUME NEW f, NEW g, NEW S, IsFiniteSet(S),
         \A x \in S : f[x].dataSize = g[x].dataSize
  PROVE  SizeSum(f, S) = SizeSum(g, S)
<1> DEFINE D == SUBSET S
<1>1. PICK I : IsFold(f, I, D)
  BY FoldExists
<1>2. PICK J : IsFold(g, J, D)
  BY FoldExists
<1>3. SUBSET S \subseteq D
  OBVIOUS
<1> HIDE DEF D
<1>4. I[S] = J[S]
  BY <1>1, <1>2, <1>3, FoldsAgree
<1>5. SizeSum(f, S) = I[S] /\ SizeSum(g, S) = J[S]
  BY <1>1, <1>2, <1>3, SumFold
<1> QED BY <1>4, <1>5

LEMMA SumEmpty == ASSUME NEW nodes, NEW S, S = {} PROVE SizeSum(nodes, S) = 0
<1> DEFINE D == SUBSET S
<1>1. IsFiniteSet(S)
  BY FS_EmptySet
<1>2. PICK I : IsFold(nodes, I, D)
  BY <1>1, FoldExists
<1>3. I[S] = 0 /\ SUBSET S \subseteq D
  BY <1>2 DEF IsFold, FoldAt
<1> HIDE DEF D
<1>4. SizeSum(nodes, S) = I[S]
  BY <1>1, <1>2, <1>3, SumFold
<1> QED BY <1>3, <1>4

\* A sum over fewer elements is not larger.
LEMMA SumSubset ==
  ASSUME NEW nodes, NEW S, IsFiniteSet(S), Sizes(nodes, S), NEW T \in SUBSET S
  PROVE  /\ SizeSum(nodes, S) \in Nat
         /\ SizeSum(nodes, T) \in Nat
         /\ SizeSum(nodes, T) <= SizeSum(nodes, S)
<1> DEFINE Below(U) == SizeSum(nodes, U) \in Nat /\ SizeSum(nodes, T) <= SizeSum(nodes, U)
           N == {n \in Nat : \A U \in SUBSET S :
                   T \subseteq U /\ Cardinality(U \ T) = n => Below(U)}
<1>1. \A U \in SUBSET S : IsFiniteSet(U) /\ Sizes(nodes, U)
  BY FS_Subset DEF Sizes
<1>2. SizeSum(nodes, T) \in Nat
  <2>1. CASE T = {}
    BY <2>1, SumEmpty
  <2>2. CASE T # {}
    <3>1. PICK x \in T : TRUE
      BY <2>2
    <3>2. PICK V : V = T \ {x}
      OBVIOUS
    <3>3. IsFiniteSet(T) /\ Sizes(nodes, T)
      BY <1>1
    <3>4. /\ SizeSum(nodes, T) = nodes[x].dataSize + SizeSum(nodes, V)
          /\ SizeSum(nodes, V) \in Nat /\ nodes[x].dataSize \in Nat
      BY <3>1, <3>2, <3>3, SumAdd
    <3> QED BY <3>4
  <2> QED BY <2>1, <2>2
<1>3. 0 \in N
  <2> SUFFICES ASSUME NEW U \in SUBSET S, T \subseteq U, Cardinality(U \ T) = 0
               PROVE  Below(U)
    OBVIOUS
  <2>1. IsFiniteSet(U \ T)
    BY <1>1, FS_Difference
  <2>2. U = T
    BY <2>1, FS_EmptySet
  <2> QED BY <1>2, <2>2
<1>4. ASSUME NEW n \in Nat, n \in N
      PROVE  n + 1 \in N
  <2> SUFFICES ASSUME NEW U \in SUBSET S, T \subseteq U, Cardinality(U \ T) = n + 1
               PROVE  Below(U)
    OBVIOUS
  <2>1. IsFiniteSet(U \ T)
    BY <1>1, FS_Difference
  <2>2. U \ T # {}
    BY <2>1, FS_EmptySet
  <2>3. PICK x \in U \ T : TRUE
    BY <2>2
  <2>4. PICK V : V = U \ {x}
    OBVIOUS
  <2>5. T \subseteq V /\ V \in SUBSET S /\ (U \ T) \ {x} = V \ T
    BY <2>3, <2>4
  <2>6. Cardinality(V \ T) = n
    <3>1. Cardinality((U \ T) \ {x}) = Cardinality(U \ T) - 1
      BY <2>1, <2>3, FS_RemoveElement
    <3>2. Cardinality(V \ T) = Cardinality((U \ T) \ {x})
      BY <2>5
    <3> QED BY <3>1, <3>2
  <2>7. Below(V)
    <3> HIDE DEF Below
    <3> QED BY <1>4, <2>5, <2>6
  <2>8. /\ SizeSum(nodes, U) = nodes[x].dataSize + SizeSum(nodes, V)
        /\ SizeSum(nodes, V) \in Nat /\ nodes[x].dataSize \in Nat
    BY <1>1, <2>3, <2>4, SumAdd
  <2> QED BY <1>2, <2>7, <2>8
<1>5. Nat \subseteq N
  <2> HIDE DEF N
  <2> QED BY <1>3, <1>4, SetInduction
<1>6. Cardinality(S \ T) \in N
  <2> HIDE DEF N
  <2> QED BY <1>5, FS_Difference, FS_CardinalityType
<1>7. Below(S)
  <2> HIDE DEF Below
  <2> QED BY <1>6
<1> QED BY <1>2, <1>7

-----------------------------------------------------------------------------
(***************************************************************************)
(* The list of a bin, as a node leaves it and as a node becomes its first. *)
(***************************************************************************)
\* Node n, between p and q, leaves the free regions F.
Unlisted(f, g, heads, hs, F, E, n, p, q) ==
  /\ n \in F /\ E = F \ {n} /\ p = f[n].binListPrev /\ q = f[n].binListNext
  /\ \A x \in E : /\ g[x].dataSize = f[x].dataSize
                  /\ g[x].binListNext = IF x = p THEN q ELSE f[x].binListNext
                  /\ g[x].binListPrev = IF x = q THEN p ELSE f[x].binListPrev
  /\ \A b \in Bins : hs[b] = IF p = unused /\ b = uintToFloatRoundDown(f[n].dataSize)
                               THEN q ELSE heads[b]

LEMMA ListRemove ==
  ASSUME NEW f, NEW g, NEW heads, NEW hs, NEW F \in SUBSET NodeIndex, ListInv(f, heads, F),
         NEW n, NEW E, NEW p, NEW q, Unlisted(f, g, heads, hs, F, E, n, p, q)
  PROVE  ListInv(g, hs, E)
<1> USE DEF Unlisted
<1> DEFINE bin(x) == uintToFloatRoundDown(f[x].dataSize)
<1>1. PICK rank \in Ranks : ListOrder(f, F, rank)
  BY DEF ListInv
<1>2. \A x \in F : rank[x] \in Nat
  BY DEF Ranks
<1>3. unused \notin F
  BY ConstantFacts
<1>4. /\ \A x \in F : bin(x) \in Bins
      /\ \A x \in F : IF f[x].binListPrev = unused THEN heads[bin(x)] = x
                      ELSE /\ f[x].binListPrev \in F /\ bin(f[x].binListPrev) = bin(x)
                           /\ f[f[x].binListPrev].binListNext = x
      /\ \A x \in F : f[x].binListNext # unused =>
                        /\ f[x].binListNext \in F /\ bin(f[x].binListNext) = bin(x)
                        /\ f[f[x].binListNext].binListPrev = x
      /\ \A b \in Bins : heads[b] # unused =>
                           heads[b] \in F /\ bin(heads[b]) = b /\ f[heads[b]].binListPrev = unused
  BY DEF ListInv, ListLinks
<1>5. /\ p # unused => p \in E /\ bin(p) = bin(n) /\ f[p].binListNext = n /\ rank[p] < rank[n]
      /\ q # unused => q \in E /\ bin(q) = bin(n) /\ f[q].binListPrev = n /\ rank[n] < rank[q]
      /\ p = unused => heads[bin(n)] = n
  BY <1>1, <1>2, <1>3, <1>4 DEF ListOrder
<1>6. \A x \in E : uintToFloatRoundDown(g[x].dataSize) = bin(x)
  OBVIOUS
<1> HIDE DEF bin
<1>7. ASSUME NEW x \in E
      PROVE  IF g[x].binListPrev = unused THEN hs[bin(x)] = x
             ELSE /\ g[x].binListPrev \in E /\ bin(g[x].binListPrev) = bin(x)
                  /\ g[g[x].binListPrev].binListNext = x
  <2>1. CASE x = q
    BY <1>3, <1>4, <1>5, <2>1 DEF bin
  <2>2. CASE x # q
    BY <1>3, <1>4, <1>5, <2>2 DEF bin
  <2> QED BY <2>1, <2>2
<1>8. ASSUME NEW x \in E, g[x].binListNext # unused
      PROVE  /\ g[x].binListNext \in E /\ bin(g[x].binListNext) = bin(x)
             /\ g[g[x].binListNext].binListPrev = x
  <2>1. CASE x = p
    BY <1>3, <1>4, <1>5, <1>8, <2>1
  <2>2. CASE x # p
    BY <1>3, <1>4, <1>5, <1>8, <2>2
  <2> QED BY <2>1, <2>2
<1>9. ASSUME NEW b \in Bins, hs[b] # unused
      PROVE  hs[b] \in E /\ bin(hs[b]) = b /\ g[hs[b]].binListPrev = unused
  BY <1>3, <1>4, <1>5, <1>9 DEF bin
<1>10. ListLinks(g, hs, E)
  <2> USE <1>6
  <2>1. \A x \in E : bin(x) \in Bins
    BY <1>4
  <2> QED BY <1>7, <1>8, <1>9, <2>1 DEF ListLinks
<1>11. ListOrder(g, E, rank)
  <2> SUFFICES ASSUME NEW x \in E, g[x].binListPrev # unused
               PROVE  rank[g[x].binListPrev] < rank[x]
    BY DEF ListOrder
  <2>1. CASE x = q
    BY <1>2, <1>3, <1>5, <2>1
  <2>2. CASE x # q
    BY <1>1, <2>2 DEF ListOrder
  <2> QED BY <2>1, <2>2
<1> QED BY <1>10, <1>11 DEF ListInv

\* Node n becomes the first of bin b, before q.
Listed(f, g, heads, hs, F, E, n, b, q) ==
  /\ n \in NodeIndex /\ n \notin F /\ E = F \cup {n}
  /\ b \in Bins /\ b = uintToFloatRoundDown(g[n].dataSize) /\ q = heads[b]
  /\ \A x \in F : /\ g[x].dataSize = f[x].dataSize
                  /\ g[x].binListNext = f[x].binListNext
                  /\ g[x].binListPrev = IF x = q THEN n ELSE f[x].binListPrev
  /\ g[n].binListPrev = unused /\ g[n].binListNext = q
  /\ \A c \in Bins : hs[c] = IF c = b THEN n ELSE heads[c]

LEMMA ListInsert ==
  ASSUME NEW f, NEW g, NEW heads, NEW hs, NEW F \in SUBSET NodeIndex, ListInv(f, heads, F),
         NEW n, NEW E, NEW b, NEW q, Listed(f, g, heads, hs, F, E, n, b, q)
  PROVE  ListInv(g, hs, E)
<1> USE DEF Listed
<1> DEFINE bin(x) == uintToFloatRoundDown(g[x].dataSize)
<1>1. PICK rank \in Ranks : ListOrder(f, F, rank)
  BY DEF ListInv
<1>2. unused \notin E
  BY ConstantFacts
<1>3. \A x \in F : uintToFloatRoundDown(f[x].dataSize) = bin(x)
  OBVIOUS
<1>4. /\ \A x \in F : bin(x) \in Bins
      /\ \A x \in F : IF f[x].binListPrev = unused THEN heads[bin(x)] = x
                      ELSE /\ f[x].binListPrev \in F /\ bin(f[x].binListPrev) = bin(x)
                           /\ f[f[x].binListPrev].binListNext = x
      /\ \A x \in F : f[x].binListNext # unused =>
                        /\ f[x].binListNext \in F /\ bin(f[x].binListNext) = bin(x)
                        /\ f[f[x].binListNext].binListPrev = x
      /\ \A c \in Bins : heads[c] # unused =>
                           heads[c] \in F /\ bin(heads[c]) = c /\ f[heads[c]].binListPrev = unused
  BY <1>3 DEF ListInv, ListLinks
<1>5. bin(n) = b
  OBVIOUS
<1> HIDE DEF bin
<1>6. ASSUME NEW x \in E
      PROVE  IF g[x].binListPrev = unused THEN hs[bin(x)] = x
             ELSE /\ g[x].binListPrev \in E /\ bin(g[x].binListPrev) = bin(x)
                  /\ g[g[x].binListPrev].binListNext = x
  <2>1. CASE x = n
    BY <1>2, <1>5, <2>1
  <2>2. CASE x # n
    BY <1>2, <1>4, <1>5, <2>2
  <2> QED BY <2>1, <2>2
<1>7. ASSUME NEW x \in E, g[x].binListNext # unused
      PROVE  /\ g[x].binListNext \in E /\ bin(g[x].binListNext) = bin(x)
             /\ g[g[x].binListNext].binListPrev = x
  <2>1. CASE x = n
    BY <1>2, <1>4, <1>5, <1>7, <2>1
  <2>2. CASE x # n
    BY <1>2, <1>4, <1>5, <1>7, <2>2
  <2> QED BY <2>1, <2>2
<1>8. ASSUME NEW c \in Bins, hs[c] # unused
      PROVE  hs[c] \in E /\ bin(hs[c]) = c /\ g[hs[c]].binListPrev = unused
  <2>1. CASE c = b
    BY <1>2, <1>5, <2>1
  <2>2. CASE c # b
    BY <1>2, <1>4, <1>8, <2>2
  <2> QED BY <2>1, <2>2
<1>9. ListLinks(g, hs, E)
  <2>1. \A x \in E : bin(x) \in Bins
    BY <1>4, <1>5
  <2> QED BY <1>6, <1>7, <1>8, <2>1 DEF ListLinks, bin
<1> DEFINE order == [x \in NodeIndex |-> IF x = n THEN 0 ELSE rank[x] + 1]
<1>10. order \in Ranks /\ (\A x \in F : rank[x] \in Nat /\ order[x] = rank[x] + 1) /\ order[n] = 0
  BY DEF Ranks
<1> HIDE DEF order
<1>11. ListOrder(g, E, order)
  <2> SUFFICES ASSUME NEW x \in E, g[x].binListPrev # unused
               PROVE  order[g[x].binListPrev] < order[x]
    BY DEF ListOrder
  <2>1. x \in F
    OBVIOUS
  <2>2. CASE x = q
    BY <1>10, <2>1, <2>2
  <2>3. CASE x # q
    BY <1>1, <1>4, <1>10, <2>1, <2>3 DEF ListOrder
  <2> QED BY <2>2, <2>3
<1> QED BY <1>9, <1>10, <1>11 DEF ListInv

\* The lists see the sizes and the bin links of the free regions only.
LEMMA ListSame ==
  ASSUME NEW f, NEW g, NEW heads, NEW F \in SUBSET NodeIndex, ListInv(f, heads, F),
         \A x \in F : /\ g[x].dataSize = f[x].dataSize
                      /\ g[x].binListNext = f[x].binListNext
                      /\ g[x].binListPrev = f[x].binListPrev
  PROVE  ListInv(g, heads, F)
<1>1. PICK rank \in Ranks : ListOrder(f, F, rank)
  BY DEF ListInv
<1>2. ListOrder(g, F, rank)
  BY <1>1 DEF ListOrder
<1>3. ListLinks(g, heads, F)
  <2>1. ListLinks(f, heads, F)
    BY DEF ListInv
  <2>2. \A b \in Bins : heads[b] # unused =>
          /\ heads[b] \in F
          /\ uintToFloatRoundDown(g[heads[b]].dataSize) = b
          /\ g[heads[b]].binListPrev = unused
    BY <2>1 DEF ListLinks
  <2>3. \A n \in F : uintToFloatRoundDown(g[n].dataSize) \in Bins
    BY <2>1 DEF ListLinks
  <2>4. ASSUME NEW n \in F
        PROVE  LET p == g[n].binListPrev
                   q == g[n].binListNext
                   bin == uintToFloatRoundDown(g[n].dataSize)
               IN  /\ IF p = unused THEN heads[bin] = n
                      ELSE /\ p \in F
                           /\ uintToFloatRoundDown(g[p].dataSize) = bin
                           /\ g[p].binListNext = n
                   /\ q # unused =>
                        /\ q \in F
                        /\ uintToFloatRoundDown(g[q].dataSize) = bin
                        /\ g[q].binListPrev = n
    BY <2>1 DEF ListLinks
  <2> QED BY <2>2, <2>3, <2>4 DEF ListLinks
<1> QED BY <1>2, <1>3 DEF ListInv

-----------------------------------------------------------------------------
(***************************************************************************)
(* The stack of spare nodes and the masks of the bins.                     *)
(***************************************************************************)
\* A node that is not spare can be pushed: the stack holds no index twice.
LEMMA StackPush ==
  ASSUME NEW s, ShapeInv(s), StackInv(s), NEW n \in NodeIndex, n \notin Spare(s)
  PROVE  s.freeOffset + 1 \in NodeIndex
<1> DEFINE D == 0 .. s.freeOffset + 1
           f == [i \in D |-> IF i = s.freeOffset + 1 THEN n ELSE s.freeNodes[i]]
<1>1. s.freeOffset \in NodeIndex /\ s.freeNodes \in [NodeIndex -> NodeIndex]
  BY DEF ShapeInv
<1>2. s.freeOffset \in Nat /\ s.freeOffset <= MaxAllocs - 1 /\ \A i \in 0 .. s.freeOffset : i \in NodeIndex
  BY <1>1, ConstantFacts DEF NodeIndex
<1>3. \A i \in 0 .. s.freeOffset : s.freeNodes[i] \in Spare(s)
  BY DEF Spare
<1>4. f \in [D -> NodeIndex]
  BY <1>1, <1>2
<1>5. \A i, j \in D : f[i] = f[j] => i = j
  <2> SUFFICES ASSUME NEW i \in D, NEW j \in D, f[i] = f[j] PROVE i = j
    OBVIOUS
  <2>1. i \in Nat /\ j \in Nat /\ i <= s.freeOffset + 1 /\ j <= s.freeOffset + 1
    BY <1>2
  <2>2. CASE i = s.freeOffset + 1 /\ j # s.freeOffset + 1
    BY <1>2, <1>3, <2>1, <2>2
  <2>3. CASE j = s.freeOffset + 1 /\ i # s.freeOffset + 1
    BY <1>2, <1>3, <2>1, <2>3
  <2>4. CASE i # s.freeOffset + 1 /\ j # s.freeOffset + 1
    <3>1. i \in 0 .. s.freeOffset /\ j \in 0 .. s.freeOffset
      BY <1>2, <2>1, <2>4
    <3> QED BY <2>4, <3>1 DEF StackInv
  <2> QED BY <2>2, <2>3, <2>4
<1>6. IsFiniteSet(D) /\ Cardinality(D) = s.freeOffset + 2
  BY <1>2, FS_Interval, SMTT(60)
<1>7. Cardinality(D) <= Cardinality(NodeIndex)
  <2>1. f \in Injection(D, NodeIndex)
    BY <1>4, <1>5 DEF Injection, IsInjective
  <2> HIDE DEF D, f
  <2> QED BY <2>1, ConstantFacts, FS_Injection
<1> QED BY <1>2, <1>6, <1>7, ConstantFacts DEF NodeIndex

LEMMA SpareIn ==
  ASSUME NEW s, ShapeInv(s)
  PROVE  Spare(s) \subseteq NodeIndex
<1>1. s.freeOffset \in NodeIndex /\ s.freeNodes \in [NodeIndex -> NodeIndex]
  BY DEF ShapeInv
<1>2. \A i \in 0 .. s.freeOffset : i \in NodeIndex
  BY <1>1, ConstantFacts DEF NodeIndex
<1> QED BY <1>1, <1>2 DEF Spare

Pushed(s, t, n) ==
  /\ t.freeOffset = s.freeOffset + 1
  /\ t.freeNodes = [s.freeNodes EXCEPT ![s.freeOffset + 1] = n]

LEMMA SparePushed ==
  ASSUME NEW s, ShapeInv(s), StackInv(s), NEW n \in NodeIndex, n \notin Spare(s),
         NEW t, Pushed(s, t, n)
  PROVE  /\ t.freeOffset \in NodeIndex /\ t.freeOffset # 0
         /\ t.freeNodes \in [NodeIndex -> NodeIndex]
         /\ StackInv(t)
         /\ Spare(t) = Spare(s) \cup {n}
         /\ SpareNode(t) = n
<1> USE DEF Pushed
<1>1. s.freeOffset \in NodeIndex /\ s.freeNodes \in [NodeIndex -> NodeIndex]
  BY DEF ShapeInv
<1>2. s.freeOffset \in Nat /\ s.freeOffset + 1 \in NodeIndex
      /\ \A i \in 0 .. s.freeOffset : i \in NodeIndex
  BY <1>1, StackPush, ConstantFacts DEF NodeIndex
<1>3. /\ t.freeNodes[s.freeOffset + 1] = n
      /\ \A i \in 0 .. s.freeOffset : t.freeNodes[i] = s.freeNodes[i]
      /\ t.freeNodes \in [NodeIndex -> NodeIndex]
  BY <1>1, <1>2
<1>4. \A i \in 0 .. t.freeOffset : i \in 0 .. s.freeOffset \/ i = s.freeOffset + 1
  BY <1>2
<1>5. \A i \in 0 .. s.freeOffset : s.freeNodes[i] # n
  BY DEF Spare
<1>6. StackInv(t)
  BY <1>3, <1>4, <1>5 DEF StackInv
<1>7. Spare(t) = Spare(s) \cup {n}
  <2>1. 0 .. s.freeOffset \subseteq 0 .. t.freeOffset /\ s.freeOffset + 1 \in 0 .. t.freeOffset
    BY <1>2
  <2> QED BY <1>3, <1>4, <2>1 DEF Spare
<1> QED BY <1>2, <1>3, <1>6, <1>7 DEF SpareNode

LEMMA SparePopped ==
  ASSUME NEW s, ShapeInv(s), StackInv(s), s.freeOffset # 0,
         NEW t, t.freeOffset = s.freeOffset - 1, t.freeNodes = s.freeNodes
  PROVE  /\ t.freeOffset \in NodeIndex
         /\ StackInv(t)
         /\ SpareNode(s) \in Spare(s)
         /\ Spare(t) = Spare(s) \ {SpareNode(s)}
<1>1. s.freeOffset \in Nat /\ s.freeOffset <= MaxAllocs - 1
  BY ConstantFacts DEF ShapeInv, NodeIndex
<1>2. t.freeOffset \in NodeIndex /\ 0 .. t.freeOffset \subseteq 0 .. s.freeOffset
      /\ s.freeOffset \in 0 .. s.freeOffset /\ s.freeOffset \notin 0 .. t.freeOffset
      /\ \A i \in 0 .. s.freeOffset : i = s.freeOffset \/ i \in 0 .. t.freeOffset
  BY <1>1, ConstantFacts DEF NodeIndex
<1>3. StackInv(t)
  BY <1>2 DEF StackInv
<1>4. \A i \in 0 .. t.freeOffset : s.freeNodes[i] # s.freeNodes[s.freeOffset]
  BY <1>2 DEF StackInv
<1> QED BY <1>2, <1>3, <1>4 DEF Spare, SpareNode

\* A bin is the pair of its bits in the two masks.
LEMMA BinBits ==
  /\ \A b \in Bins : /\ b \in Nat /\ Top(b) \in 0 .. NUM_TOP_BINS - 1
                     /\ Leaf(b) \in 0 .. BINS_PER_LEAF - 1
                     /\ b = Top(b) * BINS_PER_LEAF + Leaf(b)
  /\ \A t \in 0 .. NUM_TOP_BINS - 1, l \in 0 .. BINS_PER_LEAF - 1 :
       /\ t * BINS_PER_LEAF + l \in Bins
       /\ Top(t * BINS_PER_LEAF + l) = t /\ Leaf(t * BINS_PER_LEAF + l) = l
BY ConstantFacts DEF Bins, Top, Leaf, BINS_PER_LEAF, NUM_LEAF_BINS

\* Bin b, whose first node was q, gets a first node n.
HeadSet(s, t, b, n, q) ==
  /\ b \in Bins /\ n # unused /\ q = s.binIndices[b]
  /\ t.binIndices = [s.binIndices EXCEPT ![b] = n]
  /\ t.usedBins = (IF q = unused THEN [s.usedBins EXCEPT ![Top(b)] = @ \cup {Leaf(b)}]
                   ELSE s.usedBins)
  /\ t.usedBinsTop = (IF q = unused THEN s.usedBinsTop \cup {Top(b)} ELSE s.usedBinsTop)

LEMMA MaskSet ==
  ASSUME NEW s, ShapeInv(s), MaskInv(s), NEW t, NEW b, NEW n, NEW q, HeadSet(s, t, b, n, q)
  PROVE  /\ MaskInv(t)
         /\ t.usedBins \in [0 .. NUM_TOP_BINS - 1 -> SUBSET (0 .. BINS_PER_LEAF - 1)]
         /\ t.usedBinsTop \in SUBSET (0 .. NUM_TOP_BINS - 1)
<1> USE DEF HeadSet
<1> DEFINE Tops == 0 .. NUM_TOP_BINS - 1
           Leaves == 0 .. BINS_PER_LEAF - 1
<1>1. /\ s.binIndices \in [Bins -> Links] /\ s.usedBins \in [Tops -> SUBSET Leaves]
      /\ s.usedBinsTop \in SUBSET Tops
  BY DEF ShapeInv
<1>2. \A c \in Bins : Top(c) \in Tops /\ Leaf(c) \in Leaves
  BY BinBits
<1>3. \A c \in Bins : Top(c) = Top(b) /\ Leaf(c) = Leaf(b) => c = b
  BY BinBits
<1> HIDE DEF Tops, Leaves
<1>4. \A c \in Bins : (Leaf(c) \in s.usedBins[Top(c)]) <=> (s.binIndices[c] # unused)
  BY DEF MaskInv
<1>5. \A k \in Tops : (k \in s.usedBinsTop) <=> (s.usedBins[k] # {})
  BY DEF MaskInv, Tops
<1>6. t.usedBins \in [Tops -> SUBSET Leaves] /\ t.usedBinsTop \in SUBSET Tops
  BY <1>1, <1>2
<1>7. \A c \in Bins : (Leaf(c) \in t.usedBins[Top(c)]) <=> (t.binIndices[c] # unused)
  <2>1. CASE s.binIndices[b] = unused
    BY <1>1, <1>2, <1>3, <1>4, <2>1
  <2>2. CASE s.binIndices[b] # unused
    BY <1>1, <1>2, <1>4, <2>2
  <2> QED BY <2>1, <2>2
<1>8. \A k \in Tops : (k \in t.usedBinsTop) <=> (t.usedBins[k] # {})
  BY <1>1, <1>2, <1>5
<1> QED BY <1>6, <1>7, <1>8 DEF MaskInv, Tops, Leaves

\* The first node of bin b leaves it, and q is first.
HeadCut(s, t, b, q) ==
  LET leaves == s.usedBins[Top(b)] \ {Leaf(b)}
  IN  /\ b \in Bins /\ s.binIndices[b] # unused
      /\ t.binIndices = [s.binIndices EXCEPT ![b] = q]
      /\ t.usedBins = (IF q = unused THEN [s.usedBins EXCEPT ![Top(b)] = leaves]
                       ELSE s.usedBins)
      /\ t.usedBinsTop = (IF q = unused /\ leaves = {}
                            THEN s.usedBinsTop \ {Top(b)} ELSE s.usedBinsTop)

LEMMA MaskClear ==
  ASSUME NEW s, ShapeInv(s), MaskInv(s), NEW t, NEW b, NEW q, HeadCut(s, t, b, q)
  PROVE  /\ MaskInv(t)
         /\ t.usedBins \in [0 .. NUM_TOP_BINS - 1 -> SUBSET (0 .. BINS_PER_LEAF - 1)]
         /\ t.usedBinsTop \in SUBSET (0 .. NUM_TOP_BINS - 1)
<1> USE DEF HeadCut
<1> DEFINE Tops == 0 .. NUM_TOP_BINS - 1
           Leaves == 0 .. BINS_PER_LEAF - 1
<1>1. /\ s.binIndices \in [Bins -> Links] /\ s.usedBins \in [Tops -> SUBSET Leaves]
      /\ s.usedBinsTop \in SUBSET Tops
  BY DEF ShapeInv
<1>2. \A c \in Bins : Top(c) \in Tops /\ Leaf(c) \in Leaves
  BY BinBits
<1>3. \A c \in Bins : Top(c) = Top(b) /\ Leaf(c) = Leaf(b) => c = b
  BY BinBits
<1> HIDE DEF Tops, Leaves
<1>4. \A c \in Bins : (Leaf(c) \in s.usedBins[Top(c)]) <=> (s.binIndices[c] # unused)
  BY DEF MaskInv
<1>5. \A k \in Tops : (k \in s.usedBinsTop) <=> (s.usedBins[k] # {})
  BY DEF MaskInv, Tops
<1>6. t.usedBins \in [Tops -> SUBSET Leaves] /\ t.usedBinsTop \in SUBSET Tops
  BY <1>1, <1>2
<1>7. \A c \in Bins : (Leaf(c) \in t.usedBins[Top(c)]) <=> (t.binIndices[c] # unused)
  <2>1. CASE q = unused
    BY <1>1, <1>2, <1>3, <1>4, <2>1
  <2>2. CASE q # unused
    BY <1>1, <1>2, <1>4, <2>2
  <2> QED BY <2>1, <2>2
<1>8. \A k \in Tops : (k \in t.usedBinsTop) <=> (t.usedBins[k] # {})
  <2>1. CASE q = unused
    BY <1>1, <1>2, <1>5, <2>1
  <2>2. CASE q # unused
    BY <1>1, <1>5, <2>2
  <2> QED BY <2>1, <2>2
<1> QED BY <1>6, <1>7, <1>8 DEF MaskInv, Tops, Leaves

-----------------------------------------------------------------------------
(***************************************************************************)
(* What the operations on the bins do: the free regions F are listed,      *)
(* masked and counted before and after, and no other field is touched.     *)
(***************************************************************************)
\* The fields of a node that its bin's list does not use.
SameRegion(a, b) ==
  /\ a.dataOffset = b.dataOffset /\ a.dataSize = b.dataSize /\ a.used = b.used
  /\ a.neighborPrev = b.neighborPrev /\ a.neighborNext = b.neighborNext

BinInv(s, F) ==
  /\ ShapeInv(s)
  /\ StackInv(s)
  /\ F \subseteq NodeIndex /\ F \cap Spare(s) = {}
  /\ ListInv(s.nodes, s.binIndices, F)
  /\ MaskInv(s)
  /\ SizeSum(s.nodes, F) = s.freeStorage

LEMMA FreeFinite ==
  ASSUME NEW s, ShapeInv(s), NEW F \in SUBSET NodeIndex
  PROVE  IsFiniteSet(F) /\ Sizes(s.nodes, F)
<1>1. IsFiniteSet(F)
  BY ConstantFacts, FS_Subset
<1>2. s.nodes \in [NodeIndex -> Node]
  BY DEF ShapeInv
<1>3. \A n \in F : s.nodes[n] \in Node
  BY <1>2
<1>4. \A n \in F : s.nodes[n].dataSize \in Nat
  BY <1>3 DEF Node
<1> QED BY <1>1, <1>4 DEF Sizes

LEMMA NodeFields ==
  ASSUME NEW s, ShapeInv(s), NEW n \in NodeIndex
  PROVE  /\ s.nodes[n] \in Node
         /\ s.nodes[n].dataOffset \in Nat /\ s.nodes[n].dataSize \in Nat
         /\ s.nodes[n].binListPrev \in Links /\ s.nodes[n].binListNext \in Links
         /\ s.nodes[n].neighborPrev \in Links /\ s.nodes[n].neighborNext \in Links
         /\ s.nodes[n].used \in BOOLEAN
<1>1. s.nodes \in [NodeIndex -> Node]
  BY DEF ShapeInv
<1>2. s.nodes[n] \in Node
  BY <1>1
<1> QED BY <1>2 DEF Node, Links

\* The nodes g are f but that p is the binListPrev of q, or the binListNext of p is q.
PrevIsSet(f, g, q, p) ==
  \A x \in NodeIndex :
    /\ SameRegion(g[x], f[x])
    /\ g[x].binListNext = f[x].binListNext
    /\ g[x].binListPrev = IF x = q THEN p ELSE f[x].binListPrev

NextIsSet(f, g, p, q) ==
  \A x \in NodeIndex :
    /\ SameRegion(g[x], f[x])
    /\ g[x].binListPrev = f[x].binListPrev
    /\ g[x].binListNext = IF x = p THEN q ELSE f[x].binListNext

LEMMA SetPrevFacts ==
  ASSUME NEW f \in [NodeIndex -> Node], NEW q \in Links, NEW p \in Links
  PROVE  SetPrev(f, q, p) \in [NodeIndex -> Node] /\ PrevIsSet(f, SetPrev(f, q, p), q, p)
<1> USE DEF PrevIsSet
<1>1. CASE q = unused
  BY <1>1, ConstantFacts DEF SetPrev, SameRegion
<1>2. CASE q # unused
  <2>1. q \in NodeIndex
    BY <1>2 DEF Links
  <2> DEFINE r == [f[q] EXCEPT !.binListPrev = p]
             g == [f EXCEPT ![q] = r]
  <2>2. SetPrev(f, q, p) = g
    BY <1>2, <2>1 DEF SetPrev
  <2>3. f[q] \in Node
    BY <2>1
  <2>4. r \in Node /\ SameRegion(r, f[q]) /\ r.binListPrev = p /\ r.binListNext = f[q].binListNext
    BY <2>3 DEF Node, Links, SameRegion
  <2> HIDE DEF r
  <2>5. g \in [NodeIndex -> Node] /\ g[q] = r /\ \A x \in NodeIndex \ {q} : g[x] = f[x]
    BY <2>1, <2>4
  <2> HIDE DEF g
  <2> QED BY <2>2, <2>4, <2>5 DEF SameRegion
<1> QED BY <1>1, <1>2

LEMMA SetNextFacts ==
  ASSUME NEW f \in [NodeIndex -> Node], NEW p \in NodeIndex, NEW q \in Links,
         NEW g, g = [f EXCEPT ![p].binListNext = q]
  PROVE  g \in [NodeIndex -> Node] /\ NextIsSet(f, g, p, q)
<1> USE DEF NextIsSet
<1> DEFINE r == [f[p] EXCEPT !.binListNext = q]
<1>1. f[p] \in Node
  OBVIOUS
<1>2. r \in Node /\ SameRegion(r, f[p]) /\ r.binListNext = q /\ r.binListPrev = f[p].binListPrev
  BY <1>1 DEF Node, Links, SameRegion
<1>3. g = [f EXCEPT ![p] = r]
  OBVIOUS
<1> HIDE DEF r
<1>4. g \in [NodeIndex -> Node] /\ g[p] = r /\ \A x \in NodeIndex \ {p} : g[x] = f[x]
  BY <1>2, <1>3
<1> QED BY <1>2, <1>4 DEF SameRegion

\* A node taken from the freelist becomes the first of the bin of its size.
Inserted(s, F, size, offset, n, t, E) ==
  /\ BinInv(s, F) /\ s.freeOffset # 0
  /\ size \in Nat /\ uintToFloatRoundDown(size) \in Bins /\ offset \in Nat
  /\ n = SpareNode(s) /\ t = insertNodeIntoBin(s, size, offset) /\ E = F \cup {n}

LEMMA InsertStep ==
  ASSUME NEW s, NEW F, NEW size, NEW offset, NEW n, NEW t, NEW E,
         Inserted(s, F, size, offset, n, t, E)
  PROVE  /\ BinInv(t, E)
         /\ n \in Spare(s) /\ n \in NodeIndex /\ n \notin F /\ Spare(t) = Spare(s) \ {n}
         /\ t.nodes[n].dataOffset = offset /\ t.nodes[n].dataSize = size
         /\ t.nodes[n].neighborPrev = unused /\ t.nodes[n].neighborNext = unused
         /\ ~t.nodes[n].used
         /\ \A x \in NodeIndex \ {n} : SameRegion(t.nodes[x], s.nodes[x])
<1> DEFINE b == uintToFloatRoundDown(size)
           q == s.binIndices[b]
           r == NewNode(offset, size, q)
           f == [s.nodes EXCEPT ![n] = r]
           g == SetPrev(f, q, n)
<1>0. /\ BinInv(s, F) /\ s.freeOffset # 0
      /\ size \in Nat /\ uintToFloatRoundDown(size) \in Bins /\ offset \in Nat
      /\ n = SpareNode(s) /\ t = insertNodeIntoBin(s, size, offset) /\ E = F \cup {n}
  BY DEF Inserted
<1> USE <1>0
<1>1. ShapeInv(s) /\ StackInv(s) /\ MaskInv(s) /\ ListInv(s.nodes, s.binIndices, F)
      /\ F \in SUBSET NodeIndex /\ F \cap Spare(s) = {} /\ SizeSum(s.nodes, F) = s.freeStorage
  BY DEF BinInv
<1>2. /\ s.nodes \in [NodeIndex -> Node] /\ s.freeNodes \in [NodeIndex -> NodeIndex]
      /\ s.freeOffset \in NodeIndex /\ s.binIndices \in [Bins -> Links] /\ s.freeStorage \in Int
      /\ b \in Bins
  BY <1>1 DEF ShapeInv
<1>3. /\ t.nodes = g
      /\ HeadSet(s, t, b, n, q)
      /\ t.freeOffset = s.freeOffset - 1
      /\ t.freeNodes = s.freeNodes
      /\ t.freeStorage = s.freeStorage + size
      /\ t = [nodes |-> t.nodes, freeNodes |-> t.freeNodes, freeOffset |-> t.freeOffset,
              binIndices |-> t.binIndices, usedBins |-> t.usedBins,
              usedBinsTop |-> t.usedBinsTop, freeStorage |-> t.freeStorage]
  <2> DEFINE u == IF q = unused THEN MarkBin(s, b) ELSE s
             e == SpareNode(s)
             h == SetPrev([u.nodes EXCEPT ![e] = NewNode(offset, size, q)], q, e)
             heads == [u.binIndices EXCEPT ![b] = e]
  <2>1. t = [u EXCEPT !.freeOffset = @ - 1, !.nodes = h, !.binIndices = heads,
                      !.freeStorage = @ + size]
    BY DEF insertNodeIntoBin
  <2>2. /\ u.nodes = s.nodes /\ u.freeNodes = s.freeNodes /\ u.freeOffset = s.freeOffset
        /\ u.binIndices = s.binIndices /\ u.freeStorage = s.freeStorage
        /\ u.usedBins = (IF q = unused THEN [s.usedBins EXCEPT ![Top(b)] = @ \cup {Leaf(b)}]
                         ELSE s.usedBins)
        /\ u.usedBinsTop = (IF q = unused THEN s.usedBinsTop \cup {Top(b)} ELSE s.usedBinsTop)
        /\ u = [nodes |-> u.nodes, freeNodes |-> u.freeNodes, freeOffset |-> u.freeOffset,
                binIndices |-> u.binIndices, usedBins |-> u.usedBins,
                usedBinsTop |-> u.usedBinsTop, freeStorage |-> u.freeStorage]
    <3> HIDE DEF b
    <3>1. CASE q = unused
      BY <1>1, <3>1 DEF MarkBin, ShapeInv
    <3>2. CASE q # unused
      BY <1>1, <3>2 DEF ShapeInv
    <3> QED BY <3>1, <3>2
  <2>3. n # unused
    BY <1>1, <1>2, SpareIn, ConstantFacts DEF SpareNode
  <2>4. h = g /\ heads = [s.binIndices EXCEPT ![b] = n]
    <3> HIDE DEF b, u
    <3> QED BY <2>2
  <2> HIDE DEF b, u, e, h, heads, f, g
  <2>5. /\ t.nodes = h /\ t.freeNodes = u.freeNodes /\ t.freeOffset = u.freeOffset - 1
        /\ t.binIndices = heads /\ t.usedBins = u.usedBins /\ t.usedBinsTop = u.usedBinsTop
        /\ t.freeStorage = u.freeStorage + size
        /\ t = [nodes |-> t.nodes, freeNodes |-> t.freeNodes, freeOffset |-> t.freeOffset,
                binIndices |-> t.binIndices, usedBins |-> t.usedBins,
                usedBinsTop |-> t.usedBinsTop, freeStorage |-> t.freeStorage]
    BY <2>1, <2>2
  <2> QED BY <1>2, <2>2, <2>3, <2>4, <2>5 DEF HeadSet
<1>b. b = uintToFloatRoundDown(size) /\ t.binIndices = [s.binIndices EXCEPT ![b] = n]
  BY <1>3 DEF HeadSet
<1> HIDE DEF b, f, g
<1>4. /\ t.freeOffset \in NodeIndex /\ StackInv(t)
      /\ n \in Spare(s) /\ n \in NodeIndex /\ n \notin F /\ Spare(t) = Spare(s) \ {n}
  BY <1>1, <1>3, SparePopped, SpareIn
<1>5. q \in Links /\ n \in Links /\ n # unused /\ q # n
  <2>1. q # unused => q \in F
    BY <1>1, <1>2 DEF ListInv, ListLinks
  <2> QED BY <1>2, <1>4, <2>1, ConstantFacts DEF Links
<1>6. f \in [NodeIndex -> Node] /\ f[n] = r /\ \A x \in NodeIndex \ {n} : f[x] = s.nodes[x]
  <2>1. r \in Node
    BY <1>5 DEF NewNode, Node, Links
  <2> HIDE DEF r
  <2> QED BY <1>2, <1>4, <2>1 DEF f
<1>7. /\ g \in [NodeIndex -> Node]
      /\ \A x \in NodeIndex : /\ SameRegion(g[x], f[x])
                              /\ g[x].binListNext = f[x].binListNext
                              /\ g[x].binListPrev = IF x = q THEN n ELSE f[x].binListPrev
  BY <1>5, <1>6, SetPrevFacts DEF g, PrevIsSet
<1>8. MaskInv(t) /\ ShapeInv(t)
  <2>1. /\ MaskInv(t)
        /\ t.usedBins \in [0 .. NUM_TOP_BINS - 1 -> SUBSET (0 .. BINS_PER_LEAF - 1)]
        /\ t.usedBinsTop \in SUBSET (0 .. NUM_TOP_BINS - 1)
    BY <1>1, <1>3, MaskSet
  <2>2. t.binIndices \in [Bins -> Links] /\ t.freeStorage \in Int
    BY <1>2, <1>3, <1>5, <1>b
  <2> QED BY <1>2, <1>3, <1>4, <1>7, <2>1, <2>2 DEF ShapeInv
<1>9. /\ t.nodes[n].dataOffset = offset /\ t.nodes[n].dataSize = size
      /\ t.nodes[n].neighborPrev = unused /\ t.nodes[n].neighborNext = unused
      /\ ~t.nodes[n].used /\ t.nodes[n].binListPrev = unused /\ t.nodes[n].binListNext = q
  BY <1>3, <1>4, <1>5, <1>6, <1>7 DEF NewNode, SameRegion
<1>10. \A x \in NodeIndex \ {n} :
         /\ SameRegion(t.nodes[x], s.nodes[x])
         /\ t.nodes[x].binListNext = s.nodes[x].binListNext
         /\ t.nodes[x].binListPrev = IF x = q THEN n ELSE s.nodes[x].binListPrev
  BY <1>3, <1>6, <1>7
<1>11. ListInv(t.nodes, t.binIndices, E)
  <2>1. b = uintToFloatRoundDown(t.nodes[n].dataSize)
    BY <1>9, <1>b
  <2>2. \A c \in Bins : t.binIndices[c] = IF c = b THEN n ELSE s.binIndices[c]
    BY <1>2, <1>b
  <2>3. \A x \in F : /\ t.nodes[x].dataSize = s.nodes[x].dataSize
                     /\ t.nodes[x].binListNext = s.nodes[x].binListNext
                     /\ t.nodes[x].binListPrev = IF x = q THEN n ELSE s.nodes[x].binListPrev
    BY <1>1, <1>4, <1>10 DEF SameRegion
  <2>4. Listed(s.nodes, t.nodes, s.binIndices, t.binIndices, F, E, n, b, q)
    BY <1>2, <1>4, <1>9, <2>1, <2>2, <2>3 DEF Listed
  <2> QED BY <1>1, <2>4, ListInsert
<1>12. SizeSum(t.nodes, E) = t.freeStorage
  <2>1. E \in SUBSET NodeIndex /\ F = E \ {n} /\ n \in E
    BY <1>1, <1>4
  <2>2. IsFiniteSet(E) /\ Sizes(t.nodes, E) /\ IsFiniteSet(F)
    BY <1>1, <1>8, <2>1, FreeFinite
  <2>3. SizeSum(t.nodes, E) = t.nodes[n].dataSize + SizeSum(t.nodes, F)
    BY <2>1, <2>2, SumAdd
  <2>4. \A x \in F : t.nodes[x].dataSize = s.nodes[x].dataSize
    BY <1>1, <1>4, <1>10 DEF SameRegion
  <2>5. SizeSum(t.nodes, F) = SizeSum(s.nodes, F)
    BY <2>2, <2>4, SumSame
  <2> QED BY <1>1, <1>2, <1>3, <1>9, <2>3, <2>5
<1>13. E \subseteq NodeIndex /\ E \cap Spare(t) = {}
  BY <1>1, <1>4
<1> QED BY <1>4, <1>8, <1>9, <1>10, <1>11, <1>12, <1>13 DEF BinInv

\* A node that leaves the list of its bin, first in it or not.
unlinkNode(s, n) ==
  LET node == s.nodes[n]
  IN  IF node.binListPrev # unused
        THEN [s EXCEPT !.nodes =
               SetPrev([@ EXCEPT ![node.binListPrev].binListNext = node.binListNext],
                       node.binListNext, node.binListPrev)]
        ELSE PopBin(s, uintToFloatRoundDown(node.dataSize))

LEMMA PopFields ==
  ASSUME NEW s, ShapeInv(s), MaskInv(s), NEW b \in Bins, NEW n \in NodeIndex, n = s.binIndices[b],
         NEW t, t = PopBin(s, b), NEW q, q = s.nodes[n].binListNext
  PROVE  /\ ShapeInv(t) /\ MaskInv(t)
         /\ t.nodes = SetPrev(s.nodes, q, unused)
         /\ t.binIndices = [s.binIndices EXCEPT ![b] = q]
         /\ t.freeNodes = s.freeNodes /\ t.freeOffset = s.freeOffset
         /\ t.freeStorage = s.freeStorage
<1> DEFINE u == IF q = unused THEN ClearBin(s, b) ELSE s
           g == SetPrev(s.nodes, q, unused)
           heads == [s.binIndices EXCEPT ![b] = q]
           leaves == s.usedBins[Top(b)] \ {Leaf(b)}
           tops == IF leaves = {} THEN s.usedBinsTop \ {Top(b)} ELSE s.usedBinsTop
           rest == [s.usedBins EXCEPT ![Top(b)] = leaves]
<1>1. /\ s.nodes \in [NodeIndex -> Node] /\ s.freeNodes \in [NodeIndex -> NodeIndex]
      /\ s.freeOffset \in NodeIndex /\ s.binIndices \in [Bins -> Links] /\ s.freeStorage \in Int
  BY DEF ShapeInv
<1>2. q \in Links /\ n # unused
  BY NodeFields, ConstantFacts
<1>3. /\ u.nodes = s.nodes /\ u.freeNodes = s.freeNodes /\ u.freeOffset = s.freeOffset
      /\ u.binIndices = s.binIndices /\ u.freeStorage = s.freeStorage
      /\ u.usedBins = (IF q = unused THEN rest ELSE s.usedBins)
      /\ u.usedBinsTop = (IF q = unused THEN tops ELSE s.usedBinsTop)
      /\ u = [nodes |-> u.nodes, freeNodes |-> u.freeNodes, freeOffset |-> u.freeOffset,
              binIndices |-> u.binIndices, usedBins |-> u.usedBins,
              usedBinsTop |-> u.usedBinsTop, freeStorage |-> u.freeStorage]
  <2>1. CASE q = unused
    <3>1. ClearBin(s, b) = [s EXCEPT !.usedBins[Top(b)] = leaves, !.usedBinsTop = tops]
      BY DEF ClearBin
    <3> HIDE DEF leaves, tops
    <3> QED BY <2>1, <3>1 DEF ShapeInv
  <2>2. CASE q # unused
    <3> HIDE DEF leaves, tops, rest
    <3> QED BY <2>2 DEF ShapeInv
  <2> QED BY <2>1, <2>2
<1>4. t = [u EXCEPT !.binIndices = [@ EXCEPT ![b] = q], !.nodes = SetPrev(@, q, unused)]
  BY DEF PopBin
<1> HIDE DEF u
<1>5. /\ t.nodes = g /\ t.freeNodes = u.freeNodes /\ t.freeOffset = u.freeOffset
      /\ t.binIndices = heads /\ t.usedBins = u.usedBins /\ t.usedBinsTop = u.usedBinsTop
      /\ t.freeStorage = u.freeStorage
      /\ t = [nodes |-> t.nodes, freeNodes |-> t.freeNodes, freeOffset |-> t.freeOffset,
              binIndices |-> t.binIndices, usedBins |-> t.usedBins,
              usedBinsTop |-> t.usedBinsTop, freeStorage |-> t.freeStorage]
  <2>1. SetPrev(u.nodes, q, unused) = g /\ [u.binIndices EXCEPT ![b] = q] = heads
    BY <1>3
  <2>2. t = [u EXCEPT !.binIndices = heads, !.nodes = g]
    BY <1>4, <2>1
  <2> HIDE DEF g, heads, leaves, tops, rest
  <2> QED BY <1>3, <2>2
<1>6. HeadCut(s, t, b, q)
  <2>1. s.binIndices[b] # unused
    BY <1>2
  <2>2. t.usedBinsTop = (IF q = unused /\ leaves = {} THEN s.usedBinsTop \ {Top(b)}
                         ELSE s.usedBinsTop)
    BY <1>3, <1>5
  <2>3. t.usedBins = (IF q = unused THEN rest ELSE s.usedBins)
    BY <1>3, <1>5
  <2> QED BY <1>5, <2>1, <2>2, <2>3 DEF HeadCut
<1>7. /\ MaskInv(t)
      /\ t.usedBins \in [0 .. NUM_TOP_BINS - 1 -> SUBSET (0 .. BINS_PER_LEAF - 1)]
      /\ t.usedBinsTop \in SUBSET (0 .. NUM_TOP_BINS - 1)
  BY <1>6, MaskClear
<1>8. g \in [NodeIndex -> Node] /\ heads \in [Bins -> Links]
  <2>1. unused \in Links
    BY DEF Links
  <2> QED BY <1>1, <1>2, <2>1, SetPrevFacts
<1>9. ShapeInv(t)
  <2> HIDE DEF g, heads
  <2> QED BY <1>1, <1>3, <1>5, <1>7, <1>8 DEF ShapeInv
<1> QED BY <1>3, <1>5, <1>7, <1>9

\* A free region is unlinked.
LEMMA UnlinkStep ==
  ASSUME NEW s, NEW F, BinInv(s, F), NEW n \in F, NEW E, E = F \ {n},
         NEW t, t = unlinkNode(s, n)
  PROVE  /\ ShapeInv(t) /\ MaskInv(t) /\ ListInv(t.nodes, t.binIndices, E)
         /\ t.freeNodes = s.freeNodes /\ t.freeOffset = s.freeOffset
         /\ t.freeStorage = s.freeStorage
         /\ \A x \in NodeIndex : SameRegion(t.nodes[x], s.nodes[x])
         /\ SizeSum(t.nodes, E) = s.freeStorage - s.nodes[n].dataSize
<1> DEFINE p == s.nodes[n].binListPrev
           q == s.nodes[n].binListNext
           b == uintToFloatRoundDown(s.nodes[n].dataSize)
<1>1. ShapeInv(s) /\ MaskInv(s) /\ ListInv(s.nodes, s.binIndices, F)
      /\ F \in SUBSET NodeIndex /\ SizeSum(s.nodes, F) = s.freeStorage /\ n \in NodeIndex
  BY DEF BinInv
<1>2. /\ s.nodes \in [NodeIndex -> Node] /\ s.freeNodes \in [NodeIndex -> NodeIndex]
      /\ s.freeOffset \in NodeIndex /\ s.binIndices \in [Bins -> Links] /\ s.freeStorage \in Int
  BY <1>1 DEF ShapeInv
<1>3. p \in Links /\ q \in Links /\ b \in Bins /\ unused \in Links
  <2>1. p \in Links /\ q \in Links
    BY <1>1, NodeFields
  <2>2. b \in Bins
    BY <1>1 DEF ListInv, ListLinks
  <2> QED BY <2>1, <2>2 DEF Links
<1>4. p = unused => s.binIndices[b] = n
  BY <1>1 DEF ListInv, ListLinks
<1>5. /\ ShapeInv(t) /\ MaskInv(t)
      /\ t.freeNodes = s.freeNodes /\ t.freeOffset = s.freeOffset /\ t.freeStorage = s.freeStorage
      /\ \A c \in Bins : t.binIndices[c] = IF p = unused /\ c = b THEN q ELSE s.binIndices[c]
      /\ \A x \in NodeIndex :
           /\ SameRegion(t.nodes[x], s.nodes[x])
           /\ t.nodes[x].binListNext = IF x = p THEN q ELSE s.nodes[x].binListNext
           /\ t.nodes[x].binListPrev = IF x = q THEN p ELSE s.nodes[x].binListPrev
  <2>1. CASE p = unused
    <3>1. t = PopBin(s, b)
      BY <2>1 DEF unlinkNode
    <3> HIDE DEF b, p, q
    <3>2. q = s.nodes[n].binListNext
      BY DEF q
    <3>3. /\ ShapeInv(t) /\ MaskInv(t)
          /\ t.nodes = SetPrev(s.nodes, q, unused)
          /\ t.binIndices = [s.binIndices EXCEPT ![b] = q]
          /\ t.freeNodes = s.freeNodes /\ t.freeOffset = s.freeOffset
          /\ t.freeStorage = s.freeStorage
      BY <1>1, <1>3, <1>4, <2>1, <3>1, <3>2, PopFields
    <3>4. \A x \in NodeIndex :
              /\ SameRegion(t.nodes[x], s.nodes[x])
              /\ t.nodes[x].binListNext = s.nodes[x].binListNext
              /\ t.nodes[x].binListPrev = IF x = q THEN unused ELSE s.nodes[x].binListPrev
      <4>1. PrevIsSet(s.nodes, t.nodes, q, unused)
        BY <1>2, <1>3, <3>3, SetPrevFacts
      <4> QED BY <4>1 DEF PrevIsSet
    <3>5. \A x \in NodeIndex : x # p
      BY <2>1, ConstantFacts
    <3>6. \A c \in Bins : t.binIndices[c] = IF c = b THEN q ELSE s.binIndices[c]
      BY <1>2, <3>3
    <3> QED BY <2>1, <3>3, <3>4, <3>5, <3>6
  <2>2. CASE p # unused
    <3> DEFINE f == [s.nodes EXCEPT ![p].binListNext = q]
               g == SetPrev(f, q, p)
    <3>1. t = [s EXCEPT !.nodes = g]
      BY <2>2 DEF unlinkNode
    <3>2. p \in NodeIndex
      BY <1>3, <2>2 DEF Links
    <3> HIDE DEF b, p, q
    <3>3. /\ f \in [NodeIndex -> Node]
          /\ \A x \in NodeIndex :
               /\ SameRegion(f[x], s.nodes[x])
               /\ f[x].binListPrev = s.nodes[x].binListPrev
               /\ f[x].binListNext = IF x = p THEN q ELSE s.nodes[x].binListNext
      <4>1. f = [s.nodes EXCEPT ![p].binListNext = q]
        OBVIOUS
      <4> HIDE DEF f
      <4>2. f \in [NodeIndex -> Node] /\ NextIsSet(s.nodes, f, p, q)
        BY <1>2, <1>3, <3>2, <4>1, SetNextFacts
      <4> QED BY <4>2 DEF NextIsSet
    <3> HIDE DEF f
    <3>4. /\ g \in [NodeIndex -> Node]
          /\ \A x \in NodeIndex :
              /\ SameRegion(g[x], f[x])
              /\ g[x].binListNext = f[x].binListNext
              /\ g[x].binListPrev = IF x = q THEN p ELSE f[x].binListPrev
      BY <1>3, <3>3, SetPrevFacts DEF PrevIsSet
    <3> HIDE DEF g
    <3>5. /\ ShapeInv(t) /\ t.nodes = g /\ t.freeNodes = s.freeNodes /\ t.freeOffset = s.freeOffset
          /\ t.freeStorage = s.freeStorage /\ t.binIndices = s.binIndices
          /\ t.usedBins = s.usedBins /\ t.usedBinsTop = s.usedBinsTop
      BY <1>1, <3>1, <3>4 DEF ShapeInv
    <3>6. MaskInv(t)
      BY <1>1, <3>5 DEF MaskInv
    <3> QED BY <2>2, <3>3, <3>4, <3>5, <3>6 DEF SameRegion
  <2> QED BY <2>1, <2>2
<1>6. Unlisted(s.nodes, t.nodes, s.binIndices, t.binIndices, F, E, n, p, q)
  <2>1. \A x \in E : x \in NodeIndex
    BY <1>1
  <2> QED BY <1>5, <2>1 DEF Unlisted, SameRegion
<1> HIDE DEF p, q, b
<1>7. ListInv(t.nodes, t.binIndices, E)
  BY <1>1, <1>6, ListRemove
<1>8. SizeSum(t.nodes, E) = s.freeStorage - s.nodes[n].dataSize
  <2>1. IsFiniteSet(F) /\ Sizes(s.nodes, F) /\ IsFiniteSet(E)
    BY <1>1, FreeFinite
  <2>2. /\ SizeSum(s.nodes, F) = s.nodes[n].dataSize + SizeSum(s.nodes, E)
        /\ SizeSum(s.nodes, E) \in Nat /\ s.nodes[n].dataSize \in Nat
    BY <2>1, SumAdd
  <2>3. \A x \in E : t.nodes[x].dataSize = s.nodes[x].dataSize
    BY <1>1, <1>5 DEF SameRegion
  <2>4. SizeSum(t.nodes, E) = SizeSum(s.nodes, E)
    BY <2>1, <2>3, SumSame
  <2> QED BY <1>1, <2>2, <2>4
<1> QED BY <1>5, <1>7, <1>8

\* A free region is dissolved: its node is spare.
LEMMA RemoveStep ==
  ASSUME NEW s, NEW F, BinInv(s, F), NEW n \in F, NEW E, E = F \ {n},
         NEW t, t = removeNodeFromBin(s, n)
  PROVE  /\ BinInv(t, E)
         /\ Spare(t) = Spare(s) \cup {n}
         /\ \A x \in NodeIndex : SameRegion(t.nodes[x], s.nodes[x])
<1> DEFINE u == unlinkNode(s, n)
           stack == [u.freeNodes EXCEPT ![u.freeOffset + 1] = n]
<1>1. ShapeInv(s) /\ StackInv(s) /\ F \in SUBSET NodeIndex /\ n \in NodeIndex /\ n \notin Spare(s)
      /\ F \cap Spare(s) = {}
  BY DEF BinInv
<1>2. t = [PushSpare(u, n) EXCEPT !.freeStorage = @ - s.nodes[n].dataSize]
  BY DEF removeNodeFromBin, unlinkNode
<1> HIDE DEF u
<1>3. /\ ShapeInv(u) /\ MaskInv(u) /\ ListInv(u.nodes, u.binIndices, E)
      /\ u.freeNodes = s.freeNodes /\ u.freeOffset = s.freeOffset
      /\ u.freeStorage = s.freeStorage
      /\ \A x \in NodeIndex : SameRegion(u.nodes[x], s.nodes[x])
      /\ SizeSum(u.nodes, E) = s.freeStorage - s.nodes[n].dataSize
  BY UnlinkStep DEF u
<1>4. /\ t.nodes = u.nodes /\ t.binIndices = u.binIndices /\ t.usedBins = u.usedBins
      /\ t.usedBinsTop = u.usedBinsTop /\ t.freeStorage = u.freeStorage - s.nodes[n].dataSize
      /\ t.freeOffset = u.freeOffset + 1 /\ t.freeNodes = stack
      /\ t = [nodes |-> t.nodes, freeNodes |-> t.freeNodes, freeOffset |-> t.freeOffset,
              binIndices |-> t.binIndices, usedBins |-> t.usedBins,
              usedBinsTop |-> t.usedBinsTop, freeStorage |-> t.freeStorage]
  <2>1. PushSpare(u, n) = [u EXCEPT !.freeOffset = @ + 1, !.freeNodes = stack]
    BY DEF PushSpare
  <2> HIDE DEF stack
  <2> QED BY <1>2, <1>3, <2>1, ZenonT(60) DEF ShapeInv
<1>5. /\ t.freeOffset \in NodeIndex /\ t.freeNodes \in [NodeIndex -> NodeIndex]
      /\ StackInv(t) /\ Spare(t) = Spare(s) \cup {n}
  <2>1. Pushed(s, t, n)
    BY <1>3, <1>4 DEF Pushed
  <2> QED BY <1>1, <2>1, SparePushed
<1> HIDE DEF stack
<1>6. ShapeInv(t)
  <2>1. t.freeStorage \in Int
    BY <1>1, <1>3, <1>4, NodeFields DEF ShapeInv
  <2> QED BY <1>3, <1>4, <1>5, <2>1 DEF ShapeInv
<1>7. MaskInv(t)
  BY <1>3, <1>4 DEF MaskInv
<1>8. E \subseteq NodeIndex /\ E \cap Spare(t) = {}
  BY <1>1, <1>5
<1> QED BY <1>3, <1>4, <1>5, <1>6, <1>7, <1>8 DEF BinInv

\* The fields of a node that do not link it to its neighbours.
SameData(a, b) ==
  /\ a.dataOffset = b.dataOffset /\ a.dataSize = b.dataSize /\ a.used = b.used
  /\ a.binListPrev = b.binListPrev /\ a.binListNext = b.binListNext

NeighborPrevIsSet(f, g, a, v) ==
  /\ g \in [NodeIndex -> Node]
  /\ \A x \in NodeIndex :
       /\ SameData(g[x], f[x]) /\ g[x].neighborNext = f[x].neighborNext
       /\ g[x].neighborPrev = IF x = a THEN v ELSE f[x].neighborPrev

NeighborNextIsSet(f, g, a, v) ==
  /\ g \in [NodeIndex -> Node]
  /\ \A x \in NodeIndex :
       /\ SameData(g[x], f[x]) /\ g[x].neighborPrev = f[x].neighborPrev
       /\ g[x].neighborNext = IF x = a THEN v ELSE f[x].neighborNext

LEMMA SetNeighborPrev ==
  ASSUME NEW f \in [NodeIndex -> Node], NEW a \in NodeIndex, NEW v \in Links,
         NEW g, g = [f EXCEPT ![a].neighborPrev = v]
  PROVE  NeighborPrevIsSet(f, g, a, v)
<1> DEFINE r == [f[a] EXCEPT !.neighborPrev = v]
<1>1. f[a] \in Node
  OBVIOUS
<1>2. r \in Node /\ SameData(r, f[a]) /\ r.neighborPrev = v /\ r.neighborNext = f[a].neighborNext
  BY <1>1 DEF Node, Links, SameData
<1>3. g = [f EXCEPT ![a] = r]
  OBVIOUS
<1> HIDE DEF r
<1>4. g \in [NodeIndex -> Node] /\ g[a] = r /\ \A x \in NodeIndex \ {a} : g[x] = f[x]
  BY <1>2, <1>3
<1> QED BY <1>2, <1>4 DEF SameData, NeighborPrevIsSet

LEMMA SetNeighborNext ==
  ASSUME NEW f \in [NodeIndex -> Node], NEW a \in NodeIndex, NEW v \in Links,
         NEW g, g = [f EXCEPT ![a].neighborNext = v]
  PROVE  NeighborNextIsSet(f, g, a, v)
<1> DEFINE r == [f[a] EXCEPT !.neighborNext = v]
<1>1. f[a] \in Node
  OBVIOUS
<1>2. r \in Node /\ SameData(r, f[a]) /\ r.neighborNext = v /\ r.neighborPrev = f[a].neighborPrev
  BY <1>1 DEF Node, Links, SameData
<1>3. g = [f EXCEPT ![a] = r]
  OBVIOUS
<1> HIDE DEF r
<1>4. g \in [NodeIndex -> Node] /\ g[a] = r /\ \A x \in NodeIndex \ {a} : g[x] = f[x]
  BY <1>2, <1>3
<1> QED BY <1>2, <1>4 DEF SameData, NeighborNextIsSet

\* What the lists, the masks and the sums see is not changed.
SameLists(f, g, F) ==
  \A x \in F : /\ g[x].dataSize = f[x].dataSize
               /\ g[x].binListNext = f[x].binListNext
               /\ g[x].binListPrev = f[x].binListPrev

LEMMA NodesStep ==
  ASSUME NEW s, NEW F, BinInv(s, F), NEW g \in [NodeIndex -> Node], SameLists(s.nodes, g, F),
         NEW t, t = [s EXCEPT !.nodes = g]
  PROVE  /\ BinInv(t, F)
         /\ t.nodes = g /\ Spare(t) = Spare(s) /\ t.freeOffset = s.freeOffset
<1>1. ShapeInv(s) /\ StackInv(s) /\ F \in SUBSET NodeIndex /\ F \cap Spare(s) = {}
      /\ ListInv(s.nodes, s.binIndices, F) /\ MaskInv(s) /\ SizeSum(s.nodes, F) = s.freeStorage
  BY DEF BinInv
<1>2. /\ ShapeInv(t) /\ t.nodes = g /\ t.freeNodes = s.freeNodes /\ t.freeOffset = s.freeOffset
      /\ t.freeStorage = s.freeStorage /\ t.binIndices = s.binIndices
      /\ t.usedBins = s.usedBins /\ t.usedBinsTop = s.usedBinsTop
  BY <1>1 DEF ShapeInv
<1>3. StackInv(t) /\ Spare(t) = Spare(s) /\ MaskInv(t)
  BY <1>1, <1>2 DEF StackInv, Spare, MaskInv
<1>4. ListInv(g, s.binIndices, F)
  BY <1>1, ListSame DEF SameLists
<1>5. SizeSum(g, F) = SizeSum(s.nodes, F)
  <2>1. IsFiniteSet(F)
    BY <1>1, FreeFinite
  <2>2. \A x \in F : g[x].dataSize = s.nodes[x].dataSize
    BY DEF SameLists
  <2> QED BY <2>1, <2>2, SumSame
<1> QED BY <1>1, <1>2, <1>3, <1>4, <1>5 DEF BinInv

\* The first region of a bin is cut to a size and given away.
Taken(s, F, b, n, size, t, E) ==
  /\ BinInv(s, F) /\ b \in Bins /\ n = s.binIndices[b] /\ n # unused
  /\ size \in Nat /\ t = TakeNode(s, n, b, size) /\ E = F \ {n}

LEMMA TakeStep ==
  ASSUME NEW s, NEW F, NEW b, NEW n, NEW size, NEW t, NEW E, Taken(s, F, b, n, size, t, E)
  PROVE  /\ n \in F /\ uintToFloatRoundDown(s.nodes[n].dataSize) = b
         /\ BinInv(t, E) /\ Spare(t) = Spare(s) /\ t.freeOffset = s.freeOffset
         /\ t.nodes[n].dataOffset = s.nodes[n].dataOffset /\ t.nodes[n].dataSize = size
         /\ t.nodes[n].used
         /\ t.nodes[n].neighborPrev = s.nodes[n].neighborPrev
         /\ t.nodes[n].neighborNext = s.nodes[n].neighborNext
         /\ \A x \in NodeIndex \ {n} : SameRegion(t.nodes[x], s.nodes[x])
<1> DEFINE u == PopBin(s, b)
           total == s.nodes[n].dataSize
           r == [u.nodes[n] EXCEPT !.dataSize = size, !.used = TRUE]
           g == [u.nodes EXCEPT ![n] = r]
<1>0. BinInv(s, F) /\ b \in Bins /\ n = s.binIndices[b] /\ n # unused
      /\ size \in Nat /\ t = TakeNode(s, n, b, size) /\ E = F \ {n}
  BY DEF Taken
<1> USE <1>0
<1>1. ShapeInv(s) /\ StackInv(s) /\ F \in SUBSET NodeIndex /\ F \cap Spare(s) = {}
      /\ ListInv(s.nodes, s.binIndices, F)
  BY DEF BinInv
<1>2. n \in F /\ n \in NodeIndex /\ uintToFloatRoundDown(s.nodes[n].dataSize) = b
      /\ s.nodes[n].binListPrev = unused
  BY <1>1 DEF ListInv, ListLinks
<1>3. u = unlinkNode(s, n)
  BY <1>2 DEF unlinkNode
<1>4. t = [u EXCEPT !.nodes = g, !.freeStorage = @ - total]
  BY DEF TakeNode
<1> HIDE DEF u
<1>5. /\ ShapeInv(u) /\ MaskInv(u) /\ ListInv(u.nodes, u.binIndices, E)
      /\ u.freeNodes = s.freeNodes /\ u.freeOffset = s.freeOffset
      /\ u.freeStorage = s.freeStorage
      /\ \A x \in NodeIndex : SameRegion(u.nodes[x], s.nodes[x])
      /\ SizeSum(u.nodes, E) = s.freeStorage - total
  BY <1>2, <1>3, UnlinkStep
<1>6. r \in Node /\ r.dataSize = size /\ r.used /\ r.dataOffset = u.nodes[n].dataOffset
      /\ r.neighborPrev = u.nodes[n].neighborPrev /\ r.neighborNext = u.nodes[n].neighborNext
  <2>1. u.nodes[n] \in Node
    BY <1>2, <1>5, NodeFields
  <2> QED BY <2>1 DEF Node
<1>7. total \in Nat /\ s.freeStorage \in Int
  BY <1>1, <1>2, NodeFields DEF ShapeInv
<1>8. /\ t.nodes = g /\ t.binIndices = u.binIndices /\ t.usedBins = u.usedBins
      /\ t.usedBinsTop = u.usedBinsTop /\ t.freeStorage = u.freeStorage - total
      /\ t.freeOffset = u.freeOffset /\ t.freeNodes = u.freeNodes
      /\ t = [nodes |-> t.nodes, freeNodes |-> t.freeNodes, freeOffset |-> t.freeOffset,
              binIndices |-> t.binIndices, usedBins |-> t.usedBins,
              usedBinsTop |-> t.usedBinsTop, freeStorage |-> t.freeStorage]
  <2> HIDE DEF g, total
  <2> QED BY <1>4, <1>5 DEF ShapeInv
<1> HIDE DEF r
<1>9. g \in [NodeIndex -> Node] /\ g[n] = r /\ \A x \in NodeIndex \ {n} : g[x] = u.nodes[x]
  <2>1. u.nodes \in [NodeIndex -> Node]
    BY <1>5 DEF ShapeInv
  <2> QED BY <1>2, <1>6, <2>1
<1> HIDE DEF g, total
<1>10. ShapeInv(t) /\ StackInv(t) /\ MaskInv(t) /\ Spare(t) = Spare(s)
  BY <1>1, <1>5, <1>7, <1>8, <1>9 DEF ShapeInv, StackInv, MaskInv, Spare
<1>11. \A x \in E : x \in NodeIndex \ {n}
  BY <1>1
<1>12. ListInv(t.nodes, t.binIndices, E)
  BY <1>5, <1>8, <1>9, <1>11, ListSame
<1>13. SizeSum(t.nodes, E) = t.freeStorage
  <2>1. IsFiniteSet(E)
    BY <1>11, <1>1, FreeFinite
  <2>2. \A x \in E : t.nodes[x].dataSize = u.nodes[x].dataSize
    BY <1>8, <1>9, <1>11
  <2>3. SizeSum(t.nodes, E) = SizeSum(u.nodes, E)
    BY <2>1, <2>2, SumSame
  <2> QED BY <1>5, <1>8, <2>3
<1>14. BinInv(t, E)
  BY <1>1, <1>10, <1>11, <1>12, <1>13 DEF BinInv
<1>15. /\ t.nodes[n].dataOffset = s.nodes[n].dataOffset /\ t.nodes[n].dataSize = size
       /\ t.nodes[n].used
       /\ t.nodes[n].neighborPrev = s.nodes[n].neighborPrev
       /\ t.nodes[n].neighborNext = s.nodes[n].neighborNext
       /\ \A x \in NodeIndex \ {n} : SameRegion(t.nodes[x], s.nodes[x])
  <2>1. t.nodes[n] = r
    BY <1>8, <1>9
  <2>2. SameRegion(u.nodes[n], s.nodes[n])
    BY <1>2, <1>5
  <2>3. /\ r.dataOffset = s.nodes[n].dataOffset
        /\ r.neighborPrev = s.nodes[n].neighborPrev
        /\ r.neighborNext = s.nodes[n].neighborNext
    BY <1>6, <2>2 DEF SameRegion
  <2>4. \A x \in NodeIndex \ {n} : SameRegion(t.nodes[x], s.nodes[x])
    BY <1>5, <1>8, <1>9
  <2> QED BY <1>6, <2>1, <2>3, <2>4
<1> QED BY <1>2, <1>5, <1>8, <1>10, <1>14, <1>15

\* The fields of a node that say which part of the storage it is.
SameSpan(a, b) == a.dataOffset = b.dataOffset /\ a.dataSize = b.dataSize /\ a.used = b.used

\* What is cut off a region becomes a free region behind it.
LEMMA SplitStep ==
  ASSUME NEW s, NEW F, BinInv(s, F), NEW n \in NodeIndex, n \notin Spare(s), s.freeOffset # 0,
         NEW remainder \in Nat, uintToFloatRoundDown(remainder) \in Bins,
         NEW new, new = SpareNode(s), NEW q, q = s.nodes[n].neighborNext,
         NEW t, t = SplitRemainder(s, n, remainder), NEW E, E = F \cup {new}
  PROVE  /\ BinInv(t, E)
         /\ new \in Spare(s) /\ new \in NodeIndex /\ new \notin F /\ Spare(t) = Spare(s) \ {new}
         /\ t.nodes[new].dataOffset = s.nodes[n].dataOffset + s.nodes[n].dataSize
         /\ t.nodes[new].dataSize = remainder /\ ~t.nodes[new].used
         /\ t.nodes[new].neighborPrev = n /\ t.nodes[new].neighborNext = q
         /\ \A x \in NodeIndex \ {new} :
              /\ SameSpan(t.nodes[x], s.nodes[x])
              /\ t.nodes[x].neighborPrev = IF x = q THEN new ELSE s.nodes[x].neighborPrev
              /\ t.nodes[x].neighborNext = IF x = n THEN new ELSE s.nodes[x].neighborNext
<1> DEFINE offset == s.nodes[n].dataOffset + s.nodes[n].dataSize
           i == insertNodeIntoBin(s, remainder, offset)
           f == i.nodes
           old == IF q = unused THEN f ELSE [f EXCEPT ![q].neighborPrev = new]
           g1 == [old EXCEPT ![new].neighborPrev = n]
           g2 == [g1 EXCEPT ![new].neighborNext = q]
           g == [g2 EXCEPT ![n].neighborNext = new]
<1>1. t = [i EXCEPT !.nodes = g]
  BY DEF SplitRemainder
<1>2. offset \in Nat /\ q \in Links /\ n \in Links
  <2>1. ShapeInv(s)
    BY DEF BinInv
  <2> QED BY <2>1, NodeFields DEF Links
<1> HIDE DEF i, offset
<1>3. /\ BinInv(i, E)
      /\ new \in Spare(s) /\ new \in NodeIndex /\ new \notin F /\ Spare(i) = Spare(s) \ {new}
      /\ f[new].dataOffset = offset /\ f[new].dataSize = remainder
      /\ f[new].neighborPrev = unused /\ f[new].neighborNext = unused
      /\ ~f[new].used
      /\ \A x \in NodeIndex \ {new} : SameRegion(f[x], s.nodes[x])
  <2>1. Inserted(s, F, remainder, offset, new, i, E)
    BY <1>2 DEF i, Inserted
  <2> QED BY <2>1, InsertStep
<1>4. f \in [NodeIndex -> Node] /\ E \in SUBSET NodeIndex
  BY <1>3 DEF BinInv, ShapeInv
<1> HIDE DEF f
<1>5. new \in Links
  BY <1>3 DEF Links
<1>6. /\ old \in [NodeIndex -> Node]
      /\ \A x \in NodeIndex :
           /\ SameData(old[x], f[x]) /\ old[x].neighborNext = f[x].neighborNext
           /\ old[x].neighborPrev = IF x = q THEN new ELSE f[x].neighborPrev
  <2>1. CASE q = unused
    BY <1>4, <2>1, ConstantFacts DEF SameData
  <2>2. CASE q # unused
    <3>1. q \in NodeIndex
      BY <1>2, <2>2 DEF Links
    <3>2. old = [f EXCEPT ![q].neighborPrev = new]
      BY <2>2
    <3> HIDE DEF old
    <3> QED BY <1>4, <1>5, <3>1, <3>2, SetNeighborPrev DEF NeighborPrevIsSet
  <2> QED BY <2>1, <2>2
<1> HIDE DEF old
<1>7. NeighborPrevIsSet(old, g1, new, n)
  BY <1>2, <1>3, <1>6, SetNeighborPrev
<1> HIDE DEF g1
<1>8. NeighborNextIsSet(g1, g2, new, q)
  <2>1. g1 \in [NodeIndex -> Node]
    BY <1>7 DEF NeighborPrevIsSet
  <2> QED BY <1>2, <1>3, <2>1, SetNeighborNext
<1> HIDE DEF g2
<1>9. NeighborNextIsSet(g2, g, n, new)
  <2>1. g2 \in [NodeIndex -> Node]
    BY <1>8 DEF NeighborNextIsSet
  <2> QED BY <1>5, <2>1, SetNeighborNext
<1> HIDE DEF g
<1>10. g \in [NodeIndex -> Node] /\ \A x \in NodeIndex : SameData(g[x], f[x])
  BY <1>6, <1>7, <1>8, <1>9 DEF NeighborPrevIsSet, NeighborNextIsSet, SameData
<1>11. SameLists(f, g, E)
  BY <1>4, <1>10 DEF SameLists, SameData
<1>12. BinInv(t, E) /\ t.nodes = g /\ Spare(t) = Spare(i)
  BY <1>1, <1>3, <1>10, <1>11, NodesStep DEF f
<1>13. n # new
  BY <1>3
<1>14. /\ g[new].dataOffset = offset /\ g[new].dataSize = remainder /\ ~g[new].used
       /\ g[new].neighborPrev = n /\ g[new].neighborNext = q
  BY <1>3, <1>7, <1>8, <1>9, <1>10, <1>13 DEF NeighborPrevIsSet, NeighborNextIsSet, SameData
<1>15. ASSUME NEW x \in NodeIndex \ {new}
       PROVE  /\ SameSpan(g[x], s.nodes[x])
              /\ g[x].neighborPrev = IF x = q THEN new ELSE s.nodes[x].neighborPrev
              /\ g[x].neighborNext = IF x = n THEN new ELSE s.nodes[x].neighborNext
  <2>1. SameSpan(g[x], s.nodes[x])
    BY <1>3, <1>10 DEF SameSpan, SameData, SameRegion
  <2>2. g[x].neighborPrev = old[x].neighborPrev
    BY <1>7, <1>8, <1>9 DEF NeighborPrevIsSet, NeighborNextIsSet
  <2>3. g[x].neighborNext = IF x = n THEN new ELSE old[x].neighborNext
    BY <1>7, <1>8, <1>9 DEF NeighborPrevIsSet, NeighborNextIsSet
  <2> QED BY <1>3, <1>6, <2>1, <2>2, <2>3 DEF SameRegion
<1> QED BY <1>3, <1>12, <1>14, <1>15 DEF offset

\* A free neighbour is dissolved, and the region is linked to the neighbour beyond it.
Without(s, F, p) == IF IsFree(s, p) THEN F \ {p} ELSE F

MergedPrev(s, t, n, p) ==
  /\ Spare(t) = IF IsFree(s, p) THEN Spare(s) \cup {p} ELSE Spare(s)
  /\ \A x \in NodeIndex :
       /\ SameSpan(t.nodes[x], s.nodes[x])
       /\ t.nodes[x].neighborNext = s.nodes[x].neighborNext
       /\ t.nodes[x].neighborPrev = IF x = n /\ IsFree(s, p) THEN s.nodes[p].neighborPrev
                                    ELSE s.nodes[x].neighborPrev

MergedNext(s, t, n, q) ==
  /\ Spare(t) = IF IsFree(s, q) THEN Spare(s) \cup {q} ELSE Spare(s)
  /\ \A x \in NodeIndex :
       /\ SameSpan(t.nodes[x], s.nodes[x])
       /\ t.nodes[x].neighborPrev = s.nodes[x].neighborPrev
       /\ t.nodes[x].neighborNext = IF x = n /\ IsFree(s, q) THEN s.nodes[q].neighborNext
                                    ELSE s.nodes[x].neighborNext

LEMMA MergePrevStep ==
  ASSUME NEW s, NEW F, BinInv(s, F), NEW n \in NodeIndex, NEW p, p = s.nodes[n].neighborPrev,
         IsFree(s, p) => p \in F
  PROVE  BinInv(MergePrev(s, n), Without(s, F, p)) /\ MergedPrev(s, MergePrev(s, n), n, p)
<1> USE DEF MergedPrev
<1>t. PICK t : t = MergePrev(s, n)
  OBVIOUS
<1>e. PICK E : E = Without(s, F, p)
  OBVIOUS
<1> SUFFICES BinInv(t, E) /\ MergedPrev(s, t, n, p)
  BY <1>t, <1>e
<1>1. CASE ~IsFree(s, p)
  <2>1. t = s /\ E = F
    BY <1>1, <1>t, <1>e DEF MergePrev, Without
  <2> QED BY <1>1, <2>1 DEF SameSpan
<1>2. CASE IsFree(s, p)
  <2> DEFINE u == removeNodeFromBin(s, p)
             v == s.nodes[p].neighborPrev
             f == u.nodes
             g == [f EXCEPT ![n].neighborPrev = v]
  <2>1. t = [u EXCEPT !.nodes = g]
    BY <1>2, <1>t DEF MergePrev
  <2>2. p \in F /\ E = F \ {p}
    BY <1>2, <1>e DEF Without
  <2> HIDE DEF u
  <2>3. /\ BinInv(u, E) /\ Spare(u) = Spare(s) \cup {p}
        /\ \A x \in NodeIndex : SameRegion(f[x], s.nodes[x])
    BY <2>2, RemoveStep DEF u
  <2>4. f \in [NodeIndex -> Node] /\ E \in SUBSET NodeIndex /\ v \in Links
    <3>1. p \in NodeIndex /\ ShapeInv(s)
      BY <2>2 DEF BinInv
    <3> QED BY <2>3, <3>1, NodeFields DEF BinInv, ShapeInv
  <2> HIDE DEF f, v
  <2>5. NeighborPrevIsSet(f, g, n, v)
    BY <2>4, SetNeighborPrev
  <2> HIDE DEF g
  <2>6. g \in [NodeIndex -> Node] /\ SameLists(f, g, E)
    BY <2>4, <2>5 DEF NeighborPrevIsSet, SameLists, SameData
  <2>7. BinInv(t, E) /\ t.nodes = g /\ Spare(t) = Spare(u)
    BY <2>1, <2>3, <2>6, NodesStep DEF f
  <2> QED BY <1>2, <2>3, <2>5, <2>7 DEF NeighborPrevIsSet, SameData, SameSpan, SameRegion, v
<1> QED BY <1>1, <1>2

LEMMA MergeNextStep ==
  ASSUME NEW s, NEW F, BinInv(s, F), NEW n \in NodeIndex, NEW q, q = s.nodes[n].neighborNext,
         IsFree(s, q) => q \in F
  PROVE  BinInv(MergeNext(s, n), Without(s, F, q)) /\ MergedNext(s, MergeNext(s, n), n, q)
<1> USE DEF MergedNext
<1>t. PICK t : t = MergeNext(s, n)
  OBVIOUS
<1>e. PICK E : E = Without(s, F, q)
  OBVIOUS
<1> SUFFICES BinInv(t, E) /\ MergedNext(s, t, n, q)
  BY <1>t, <1>e
<1>1. CASE ~IsFree(s, q)
  <2>1. t = s /\ E = F
    BY <1>1, <1>t, <1>e DEF MergeNext, Without
  <2> QED BY <1>1, <2>1 DEF SameSpan
<1>2. CASE IsFree(s, q)
  <2> DEFINE u == removeNodeFromBin(s, q)
             v == s.nodes[q].neighborNext
             f == u.nodes
             g == [f EXCEPT ![n].neighborNext = v]
  <2>1. t = [u EXCEPT !.nodes = g]
    BY <1>2, <1>t DEF MergeNext
  <2>2. q \in F /\ E = F \ {q}
    BY <1>2, <1>e DEF Without
  <2> HIDE DEF u
  <2>3. /\ BinInv(u, E) /\ Spare(u) = Spare(s) \cup {q}
        /\ \A x \in NodeIndex : SameRegion(f[x], s.nodes[x])
    BY <2>2, RemoveStep DEF u
  <2>4. f \in [NodeIndex -> Node] /\ E \in SUBSET NodeIndex /\ v \in Links
    <3>1. q \in NodeIndex /\ ShapeInv(s)
      BY <2>2 DEF BinInv
    <3> QED BY <2>3, <3>1, NodeFields DEF BinInv, ShapeInv
  <2> HIDE DEF f, v
  <2>5. NeighborNextIsSet(f, g, n, v)
    BY <2>4, SetNeighborNext
  <2> HIDE DEF g
  <2>6. g \in [NodeIndex -> Node] /\ SameLists(f, g, E)
    BY <2>4, <2>5 DEF NeighborNextIsSet, SameLists, SameData
  <2>7. BinInv(t, E) /\ t.nodes = g /\ Spare(t) = Spare(u)
    BY <2>1, <2>3, <2>6, NodesStep DEF f
  <2> QED BY <1>2, <2>3, <2>5, <2>7 DEF NeighborNextIsSet, SameData, SameSpan, SameRegion, v
<1> QED BY <1>1, <1>2

\* A node that is not spare and not free goes to the stack.
LEMMA PushStep ==
  ASSUME NEW s, NEW F, BinInv(s, F), NEW n \in NodeIndex, n \notin Spare(s), n \notin F,
         NEW t, t = PushSpare(s, n)
  PROVE  /\ BinInv(t, F) /\ t.nodes = s.nodes /\ t.freeOffset # 0
         /\ Spare(t) = Spare(s) \cup {n} /\ SpareNode(t) = n
<1> DEFINE stack == [s.freeNodes EXCEPT ![s.freeOffset + 1] = n]
<1>1. ShapeInv(s) /\ StackInv(s) /\ F \in SUBSET NodeIndex /\ F \cap Spare(s) = {}
      /\ ListInv(s.nodes, s.binIndices, F) /\ MaskInv(s) /\ SizeSum(s.nodes, F) = s.freeStorage
  BY DEF BinInv
<1>2. t = [s EXCEPT !.freeOffset = @ + 1, !.freeNodes = stack]
  BY DEF PushSpare
<1> HIDE DEF stack
<1>3. /\ t.nodes = s.nodes /\ t.binIndices = s.binIndices /\ t.usedBins = s.usedBins
      /\ t.usedBinsTop = s.usedBinsTop /\ t.freeStorage = s.freeStorage
      /\ t.freeOffset = s.freeOffset + 1 /\ t.freeNodes = stack
      /\ t = [nodes |-> t.nodes, freeNodes |-> t.freeNodes, freeOffset |-> t.freeOffset,
              binIndices |-> t.binIndices, usedBins |-> t.usedBins,
              usedBinsTop |-> t.usedBinsTop, freeStorage |-> t.freeStorage]
  BY <1>1, <1>2 DEF ShapeInv
<1>4. Pushed(s, t, n)
  BY <1>3 DEF Pushed, stack
<1>5. /\ t.freeOffset \in NodeIndex /\ t.freeOffset # 0
      /\ t.freeNodes \in [NodeIndex -> NodeIndex]
      /\ StackInv(t) /\ Spare(t) = Spare(s) \cup {n} /\ SpareNode(t) = n
  BY <1>1, <1>4, SparePushed
<1>6. ShapeInv(t) /\ MaskInv(t)
  BY <1>1, <1>3, <1>5 DEF ShapeInv, MaskInv
<1>7. F \cap Spare(t) = {}
  BY <1>1, <1>5
<1> QED BY <1>1, <1>3, <1>5, <1>6, <1>7 DEF BinInv

\* The node of a freed region goes to the stack and comes back for the combined region.
Combined(f, g, n, size, offset, p, q) ==
  /\ g[n].dataOffset = offset /\ g[n].dataSize = size /\ ~g[n].used
  /\ g[n].neighborPrev = p /\ g[n].neighborNext = q
  /\ \A x \in NodeIndex \ {n} :
       /\ SameSpan(g[x], f[x])
       /\ g[x].neighborPrev = IF x = q THEN n ELSE f[x].neighborPrev
       /\ g[x].neighborNext = IF x = p THEN n ELSE f[x].neighborNext

Combining(s, F, n, size, offset, p, q, t, E) ==
  /\ BinInv(s, F) /\ n \in NodeIndex /\ n \notin Spare(s) /\ n \notin F
  /\ size \in Nat /\ uintToFloatRoundDown(size) \in Bins /\ offset \in Nat
  /\ p = s.nodes[n].neighborPrev /\ p # n /\ q = s.nodes[n].neighborNext /\ q # n
  /\ t = InsertCombined(s, n, size, offset) /\ E = F \cup {n}

LEMMA CombineStep ==
  ASSUME NEW s, NEW F, NEW n, NEW size, NEW offset, NEW p, NEW q, NEW t, NEW E,
         Combining(s, F, n, size, offset, p, q, t, E)
  PROVE  /\ BinInv(t, E) /\ Spare(t) = Spare(s)
         /\ Combined(s.nodes, t.nodes, n, size, offset, p, q)
<1> DEFINE u == PushSpare(s, n)
           c == SpareNode(u)
           i == insertNodeIntoBin(u, size, offset)
           f == i.nodes
           g1 == [f EXCEPT ![c].neighborNext = q]
           g2 == [g1 EXCEPT ![q].neighborPrev = c]
           h == IF q = unused THEN f ELSE g2
           g3 == [h EXCEPT ![c].neighborPrev = p]
           g4 == [g3 EXCEPT ![p].neighborNext = c]
           g == IF p = unused THEN h ELSE g4
<1>0. /\ BinInv(s, F) /\ n \in NodeIndex /\ n \notin Spare(s) /\ n \notin F
      /\ size \in Nat /\ uintToFloatRoundDown(size) \in Bins /\ offset \in Nat
      /\ p = s.nodes[n].neighborPrev /\ p # n /\ q = s.nodes[n].neighborNext /\ q # n
      /\ t = InsertCombined(s, n, size, offset) /\ E = F \cup {n}
  BY DEF Combining
<1> USE <1>0
<1>1. t = [i EXCEPT !.nodes = g]
  BY ZenonT(60) DEF InsertCombined
<1>2. p \in Links /\ q \in Links /\ n \in Links
  <2>1. ShapeInv(s)
    BY DEF BinInv
  <2> QED BY <2>1, NodeFields DEF Links
<1> HIDE DEF u
<1>3. /\ BinInv(u, F) /\ u.nodes = s.nodes /\ u.freeOffset # 0
      /\ Spare(u) = Spare(s) \cup {n} /\ c = n
  BY PushStep DEF u
<1> HIDE DEF c, i
<1>4. /\ BinInv(i, E) /\ Spare(i) = Spare(u) \ {n}
      /\ f[n].dataOffset = offset /\ f[n].dataSize = size
      /\ f[n].neighborPrev = unused /\ f[n].neighborNext = unused
      /\ ~f[n].used
      /\ \A x \in NodeIndex \ {n} : SameRegion(f[x], s.nodes[x])
  <2>1. n = SpareNode(u)
    BY <1>3 DEF c
  <2>2. Inserted(u, F, size, offset, n, i, E)
    BY <1>3, <2>1 DEF i, Inserted
  <2> QED BY <1>3, <2>2, InsertStep
<1>5. Spare(i) = Spare(s)
  BY <1>3, <1>4
<1>6. f \in [NodeIndex -> Node] /\ E \in SUBSET NodeIndex
  BY <1>4 DEF BinInv, ShapeInv
<1> HIDE DEF f
<1>7. /\ h \in [NodeIndex -> Node]
      /\ \A x \in NodeIndex :
           /\ SameData(h[x], f[x])
           /\ h[x].neighborNext = IF x = n THEN q ELSE f[x].neighborNext
           /\ h[x].neighborPrev = IF x = q THEN n ELSE f[x].neighborPrev
  <2>1. CASE q = unused
    BY <1>4, <1>6, <2>1, ConstantFacts DEF SameData
  <2>2. CASE q # unused
    <3>1. q \in NodeIndex
      BY <1>2, <2>2 DEF Links
    <3>2. NeighborNextIsSet(f, g1, n, q)
      BY <1>2, <1>3, <1>6, SetNeighborNext
    <3> HIDE DEF g1
    <3>3. g1 \in [NodeIndex -> Node]
      BY <3>2 DEF NeighborNextIsSet
    <3>4. NeighborPrevIsSet(g1, g2, q, n)
      BY <1>2, <1>3, <3>1, <3>3, SetNeighborPrev
    <3> HIDE DEF g2
    <3> QED BY <2>2, <3>2, <3>4 DEF NeighborNextIsSet, NeighborPrevIsSet, SameData
  <2> QED BY <2>1, <2>2
<1> HIDE DEF h
<1>8. /\ g \in [NodeIndex -> Node]
      /\ \A x \in NodeIndex :
           /\ SameData(g[x], h[x])
           /\ g[x].neighborPrev = IF p # unused /\ x = n THEN p ELSE h[x].neighborPrev
           /\ g[x].neighborNext = IF x = p THEN n ELSE h[x].neighborNext
  <2>1. CASE p = unused
    BY <1>7, <2>1, ConstantFacts DEF SameData
  <2>2. CASE p # unused
    <3>1. p \in NodeIndex
      BY <1>2, <2>2 DEF Links
    <3>2. NeighborPrevIsSet(h, g3, n, p)
      BY <1>2, <1>3, <1>7, SetNeighborPrev
    <3> HIDE DEF g3
    <3>3. g3 \in [NodeIndex -> Node]
      BY <3>2 DEF NeighborPrevIsSet
    <3>4. NeighborNextIsSet(g3, g4, p, n)
      BY <1>2, <1>3, <3>1, <3>3, SetNeighborNext
    <3> HIDE DEF g4
    <3> QED BY <2>2, <3>2, <3>4 DEF NeighborNextIsSet, NeighborPrevIsSet, SameData
  <2> QED BY <2>1, <2>2
<1> HIDE DEF g
<1>9. \A x \in NodeIndex : SameData(g[x], f[x])
  BY <1>7, <1>8 DEF SameData
<1>10. SameLists(f, g, E)
  BY <1>6, <1>9 DEF SameLists, SameData
<1>11. BinInv(t, E) /\ t.nodes = g /\ Spare(t) = Spare(s)
  BY <1>1, <1>4, <1>5, <1>8, <1>10, NodesStep DEF f
<1>12. /\ g[n].dataOffset = offset /\ g[n].dataSize = size /\ ~g[n].used
       /\ g[n].neighborPrev = p /\ g[n].neighborNext = q
  <2>1. g[n].dataOffset = offset /\ g[n].dataSize = size /\ ~g[n].used
    BY <1>4, <1>9 DEF SameData
  <2> QED BY <1>4, <1>7, <1>8, <2>1
<1>13. ASSUME NEW x \in NodeIndex \ {n}
       PROVE  /\ SameSpan(g[x], s.nodes[x])
              /\ g[x].neighborPrev = IF x = q THEN n ELSE s.nodes[x].neighborPrev
              /\ g[x].neighborNext = IF x = p THEN n ELSE s.nodes[x].neighborNext
  <2>1. SameSpan(g[x], s.nodes[x])
    BY <1>4, <1>9 DEF SameSpan, SameData, SameRegion
  <2> QED BY <1>4, <1>7, <1>8, <2>1 DEF SameRegion
<1> QED BY <1>11, <1>12, <1>13 DEF Combined

\* A region is freed: the free ones of its neighbours, D, become part of it.
Freed(s, F, n, p, q, size, offset, pp, qq, D, E, t) ==
  /\ BinInv(s, F) /\ n \in NodeIndex /\ n \notin Spare(s) /\ n \notin F
  /\ size \in Nat /\ uintToFloatRoundDown(size) \in Bins /\ offset \in Nat
  /\ p = s.nodes[n].neighborPrev /\ q = s.nodes[n].neighborNext
  /\ p # n /\ q # n /\ (p # q \/ p = unused)
  /\ (IsFree(s, p) => p \in F) /\ (IsFree(s, q) => q \in F)
  /\ pp = (IF IsFree(s, p) THEN s.nodes[p].neighborPrev ELSE p) /\ pp # n
  /\ qq = (IF IsFree(s, q) THEN s.nodes[q].neighborNext ELSE q) /\ qq # n
  /\ D = {x \in {p, q} : IsFree(s, x)} /\ E = (F \ D) \cup {n}
  /\ t = InsertCombined(MergeNext(MergePrev(s, n), n), n, size, offset)

LEMMA FreeStep ==
  ASSUME NEW s, NEW F, NEW n, NEW p, NEW q, NEW size, NEW offset, NEW pp, NEW qq,
         NEW D, NEW E, NEW t, Freed(s, F, n, p, q, size, offset, pp, qq, D, E, t)
  PROVE  /\ BinInv(t, E) /\ Spare(t) = Spare(s) \cup D
         /\ Combined(s.nodes, t.nodes, n, size, offset, pp, qq)
<1>0. /\ BinInv(s, F) /\ n \in NodeIndex /\ n \notin Spare(s) /\ n \notin F
      /\ size \in Nat /\ uintToFloatRoundDown(size) \in Bins /\ offset \in Nat
      /\ p = s.nodes[n].neighborPrev /\ q = s.nodes[n].neighborNext
      /\ p # n /\ q # n /\ (p # q \/ p = unused)
      /\ (IsFree(s, p) => p \in F) /\ (IsFree(s, q) => q \in F)
      /\ pp # n /\ qq # n
  BY DEF Freed
<1>pp. pp = IF IsFree(s, p) THEN s.nodes[p].neighborPrev ELSE p
  BY DEF Freed
<1>qq. qq = IF IsFree(s, q) THEN s.nodes[q].neighborNext ELSE q
  BY DEF Freed
<1>d. D = {x \in {p, q} : IsFree(s, x)} /\ E = (F \ D) \cup {n}
  BY DEF Freed
<1> USE <1>0
<1>1. PICK u : u = MergePrev(s, n)
  OBVIOUS
<1>2. PICK v : v = MergeNext(u, n)
  OBVIOUS
<1>3. t = InsertCombined(v, n, size, offset)
  BY <1>1, <1>2 DEF Freed
<1>4. F \subseteq NodeIndex /\ ShapeInv(s)
  BY DEF BinInv
<1>5. PICK F1 : F1 = Without(s, F, p)
  OBVIOUS
<1>6. PICK F2 : F2 = Without(u, F1, q)
  OBVIOUS
<1>7. BinInv(u, F1) /\ MergedPrev(s, u, n, p)
  BY <1>1, <1>5, MergePrevStep
<1>8. p \in Links /\ q \in Links
  BY <1>4, NodeFields
<1>9. \A x \in NodeIndex :
        /\ SameSpan(u.nodes[x], s.nodes[x])
        /\ u.nodes[x].neighborNext = s.nodes[x].neighborNext
        /\ u.nodes[x].neighborPrev = IF x = n /\ IsFree(s, p) THEN s.nodes[p].neighborPrev
                                     ELSE s.nodes[x].neighborPrev
  BY <1>7 DEF MergedPrev
<1>10. IsFree(u, q) <=> IsFree(s, q)
  BY <1>8, <1>9 DEF IsFree, SameSpan, Links
<1>11. IsFree(u, q) => q \in F1
  <2>1. q # unused /\ IsFree(s, q) => q # p
    OBVIOUS
  <2>2. IsFree(s, q) => q # unused
    BY DEF IsFree
  <2> QED BY <1>5, <1>10, <2>1, <2>2 DEF Without
<1>12. BinInv(v, F2) /\ MergedNext(u, v, n, q)
  <2>1. q = u.nodes[n].neighborNext
    BY <1>9
  <2> QED BY <1>2, <1>6, <1>7, <1>11, <2>1, MergeNextStep
<1>13. \A x \in NodeIndex :
         /\ SameSpan(v.nodes[x], u.nodes[x])
         /\ v.nodes[x].neighborPrev = u.nodes[x].neighborPrev
         /\ v.nodes[x].neighborNext = IF x = n /\ IsFree(u, q) THEN u.nodes[q].neighborNext
                                      ELSE u.nodes[x].neighborNext
  BY <1>12 DEF MergedNext
<1>14. Spare(v) = Spare(s) \cup D /\ F2 = F \ D
  BY <1>d, <1>5, <1>6, <1>7, <1>10, <1>12 DEF MergedPrev, MergedNext, Without
<1>15. pp = v.nodes[n].neighborPrev
  BY <1>pp, <1>9, <1>13
<1>16. qq = v.nodes[n].neighborNext
  <2>1. IsFree(s, q) => q \in NodeIndex
    BY <1>8 DEF IsFree, Links
  <2> QED BY <1>qq, <1>9, <1>10, <1>13, <2>1
<1>17. n \notin Spare(v) /\ n \notin F2
  BY <1>d, <1>14
<1>18. E = F2 \cup {n}
  BY <1>d, <1>14
<1>19. /\ BinInv(t, E) /\ Spare(t) = Spare(v)
       /\ Combined(v.nodes, t.nodes, n, size, offset, pp, qq)
  <2>1. Combining(v, F2, n, size, offset, pp, qq, t, E)
    BY <1>3, <1>12, <1>15, <1>16, <1>17, <1>18 DEF Combining
  <2> QED BY <2>1, CombineStep
<1>20. Combined(s.nodes, t.nodes, n, size, offset, pp, qq)
  <2>1. \A x \in NodeIndex \ {n} :
          /\ SameSpan(t.nodes[x], s.nodes[x])
          /\ t.nodes[x].neighborPrev = IF x = qq THEN n ELSE s.nodes[x].neighborPrev
          /\ t.nodes[x].neighborNext = IF x = pp THEN n ELSE s.nodes[x].neighborNext
    BY <1>9, <1>13, <1>19 DEF SameSpan, Combined
  <2> QED BY <1>19, <2>1 DEF Combined
<1> QED BY <1>14, <1>19, <1>20

-----------------------------------------------------------------------------
(***************************************************************************)
(* The chain of the regions, as one is split and as two become one.        *)
(***************************************************************************)
Spans(nodes, U) == \A x \in U : nodes[x].dataOffset \in Nat /\ nodes[x].dataSize \in Nat

\* The chain's order, unfolded.
LEMMA OrderFacts ==
  ASSUME NEW f, NEW U \in SUBSET NodeIndex, LinkInv(f, U), NEW rank \in Ranks, InOrder(f, U, rank)
  PROVE  /\ \A x \in U : rank[x] \in Nat
         /\ \A x, y \in U : x # y => rank[x] # rank[y]
         /\ \A x, y \in U : rank[x] < rank[y] => EndOf(f[x]) <= f[y].dataOffset
         /\ \A x, y \in U : rank[x] < rank[y] =>
              /\ f[x].neighborNext # unused /\ f[x].neighborNext \in U
              /\ rank[f[x].neighborNext] <= rank[y]
         /\ \A x \in U : f[x].neighborNext # unused =>
              /\ f[x].neighborNext \in U /\ rank[x] < rank[f[x].neighborNext]
              /\ f[f[x].neighborNext].neighborPrev = x
         /\ \A x \in U : f[x].neighborPrev # unused =>
              /\ f[x].neighborPrev \in U /\ rank[f[x].neighborPrev] < rank[x]
              /\ f[f[x].neighborPrev].neighborNext = x
BY ConstantFacts DEF LinkInv, InOrder, Ranks

\* Region n keeps its first size bytes, the rest is the region new behind it.
SplitOf(f, g, U, V, n, new, q, size) ==
  /\ n \in U /\ new \in NodeIndex /\ new \notin U /\ V = U \cup {new}
  /\ q = f[n].neighborNext
  /\ size \in Nat /\ size <= f[n].dataSize
  /\ g[new].dataOffset = f[n].dataOffset + size /\ g[new].dataSize = f[n].dataSize - size
  /\ g[new].neighborPrev = n /\ g[new].neighborNext = q
  /\ \A x \in U :
       /\ g[x].dataOffset = f[x].dataOffset
       /\ g[x].dataSize = IF x = n THEN size ELSE f[x].dataSize
       /\ g[x].neighborPrev = IF x = q THEN new ELSE f[x].neighborPrev
       /\ g[x].neighborNext = IF x = n THEN new ELSE f[x].neighborNext

LEMMA ChainSplit ==
  ASSUME NEW f, NEW U \in SUBSET NodeIndex, ChainInv(f, U), Spans(f, U),
         NEW g, NEW V, NEW n, NEW new, NEW q, NEW size, SplitOf(f, g, U, V, n, new, q, size)
  PROVE  ChainInv(g, V)
<1> USE DEF SplitOf
<1>1. LinkInv(f, U) /\ \A x \in U : EndOf(f[x]) <= Size
  BY DEF ChainInv
<1>2. PICK rank \in Ranks : InOrder(f, U, rank)
  BY DEF ChainInv
<1>3. /\ \A x \in U : rank[x] \in Nat
      /\ \A x, y \in U : x # y => rank[x] # rank[y]
      /\ \A x, y \in U : rank[x] < rank[y] => EndOf(f[x]) <= f[y].dataOffset
      /\ \A x, y \in U : rank[x] < rank[y] =>
           /\ f[x].neighborNext # unused /\ f[x].neighborNext \in U
           /\ rank[f[x].neighborNext] <= rank[y]
      /\ \A x \in U : f[x].neighborNext # unused =>
           /\ f[x].neighborNext \in U /\ rank[x] < rank[f[x].neighborNext]
           /\ f[f[x].neighborNext].neighborPrev = x
      /\ \A x \in U : f[x].neighborPrev # unused =>
           /\ f[x].neighborPrev \in U /\ rank[f[x].neighborPrev] < rank[x]
           /\ f[f[x].neighborPrev].neighborNext = x
  BY <1>1, <1>2, OrderFacts
<1>4. unused \notin V /\ Size \in Nat
  BY ConstantFacts
<1>5. \A x \in U : /\ f[x].neighborPrev = unused => f[x].dataOffset = 0
                   /\ f[x].neighborPrev # unused => EndOf(f[f[x].neighborPrev]) = f[x].dataOffset
                   /\ f[x].neighborNext = unused => EndOf(f[x]) = Size
  BY <1>1 DEF LinkInv
<1>6. /\ \A x \in U : f[x].dataOffset \in Nat /\ f[x].dataSize \in Nat
      /\ \A x \in U \ {n} : EndOf(g[x]) = EndOf(f[x])
      /\ EndOf(g[n]) = g[new].dataOffset /\ EndOf(g[new]) = EndOf(f[n])
      /\ EndOf(g[n]) <= EndOf(f[n]) /\ g[new].dataOffset >= f[n].dataOffset
      /\ EndOf(f[n]) \in Nat
  BY DEF Spans, EndOf
<1>7. q # n /\ (q # unused => q \in U /\ rank[n] < rank[q] /\ f[q].neighborPrev = n)
  BY <1>3, <1>4
<1>8. ASSUME NEW x \in V
      PROVE  /\ IF g[x].neighborPrev = unused THEN g[x].dataOffset = 0
                ELSE /\ g[x].neighborPrev \in V /\ g[g[x].neighborPrev].neighborNext = x
                     /\ EndOf(g[g[x].neighborPrev]) = g[x].dataOffset
             /\ IF g[x].neighborNext = unused THEN EndOf(g[x]) = Size
                ELSE g[x].neighborNext \in V /\ g[g[x].neighborNext].neighborPrev = x
  <2>1. CASE x = new
    BY <1>4, <1>5, <1>6, <1>7, <2>1
  <2>2. CASE x = n
    BY <1>3, <1>4, <1>5, <1>6, <1>7, <2>2
  <2>3. CASE x = q /\ x # new
    <3>1. x \in U /\ x # n
      BY <1>7, <2>3
    <3>2. g[x].neighborPrev = new /\ g[new].neighborNext = x
      BY <2>3, <3>1
    <3>3. EndOf(g[new]) = g[x].dataOffset
      BY <1>4, <1>5, <1>6, <1>7, <2>3, <3>1
    <3>4. g[x].neighborNext = f[x].neighborNext
      BY <3>1
    <3>5. f[x].neighborNext # unused => f[x].neighborNext # q /\ f[x].neighborNext \in U
      BY <1>3, <2>3, <3>1
    <3>6. f[x].neighborNext # unused => g[f[x].neighborNext].neighborPrev = x
      BY <1>3, <3>1, <3>5
    <3> QED BY <1>4, <1>5, <1>6, <3>1, <3>2, <3>3, <3>4, <3>5, <3>6
  <2>4. CASE x # new /\ x # n /\ x # q
    <3>1. x \in U /\ g[x].neighborPrev = f[x].neighborPrev /\ g[x].neighborNext = f[x].neighborNext
          /\ g[x].dataOffset = f[x].dataOffset
      BY <2>4
    <3>2. f[x].neighborPrev # unused =>
            f[x].neighborPrev \in U \ {n} /\ g[f[x].neighborPrev].neighborNext = x
      BY <1>3, <2>4, <3>1
    <3>3. f[x].neighborNext # unused =>
            f[x].neighborNext \in U \ {q} /\ g[f[x].neighborNext].neighborPrev = x
      BY <1>3, <1>7, <2>4, <3>1
    <3> QED BY <1>5, <1>6, <2>4, <3>1, <3>2, <3>3
  <2> QED BY <2>1, <2>2, <2>3, <2>4
<1>9. \A x \in V : EndOf(g[x]) <= Size
  <2>1. \A x \in U \ {n} : EndOf(g[x]) <= Size
    BY <1>1, <1>6
  <2>2. EndOf(g[new]) <= Size
    BY <1>1, <1>6
  <2>3. EndOf(g[n]) <= Size
    <3>1. EndOf(f[n]) <= Size /\ EndOf(g[n]) \in Nat
      BY <1>1, <1>6
    <3> QED BY <1>4, <1>6, <3>1
  <2> QED BY <2>1, <2>2, <2>3
<1> DEFINE order == [x \in NodeIndex |-> IF x = new THEN rank[n] + 1
                                         ELSE IF rank[x] > rank[n] THEN rank[x] + 1 ELSE rank[x]]
<1>10. order \in Ranks
  BY <1>3 DEF Ranks
<1>11. /\ \A x \in U : order[x] \in Nat
       /\ order[new] \in Nat
       /\ \A x, y \in U : (order[x] < order[y]) <=> (rank[x] < rank[y])
       /\ \A x, y \in U : (order[x] <= order[y]) <=> (rank[x] <= rank[y])
       /\ \A x \in U : /\ (order[x] < order[new]) <=> (rank[x] <= rank[n])
                       /\ (order[new] < order[x]) <=> (rank[n] < rank[x])
                       /\ (order[new] <= order[x]) <=> (rank[n] < rank[x])
                       /\ order[x] # order[new]
       /\ \A x, y \in U : x # y => order[x] # order[y]
  BY <1>3
<1> HIDE DEF order
<1>12. \A x, y \in V : x # y => order[x] # order[y]
  BY <1>11
<1>13. ASSUME NEW x \in V, NEW y \in V, order[x] < order[y]
       PROVE  EndOf(g[x]) <= g[y].dataOffset
  <2>1. CASE x = new
    <3>1. y \in U /\ rank[n] < rank[y] /\ y # n
      BY <1>3, <1>11, <1>13, <2>1
    <3> QED BY <1>3, <1>6, <2>1, <3>1
  <2>2. CASE y = new /\ x # new
    <3>1. x \in U /\ rank[x] <= rank[n]
      BY <1>11, <1>13, <2>2
    <3>2. CASE x = n
      BY <1>6, <2>2, <3>2
    <3>3. CASE x # n
      <4>1. rank[x] < rank[n]
        BY <1>3, <3>1, <3>3
      <4>2. EndOf(g[x]) <= f[n].dataOffset /\ EndOf(g[x]) \in Nat
        BY <1>3, <1>6, <3>1, <3>3, <4>1 DEF EndOf
      <4> QED BY <1>6, <2>2, <4>2
    <3> QED BY <3>2, <3>3
  <2>3. CASE x # new /\ y # new
    <3>1. x \in U /\ y \in U /\ rank[x] < rank[y]
      BY <1>11, <1>13, <2>3
    <3>2. EndOf(f[x]) <= f[y].dataOffset /\ g[y].dataOffset = f[y].dataOffset
      BY <1>3, <3>1
    <3>3. EndOf(g[x]) <= EndOf(f[x]) /\ EndOf(g[x]) \in Nat /\ EndOf(f[x]) \in Nat
      BY <1>6, <3>1 DEF EndOf
    <3> QED BY <1>6, <3>1, <3>2, <3>3
  <2> QED BY <2>1, <2>2, <2>3
<1>14. ASSUME NEW x \in V, NEW y \in V, order[x] < order[y]
       PROVE  g[x].neighborNext # unused /\ order[g[x].neighborNext] <= order[y]
  <2>1. CASE x = new
    <3>1. y \in U /\ rank[n] < rank[y]
      BY <1>11, <1>14, <2>1
    <3> QED BY <1>3, <1>11, <2>1, <3>1
  <2>2. CASE x = n
    <3>1. new # unused /\ (y # new => y \in U /\ rank[n] < rank[y])
      BY <1>4, <1>11, <1>14, <2>2
    <3>2. order[new] <= order[y]
      BY <1>11, <3>1
    <3> QED BY <2>2, <3>1, <3>2
  <2>3. CASE x # new /\ x # n
    <3>1. x \in U /\ g[x].neighborNext = f[x].neighborNext
      BY <2>3
    <3>2. CASE y = new
      <4>1. rank[x] < rank[n]
        BY <1>3, <1>11, <1>14, <2>3, <3>1, <3>2
      <4>2. f[x].neighborNext # unused /\ f[x].neighborNext \in U /\ rank[f[x].neighborNext] <= rank[n]
        BY <1>3, <3>1, <4>1
      <4>3. order[f[x].neighborNext] < order[new]
        BY <1>11, <4>2
      <4> QED BY <1>11, <3>1, <3>2, <4>2, <4>3
    <3>3. CASE y # new
      <4>1. y \in U /\ rank[x] < rank[y]
        BY <1>11, <1>14, <3>1, <3>3
      <4> QED BY <1>3, <1>11, <3>1, <4>1
    <3> QED BY <3>2, <3>3
  <2> QED BY <2>1, <2>2, <2>3
<1>15. ASSUME NEW x \in V, g[x].neighborNext # unused
       PROVE  order[x] < order[g[x].neighborNext]
  <2>1. CASE x = new
    BY <1>7, <1>11, <1>15, <2>1
  <2>2. CASE x = n
    BY <1>3, <1>11, <2>2
  <2>3. CASE x # new /\ x # n
    BY <1>3, <1>11, <1>15, <2>3
  <2> QED BY <2>1, <2>2, <2>3
<1>16. InOrder(g, V, order)
  BY <1>12, <1>13, <1>14, <1>15 DEF InOrder
<1>17. LinkInv(g, V)
  BY <1>8 DEF LinkInv
<1> QED BY <1>9, <1>10, <1>16, <1>17 DEF ChainInv

\* Neighbours a and b become one region, whose node is k.
MergeOf(f, g, U, V, a, b, k, d) ==
  /\ a \in U /\ b \in U /\ f[a].neighborNext = b
  /\ (k = a /\ d = b) \/ (k = b /\ d = a)
  /\ V = U \ {d}
  /\ g[k].dataOffset = f[a].dataOffset /\ g[k].dataSize = f[a].dataSize + f[b].dataSize
  /\ g[k].neighborPrev = f[a].neighborPrev /\ g[k].neighborNext = f[b].neighborNext
  /\ \A x \in V \ {k} :
       /\ g[x].dataOffset = f[x].dataOffset /\ g[x].dataSize = f[x].dataSize
       /\ g[x].neighborPrev = IF x = f[b].neighborNext THEN k ELSE f[x].neighborPrev
       /\ g[x].neighborNext = IF x = f[a].neighborPrev THEN k ELSE f[x].neighborNext

LEMMA ChainMerge ==
  ASSUME NEW f, NEW U \in SUBSET NodeIndex, ChainInv(f, U), Spans(f, U),
         NEW g, NEW V, NEW a, NEW b, NEW k, NEW d, MergeOf(f, g, U, V, a, b, k, d)
  PROVE  ChainInv(g, V) /\ Spans(g, V)
<1> USE DEF MergeOf
<1> DEFINE p == f[a].neighborPrev
           q == f[b].neighborNext
<1>1. LinkInv(f, U) /\ \A x \in U : EndOf(f[x]) <= Size
  BY DEF ChainInv
<1>2. PICK rank \in Ranks : InOrder(f, U, rank)
  BY DEF ChainInv
<1>3. /\ \A x \in U : rank[x] \in Nat
      /\ \A x, y \in U : x # y => rank[x] # rank[y]
      /\ \A x, y \in U : rank[x] < rank[y] => EndOf(f[x]) <= f[y].dataOffset
      /\ \A x, y \in U : rank[x] < rank[y] =>
           /\ f[x].neighborNext # unused /\ f[x].neighborNext \in U
           /\ rank[f[x].neighborNext] <= rank[y]
      /\ \A x \in U : f[x].neighborNext # unused =>
           /\ f[x].neighborNext \in U /\ rank[x] < rank[f[x].neighborNext]
           /\ f[f[x].neighborNext].neighborPrev = x
      /\ \A x \in U : f[x].neighborPrev # unused =>
           /\ f[x].neighborPrev \in U /\ rank[f[x].neighborPrev] < rank[x]
           /\ f[f[x].neighborPrev].neighborNext = x
  BY <1>1, <1>2, OrderFacts
<1>4. unused \notin U /\ Size \in Nat
  BY ConstantFacts
<1>5. \A x \in U : /\ f[x].neighborPrev = unused => f[x].dataOffset = 0
                   /\ f[x].neighborPrev # unused => EndOf(f[f[x].neighborPrev]) = f[x].dataOffset
                   /\ f[x].neighborNext = unused => EndOf(f[x]) = Size
  BY <1>1 DEF LinkInv
<1>6. /\ rank[a] < rank[b] /\ a # b /\ k \in V /\ k \in U
      /\ f[b].neighborPrev = a /\ EndOf(f[a]) = f[b].dataOffset
  BY <1>3, <1>4, <1>5
<1>7. /\ \A x \in U : f[x].dataOffset \in Nat /\ f[x].dataSize \in Nat
      /\ \A x \in V \ {k} : EndOf(g[x]) = EndOf(f[x])
      /\ EndOf(g[k]) = EndOf(f[b])
  BY <1>6 DEF Spans, EndOf
<1>8. /\ p # unused => p \in V \ {k} /\ rank[p] < rank[a] /\ f[p].neighborNext = a
      /\ q # unused => q \in V \ {k} /\ rank[b] < rank[q] /\ f[q].neighborPrev = b
  BY <1>3, <1>4, <1>6
\* Between the two is nothing.
<1>9. \A x \in V \ {k} : /\ (rank[x] < rank[k]) <=> (rank[x] < rank[a])
                         /\ (rank[x] < rank[k]) <=> (rank[x] < rank[b])
                         /\ (rank[k] < rank[x]) <=> (rank[a] < rank[x])
                         /\ (rank[k] < rank[x]) <=> (rank[b] < rank[x])
  <2> SUFFICES ASSUME NEW x \in V \ {k}
               PROVE  /\ (rank[x] < rank[k]) <=> (rank[x] < rank[a])
                      /\ (rank[x] < rank[k]) <=> (rank[x] < rank[b])
                      /\ (rank[k] < rank[x]) <=> (rank[a] < rank[x])
                      /\ (rank[k] < rank[x]) <=> (rank[b] < rank[x])
    OBVIOUS
  <2>1. x \in U /\ x # a /\ x # b
    OBVIOUS
  <2>2. rank[x] # rank[a] /\ rank[x] # rank[b]
    BY <1>3, <2>1
  <2>3. rank[a] < rank[x] => rank[b] <= rank[x]
    BY <1>3, <2>1
  <2>4. rank[x] \in Nat /\ rank[a] \in Nat /\ rank[b] \in Nat
    BY <1>3, <2>1
  <2> QED BY <1>6, <2>2, <2>3, <2>4
<1> HIDE DEF p, q
<1>10. /\ g[k].neighborPrev = p /\ g[k].neighborNext = q
       /\ \A x \in V \ {k} : /\ g[x].neighborPrev = IF x = q THEN k ELSE f[x].neighborPrev
                             /\ g[x].neighborNext = IF x = p THEN k ELSE f[x].neighborNext
  BY DEF p, q
<1>11. k # unused
  BY <1>4, <1>6
<1>12. ASSUME NEW x \in V
       PROVE  /\ IF g[x].neighborPrev = unused THEN g[x].dataOffset = 0
                 ELSE /\ g[x].neighborPrev \in V /\ g[g[x].neighborPrev].neighborNext = x
                      /\ EndOf(g[g[x].neighborPrev]) = g[x].dataOffset
              /\ IF g[x].neighborNext = unused THEN EndOf(g[x]) = Size
                 ELSE g[x].neighborNext \in V /\ g[g[x].neighborNext].neighborPrev = x
  <2>1. CASE x = k
    <3>1. IF p = unused THEN g[k].dataOffset = 0 ELSE EndOf(f[p]) = g[k].dataOffset
      BY <1>5 DEF p
    <3>2. q = unused => EndOf(g[k]) = Size
      BY <1>5, <1>7 DEF q
    <3> QED BY <1>7, <1>8, <1>10, <2>1, <3>1, <3>2
  <2>2. CASE x # k
    <3>0. x \in U /\ x # a /\ x # b
      BY <2>2
    <3>1. IF g[x].neighborPrev = unused THEN g[x].dataOffset = 0
          ELSE /\ g[x].neighborPrev \in V /\ g[g[x].neighborPrev].neighborNext = x
               /\ EndOf(g[g[x].neighborPrev]) = g[x].dataOffset
      <4>1. CASE x = q
        <5>1. EndOf(f[b]) = f[x].dataOffset
          BY <1>5, <1>8, <1>11, <2>2, <4>1, <3>0, <1>4
        <5> QED BY <1>6, <1>7, <1>8, <1>10, <1>11, <2>2, <4>1, <5>1
      <4>2. CASE x # q
        <5>1. g[x].neighborPrev = f[x].neighborPrev
          BY <1>10, <2>2, <4>2
        <5>2. f[x].neighborPrev # unused => f[x].neighborPrev \in V \ {k}
          BY <1>3, <3>0, <4>2 DEF q
        <5>3. f[x].neighborPrev # unused => f[x].neighborPrev # p
          BY <1>3, <1>8, <3>0
        <5> QED BY <1>3, <1>5, <1>7, <1>10, <2>2, <3>0, <5>1, <5>2, <5>3
      <4> QED BY <4>1, <4>2
    <3>2. IF g[x].neighborNext = unused THEN EndOf(g[x]) = Size
          ELSE g[x].neighborNext \in V /\ g[g[x].neighborNext].neighborPrev = x
      <4>1. CASE x = p
        BY <1>6, <1>10, <1>11, <2>2, <4>1
      <4>2. CASE x # p
        <5>1. g[x].neighborNext = f[x].neighborNext
          BY <1>10, <2>2, <4>2
        <5>2. f[x].neighborNext # unused => f[x].neighborNext \in V \ {k}
          BY <1>3, <1>6, <3>0, <4>2 DEF p
        <5>3. f[x].neighborNext # unused => f[x].neighborNext # q
          BY <1>3, <1>8, <3>0
        <5> QED BY <1>3, <1>5, <1>7, <1>10, <2>2, <3>0, <5>1, <5>2, <5>3
      <4> QED BY <4>1, <4>2
    <3> QED BY <3>1, <3>2
  <2> QED BY <2>1, <2>2
<1>13. \A x \in V : EndOf(g[x]) <= Size
  BY <1>1, <1>7
<1>14. \A x, y \in V : x # y => rank[x] # rank[y]
  BY <1>3
<1>15. ASSUME NEW x \in V, NEW y \in V, rank[x] < rank[y]
       PROVE  EndOf(g[x]) <= g[y].dataOffset
  <2>1. CASE x = k
    <3>1. y \in V \ {k}
      BY <1>3, <1>15, <2>1
    <3>2. rank[b] < rank[y]
      BY <1>9, <1>15, <2>1, <3>1
    <3> QED BY <1>3, <1>7, <2>1, <3>1, <3>2
  <2>2. CASE y = k
    <3>1. x \in V \ {k}
      BY <1>3, <1>15, <2>2
    <3>2. rank[x] < rank[a]
      BY <1>9, <1>15, <2>2, <3>1
    <3> QED BY <1>3, <1>7, <2>2, <3>1, <3>2
  <2>3. CASE x # k /\ y # k
    BY <1>3, <1>7, <1>15, <2>3
  <2> QED BY <2>1, <2>2, <2>3
<1>16. ASSUME NEW x \in V, NEW y \in V, rank[x] < rank[y]
       PROVE  g[x].neighborNext # unused /\ rank[g[x].neighborNext] <= rank[y]
  <2>1. CASE x = k
    <3>1. y \in V \ {k}
      BY <1>3, <1>16, <2>1
    <3>2. rank[b] < rank[y]
      BY <1>9, <1>16, <2>1, <3>1
    <3> QED BY <1>3, <1>10, <2>1, <3>1, <3>2 DEF q
  <2>2. CASE x # k /\ x = p
    <3>1. y = k \/ rank[k] < rank[y]
      <4>1. y # k => y \in U /\ rank[a] <= rank[y] /\ rank[y] # rank[a]
        BY <1>3, <1>8, <1>11, <1>16, <2>2, <1>4
      <4> QED BY <1>3, <1>9, <4>1
    <3>2. rank[k] \in Nat /\ rank[y] \in Nat
      BY <1>3, <1>6
    <3> QED BY <1>10, <1>11, <2>2, <3>1, <3>2
  <2>3. CASE x # k /\ x # p
    <3>1. x \in U /\ g[x].neighborNext = f[x].neighborNext
      BY <1>10, <2>3
    <3>2. CASE y # k
      BY <1>3, <1>16, <3>1, <3>2
    <3>3. CASE y = k
      <4>1. rank[x] < rank[a]
        BY <1>9, <1>16, <2>3, <3>3
      <4>2. f[x].neighborNext # unused /\ f[x].neighborNext \in U /\ rank[f[x].neighborNext] <= rank[a]
        BY <1>3, <3>1, <4>1
      <4>3. rank[a] <= rank[k]
        BY <1>3, <1>6
      <4> QED BY <1>3, <1>6, <3>1, <3>3, <4>2, <4>3
    <3> QED BY <3>2, <3>3
  <2> QED BY <2>1, <2>2, <2>3
<1>17. ASSUME NEW x \in V, g[x].neighborNext # unused
       PROVE  rank[x] < rank[g[x].neighborNext]
  <2>1. CASE x = k
    BY <1>8, <1>9, <1>10, <1>17, <2>1
  <2>2. CASE x # k /\ x = p
    BY <1>4, <1>8, <1>9, <1>10, <2>2
  <2>3. CASE x # k /\ x # p
    BY <1>3, <1>10, <1>17, <2>3
  <2> QED BY <2>1, <2>2, <2>3
<1>18. InOrder(g, V, rank)
  BY <1>14, <1>15, <1>16, <1>17 DEF InOrder
<1>19. LinkInv(g, V)
  BY <1>12 DEF LinkInv
<1>20. Spans(g, V)
  BY <1>7 DEF Spans
<1> QED BY <1>13, <1>18, <1>19, <1>20 DEF ChainInv

\* The chain sees where the regions are and which ones are neighbours.
SameChain(f, g, U) ==
  \A x \in U :
    /\ g[x].dataOffset = f[x].dataOffset /\ g[x].dataSize = f[x].dataSize
    /\ g[x].neighborPrev = f[x].neighborPrev /\ g[x].neighborNext = f[x].neighborNext

LEMMA ChainSame ==
  ASSUME NEW f, NEW U, ChainInv(f, U), NEW g, SameChain(f, g, U)
  PROVE  ChainInv(g, U)
<1>1. \A x \in U : EndOf(g[x]) = EndOf(f[x])
  BY DEF EndOf, SameChain
<1>2. LinkInv(f, U) /\ \A x \in U : EndOf(f[x]) <= Size
  BY DEF ChainInv
<1>3. PICK rank \in Ranks : InOrder(f, U, rank)
  BY DEF ChainInv
<1>4. InOrder(g, U, rank)
  BY <1>1, <1>3 DEF InOrder, SameChain
<1>5. LinkInv(g, U)
  BY <1>1, <1>2 DEF LinkInv, SameChain
<1> QED BY <1>1, <1>2, <1>4, <1>5 DEF ChainInv

\* One region in place of two keeps the sum.
LEMMA SumMerge ==
  ASSUME NEW f, NEW g, NEW U, IsFiniteSet(U), Sizes(f, U), NEW k \in U, NEW d \in U, k # d,
         NEW V, V = U \ {d},
         g[k].dataSize = f[k].dataSize + f[d].dataSize,
         \A x \in V \ {k} : g[x].dataSize = f[x].dataSize
  PROVE  SizeSum(g, V) = SizeSum(f, U)
<1>1. PICK W : W = V \ {k}
  OBVIOUS
<1>2. IsFiniteSet(V) /\ Sizes(f, V) /\ k \in V
  BY FS_RemoveElement DEF Sizes
<1>3. IsFiniteSet(W) /\ \A x \in W : g[x].dataSize = f[x].dataSize
  BY <1>1, <1>2, FS_RemoveElement
<1>4. Sizes(g, V)
  BY <1>2 DEF Sizes
<1>5. /\ SizeSum(f, U) = f[d].dataSize + SizeSum(f, V)
      /\ SizeSum(f, V) \in Nat /\ f[d].dataSize \in Nat
  BY SumAdd
<1>6. /\ SizeSum(f, V) = f[k].dataSize + SizeSum(f, W)
      /\ SizeSum(f, W) \in Nat /\ f[k].dataSize \in Nat
  BY <1>1, <1>2, SumAdd
<1>7. SizeSum(g, V) = g[k].dataSize + SizeSum(g, W)
  BY <1>1, <1>2, <1>4, SumAdd
<1>8. SizeSum(g, W) = SizeSum(f, W)
  BY <1>3, SumSame
<1> QED BY <1>5, <1>6, <1>7, <1>8

-----------------------------------------------------------------------------
(***************************************************************************)
(* The search for a bin.                                                   *)
(***************************************************************************)
LEMMA MinNat ==
  ASSUME NEW S \in SUBSET Nat, S # {}
  PROVE  Min(S) \in S /\ \A x \in S : Min(S) <= x
<1>1. \E x \in S : \A y \in S : x <= y
  BY LeastNat
<1> QED BY <1>1 DEF Min

LEMMA MaxNat ==
  ASSUME NEW S \in SUBSET Nat, S # {}, NEW k \in Nat, \A x \in S : x <= k
  PROVE  Max(S) \in S /\ \A x \in S : Max(S) >= x
<1> DEFINE R == {j \in Nat : k - j \in S}
<1>1. PICK e \in S : TRUE
  OBVIOUS
<1>2. k - e \in R
  BY <1>1
<1>3. PICK j \in R : \A i \in R : j <= i
  BY <1>2, LeastNat
<1>4. \A y \in S : k - y \in R
  OBVIOUS
<1>5. k - j \in S /\ \A y \in S : k - j >= y
  <2>1. \A y \in S : y \in Nat /\ j <= k - y /\ j \in Nat
    BY <1>3, <1>4
  <2> QED BY <1>3, <2>1
<1>6. \E x \in S : \A y \in S : x >= y
  BY <1>5
<1> QED BY <1>6 DEF Max

LEMMA LowestBit ==
  ASSUME NEW mask \in SUBSET Nat, NO_SPACE \notin mask, NEW start \in Nat,
         NEW r, r = findLowestSetBitAfter(mask, start)
  PROVE  /\ r # NO_SPACE => r \in mask /\ r >= start
         /\ \A b \in mask : b >= start => r # NO_SPACE /\ r <= b
<1> DEFINE after == {b \in mask : b >= start}
<1>1. CASE after = {}
  BY <1>1 DEF findLowestSetBitAfter
<1>2. CASE after # {}
  <2>1. Min(after) \in after /\ \A x \in after : Min(after) <= x
    BY <1>2, MinNat
  <2>2. r = Min(after)
    BY <1>2 DEF findLowestSetBitAfter
  <2> QED BY <2>1, <2>2
<1> QED BY <1>1, <1>2

\* The search meets the first bin, from the request's on, that has a region.
LEMMA FindBinFacts ==
  ASSUME NEW s, ShapeInv(s), MaskInv(s), NEW size, uintToFloatRoundUp(size) \in Bins,
         NEW bin, bin = FindBin(s, size)
  PROVE  /\ bin # NO_SPACE => /\ bin \in Bins /\ s.binIndices[bin] # unused
                              /\ bin >= uintToFloatRoundUp(size)
         /\ \A b \in Bins : b >= uintToFloatRoundUp(size) /\ s.binIndices[b] # unused =>
              bin # NO_SPACE /\ bin <= b
<1> DEFINE minBin == uintToFloatRoundUp(size)
           T == Top(minBin)
           L == Leaf(minBin)
           leaf == IF T \in s.usedBinsTop THEN findLowestSetBitAfter(s.usedBins[T], L) ELSE NO_SPACE
           top == findLowestSetBitAfter(s.usedBinsTop, T + 1)
<1>1. bin = IF leaf # NO_SPACE THEN T * BINS_PER_LEAF + leaf
            ELSE IF top # NO_SPACE THEN top * BINS_PER_LEAF + Min(s.usedBins[top])
            ELSE NO_SPACE
  BY DEF FindBin
<1>2. minBin \in Bins
  OBVIOUS
<1> SUFFICES /\ bin # NO_SPACE => /\ bin \in Bins /\ s.binIndices[bin] # unused
                                  /\ bin >= minBin
             /\ \A b \in Bins : b >= minBin /\ s.binIndices[b] # unused =>
                  bin # NO_SPACE /\ bin <= b
  OBVIOUS
<1> HIDE DEF minBin
<1>3. /\ T \in 0 .. NUM_TOP_BINS - 1 /\ L \in 0 .. BINS_PER_LEAF - 1
      /\ minBin = T * BINS_PER_LEAF + L /\ minBin \in Nat
  BY <1>2, BinBits
<1>4. BINS_PER_LEAF = 8 /\ NUM_TOP_BINS \in Nat /\ NO_SPACE = NUM_TOP_BINS * 8
      /\ Bins = 0 .. NUM_TOP_BINS * 8 - 1
  BY ConstantFacts DEF BINS_PER_LEAF, NO_SPACE, NUM_LEAF_BINS, Bins
<1>5. T \in Nat /\ T < NUM_TOP_BINS /\ L \in Nat /\ L < 8 /\ NUM_TOP_BINS >= 1
  BY <1>3, <1>4
<1>6. /\ s.usedBins \in [0 .. NUM_TOP_BINS - 1 -> SUBSET (0 .. 7)]
      /\ s.usedBinsTop \in SUBSET (0 .. NUM_TOP_BINS - 1)
  BY <1>4 DEF ShapeInv
<1>7. \A t \in 0 .. NUM_TOP_BINS - 1 :
        /\ s.usedBins[t] \in SUBSET Nat /\ NO_SPACE \notin s.usedBins[t]
        /\ \A l \in s.usedBins[t] : l \in Nat /\ l < 8
  <2> SUFFICES ASSUME NEW t \in 0 .. NUM_TOP_BINS - 1
               PROVE  /\ s.usedBins[t] \in SUBSET Nat /\ NO_SPACE \notin s.usedBins[t]
                      /\ \A l \in s.usedBins[t] : l \in Nat /\ l < 8
    OBVIOUS
  <2>1. s.usedBins[t] \in SUBSET (0 .. 7)
    BY <1>6
  <2>2. \A l \in s.usedBins[t] : l \in Nat /\ l < 8
    BY <2>1
  <2>3. NO_SPACE \in Nat /\ NO_SPACE >= 8
    BY <1>4, <1>5
  <2> QED BY <2>2, <2>3
<1>8. s.usedBinsTop \in SUBSET Nat /\ NO_SPACE \notin s.usedBinsTop
  BY <1>4, <1>5, <1>6
<1>9. \A t \in 0 .. NUM_TOP_BINS - 1 : \A l \in s.usedBins[t] :
        /\ t * 8 + l \in Bins /\ s.binIndices[t * 8 + l] # unused
  <2> SUFFICES ASSUME NEW t \in 0 .. NUM_TOP_BINS - 1, NEW l \in s.usedBins[t]
               PROVE  t * 8 + l \in Bins /\ s.binIndices[t * 8 + l] # unused
    OBVIOUS
  <2>1. l \in 0 .. BINS_PER_LEAF - 1
    BY <1>4, <1>6
  <2>2. t * 8 + l \in Bins /\ Top(t * 8 + l) = t /\ Leaf(t * 8 + l) = l
    BY <1>4, <2>1, BinBits
  <2> QED BY <2>2 DEF MaskInv
<1>10. \A b \in Bins : s.binIndices[b] # unused =>
         /\ Top(b) \in 0 .. NUM_TOP_BINS - 1 /\ Top(b) \in Nat /\ Leaf(b) \in Nat /\ Leaf(b) < 8
         /\ Leaf(b) \in s.usedBins[Top(b)] /\ Top(b) \in s.usedBinsTop
         /\ b = Top(b) * 8 + Leaf(b)
  <2> SUFFICES ASSUME NEW b \in Bins, s.binIndices[b] # unused
               PROVE  /\ Top(b) \in 0 .. NUM_TOP_BINS - 1 /\ Top(b) \in Nat
                      /\ Leaf(b) \in Nat /\ Leaf(b) < 8
                      /\ Leaf(b) \in s.usedBins[Top(b)] /\ Top(b) \in s.usedBinsTop
                      /\ b = Top(b) * 8 + Leaf(b)
    OBVIOUS
  <2>1. /\ Top(b) \in 0 .. NUM_TOP_BINS - 1 /\ Leaf(b) \in 0 .. BINS_PER_LEAF - 1
        /\ b = Top(b) * BINS_PER_LEAF + Leaf(b)
    BY BinBits
  <2>4. Top(b) \in Nat /\ Leaf(b) \in Nat /\ Leaf(b) < 8 /\ b = Top(b) * 8 + Leaf(b)
    BY <1>4, <2>1
  <2>2. Leaf(b) \in s.usedBins[Top(b)]
    BY DEF MaskInv
  <2>3. Top(b) \in s.usedBinsTop
    BY <2>1, <2>2 DEF MaskInv
  <2> QED BY <2>1, <2>2, <2>3, <2>4
<1>11. T \in s.usedBinsTop =>
         /\ leaf # NO_SPACE => leaf \in s.usedBins[T] /\ leaf >= L
         /\ \A l \in s.usedBins[T] : l >= L => leaf # NO_SPACE /\ leaf <= l
  BY <1>3, <1>5, <1>7, LowestBit
<1>12. /\ top # NO_SPACE => top \in s.usedBinsTop /\ top >= T + 1
       /\ \A t \in s.usedBinsTop : t >= T + 1 => top # NO_SPACE /\ top <= t
  BY <1>5, <1>8, LowestBit
<1>13. T \notin s.usedBinsTop => leaf = NO_SPACE
  OBVIOUS
<1> HIDE DEF T, L, leaf, top
<1>14. CASE leaf # NO_SPACE
  <2>1. bin = T * 8 + leaf /\ leaf \in s.usedBins[T] /\ leaf >= L /\ leaf \in Nat /\ leaf < 8
    BY <1>1, <1>3, <1>4, <1>7, <1>11, <1>13, <1>14
  <2>2. bin \in Bins /\ s.binIndices[bin] # unused /\ bin >= minBin
    BY <1>3, <1>4, <1>5, <1>9, <2>1
  <2>3. bin # NO_SPACE
    BY <1>4, <2>2
  <2>4. ASSUME NEW b \in Bins, b >= minBin, s.binIndices[b] # unused
        PROVE  bin <= b
    <3>1. CASE Top(b) = T
      <4>1. b = T * 8 + Leaf(b) /\ Leaf(b) \in s.usedBins[T] /\ T \in s.usedBinsTop
            /\ Leaf(b) \in Nat
        BY <1>10, <2>4, <3>1
      <4>2. Leaf(b) >= L
        BY <1>3, <1>4, <1>5, <2>4, <4>1
      <4>3. leaf <= Leaf(b)
        BY <1>11, <4>1, <4>2
      <4> QED BY <1>5, <2>1, <4>1, <4>3
    <3>2. CASE Top(b) # T
      BY <1>3, <1>4, <1>5, <1>10, <2>1, <2>4, <3>2
    <3> QED BY <3>1, <3>2
  <2> QED BY <2>2, <2>3, <2>4
<1>15. ASSUME leaf = NO_SPACE, NEW b \in Bins, b >= minBin, s.binIndices[b] # unused
       PROVE  Top(b) \in s.usedBinsTop /\ Top(b) >= T + 1
  <2>1. Top(b) # T
    <3> SUFFICES ASSUME Top(b) = T PROVE FALSE
      OBVIOUS
    <3>1. Leaf(b) >= L
      BY <1>3, <1>4, <1>5, <1>10, <1>15
    <3> QED BY <1>10, <1>11, <1>15, <3>1
  <2> QED BY <1>3, <1>4, <1>5, <1>10, <1>15, <2>1, SMTT(60)
<1>16. CASE leaf = NO_SPACE /\ top # NO_SPACE
  <2>1. top \in s.usedBinsTop /\ top >= T + 1 /\ top \in 0 .. NUM_TOP_BINS - 1
    BY <1>6, <1>12, <1>16
  <2>2. s.usedBins[top] # {}
    BY <2>1 DEF MaskInv
  <2>3. PICK l : l = Min(s.usedBins[top])
    OBVIOUS
  <2>4. l \in s.usedBins[top] /\ (\A x \in s.usedBins[top] : l <= x) /\ l \in Nat /\ l < 8
    BY <1>7, <2>1, <2>2, <2>3, MinNat
  <2>5. bin = top * 8 + l
    BY <1>1, <1>4, <1>16, <2>3
  <2>6. bin \in Bins /\ s.binIndices[bin] # unused /\ bin >= minBin
    BY <1>3, <1>4, <1>5, <1>9, <2>1, <2>4, <2>5
  <2>7. bin # NO_SPACE
    BY <1>4, <2>6
  <2>8. ASSUME NEW b \in Bins, b >= minBin, s.binIndices[b] # unused
        PROVE  bin <= b
    <3>1. Top(b) \in s.usedBinsTop /\ Top(b) >= T + 1 /\ top <= Top(b)
      BY <1>12, <1>15, <1>16, <2>8
    <3>2. CASE Top(b) = top
      BY <1>10, <2>4, <2>5, <2>8, <3>2
    <3>3. CASE Top(b) # top
      BY <1>10, <2>1, <2>4, <2>5, <2>8, <3>1, <3>3
    <3> QED BY <3>2, <3>3
  <2> QED BY <2>6, <2>7, <2>8
<1>17. CASE leaf = NO_SPACE /\ top = NO_SPACE
  <2>1. bin = NO_SPACE
    BY <1>1, <1>17
  <2>2. \A b \in Bins : ~(b >= minBin /\ s.binIndices[b] # unused)
    BY <1>12, <1>15, <1>17
  <2> QED BY <2>1, <2>2
<1> QED BY <1>14, <1>16, <1>17

-----------------------------------------------------------------------------
(***************************************************************************)
(* The allocator between calls.                                            *)
(***************************************************************************)
\* The parts of the invariant, as the steps use them.
Parts(s, U, F) ==
  /\ BinInv(s, F) /\ U = RegionsOf(s) /\ U \in SUBSET NodeIndex /\ F \in SUBSET U
  /\ IsFiniteSet(U) /\ Sizes(s.nodes, U) /\ Spans(s.nodes, U)
  /\ unused \notin U
  /\ ChainInv(s.nodes, U)
  /\ SizeSum(s.nodes, U) = Size
  /\ \A x \in U : /\ s.nodes[x].dataOffset \in Nat
                  /\ s.nodes[x].dataSize \in 0 .. Size /\ s.nodes[x].dataSize \in UINT32
                  /\ EndOf(s.nodes[x]) <= Size
                  /\ (x \in F) <=> ~s.nodes[x].used
  /\ \A x \in F : s.nodes[x].neighborNext # unused => s.nodes[s.nodes[x].neighborNext].used

LEMMA PartsOf ==
  ASSUME NEW s, AllocatorInv(s), NEW U, U = RegionsOf(s), NEW F, F = FreeOf(s)
  PROVE  Parts(s, U, F)
<1>1. /\ ShapeInv(s) /\ StackInv(s) /\ ChainInv(s.nodes, U) /\ ListInv(s.nodes, s.binIndices, F)
      /\ MaskInv(s) /\ SizeSum(s.nodes, U) = Size /\ SizeSum(s.nodes, F) = s.freeStorage
      /\ \A x \in F : s.nodes[x].neighborNext # unused => s.nodes[s.nodes[x].neighborNext].used
  BY DEF AllocatorInv, StorageInv, CoalescedInv
<1>2. U \in SUBSET NodeIndex /\ F \in SUBSET U /\ F \subseteq NodeIndex /\ F \cap Spare(s) = {}
  BY DEF RegionsOf, FreeOf
<1>3. unused \notin U
  BY <1>2, ConstantFacts
<1>4. IsFiniteSet(U) /\ Sizes(s.nodes, U)
  BY <1>1, <1>2, FreeFinite
<1>5. \A x \in U : /\ s.nodes[x].dataOffset \in Nat /\ s.nodes[x].dataSize \in Nat
                   /\ EndOf(s.nodes[x]) <= Size
                   /\ (x \in F) <=> ~s.nodes[x].used
  BY <1>1, <1>2, NodeFields DEF ChainInv, FreeOf
<1>6. Size \in Nat /\ Size < Pow2(32) /\ Pow2(32) \in Nat
  BY ConstantFacts, UINT32Range, Powers
<1>7. \A x \in U : s.nodes[x].dataSize \in 0 .. Size /\ s.nodes[x].dataSize \in UINT32
  <2> SUFFICES ASSUME NEW x \in U
               PROVE  s.nodes[x].dataSize \in 0 .. Size /\ s.nodes[x].dataSize \in UINT32
    OBVIOUS
  <2>1. s.nodes[x].dataSize \in Nat /\ s.nodes[x].dataSize <= Size
    BY <1>5, <1>6 DEF EndOf
  <2> QED BY <1>6, <2>1, UINT32Range
<1>8. Spans(s.nodes, U)
  BY <1>5 DEF Spans
<1>9. BinInv(s, F)
  BY <1>1, <1>2 DEF BinInv
<1> QED BY <1>1, <1>2, <1>3, <1>4, <1>5, <1>7, <1>8, <1>9 DEF Parts

LEMMA PartsMake ==
  ASSUME NEW s, NEW U, NEW F, BinInv(s, F), U = RegionsOf(s), F = FreeOf(s),
         ChainInv(s.nodes, U), SizeSum(s.nodes, U) = Size,
         \A x \in F : s.nodes[x].neighborNext # unused => s.nodes[s.nodes[x].neighborNext].used
  PROVE  AllocatorInv(s)
BY DEF BinInv, AllocatorInv, StorageInv, CoalescedInv

LEMMA SizeBins == \A n \in 0 .. Size : uintToFloatRoundDown(n) \in Bins
BY BinsAssumption DEF Bins

LEMMA RequestBins == \A n \in RequestSizes : uintToFloatRoundUp(n) \in Bins /\ n \in UINT32 /\ n \in Nat
BY BinsAssumption, RequestAssumption, UINT32Range DEF Bins

-----------------------------------------------------------------------------
\* An allocator is one free region.
LEMMA ResetInv ==
  ASSUME NEW t, t = reset
  PROVE  AllocatorInv(t) /\ \A x \in RegionsOf(t) : ~t.nodes[x].used
<1>s. PICK s : s = [nodes |-> [n \in NodeIndex |-> NewNode(0, 0, unused)],
                    freeNodes |-> [i \in NodeIndex |-> MaxAllocs - i - 1],
                    freeOffset |-> MaxAllocs - 1,
                    binIndices |-> [b \in Bins |-> unused],
                    usedBins |-> [u \in 0 .. NUM_TOP_BINS - 1 |-> {}],
                    usedBinsTop |-> {},
                    freeStorage |-> 0]
  OBVIOUS
<1>1. t = insertNodeIntoBin(s, Size, 0)
  BY <1>s DEF reset
<1>2. /\ s.nodes = [n \in NodeIndex |-> NewNode(0, 0, unused)]
      /\ s.freeNodes = [i \in NodeIndex |-> MaxAllocs - i - 1]
      /\ s.freeOffset = MaxAllocs - 1
      /\ s.binIndices = [b \in Bins |-> unused]
      /\ s.usedBins = [u \in 0 .. NUM_TOP_BINS - 1 |-> {}]
      /\ s.usedBinsTop = {}
      /\ s.freeStorage = 0
  BY <1>s
<1>3. MaxAllocs \in Nat /\ MaxAllocs >= 2
  BY ConstantFacts
<1>4. /\ \A i \in NodeIndex : s.freeNodes[i] = MaxAllocs - i - 1 /\ s.freeNodes[i] \in NodeIndex
      /\ s.freeNodes \in [NodeIndex -> NodeIndex]
      /\ s.freeOffset \in NodeIndex /\ s.freeOffset # 0
      /\ 0 .. s.freeOffset = NodeIndex
  BY <1>2, <1>3 DEF NodeIndex
<1>5. s.nodes \in [NodeIndex -> Node]
  BY <1>2 DEF NewNode, Node
<1>6. ShapeInv(s)
  <2>1. s.binIndices \in [Bins -> Links]
    BY <1>2 DEF Links
  <2>2. /\ s.usedBins \in [0 .. NUM_TOP_BINS - 1 -> SUBSET (0 .. BINS_PER_LEAF - 1)]
        /\ s.usedBinsTop \in SUBSET (0 .. NUM_TOP_BINS - 1) /\ s.freeStorage \in Int
    BY <1>2
  <2>3. s = [nodes |-> s.nodes, freeNodes |-> s.freeNodes, freeOffset |-> s.freeOffset,
             binIndices |-> s.binIndices, usedBins |-> s.usedBins, usedBinsTop |-> s.usedBinsTop,
             freeStorage |-> s.freeStorage]
    BY <1>s
  <2> HIDE <1>s
  <2> QED BY <1>4, <1>5, <2>1, <2>2, <2>3 DEF ShapeInv
<1> HIDE <1>s
<1>7. StackInv(s)
  <2>1. \A i \in NodeIndex : i \in Nat
    BY DEF NodeIndex
  <2>2. \A i, j \in NodeIndex : s.freeNodes[i] = s.freeNodes[j] => i = j
    BY <1>3, <1>4, <2>1
  <2> QED BY <1>4, <2>2 DEF StackInv
<1>8. Spare(s) = NodeIndex
  <2>1. \A n \in NodeIndex : MaxAllocs - n - 1 \in NodeIndex /\ s.freeNodes[MaxAllocs - n - 1] = n
    BY <1>3, <1>4 DEF NodeIndex
  <2>2. NodeIndex \subseteq Spare(s)
    BY <1>4, <2>1 DEF Spare
  <2> QED BY <1>6, <2>2, SpareIn
<1>9. MaskInv(s)
  BY <1>2, BinBits DEF MaskInv
<1>f. PICK F : F = {}
  OBVIOUS
<1>10. ListInv(s.nodes, s.binIndices, F)
  <2>1. [x \in NodeIndex |-> 0] \in Ranks
    BY DEF Ranks
  <2>2. ListOrder(s.nodes, F, [x \in NodeIndex |-> 0])
    BY <1>f DEF ListOrder
  <2>3. ListLinks(s.nodes, s.binIndices, F)
    BY <1>2, <1>f DEF ListLinks
  <2> QED BY <2>1, <2>2, <2>3 DEF ListInv
<1>11. BinInv(s, F)
  BY <1>2, <1>6, <1>7, <1>9, <1>10, <1>f, SumEmpty DEF BinInv
<1>12. PICK n : n = SpareNode(s)
  OBVIOUS
<1>e. PICK E : E = F \cup {n}
  OBVIOUS
<1>13. Size \in Nat /\ uintToFloatRoundDown(Size) \in Bins /\ 0 \in Nat
  BY ConstantFacts, SizeBins
<1>14. /\ BinInv(t, E) /\ n \in NodeIndex /\ Spare(t) = Spare(s) \ {n}
       /\ t.nodes[n].dataOffset = 0 /\ t.nodes[n].dataSize = Size
       /\ t.nodes[n].neighborPrev = unused /\ t.nodes[n].neighborNext = unused
       /\ ~t.nodes[n].used
  <2>1. Inserted(s, F, Size, 0, n, t, E)
    BY <1>1, <1>4, <1>11, <1>12, <1>13, <1>e DEF Inserted
  <2> QED BY <2>1, InsertStep
<1>u. PICK U : U = RegionsOf(t)
  OBVIOUS
<1>15. U = {n} /\ U \in SUBSET NodeIndex
  BY <1>8, <1>14, <1>u DEF RegionsOf
<1>16. E = FreeOf(t) /\ E = {n}
  BY <1>14, <1>15, <1>e, <1>f, <1>u DEF FreeOf
<1>17. SizeSum(t.nodes, U) = Size
  <2>1. ShapeInv(t)
    BY <1>14 DEF BinInv
  <2>2. IsFiniteSet(U) /\ Sizes(t.nodes, U)
    BY <1>15, <2>1, FreeFinite
  <2>3. SizeSum(t.nodes, U) = t.nodes[n].dataSize + SizeSum(t.nodes, F)
    BY <1>15, <1>f, <2>2, SumAdd
  <2> QED BY <1>13, <1>14, <1>f, <2>3, SumEmpty
<1>18. ChainInv(t.nodes, U)
  <2>1. EndOf(t.nodes[n]) = Size
    BY <1>13, <1>14 DEF EndOf
  <2>2. LinkInv(t.nodes, U)
    BY <1>14, <1>15, <2>1 DEF LinkInv
  <2>3. PICK rank : rank = [x \in NodeIndex |-> 0]
    OBVIOUS
  <2>4. rank \in Ranks /\ rank[n] = 0
    BY <1>14, <2>3 DEF Ranks
  <2>5. InOrder(t.nodes, U, rank)
    BY <1>14, <1>15, <2>4 DEF InOrder
  <2> QED BY <1>13, <1>15, <2>1, <2>2, <2>4, <2>5 DEF ChainInv
<1>19. AllocatorInv(t)
  BY <1>14, <1>16, <1>17, <1>18, <1>u, PartsMake
<1> QED BY <1>14, <1>15, <1>19, <1>u

-----------------------------------------------------------------------------
\* What an allocation of node n does to the regions U that are in use.
Given(s, t, U, n, size) ==
  /\ n \in U /\ ~s.nodes[n].used /\ size <= s.nodes[n].dataSize
  /\ t.nodes[n].dataOffset = s.nodes[n].dataOffset /\ t.nodes[n].dataSize = size
  /\ U \subseteq RegionsOf(t)
  /\ {x \in RegionsOf(t) : t.nodes[x].used} = {x \in U : s.nodes[x].used} \cup {n}
  /\ \A x \in U \ {n} : SameSpan(t.nodes[x], s.nodes[x])

\* The step of allocate, without the client's part.
Allocates(s, size, bin, n, taken, remainder, t) ==
  /\ CanAllocate(s, size) /\ bin = FindBin(s, size) /\ n = s.binIndices[bin]
  /\ taken = TakeNode(s, n, bin, size)
  /\ remainder = s.nodes[n].dataSize - size
  /\ t = IF remainder > 0 THEN SplitRemainder(taken, n, remainder) ELSE taken

LEMMA AllocateStep ==
  ASSUME NEW s, AllocatorInv(s), NEW U, U = RegionsOf(s), NEW size \in RequestSizes,
         NEW bin, NEW n, NEW taken, NEW remainder, NEW t,
         Allocates(s, size, bin, n, taken, remainder, t)
  PROVE  AllocatorInv(t) /\ Given(s, t, U, n, size)
<1>f. PICK F : F = FreeOf(s)
  OBVIOUS
<1>1. Parts(s, U, F)
  BY <1>f, PartsOf
<1>2. /\ BinInv(s, F) /\ U \in SUBSET NodeIndex /\ F \in SUBSET U
      /\ IsFiniteSet(U) /\ Sizes(s.nodes, U) /\ Spans(s.nodes, U)
      /\ unused \notin U /\ ChainInv(s.nodes, U) /\ SizeSum(s.nodes, U) = Size
      /\ \A x \in U : /\ s.nodes[x].dataOffset \in Nat
                      /\ s.nodes[x].dataSize \in 0 .. Size /\ s.nodes[x].dataSize \in UINT32
                      /\ (x \in F) <=> ~s.nodes[x].used
      /\ \A x \in F : s.nodes[x].neighborNext # unused => s.nodes[s.nodes[x].neighborNext].used
  BY <1>1 DEF Parts
<1>3. size \in UINT32 /\ size \in Nat /\ uintToFloatRoundUp(size) \in Bins
  BY RequestBins
<1>4. bin \in Bins /\ n # unused /\ bin >= uintToFloatRoundUp(size) /\ s.freeOffset # 0
  BY <1>2, <1>3, FindBinFacts DEF CanAllocate, BinInv, Allocates
<1>e. PICK E : E = F \ {n}
  OBVIOUS
<1>5. /\ n \in F /\ uintToFloatRoundDown(s.nodes[n].dataSize) = bin
      /\ BinInv(taken, E) /\ Spare(taken) = Spare(s) /\ taken.freeOffset = s.freeOffset
      /\ taken.nodes[n].dataOffset = s.nodes[n].dataOffset /\ taken.nodes[n].dataSize = size
      /\ taken.nodes[n].used
      /\ taken.nodes[n].neighborPrev = s.nodes[n].neighborPrev
      /\ taken.nodes[n].neighborNext = s.nodes[n].neighborNext
      /\ \A x \in NodeIndex \ {n} : SameRegion(taken.nodes[x], s.nodes[x])
  <2>1. taken = TakeNode(s, n, bin, size)
    BY DEF Allocates
  <2>2. n = s.binIndices[bin]
    BY DEF Allocates
  <2>3. BinInv(s, F)
    BY <1>2
  <2>4. size \in Nat
    BY <1>3
  <2>5. bin \in Bins
    BY <1>4
  <2>6. n # unused
    BY <1>4
  <2>7. Taken(s, F, bin, n, size, taken, E)
    BY <1>e, <2>1, <2>2, <2>3, <2>4, <2>5, <2>6 DEF Taken
  <2> QED BY <2>7, TakeStep
<1>6. n \in U /\ n \in NodeIndex /\ ~s.nodes[n].used
  BY <1>2, <1>5
<1>7. s.nodes[n].dataSize >= size
  BY <1>2, <1>3, <1>4, <1>5, <1>6, FitsEverySize
<1>8. remainder \in 0 .. Size /\ s.nodes[n].dataSize = size + remainder
      /\ s.nodes[n].dataSize \in Nat /\ s.nodes[n].dataOffset \in Nat
  <2>1. remainder = s.nodes[n].dataSize - size
    BY DEF Allocates
  <2>2. s.nodes[n].dataSize \in 0 .. Size /\ s.nodes[n].dataOffset \in Nat
    BY <1>2, <1>6
  <2>3. size \in Nat /\ Size \in Nat
    BY <1>3, ConstantFacts
  <2> QED BY <1>7, <2>1, <2>2, <2>3
<1>9. \A x \in U : s.nodes[x].neighborNext # unused => s.nodes[x].neighborNext \in U
  <2>1. LinkInv(s.nodes, U)
    BY <1>2 DEF ChainInv
  <2> QED BY <2>1 DEF LinkInv
<1>10. \A x \in NodeIndex : x \in U <=> x \notin Spare(s)
  BY DEF RegionsOf
\* Every other region is as it was.
<1>13. \A x \in U : x # n =>
         /\ x \in NodeIndex
         /\ taken.nodes[x].dataOffset = s.nodes[x].dataOffset
         /\ taken.nodes[x].dataSize = s.nodes[x].dataSize
         /\ taken.nodes[x].used = s.nodes[x].used
         /\ taken.nodes[x].neighborPrev = s.nodes[x].neighborPrev
         /\ taken.nodes[x].neighborNext = s.nodes[x].neighborNext
  <2> SUFFICES ASSUME NEW x \in U, x # n
               PROVE  x \in NodeIndex /\ SameRegion(taken.nodes[x], s.nodes[x])
    BY DEF SameRegion
  <2> QED BY <1>2, <1>5
<1>11. CASE remainder > 0
  <2>1. t = SplitRemainder(taken, n, remainder)
    BY <1>11 DEF Allocates
  <2>n. PICK new : new = SpareNode(taken)
    OBVIOUS
  <2>q. PICK q : q = taken.nodes[n].neighborNext
    OBVIOUS
  <2>g. PICK G : G = E \cup {new}
    OBVIOUS
  <2>2. remainder \in Nat /\ uintToFloatRoundDown(remainder) \in Bins
        /\ n \notin Spare(taken) /\ taken.freeOffset # 0
    BY <1>4, <1>5, <1>6, <1>8, <1>10, SizeBins
  <2>3. /\ BinInv(t, G)
        /\ new \in Spare(taken) /\ new \in NodeIndex /\ Spare(t) = Spare(taken) \ {new}
        /\ t.nodes[new].dataOffset = taken.nodes[n].dataOffset + taken.nodes[n].dataSize
        /\ t.nodes[new].dataSize = remainder /\ ~t.nodes[new].used
        /\ t.nodes[new].neighborPrev = n /\ t.nodes[new].neighborNext = q
        /\ \A x \in NodeIndex \ {new} :
             /\ SameSpan(t.nodes[x], taken.nodes[x])
             /\ t.nodes[x].neighborPrev = IF x = q THEN new ELSE taken.nodes[x].neighborPrev
             /\ t.nodes[x].neighborNext = IF x = n THEN new ELSE taken.nodes[x].neighborNext
    BY <1>5, <1>6, <2>1, <2>n, <2>q, <2>g, <2>2, SplitStep
  <2>v. PICK V : V = RegionsOf(t)
    OBVIOUS
  <2>4. new \notin U /\ V = U \cup {new} /\ U = V \ {new} /\ V \in SUBSET NodeIndex
    BY <1>2, <1>5, <1>10, <2>3, <2>v DEF RegionsOf
  <2>5. /\ q = s.nodes[n].neighborNext
        /\ t.nodes[new].dataOffset = s.nodes[n].dataOffset + size
        /\ \A x \in U :
             /\ t.nodes[x].dataOffset = s.nodes[x].dataOffset
             /\ t.nodes[x].dataSize = IF x = n THEN size ELSE s.nodes[x].dataSize
             /\ t.nodes[x].used = IF x = n THEN taken.nodes[n].used ELSE s.nodes[x].used
             /\ t.nodes[x].neighborPrev = IF x = q THEN new ELSE s.nodes[x].neighborPrev
             /\ t.nodes[x].neighborNext = IF x = n THEN new ELSE s.nodes[x].neighborNext
    <3>1. q = s.nodes[n].neighborNext
      BY <1>5, <2>q
    <3>2. t.nodes[new].dataOffset = s.nodes[n].dataOffset + size
      BY <1>5, <2>3
    <3> SUFFICES ASSUME NEW x \in U
                 PROVE /\ t.nodes[x].dataOffset = s.nodes[x].dataOffset
                       /\ t.nodes[x].dataSize = IF x = n THEN size ELSE s.nodes[x].dataSize
                       /\ t.nodes[x].used = IF x = n THEN taken.nodes[n].used ELSE s.nodes[x].used
                       /\ t.nodes[x].neighborPrev = IF x = q THEN new ELSE s.nodes[x].neighborPrev
                       /\ t.nodes[x].neighborNext = IF x = n THEN new ELSE s.nodes[x].neighborNext
      BY <3>1, <3>2
    <3>3. x \in NodeIndex \ {new}
      BY <1>2, <2>4
    <3>4. /\ SameSpan(t.nodes[x], taken.nodes[x])
          /\ t.nodes[x].neighborPrev = IF x = q THEN new ELSE taken.nodes[x].neighborPrev
          /\ t.nodes[x].neighborNext = IF x = n THEN new ELSE taken.nodes[x].neighborNext
      BY <2>3, <3>3
    <3>5. CASE x = n
      BY <1>5, <3>4, <3>5 DEF SameSpan
    <3>6. CASE x # n
      BY <1>13, <3>4, <3>6 DEF SameSpan
    <3> QED BY <3>5, <3>6
  <2>6. ChainInv(t.nodes, V)
    <3>1. SplitOf(s.nodes, t.nodes, U, V, n, new, q, size)
      BY <1>3, <1>6, <1>7, <1>8, <2>3, <2>4, <2>5 DEF SplitOf
    <3> QED BY <1>2, <3>1, ChainSplit
  <2>7. SizeSum(t.nodes, V) = Size
    <3>1. IsFiniteSet(V) /\ Sizes(t.nodes, V)
      BY <2>3, <2>4, FreeFinite DEF BinInv
    <3>2. s.nodes[n].dataSize = t.nodes[n].dataSize + t.nodes[new].dataSize
      BY <1>6, <1>8, <2>3, <2>5
    <3>3. \A x \in U \ {n} : s.nodes[x].dataSize = t.nodes[x].dataSize
      BY <2>5
    <3>4. SizeSum(s.nodes, U) = SizeSum(t.nodes, V)
      BY <1>6, <2>4, <3>1, <3>2, <3>3, SumMerge
    <3> QED BY <1>2, <3>4
  <2>14. \A x \in V : (x \in G) <=> ~t.nodes[x].used
    <3> SUFFICES ASSUME NEW x \in V PROVE (x \in G) <=> ~t.nodes[x].used
      OBVIOUS
    <3>1. CASE x = new
      BY <2>g, <2>3, <3>1
    <3>2. CASE x = n
      <4>1. t.nodes[n].used = taken.nodes[n].used
        BY <1>6, <2>5
      <4> QED BY <1>5, <1>6, <1>e, <2>g, <2>4, <3>2, <4>1
    <3>3. CASE x # new /\ x # n
      <4>1. x \in U /\ t.nodes[x].used = s.nodes[x].used
        BY <2>4, <2>5, <3>3
      <4>2. (x \in F) <=> ~s.nodes[x].used
        BY <1>2, <4>1
      <4> QED BY <1>e, <2>g, <3>3, <4>1, <4>2
    <3> QED BY <3>1, <3>2, <3>3
  <2>8. G = FreeOf(t)
    <3>1. G \subseteq V
      BY <1>2, <1>e, <2>g, <2>4
    <3> QED BY <2>14, <2>v, <3>1 DEF FreeOf
  \* A region that was in use before is used if it was, or if it is the one given.
  <2>15. \A y \in U : s.nodes[y].used => t.nodes[y].used
    BY <1>2, <1>e, <2>g, <2>4, <2>14
  <2>9. ASSUME NEW x \in G, t.nodes[x].neighborNext # unused
        PROVE  t.nodes[t.nodes[x].neighborNext].used
    <3>1. CASE x = new
      <4>1. t.nodes[x].neighborNext = s.nodes[n].neighborNext
        BY <2>3, <2>5, <3>1
      <4> QED BY <1>2, <1>5, <1>6, <1>9, <2>9, <2>15, <4>1
    <3>2. CASE x # new
      <4>1. x \in F /\ x # n /\ x \in U /\ t.nodes[x].neighborNext = s.nodes[x].neighborNext
        BY <1>2, <1>e, <2>g, <2>5, <3>2
      <4> QED BY <1>2, <1>9, <2>9, <2>15, <4>1
    <3> QED BY <3>1, <3>2
  <2>10. AllocatorInv(t)
    BY <2>v, <2>3, <2>6, <2>7, <2>8, <2>9, PartsMake
  <2>11. {x \in V : t.nodes[x].used} = {x \in U : s.nodes[x].used} \cup {n}
    <3>1. \A x \in V : t.nodes[x].used <=> (x = n \/ (x \in U /\ s.nodes[x].used))
      BY <1>2, <1>6, <1>e, <2>g, <2>4, <2>14
    <3> QED BY <1>6, <2>4, <3>1
  <2>12. \A x \in U \ {n} : SameSpan(t.nodes[x], s.nodes[x])
    BY <1>5, <1>2, <2>3, <2>4 DEF SameSpan, SameRegion
  <2>13. t.nodes[n].dataOffset = s.nodes[n].dataOffset /\ t.nodes[n].dataSize = size
    BY <1>6, <2>5
  <2> QED BY <1>6, <1>7, <1>3, <1>8, <2>v, <2>4, <2>10, <2>11, <2>12, <2>13 DEF Given
<1>12. CASE ~(remainder > 0)
  <2>1. t = taken /\ s.nodes[n].dataSize = size
    BY <1>3, <1>8, <1>12 DEF Allocates
  <2>v. PICK V : V = RegionsOf(t)
    OBVIOUS
  <2>2. V = U
    BY <1>5, <2>1, <2>v DEF RegionsOf
  <2>3. \A x \in U :
          /\ t.nodes[x].dataOffset = s.nodes[x].dataOffset
          /\ t.nodes[x].dataSize = s.nodes[x].dataSize
          /\ t.nodes[x].used <=> (x = n \/ s.nodes[x].used)
          /\ t.nodes[x].neighborPrev = s.nodes[x].neighborPrev
          /\ t.nodes[x].neighborNext = s.nodes[x].neighborNext
    BY <1>2, <1>5, <2>1 DEF SameRegion
  <2>4. ChainInv(t.nodes, V)
    <3>1. SameChain(s.nodes, t.nodes, U)
      BY <2>3 DEF SameChain
    <3> QED BY <1>2, <2>2, <3>1, ChainSame
  <2>5. SizeSum(t.nodes, V) = Size
    <3>1. SizeSum(s.nodes, U) = SizeSum(t.nodes, U)
      BY <1>2, <2>3, SumSame
    <3> QED BY <1>2, <2>2, <3>1
  <2>6. E = FreeOf(t)
    BY <1>2, <1>e, <2>v, <2>2, <2>3 DEF FreeOf
  <2>7. ASSUME NEW x \in E, t.nodes[x].neighborNext # unused
        PROVE  t.nodes[t.nodes[x].neighborNext].used
    BY <1>2, <1>9, <1>e, <2>3, <2>7
  <2>8. AllocatorInv(t)
    BY <1>5, <2>v, <2>1, <2>4, <2>5, <2>6, <2>7, PartsMake
  <2>9. {x \in V : t.nodes[x].used} = {x \in U : s.nodes[x].used} \cup {n}
    BY <1>6, <2>2, <2>3
  <2>10. \A x \in U \ {n} : SameSpan(t.nodes[x], s.nodes[x])
    BY <1>5, <1>2, <2>1 DEF SameSpan, SameRegion
  <2> QED BY <1>3, <1>5, <1>6, <1>7, <1>8, <2>v, <2>1, <2>2, <2>8, <2>9, <2>10 DEF Given
<1> QED BY <1>11, <1>12

-----------------------------------------------------------------------------
\* Two neighbours as one region, in the order and the sum of all.
Mergeable(f, U, V, a, b, k, d) ==
  /\ U \in SUBSET NodeIndex /\ ChainInv(f, U) /\ Spans(f, U)
  /\ a \in U /\ b \in U /\ f[a].neighborNext = b /\ a # b
  /\ (k = a /\ d = b) \/ (k = b /\ d = a)
  /\ V = U \ {d}

LEMMA MergeExists ==
  ASSUME NEW f, NEW U, NEW V, NEW a, NEW b, NEW k, NEW d, Mergeable(f, U, V, a, b, k, d)
  PROVE  \E g : /\ MergeOf(f, g, U, V, a, b, k, d)
                /\ ChainInv(g, V) /\ Spans(g, V) /\ SizeSum(g, V) = SizeSum(f, U)
<1>0. /\ U \in SUBSET NodeIndex /\ ChainInv(f, U) /\ Spans(f, U)
      /\ a \in U /\ b \in U /\ f[a].neighborNext = b /\ a # b
      /\ (k = a /\ d = b) \/ (k = b /\ d = a)
      /\ V = U \ {d}
  BY DEF Mergeable
<1> USE <1>0
<1>1. PICK g : g = [x \in NodeIndex |->
               [dataOffset |-> IF x = k THEN f[a].dataOffset ELSE f[x].dataOffset,
                dataSize |-> IF x = k THEN f[a].dataSize + f[b].dataSize ELSE f[x].dataSize,
                neighborPrev |-> IF x = k THEN f[a].neighborPrev
                                 ELSE IF x = f[b].neighborNext THEN k ELSE f[x].neighborPrev,
                neighborNext |-> IF x = k THEN f[b].neighborNext
                                 ELSE IF x = f[a].neighborPrev THEN k ELSE f[x].neighborNext]]
  OBVIOUS
<1>2. \A x \in NodeIndex :
        /\ g[x].dataOffset = IF x = k THEN f[a].dataOffset ELSE f[x].dataOffset
        /\ g[x].dataSize = IF x = k THEN f[a].dataSize + f[b].dataSize ELSE f[x].dataSize
        /\ g[x].neighborPrev = IF x = k THEN f[a].neighborPrev
                               ELSE IF x = f[b].neighborNext THEN k ELSE f[x].neighborPrev
        /\ g[x].neighborNext = IF x = k THEN f[b].neighborNext
                               ELSE IF x = f[a].neighborPrev THEN k ELSE f[x].neighborNext
  BY <1>1
<1> HIDE <1>1
<1>3. k \in U /\ d \in U /\ k # d /\ V \subseteq U
  OBVIOUS
<1>4. MergeOf(f, g, U, V, a, b, k, d)
  BY <1>2, <1>3 DEF MergeOf
<1>5. ChainInv(g, V) /\ Spans(g, V)
  BY <1>4, ChainMerge
<1>6. SizeSum(g, V) = SizeSum(f, U)
  <2>1. IsFiniteSet(U)
    BY ConstantFacts, FS_Subset
  <2>2. Sizes(f, U)
    BY DEF Sizes, Spans
  <2>3. g[k].dataSize = f[a].dataSize + f[b].dataSize
    BY <1>2, <1>3
  <2>4. f[a].dataSize + f[b].dataSize = f[k].dataSize + f[d].dataSize
    BY <2>2 DEF Sizes
  <2>5. \A x \in V \ {k} : g[x].dataSize = f[x].dataSize
    BY <1>2, <1>3
  <2> QED BY <1>3, <2>1, <2>2, <2>3, <2>4, <2>5, SumMerge
<1> QED BY <1>4, <1>5, <1>6

\* The regions V, as f has them but that n is the region of that size and offset
\* between p and q.
Became(f, g, V, n, size, offset, p, q) ==
  /\ V \in SUBSET NodeIndex /\ n \in V
  /\ ChainInv(g, V) /\ Spans(g, V) /\ SizeSum(g, V) = Size
  /\ g[n].dataOffset = offset /\ g[n].dataSize = size
  /\ g[n].neighborPrev = p /\ g[n].neighborNext = q
  /\ \A x \in V \ {n} :
       /\ g[x].dataOffset = f[x].dataOffset /\ g[x].dataSize = f[x].dataSize
       /\ g[x].neighborPrev = IF x = q THEN n ELSE f[x].neighborPrev
       /\ g[x].neighborNext = IF x = p THEN n ELSE f[x].neighborNext

\* Where p and q, and what is beyond them, are in the order of the regions.
Around(f, U, n, p, q) ==
  /\ U \in SUBSET NodeIndex /\ n \in U /\ unused \notin U
  /\ p = f[n].neighborPrev /\ q = f[n].neighborNext
  /\ p # n /\ q # n /\ (p # q \/ p = unused)
  /\ p # unused => /\ p \in U /\ f[p].neighborNext = n
                   /\ f[p].neighborPrev # n
                   /\ f[p].neighborPrev # q \/ f[p].neighborPrev = unused
                   /\ f[p].neighborPrev # p
                   /\ f[p].neighborPrev # unused =>
                        /\ f[p].neighborPrev \in U
                        /\ f[f[p].neighborPrev].neighborNext = p
                   /\ EndOf(f[p]) = f[n].dataOffset
  /\ q # unused => /\ q \in U /\ f[q].neighborPrev = n
                   /\ f[q].neighborNext # n
                   /\ f[q].neighborNext # p \/ f[q].neighborNext = unused
                   /\ f[q].neighborNext # q
                   /\ f[q].neighborNext # unused =>
                        /\ f[q].neighborNext \in U
                        /\ f[f[q].neighborNext].neighborPrev = q
                   /\ EndOf(f[n]) = f[q].dataOffset

LEMMA AroundFacts ==
  ASSUME NEW f, NEW U \in SUBSET NodeIndex, unused \notin U, ChainInv(f, U), NEW n \in U,
         NEW p, p = f[n].neighborPrev, NEW q, q = f[n].neighborNext
  PROVE  Around(f, U, n, p, q)
<1>1. LinkInv(f, U)
  BY DEF ChainInv
<1>2. PICK rank \in Ranks : InOrder(f, U, rank)
  BY DEF ChainInv
<1>3. /\ \A x \in U : rank[x] \in Nat
      /\ \A x \in U : f[x].neighborNext # unused =>
           /\ f[x].neighborNext \in U /\ rank[x] < rank[f[x].neighborNext]
           /\ f[f[x].neighborNext].neighborPrev = x
      /\ \A x \in U : f[x].neighborPrev # unused =>
           /\ f[x].neighborPrev \in U /\ rank[f[x].neighborPrev] < rank[x]
           /\ f[f[x].neighborPrev].neighborNext = x
  BY <1>1, <1>2, OrderFacts
<1>4. p # unused => p \in U /\ f[p].neighborNext = n /\ rank[p] < rank[n] /\ rank[p] \in Nat
  BY <1>3
<1>5. q # unused => q \in U /\ f[q].neighborPrev = n /\ rank[n] < rank[q] /\ rank[q] \in Nat
  BY <1>3
<1>6. p # unused => EndOf(f[p]) = f[n].dataOffset
  BY <1>1 DEF LinkInv
<1>7. q # unused => EndOf(f[n]) = f[q].dataOffset
  BY <1>1, <1>3, <1>5 DEF LinkInv
<1>8. p # unused /\ f[p].neighborPrev # unused =>
        /\ f[p].neighborPrev \in U /\ f[f[p].neighborPrev].neighborNext = p
        /\ rank[f[p].neighborPrev] < rank[p] /\ rank[f[p].neighborPrev] \in Nat
  BY <1>3, <1>4
<1>9. q # unused /\ f[q].neighborNext # unused =>
        /\ f[q].neighborNext \in U /\ f[f[q].neighborNext].neighborPrev = q
        /\ rank[q] < rank[f[q].neighborNext] /\ rank[f[q].neighborNext] \in Nat
  BY <1>3, <1>5
<1>10. rank[n] \in Nat
  BY <1>3
<1>11. p # n /\ q # n /\ (p # q \/ p = unused)
  BY <1>4, <1>5, <1>10
<1>12. ASSUME p # unused
       PROVE  /\ f[p].neighborPrev # n
              /\ f[p].neighborPrev # q \/ f[p].neighborPrev = unused
              /\ f[p].neighborPrev # p
  BY <1>4, <1>5, <1>8, <1>10, <1>12
<1>13. ASSUME q # unused
       PROVE  /\ f[q].neighborNext # n
              /\ f[q].neighborNext # p \/ f[q].neighborNext = unused
              /\ f[q].neighborNext # q
  BY <1>4, <1>5, <1>9, <1>10, <1>13
<1> QED BY <1>4, <1>5, <1>6, <1>7, <1>8, <1>9, <1>11, <1>12, <1>13 DEF Around

LEMMA MergeWithPrev ==
  ASSUME NEW f, NEW U, ChainInv(f, U), Spans(f, U), SizeSum(f, U) = Size,
         NEW n, NEW p, NEW q, Around(f, U, n, p, q), p # unused, NEW V, V = U \ {p}
  PROVE  \E g : Became(f, g, V, n, f[p].dataSize + f[n].dataSize, f[p].dataOffset,
                       f[p].neighborPrev, q)
<1>1. /\ U \in SUBSET NodeIndex /\ n \in U /\ unused \notin U /\ q = f[n].neighborNext
      /\ p # n /\ p \in U /\ f[p].neighborNext = n
      /\ q # unused => f[q].neighborPrev = n
  BY DEF Around
<1>2. PICK g : /\ MergeOf(f, g, U, V, p, n, n, p)
               /\ ChainInv(g, V) /\ Spans(g, V) /\ SizeSum(g, V) = SizeSum(f, U)
  <2>1. Mergeable(f, U, V, p, n, n, p)
    BY <1>1 DEF Mergeable
  <2> QED BY <2>1, MergeExists
<1>3. /\ g[n].dataOffset = f[p].dataOffset /\ g[n].dataSize = f[p].dataSize + f[n].dataSize
      /\ g[n].neighborPrev = f[p].neighborPrev /\ g[n].neighborNext = q
      /\ \A x \in V \ {n} :
           /\ g[x].dataOffset = f[x].dataOffset /\ g[x].dataSize = f[x].dataSize
           /\ g[x].neighborPrev = IF x = q THEN n ELSE f[x].neighborPrev
           /\ g[x].neighborNext = IF x = f[p].neighborPrev THEN n ELSE f[x].neighborNext
  BY <1>1, <1>2 DEF MergeOf
<1>4. V \in SUBSET NodeIndex /\ n \in V
  BY <1>1
<1> QED BY <1>2, <1>3, <1>4 DEF Became

LEMMA MergeWithNext ==
  ASSUME NEW f, NEW h, NEW V, NEW n, NEW size, NEW offset, NEW p, NEW q,
         Became(f, h, V, n, size, offset, p, q), q \in V, q # n, q # p,
         NEW W, W = V \ {q}
  PROVE  \E g : Became(f, g, W, n, size + f[q].dataSize, offset, p, f[q].neighborNext)
<1>1. /\ V \in SUBSET NodeIndex /\ n \in V
      /\ ChainInv(h, V) /\ Spans(h, V) /\ SizeSum(h, V) = Size
      /\ h[n].dataOffset = offset /\ h[n].dataSize = size
      /\ h[n].neighborPrev = p /\ h[n].neighborNext = q
      /\ \A x \in V \ {n} :
           /\ h[x].dataOffset = f[x].dataOffset /\ h[x].dataSize = f[x].dataSize
           /\ h[x].neighborPrev = IF x = q THEN n ELSE f[x].neighborPrev
           /\ h[x].neighborNext = IF x = p THEN n ELSE f[x].neighborNext
  BY DEF Became
<1>2. PICK g : /\ MergeOf(h, g, V, W, n, q, n, q)
               /\ ChainInv(g, W) /\ Spans(g, W) /\ SizeSum(g, W) = SizeSum(h, V)
  <2>1. Mergeable(h, V, W, n, q, n, q)
    BY <1>1 DEF Mergeable
  <2> QED BY <2>1, MergeExists
<1>3. h[q].dataSize = f[q].dataSize /\ h[q].neighborNext = f[q].neighborNext
  BY <1>1
<1>4. /\ g[n].dataOffset = offset /\ g[n].dataSize = size + f[q].dataSize
      /\ g[n].neighborPrev = p /\ g[n].neighborNext = f[q].neighborNext
      /\ \A x \in W \ {n} :
           /\ g[x].dataOffset = h[x].dataOffset /\ g[x].dataSize = h[x].dataSize
           /\ g[x].neighborPrev = IF x = f[q].neighborNext THEN n ELSE h[x].neighborPrev
           /\ g[x].neighborNext = IF x = p THEN n ELSE h[x].neighborNext
  BY <1>1, <1>2, <1>3 DEF MergeOf
<1>5. \A x \in W \ {n} :
        /\ g[x].dataOffset = f[x].dataOffset /\ g[x].dataSize = f[x].dataSize
        /\ g[x].neighborPrev = IF x = f[q].neighborNext THEN n ELSE f[x].neighborPrev
        /\ g[x].neighborNext = IF x = p THEN n ELSE f[x].neighborNext
  BY <1>1, <1>4
<1>6. W \in SUBSET NodeIndex /\ n \in W
  BY <1>1
<1> QED BY <1>1, <1>2, <1>4, <1>5, <1>6 DEF Became

\* The step of free, without the client's part.
Frees(s, n, p, q, size, offset, t) ==
  /\ p = s.nodes[n].neighborPrev /\ q = s.nodes[n].neighborNext
  /\ offset = IF IsFree(s, p) THEN s.nodes[p].dataOffset ELSE s.nodes[n].dataOffset
  /\ size = s.nodes[n].dataSize + (IF IsFree(s, p) THEN s.nodes[p].dataSize ELSE 0)
                                + (IF IsFree(s, q) THEN s.nodes[q].dataSize ELSE 0)
  /\ t = InsertCombined(MergeNext(MergePrev(s, n), n), n, size, offset)

\* The node array with the neighbours of n that are free merged with it.
Merged(s, f, U, n, p, q, size, offset, t, pp, qq, D, V) ==
  /\ f = s.nodes /\ ChainInv(f, U) /\ Spans(f, U) /\ SizeSum(f, U) = Size
  /\ Around(f, U, n, p, q) /\ Frees(s, n, p, q, size, offset, t)
  /\ pp = (IF IsFree(s, p) THEN f[p].neighborPrev ELSE p)
  /\ qq = (IF IsFree(s, q) THEN f[q].neighborNext ELSE q)
  /\ D = {x \in {p, q} : IsFree(s, x)} /\ V = U \ D

\* With neither neighbour merged, the array is as it was.
LEMMA Unmerged ==
  ASSUME NEW f, NEW U, NEW n, NEW p, NEW q,
         ChainInv(f, U), Spans(f, U), SizeSum(f, U) = Size, U \in SUBSET NodeIndex, n \in U,
         p = f[n].neighborPrev, q = f[n].neighborNext,
         \A x \in U \ {n} :
           /\ f[x].neighborPrev = IF x = q THEN n ELSE f[x].neighborPrev
           /\ f[x].neighborNext = IF x = p THEN n ELSE f[x].neighborNext
  PROVE  Became(f, f, U, n, f[n].dataSize, f[n].dataOffset, p, q)
BY DEF Became

LEMMA FreedChain ==
  ASSUME NEW s, NEW f, NEW U, NEW n, NEW p, NEW q, NEW size, NEW offset, NEW t,
         NEW pp, NEW qq, NEW D, NEW V, Merged(s, f, U, n, p, q, size, offset, t, pp, qq, D, V)
  PROVE  \E g : Became(f, g, V, n, size, offset, pp, qq)
<1>0. /\ f = s.nodes /\ ChainInv(f, U) /\ Spans(f, U) /\ SizeSum(f, U) = Size
      /\ Around(f, U, n, p, q) /\ Frees(s, n, p, q, size, offset, t)
      /\ pp = (IF IsFree(s, p) THEN f[p].neighborPrev ELSE p)
      /\ qq = (IF IsFree(s, q) THEN f[q].neighborNext ELSE q)
      /\ D = {x \in {p, q} : IsFree(s, x)} /\ V = U \ D
  BY DEF Merged
<1> USE <1>0
<1>1. /\ offset = IF IsFree(s, p) THEN f[p].dataOffset ELSE f[n].dataOffset
      /\ size = f[n].dataSize + (IF IsFree(s, p) THEN f[p].dataSize ELSE 0)
                              + (IF IsFree(s, q) THEN f[q].dataSize ELSE 0)
  BY DEF Frees
<1>2. /\ U \in SUBSET NodeIndex /\ n \in U /\ unused \notin U
      /\ p = f[n].neighborPrev /\ q = f[n].neighborNext
      /\ p # n /\ q # n /\ (p # q \/ p = unused)
      /\ p # unused => p \in U /\ f[p].neighborNext = n /\ f[p].neighborPrev # n
      /\ q # unused => q \in U /\ f[q].neighborPrev = n
      /\ p # unused /\ q # unused => q # f[p].neighborPrev
  BY DEF Around
<1>3. \A x \in U : f[x].dataOffset \in Nat /\ f[x].dataSize \in Nat
  BY DEF Spans
<1>4. (IsFree(s, p) => p # unused) /\ (IsFree(s, q) => q # unused)
  BY DEF IsFree
<1>5. PICK V1 : V1 = IF IsFree(s, p) THEN U \ {p} ELSE U
  OBVIOUS
<1>6. PICK size1 : size1 = IF IsFree(s, p) THEN f[p].dataSize + f[n].dataSize ELSE f[n].dataSize
  OBVIOUS
<1>7. PICK h : Became(f, h, V1, n, size1, offset, pp, q)
  <2>1. CASE IsFree(s, p)
    <3>1. V1 = U \ {p} /\ size1 = f[p].dataSize + f[n].dataSize /\ offset = f[p].dataOffset
          /\ pp = f[p].neighborPrev /\ p # unused
      BY <1>1, <1>4, <1>5, <1>6, <2>1
    <3>2. \E g : Became(f, g, V1, n, f[p].dataSize + f[n].dataSize, f[p].dataOffset,
                        f[p].neighborPrev, q)
      BY <3>1, MergeWithPrev
    <3> QED BY <3>1, <3>2
  <2>2. CASE ~IsFree(s, p)
    <3>1. V1 = U /\ size1 = f[n].dataSize /\ offset = f[n].dataOffset /\ pp = p
      BY <1>1, <1>5, <1>6, <2>2
    <3>2. \A x \in U \ {n} :
            /\ f[x].neighborPrev = IF x = q THEN n ELSE f[x].neighborPrev
            /\ f[x].neighborNext = IF x = p THEN n ELSE f[x].neighborNext
      BY <1>2
    <3>3. Became(f, f, U, n, f[n].dataSize, f[n].dataOffset, p, q)
      BY <1>2, <3>2, Unmerged
    <3>4. Became(f, f, V1, n, size1, offset, pp, q)
      BY ONLY <3>1, <3>3
    <3> QED BY <3>4
  <2> QED BY <2>1, <2>2
<1>8. CASE IsFree(s, q)
  <2>1. V = V1 \ {q}
    BY <1>5, <1>8
  <2>2. q \in V1 /\ q # n /\ q # pp
    <3>1. q \in U /\ q # n /\ q # p /\ q # unused
      BY <1>2, <1>4, <1>8
    <3>2. q # pp
      BY <1>2, <1>4, <3>1
    <3> QED BY <1>5, <3>1, <3>2
  <2>3. qq = f[q].neighborNext
    BY <1>8
  <2>4. size = size1 + f[q].dataSize
    <3>1. f[n].dataSize \in Nat /\ f[q].dataSize \in Nat
      BY <1>2, <1>3, <1>4, <1>8
    <3>2. CASE IsFree(s, p)
      <4>1. f[p].dataSize \in Nat
        BY <1>2, <1>3, <1>4, <3>2
      <4> QED BY <1>1, <1>6, <1>8, <3>1, <3>2, <4>1
    <3>3. CASE ~IsFree(s, p)
      BY <1>1, <1>6, <1>8, <3>1, <3>3
    <3> QED BY <3>2, <3>3
  <2>5. \E g : Became(f, g, V, n, size1 + f[q].dataSize, offset, pp, f[q].neighborNext)
    BY <1>7, <2>1, <2>2, MergeWithNext
  <2> QED BY <2>3, <2>4, <2>5
<1>9. CASE ~IsFree(s, q)
  <2>1. V = V1
    BY <1>5, <1>9
  <2>2. qq = q
    BY <1>9
  <2>3. size = size1
    <3>1. f[n].dataSize \in Nat
      BY <1>2, <1>3
    <3>2. CASE IsFree(s, p)
      <4>1. f[p].dataSize \in Nat
        BY <1>2, <1>3, <1>4, <3>2
      <4> QED BY <1>1, <1>6, <1>9, <3>1, <3>2, <4>1
    <3>3. CASE ~IsFree(s, p)
      BY <1>1, <1>6, <1>9, <3>1, <3>3
    <3> QED BY <3>2, <3>3
  <2> QED BY <1>7, <2>1, <2>2, <2>3
<1> QED BY <1>8, <1>9

\* What freeing node n does to the regions U that are in use.
Returned(s, t, U, n) ==
  /\ RegionsOf(t) \subseteq U
  /\ {x \in RegionsOf(t) : t.nodes[x].used} = {x \in U : s.nodes[x].used} \ {n}
  /\ \A x \in RegionsOf(t) \ {n} : SameSpan(t.nodes[x], s.nodes[x])

LEMMA ReturnStep ==
  ASSUME NEW s, AllocatorInv(s), NEW U, U = RegionsOf(s), NEW n \in U, s.nodes[n].used,
         NEW p, NEW q, NEW size, NEW offset, NEW t, Frees(s, n, p, q, size, offset, t)
  PROVE  AllocatorInv(t) /\ Returned(s, t, U, n)
<1>f. PICK F : F = FreeOf(s)
  OBVIOUS
<1>g. PICK f : f = s.nodes
  OBVIOUS
<1>1. Parts(s, U, F)
  BY <1>f, PartsOf
<1>2. /\ BinInv(s, F) /\ U \in SUBSET NodeIndex /\ F \in SUBSET U
      /\ IsFiniteSet(U) /\ Sizes(f, U) /\ Spans(f, U)
      /\ unused \notin U /\ ChainInv(f, U) /\ SizeSum(f, U) = Size
      /\ \A x \in U : /\ f[x].dataOffset \in Nat /\ f[x].dataSize \in Nat
                      /\ EndOf(f[x]) <= Size
                      /\ (x \in F) <=> ~f[x].used
      /\ \A x \in F : f[x].neighborNext # unused => f[f[x].neighborNext].used
  BY <1>1, <1>g, ConstantFacts DEF Parts
<1>3. /\ p = f[n].neighborPrev /\ q = f[n].neighborNext
      /\ offset = IF IsFree(s, p) THEN f[p].dataOffset ELSE f[n].dataOffset
      /\ size = f[n].dataSize + (IF IsFree(s, p) THEN f[p].dataSize ELSE 0)
                              + (IF IsFree(s, q) THEN f[q].dataSize ELSE 0)
      /\ t = InsertCombined(MergeNext(MergePrev(s, n), n), n, size, offset)
  BY <1>g DEF Frees
<1>4. Around(f, U, n, p, q)
  BY <1>2, <1>3, AroundFacts
<1>5. /\ p # n /\ q # n /\ (p # q \/ p = unused)
      /\ p # unused => /\ p \in U /\ f[p].neighborNext = n /\ f[p].neighborPrev # n
                       /\ EndOf(f[p]) = f[n].dataOffset
                       /\ f[p].neighborPrev # unused =>
                            /\ f[p].neighborPrev \in U /\ f[f[p].neighborPrev].neighborNext = p
      /\ q # unused => /\ q \in U /\ f[q].neighborPrev = n /\ f[q].neighborNext # n
                       /\ EndOf(f[n]) = f[q].dataOffset
                       /\ f[q].neighborNext # unused => f[q].neighborNext \in U
  BY <1>4 DEF Around
<1>6. /\ IsFree(s, p) => p \in F /\ p \in U /\ p # unused
      /\ IsFree(s, q) => q \in F /\ q \in U /\ q # unused
      /\ ~IsFree(s, p) => p \notin F
      /\ ~IsFree(s, q) => q \notin F
  BY <1>2, <1>5, <1>g DEF IsFree
<1>7. size \in Nat /\ offset \in Nat /\ offset + size <= Size
  <2>1. /\ f[n].dataOffset \in Nat /\ f[n].dataSize \in Nat
        /\ f[n].dataOffset + f[n].dataSize <= Size
    BY <1>2 DEF EndOf
  <2>2. IsFree(s, p) => /\ f[p].dataOffset \in Nat /\ f[p].dataSize \in Nat
                        /\ f[p].dataOffset + f[p].dataSize = f[n].dataOffset
    BY <1>2, <1>5, <1>6 DEF EndOf
  <2>3. IsFree(s, q) => /\ f[q].dataOffset \in Nat /\ f[q].dataSize \in Nat
                        /\ f[n].dataOffset + f[n].dataSize = f[q].dataOffset
                        /\ f[q].dataOffset + f[q].dataSize <= Size
    BY <1>2, <1>5, <1>6 DEF EndOf
  <2>4. PICK a : a = (IF IsFree(s, p) THEN f[p].dataSize ELSE 0)
    OBVIOUS
  <2>5. PICK b : b = (IF IsFree(s, q) THEN f[q].dataSize ELSE 0)
    OBVIOUS
  <2>6. size = f[n].dataSize + a + b
    BY <1>3, <2>4, <2>5
  <2>7. a \in Nat /\ offset \in Nat /\ offset + a = f[n].dataOffset
    <3>1. CASE IsFree(s, p)
      <4>1. a = f[p].dataSize /\ offset = f[p].dataOffset
        BY <1>3, <2>4, <3>1
      <4> QED BY <2>2, <3>1, <4>1
    <3>2. CASE ~IsFree(s, p)
      <4>1. a = 0 /\ offset = f[n].dataOffset
        BY <1>3, <2>4, <3>2
      <4> QED BY <2>1, <4>1
    <3> QED BY <3>1, <3>2
  <2>8. b \in Nat /\ f[n].dataOffset + f[n].dataSize + b <= Size
    BY <2>1, <2>3, <2>5
  <2> QED BY <2>1, <2>6, <2>7, <2>8, ConstantFacts
<1>8. uintToFloatRoundDown(size) \in Bins
  BY <1>7, SizeBins, ConstantFacts
<1>pp. PICK pp : pp = (IF IsFree(s, p) THEN f[p].neighborPrev ELSE p)
  OBVIOUS
<1>qq. PICK qq : qq = (IF IsFree(s, q) THEN f[q].neighborNext ELSE q)
  OBVIOUS
<1>d. PICK D : D = {x \in {p, q} : IsFree(s, x)}
  OBVIOUS
<1>e. PICK E : E = (F \ D) \cup {n}
  OBVIOUS
<1>9. pp # n /\ qq # n
  BY <1>5, <1>6, <1>pp, <1>qq
<1>10. n \in NodeIndex /\ n \notin F /\ n \notin Spare(s)
  BY <1>2, <1>g DEF RegionsOf
<1>11. /\ BinInv(t, E) /\ Spare(t) = Spare(s) \cup D
       /\ Combined(f, t.nodes, n, size, offset, pp, qq)
  <2>1. Freed(s, F, n, p, q, size, offset, pp, qq, D, E, t)
    BY <1>2, <1>3, <1>5, <1>6, <1>7, <1>8, <1>9, <1>10, <1>pp, <1>qq, <1>d, <1>e, <1>g DEF Freed
  <2> QED BY <2>1, <1>g, FreeStep
<1>v. PICK V : V = U \ D
  OBVIOUS
<1>12. V = RegionsOf(t) /\ V \subseteq U /\ n \in V
  <2>1. n \notin D
    BY <1>5, <1>d
  <2> QED BY <1>11, <1>v, <2>1 DEF RegionsOf
<1>13. PICK h : Became(f, h, V, n, size, offset, pp, qq)
  <2>1. Merged(s, f, U, n, p, q, size, offset, t, pp, qq, D, V)
    BY <1>2, <1>4, <1>d, <1>v, <1>g, <1>pp, <1>qq DEF Merged
  <2> QED BY <2>1, FreedChain
<1>14. /\ t.nodes[n].dataOffset = offset /\ t.nodes[n].dataSize = size /\ ~t.nodes[n].used
       /\ t.nodes[n].neighborPrev = pp /\ t.nodes[n].neighborNext = qq
       /\ \A x \in V : x # n =>
            /\ t.nodes[x].dataOffset = f[x].dataOffset /\ t.nodes[x].dataSize = f[x].dataSize
            /\ t.nodes[x].used = f[x].used
            /\ t.nodes[x].neighborPrev = IF x = qq THEN n ELSE f[x].neighborPrev
            /\ t.nodes[x].neighborNext = IF x = pp THEN n ELSE f[x].neighborNext
  BY <1>2, <1>11, <1>12 DEF Combined, SameSpan
<1>15. /\ ChainInv(h, V) /\ SizeSum(h, V) = Size
       /\ h[n].dataOffset = offset /\ h[n].dataSize = size
       /\ h[n].neighborPrev = pp /\ h[n].neighborNext = qq
       /\ \A x \in V : x # n =>
            /\ h[x].dataOffset = f[x].dataOffset /\ h[x].dataSize = f[x].dataSize
            /\ h[x].neighborPrev = IF x = qq THEN n ELSE f[x].neighborPrev
            /\ h[x].neighborNext = IF x = pp THEN n ELSE f[x].neighborNext
  BY <1>13 DEF Became
<1>16. SameChain(h, t.nodes, V)
  BY <1>14, <1>15 DEF SameChain
<1>17. ChainInv(t.nodes, V)
  BY <1>15, <1>16, ChainSame
<1>18. SizeSum(t.nodes, V) = Size
  <2>1. IsFiniteSet(V)
    BY <1>2, <1>12, FS_Subset
  <2>2. \A x \in V : h[x].dataSize = t.nodes[x].dataSize
    BY <1>16 DEF SameChain
  <2>3. SizeSum(h, V) = SizeSum(t.nodes, V)
    BY <2>1, <2>2, SumSame
  <2> QED BY <1>15, <2>3
<1>19. \A x \in V : (x \in E) <=> ~t.nodes[x].used
  BY <1>2, <1>12, <1>14, <1>e, <1>v
<1>20. E = FreeOf(t)
  <2>1. E \subseteq V
    BY <1>2, <1>12, <1>e, <1>v
  <2> QED BY <1>12, <1>19, <2>1 DEF FreeOf
\* A region that was used and is not the freed one is used.
<1>21. \A y \in U : f[y].used /\ y # n => t.nodes[y].used
  BY <1>2, <1>6, <1>d, <1>e, <1>v, <1>19
<1>22. ASSUME NEW x \in E, t.nodes[x].neighborNext # unused
       PROVE  t.nodes[t.nodes[x].neighborNext].used
  <2>1. CASE x = n
    <3>1. qq # unused
      BY <1>14, <1>22, <2>1
    <3>2. qq \in U /\ f[qq].used
      BY <1>2, <1>5, <1>6, <1>qq, <3>1
    <3> QED BY <1>9, <1>14, <1>21, <2>1, <3>2
  <2>2. CASE x # n
    <3>1. x \in F /\ x \notin D /\ x \in V /\ x \in U
      BY <1>2, <1>e, <1>v, <2>2
    <3>2. x # pp
      BY <1>2, <1>5, <1>6, <1>pp, <3>1
    <3>3. t.nodes[x].neighborNext = f[x].neighborNext
      BY <1>14, <2>2, <3>1, <3>2
    <3>4. f[x].neighborNext # n
      <4>1. LinkInv(f, U)
        BY <1>2 DEF ChainInv
      <4>2. f[x].neighborNext = n => p = x
        BY <1>2, <1>3, <3>1, <4>1 DEF LinkInv
      <4> QED BY <1>6, <1>d, <3>1, <4>2
    <3>5. f[x].neighborNext \in U
      <4>1. LinkInv(f, U)
        BY <1>2 DEF ChainInv
      <4> QED BY <1>22, <3>1, <3>3, <4>1 DEF LinkInv
    <3> QED BY <1>2, <1>21, <1>22, <3>1, <3>3, <3>4, <3>5
  <2> QED BY <2>1, <2>2
<1>23. AllocatorInv(t)
  BY <1>11, <1>12, <1>17, <1>18, <1>20, <1>22, PartsMake
<1>24. {x \in V : t.nodes[x].used} = {x \in U : f[x].used} \ {n}
  <2>1. \A x \in V : t.nodes[x].used <=> (x # n /\ f[x].used)
    BY <1>14
  <2>2. \A x \in U : f[x].used => x \in V
    BY <1>2, <1>6, <1>d, <1>v
  <2> QED BY <1>12, <2>1, <2>2
<1>25. \A x \in V \ {n} : SameSpan(t.nodes[x], f[x])
  BY <1>14 DEF SameSpan
<1> QED BY <1>12, <1>23, <1>24, <1>25, <1>g DEF Returned

-----------------------------------------------------------------------------
(***************************************************************************)
(* The inductive invariant.                                                *)
(***************************************************************************)
LEMMA InitInv == Init => IInv
<1> SUFFICES ASSUME Init PROVE IInv
  OBVIOUS
<1>1. AllocatorInv(m) /\ \A x \in RegionsOf(m) : ~m.nodes[x].used
  BY ResetInv DEF Init
<1> QED BY <1>1 DEF Init, IInv

LEMMA AllocateInv ==
  ASSUME IInv, NEW size \in RequestSizes, allocate(size)
  PROVE  /\ AllocatorInv(m')
         /\ \E n : Given(m, m', RegionsOf(m), n, size) /\ live' = live \cup {n}
<1>1. PICK bin : bin = FindBin(m, size)
  OBVIOUS
<1>2. PICK n : n = m.binIndices[bin]
  OBVIOUS
<1>3. PICK taken : taken = TakeNode(m, n, bin, size)
  OBVIOUS
<1>4. PICK remainder : remainder = m.nodes[n].dataSize - size
  OBVIOUS
<1>5. /\ CanAllocate(m, size)
      /\ m' = IF remainder > 0 THEN SplitRemainder(taken, n, remainder) ELSE taken
      /\ live' = live \cup {n}
  BY <1>1, <1>2, <1>3, <1>4 DEF allocate
<1>6. Allocates(m, size, bin, n, taken, remainder, m')
  BY <1>1, <1>2, <1>3, <1>4, <1>5 DEF Allocates
<1>7. AllocatorInv(m') /\ Given(m, m', RegionsOf(m), n, size)
  BY <1>6, AllocateStep DEF IInv
<1> QED BY <1>5, <1>7

LEMMA FreeInv ==
  ASSUME IInv, NEW n \in live, free(n)
  PROVE  /\ AllocatorInv(m')
         /\ Returned(m, m', RegionsOf(m), n) /\ live' = live \ {n}
<1>1. PICK p : p = m.nodes[n].neighborPrev
  OBVIOUS
<1>2. PICK q : q = m.nodes[n].neighborNext
  OBVIOUS
<1>3. PICK offset : offset = IF IsFree(m, p) THEN m.nodes[p].dataOffset ELSE m.nodes[n].dataOffset
  OBVIOUS
<1>4. PICK size : size = m.nodes[n].dataSize + (IF IsFree(m, p) THEN m.nodes[p].dataSize ELSE 0)
                                             + (IF IsFree(m, q) THEN m.nodes[q].dataSize ELSE 0)
  OBVIOUS
<1>5. /\ m' = InsertCombined(MergeNext(MergePrev(m, n), n), n, size, offset)
      /\ live' = live \ {n}
  BY <1>1, <1>2, <1>3, <1>4 DEF free
<1>6. Frees(m, n, p, q, size, offset, m')
  BY <1>1, <1>2, <1>3, <1>4, <1>5 DEF Frees
<1>7. n \in RegionsOf(m) /\ m.nodes[n].used
  BY DEF IInv
<1>8. AllocatorInv(m') /\ Returned(m, m', RegionsOf(m), n)
  BY <1>6, <1>7, ReturnStep DEF IInv
<1> QED BY <1>5, <1>8

\* The inductive invariant of the allocator is one.
THEOREM Invariance == Spec => []IInv
<1>1. IInv /\ [Next]_vars => IInv'
  <2> SUFFICES ASSUME IInv, [Next]_vars PROVE IInv'
    OBVIOUS
  <2>1. CASE \E size \in RequestSizes : allocate(size)
    <3>1. PICK size \in RequestSizes : allocate(size)
      BY <2>1
    <3>2. /\ AllocatorInv(m')
          /\ \E n : Given(m, m', RegionsOf(m), n, size) /\ live' = live \cup {n}
      BY <3>1, AllocateInv
    <3> QED BY <3>2 DEF IInv, Given
  <2>2. CASE \E n \in live : free(n)
    <3>1. PICK n \in live : free(n)
      BY <2>2
    <3>2. AllocatorInv(m') /\ Returned(m, m', RegionsOf(m), n) /\ live' = live \ {n}
      BY <3>1, FreeInv
    <3> QED BY <3>2 DEF IInv, Returned
  <2>3. CASE UNCHANGED vars
    BY <2>3 DEF vars, IInv
  <2> QED BY <2>1, <2>2, <2>3 DEF Next
<1> QED BY InitInv, <1>1, PTL DEF Spec

-----------------------------------------------------------------------------
(***************************************************************************)
(* The properties of the runs.                                             *)
(***************************************************************************)
LEMMA InUseRegions == InUse = RegionsOf(m) /\ FreeRegions = FreeOf(m)
BY DEF InUse, FreeRegions, RegionsOf, FreeOf, Spare

\* The parts of the inductive invariant, for the current state.
LEMMA CurrentParts ==
  ASSUME IInv
  PROVE  Parts(m, InUse, FreeRegions) /\ live = {n \in InUse : m.nodes[n].used}
BY InUseRegions, PartsOf DEF IInv

\* The members of the Allocator keep their types, and m_freeStorage the storage's bounds.
THEOREM TypesHold == Spec => []TypeOK
<1>1. IInv => TypeOK
  <2> SUFFICES ASSUME IInv PROVE TypeOK
    OBVIOUS
  <2>1. Parts(m, InUse, FreeRegions) /\ live = {n \in InUse : m.nodes[n].used}
    BY CurrentParts
  <2>2. ShapeInv(m) /\ SizeSum(m.nodes, FreeRegions) = m.freeStorage
    BY <2>1 DEF Parts, BinInv
  <2>3. /\ InUse \in SUBSET NodeIndex /\ FreeRegions \in SUBSET InUse
        /\ IsFiniteSet(InUse) /\ Sizes(m.nodes, InUse) /\ SizeSum(m.nodes, InUse) = Size
    BY <2>1 DEF Parts
  <2>4. m.freeStorage \in 0 .. Size
    <3>1. SizeSum(m.nodes, FreeRegions) \in Nat /\ SizeSum(m.nodes, FreeRegions) <= Size
      BY <2>3, SumSubset
    <3> QED BY <2>2, <3>1, ConstantFacts
  <2> HIDE DEF InUse, FreeRegions
  <2>5. m \in [nodes : [NodeIndex -> Node], freeNodes : [NodeIndex -> NodeIndex],
               freeOffset : NodeIndex, binIndices : [Bins -> NodeIndex \cup {unused}],
               usedBins : [0 .. NUM_TOP_BINS - 1 -> SUBSET (0 .. BINS_PER_LEAF - 1)],
               usedBinsTop : SUBSET (0 .. NUM_TOP_BINS - 1), freeStorage : 0 .. Size]
    BY <2>2, <2>4 DEF ShapeInv, Links
  <2> QED BY <2>1, <2>3, <2>5 DEF TypeOK
<1> QED BY <1>1, Invariance, PTL

\* No node index is spare twice or spare and in use, and exactly the regions marked
\* used are the client's: a free never takes a node from a holder.
THEOREM NodesAreAccounted == Spec => []NodesAccounted
<1>1. IInv => NodesAccounted
  BY InUseRegions DEF IInv, AllocatorInv, StackInv, NodesAccounted
<1> QED BY <1>1, Invariance, PTL

\* The neighbour links chain the regions from 0 to Size.
THEOREM NeighborsAreChained == Spec => []NeighborsChained
<1>1. IInv => NeighborsChained
  BY InUseRegions DEF IInv, AllocatorInv, ChainInv, LinkInv, NeighborsChained, End, EndOf
<1> QED BY <1>1, Invariance, PTL

\* The regions add up to the storage, the free ones to m_freeStorage.
THEOREM StorageIsAccounted == Spec => []StorageAccounted
<1>1. IInv => StorageAccounted
  <2> SUFFICES ASSUME IInv PROVE StorageAccounted
    OBVIOUS
  <2>1. SizeSum(m.nodes, InUse) = Size /\ SizeSum(m.nodes, FreeRegions) = m.freeStorage
    BY InUseRegions DEF IInv, AllocatorInv, StorageInv
  <2>2. /\ MapThenSumSet(LAMBDA n : m.nodes[n].dataSize, InUse) = SizeSum(m.nodes, InUse)
        /\ MapThenSumSet(LAMBDA n : m.nodes[n].dataSize, FreeRegions)
             = SizeSum(m.nodes, FreeRegions)
    BY DEF SizeSum, MapThenSumSet, MapThenFoldSet
  <2>3. /\ MapThenSumSet(LAMBDA n : m.nodes[n].dataSize, InUse) = Size
        /\ MapThenSumSet(LAMBDA n : m.nodes[n].dataSize, FreeRegions) = m.freeStorage
    BY <2>1, <2>2
  <2> QED BY <2>3 DEF StorageAccounted
<1> QED BY <1>1, Invariance, PTL

\* Freeing leaves no two free neighbours.
THEOREM FreeIsCoalesced == Spec => []Coalesced
<1>1. IInv => Coalesced
  BY InUseRegions DEF IInv, AllocatorInv, CoalescedInv, Coalesced
<1> QED BY <1>1, Invariance, PTL

\* The lists of the bins and the bit masks are those of the free regions.
THEOREM ListsAreLinked == Spec => []BinListsLinked
<1>1. IInv => BinListsLinked
  <2> SUFFICES ASSUME IInv PROVE BinListsLinked
    OBVIOUS
  <2>1. ListLinks(m.nodes, m.binIndices, FreeRegions) /\ MaskInv(m)
    BY InUseRegions DEF IInv, AllocatorInv, ListInv
  <2> HIDE DEF FreeRegions
  <2> QED BY <2>1 DEF ListLinks, MaskInv, BinListsLinked, BinOf
<1> QED BY <1>1, Invariance, PTL

\* A bin with a region has a first one.
LEMMA HeadExists ==
  ASSUME NEW f, NEW heads, NEW F \in SUBSET NodeIndex, ListInv(f, heads, F), NEW n \in F,
         NEW b, b = uintToFloatRoundDown(f[n].dataSize)
  PROVE  b \in Bins /\ heads[b] # unused
<1>1. PICK rank \in Ranks : ListOrder(f, F, rank)
  BY DEF ListInv
<1>p. PICK S : S = {x \in F : uintToFloatRoundDown(f[x].dataSize) = b}
  OBVIOUS
<1>r. PICK R : R = {rank[x] : x \in S}
  OBVIOUS
<1>2. \A x \in F : rank[x] \in Nat
  BY <1>1 DEF Ranks
<1>3. n \in S /\ S \subseteq F
  BY <1>p
<1>4. R \in SUBSET Nat /\ R # {}
  BY <1>2, <1>3, <1>r
<1>5. PICK k \in R : \A j \in R : k <= j
  BY <1>4, LeastNat
<1>6. PICK x \in S : rank[x] = k
  BY <1>5, <1>r
<1>7. \A y \in S : rank[x] <= rank[y]
  BY <1>5, <1>6, <1>r
<1>8. ListLinks(f, heads, F)
  BY DEF ListInv
<1>9. f[x].binListPrev = unused
  <2> SUFFICES ASSUME f[x].binListPrev # unused PROVE FALSE
    OBVIOUS
  <2>1. x \in F /\ uintToFloatRoundDown(f[x].dataSize) = b
    BY <1>p, <1>6
  <2>2. f[x].binListPrev \in F /\ uintToFloatRoundDown(f[f[x].binListPrev].dataSize) = b
    BY <1>8, <2>1 DEF ListLinks
  <2>3. f[x].binListPrev \in S /\ rank[f[x].binListPrev] < rank[x]
    BY <1>1, <1>p, <2>1, <2>2 DEF ListOrder
  <2> QED BY <1>2, <1>3, <1>6, <1>7, <2>3
<1>10. x \in F /\ uintToFloatRoundDown(f[x].dataSize) = b
  BY <1>p, <1>6
<1>11. heads[b] = x /\ b \in Bins
  BY <1>8, <1>9, <1>10 DEF ListLinks
<1> QED BY <1>10, <1>11, ConstantFacts

\* The region that allocate takes is big enough, and none that the rounded request
\* admits is overlooked, nor a smaller bin with one.
THEOREM FitIsFound == Spec => []FitFound
<1>1. IInv => FitFound
  <2> SUFFICES ASSUME IInv, NEW size \in RequestSizes
               PROVE  LET admitted == {n \in FreeRegions : BinOf(n) >= uintToFloatRoundUp(size)}
                          bin == FindBin(m, size)
                      IN  /\ (bin = NO_SPACE) <=> (admitted = {})
                          /\ admitted # {} =>
                               /\ m.nodes[m.binIndices[bin]].dataSize >= size
                               /\ \A n \in admitted : BinOf(n) >= bin
    BY DEF FitFound
  <2>f. PICK F : F = FreeRegions
    OBVIOUS
  <2>b. PICK bin : bin = FindBin(m, size)
    OBVIOUS
  <2>a. PICK admitted : admitted = {n \in F : BinOf(n) >= uintToFloatRoundUp(size)}
    OBVIOUS
  <2>1. Parts(m, InUse, F)
    BY <2>f, CurrentParts
  <2>2. /\ ShapeInv(m) /\ MaskInv(m) /\ ListInv(m.nodes, m.binIndices, F)
        /\ F \in SUBSET NodeIndex /\ \A n \in F : m.nodes[n].dataSize \in UINT32
    BY <2>1 DEF Parts, BinInv
  <2>3. uintToFloatRoundUp(size) \in Bins /\ size \in UINT32 /\ uintToFloatRoundUp(size) \in Nat
    BY RequestBins, BinBits
  <2>4. /\ bin # NO_SPACE => /\ bin \in Bins /\ m.binIndices[bin] # unused
                             /\ bin >= uintToFloatRoundUp(size)
        /\ \A b \in Bins : b >= uintToFloatRoundUp(size) /\ m.binIndices[b] # unused =>
             bin # NO_SPACE /\ bin <= b
    BY <2>2, <2>3, <2>b, FindBinFacts
  <2>5. \A n \in F : BinOf(n) \in Bins /\ m.binIndices[BinOf(n)] # unused /\ BinOf(n) \in Nat
    BY <2>2, HeadExists, BinBits DEF BinOf
  <2>6. \A n \in admitted : bin # NO_SPACE /\ BinOf(n) >= bin
    <3> SUFFICES ASSUME NEW n \in admitted PROVE bin # NO_SPACE /\ BinOf(n) >= bin
      OBVIOUS
    <3>1. bin # NO_SPACE /\ bin <= BinOf(n)
      BY <2>4, <2>5, <2>a
    <3>2. bin \in Nat /\ BinOf(n) \in Nat
      BY <2>4, <2>5, <2>a, <3>1, BinBits
    <3> QED BY <3>1, <3>2
  <2>7. ASSUME bin # NO_SPACE
        PROVE  /\ m.binIndices[bin] \in admitted
               /\ m.nodes[m.binIndices[bin]].dataSize >= size
    <3>1. PICK n : n = m.binIndices[bin]
      OBVIOUS
    <3>2. n \in F /\ BinOf(n) = bin
      BY <2>2, <2>4, <2>7, <3>1 DEF ListInv, ListLinks, BinOf
    <3>3. uintToFloatRoundDown(m.nodes[n].dataSize) >= uintToFloatRoundUp(size)
      BY <2>4, <2>7, <3>2 DEF BinOf
    <3>4. m.nodes[n].dataSize >= size
      BY <2>2, <2>3, <3>2, <3>3, FitsEverySize
    <3> QED BY <2>4, <2>7, <2>a, <3>1, <3>2, <3>4
  <2>8. (bin = NO_SPACE) <=> (admitted = {})
    BY <2>6, <2>7
  <2>9. admitted # {} => /\ m.nodes[m.binIndices[bin]].dataSize >= size
                         /\ \A n \in admitted : BinOf(n) >= bin
    BY <2>6, <2>7
  <2> HIDE DEF FreeRegions
  <2> QED BY <2>8, <2>9, <2>a, <2>b, <2>f
<1> QED BY <1>1, Invariance, PTL

\* What storageReport names is within the free space and is given to whoever asks for it.
THEOREM ReportIsAllocatable == Spec => []ReportAllocatable
<1>1. IInv => ReportAllocatable
  <2> SUFFICES ASSUME IInv PROVE ReportAllocatable
    OBVIOUS
  <2>f. PICK F : F = FreeRegions
    OBVIOUS
  <2>t. PICK top : top = Max(m.usedBinsTop)
    OBVIOUS
  <2>b. PICK bin : bin = top * BINS_PER_LEAF + Max(m.usedBins[top])
    OBVIOUS
  <2>l. PICK largest : largest = IF m.usedBinsTop = {} THEN 0 ELSE floatToUint(bin)
    OBVIOUS
  <2>1. Parts(m, InUse, F)
    BY <2>f, CurrentParts
  <2>2. /\ ShapeInv(m) /\ MaskInv(m) /\ ListInv(m.nodes, m.binIndices, F)
        /\ F \in SUBSET NodeIndex /\ (\A n \in F : m.nodes[n].dataSize \in UINT32)
        /\ IsFiniteSet(F) /\ Sizes(m.nodes, F) /\ SizeSum(m.nodes, F) = m.freeStorage
    BY <2>1, FreeFinite DEF Parts, BinInv
  <2>3. m.freeStorage \in Nat
    BY <2>2, SumSubset
  <2>4. ASSUME m.usedBinsTop # {}, m.freeOffset # 0
        PROVE  /\ floatToUint(bin) \in Nat /\ floatToUint(bin) <= m.freeStorage
               /\ CanAllocate(m, floatToUint(bin))
    <3>1. /\ m.usedBinsTop \in SUBSET (0 .. NUM_TOP_BINS - 1)
          /\ m.usedBins \in [0 .. NUM_TOP_BINS - 1 -> SUBSET (0 .. BINS_PER_LEAF - 1)]
          /\ NUM_TOP_BINS \in Nat
      BY <2>2, ConstantFacts DEF ShapeInv
    <3>2. top \in m.usedBinsTop /\ top \in 0 .. NUM_TOP_BINS - 1
      <4>1. m.usedBinsTop \in SUBSET Nat /\ NUM_TOP_BINS - 1 \in Nat
            /\ \A x \in m.usedBinsTop : x <= NUM_TOP_BINS - 1
        BY <2>4, <3>1
      <4> QED BY <2>4, <2>t, <3>1, <4>1, MaxNat
    <3>3. PICK leaf : leaf = Max(m.usedBins[top])
      OBVIOUS
    <3>4. leaf \in m.usedBins[top] /\ leaf \in 0 .. BINS_PER_LEAF - 1
      <4>1. m.usedBins[top] \in SUBSET (0 .. BINS_PER_LEAF - 1)
        BY <3>1, <3>2
      <4>2. m.usedBins[top] # {}
        BY <2>2, <3>2 DEF MaskInv
      <4>3. m.usedBins[top] \in SUBSET Nat /\ BINS_PER_LEAF - 1 \in Nat
            /\ \A x \in m.usedBins[top] : x <= BINS_PER_LEAF - 1
        BY <4>1 DEF BINS_PER_LEAF
      <4> QED BY <3>3, <4>1, <4>2, <4>3, MaxNat
    <3>5. bin \in Bins /\ Top(bin) = top /\ Leaf(bin) = leaf /\ bin \in Nat
      <4>1. bin = top * BINS_PER_LEAF + leaf
        BY <2>b, <3>3
      <4>2. /\ top * BINS_PER_LEAF + leaf \in Bins
            /\ Top(top * BINS_PER_LEAF + leaf) = top
            /\ Leaf(top * BINS_PER_LEAF + leaf) = leaf
        BY <3>2, <3>4, BinBits
      <4>3. bin \in Bins /\ Top(bin) = top /\ Leaf(bin) = leaf
        BY <4>1, <4>2
      <4>4. bin \in Nat
        BY <4>3, BinBits
      <4> QED BY <4>3, <4>4
    <3>6. m.binIndices[bin] # unused
      BY <2>2, <3>4, <3>5 DEF MaskInv
    <3>7. PICK n : n = m.binIndices[bin]
      OBVIOUS
    <3>8. n \in F /\ uintToFloatRoundDown(m.nodes[n].dataSize) = bin
      BY <2>2, <3>5, <3>6, <3>7 DEF ListInv, ListLinks
    <3>9. m.nodes[n].dataSize \in UINT32 /\ m.nodes[n].dataSize \in Nat
      BY <2>2, <3>8, UINT32Range
    <3>10. /\ floatToUint(bin) \in Nat /\ floatToUint(bin) <= m.nodes[n].dataSize
           /\ floatToUint(bin) \in UINT32
           /\ uintToFloatRoundUp(floatToUint(bin)) \in Nat
           /\ uintToFloatRoundUp(floatToUint(bin)) <= bin
      BY <3>8, <3>9, RoundDownFacts, BinSizeFits
    <3>11. m.nodes[n].dataSize <= m.freeStorage
      <4>1. PICK T : T = F \ {n}
        OBVIOUS
      <4>2. /\ SizeSum(m.nodes, F) = m.nodes[n].dataSize + SizeSum(m.nodes, T)
            /\ SizeSum(m.nodes, T) \in Nat
        BY <2>2, <3>8, <4>1, SumAdd
      <4> QED BY <2>2, <3>9, <4>2
    <3>12. PICK found : found = FindBin(m, floatToUint(bin))
      OBVIOUS
    <3>13. uintToFloatRoundUp(floatToUint(bin)) \in Bins
      <4>1. PICK up : up = uintToFloatRoundUp(floatToUint(bin))
        OBVIOUS
      <4>2. bin \in Bins /\ bin \in Nat /\ up \in Nat /\ up <= bin
        BY <3>5, <3>10, <4>1
      <4>5. NUM_LEAF_BINS \in Nat
        BY ConstantFacts DEF NUM_LEAF_BINS, BINS_PER_LEAF
      <4>3. up \in Bins
        BY <4>2, <4>5 DEF Bins
      <4> QED BY <4>1, <4>3
    <3>14. found # NO_SPACE
      BY <2>2, <3>5, <3>6, <3>10, <3>12, <3>13, FindBinFacts
    <3> QED BY <2>3, <2>4, <3>9, <3>10, <3>11, <3>12, <3>14 DEF CanAllocate
  <2>5. storageReport = IF m.freeOffset = 0 THEN [totalFreeSpace |-> 0, largestFreeRegion |-> 0]
                        ELSE [totalFreeSpace |-> m.freeStorage, largestFreeRegion |-> largest]
    BY <2>t, <2>b, <2>l DEF storageReport
  <2>r. PICK report : report = storageReport
    OBVIOUS
  <2>6. /\ report.totalFreeSpace >= report.largestFreeRegion
        /\ report.largestFreeRegion > 0 => CanAllocate(m, report.largestFreeRegion)
    <3>1. CASE m.freeOffset = 0
      <4>1. report.totalFreeSpace = 0 /\ report.largestFreeRegion = 0
        BY <2>5, <2>r, <3>1
      <4> QED BY <4>1
    <3>2. CASE m.freeOffset # 0
      <4>1. report.totalFreeSpace = m.freeStorage /\ report.largestFreeRegion = largest
        BY <2>5, <2>r, <3>2
      <4>2. CASE m.usedBinsTop = {}
        BY <2>3, <2>l, <4>1, <4>2
      <4>3. CASE m.usedBinsTop # {}
        <5>1. largest = floatToUint(bin)
          BY <2>l, <4>3
        <5> QED BY <2>3, <2>4, <3>2, <4>1, <4>3, <5>1
      <4> QED BY <4>2, <4>3
    <3> QED BY <3>1, <3>2
  <2> QED BY <2>6, <2>r DEF ReportAllocatable
<1> QED BY <1>1, Invariance, PTL

-----------------------------------------------------------------------------
(***************************************************************************)
(* The allocator implements its promise.                                   *)
(***************************************************************************)
\* Two regions of the chain share nothing.
LEMMA Separate ==
  ASSUME NEW f, NEW U \in SUBSET NodeIndex, ChainInv(f, U), NEW x \in U, NEW y \in U, x # y
  PROVE  EndOf(f[x]) <= f[y].dataOffset \/ EndOf(f[y]) <= f[x].dataOffset
<1>1. LinkInv(f, U)
  BY DEF ChainInv
<1>2. PICK rank \in Ranks : InOrder(f, U, rank)
  BY DEF ChainInv
<1>3. /\ rank[x] \in Nat /\ rank[y] \in Nat /\ rank[x] # rank[y]
      /\ rank[x] < rank[y] => EndOf(f[x]) <= f[y].dataOffset
      /\ rank[y] < rank[x] => EndOf(f[y]) <= f[x].dataOffset
  BY <1>1, <1>2, OrderFacts
<1> QED BY <1>3

\* The client's regions stay apart and in place while nodes are split and merged.
THEOREM ImplementsRegionAllocator == Spec => ImplementsRegions
<1>1. Init => Promise!Init
  <2> SUFFICES ASSUME Init PROVE Regions = [h \in {} |-> 0]
    BY DEF Promise!Init
  <2> QED BY DEF Init, Regions
<1>2. IInv /\ [Next]_vars => [Promise!Next]_Regions
  <2> SUFFICES ASSUME IInv, [Next]_vars PROVE [Promise!Next]_Regions
    OBVIOUS
  <2>1. Parts(m, InUse, FreeRegions) /\ live = {n \in InUse : m.nodes[n].used}
        /\ InUse = RegionsOf(m)
    BY CurrentParts, InUseRegions
  <2> HIDE DEF InUse, FreeRegions
  <2>2. CASE \E size \in RequestSizes : allocate(size)
    <3>1. PICK size \in RequestSizes : allocate(size)
      BY <2>2
    <3>2. AllocatorInv(m') /\ \E n : Given(m, m', InUse, n, size) /\ live' = live \cup {n}
      BY <2>1, <3>1, AllocateInv
    <3>3. PICK n : Given(m, m', InUse, n, size) /\ live' = live \cup {n}
      BY <3>2
    <3>4. PICK V : V = RegionsOf(m')
      OBVIOUS
    <3>5. PICK E : E = FreeOf(m')
      OBVIOUS
    <3>6. Parts(m', V, E)
      BY <3>2, <3>4, <3>5, PartsOf
    <3>7. /\ n \in InUse /\ n \notin live /\ n \in NodeIndex
          /\ m'.nodes[n].dataOffset = m.nodes[n].dataOffset /\ m'.nodes[n].dataSize = size
          /\ InUse \subseteq V
      BY <2>1, <3>3, <3>4 DEF Given, Parts
    <3>8. \A g \in live : /\ g \in V /\ g # n
                          /\ m'.nodes[g].dataOffset = m.nodes[g].dataOffset
                          /\ m'.nodes[g].dataSize = m.nodes[g].dataSize
      BY <2>1, <3>3, <3>7 DEF Given, SameSpan
    <3>9. PICK offset : offset = m.nodes[n].dataOffset
      OBVIOUS
    <3>10. offset \in 0 .. Size /\ offset + size <= Size /\ size \in Nat
      <4>1. /\ m'.nodes[n].dataOffset \in Nat /\ m'.nodes[n].dataSize \in Nat
            /\ EndOf(m'.nodes[n]) <= Size
        BY <3>6, <3>7, ConstantFacts DEF Parts
      <4> QED BY <3>7, <3>9, <4>1, ConstantFacts DEF EndOf
    <3>11. PICK region : region = [offset |-> offset, size |-> size]
      OBVIOUS
    <3>12. \A g \in live : Promise!Disjoint(region, Regions[g])
      <4> SUFFICES ASSUME NEW g \in live PROVE Promise!Disjoint(region, Regions[g])
        OBVIOUS
      <4>1. \/ EndOf(m'.nodes[n]) <= m'.nodes[g].dataOffset
            \/ EndOf(m'.nodes[g]) <= m'.nodes[n].dataOffset
        <5>1. V \in SUBSET NodeIndex /\ ChainInv(m'.nodes, V)
          BY <3>6 DEF Parts
        <5> QED BY <3>7, <3>8, <5>1, Separate
      <4>2. Regions[g] = [offset |-> m.nodes[g].dataOffset, size |-> m.nodes[g].dataSize]
        BY DEF Regions
      <4>3. \/ offset + size <= m.nodes[g].dataOffset
            \/ m.nodes[g].dataOffset + m.nodes[g].dataSize <= offset
        BY <3>7, <3>8, <3>9, <4>1 DEF EndOf
      <4> QED BY <3>11, <4>2, <4>3 DEF Promise!Disjoint
    <3>13. Regions' = [g \in live \cup {n} |-> IF g = n THEN region ELSE Regions[g]]
      <4>1. Regions' = [g \in live \cup {n} |->
                          [offset |-> m'.nodes[g].dataOffset, size |-> m'.nodes[g].dataSize]]
        BY <3>3 DEF Regions
      <4>2. \A g \in live \cup {n} :
              [offset |-> m'.nodes[g].dataOffset, size |-> m'.nodes[g].dataSize]
                = IF g = n THEN region ELSE Regions[g]
        BY <3>7, <3>8, <3>9, <3>11 DEF Regions
      <4> QED BY <4>1, <4>2
    <3>14. DOMAIN Regions = live
      BY DEF Regions
    <3>15. Promise!Allocate(n, offset, size)
      BY <3>7, <3>10, <3>11, <3>12, <3>13, <3>14 DEF Promise!Allocate
    <3> QED BY <3>1, <3>7, <3>10, <3>15 DEF Promise!Next
  <2>3. CASE \E n \in live : free(n)
    <3>1. PICK n \in live : free(n)
      BY <2>3
    <3>2. AllocatorInv(m') /\ Returned(m, m', InUse, n) /\ live' = live \ {n}
      BY <2>1, <3>1, FreeInv
    <3>3. \A g \in live \ {n} : /\ m'.nodes[g].dataOffset = m.nodes[g].dataOffset
                                /\ m'.nodes[g].dataSize = m.nodes[g].dataSize
      BY <2>1, <3>2 DEF Returned, SameSpan
    <3>4. Regions' = [g \in live \ {n} |->
                        [offset |-> m'.nodes[g].dataOffset, size |-> m'.nodes[g].dataSize]]
      BY <3>2 DEF Regions
    <3>5. DOMAIN Regions = live
      BY DEF Regions
    <3>6. \A g \in live \ {n} :
            [offset |-> m'.nodes[g].dataOffset, size |-> m'.nodes[g].dataSize] = Regions[g]
      BY <3>3 DEF Regions
    <3>7. Promise!Free(n)
      BY <3>4, <3>5, <3>6 DEF Promise!Free
    <3> QED BY <3>5, <3>7 DEF Promise!Next
  <2>4. CASE UNCHANGED vars
    BY <2>4 DEF vars, Regions
  <2> QED BY <2>2, <2>3, <2>4 DEF Next
<1> QED BY <1>1, <1>2, Invariance, PTL DEF Spec, ImplementsRegions, Promise!Spec
-----------------------------------------------------------------------------
(***************************************************************************)
(* The walk of storageReportFull along a bin's list.  The function that    *)
(* defines it exists by induction on its domain.                           *)
(***************************************************************************)
WalkAt(f, head, W, k) ==
  IF k = 0 THEN head ELSE IF W[k - 1] = unused THEN unused ELSE f[W[k - 1]].binListNext

IsWalk(f, head, W) == W = [k \in 0 .. MaxAllocs |-> WalkAt(f, head, W, k)]

LEMMA WalkExists == ASSUME NEW f, NEW head PROVE \E W : IsWalk(f, head, W)
<1> DEFINE IsPart(W, n) == W = [k \in 0 .. n |-> WalkAt(f, head, W, k)]
           N == {n \in Nat : \E W : IsPart(W, n)}
<1>1. 0 \in N
  <2> DEFINE W == [k \in 0 .. 0 |-> head]
  <2>1. \A k \in 0 .. 0 : WalkAt(f, head, W, k) = head
    BY DEF WalkAt
  <2>2. IsPart(W, 0)
    BY <2>1
  <2> QED BY <2>2
<1>2. ASSUME NEW n \in Nat, n \in N PROVE n + 1 \in N
  <2>1. PICK W : IsPart(W, n)
    BY <1>2
  <2> DEFINE V == [k \in 0 .. n + 1 |-> WalkAt(f, head, W, k)]
  <2>2. \A k \in 0 .. n : V[k] = W[k]
    BY <2>1
  <2>3. \A k \in 0 .. n + 1 : k # 0 => k - 1 \in 0 .. n
    OBVIOUS
  <2>4. \A k \in 0 .. n + 1 : WalkAt(f, head, W, k) = WalkAt(f, head, V, k)
    <3> HIDE DEF V
    <3> QED BY <2>2, <2>3 DEF WalkAt
  <2>5. IsPart(V, n + 1)
    BY <2>4
  <2>6. n + 1 \in Nat
    OBVIOUS
  <2> HIDE DEF V, IsPart
  <2> QED BY <2>5, <2>6
<1>3. Nat \subseteq N
  <2> HIDE DEF N
  <2> QED BY <1>1, <1>2, SetInduction
<1>4. MaxAllocs \in N
  <2> HIDE DEF N
  <2> QED BY <1>3, ConstantFacts
<1> QED BY <1>4 DEF IsWalk

\* The regions of a bin.
InBin(f, F, b) == {n \in F : uintToFloatRoundDown(f[n].dataSize) = b}

LEMMA WalkSteps ==
  ASSUME NEW f, NEW heads, NEW F \in SUBSET NodeIndex, ListInv(f, heads, F), NEW b \in Bins,
         NEW W, IsWalk(f, heads[b], W)
  PROVE  /\ W[0] = heads[b]
         /\ \A k \in 0 .. MaxAllocs - 1 :
              W[k + 1] = IF W[k] = unused THEN unused ELSE f[W[k]].binListNext
         /\ \A k \in 0 .. MaxAllocs : W[k] # unused => W[k] \in InBin(f, F, b)
<1>c. MaxAllocs \in Nat
  BY ConstantFacts
<1>1. W[0] = heads[b]
  BY <1>c DEF IsWalk, WalkAt
<1>2. ASSUME NEW k \in 0 .. MaxAllocs - 1
      PROVE  W[k + 1] = IF W[k] = unused THEN unused ELSE f[W[k]].binListNext
  <2>1. k + 1 \in 0 .. MaxAllocs /\ k + 1 # 0 /\ (k + 1) - 1 = k
    BY <1>c
  <2>2. W[k + 1] = WalkAt(f, heads[b], W, k + 1)
    BY <2>1 DEF IsWalk
  <2> QED BY <2>1, <2>2 DEF WalkAt
<1>3. PICK B : B = InBin(f, F, b)
  OBVIOUS
<1>4. \A n \in B : f[n].binListNext # unused => f[n].binListNext \in B
  BY <1>3 DEF InBin, ListInv, ListLinks
<1>5. heads[b] # unused => heads[b] \in B
  BY <1>3 DEF InBin, ListInv, ListLinks
<1> DEFINE N == {k \in Nat : k <= MaxAllocs => (W[k] # unused => W[k] \in B)}
<1>6. 0 \in N
  BY <1>1, <1>5
<1>7. ASSUME NEW k \in Nat, k \in N PROVE k + 1 \in N
  <2>1. k + 1 \in Nat
    OBVIOUS
  <2> SUFFICES ASSUME k + 1 <= MaxAllocs, W[k + 1] # unused PROVE W[k + 1] \in B
    BY <2>1
  <2>2. k \in 0 .. MaxAllocs - 1 /\ k <= MaxAllocs
    BY <1>c
  <2>3. W[k] # unused /\ W[k + 1] = f[W[k]].binListNext
    BY <1>2, <2>2
  <2>4. W[k] \in B
    BY <1>7, <2>2, <2>3
  <2> QED BY <1>4, <2>3, <2>4
<1>8. Nat \subseteq N
  <2> HIDE DEF N
  <2> QED BY <1>6, <1>7, SetInduction
<1>9. \A k \in 0 .. MaxAllocs : W[k] # unused => W[k] \in B
  <2>1. \A k \in 0 .. MaxAllocs : k \in Nat /\ k <= MaxAllocs
    BY <1>c
  <2> QED BY <1>8, <2>1
<1> QED BY <1>1, <1>2, <1>3, <1>9

\* Along the walk the order of the list increases, so no region is met twice.
LEMMA WalkIncreases ==
  ASSUME NEW f, NEW heads, NEW F \in SUBSET NodeIndex, ListInv(f, heads, F), NEW b \in Bins,
         NEW W, IsWalk(f, heads[b], W), NEW j \in 0 .. MaxAllocs, NEW k \in 0 .. MaxAllocs,
         j < k, W[k] # unused
  PROVE  W[j] # unused /\ W[j] # W[k]
<1>c. MaxAllocs \in Nat
  BY ConstantFacts
<1>1. PICK rank \in Ranks : ListOrder(f, F, rank)
  BY DEF ListInv
<1>2. \A i \in 0 .. MaxAllocs : W[i] # unused => W[i] \in F /\ rank[W[i]] \in Nat
  BY <1>1, WalkSteps DEF InBin, Ranks
<1>3. ASSUME NEW i \in 0 .. MaxAllocs - 1, W[i + 1] # unused
      PROVE  W[i] # unused /\ rank[W[i]] < rank[W[i + 1]]
  <2>1. W[i] # unused /\ W[i + 1] = f[W[i]].binListNext
    BY <1>3, WalkSteps
  <2>2. i \in 0 .. MaxAllocs /\ i + 1 \in 0 .. MaxAllocs
    BY <1>c
  <2>3. W[i] \in F /\ W[i + 1] \in F
    BY <1>2, <1>3, <2>1, <2>2
  <2>4. f[W[i + 1]].binListPrev = W[i]
    BY <1>3, <2>1, <2>3 DEF ListInv, ListLinks
  <2> QED BY <1>1, <2>1, <2>3, <2>4 DEF ListOrder
<1> DEFINE N == {d \in Nat : j + d + 1 <= MaxAllocs => (W[j + d + 1] # unused =>
                   W[j] # unused /\ rank[W[j]] < rank[W[j + d + 1]])}
<1>4. 0 \in N
  <2> SUFFICES ASSUME j + 0 + 1 <= MaxAllocs, W[j + 0 + 1] # unused
               PROVE  W[j] # unused /\ rank[W[j]] < rank[W[j + 0 + 1]]
    OBVIOUS
  <2>1. j + 0 + 1 = j + 1 /\ j \in 0 .. MaxAllocs - 1
    BY <1>c
  <2> QED BY <1>3, <2>1
<1>5. ASSUME NEW d \in Nat, d \in N PROVE d + 1 \in N
  <2>1. d + 1 \in Nat
    OBVIOUS
  <2> SUFFICES ASSUME j + (d + 1) + 1 <= MaxAllocs, W[j + (d + 1) + 1] # unused
               PROVE  W[j] # unused /\ rank[W[j]] < rank[W[j + (d + 1) + 1]]
    BY <2>1
  <2>2. PICK i : i = j + d + 1
    OBVIOUS
  <2>3. /\ i \in 0 .. MaxAllocs - 1 /\ i + 1 = j + (d + 1) + 1 /\ j + d + 1 <= MaxAllocs
        /\ i \in 0 .. MaxAllocs /\ i + 1 \in 0 .. MaxAllocs
    BY <1>c, <2>2
  <2>4. W[i + 1] # unused
    BY <2>3
  <2>5. W[i] # unused /\ rank[W[i]] < rank[W[i + 1]]
    BY <1>3, <2>3, <2>4
  <2>6. W[j] # unused /\ rank[W[j]] < rank[W[i]]
    BY <1>5, <2>2, <2>3, <2>5
  <2>7. rank[W[j]] \in Nat /\ rank[W[i]] \in Nat /\ rank[W[i + 1]] \in Nat
    BY <1>2, <2>3, <2>4, <2>5, <2>6
  <2>8. rank[W[j]] < rank[W[i + 1]]
    <3>1. \A x, y, z \in Nat : x < y /\ y < z => x < z
      OBVIOUS
    <3> QED BY <2>5, <2>6, <2>7, <3>1
  <2> QED BY <2>3, <2>6, <2>8
<1>6. Nat \subseteq N
  <2> HIDE DEF N
  <2> QED BY <1>4, <1>5, SetInduction
<1>7. PICK d : d = k - j - 1
  OBVIOUS
<1>8. d \in Nat /\ j + d + 1 = k /\ k <= MaxAllocs
  BY <1>7, <1>c
<1>9. W[j] # unused /\ rank[W[j]] < rank[W[k]]
  BY <1>6, <1>8
<1>10. rank[W[j]] \in Nat /\ rank[W[k]] \in Nat
  BY <1>2, <1>9
<1> QED BY <1>9, <1>10

\* The walk ends within the nodes there are: more would have to meet one twice.
LEMMA WalkEnds ==
  ASSUME NEW f, NEW heads, NEW F \in SUBSET NodeIndex, ListInv(f, heads, F), NEW b \in Bins,
         NEW W, IsWalk(f, heads[b], W)
  PROVE  W[MaxAllocs] = unused
<1> SUFFICES ASSUME W[MaxAllocs] # unused PROVE FALSE
  OBVIOUS
<1>c. MaxAllocs \in Nat /\ IsFiniteSet(NodeIndex) /\ Cardinality(NodeIndex) = MaxAllocs
  BY ConstantFacts
<1>1. PICK K : K = 0 .. MaxAllocs
  OBVIOUS
<1>2. IsFiniteSet(K) /\ Cardinality(K) = MaxAllocs + 1
  BY <1>c, <1>1, FS_Interval
<1>3. MaxAllocs \in 0 .. MaxAllocs /\ \A j \in 0 .. MaxAllocs : j # MaxAllocs => j < MaxAllocs
  BY <1>c
<1>4. \A j \in K : W[j] # unused
  BY <1>1, <1>3, WalkIncreases
<1>5. \A j \in K : W[j] \in NodeIndex
  BY <1>1, <1>4, WalkSteps DEF InBin
<1>6. W \in [K -> NodeIndex]
  <2>1. DOMAIN W = K /\ W = [k \in K |-> W[k]]
    BY <1>1 DEF IsWalk
  <2> QED BY <1>5, <2>1
<1>7. PICK j \in K, k \in K : j # k /\ W[j] = W[k]
  <2>1. Cardinality(NodeIndex) < Cardinality(K)
    BY <1>c, <1>2
  <2> QED BY <1>c, <1>2, <1>6, <2>1, FS_PigeonHole
<1>8. j < k \/ k < j
  BY <1>1, <1>7, <1>c
<1> QED BY <1>1, <1>4, <1>7, <1>8, WalkIncreases

\* It meets every region of the bin.
LEMMA WalkReaches ==
  ASSUME NEW f, NEW heads, NEW F \in SUBSET NodeIndex, ListInv(f, heads, F), NEW b \in Bins,
         NEW W, IsWalk(f, heads[b], W), NEW n \in InBin(f, F, b)
  PROVE  \E k \in 0 .. MaxAllocs : W[k] = n
<1>c. MaxAllocs \in Nat /\ unused \notin NodeIndex
  BY ConstantFacts
<1>1. PICK rank \in Ranks : ListOrder(f, F, rank)
  BY DEF ListInv
<1>2. PICK B : B = InBin(f, F, b)
  OBVIOUS
<1>3. \A x \in B : x \in F /\ x # unused /\ rank[x] \in Nat
  BY <1>c, <1>1, <1>2 DEF InBin, Ranks
<1>4. PICK S : S = {x \in B : \A k \in 0 .. MaxAllocs : W[k] # x}
  OBVIOUS
<1> SUFFICES ASSUME S # {} PROVE FALSE
  BY <1>2, <1>4
<1>5. PICK R : R = {rank[x] : x \in S}
  OBVIOUS
<1>6. R \in SUBSET Nat /\ R # {}
  BY <1>3, <1>4, <1>5
<1>7. PICK r \in R : \A i \in R : r <= i
  BY <1>6, LeastNat
<1>8. PICK x \in S : rank[x] = r
  BY <1>5, <1>7
<1>9. PICK p : p = f[x].binListPrev
  OBVIOUS
<1>10. x \in B /\ x \in F /\ x # unused /\ uintToFloatRoundDown(f[x].dataSize) = b
  BY <1>2, <1>3, <1>4 DEF InBin
<1>11. CASE p = unused
  <2>1. heads[b] = x
    BY <1>9, <1>10, <1>11 DEF ListInv, ListLinks
  <2>2. W[0] = x /\ 0 \in 0 .. MaxAllocs
    BY <1>c, <2>1, WalkSteps
  <2> QED BY <1>4, <2>2
<1>12. CASE p # unused
  <2>1. p \in F /\ uintToFloatRoundDown(f[p].dataSize) = b /\ f[p].binListNext = x
    BY <1>9, <1>10, <1>12 DEF ListInv, ListLinks
  <2>2. p \in B
    BY <1>2, <2>1 DEF InBin
  <2>3. rank[p] < rank[x] /\ rank[p] \in Nat /\ rank[x] \in Nat
    BY <1>1, <1>3, <1>9, <1>10, <1>12, <2>2 DEF ListOrder
  <2>4. p \notin S
    <3>1. p \in S => rank[x] <= rank[p]
      BY <1>5, <1>7, <1>8
    <3> QED BY <2>3, <3>1
  <2>5. PICK k \in 0 .. MaxAllocs : W[k] = p
    BY <1>4, <2>2, <2>4
  <2>6. k # MaxAllocs
    BY <1>12, <2>5, WalkEnds
  <2>7. k \in 0 .. MaxAllocs - 1 /\ k + 1 \in 0 .. MaxAllocs
    BY <1>c, <2>6
  <2>8. W[k + 1] = x
    BY <1>12, <2>1, <2>5, <2>7, WalkSteps
  <2> QED BY <1>4, <2>7, <2>8
<1> QED BY <1>11, <1>12

\* The steps of the walk are as many as the regions of the bin.
LEMMA WalkCounts ==
  ASSUME NEW f, NEW heads, NEW F \in SUBSET NodeIndex, ListInv(f, heads, F), NEW b \in Bins,
         NEW W, IsWalk(f, heads[b], W)
  PROVE  Cardinality({k \in 0 .. MaxAllocs : W[k] # unused}) = Cardinality(InBin(f, F, b))
<1>c. MaxAllocs \in Nat /\ unused \notin NodeIndex
  BY ConstantFacts
<1>1. PICK K : K = {k \in 0 .. MaxAllocs : W[k] # unused}
  OBVIOUS
<1>2. PICK B : B = InBin(f, F, b)
  OBVIOUS
<1>3. IsFiniteSet(K)
  <2>1. IsFiniteSet(0 .. MaxAllocs)
    BY <1>c, FS_Interval
  <2> QED BY <1>1, <2>1, FS_Subset
<1>4. PICK V : V = [k \in K |-> W[k]]
  OBVIOUS
<1>5. \A k \in K : k \in 0 .. MaxAllocs /\ W[k] \in B /\ V[k] = W[k]
  BY <1>1, <1>2, <1>4, WalkSteps
<1>6. V \in [K -> B]
  BY <1>4, <1>5
<1>7. \A j, k \in K : V[j] = V[k] => j = k
  <2> SUFFICES ASSUME NEW j \in K, NEW k \in K, j # k, V[j] = V[k] PROVE FALSE
    OBVIOUS
  <2>1. j < k \/ k < j
    BY <1>5, <1>c
  <2> QED BY <1>1, <1>5, <2>1, WalkIncreases
<1>8. \A n \in B : \E k \in K : V[k] = n
  <2> SUFFICES ASSUME NEW n \in B PROVE \E k \in K : V[k] = n
    OBVIOUS
  <2>1. n # unused
    BY <1>2, <1>c DEF InBin
  <2>2. PICK k \in 0 .. MaxAllocs : W[k] = n
    BY <1>2, WalkReaches
  <2> QED BY <1>1, <1>5, <2>1, <2>2
<1>9. V \in Bijection(K, B)
  BY <1>6, <1>7, <1>8 DEF Bijection, Injection, Surjection, IsInjective
<1>10. ExistsBijection(K, B)
  BY <1>9 DEF ExistsBijection
<1> QED BY <1>1, <1>2, <1>3, <1>10, FS_Bijection

\* What storageReportFull computes is a count along such a walk.
LEMMA ReportWalks ==
  ASSUME NEW b \in Bins
  PROVE  \E W : /\ IsWalk(m.nodes, m.binIndices[b], W)
                /\ storageReportFull[b] = Cardinality({k \in 0 .. MaxAllocs : W[k] # unused})
<1> DEFINE C == CHOOSE W : IsWalk(m.nodes, m.binIndices[b], W)
<1>1. IsWalk(m.nodes, m.binIndices[b], C)
  BY WalkExists
<1>2. storageReportFull[b] = Cardinality({k \in 0 .. MaxAllocs : C[k] # unused})
  BY DEF storageReportFull, IsWalk, WalkAt
<1> QED BY <1>1, <1>2

\* storageReportFull counts every free region once, in the bin of its size.
THEOREM ReportFullIsExact == Spec => []ReportFullExact
<1>1. IInv => ReportFullExact
  <2> SUFFICES ASSUME IInv, NEW b \in Bins
               PROVE  storageReportFull[b] = Cardinality({n \in FreeRegions : BinOf(n) = b})
    BY DEF ReportFullExact
  <2>f. PICK F : F = FreeRegions
    OBVIOUS
  <2>1. F \in SUBSET NodeIndex /\ ListInv(m.nodes, m.binIndices, F)
    BY <2>f, CurrentParts DEF Parts, BinInv
  <2>2. PICK W : /\ IsWalk(m.nodes, m.binIndices[b], W)
                 /\ storageReportFull[b] = Cardinality({k \in 0 .. MaxAllocs : W[k] # unused})
    BY ReportWalks
  <2>3. Cardinality({k \in 0 .. MaxAllocs : W[k] # unused}) = Cardinality(InBin(m.nodes, F, b))
    BY <2>1, <2>2, WalkCounts
  <2>4. InBin(m.nodes, F, b) = {n \in FreeRegions : BinOf(n) = b}
    BY <2>f DEF InBin, BinOf
  <2> QED BY <2>2, <2>3, <2>4
<1> QED BY <1>1, Invariance, PTL
=============================================================================
