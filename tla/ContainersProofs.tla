-------------------------- MODULE ContainersProofs --------------------------
(***************************************************************************)
(* The generic class that the emitter makes of the containers of a kind,   *)
(* for any item types: its type parameters are the types of the items, and *)
(* its conditions select an instantiation by them and by the item          *)
(* ownership, whenever these tell the instantiations apart.                *)
(***************************************************************************)
EXTENDS ContainersInvariant, FiniteSetTheorems, WellFoundedInduction, TLAPS

\* Min, of a set that need not be finite.
LEMMA LeastNat ==
  ASSUME NEW S \in SUBSET Nat, S # {}
  PROVE  Min(S) \in S /\ \A y \in S : Min(S) <= y
<1>1. PICK x \in S : \A y \in S : ~(<<y, x>> \in OpToRel(<, Nat))
  BY NatLessThanWellFounded, WFMin
<1>2. \A y \in S : ~(y < x)
  BY <1>1 DEF OpToRel
<1>3. \A y \in S : x <= y
  BY <1>2
<1> QED BY <1>3 DEF Min

-----------------------------------------------------------------------------
(***************************************************************************)
(* The members that a class of a kind has.  At each position of a member   *)
(* is the type of an item or, at 0, a type that all classes share.         *)
(***************************************************************************)
Layout(kind) ==
  IF kind = "Vector"
  THEN << <<0>>, <<0>>, <<0>>, <<1, 0>>, <<1, 0>>, <<1, 0>>, <<0, 1>>, <<0, 1, 0>>,
          <<0, 1, 0>>, <<0, 0>>, <<1, 0>> >>
  ELSE << <<0>>, <<0>>, <<0>>, <<1, 2, 0>>, <<1, 0>>, <<1, 2>>, <<1, 2, 0>>, <<0, 1>>,
          <<0, 2>>, <<1, 0>> >>

MemberNames(kind) ==
  IF kind = "Vector"
  THEN <<"Vector", "size", "Clear", "Add", "Contains", "IndexOf", "__get", "__set",
         "__insert", "__erase_at", "Remove">>
  ELSE <<"Map", "size", "Clear", "__add", "ContainsKey", "__get", "__set", "__get_key_at",
         "__get_value_at", "Remove">>

\* No parameter of a member of a container is an out parameter.
NoneOut(n) == [i \in 1 .. n |-> FALSE]

\* A member of this name, with types of the items in these places.
Fits(member, name, roles, items, other) ==
  /\ ShapeKey(member) = <<name, FALSE, NoneOut(Len(roles) - 1)>>
  /\ Len(member.params) = Len(roles) - 1
  /\ \A p \in 1 .. Len(roles) :
       IF roles[p] = 0 THEN TypeAt(member, p) = TypeAt(other, p)
       ELSE /\ TypeAt(member, p).name = items[roles[p]].name
            /\ TypeAt(member, p).pointer = items[roles[p]].pointer
            /\ p < Len(roles) => TypeAt(member, p) = ByValue(items[roles[p]])

Members(kind) == Len(Layout(kind))

\* The two kinds of members.
IsConstructor(member) == member.ctor = TRUE
IsMethod(member) == member.ctor = FALSE

\* The members of a class are those of its kind, for the types of its items.
LaidOut(members, first, kind, items) ==
  /\ Len(members) = Members(kind) /\ DOMAIN members = 1 .. Members(kind)
  /\ \A k \in 1 .. Members(kind) :
       /\ IF k = 1 THEN IsConstructor(members[k]) ELSE IsMethod(members[k])
       /\ Fits(members[k], MemberNames(kind)[k], Layout(kind)[k], items, first[k])

\* What Member and Constructor make.
LEMMA MemberTypes ==
  ASSUME NEW name, NEW params, NEW result, NEW n \in Nat,
         Len(params) = n, DOMAIN params = 1 .. n
  PROVE  /\ \A p \in 1 .. n : TypeAt(Member(name, params, result), p) = params[p]
         /\ TypeAt(Member(name, params, result), n + 1) = result
<1> DEFINE m == Member(name, params, result)
<1>1. m.result = result /\ m.params = [i \in DOMAIN params |-> [type |-> params[i], out |-> FALSE]]
  BY DEF Member
<1> HIDE DEF m
<1>2. DOMAIN m.params = 1 .. n /\ Len(m.params) = n
  BY <1>1
<1>3. \A p \in 1 .. n : TypeAt(m, p) = params[p]
  BY <1>1, <1>2 DEF TypeAt
<1>4. TypeAt(m, n + 1) = result
  BY <1>1, <1>2 DEF TypeAt
<1> QED BY <1>3, <1>4 DEF m

LEMMA MemberShape ==
  ASSUME NEW name, NEW params, NEW result, NEW n \in Nat,
         Len(params) = n, DOMAIN params = 1 .. n
  PROVE  ShapeKey(Member(name, params, result)) = <<name, FALSE, NoneOut(n)>>
<1> DEFINE m == Member(name, params, result)
<1>1. /\ m.name = name /\ m.const = FALSE
      /\ m.params = [i \in DOMAIN params |-> [type |-> params[i], out |-> FALSE]]
  BY DEF Member
<1> HIDE DEF m
<1>2. [i \in DOMAIN m.params |-> m.params[i].out] = NoneOut(n)
  BY <1>1 DEF NoneOut
<1>3. ShapeKey(m) = <<name, FALSE, NoneOut(n)>>
  BY <1>1, <1>2 DEF ShapeKey
<1> QED BY <1>3 DEF m

LEMMA MemberArity ==
  ASSUME NEW name, NEW params, NEW result, NEW n \in Nat,
         Len(params) = n, DOMAIN params = 1 .. n
  PROVE  Len(Member(name, params, result).params) = n
BY DEF Member

LEMMA MemberCtor ==
  ASSUME NEW name, NEW params, NEW result
  PROVE  IsMethod(Member(name, params, result))
BY DEF Member, IsMethod

\* The types that an item is passed and returned as have its name, and are pointers when
\* it is one.
LEMMA ItemTypes ==
  ASSUME NEW item \in Item
  PROVE  /\ ByValue(item).name = item.name /\ ByValue(item).pointer = item.pointer
         /\ Returned(item).name = item.name /\ Returned(item).pointer = item.pointer
<1>1. ByValue(item).name = item.name /\ ByValue(item).pointer = item.pointer
  BY DEF ByValue, Plain
<1>2. CASE item.scalar \/ item.pointer
  BY <1>1, <1>2 DEF Returned
<1>3. CASE ~(item.scalar \/ item.pointer)
  <2>1. item.pointer = FALSE
    BY <1>3 DEF Item
  <2> QED BY <1>1, <1>3, <2>1 DEF Returned, Plain
<1> QED BY <1>1, <1>2, <1>3

\* The types of a member are those that its layout says.
Typed(n, roles, params, result, others, rest, items) ==
  /\ \A p \in 1 .. n : IF roles[p] = 0 THEN params[p] = others[p]
                       ELSE params[p] = ByValue(items[roles[p]])
  /\ IF roles[n + 1] = 0 THEN result = rest ELSE result = Returned(items[roles[n + 1]])
  /\ \A p \in 1 .. n + 1 : roles[p] # 0 => items[roles[p]] \in Item

\* Members with the types of their layout fit it, by the number of their types.
LEMMA FitsMember ==
  ASSUME NEW name, NEW roles, NEW params, NEW result, NEW others, NEW rest,
         NEW items, NEW n \in Nat, Len(roles) = n + 1, Len(params) = n, Len(others) = n,
         DOMAIN params = 1 .. n, DOMAIN others = 1 .. n,
         Typed(n, roles, params, result, others, rest, items)
  PROVE  Fits(Member(name, params, result), name, roles, items, Member(name, others, rest))
<1> DEFINE m == Member(name, params, result)
           o == Member(name, others, rest)
<1>1. /\ ShapeKey(m) = <<name, FALSE, NoneOut(n)>> /\ Len(m.params) = n
  BY MemberShape, MemberArity
<1>7. /\ \A p \in 1 .. n : TypeAt(m, p) = params[p]
      /\ TypeAt(m, n + 1) = result
  BY MemberTypes
<1>2. /\ \A p \in 1 .. n : TypeAt(o, p) = others[p]
      /\ TypeAt(o, n + 1) = rest
  BY MemberTypes
<1>3. Len(roles) - 1 = n
  OBVIOUS
<1>4. ShapeKey(m) = <<name, FALSE, NoneOut(Len(roles) - 1)>>
  BY <1>1, <1>3
<1> HIDE DEF m, o
<1>5. ASSUME NEW p \in 1 .. Len(roles)
      PROVE  IF roles[p] = 0 THEN TypeAt(m, p) = TypeAt(o, p)
             ELSE /\ TypeAt(m, p).name = items[roles[p]].name
                  /\ TypeAt(m, p).pointer = items[roles[p]].pointer
                  /\ p < Len(roles) => TypeAt(m, p) = ByValue(items[roles[p]])
  <2>1. CASE p \in 1 .. n
    BY <1>2, <1>7, <2>1, ItemTypes DEF Typed
  <2>2. CASE p = n + 1
    BY <1>2, <1>7, <2>2, ItemTypes DEF Typed
  <2> QED BY <2>1, <2>2
<1> QED BY <1>1, <1>3, <1>4, <1>5 DEF Fits, m, o

LEMMA FitsOne ==
  ASSUME NEW name, NEW result, NEW items
  PROVE  Fits(Member(name, <<>>, result), name, <<0>>, items, Member(name, <<>>, result))
<1>1. /\ Len(<<0>>) = 0 + 1 /\ Len(<<>>) = 0 /\ DOMAIN <<>> = 1 .. 0 /\ <<0>>[1] = 0
      /\ 0 \in Nat /\ 1 .. 0 = {} /\ 1 .. 0 + 1 = {1}
  OBVIOUS
<1> QED BY <1>1, FitsMember DEF Typed

LEMMA FitsTwo ==
  ASSUME NEW name, NEW a, NEW b, NEW p1, NEW q1, NEW result, NEW rest, NEW items,
         IF a = 0 THEN p1 = q1 ELSE p1 = ByValue(items[a]) /\ items[a] \in Item,
         IF b = 0 THEN result = rest ELSE result = Returned(items[b]) /\ items[b] \in Item
  PROVE  Fits(Member(name, <<p1>>, result), name, <<a, b>>, items, Member(name, <<q1>>, rest))
<1> DEFINE roles == <<a, b>>
           params == <<p1>>
           others == <<q1>>
<1>1. /\ Len(roles) = 1 + 1 /\ Len(params) = 1 /\ Len(others) = 1
      /\ DOMAIN params = 1 .. 1 /\ DOMAIN others = 1 .. 1
      /\ roles[1] = a /\ roles[1 + 1] = b /\ params[1] = p1 /\ others[1] = q1
      /\ \A p \in 1 .. 1 : p = 1
      /\ \A p \in 1 .. 1 + 1 : p = 1 \/ p = 1 + 1
  OBVIOUS
<1> HIDE DEF roles, params, others
<1>2. /\ \A p \in 1 .. 1 : IF roles[p] = 0 THEN params[p] = others[p]
                           ELSE params[p] = ByValue(items[roles[p]])
      /\ IF roles[1 + 1] = 0 THEN result = rest ELSE result = Returned(items[roles[1 + 1]])
      /\ \A p \in 1 .. 1 + 1 : roles[p] # 0 => items[roles[p]] \in Item
  BY <1>1
<1>3. Fits(Member(name, params, result), name, roles, items, Member(name, others, rest))
  BY <1>1, <1>2, FitsMember DEF Typed
<1> QED BY <1>3 DEF roles, params, others

LEMMA FitsThree ==
  ASSUME NEW name, NEW a, NEW b, NEW p1, NEW p2, NEW q1, NEW q2, NEW result, NEW items,
         IF a = 0 THEN p1 = q1 ELSE p1 = ByValue(items[a]) /\ items[a] \in Item,
         IF b = 0 THEN p2 = q2 ELSE p2 = ByValue(items[b]) /\ items[b] \in Item
  PROVE  Fits(Member(name, <<p1, p2>>, result), name, <<a, b, 0>>, items,
              Member(name, <<q1, q2>>, result))
<1> DEFINE roles == <<a, b, 0>>
           params == <<p1, p2>>
           others == <<q1, q2>>
<1>1. /\ Len(roles) = 2 + 1 /\ Len(params) = 2 /\ Len(others) = 2
      /\ DOMAIN params = 1 .. 2 /\ DOMAIN others = 1 .. 2
      /\ roles[1] = a /\ roles[2] = b /\ roles[2 + 1] = 0
      /\ params[1] = p1 /\ params[2] = p2 /\ others[1] = q1 /\ others[2] = q2
      /\ \A p \in 1 .. 2 : p = 1 \/ p = 2
      /\ \A p \in 1 .. 2 + 1 : p = 1 \/ p = 2 \/ p = 2 + 1
  OBVIOUS
<1> HIDE DEF roles, params, others
<1>2. /\ \A p \in 1 .. 2 : IF roles[p] = 0 THEN params[p] = others[p]
                           ELSE params[p] = ByValue(items[roles[p]])
      /\ \A p \in 1 .. 2 + 1 : roles[p] # 0 => items[roles[p]] \in Item
  BY <1>1
<1>3. Fits(Member(name, params, result), name, roles, items, Member(name, others, result))
  BY <1>1, <1>2, FitsMember DEF Typed
<1> QED BY <1>3 DEF roles, params, others

LEMMA FitsConstructor ==
  ASSUME NEW name, NEW items
  PROVE  /\ IsConstructor(Constructor(name))
         /\ Fits(Constructor(name), name, <<0>>, items, Constructor(name))
<1> DEFINE m == Member(name, <<>>, Plain("void"))
           k == Constructor(name)
<1>1. m = [name |-> name, const |-> FALSE, ctor |-> FALSE, result |-> Plain("void"),
           params |-> [i \in DOMAIN <<>> |-> [type |-> <<>>[i], out |-> FALSE]]]
  BY DEF Member
<1>2. k = [m EXCEPT !.ctor = TRUE]
  BY DEF Constructor
<1> HIDE DEF m, k
<1>3. k.ctor = TRUE /\ k.name = m.name /\ k.const = m.const /\ k.params = m.params
  BY <1>1, <1>2
<1>0. Len(<<>>) = 0 /\ DOMAIN <<>> = 1 .. 0 /\ 0 \in Nat
  OBVIOUS
<1>4. ShapeKey(m) = <<name, FALSE, NoneOut(0)>> /\ Len(m.params) = 0
  BY <1>0, MemberShape, MemberArity DEF m
<1>5. ShapeKey(k) = ShapeKey(m)
  BY <1>3 DEF ShapeKey
<1> DEFINE roles == <<0>>
<1>6. Len(roles) - 1 = 0 /\ Len(roles) = 1 /\ \A p \in 1 .. 1 : roles[p] = 0
  OBVIOUS
<1> HIDE DEF roles
<1>7. Fits(k, name, roles, items, k)
  BY <1>3, <1>4, <1>5, <1>6 DEF Fits
<1> QED BY <1>3, <1>7 DEF k, roles, IsConstructor

\* The members that add_vector, add_map and add_unordered_map register are laid out
\* like this (vector.hpp:269-297, map.hpp:491-587).
LEMMA VectorLayout ==
  ASSUME NEW s, NEW t, s[1] \in Item, t[1] \in Item
  PROVE  LaidOut(VectorMembers(s[1]), VectorMembers(t[1]), "Vector", s)
<1> DEFINE a == VectorMembers(s[1])
           b == VectorMembers(t[1])
           x1 == ByValue(s[1])
           y1 == ByValue(t[1])
           rx1 == Returned(s[1])
           ry1 == Returned(t[1])
           int == Plain("int")
           void == Plain("void")
           bool == Plain("bool")
<1>1. /\ Len(a) = 11 /\ DOMAIN a = 1 .. 11
      /\ a[1] = Constructor("Vector")
      /\ a[2] = Member("size", <<>>, Plain("ulong"))
      /\ a[3] = Member("Clear", <<>>, void)
      /\ a[4] = Member("Add", <<x1>>, void)
      /\ a[5] = Member("Contains", <<x1>>, bool)
      /\ a[6] = Member("IndexOf", <<x1>>, int)
      /\ a[7] = Member("__get", <<int>>, rx1)
      /\ a[8] = Member("__set", <<int, x1>>, void)
      /\ a[9] = Member("__insert", <<int, x1>>, void)
      /\ a[10] = Member("__erase_at", <<int>>, void)
      /\ a[11] = Member("Remove", <<x1>>, bool)
  BY DEF VectorMembers
<1>2. /\ b[1] = Constructor("Vector")
      /\ b[2] = Member("size", <<>>, Plain("ulong"))
      /\ b[3] = Member("Clear", <<>>, void)
      /\ b[4] = Member("Add", <<y1>>, void)
      /\ b[5] = Member("Contains", <<y1>>, bool)
      /\ b[6] = Member("IndexOf", <<y1>>, int)
      /\ b[7] = Member("__get", <<int>>, ry1)
      /\ b[8] = Member("__set", <<int, y1>>, void)
      /\ b[9] = Member("__insert", <<int, y1>>, void)
      /\ b[10] = Member("__erase_at", <<int>>, void)
      /\ b[11] = Member("Remove", <<y1>>, bool)
  BY DEF VectorMembers
<1> HIDE DEF a, b, int, void, bool
<1>3. /\ x1 = ByValue(s[1]) /\ rx1 = Returned(s[1])
  OBVIOUS
<1> HIDE DEF x1, y1, rx1, ry1
<1>4. Fits(a[1], "Vector", <<0>>, s, b[1])
  BY <1>1, <1>2, <1>3, FitsConstructor
<1>5. Fits(a[2], "size", <<0>>, s, b[2])
  BY <1>1, <1>2, <1>3, FitsOne
<1>6. Fits(a[3], "Clear", <<0>>, s, b[3])
  BY <1>1, <1>2, <1>3, FitsOne
<1>7. Fits(a[4], "Add", <<1, 0>>, s, b[4])
  BY <1>1, <1>2, <1>3, FitsTwo
<1>8. Fits(a[5], "Contains", <<1, 0>>, s, b[5])
  BY <1>1, <1>2, <1>3, FitsTwo
<1>9. Fits(a[6], "IndexOf", <<1, 0>>, s, b[6])
  BY <1>1, <1>2, <1>3, FitsTwo
<1>10. Fits(a[7], "__get", <<0, 1>>, s, b[7])
  BY <1>1, <1>2, <1>3, FitsTwo
<1>11. Fits(a[8], "__set", <<0, 1, 0>>, s, b[8])
  BY <1>1, <1>2, <1>3, FitsThree
<1>12. Fits(a[9], "__insert", <<0, 1, 0>>, s, b[9])
  BY <1>1, <1>2, <1>3, FitsThree
<1>13. Fits(a[10], "__erase_at", <<0, 0>>, s, b[10])
  BY <1>1, <1>2, <1>3, FitsTwo
<1>14. Fits(a[11], "Remove", <<1, 0>>, s, b[11])
  BY <1>1, <1>2, <1>3, FitsTwo
<1>15. ASSUME NEW k \in 1 .. 11 
      PROVE  IF k = 1 THEN IsConstructor(a[k]) ELSE IsMethod(a[k])
  <2>1. CASE k = 1
    BY <1>1, <2>1, FitsConstructor
  <2>2. CASE k # 1
    <3>1. /\ IsMethod(a[2])
          /\ IsMethod(a[3])
          /\ IsMethod(a[4])
          /\ IsMethod(a[5])
          /\ IsMethod(a[6])
          /\ IsMethod(a[7])
          /\ IsMethod(a[8])
          /\ IsMethod(a[9])
          /\ IsMethod(a[10])
          /\ IsMethod(a[11])
      BY <1>1, MemberCtor
    <3> QED BY <2>2, <3>1
  <2> QED BY <2>1, <2>2
<1>16. ASSUME NEW k \in 1 .. 11
      PROVE  Fits(a[k], MemberNames("Vector")[k], Layout("Vector")[k], s, b[k])
  BY <1>4, <1>5, <1>6, <1>7, <1>8, <1>9, <1>10, <1>11, <1>12, <1>13, <1>14 DEF MemberNames, Layout
<1>17. Members("Vector") = 11
  BY DEF Members, Layout
<1> QED BY <1>1, <1>15, <1>16, <1>17 DEF LaidOut, a, b

LEMMA MapLayout ==
  ASSUME NEW s, NEW t, s[1] \in Item, s[2] \in Item, t[1] \in Item, t[2] \in Item
  PROVE  LaidOut(MapMembers(s[1], s[2]), MapMembers(t[1], t[2]), "Map", s)
<1> DEFINE a == MapMembers(s[1], s[2])
           b == MapMembers(t[1], t[2])
           x1 == ByValue(s[1])
           x2 == ByValue(s[2])
           y1 == ByValue(t[1])
           y2 == ByValue(t[2])
           rx1 == Returned(s[1])
           rx2 == Returned(s[2])
           ry1 == Returned(t[1])
           ry2 == Returned(t[2])
           int == Plain("int")
           void == Plain("void")
           bool == Plain("bool")
<1>1. /\ Len(a) = 10 /\ DOMAIN a = 1 .. 10
      /\ a[1] = Constructor("Map")
      /\ a[2] = Member("size", <<>>, Plain("ulong"))
      /\ a[3] = Member("Clear", <<>>, void)
      /\ a[4] = Member("__add", <<x1, x2>>, void)
      /\ a[5] = Member("ContainsKey", <<x1>>, bool)
      /\ a[6] = Member("__get", <<x1>>, rx2)
      /\ a[7] = Member("__set", <<x1, x2>>, void)
      /\ a[8] = Member("__get_key_at", <<int>>, rx1)
      /\ a[9] = Member("__get_value_at", <<int>>, rx2)
      /\ a[10] = Member("Remove", <<x1>>, bool)
  BY DEF MapMembers
<1>2. /\ b[1] = Constructor("Map")
      /\ b[2] = Member("size", <<>>, Plain("ulong"))
      /\ b[3] = Member("Clear", <<>>, void)
      /\ b[4] = Member("__add", <<y1, y2>>, void)
      /\ b[5] = Member("ContainsKey", <<y1>>, bool)
      /\ b[6] = Member("__get", <<y1>>, ry2)
      /\ b[7] = Member("__set", <<y1, y2>>, void)
      /\ b[8] = Member("__get_key_at", <<int>>, ry1)
      /\ b[9] = Member("__get_value_at", <<int>>, ry2)
      /\ b[10] = Member("Remove", <<y1>>, bool)
  BY DEF MapMembers
<1> HIDE DEF a, b, int, void, bool
<1>3. /\ x1 = ByValue(s[1]) /\ rx1 = Returned(s[1])
      /\ x2 = ByValue(s[2]) /\ rx2 = Returned(s[2])
  OBVIOUS
<1> HIDE DEF x1, y1, rx1, ry1, x2, y2, rx2, ry2
<1>4. Fits(a[1], "Map", <<0>>, s, b[1])
  BY <1>1, <1>2, <1>3, FitsConstructor
<1>5. Fits(a[2], "size", <<0>>, s, b[2])
  BY <1>1, <1>2, <1>3, FitsOne
<1>6. Fits(a[3], "Clear", <<0>>, s, b[3])
  BY <1>1, <1>2, <1>3, FitsOne
<1>7. Fits(a[4], "__add", <<1, 2, 0>>, s, b[4])
  BY <1>1, <1>2, <1>3, FitsThree
<1>8. Fits(a[5], "ContainsKey", <<1, 0>>, s, b[5])
  BY <1>1, <1>2, <1>3, FitsTwo
<1>9. Fits(a[6], "__get", <<1, 2>>, s, b[6])
  BY <1>1, <1>2, <1>3, FitsTwo
<1>10. Fits(a[7], "__set", <<1, 2, 0>>, s, b[7])
  BY <1>1, <1>2, <1>3, FitsThree
<1>11. Fits(a[8], "__get_key_at", <<0, 1>>, s, b[8])
  BY <1>1, <1>2, <1>3, FitsTwo
<1>12. Fits(a[9], "__get_value_at", <<0, 2>>, s, b[9])
  BY <1>1, <1>2, <1>3, FitsTwo
<1>13. Fits(a[10], "Remove", <<1, 0>>, s, b[10])
  BY <1>1, <1>2, <1>3, FitsTwo
<1>14. ASSUME NEW k \in 1 .. 10 
      PROVE  IF k = 1 THEN IsConstructor(a[k]) ELSE IsMethod(a[k])
  <2>1. CASE k = 1
    BY <1>1, <2>1, FitsConstructor
  <2>2. CASE k # 1
    <3>1. /\ IsMethod(a[2])
          /\ IsMethod(a[3])
          /\ IsMethod(a[4])
          /\ IsMethod(a[5])
          /\ IsMethod(a[6])
          /\ IsMethod(a[7])
          /\ IsMethod(a[8])
          /\ IsMethod(a[9])
          /\ IsMethod(a[10])
      BY <1>1, MemberCtor
    <3> QED BY <2>2, <3>1
  <2> QED BY <2>1, <2>2
<1>15. ASSUME NEW k \in 1 .. 10
      PROVE  Fits(a[k], MemberNames("Map")[k], Layout("Map")[k], s, b[k])
  BY <1>4, <1>5, <1>6, <1>7, <1>8, <1>9, <1>10, <1>11, <1>12, <1>13 DEF MemberNames, Layout
<1>16. Members("Map") = 10
  BY DEF Members, Layout
<1> QED BY <1>1, <1>14, <1>15, <1>16 DEF LaidOut, a, b

\* How many types the items of a container have.
Width(kind) == IF kind = "Vector" THEN 1 ELSE 2

\* A member has at most two parameters, and a map's keys come before its values.
InOrder(roles, width) ==
  /\ Len(roles) \in 1 .. 3
  /\ \A p \in 1 .. Len(roles) : roles[p] \in 0 .. width
  /\ \A p, q \in 1 .. Len(roles) : p < q /\ roles[p] # 0 /\ roles[q] # 0 => roles[p] <= roles[q]

LEMMA LayoutFacts ==
  ASSUME NEW kind \in Kinds
  PROVE  /\ Members(kind) \in Nat /\ Members(kind) > 4
         /\ \A k \in 1 .. Members(kind) : InOrder(Layout(kind)[k], Width(kind))
         /\ \A k, l \in 1 .. Members(kind) : MemberNames(kind)[k] = MemberNames(kind)[l] => k = l
         /\ kind # "Vector" =>
              Layout(kind)[2] = <<0>> /\ Layout(kind)[3] = <<0>> /\ Layout(kind)[4] = <<1, 2, 0>>
<1> DEFINE Good(roles) == InOrder(roles, Width(kind))
<1>1. /\ Good(<<0>>) /\ Good(<<1, 0>>) /\ Good(<<0, 1>>) /\ Good(<<0, 1, 0>>) /\ Good(<<0, 0>>)
  BY DEF InOrder, Width
<1>2. kind # "Vector" => Good(<<1, 2, 0>>) /\ Good(<<1, 2>>) /\ Good(<<0, 2>>)
  BY DEF InOrder, Width
<1> HIDE DEF Good
<1>3. CASE kind = "Vector"
  <2>1. Members(kind) = 11
    BY <1>3 DEF Members, Layout
  <2>2. \A k \in 1 .. 11 : Good(Layout(kind)[k])
    BY <1>1, <1>3 DEF Layout
  <2>3. \A k, l \in 1 .. 11 : MemberNames(kind)[k] = MemberNames(kind)[l] => k = l
    BY <1>3 DEF MemberNames
  <2> QED BY <1>3, <2>1, <2>2, <2>3 DEF Good
<1>4. CASE kind # "Vector"
  <2>1. Members(kind) = 10
    BY <1>4 DEF Members, Layout
  <2>2. \A k \in 1 .. 10 : Good(Layout(kind)[k])
    BY <1>1, <1>2, <1>4 DEF Layout
  <2>3. \A k, l \in 1 .. 10 : MemberNames(kind)[k] = MemberNames(kind)[l] => k = l
    BY <1>4 DEF MemberNames
  <2>4. Layout(kind)[2] = <<0>> /\ Layout(kind)[3] = <<0>> /\ Layout(kind)[4] = <<1, 2, 0>>
    BY <1>4 DEF Layout
  <2> QED BY <2>1, <2>2, <2>3, <2>4 DEF Good
<1> QED BY <1>3, <1>4

\* The classes of a group, and the types of the items of each.
AllLaidOut(group, kind, of) ==
  /\ Len(of) \in Nat /\ Len(of) > 0 /\ DOMAIN of = 1 .. Len(of)
  /\ DOMAIN group = 1 .. Len(of)
  /\ \A c \in 1 .. Len(of) : LaidOut(group[c], group[1], kind, of[c])

LEMMA GroupLaidOut ==
  ASSUME NEW g \in Groups
  PROVE  AllLaidOut(ClassesOf(g), g.kind, g.of)
<1>1. /\ g.kind \in Kinds /\ g.of \in Seq(Seq(Item)) /\ Len(g.of) > 0
      /\ \A c \in DOMAIN g.of : Len(g.of[c]) = Width(g.kind)
  BY GroupsAssumption DEF Width
<1>2. Len(g.of) \in Nat /\ DOMAIN g.of = 1 .. Len(g.of) /\ 1 \in 1 .. Len(g.of)
  BY <1>1
<1>3. ASSUME NEW c \in 1 .. Len(g.of), NEW i \in 1 .. Width(g.kind) PROVE g.of[c][i] \in Item
  <2>1. g.of[c] \in Seq(Item)
    BY <1>1
  <2>2. Len(g.of[c]) = Width(g.kind)
    BY <1>1, <1>2
  <2> QED BY <2>1, <2>2
<1> DEFINE group == ClassesOf(g)
<1>4. DOMAIN group = 1 .. Len(g.of)
  BY <1>2 DEF ClassesOf
<1>5. ASSUME NEW c \in 1 .. Len(g.of) PROVE LaidOut(group[c], group[1], g.kind, g.of[c])
  <2>1. CASE g.kind = "Vector"
    <3>1. g.of[c][1] \in Item /\ g.of[1][1] \in Item
      BY <1>2, <1>3, <2>1 DEF Width
    <3>2. group[c] = VectorMembers(g.of[c][1]) /\ group[1] = VectorMembers(g.of[1][1])
      BY <1>2, <2>1 DEF ClassesOf
    <3> QED BY <2>1, <3>1, <3>2, VectorLayout
  <2>2. CASE g.kind # "Vector"
    <3>1. g.of[c][1] \in Item /\ g.of[c][2] \in Item /\ g.of[1][1] \in Item /\ g.of[1][2] \in Item
      BY <1>2, <1>3, <2>2 DEF Width
    <3>2. /\ group[c] = MapMembers(g.of[c][1], g.of[c][2])
          /\ group[1] = MapMembers(g.of[1][1], g.of[1][2])
      BY <1>2, <2>2 DEF ClassesOf
    <3>3. LaidOut(group[c], group[1], "Map", g.of[c])
      BY <3>1, <3>2, MapLayout
    <3>4. Layout(g.kind) = Layout("Map") /\ MemberNames(g.kind) = MemberNames("Map")
      BY <2>2 DEF Layout, MemberNames
    <3> QED BY <3>3, <3>4 DEF LaidOut, Members
  <2> QED BY <2>1, <2>2
<1> QED BY <1>2, <1>4, <1>5 DEF AllLaidOut

-----------------------------------------------------------------------------
(***************************************************************************)
(* The rows of a group: the methods, then the constructor.                 *)
(***************************************************************************)
\* No two members of a class have the same shape, so that a row is a place.
LEMMA SameShape ==
  ASSUME NEW group, NEW kind \in Kinds, NEW of, AllLaidOut(group, kind, of),
         NEW c \in 1 .. Len(of), NEW k \in 1 .. Members(kind)
  PROVE  FirstOfShape(group[c], group[1][k]) = k
<1> DEFINE I == {i \in 1 .. Len(group[c]) : group[c][i].ctor = group[1][k].ctor
                                            /\ ShapeKey(group[c][i]) = ShapeKey(group[1][k])}
           names == MemberNames(kind)
           Shape(i) == <<names[i], FALSE, NoneOut(Len(Layout(kind)[i]) - 1)>>
<1>1. FirstOfShape(group[c], group[1][k]) = IF I # {} THEN Min(I) ELSE 0
  BY DEF FirstOfShape, SelectInSeq
<1>2. LaidOut(group[c], group[1], kind, of[c]) /\ LaidOut(group[1], group[1], kind, of[1])
  BY DEF AllLaidOut
<1>3. Len(group[c]) = Members(kind)
  BY <1>2 DEF LaidOut
<1>4. group[c][k].ctor = group[1][k].ctor
  BY <1>2 DEF LaidOut, IsConstructor, IsMethod
<1>5. ASSUME NEW i \in 1 .. Members(kind)
      PROVE  /\ ShapeKey(group[c][i]) = Shape(i)
             /\ ShapeKey(group[1][i]) = Shape(i)
  BY <1>2 DEF LaidOut, Fits
<1>10. \A i \in 1 .. Members(kind) : Shape(i)[1] = names[i]
  OBVIOUS
<1> HIDE DEF Shape
<1>6. k \in I
  BY <1>3, <1>4, <1>5
<1>7. ASSUME NEW i \in I PROVE i = k
  <2>1. i \in 1 .. Members(kind) /\ ShapeKey(group[c][i]) = ShapeKey(group[1][k])
    BY <1>3
  <2>2. names[i] = names[k]
    BY <1>5, <1>10, <2>1
  <2> QED BY <2>1, <2>2, LayoutFacts
<1> HIDE DEF I
<1>8. I = {k}
  BY <1>6, <1>7
<1>9. Min(I) = k
  BY <1>8, LeastNat
<1> QED BY <1>1, <1>6, <1>9

\* The n-th of an interval.
LEMMA NthInterval ==
  ASSUME NEW a \in Nat, NEW b \in Nat, NEW n \in 1 .. b - a + 1
  PROVE  Nth(a .. b, n) = a + n - 1
<1>1. \A p \in a .. b : {q \in a .. b : q <= p} = a .. p
  OBVIOUS
<1>2. \A p \in a .. b : Cardinality(a .. p) = p - a + 1
  BY FS_Interval
<1>3. \A p \in a .. b : Cardinality({q \in a .. b : q <= p}) = n <=> p = a + n - 1
  <2>1. ASSUME NEW p \in a .. b
        PROVE  Cardinality({q \in a .. b : q <= p}) = n <=> p = a + n - 1
    <3>1. Cardinality({q \in a .. b : q <= p}) = p - a + 1
      BY <1>1, <1>2
    <3>2. p \in Int
      OBVIOUS
    <3> HIDE DEF Nth
    <3> QED BY <3>1, <3>2
  <2> QED BY <2>1
<1>4. a + n - 1 \in a .. b
  OBVIOUS
<1> QED BY <1>3, <1>4 DEF Nth

\* The place of a row in the classes.
Place(kind, r) == IF r < Members(kind) THEN r + 1 ELSE 1

\* The members at one place of all classes.
RowOf(group, k) == [c \in DOMAIN group |-> group[c][k]]

LEMMA RowsFacts ==
  ASSUME NEW group, NEW kind \in Kinds, NEW of, AllLaidOut(group, kind, of)
  PROVE  /\ Len(AllRows(group)) = Members(kind)
         /\ DOMAIN AllRows(group) = 1 .. Members(kind)
         /\ \A r \in 1 .. Members(kind) : AllRows(group)[r] = RowOf(group, Place(kind, r))
<1> DEFINE m == Members(kind)
           Shared(ctor) == {k \in DOMAIN group[1] :
                              /\ group[1][k].ctor = ctor
                              /\ \A any \in Range(group) : FirstOfShape(any, group[1][k]) # 0}
<1>1. /\ m \in Nat /\ m > 4
      /\ DOMAIN group = 1 .. Len(of) /\ 1 \in 1 .. Len(of)
  BY LayoutFacts DEF AllLaidOut
<1>2. DOMAIN group[1] = 1 .. m
  BY <1>1 DEF AllLaidOut, LaidOut
<1>3. \A c \in DOMAIN group : \A k \in 1 .. m : FirstOfShape(group[c], group[1][k]) = k
  BY <1>1, SameShape
<1>4. \A any \in Range(group) : \A k \in 1 .. m : FirstOfShape(any, group[1][k]) = k
  BY <1>3 DEF Range
<1>5. \A k \in 1 .. m : IF k = 1 THEN group[1][k].ctor = TRUE ELSE group[1][k].ctor = FALSE
  BY <1>1 DEF AllLaidOut, LaidOut, IsConstructor, IsMethod
<1>6. Shared(FALSE) = 2 .. m
  BY <1>1, <1>2, <1>4, <1>5
<1>7. Shared(TRUE) = {1}
  BY <1>1, <1>2, <1>4, <1>5
<1>8. Rows(group, FALSE) = [r \in 1 .. m - 1 |-> RowOf(group, r + 1)]
  <2>1. Cardinality(2 .. m) = m - 1
    BY <1>1, FS_Interval
  <2>2. \A r \in 1 .. m - 1 : Nth(2 .. m, r) = r + 1 /\ r + 1 \in 1 .. m
    BY <1>1, NthInterval, SMTT(60)
  <2>3. \A r \in 1 .. m - 1 :
          [c \in DOMAIN group |-> group[c][FirstOfShape(group[c], group[1][Nth(2 .. m, r)])]]
            = RowOf(group, r + 1)
    BY <1>3, <2>2 DEF RowOf
  <2> QED BY <1>6, <2>1, <2>3 DEF Rows
<1>9. Rows(group, TRUE) = [r \in 1 .. 1 |-> RowOf(group, 1)]
  <2>1. Cardinality({1}) = 1
    BY FS_Singleton
  <2>2. Nth({1}, 1) = 1
    <3>1. {q \in {1} : q <= 1} = {1}
      OBVIOUS
    <3> QED BY <2>1, <3>1 DEF Nth
  <2>3. [c \in DOMAIN group |-> group[c][FirstOfShape(group[c], group[1][Nth({1}, 1)])]]
          = RowOf(group, 1)
    BY <1>1, <1>3, <2>2 DEF RowOf
  <2>4. Rows(group, TRUE) = [r \in 1 .. 1 |->
          [c \in DOMAIN group |-> group[c][FirstOfShape(group[c], group[1][Nth({1}, r)])]]]
    BY <1>7, <2>1 DEF Rows
  <2>5. \A r \in 1 .. 1 : r = 1
    OBVIOUS
  <2> QED BY <2>3, <2>4, <2>5
<1> HIDE DEF Shared, m
<1> DEFINE methods == [r \in 1 .. m - 1 |-> RowOf(group, r + 1)]
           constructors == [r \in 1 .. 1 |-> RowOf(group, 1)]
<1>10. /\ methods \in Seq({RowOf(group, k) : k \in 1 .. m})
       /\ constructors \in Seq({RowOf(group, k) : k \in 1 .. m})
       /\ Len(methods) = m - 1 /\ Len(constructors) = 1
  BY <1>1, SMTT(60)
<1>11. AllRows(group) = methods \o constructors
  BY <1>8, <1>9 DEF AllRows
<1>12. /\ Len(methods \o constructors) = m /\ DOMAIN (methods \o constructors) = 1 .. m
       /\ \A r \in 1 .. m - 1 : (methods \o constructors)[r] = RowOf(group, r + 1)
       /\ (methods \o constructors)[m] = RowOf(group, 1)
  BY <1>1, <1>10
<1>13. ASSUME NEW r \in 1 .. m PROVE AllRows(group)[r] = RowOf(group, Place(kind, r))
  BY <1>1, <1>11, <1>12 DEF Place, m
<1> QED BY <1>11, <1>12, <1>13 DEF m

-----------------------------------------------------------------------------
(***************************************************************************)
(* The slots of a row: at most one for each type of the items, in order.   *)
(***************************************************************************)
\* The names of a type of the items in the instantiations.
NameColumn(of, i) == [c \in 1 .. Len(of) |-> of[c][i].name]

\* A slot is the first position of its column; a position that varies is of some type of
\* the items; and it is a pointer in the instantiations where the item is.
FirstOfColumns(row, n) ==
  SlotPositions(row) = {p \in 1 .. n :
    Varies(row, p) /\ \A q \in 1 .. p - 1 : Varies(row, q) => Column(row, q) # Column(row, p)}

NamesItems(row, roles, of, width) ==
  \A p \in 1 .. Len(roles) : Varies(row, p) =>
    roles[p] \in 1 .. width /\ Column(row, p) = NameColumn(of, roles[p])

KeepsPointers(row, roles, of) ==
  \A p \in 1 .. Len(roles), c \in 1 .. Len(of) :
    roles[p] # 0 => TypeAt(row[c], p).pointer = of[c][roles[p]].pointer

LEMMA PositionFacts ==
  ASSUME NEW group, NEW kind \in Kinds, NEW of, AllLaidOut(group, kind, of),
         NEW k \in 1 .. Members(kind)
  PROVE  /\ Len(Layout(kind)[k]) \in 1 .. 3
         /\ FirstOfColumns(RowOf(group, k), Len(Layout(kind)[k]))
         /\ NamesItems(RowOf(group, k), Layout(kind)[k], of, Width(kind))
         /\ KeepsPointers(RowOf(group, k), Layout(kind)[k], of)
<1> DEFINE row == RowOf(group, k)
           roles == Layout(kind)[k]
<1>1. DOMAIN row = 1 .. Len(of) /\ \A c \in 1 .. Len(of) : row[c] = group[c][k]
  BY DEF AllLaidOut, RowOf
<1>2. InOrder(roles, Width(kind))
  BY LayoutFacts
<1>3. Len(roles) \in 1 .. 3 /\ \A p \in 1 .. Len(roles) : roles[p] \in 0 .. Width(kind)
  BY <1>2 DEF InOrder
<1>4. ASSUME NEW c \in 1 .. Len(of)
      PROVE  Fits(row[c], MemberNames(kind)[k], roles, of[c], row[1])
  BY <1>1 DEF AllLaidOut, LaidOut
<1>5. 1 \in 1 .. Len(of)
  BY DEF AllLaidOut
<1> HIDE DEF row, roles
<1>6. Len(row[1].params) = Len(roles) - 1
  BY <1>4, <1>5 DEF Fits
<1>7. ASSUME NEW p \in 1 .. Len(roles), Varies(row, p)
      PROVE  roles[p] \in 1 .. Width(kind) /\ Column(row, p) = NameColumn(of, roles[p])
  <2>1. PICK c \in 1 .. Len(of) : TypeAt(row[c], p) # TypeAt(row[1], p)
    BY <1>1, <1>7 DEF Varies
  <2>2. roles[p] # 0
    BY <1>4, <2>1 DEF Fits
  <2>3. \A d \in 1 .. Len(of) : TypeAt(row[d], p).name = of[d][roles[p]].name
    BY <1>4, <2>2 DEF Fits
  <2>4. Column(row, p) = NameColumn(of, roles[p])
    BY <1>1, <2>3 DEF Column, NameColumn
  <2>5. roles[p] \in 0 .. Width(kind) /\ Width(kind) \in Nat
    BY <1>3 DEF Width
  <2> QED BY <2>2, <2>4, <2>5
<1>8. \A p \in 1 .. Len(roles), c \in 1 .. Len(of) : roles[p] # 0 =>
        TypeAt(row[c], p).pointer = of[c][roles[p]].pointer
  BY <1>4 DEF Fits
<1>9. Len(row[1].params) + 1 = Len(roles)
  BY <1>3, <1>6
<1>10. SlotPositions(row) = {p \in 1 .. Len(roles) :
         Varies(row, p) /\ \A q \in 1 .. p - 1 : Varies(row, q) => Column(row, q) # Column(row, p)}
  BY <1>9 DEF SlotPositions
<1>11. FirstOfColumns(row, Len(roles)) /\ NamesItems(row, roles, of, Width(kind))
  BY <1>7, <1>10 DEF FirstOfColumns, NamesItems
<1>12. KeepsPointers(row, roles, of)
  BY <1>8 DEF KeepsPointers
<1> QED BY <1>3, <1>11, <1>12 DEF row, roles

\* The first and the second of at most two positions.
LEMMA NthOfFew ==
  ASSUME NEW p \in Nat, NEW q \in Nat, p < q
  PROVE  /\ Cardinality({p}) = 1 /\ Cardinality({p, q}) = 2
         /\ Nth({p}, 1) = p /\ Nth({p, q}, 1) = p /\ Nth({p, q}, 2) = q
<1>1. Cardinality({p}) = 1 /\ IsFiniteSet({p})
  BY FS_Singleton
<1>2. Cardinality({p, q}) = 2
  <2>1. {p, q} = {p} \cup {q} /\ q \notin {p}
    OBVIOUS
  <2>2. Cardinality({p} \cup {q}) = 1 + 1
    BY <1>1, <2>1, FS_AddElement
  <2> QED BY <2>1, <2>2
<1>3. {x \in {p} : x <= p} = {p} /\ {x \in {p, q} : x <= p} = {p} /\ {x \in {p, q} : x <= q} = {p, q}
  OBVIOUS
<1>4. Nth({p}, 1) = p
  BY <1>1, <1>3 DEF Nth
<1>5. Nth({p, q}, 1) = p
  BY <1>1, <1>2, <1>3 DEF Nth
<1>6. Nth({p, q}, 2) = q
  BY <1>1, <1>2, <1>3 DEF Nth
<1> QED BY <1>1, <1>2, <1>4, <1>5, <1>6

\* What the slots of a row may be.
NoSlot(row) == SlotPositions(row) = {}
OneSlot(row, p) == SlotPositions(row) = {p}
TwoSlots(row, p, q) == SlotPositions(row) = {p, q} /\ p < q

\* A row has a slot for the keys and one for the items or values, in this order, or fewer.
LEMMA SlotCases ==
  ASSUME NEW group, NEW kind \in Kinds, NEW of, AllLaidOut(group, kind, of),
         NEW k \in 1 .. Members(kind)
  PROVE  LET row == RowOf(group, k)
             roles == Layout(kind)[k]
         IN \/ NoSlot(row)
            \/ \E p \in 1 .. Len(roles) : OneSlot(row, p)
            \/ \E p, q \in 1 .. Len(roles) :
                 TwoSlots(row, p, q) /\ roles[p] = 1 /\ roles[q] = 2 /\ Width(kind) = 2
<1> DEFINE row == RowOf(group, k)
           roles == Layout(kind)[k]
           S == SlotPositions(row)
<1>0. /\ Len(roles) \in 1 .. 3 /\ FirstOfColumns(row, Len(roles))
      /\ NamesItems(row, roles, of, Width(kind))
  BY PositionFacts
<1>2. InOrder(roles, Width(kind))
  BY LayoutFacts
<1>3. Width(kind) \in {1, 2}
  BY DEF Width
<1> HIDE DEF row, roles
<1>1. S = {p \in 1 .. Len(roles) :
             Varies(row, p) /\ \A q \in 1 .. p - 1 : Varies(row, q) => Column(row, q) # Column(row, p)}
  BY <1>0 DEF FirstOfColumns
<1>9. \A p \in 1 .. Len(roles) : Varies(row, p) =>
        roles[p] \in 1 .. Width(kind) /\ Column(row, p) = NameColumn(of, roles[p])
  BY <1>0 DEF NamesItems
<1> HIDE DEF S
<1>4. ASSUME NEW p \in S PROVE p \in 1 .. Len(roles) /\ p \in Int /\ roles[p] \in 1 .. Width(kind)
  BY <1>0, <1>1, <1>9
<1>5. ASSUME NEW p \in S, NEW q \in S, p < q PROVE roles[p] = 1 /\ roles[q] = 2 /\ Width(kind) = 2
  <2>1. p \in 1 .. q - 1 /\ Varies(row, p) /\ Varies(row, q)
    BY <1>1, <1>4, <1>5
  <2>2. Column(row, p) # Column(row, q)
    BY <1>1, <2>1
  <2>3. roles[p] # roles[q]
    BY <1>4, <1>9, <2>1, <2>2
  <2>4. roles[p] <= roles[q]
    BY <1>2, <1>4, <1>5 DEF InOrder
  <2> QED BY <1>3, <1>4, <2>3, <2>4
<1>6. CASE S = {}
  BY <1>6 DEF NoSlot, S, row, roles
<1>7. CASE \E p \in S : S = {p}
  <2>1. PICK p \in S : S = {p}
    BY <1>7
  <2> QED BY <1>4, <2>1 DEF OneSlot, S, row, roles
<1>8. CASE S # {} /\ ~\E p \in S : S = {p}
  <2>1. PICK x \in S, y \in S : x # y
    BY <1>8
  <2>2. PICK p \in S, q \in S : p < q
    <3>1. x < y \/ y < x
      BY <1>4, <2>1
    <3> QED BY <3>1
  <2>3. roles[p] = 1 /\ roles[q] = 2 /\ Width(kind) = 2
    BY <1>5, <2>2
  <2>4. ASSUME NEW z \in S PROVE z = p \/ z = q
    <3>1. CASE z < p
      BY <1>5, <2>3, <3>1
    <3>2. CASE q < z
      BY <1>5, <2>3, <3>2
    <3>3. CASE p < z /\ z < q
      <4>1. roles[z] = 2
        BY <1>5, <3>3
      <4>2. roles[z] = 1
        BY <1>5, <3>3
      <4> QED BY <4>1, <4>2
    <3> QED BY <1>4, <3>1, <3>2, <3>3
  <2>5. S = {p, q}
    BY <2>4
  <2> QED BY <1>4, <2>2, <2>3, <2>5 DEF TwoSlots, S, row, roles
<1> QED BY <1>6, <1>7, <1>8

LEMMA SlotsOfFew ==
  ASSUME NEW row
  PROVE  /\ NoSlot(row) => Len(Slots(row)) = 0 /\ DOMAIN Slots(row) = 1 .. 0
         /\ \A p \in Nat : OneSlot(row, p) =>
              /\ Len(Slots(row)) = 1 /\ DOMAIN Slots(row) = 1 .. 1
              /\ Nth(SlotPositions(row), 1) = p /\ Slots(row)[1] = Column(row, p)
         /\ \A p, q \in Nat : TwoSlots(row, p, q) =>
              /\ Len(Slots(row)) = 2 /\ DOMAIN Slots(row) = 1 .. 2
              /\ Nth(SlotPositions(row), 1) = p /\ Slots(row)[1] = Column(row, p)
              /\ Nth(SlotPositions(row), 2) = q /\ Slots(row)[2] = Column(row, q)
<1> DEFINE S == SlotPositions(row)
<1>1. Slots(row) = [slot \in 1 .. Cardinality(S) |-> Column(row, Nth(S, slot))]
  BY DEF Slots
<1> HIDE DEF S
<1>2. ASSUME NoSlot(row) PROVE Len(Slots(row)) = 0 /\ DOMAIN Slots(row) = 1 .. 0
  <2>1. Cardinality(S) = 0
    BY <1>2, FS_EmptySet DEF NoSlot, S
  <2> QED BY <1>1, <2>1
<1>3. ASSUME NEW p \in Nat, OneSlot(row, p)
      PROVE  /\ Len(Slots(row)) = 1 /\ DOMAIN Slots(row) = 1 .. 1
             /\ Nth(S, 1) = p /\ Slots(row)[1] = Column(row, p)
  <2>1. S = {p} /\ p < p + 1 /\ p + 1 \in Nat
    BY <1>3 DEF OneSlot, S
  <2>2. Cardinality(S) = 1 /\ Nth(S, 1) = p
    BY <2>1, NthOfFew
  <2> QED BY <1>1, <2>2
<1>4. ASSUME NEW p \in Nat, NEW q \in Nat, TwoSlots(row, p, q)
      PROVE  /\ Len(Slots(row)) = 2 /\ DOMAIN Slots(row) = 1 .. 2
             /\ Nth(S, 1) = p /\ Slots(row)[1] = Column(row, p)
             /\ Nth(S, 2) = q /\ Slots(row)[2] = Column(row, q)
  <2>1. S = {p, q} /\ p < q
    BY <1>4 DEF TwoSlots, S
  <2>2. Cardinality(S) = 2 /\ Nth(S, 1) = p /\ Nth(S, 2) = q
    BY <2>1, NthOfFew
  <2> QED BY <1>1, <2>2
<1> QED BY <1>2, <1>3, <1>4 DEF S

\* Each slot of a row is of the items' type that its first position has.
SlotsStand(row, roles, of, width) ==
  /\ Len(Slots(row)) \in 0 .. width /\ DOMAIN Slots(row) = 1 .. Len(Slots(row))
  /\ \A s \in 1 .. Len(Slots(row)) :
       LET p == Nth(SlotPositions(row), s) IN
       /\ p \in SlotPositions(row) /\ p \in 1 .. Len(roles) /\ roles[p] \in 1 .. width
       /\ Slots(row)[s] = NameColumn(of, roles[p])
       /\ Len(Slots(row)) = width => roles[p] = s
  /\ Len(Slots(row)) = 2 =>
       TwoSlots(row, Nth(SlotPositions(row), 1), Nth(SlotPositions(row), 2))

LEMMA SlotsFacts ==
  ASSUME NEW group, NEW kind \in Kinds, NEW of, AllLaidOut(group, kind, of),
         NEW k \in 1 .. Members(kind)
  PROVE  SlotsStand(RowOf(group, k), Layout(kind)[k], of, Width(kind))
<1> DEFINE row == RowOf(group, k)
           roles == Layout(kind)[k]
<1>1. /\ Len(roles) \in 1 .. 3 /\ FirstOfColumns(row, Len(roles))
      /\ NamesItems(row, roles, of, Width(kind))
  BY PositionFacts
<1>2. \/ NoSlot(row)
      \/ \E p \in 1 .. Len(roles) : OneSlot(row, p)
      \/ \E p, q \in 1 .. Len(roles) :
           TwoSlots(row, p, q) /\ roles[p] = 1 /\ roles[q] = 2 /\ Width(kind) = 2
  BY SlotCases
<1>3. Width(kind) \in {1, 2}
  BY DEF Width
<1> HIDE DEF SlotsStand, row, roles
<1>4. ASSUME NEW p \in SlotPositions(row)
      PROVE  /\ p \in 1 .. Len(roles) /\ p \in Nat /\ roles[p] \in 1 .. Width(kind)
             /\ Column(row, p) = NameColumn(of, roles[p])
  BY <1>1 DEF FirstOfColumns, NamesItems
<1>5. CASE NoSlot(row)
  <2>1. Len(Slots(row)) = 0 /\ DOMAIN Slots(row) = 1 .. 0
    BY <1>5, SlotsOfFew
  <2> QED BY <1>3, <2>1 DEF SlotsStand, row, roles
<1>6. CASE \E p \in 1 .. Len(roles) : OneSlot(row, p)
  <2>1. PICK p \in 1 .. Len(roles) : OneSlot(row, p)
    BY <1>6
  <2>2. p \in SlotPositions(row)
    BY <2>1 DEF OneSlot
  <2>3. /\ Len(Slots(row)) = 1 /\ DOMAIN Slots(row) = 1 .. 1
        /\ Nth(SlotPositions(row), 1) = p /\ Slots(row)[1] = Column(row, p)
    BY <1>4, <2>1, <2>2, SlotsOfFew
  <2>4. \A s \in 1 .. 1 : s = 1
    OBVIOUS
  <2> QED BY <1>3, <1>4, <2>2, <2>3, <2>4 DEF SlotsStand, row, roles
<1>7. CASE \E p, q \in 1 .. Len(roles) :
             TwoSlots(row, p, q) /\ roles[p] = 1 /\ roles[q] = 2 /\ Width(kind) = 2
  <2>1. PICK p \in 1 .. Len(roles), q \in 1 .. Len(roles) :
               TwoSlots(row, p, q) /\ roles[p] = 1 /\ roles[q] = 2 /\ Width(kind) = 2
    BY <1>7
  <2>2. p \in SlotPositions(row) /\ q \in SlotPositions(row)
    BY <2>1 DEF TwoSlots
  <2>3. /\ Len(Slots(row)) = 2 /\ DOMAIN Slots(row) = 1 .. 2
        /\ Nth(SlotPositions(row), 1) = p /\ Slots(row)[1] = Column(row, p)
        /\ Nth(SlotPositions(row), 2) = q /\ Slots(row)[2] = Column(row, q)
    BY <1>4, <2>1, <2>2, SlotsOfFew
  <2>4. \A s \in 1 .. 2 : s = 1 \/ s = 2
    OBVIOUS
  <2> QED BY <1>4, <2>1, <2>2, <2>3, <2>4 DEF SlotsStand, row, roles
<1> QED BY <1>2, <1>5, <1>6, <1>7

-----------------------------------------------------------------------------
(***************************************************************************)
(* The type parameters of the class, and what they are in each             *)
(* instantiation.                                                          *)
(***************************************************************************)
LEMMA AllSlotsFacts ==
  ASSUME NEW group, NEW kind \in Kinds, NEW of, AllLaidOut(group, kind, of)
  PROVE  /\ Len(AllSlots(group)) = Members(kind) /\ DOMAIN AllSlots(group) = 1 .. Members(kind)
         /\ \A r \in 1 .. Members(kind) :
              /\ Place(kind, r) \in 1 .. Members(kind)
              /\ AllSlots(group)[r] = Slots(RowOf(group, Place(kind, r)))
<1>1. /\ DOMAIN AllRows(group) = 1 .. Members(kind)
      /\ \A r \in 1 .. Members(kind) : AllRows(group)[r] = RowOf(group, Place(kind, r))
  BY RowsFacts
<1>2. Members(kind) \in Nat /\ Members(kind) > 4
  BY LayoutFacts
<1>3. AllSlots(group) = [r \in 1 .. Members(kind) |-> Slots(AllRows(group)[r])]
  BY <1>1 DEF AllSlots
<1>4. Len(AllSlots(group)) = Members(kind) /\ DOMAIN AllSlots(group) = 1 .. Members(kind)
  BY <1>2, <1>3
<1>5. \A r \in 1 .. Members(kind) : Place(kind, r) \in 1 .. Members(kind)
  BY <1>2 DEF Place
<1>6. \A r \in 1 .. Members(kind) : AllSlots(group)[r] = Slots(RowOf(group, Place(kind, r)))
  BY <1>1, <1>3
<1> QED BY <1>4, <1>5, <1>6

\* If the class has as many type parameters as there are types of items, a row has them all.
LEMMA WidestRow ==
  ASSUME NEW group, NEW kind \in Kinds, NEW of, AllLaidOut(group, kind, of),
         ClassArity(group) = Width(kind)
  PROVE  \E r \in 1 .. Members(kind) : Len(AllSlots(group)[r]) = Width(kind)
<1> DEFINE arities == {Len(slots) : slots \in Range(AllSlots(group))}
<1>1. /\ DOMAIN AllSlots(group) = 1 .. Members(kind)
      /\ \A r \in 1 .. Members(kind) :
              /\ Place(kind, r) \in 1 .. Members(kind)
              /\ AllSlots(group)[r] = Slots(RowOf(group, Place(kind, r)))
  BY AllSlotsFacts
<1>2. \A r \in 1 .. Members(kind) : Len(AllSlots(group)[r]) \in 0 .. Width(kind)
  BY <1>1, SlotsFacts DEF SlotsStand
<1>3. Members(kind) \in Nat /\ Members(kind) > 4 /\ Width(kind) \in {1, 2}
  BY LayoutFacts DEF Width
<1>4. arities = {Len(AllSlots(group)[r]) : r \in 1 .. Members(kind)}
  BY <1>1 DEF Range
<1>5. arities \subseteq {0, 1, 2} /\ arities # {}
  BY <1>2, <1>3, <1>4
<1>6. ClassArity(group) = CHOOSE n \in arities : \A i \in arities : i <= n
  BY DEF ClassArity
<1> HIDE DEF arities
<1>7. \E n \in arities : \A i \in arities : i <= n
  <2>1. CASE 2 \in arities
    BY <1>5, <2>1
  <2>2. CASE 2 \notin arities /\ 1 \in arities
    BY <1>5, <2>2
  <2>3. CASE 2 \notin arities /\ 1 \notin arities
    <3>1. arities = {0}
      BY <1>5, <2>3
    <3> QED BY <3>1
  <2> QED BY <2>1, <2>2, <2>3
<1>8. Width(kind) \in arities
  BY <1>6, <1>7
<1> QED BY <1>4, <1>8

LEMMA KeyPosition ==
  ASSUME NEW member, NEW name, NEW roles, NEW items, NEW other,
         Fits(member, name, roles, items, other),
         NEW p \in 1 .. Len(roles), p < Len(roles), roles[p] = 1
  PROVE  TypeAt(member, p) = ByValue(items[1])
BY DEF Fits

\* A key that varies in some member varies in Add.
LEMMA KeyVaries ==
  ASSUME NEW group, NEW kind \in Kinds, NEW of, AllLaidOut(group, kind, of),
         kind # "Vector", NEW k \in 1 .. Members(kind), Len(Slots(RowOf(group, k))) = 2
  PROVE  Len(Slots(RowOf(group, 4))) >= 1 /\ Nth(SlotPositions(RowOf(group, 4)), 1) = 1
<1> DEFINE row == RowOf(group, k)
           roles == Layout(kind)[k]
           add == RowOf(group, 4)
<1>1. 4 \in 1 .. Members(kind) /\ Layout(kind)[4] = <<1, 2, 0>> /\ Width(kind) = 2
  BY LayoutFacts DEF Width
<1>2. SlotsStand(row, roles, of, 2) /\ FirstOfColumns(row, Len(roles)) /\ Len(roles) \in 1 .. 3
  BY <1>1, SlotsFacts, PositionFacts
<1>3. /\ DOMAIN row = 1 .. Len(of) /\ DOMAIN add = 1 .. Len(of) /\ 1 \in 1 .. Len(of)
      /\ \A c \in 1 .. Len(of) : row[c] = group[c][k] /\ add[c] = group[c][4]
  BY DEF AllLaidOut, RowOf
<1>4. ASSUME NEW c \in 1 .. Len(of)
      PROVE  /\ Fits(row[c], MemberNames(kind)[k], roles, of[c], row[1])
             /\ Fits(add[c], MemberNames(kind)[4], Layout(kind)[4], of[c], add[1])
  BY <1>1, <1>3 DEF AllLaidOut, LaidOut
<1> HIDE DEF row, roles, add
<1>5. PICK p, q : TwoSlots(row, p, q) /\ p \in 1 .. Len(roles) /\ q \in 1 .. Len(roles) /\ roles[p] = 1
  <2>1. Len(Slots(row)) = 2
    BY DEF row
  <2>2. TwoSlots(row, Nth(SlotPositions(row), 1), Nth(SlotPositions(row), 2))
    BY <1>2, <2>1 DEF SlotsStand
  <2>3. \A s \in 1 .. 2 : Nth(SlotPositions(row), s) \in 1 .. Len(roles)
                          /\ roles[Nth(SlotPositions(row), s)] = s
    BY <1>2, <2>1 DEF SlotsStand
  <2>4. 1 \in 1 .. 2 /\ 2 \in 1 .. 2
    OBVIOUS
  <2> QED BY <2>2, <2>3, <2>4
<1>6. p < q /\ p < Len(roles) /\ Varies(row, p)
  BY <1>2, <1>5 DEF TwoSlots, FirstOfColumns
<1>7. \A c \in 1 .. Len(of) : TypeAt(row[c], p) = ByValue(of[c][1])
  BY <1>4, <1>5, <1>6, KeyPosition
<1>8. PICK c \in 1 .. Len(of) : ByValue(of[c][1]) # ByValue(of[1][1])
  BY <1>3, <1>6, <1>7 DEF Varies
<1>9. \A d \in 1 .. Len(of) : TypeAt(add[d], 1) = ByValue(of[d][1])
  <2> DEFINE places == Layout(kind)[4]
  <2>1. 1 \in 1 .. Len(places) /\ 1 < Len(places) /\ places[1] = 1
    BY <1>1
  <2>2. \A d \in 1 .. Len(of) : Fits(add[d], MemberNames(kind)[4], places, of[d], add[1])
    BY <1>4
  <2> HIDE DEF places
  <2> QED BY <2>1, <2>2, KeyPosition
<1>10. Varies(add, 1)
  BY <1>3, <1>8, <1>9 DEF Varies
<1>11. 1 \in SlotPositions(add)
  <2>1. FirstOfColumns(add, 3)
    <3>1. Len(<<1, 2, 0>>) = 3
      OBVIOUS
    <3>2. FirstOfColumns(add, Len(Layout(kind)[4]))
      BY <1>1, PositionFacts DEF add
    <3> QED BY <1>1, <3>1, <3>2
  <2>2. 1 .. 1 - 1 = {} /\ 1 \in 1 .. 3
    OBVIOUS
  <2> QED BY <1>10, <2>1, <2>2 DEF FirstOfColumns
<1>12. \/ \E x \in 1 .. 3 : OneSlot(add, x)
       \/ \E x, y \in 1 .. 3 : TwoSlots(add, x, y)
  <2>1. Len(Layout(kind)[4]) = 3
    BY <1>1
  <2>2. \/ NoSlot(add)
        \/ \E x \in 1 .. 3 : OneSlot(add, x)
        \/ \E x, y \in 1 .. 3 : TwoSlots(add, x, y)
    BY <1>1, <2>1, SlotCases DEF add
  <2> QED BY <1>11, <2>2 DEF NoSlot
<1>13. CASE \E x \in 1 .. 3 : OneSlot(add, x)
  <2>1. PICK x \in 1 .. 3 : OneSlot(add, x)
    BY <1>13
  <2>2. x = 1 /\ x \in Nat
    BY <1>11, <2>1 DEF OneSlot
  <2>3. Len(Slots(add)) = 1 /\ Nth(SlotPositions(add), 1) = x
    BY <2>1, <2>2, SlotsOfFew
  <2> QED BY <2>2, <2>3 DEF add
<1>14. CASE \E x, y \in 1 .. 3 : TwoSlots(add, x, y)
  <2>1. PICK x \in 1 .. 3, y \in 1 .. 3 : TwoSlots(add, x, y)
    BY <1>14
  <2>2. FirstOfColumns(add, 3)
    <3>1. Len(Layout(kind)[4]) = 3
      BY <1>1
    <3> QED BY <1>1, <3>1, PositionFacts DEF add
  <2>3. x = 1 /\ x \in Nat /\ y \in Nat
    <3>1. \A z \in SlotPositions(add) : z \in 1 .. 3
      BY <2>2 DEF FirstOfColumns
    <3> QED BY <1>11, <2>1, <3>1 DEF TwoSlots
  <2>4. Len(Slots(add)) = 2 /\ Nth(SlotPositions(add), 1) = x
    BY <2>1, <2>3, SlotsOfFew
  <2> QED BY <2>3, <2>4 DEF add
<1> QED BY <1>12, <1>13, <1>14

\* The first row with a slot has it for the type of the items of the same number.
LEMMA FirstWithSlot ==
  ASSUME NEW group, NEW kind \in Kinds, NEW of, AllLaidOut(group, kind, of),
         ClassArity(group) = Width(kind), NEW slot \in 1 .. Width(kind)
  PROVE  LET all == AllSlots(group) IN
         all[SelectInSeq(all, LAMBDA slots : Len(slots) >= slot)][slot] = NameColumn(of, slot)
<1> DEFINE all == AllSlots(group)
           I == {i \in 1 .. Len(all) : Len(all[i]) >= slot}
           m == Members(kind)
           r == Min(I)
           k == Place(kind, r)
           row == RowOf(group, k)
           roles == Layout(kind)[k]
           first == SelectInSeq(all, LAMBDA slots : Len(slots) >= slot)
<1>1. first = IF I # {} THEN Min(I) ELSE 0
  BY DEF SelectInSeq
<1>2. /\ Len(all) = m
      /\ \A i \in 1 .. m : Place(kind, i) \in 1 .. m /\ all[i] = Slots(RowOf(group, Place(kind, i)))
  BY AllSlotsFacts
<1>3. m \in Nat /\ m > 4 /\ Width(kind) \in {1, 2}
  BY LayoutFacts DEF Width
<1>4. PICK widest \in 1 .. m : Len(all[widest]) = Width(kind)
  BY WidestRow
<1> HIDE DEF all, m, first
<1>5. widest \in I /\ I \in SUBSET Nat
  BY <1>2, <1>3, <1>4
<1>6. r \in I /\ \A i \in I : r <= i
  BY <1>5, LeastNat
<1>7. r \in 1 .. m /\ k \in 1 .. m /\ all[r] = Slots(row) /\ Len(Slots(row)) >= slot
  BY <1>2, <1>6
<1>8. SlotsStand(row, roles, of, Width(kind))
  BY <1>7, SlotsFacts DEF m
<1>9. first = r
  BY <1>1, <1>5
<1> HIDE DEF r, row, roles, k
<1>10. CASE Len(Slots(row)) = Width(kind)
  <2>1. /\ Slots(row)[slot] = NameColumn(of, roles[Nth(SlotPositions(row), slot)])
        /\ roles[Nth(SlotPositions(row), slot)] = slot
    BY <1>3, <1>8, <1>10 DEF SlotsStand
  <2> QED BY <1>7, <1>9, <2>1 DEF all, first
<1>11. CASE Len(Slots(row)) # Width(kind)
  <2>1. slot = 1 /\ Width(kind) = 2 /\ kind # "Vector"
    BY <1>3, <1>7, <1>8, <1>11, SMTT(60) DEF SlotsStand, Width
  <2>2. /\ Place(kind, 1) = 2 /\ Place(kind, 2) = 3 /\ Place(kind, 3) = 4
        /\ 1 \in 1 .. m /\ 2 \in 1 .. m /\ 3 \in 1 .. m /\ 4 \in 1 .. m
    BY <1>3 DEF Place, m
  <2>3. Layout(kind)[2] = <<0>> /\ Layout(kind)[3] = <<0>> /\ Layout(kind)[4] = <<1, 2, 0>>
    BY <2>1, LayoutFacts
  <2>4. ASSUME NEW i \in 1 .. m, Len(Layout(kind)[i]) = 1, Layout(kind)[i][1] = 0
        PROVE  Len(Slots(RowOf(group, i))) = 0
    <3>1. SlotsStand(RowOf(group, i), Layout(kind)[i], of, 2)
      BY <2>1, SlotsFacts DEF m
    <3>2. ASSUME Len(Slots(RowOf(group, i))) # 0 PROVE FALSE
      <4>1. 1 \in 1 .. Len(Slots(RowOf(group, i)))
        BY <3>1, <3>2 DEF SlotsStand
      <4>2. /\ Nth(SlotPositions(RowOf(group, i)), 1) \in 1 .. Len(Layout(kind)[i])
            /\ Layout(kind)[i][Nth(SlotPositions(RowOf(group, i)), 1)] \in 1 .. 2
        BY <3>1, <4>1 DEF SlotsStand
      <4> QED BY <2>4, <4>2
    <3> QED BY <3>2
  <2>5. Len(all[1]) = 0 /\ Len(all[2]) = 0 /\ all[3] = Slots(RowOf(group, 4))
    <3>1. /\ Len(Layout(kind)[2]) = 1 /\ Layout(kind)[2][1] = 0
          /\ Len(Layout(kind)[3]) = 1 /\ Layout(kind)[3][1] = 0
      BY <2>3
    <3>2. 2 \in 1 .. m /\ 3 \in 1 .. m
      BY <1>3
    <3>3. Len(Slots(RowOf(group, 2))) = 0 /\ Len(Slots(RowOf(group, 3))) = 0
      BY <2>4, <3>1, <3>2
    <3> QED BY <1>2, <2>2, <3>3
  <2>6. Len(Slots(RowOf(group, 4))) >= 1 /\ Nth(SlotPositions(RowOf(group, 4)), 1) = 1
    <3>1. PICK i \in 1 .. m : Len(Slots(RowOf(group, i))) = 2
      BY <1>2, <1>4, <2>1
    <3> QED BY <2>1, <3>1, KeyVaries DEF m
  <2>7. r = 3
    <3>1. 3 \in I
      BY <1>2, <2>1, <2>2, <2>5, <2>6
    <3>2. r <= 3
      BY <1>6, <3>1
    <3>3. r # 1 /\ r # 2
      BY <1>6, <2>1, <2>5
    <3> QED BY <1>7, <3>2, <3>3
  <2>8. SlotsStand(RowOf(group, 4), Layout(kind)[4], of, 2)
    BY <2>1, <2>2, SlotsFacts DEF m
  <2>9. 1 \in 1 .. Len(Slots(RowOf(group, 4)))
    BY <2>6, <2>8 DEF SlotsStand
  <2>10. Slots(RowOf(group, 4))[1] = NameColumn(of, Layout(kind)[4][1])
    BY <2>6, <2>8, <2>9 DEF SlotsStand
  <2>11. Layout(kind)[4][1] = 1
    BY <2>3
  <2> QED BY <1>9, <2>1, <2>5, <2>7, <2>10, <2>11 DEF all, first
<1> QED BY <1>10, <1>11

\* The type arguments of an instantiation are the types of its items.
LEMMA SlotTypesFacts ==
  ASSUME NEW group, NEW kind \in Kinds, NEW of, AllLaidOut(group, kind, of),
         ClassArity(group) = Width(kind), NEW c \in 1 .. Len(of), DOMAIN of[c] = 1 .. Width(kind)
  PROVE  SlotTypes(group)[c] = NamesOf(of[c])
<1> DEFINE all == AllSlots(group)
           First(slot) == SelectInSeq(all, LAMBDA slots : Len(slots) >= slot)
<1>1. DOMAIN group = 1 .. Len(of)
  BY DEF AllLaidOut
<1>2. SlotTypes(group)[c] = [slot \in 1 .. Width(kind) |-> all[First(slot)][slot][c]]
  BY <1>1 DEF SlotTypes
<1>3. \A slot \in 1 .. Width(kind) : all[First(slot)][slot] = NameColumn(of, slot)
  BY FirstWithSlot
<1> HIDE DEF all, First
<1>4. ASSUME NEW slot \in 1 .. Width(kind) PROVE all[First(slot)][slot][c] = of[c][slot].name
  <2>1. all[First(slot)][slot] = NameColumn(of, slot)
    BY <1>3
  <2>2. NameColumn(of, slot)[c] = of[c][slot].name
    BY DEF NameColumn
  <2> QED BY <2>1, <2>2
<1>5. SlotTypes(group)[c] = [slot \in 1 .. Width(kind) |-> of[c][slot].name]
  BY <1>2, <1>4
<1> QED BY <1>5 DEF NamesOf

\* Unless keys are pointers, an instantiation is Borrowed when its last item is one.
LEMMA BorrowsFacts ==
  ASSUME NEW group, NEW kind \in Kinds, NEW of, AllLaidOut(group, kind, of),
         ClassArity(group) = Width(kind), NEW c \in 1 .. Len(of),
         \A i \in 1 .. Width(kind) - 1 : ~of[c][i].pointer
  PROVE  BorrowsItems(group, c) <=> of[c][Width(kind)].pointer
<1> DEFINE m == Members(kind)
           width == Width(kind)
           Pointer(k, slot) == TypeOfSlot(RowOf(group, k), slot, c).pointer
<1>1. /\ DOMAIN AllRows(group) = 1 .. m
      /\ \A r \in 1 .. m : AllRows(group)[r] = RowOf(group, Place(kind, r))
  BY RowsFacts
<1>2. \A r \in 1 .. m : Place(kind, r) \in 1 .. m
                        /\ AllSlots(group)[r] = Slots(RowOf(group, Place(kind, r)))
  BY AllSlotsFacts
<1>3. width \in {1, 2}
  BY DEF Width
<1> HIDE DEF m, width
<1>4. ASSUME NEW k \in 1 .. m, NEW slot \in DOMAIN Slots(RowOf(group, k))
      PROVE  \E i \in 1 .. width : /\ TypeOfSlot(RowOf(group, k), slot, c).pointer = of[c][i].pointer
                                   /\ Len(Slots(RowOf(group, k))) = width => i = slot
  <2> DEFINE row == RowOf(group, k)
             roles == Layout(kind)[k]
             p == Nth(SlotPositions(row), slot)
  <2>1. SlotsStand(row, roles, of, width) /\ KeepsPointers(row, roles, of)
    BY SlotsFacts, PositionFacts DEF m, width
  <2> HIDE DEF row, roles
  <2>2. slot \in 1 .. Len(Slots(row))
    BY <2>1 DEF SlotsStand, row
  <2>3. /\ p \in 1 .. Len(roles) /\ roles[p] \in 1 .. width
        /\ Len(Slots(row)) = width => roles[p] = slot
    BY <2>1, <2>2 DEF SlotsStand
  <2>4. roles[p] # 0
    BY <1>3, <2>3
  <2>5. TypeAt(row[c], p).pointer = of[c][roles[p]].pointer
    BY <2>1, <2>3, <2>4 DEF KeepsPointers
  <2>6. TypeOfSlot(row, slot, c) = TypeAt(row[c], p)
    BY DEF TypeOfSlot
  <2> QED BY <2>3, <2>5, <2>6 DEF row
<1>5. ASSUME BorrowsItems(group, c) PROVE of[c][width].pointer
  <2>1. PICK r \in 1 .. m : \E slot \in DOMAIN Slots(AllRows(group)[r]) :
               TypeOfSlot(AllRows(group)[r], slot, c).pointer
    BY <1>1, <1>5 DEF BorrowsItems
  <2>2. PICK k \in 1 .. m : \E slot \in DOMAIN Slots(RowOf(group, k)) :
               TypeOfSlot(RowOf(group, k), slot, c).pointer
    BY <1>1, <1>2, <2>1
  <2>3. PICK i \in 1 .. width : of[c][i].pointer
    BY <1>4, <2>2
  <2>4. i = width
    BY <1>3, <2>3 DEF width
  <2> QED BY <2>3, <2>4
<1>6. ASSUME of[c][width].pointer PROVE BorrowsItems(group, c)
  <2>1. PICK r \in 1 .. m : Len(AllSlots(group)[r]) = width
    BY WidestRow DEF m, width
  <2> DEFINE k == Place(kind, r)
  <2>2. k \in 1 .. m /\ Len(Slots(RowOf(group, k))) = width
    BY <1>2, <2>1
  <2>3. width \in DOMAIN Slots(RowOf(group, k))
    <3>1. SlotsStand(RowOf(group, k), Layout(kind)[k], of, width)
      BY <2>2, SlotsFacts DEF m, width
    <3> QED BY <1>3, <2>2, <3>1 DEF SlotsStand
  <2>4. TypeOfSlot(RowOf(group, k), width, c).pointer
    BY <1>4, <1>6, <2>2, <2>3
  <2>5. AllRows(group)[r] = RowOf(group, k)
    BY <1>1
  <2> QED BY <1>1, <2>3, <2>4, <2>5 DEF BorrowsItems
<1> QED BY <1>5, <1>6 DEF width

LEMMA DispatchType ==
  ASSUME NEW conditions, Len(conditions) \in Nat, NEW types, NEW mode
  PROVE  Dispatch(conditions, types, mode) \in 0 .. Len(conditions)
<1> DEFINE I == {i \in 1 .. Len(conditions) :
                  conditions[i].types = types /\ mode \in conditions[i].modes}
<1>1. Dispatch(conditions, types, mode) = IF I # {} THEN Min(I) ELSE 0
  BY DEF Dispatch, SelectInSeq
<1>2. \A i \in I : i \in 1 .. Len(conditions)
  OBVIOUS
<1> HIDE DEF I
<1>3. CASE I # {}
  <2>1. I \in SUBSET Nat
    BY <1>2
  <2>2. Min(I) \in I
    BY <1>3, <2>1, LeastNat
  <2> QED BY <1>1, <1>2, <1>3, <2>2
<1>4. CASE I = {}
  BY <1>1, <1>4
<1> QED BY <1>3, <1>4

\* A condition that alone holds is the one that is dispatched to.
LEMMA OnlyMatch ==
  ASSUME NEW conditions, NEW types, NEW mode, NEW c \in 1 .. Len(conditions),
         conditions[c].types = types /\ mode \in conditions[c].modes,
         \A d \in 1 .. Len(conditions) :
           conditions[d].types = types /\ mode \in conditions[d].modes => d = c
  PROVE  Dispatch(conditions, types, mode) = c
<1> DEFINE I == {i \in 1 .. Len(conditions) :
                  conditions[i].types = types /\ mode \in conditions[i].modes}
<1>1. Dispatch(conditions, types, mode) = IF I # {} THEN Min(I) ELSE 0
  BY DEF Dispatch, SelectInSeq
<1>2. I = {c} /\ c \in Nat
  OBVIOUS
<1> HIDE DEF I
<1>3. Min(I) = c
  BY <1>2, LeastNat
<1> QED BY <1>1, <1>2, <1>3

\* A group whose class compiles, and whose instantiations their names or the items
\* being pointers tell apart, has conditions that select each instantiation
\* (csharp_emitter.cpp:2665).
THEOREM GroupsAreTold ==
  ASSUME NEW g \in Groups, Compiles(g), Distinct(g)
  PROVE  Told(ClassOf(g))
<1> DEFINE group == ClassesOf(g)
           kind == g.kind
           of == g.of
           width == Width(kind)
           types == SlotTypes(group)
<1>1. /\ kind \in Kinds /\ of \in Seq(Seq(Item)) /\ Len(of) > 0
      /\ \A c \in DOMAIN of : Len(of[c]) = width
  BY GroupsAssumption DEF Width
<1>2. AllLaidOut(group, kind, of)
  BY GroupLaidOut
<1>3. width \in {1, 2}
  BY DEF Width
<1>4. ClassOf(g).of = of /\ ClassOf(g).conditions = Conditions(group)
  BY DEF ClassOf
<1>5. ClassArity(group) = Len(of[1])
  BY DEF Compiles
<1>13. kind # "Vector" => width = 2
  BY DEF Width
<1>14. \A c, d \in DOMAIN of : c # d =>
    \/ \E i \in DOMAIN of[c] : of[c][i].name # of[d][i].name
    \/ /\ of[c][Len(of[c])].pointer # of[d][Len(of[d])].pointer
       /\ kind # "Vector" => ~of[c][1].pointer /\ ~of[d][1].pointer
  BY DEF Distinct
<1>15. kind = "Vector" => width = 1
  BY DEF Width
<1> HIDE DEF group, kind, of, width, types
<1>6. /\ Len(of) \in Nat /\ DOMAIN of = 1 .. Len(of) /\ DOMAIN group = 1 .. Len(of)
      /\ 1 \in 1 .. Len(of)
  BY <1>2 DEF AllLaidOut
<1>7. ASSUME NEW c \in 1 .. Len(of)
      PROVE  /\ Len(of[c]) = width /\ DOMAIN of[c] = 1 .. width
             /\ \A i \in 1 .. width : of[c][i].pointer \in BOOLEAN
  <2>1. of[c] \in Seq(Item)
    BY <1>1, <1>6
  <2>4. Len(of[c]) = width
    BY <1>1, <1>6
  <2>2. DOMAIN of[c] = 1 .. width
    BY <2>1, <2>4
  <2>3. \A i \in 1 .. width : of[c][i] \in Item
    BY <2>1, <2>2, <2>4
  <2> QED BY <2>2, <2>3, <2>4 DEF Item
<1>8. ClassArity(group) = width
  BY <1>5, <1>6, <1>7
<1>9. \A c \in 1 .. Len(of) : types[c] = NamesOf(of[c])
  BY <1>1, <1>2, <1>7, <1>8, SlotTypesFacts DEF types, width
<1>10. DOMAIN types = 1 .. Len(of)
  BY <1>6 DEF SlotTypes, types
<1>11. ASSUME NEW c \in 1 .. Len(of), NEW d \in 1 .. Len(of), c # d, types[c] = types[d]
       PROVE  /\ of[c][width].pointer # of[d][width].pointer
              /\ \A i \in 1 .. width - 1 : ~of[c][i].pointer /\ ~of[d][i].pointer
  <2>1. NamesOf(of[c]) = NamesOf(of[d])
    BY <1>9, <1>11
  <2>2. \A i \in 1 .. width : of[c][i].name = of[d][i].name
    BY <1>7, <2>1 DEF NamesOf
  <2>3. /\ of[c][width].pointer # of[d][width].pointer
        /\ kind # "Vector" => ~of[c][1].pointer /\ ~of[d][1].pointer
    BY <1>6, <1>7, <1>11, <1>14, <2>2
  <2>4. \A i \in 1 .. width - 1 : i = 1 /\ kind # "Vector"
    BY <1>3, <1>15
  <2> QED BY <2>3, <2>4
<1>12. ASSUME NEW c \in 1 .. Len(of)
       PROVE  /\ Conditions(group)[c].types = NamesOf(of[c])
              /\ ModeOf(of[c]) \in Conditions(group)[c].modes
              /\ Ambiguous(types, c) => Conditions(group)[c].modes = {ModeOf(of[c])}
  <2>1. Conditions(group)[c] =
          [types |-> types[c],
           modes |-> IF ~Ambiguous(types, c) THEN {"Owned", "Borrowed"}
                     ELSE IF BorrowsItems(group, c) THEN {"Borrowed"} ELSE {"Owned"}]
    BY <1>6 DEF Conditions, types
  <2>2. ModeOf(of[c]) = IF of[c][width].pointer THEN "Borrowed" ELSE "Owned"
    BY <1>7 DEF ModeOf
  <2>3. CASE ~Ambiguous(types, c)
    BY <1>9, <2>1, <2>2, <2>3
  <2>4. CASE Ambiguous(types, c)
    <3>1. PICK d \in 1 .. Len(of) : d # c /\ types[d] = types[c]
      BY <1>10, <2>4 DEF Ambiguous
    <3>2. \A i \in 1 .. width - 1 : ~of[c][i].pointer
      BY <1>11, <3>1
    <3>3. BorrowsItems(group, c) <=> of[c][width].pointer
      BY <1>1, <1>2, <1>8, <3>2, BorrowsFacts DEF width
    <3>4. CASE of[c][width].pointer
      BY <1>9, <2>1, <2>2, <2>4, <3>3, <3>4
    <3>5. CASE ~of[c][width].pointer
      BY <1>9, <2>1, <2>2, <2>4, <3>3, <3>5
    <3> QED BY <3>4, <3>5
  <2> QED BY <2>3, <2>4
<1>16. Len(Conditions(group)) = Len(of)
  <2>1. DOMAIN Conditions(group) = 1 .. Len(of)
    BY <1>6 DEF Conditions
  <2> QED BY <1>6, <2>1
<1>17. ASSUME NEW c \in 1 .. Len(of)
       PROVE  Dispatch(Conditions(group), NamesOf(of[c]), ModeOf(of[c])) = c
  <2>1. ASSUME NEW d \in 1 .. Len(of), Conditions(group)[d].types = NamesOf(of[c]),
               ModeOf(of[c]) \in Conditions(group)[d].modes, d # c
        PROVE  FALSE
    <3>1. types[d] = types[c]
      BY <1>9, <1>12, <2>1
    <3>2. Ambiguous(types, d)
      BY <1>10, <2>1, <3>1 DEF Ambiguous
    <3>3. ModeOf(of[c]) = ModeOf(of[d])
      BY <1>12, <2>1, <3>2
    <3>4. of[c][width].pointer # of[d][width].pointer
      BY <1>11, <2>1, <3>1
    <3>5. ModeOf(of[c]) # ModeOf(of[d])
      BY <1>3, <1>7, <3>4 DEF ModeOf
    <3> QED BY <3>3, <3>5
  <2> QED BY <1>12, <1>16, <2>1, OnlyMatch
<1> QED BY <1>4, <1>6, <1>17 DEF Told

-----------------------------------------------------------------------------
(***************************************************************************)
(* Containers, for any wrappers, containers and items: every wrapper and   *)
(* every call reaches the instantiation that its container is of, every    *)
(* container has one owner, and enumerations and copies are exact.         *)
(***************************************************************************)
-----------------------------------------------------------------------------
(***************************************************************************)
(* The generated class.                                                    *)
(***************************************************************************)
LEMMA ClassFacts ==
  ASSUME ClassInv
  PROVE  /\ class.kind \in Kinds /\ class.of \in Seq(Seq(Item))
         /\ Len(class.of) \in Nat /\ Insts = 1 .. Len(class.of)
         /\ Len(class.conditions) = Len(class.of)
         /\ \A c \in Insts : ManagedTypes(c) \in Seq(STRING) /\ ItemMode(c) \in Modes
         /\ \A c \in Insts : Dispatch(class.conditions, ManagedTypes(c), ItemMode(c)) = c
         /\ \A types, mode : Dispatch(class.conditions, types, mode) \in Insts \cup {0}
<1>1. PICK g \in Groups : class = ClassOf(g)
  BY DEF ClassInv
<1>2. /\ class.kind = g.kind /\ class.of = g.of
      /\ class.conditions = Conditions(ClassesOf(g))
  BY <1>1 DEF ClassOf
<1>3. g.kind \in Kinds /\ g.of \in Seq(Seq(Item))
  BY GroupsAssumption
<1>4. Len(g.of) \in Nat /\ DOMAIN g.of = 1 .. Len(g.of)
  BY <1>3
<1>5. DOMAIN ClassesOf(g) = 1 .. Len(g.of)
  BY <1>4 DEF ClassesOf
<1>6. DOMAIN class.conditions = 1 .. Len(g.of)
  BY <1>2, <1>5 DEF Conditions
<1>7. Len(class.conditions) = Len(g.of)
  BY <1>4, <1>6
<1>8. ASSUME NEW c \in Insts PROVE ManagedTypes(c) \in Seq(STRING) /\ ItemMode(c) \in Modes
  <2>1. class.of[c] \in Seq(Item)
    BY <1>2, <1>3, <1>4, <1>8 DEF Insts
  <2>2. /\ Len(class.of[c]) \in Nat /\ DOMAIN class.of[c] = 1 .. Len(class.of[c])
        /\ \A i \in 1 .. Len(class.of[c]) : class.of[c][i] \in Item
    BY <2>1
  <2>3. \A i \in 1 .. Len(class.of[c]) : class.of[c][i].name \in STRING
    BY <2>2 DEF Item
  <2>4. ManagedTypes(c) \in Seq(STRING)
    BY <2>2, <2>3 DEF ManagedTypes, NamesOf
  <2> QED BY <2>4 DEF ItemMode, ModeOf, Modes
<1>9. \A c \in Insts : Dispatch(class.conditions, ManagedTypes(c), ItemMode(c)) = c
  BY DEF ClassInv, Told, ManagedTypes, ItemMode, Insts
<1>10. \A types, mode : Dispatch(class.conditions, types, mode) \in Insts \cup {0}
  BY <1>2, <1>4, <1>7, DispatchType DEF Insts
<1> QED BY <1>2, <1>3, <1>4, <1>7, <1>8, <1>9, <1>10 DEF Insts

-----------------------------------------------------------------------------
(***************************************************************************)
(* Sequences of items.                                                     *)
(***************************************************************************)
LEMMA RangeFacts ==
  ASSUME NEW items \in Seq(Items)
  PROVE  /\ Len(items) \in Nat /\ DOMAIN items = 1 .. Len(items)
         /\ Range(items) \subseteq Items /\ IsFiniteSet(Range(items))
         /\ items \in Surjection(1 .. Len(items), Range(items))
<1>1. Len(items) \in Nat /\ DOMAIN items = 1 .. Len(items) /\ items \in [1 .. Len(items) -> Items]
  OBVIOUS
<1>2. Range(items) = {items[i] : i \in 1 .. Len(items)}
  BY <1>1 DEF Range
<1>3. items \in [1 .. Len(items) -> Range(items)]
  BY <1>1, <1>2
<1>4. items \in Surjection(1 .. Len(items), Range(items))
  BY <1>2, <1>3 DEF Surjection
<1>5. IsFiniteSet(1 .. Len(items))
  BY <1>1, FS_Interval
<1>6. IsFiniteSet(Range(items))
  BY <1>4, <1>5, FS_Surjection
<1> QED BY <1>1, <1>2, <1>4, <1>6

LEMMA OrdersFacts ==
  ASSUME NEW keys \in SUBSET Items, IsFiniteSet(keys), NEW s \in Orders(keys)
  PROVE  /\ s \in Seq(Items) /\ NoneTwice(s)
         /\ Range(s) = keys /\ Len(s) = Cardinality(keys)
<1>1. Cardinality(keys) \in Nat
  BY FS_CardinalityType
<1>2. /\ s \in [1 .. Cardinality(keys) -> keys]
      /\ \A i, j \in 1 .. Cardinality(keys) : i # j => s[i] # s[j]
  BY DEF Orders, SetToSeqs
<1>3. s \in Seq(Items) /\ Len(s) = Cardinality(keys) /\ DOMAIN s = 1 .. Cardinality(keys)
  BY <1>1, <1>2
<1>4. s \in Injection(1 .. Cardinality(keys), keys)
  BY <1>2 DEF Injection, IsInjective
<1>5. Cardinality(1 .. Cardinality(keys)) = Cardinality(keys)
  BY <1>1, FS_Interval
<1>6. s \in Surjection(1 .. Cardinality(keys), keys)
  BY <1>4, <1>5, FS_Injection
<1>7. Range(s) = keys
  BY <1>3, <1>6 DEF Range, Surjection
<1> QED BY <1>2, <1>3, <1>7 DEF NoneTwice

LEMMA AddedFacts ==
  ASSUME NEW items \in Seq(Items), NEW x \in Items, NEW s \in Added(items, x)
  PROVE  s \in Seq(Items) /\ (class.kind # "Vector" => NoneTwice(s))
<1>1. CASE class.kind = "Vector"
  BY <1>1 DEF Added
<1>2. CASE class.kind # "Vector"
  <2>1. IsFiniteSet(Range(items) \cup {x}) /\ Range(items) \cup {x} \in SUBSET Items
    BY RangeFacts, FS_AddElement
  <2> QED BY <1>2, <2>1, OrdersFacts DEF Added
<1> QED BY <1>1, <1>2

LEMMA NoItems == <<>> \in Seq(Items) /\ NoneTwice(<<>>)
BY DEF NoneTwice

LEMMA CopiesFacts ==
  ASSUME NEW items \in Seq(Items), class.kind # "Vector" => NoneTwice(items),
         NEW copy \in Copies(items)
  PROVE  /\ copy \in Seq(Items) /\ (class.kind # "Vector" => NoneTwice(copy))
         /\ Range(copy) = Range(items) /\ Len(copy) = Len(items)
         /\ class.kind # "UnorderedMap" => copy = items
<1>1. CASE class.kind # "UnorderedMap"
  BY <1>1 DEF Copies
<1>2. CASE class.kind = "UnorderedMap"
  <2>1. copy \in Orders(Range(items))
    BY <1>2 DEF Copies
  <2>2. /\ copy \in Seq(Items) /\ NoneTwice(copy)
        /\ Range(copy) = Range(items) /\ Len(copy) = Cardinality(Range(items))
    BY <2>1, RangeFacts, OrdersFacts
  <2>3. items \in Injection(1 .. Len(items), Range(items))
    BY <1>2, RangeFacts DEF NoneTwice, Injection, IsInjective, Surjection
  <2>0. Len(items) \in Nat
    BY RangeFacts
  <2>4. IsFiniteSet(1 .. Len(items)) /\ Cardinality(1 .. Len(items)) = Len(items)
    BY <2>0, FS_Interval, SMTT(60)
  <2>5. Cardinality(Range(items)) = Len(items)
    BY <2>3, <2>4, RangeFacts, FS_Surjection
  <2> QED BY <1>2, <2>2, <2>5
<1> QED BY <1>1, <1>2

LEMMA WithoutFacts ==
  ASSUME NEW items \in Seq(Items), NEW i \in DOMAIN items
  PROVE  Without(items, i) \in Seq(Items) /\ (NoneTwice(items) => NoneTwice(Without(items, i)))
<1> DEFINE rest == Without(items, i)
           a == SubSeq(items, 1, i - 1)
           b == SubSeq(items, i + 1, Len(items))
<1>1. Len(items) \in Nat /\ i \in 1 .. Len(items)
  OBVIOUS
<1>2. rest = a \o b
  BY DEF Without, RemoveAt
<1>3. /\ a \in Seq(Items) /\ Len(a) = i - 1
      /\ \A j \in 1 .. i - 1 : a[j] = items[j]
  BY <1>1
<1>4. /\ b \in Seq(Items) /\ Len(b) = Len(items) - i
      /\ \A j \in 1 .. Len(items) - i : b[j] = items[j + i]
  BY <1>1
<1> HIDE DEF a, b, rest
<1>5. rest \in Seq(Items) /\ Len(rest) = Len(items) - 1
  BY <1>1, <1>2, <1>3, <1>4
<1>6. ASSUME NEW j \in 1 .. Len(items) - 1
      PROVE  rest[j] = IF j < i THEN items[j] ELSE items[j + 1]
  <2>1. rest[j] = IF j <= Len(a) THEN a[j] ELSE b[j - Len(a)]
    BY <1>1, <1>2, <1>3, <1>4, SMTT(60)
  <2>2. CASE j < i
    BY <1>1, <1>3, <2>1, <2>2
  <2>3. CASE j >= i
    <3> DEFINE k == j - Len(a)
    <3>1. k \in 1 .. Len(items) - i /\ k + i = j + 1 /\ ~(j <= Len(a))
      BY <1>1, <1>3, <2>3
    <3>2. rest[j] = b[k]
      BY <2>1, <3>1
    <3> HIDE DEF k
    <3>3. b[k] = items[k + i]
      BY <1>4, <3>1
    <3>4. rest[j] = items[j + 1] /\ ~(j < i)
      BY <1>1, <2>3, <3>1, <3>2, <3>3
    <3> QED BY <3>4
  <2> QED BY <1>1, <2>2, <2>3
<1>7. DOMAIN rest = 1 .. Len(items) - 1
  BY <1>5
<1>8. ASSUME NoneTwice(items) PROVE NoneTwice(rest)
  BY <1>1, <1>6, <1>7, <1>8, SMTT(60) DEF NoneTwice
<1> QED BY <1>5, <1>8 DEF rest
-----------------------------------------------------------------------------
(***************************************************************************)
(* A change of the items of one container, which no enumeration goes over  *)
(* and which is not a clone.                                               *)
(***************************************************************************)
LEMMA SetItemsStep ==
  ASSUME RulesKept, ContainersInv,
         NEW h \in Live, ~Cloned(h), NEW items \in Seq(Items),
         class.kind # "Vector" => NoneTwice(items), SetItems(h, items)
  PROVE  ContainersInv'
<1>1. native' = [native EXCEPT ![h].items = items] /\ ~Walked(h)
  BY DEF SetItems, MayChange, RulesKept
<1>2. UNCHANGED <<class, wrapper, held, leaked, call, walk>>
  BY DEF SetItems
<1>3. native \in [Handles -> Container \cup {Null}] /\ h \in Handles /\ native[h] \in Container
  BY DEF ContainersInv, TypeInv, Live
<1>4. /\ native' \in [Handles -> Container \cup {Null}]
      /\ native'[h].inst = native[h].inst /\ native'[h].items = items
      /\ native'[h] \in Container
      /\ \A k \in Handles \ {h} : native'[k] = native[k]
  BY <1>1, <1>3 DEF Container
<1>5. Live' = Live /\ Insts' = Insts
  BY <1>2, <1>3, <1>4, NullAssumption DEF Live, Insts
<1>6. \A k \in Live : k \in Handles /\ native'[k].inst = native[k].inst
  BY <1>4 DEF Live
<1>7. ClassInv'
  BY <1>2 DEF ContainersInv, ClassInv
<1>8. TypeInv'
  BY <1>2, <1>4, <1>5, <1>6 DEF ContainersInv, TypeInv
<1>9. ReachInv'
  BY <1>2, <1>5, <1>6 DEF ContainersInv, ReachInv, Usable, InstOf, ItemMode
<1>10. OwnerInv' /\ ExclusiveInv'
  BY <1>2, <1>5 DEF ContainersInv, OwnerInv, ExclusiveInv, Usable, Owned, Cloned
<1>11. WalkInv'
  <2>1. walk # Null => walk.wrapper \in Wrappers /\ Usable(walk.wrapper)
    BY DEF ContainersInv, WalkInv, TypeInv, Walk
  <2>2. walk # Null => wrapper[walk.wrapper].handle \in Handles \ {h}
    BY <1>1, <2>1 DEF Walked, WalkedBy, ContainersInv, ReachInv, Live
  <2>3. walk # Null => ItemsOf(walk.wrapper)' = ItemsOf(walk.wrapper)
    BY <1>2, <1>4, <2>2 DEF ItemsOf
  <2> QED BY <1>2, <2>1, <2>3 DEF ContainersInv, WalkInv, Usable
<1>12. ItemsInv'
  <2>1. call # Null /\ call.clone => call.ptr \in Handles \ {h}
    BY DEF Cloned, ContainersInv, ReachInv, Live
  <2>2. call # Null /\ call.clone => native'[call.ptr] = native[call.ptr]
    BY <1>4, <2>1
  <2>3. class.kind # "Vector" => \A k \in Live : NoneTwice(native'[k].items)
    BY <1>4, <1>6 DEF ContainersInv, ItemsInv
  <2> QED BY <1>2, <1>5, <2>2, <2>3 DEF ContainersInv, ItemsInv
<1> QED BY <1>7, <1>8, <1>9, <1>10, <1>11, <1>12 DEF ContainersInv

\* What a member that changes the items of its container can rely on.
LEMMA MemberFacts ==
  ASSUME ContainersInv, NEW w \in Wrappers, Usable(w)
  PROVE  /\ wrapper[w].handle \in Live /\ ~Cloned(wrapper[w].handle)
         /\ wrapper[w].handle \in Handles /\ wrapper[w] \in Wrapper
         /\ native[wrapper[w].handle] \in Container
         /\ ItemsOf(w) \in Seq(Items)
         /\ class.kind # "Vector" => NoneTwice(ItemsOf(w))
<1>1. wrapper[w].handle \in Live /\ ~Cloned(wrapper[w].handle)
  BY DEF ContainersInv, ReachInv, ExclusiveInv
<1>2. wrapper[w].handle \in Handles /\ native[wrapper[w].handle] \in Container
  BY <1>1 DEF ContainersInv, TypeInv, Live
<1>3. wrapper[w] \in Wrapper
  BY DEF ContainersInv, TypeInv, Usable
<1>4. ItemsOf(w) \in Seq(Items)
  BY <1>2 DEF ItemsOf, Container
<1>5. class.kind # "Vector" => NoneTwice(ItemsOf(w))
  BY <1>1 DEF ContainersInv, ItemsInv, ItemsOf
<1> QED BY <1>1, <1>2, <1>3, <1>4, <1>5

LEMMA MemberStep ==
  ASSUME RulesKept, ContainersInv, NEW w \in Wrappers,
         \/ \E x \in Items : Add(w, x) \/ RemoveItem(w, x)
         \/ \E i \in 1 .. MaxItems, x \in Items : Set(w, i, x) \/ Insert(w, i, x)
         \/ \E i \in 1 .. MaxItems : RemoveIndex(w, i)
         \/ Clear(w)
  PROVE  ContainersInv'
<1>0. Usable(w)
  BY DEF Add, Set, Insert, RemoveIndex, RemoveItem, Clear
<1> DEFINE h == wrapper[w].handle
           items == ItemsOf(w)
<1>1. /\ h \in Live /\ ~Cloned(h) /\ items \in Seq(Items)
      /\ class.kind # "Vector" => NoneTwice(items)
  BY <1>0, MemberFacts
<1> HIDE DEF h, items
<1> DEFINE Goal ==
      \E s \in Seq(Items) : (class.kind # "Vector" => NoneTwice(s)) /\ SetItems(h, s)
<1> SUFFICES Goal
  BY <1>1, SetItemsStep
<1>2. ASSUME NEW x \in Items, Add(w, x) PROVE Goal
  BY <1>1, <1>2, AddedFacts DEF Add, h, items
<1>3. ASSUME NEW i \in 1 .. MaxItems, NEW x \in Items, Set(w, i, x) PROVE Goal
  <2>1. CASE class.kind = "Vector"
    <3>1. [items EXCEPT ![i] = x] \in Seq(Items)
      BY <1>1, <1>3, <2>1 DEF Set, items
    <3> QED BY <1>3, <2>1, <3>1 DEF Set, h, items
  <2>2. CASE class.kind # "Vector"
    BY <1>1, <1>3, <2>2, AddedFacts DEF Set, h, items
  <2> QED BY <2>1, <2>2
<1>4. ASSUME NEW i \in 1 .. MaxItems, NEW x \in Items, Insert(w, i, x) PROVE Goal
  <2>1. i \in 1 .. Len(items) + 1 /\ Len(items) \in Nat
    BY <1>1, <1>4 DEF Insert, items
  <2>2. SubSeq(items, 1, i - 1) \in Seq(Items) /\ SubSeq(items, i, Len(items)) \in Seq(Items)
    BY <1>1, <2>1
  <2>3. InsertAt(items, i, x) \in Seq(Items)
    BY <2>2 DEF InsertAt
  <2> QED BY <1>4, <2>3 DEF Insert, h, items
<1>5. ASSUME NEW i \in 1 .. MaxItems, RemoveIndex(w, i) PROVE Goal
  BY <1>1, <1>5, WithoutFacts DEF RemoveIndex, h, items
<1>6. ASSUME NEW x \in Items, RemoveItem(w, x) PROVE Goal
  <2> DEFINE I == {j \in 1 .. Len(items) : items[j] = x}
  <2>1. FirstIndex(items, x) = IF I # {} THEN Min(I) ELSE 0
    BY DEF FirstIndex, SelectInSeq
  <2>2. \A j \in I : j \in 1 .. Len(items)
    OBVIOUS
  <2> HIDE DEF I
  <2>3. I # {}
    BY <1>6, <2>1 DEF RemoveItem, items
  <2>4. I \in SUBSET Nat
    BY <2>2
  <2>5. Min(I) \in I
    BY <2>3, <2>4, LeastNat
  <2>6. FirstIndex(items, x) \in DOMAIN items
    BY <1>1, <2>1, <2>2, <2>3, <2>5
  <2> QED BY <1>1, <1>6, <2>6, WithoutFacts DEF RemoveItem, h, items
<1>7. CASE Clear(w)
  BY <1>7, NoItems DEF Clear, h
<1> QED BY <1>2, <1>3, <1>4, <1>5, <1>6, <1>7

LEMMA NativeChangeStep ==
  ASSUME RulesKept, ContainersInv, NEW h \in Handles, NEW x \in Items, NativeChange(h, x)
  PROVE  ContainersInv'
<1>1. h \in Live /\ ~Cloned(h)
  BY DEF NativeChange, Passed, Cloned, ContainersInv, TypeInv, ReachInv, ExclusiveInv
<1>2. native[h].items \in Seq(Items)
  BY <1>1 DEF ContainersInv, TypeInv, Live, Container
<1>3. PICK s \in Added(native[h].items, x) \cup {<<>>} : SetItems(h, s)
  BY DEF NativeChange
<1>4. s \in Seq(Items) /\ (class.kind # "Vector" => NoneTwice(s))
  BY <1>2, <1>3, AddedFacts, NoItems
<1> QED BY <1>1, <1>3, <1>4, SetItemsStep
-----------------------------------------------------------------------------
(***************************************************************************)
(* Containers and wrappers come and go.                                    *)
(***************************************************************************)
\* A new container in a free place: what the rest of the state keeps.
LEMMA NewFacts ==
  ASSUME ContainersInv, NEW h \in Free, NEW c \in Insts, NEW items \in Seq(Items),
         native' = [native EXCEPT ![h] = [inst |-> c, items |-> items]], class' = class
  PROVE  /\ h \in Handles /\ h \notin Live
         /\ native' \in [Handles -> Container \cup {Null}]
         /\ native'[h] = [inst |-> c, items |-> items]
         /\ \A k \in Handles \ {h} : native'[k] = native[k]
         /\ Live' = Live \cup {h} /\ Insts' = Insts
         /\ \A w \in Wrappers : Usable(w) => wrapper[w].handle \in Handles \ {h}
         /\ call # Null => call.ptr \in Handles \ {h}
         /\ held \cup leaked \subseteq Live
<1>1. h \in Handles /\ h \notin Live
  BY DEF Free
<1>2. [inst |-> c, items |-> items] \in Container
  BY ClassFacts DEF ContainersInv, Container
<1>3. native \in [Handles -> Container \cup {Null}]
  BY DEF ContainersInv, TypeInv
<1>4. /\ native' \in [Handles -> Container \cup {Null}]
      /\ native'[h] = [inst |-> c, items |-> items]
      /\ \A k \in Handles \ {h} : native'[k] = native[k]
  BY <1>1, <1>2, <1>3
<1>5. Live' = Live \cup {h}
  BY <1>1, <1>2, <1>4, NullAssumption DEF Live
<1>6. Insts' = Insts
  BY DEF Insts
<1>7. /\ \A w \in Wrappers : Usable(w) => wrapper[w].handle \in Live
      /\ call # Null => call.ptr \in Live
  BY DEF ContainersInv, ReachInv
<1>8. held \cup leaked \subseteq Live
  BY DEF ContainersInv, TypeInv
<1> QED BY <1>1, <1>4, <1>5, <1>6, <1>7, <1>8 DEF Live

\* The items of containers that were there, and of a new one that has no key twice.
LEMMA NewItems ==
  ASSUME ContainersInv, NEW h \in Free, NEW c \in Insts, NEW items \in Seq(Items),
         native' = [native EXCEPT ![h] = [inst |-> c, items |-> items]], class' = class,
         class.kind # "Vector" => NoneTwice(items)
  PROVE  class'.kind # "Vector" => \A k \in Live' : NoneTwice(native'[k].items)
<1>1. ASSUME class.kind # "Vector", NEW k \in Live' PROVE NoneTwice(native'[k].items)
  <2>1. CASE k = h
    BY <1>1, <2>1, NewFacts
  <2>2. CASE k # h
    <3>1. k \in Live /\ native'[k] = native[k]
      BY <2>2, NewFacts DEF Live
    <3> QED BY <1>1, <3>1 DEF ContainersInv, ItemsInv
  <2> QED BY <2>1, <2>2
<1> QED BY <1>1

\* A new container with a new wrapper that owns it.
LEMMA NewWrapperStep ==
  ASSUME ContainersInv, NEW w \in Wrappers, wrapper[w] = Null, NEW h \in Free,
         NEW c \in Insts, NEW items \in Seq(Items), class.kind # "Vector" => NoneTwice(items),
         NEW mode \in Modes, NEW types \in Seq(STRING),
         Dispatch(class.conditions, types, mode) = c,
         native' = [native EXCEPT ![h] = [inst |-> c, items |-> items]],
         wrapper' = [wrapper EXCEPT ![w] = WrapperOf(h, TRUE, mode, types)],
         UNCHANGED <<class, held, leaked, call, walk>>
  PROVE  ContainersInv'
<1>1. /\ h \in Handles /\ h \notin Live
      /\ native' \in [Handles -> Container \cup {Null}]
      /\ native'[h] = [inst |-> c, items |-> items]
      /\ \A k \in Handles \ {h} : native'[k] = native[k]
      /\ Live' = Live \cup {h} /\ Insts' = Insts
      /\ \A v \in Wrappers : Usable(v) => wrapper[v].handle \in Handles \ {h}
      /\ call # Null => call.ptr \in Handles \ {h}
      /\ held \cup leaked \subseteq Live
  BY NewFacts
<1>2. WrapperOf(h, TRUE, mode, types) \in Wrapper
  BY <1>1 DEF WrapperOf, Wrapper
<1>3. /\ wrapper' \in [Wrappers -> Wrapper \cup {Null}]
      /\ wrapper'[w] = WrapperOf(h, TRUE, mode, types)
      /\ \A v \in Wrappers \ {w} : wrapper'[v] = wrapper[v]
  BY <1>2 DEF ContainersInv, TypeInv
<1>4. /\ \A v \in Wrappers : Usable(v)' <=> Usable(v) \/ v = w
      /\ \A v \in Wrappers : Usable(v) => v # w
  BY <1>2, <1>3, NullAssumption DEF Usable
<1>5. /\ wrapper'[w].handle = h /\ wrapper'[w].owned = TRUE
      /\ wrapper'[w].mode = mode /\ wrapper'[w].types = types
  BY <1>3 DEF WrapperOf
<1>6. ClassInv'
  BY DEF ContainersInv, ClassInv
<1>7. TypeInv'
  BY <1>1, <1>3 DEF ContainersInv, TypeInv, Live
<1>8. ReachInv'
  <2>1. ASSUME NEW v \in Wrappers, Usable(v)'
        PROVE  wrapper'[v].handle \in Live' /\ InstOf(v)' = native'[wrapper'[v].handle].inst
    <3>1. CASE v = w
      <4>1. InstOf(v)' = c
        BY <1>5, <3>1 DEF InstOf
      <4>2. native'[h].inst = c /\ h \in Live'
        BY <1>1
      <4> QED BY <1>5, <3>1, <4>1, <4>2
    <3>2. CASE v # w
      BY <1>1, <1>3, <1>4, <2>1, <3>2 DEF InstOf, ContainersInv, ReachInv
    <3> QED BY <3>1, <3>2
  <2>2. call # Null =>
          /\ call.ptr \in Live' /\ native'[call.ptr].inst = call.inst
          /\ call.mode = ItemMode(call.inst)
    BY <1>1 DEF ContainersInv, ReachInv
  <2> QED BY <2>1, <2>2 DEF ReachInv, ItemMode
<1>9. OwnerInv' /\ ExclusiveInv'
  <2>1. \A v \in Wrappers : Owned(v)' <=> Owned(v) \/ v = w
    BY <1>3, <1>4, <1>5 DEF Owned
  <2>2. \A k \in Handles : Cloned(k)' = Cloned(k)
    BY DEF Cloned
  <2>3. ~Cloned(h)
    BY <1>1 DEF Cloned
  <2>4. \A v \in Wrappers : Owned(v) => Usable(v) /\ v # w /\ wrapper'[v].handle # h
    BY <1>1, <1>3, <1>4 DEF Owned
  <2>5. OwnerInv'
    <3>1. \A k \in Live' : k = h \/ k \in Live
      BY <1>1
    <3>2. \A v \in Wrappers : Owned(v) => wrapper'[v] = wrapper[v]
      BY <1>3, <2>4
    <3> QED BY <1>5, <2>1, <2>2, <3>1, <3>2, ZenonT(60) DEF ContainersInv, OwnerInv, Live
  <2>6. \A k \in Live' : Cloned(k)' => k \notin held \cup leaked
    BY <1>1, <2>2, <2>3 DEF ContainersInv, ExclusiveInv, Live
  <2>7. ASSUME NEW v \in Wrappers, Usable(v)'
        PROVE  /\ wrapper'[v].handle \notin leaked
               /\ ~Cloned(wrapper'[v].handle)
               /\ Owned(v)' => wrapper'[v].handle \notin held
    <3>1. CASE v = w
      <4>1. wrapper'[v].handle = h
        BY <1>5, <3>1
      <4>2. h \notin held /\ h \notin leaked
        BY <1>1
      <4> QED BY <2>3, <4>1, <4>2
    <3>2. CASE v # w
      BY <1>3, <1>4, <2>1, <2>7, <3>2 DEF ContainersInv, ExclusiveInv
    <3> QED BY <3>1, <3>2
  <2>8. ASSUME NEW u \in Wrappers, NEW v \in Wrappers, Owned(u)', Owned(v)',
               wrapper'[u].handle = wrapper'[v].handle
        PROVE  u = v
    <3>1. CASE u = w \/ v = w
      BY <1>5, <2>1, <2>4, <2>8, <3>1
    <3>2. CASE u # w /\ v # w
      BY <1>3, <2>1, <2>8, <3>2 DEF ContainersInv, ExclusiveInv
    <3> QED BY <3>1, <3>2
  <2>9. held \cap leaked = {}
    BY DEF ContainersInv, ExclusiveInv
  <2>10. \A v \in Wrappers : Usable(v)' => ~Cloned(wrapper[v].handle)'
    BY <1>1, <1>3, <1>5, <2>2, <2>7 DEF Cloned
  <2> QED BY <2>5, <2>6, <2>7, <2>8, <2>9, <2>10 DEF ExclusiveInv
<1>10. WalkInv'
  <2>1. walk # Null => walk.wrapper \in Wrappers \ {w} /\ Usable(walk.wrapper)
    BY <1>4 DEF ContainersInv, WalkInv, TypeInv, Walk
  <2>2. walk # Null => ItemsOf(walk.wrapper)' = ItemsOf(walk.wrapper)
    BY <1>1, <1>3, <2>1 DEF ItemsOf
  <2> QED BY <1>4, <2>1, <2>2 DEF ContainersInv, WalkInv
<1>11. ItemsInv'
  <2>1. class'.kind # "Vector" => \A k \in Live' : NoneTwice(native'[k].items)
    BY NewItems
  <2> QED BY <1>1, <2>1 DEF ContainersInv, ItemsInv
<1> QED BY <1>6, <1>7, <1>8, <1>9, <1>10, <1>11 DEF ContainersInv

LEMMA CreateStep ==
  ASSUME ContainersInv, NEW w \in Wrappers, NEW c \in Insts, NEW mode \in Modes,
         Create(w, ManagedTypes(c), mode)
  PROVE  ContainersInv'
<1> DEFINE inst == Dispatch(class.conditions, ManagedTypes(c), mode)
<1>1. ManagedTypes(c) \in Seq(STRING) /\ inst \in Insts
  BY ClassFacts DEF Create, ContainersInv
<1>2. PICK h \in Free :
        /\ native' = [native EXCEPT ![h] = [inst |-> inst, items |-> <<>>]]
        /\ wrapper' = [wrapper EXCEPT ![w] = WrapperOf(h, TRUE, mode, ManagedTypes(c))]
  BY DEF Create
<1>3. wrapper[w] = Null /\ UNCHANGED <<class, held, leaked, call, walk>>
  BY DEF Create
<1> QED BY <1>1, <1>2, <1>3, NoItems, NewWrapperStep

LEMMA FromOwnedStep ==
  ASSUME ContainersInv, NEW w \in Wrappers, NEW c \in Insts, NEW x \in Items,
         FromOwnedHandle(w, c, x)
  PROVE  ContainersInv'
<1>1. /\ ManagedTypes(c) \in Seq(STRING) /\ ItemMode(c) \in Modes
      /\ Dispatch(class.conditions, ManagedTypes(c), ItemMode(c)) = c
  BY ClassFacts DEF ContainersInv
<1>2. PICK h \in Free, items \in Added(<<>>, x) \cup {<<>>} :
        /\ native' = [native EXCEPT ![h] = [inst |-> c, items |-> items]]
        /\ wrapper' = [wrapper EXCEPT ![w] = WrapperOf(h, TRUE, ItemMode(c), ManagedTypes(c))]
  BY DEF FromOwnedHandle
<1>3. items \in Seq(Items) /\ (class.kind # "Vector" => NoneTwice(items))
  BY NoItems, AddedFacts
<1>4. wrapper[w] = Null /\ UNCHANGED <<class, held, leaked, call, walk>>
  BY DEF FromOwnedHandle
<1> QED BY <1>1, <1>2, <1>3, <1>4, NewWrapperStep
LEMMA NativeCreateStep ==
  ASSUME ContainersInv, NEW c \in Insts, NativeCreate(c)
  PROVE  ContainersInv'
<1>1. PICK h \in Free :
        /\ native' = [native EXCEPT ![h] = [inst |-> c, items |-> <<>>]]
        /\ held' = held \cup {h}
  BY DEF NativeCreate
<1>2. UNCHANGED <<class, wrapper, leaked, call, walk>>
  BY DEF NativeCreate
<1>3. /\ h \in Handles /\ h \notin Live
      /\ native' \in [Handles -> Container \cup {Null}]
      /\ native'[h] = [inst |-> c, items |-> <<>>]
      /\ \A k \in Handles \ {h} : native'[k] = native[k]
      /\ Live' = Live \cup {h} /\ Insts' = Insts
      /\ \A v \in Wrappers : Usable(v) => wrapper[v].handle \in Handles \ {h}
      /\ call # Null => call.ptr \in Handles \ {h}
      /\ held \cup leaked \subseteq Live
  BY <1>1, <1>2, NoItems, NewFacts
<1>4. ClassInv'
  BY <1>2 DEF ContainersInv, ClassInv
<1>5. TypeInv'
  BY <1>1, <1>2, <1>3 DEF ContainersInv, TypeInv, Live
<1>6. ReachInv'
  BY <1>2, <1>3 DEF ContainersInv, ReachInv, Usable, InstOf, ItemMode
<1>7. OwnerInv'
  BY <1>1, <1>2, <1>3 DEF ContainersInv, OwnerInv, Owned, Usable, Cloned
<1>8. ExclusiveInv'
  BY <1>1, <1>2, <1>3 DEF ContainersInv, ExclusiveInv, Owned, Usable, Cloned
<1>9. WalkInv'
  <2>1. walk # Null => walk.wrapper \in Wrappers /\ Usable(walk.wrapper)
    BY DEF ContainersInv, WalkInv, TypeInv, Walk
  <2>2. walk # Null => ItemsOf(walk.wrapper)' = ItemsOf(walk.wrapper)
    BY <1>2, <1>3, <2>1 DEF ItemsOf
  <2> QED BY <1>2, <2>1, <2>2 DEF ContainersInv, WalkInv, Usable
<1>10. ItemsInv'
  <2>1. class'.kind # "Vector" => \A k \in Live' : NoneTwice(native'[k].items)
    BY <1>1, <1>2, NoItems, NewItems
  <2> QED BY <1>2, <1>3, <2>1 DEF ContainersInv, ItemsInv
<1> QED BY <1>4, <1>5, <1>6, <1>7, <1>8, <1>9, <1>10 DEF ContainersInv

LEMMA FromBorrowedStep ==
  ASSUME RulesKept, ContainersInv, NEW w \in Wrappers, NEW h \in Handles,
         FromBorrowedHandle(w, h)
  PROVE  ContainersInv'
<1> DEFINE c == native[h].inst
           new == WrapperOf(h, FALSE, ItemMode(c), ManagedTypes(c))
<1>1. /\ wrapper[w] = Null /\ h \in Live /\ h \notin leaked /\ ~Passed(h)
      /\ wrapper' = [wrapper EXCEPT ![w] = new]
      /\ UNCHANGED <<class, native, held, leaked, call, walk>>
  BY DEF FromBorrowedHandle, RulesKept
<1>2. /\ c \in Insts /\ ManagedTypes(c) \in Seq(STRING) /\ ItemMode(c) \in Modes
      /\ Dispatch(class.conditions, ManagedTypes(c), ItemMode(c)) = c
  BY <1>1, ClassFacts DEF ContainersInv, TypeInv
<1>3. /\ new \in Wrapper /\ new.handle = h /\ new.owned = FALSE
      /\ new.mode = ItemMode(c) /\ new.types = ManagedTypes(c)
  BY <1>2 DEF WrapperOf, Wrapper
<1> HIDE DEF new
<1>4. /\ wrapper' \in [Wrappers -> Wrapper \cup {Null}] /\ wrapper'[w] = new
      /\ \A v \in Wrappers \ {w} : wrapper'[v] = wrapper[v]
  BY <1>1, <1>3 DEF ContainersInv, TypeInv
<1>5. /\ \A v \in Wrappers : Usable(v)' <=> Usable(v) \/ v = w
      /\ \A v \in Wrappers : Usable(v) => v # w
      /\ \A v \in Wrappers : Owned(v)' <=> Owned(v)
      /\ Live' = Live /\ Insts' = Insts
  BY <1>1, <1>3, <1>4, NullAssumption DEF Usable, Owned, Live, Insts
<1>6. ClassInv'
  BY <1>1 DEF ContainersInv, ClassInv
<1>7. TypeInv'
  BY <1>1, <1>4, <1>5 DEF ContainersInv, TypeInv
<1>8. ReachInv'
  <2>1. InstOf(w)' = c
    BY <1>1, <1>2, <1>3, <1>4 DEF InstOf
  <2>2. \A v \in Wrappers \ {w} : InstOf(v)' = InstOf(v)
    BY <1>1, <1>4 DEF InstOf
  <2>3. ASSUME NEW v \in Wrappers, Usable(v)'
        PROVE  wrapper'[v].handle \in Live' /\ InstOf(v)' = native'[wrapper'[v].handle].inst
    <3>1. CASE v = w
      BY <1>1, <1>3, <1>4, <1>5, <2>1, <3>1
    <3>2. CASE v # w
      BY <1>1, <1>4, <1>5, <2>2, <2>3, <3>2 DEF ContainersInv, ReachInv
    <3> QED BY <3>1, <3>2
  <2> QED BY <1>1, <1>5, <2>3 DEF ContainersInv, ReachInv, ItemMode
<1>9. OwnerInv'
  <2>1. \A v \in Wrappers : Owned(v) => v # w /\ wrapper'[v] = wrapper[v]
    BY <1>4, <1>5 DEF Owned
  <2> QED BY <1>1, <1>5, <2>1 DEF ContainersInv, OwnerInv, Cloned
<1>10. ExclusiveInv'
  <2>1. ~Cloned(h)
    BY <1>1 DEF Cloned, Passed
  <2>2. \A v \in Wrappers : Owned(v) => v # w /\ wrapper'[v] = wrapper[v]
    BY <1>4, <1>5 DEF Owned
  <2>3. ASSUME NEW v \in Wrappers, Usable(v)'
        PROVE  /\ wrapper'[v].handle \notin leaked
               /\ ~Cloned(wrapper'[v].handle)
               /\ Owned(v)' => wrapper'[v].handle \notin held
    <3>1. CASE v = w
      BY <1>1, <1>3, <1>4, <1>5, <2>1, <2>2, <3>1
    <3>2. CASE v # w
      BY <1>4, <1>5, <2>3, <3>2 DEF ContainersInv, ExclusiveInv
    <3> QED BY <3>1, <3>2
  <2>4. \A v \in Wrappers : Usable(v)' => ~Cloned(wrapper[v].handle)'
    BY <1>1, <2>3 DEF Cloned
  <2> QED BY <1>1, <1>5, <2>2, <2>3, <2>4 DEF ContainersInv, ExclusiveInv, Cloned
<1>11. WalkInv'
  <2>1. walk # Null => walk.wrapper \in Wrappers \ {w} /\ Usable(walk.wrapper)
    BY <1>5 DEF ContainersInv, WalkInv, TypeInv, Walk
  <2>2. walk # Null => ItemsOf(walk.wrapper)' = ItemsOf(walk.wrapper)
    BY <1>1, <1>4, <2>1 DEF ItemsOf
  <2> QED BY <1>1, <1>5, <2>1, <2>2 DEF ContainersInv, WalkInv
<1>12. ItemsInv'
  BY <1>1, <1>5 DEF ContainersInv, ItemsInv
<1> QED BY <1>6, <1>7, <1>8, <1>9, <1>10, <1>11, <1>12 DEF ContainersInv

LEMMA SetOwnershipStep ==
  ASSUME ContainersInv, NEW w \in Wrappers, SetOwnership(w)
  PROVE  ContainersInv'
<1> DEFINE h == wrapper[w].handle
<1>1. /\ Usable(w) /\ (wrapper[w].owned \/ h \in held)
      /\ wrapper' = [wrapper EXCEPT ![w].owned = ~@]
      /\ held' = IF wrapper[w].owned THEN held \cup {h} ELSE held \ {h}
      /\ UNCHANGED <<class, native, leaked, call, walk>>
  BY DEF SetOwnership
<1>2. h \in Live /\ h \in Handles /\ wrapper[w] \in Wrapper /\ ~Cloned(h)
  BY <1>1, MemberFacts
<1>3. /\ wrapper' \in [Wrappers -> Wrapper \cup {Null}]
      /\ wrapper'[w] = [wrapper[w] EXCEPT !.owned = ~@] /\ wrapper'[w] \in Wrapper
      /\ \A v \in Wrappers \ {w} : wrapper'[v] = wrapper[v]
  BY <1>1, <1>2 DEF ContainersInv, TypeInv, Wrapper
<1>4. /\ wrapper'[w].handle = h /\ wrapper'[w].owned = ~wrapper[w].owned
      /\ wrapper'[w].mode = wrapper[w].mode /\ wrapper'[w].types = wrapper[w].types
  BY <1>2, <1>3 DEF Wrapper
<1>5. /\ \A v \in Wrappers : wrapper'[v].handle = wrapper[v].handle
      /\ \A v \in Wrappers : InstOf(v)' = InstOf(v)
      /\ \A v \in Wrappers : Usable(v)' <=> Usable(v)
      /\ Live' = Live /\ Insts' = Insts
  BY <1>1, <1>3, <1>4, NullAssumption DEF Usable, InstOf, Live, Insts
<1>6. /\ \A v \in Wrappers \ {w} : Owned(v)' <=> Owned(v)
      /\ Owned(w)' <=> ~Owned(w)
      /\ Owned(w) <=> wrapper[w].owned
  BY <1>1, <1>3, <1>4, <1>5 DEF Owned, Usable
<1>7. \A k \in Handles : Cloned(k)' <=> Cloned(k)
  BY <1>1 DEF Cloned
<1> HIDE DEF h
<1>8. ClassInv'
  BY <1>1 DEF ContainersInv, ClassInv
<1>9. TypeInv'
  BY <1>1, <1>2, <1>3, <1>5 DEF ContainersInv, TypeInv
<1>10. ReachInv'
  BY <1>1, <1>5 DEF ContainersInv, ReachInv, ItemMode
<1>11. OwnerInv'
  <2>1. ASSUME NEW k \in Live, k # h
        PROVE  \/ k \in held' \cup leaked
               \/ Cloned(k)
               \/ \E v \in Wrappers : Owned(v)' /\ wrapper'[v].handle = k
    BY <1>1, <1>5, <1>6, <2>1 DEF ContainersInv, OwnerInv, h
  <2>2. h \in held' \/ Owned(w)'
    BY <1>1, <1>6
  <2>3. wrapper'[w].handle = h
    BY <1>5 DEF h
  <2> QED BY <1>1, <1>5, <1>7, <2>1, <2>2, <2>3 DEF OwnerInv, Live
<1>12. ExclusiveInv'
  <2>1. h \notin leaked
    BY <1>1 DEF ContainersInv, ExclusiveInv, h
  <2>2. \A k \in held' : k \in held \/ k = h
    BY <1>1
  <2>3. held' \cap leaked = {}
    BY <2>1, <2>2 DEF ContainersInv, ExclusiveInv
  <2>4. \A k \in Live' : Cloned(k)' => k \notin held' \cup leaked
    BY <1>2, <1>5, <1>7, <2>2 DEF ContainersInv, ExclusiveInv, Live
  <2>5. \A v \in Wrappers : Usable(v) => wrapper[v].handle \in Handles
    BY DEF ContainersInv, ReachInv, Live
  <2>6. \A v \in Wrappers : Usable(v)' =>
          wrapper'[v].handle \notin leaked /\ ~Cloned(wrapper[v].handle)'
    BY <1>5, <1>7, <2>5 DEF ContainersInv, ExclusiveInv
  <2>7. \A v \in Wrappers \ {w} : Owned(v) /\ wrapper[v].handle = h => h \notin held /\ ~Owned(w)
    BY DEF ContainersInv, ExclusiveInv, Owned, h
  <2>8. ASSUME NEW v \in Wrappers, Owned(v)'
        PROVE  wrapper'[v].handle \notin held'
    <3>1. CASE v = w
      BY <1>1, <1>4, <1>6, <2>8, <3>1
    <3>2. CASE v # w
      <4>1. Owned(v) /\ wrapper'[v].handle = wrapper[v].handle
        BY <1>5, <1>6, <2>8, <3>2
      <4>2. wrapper[v].handle \notin held
        BY <4>1 DEF ContainersInv, ExclusiveInv, Owned
      <4>3. wrapper[v].handle # h
        BY <1>1, <1>6, <2>7, <3>2, <4>1
      <4> QED BY <2>2, <4>1, <4>2, <4>3
    <3> QED BY <3>1, <3>2
  <2>9. ASSUME NEW u \in Wrappers, NEW v \in Wrappers, Owned(u)', Owned(v)',
               wrapper'[u].handle = wrapper'[v].handle
        PROVE  u = v
    <3>1. wrapper[u].handle = wrapper[v].handle
      BY <1>5, <2>9
    <3>2. CASE u # w /\ v # w
      BY <1>6, <2>9, <3>1, <3>2 DEF ContainersInv, ExclusiveInv
    <3>3. CASE u = w /\ v # w
      BY <1>1, <1>6, <2>7, <2>9, <3>1, <3>3 DEF h
    <3>4. CASE v = w /\ u # w
      BY <1>1, <1>6, <2>7, <2>9, <3>1, <3>4 DEF h
    <3> QED BY <3>2, <3>3, <3>4
  <2> QED BY <1>1, <2>3, <2>4, <2>6, <2>8, <2>9 DEF ExclusiveInv
<1>13. WalkInv'
  <2>1. walk # Null => walk.wrapper \in Wrappers /\ Usable(walk.wrapper)
    BY DEF ContainersInv, WalkInv, TypeInv, Walk
  <2>2. walk # Null => ItemsOf(walk.wrapper)' = ItemsOf(walk.wrapper)
    BY <1>1, <1>5, <2>1 DEF ItemsOf
  <2> QED BY <1>1, <1>5, <2>1, <2>2 DEF ContainersInv, WalkInv
<1>14. ItemsInv'
  BY <1>1, <1>5 DEF ContainersInv, ItemsInv
<1> QED BY <1>8, <1>9, <1>10, <1>11, <1>12, <1>13, <1>14 DEF ContainersInv

\* A container that no wrapper is left of and no call has is destroyed.
LEMMA GoneStep ==
  ASSUME ContainersInv, NEW h \in Live, ~Passed(h),
         NEW W \in SUBSET Wrappers,
         \A w \in Wrappers : Usable(w) /\ wrapper[w].handle = h => w \in W,
         \A w \in W : ~WalkedBy(w) /\ (Owned(w) => wrapper[w].handle = h),
         h \notin leaked,
         native' = [native EXCEPT ![h] = Null],
         wrapper' = [w \in Wrappers |-> IF w \in W THEN Null ELSE wrapper[w]],
         held' = held \ {h},
         UNCHANGED <<class, leaked, call, walk>>
  PROVE  ContainersInv'
<1>1. /\ h \in Handles /\ native' \in [Handles -> Container \cup {Null}] /\ native'[h] = Null
      /\ \A k \in Handles \ {h} : native'[k] = native[k]
      /\ Live' = Live \ {h} /\ Insts' = Insts
  BY DEF ContainersInv, TypeInv, Live, Insts
<1>2. /\ wrapper' \in [Wrappers -> Wrapper \cup {Null}]
      /\ \A w \in Wrappers : Usable(w)' <=> Usable(w) /\ w \notin W
      /\ \A w \in Wrappers : Usable(w)' => wrapper'[w] = wrapper[w]
      /\ \A w \in Wrappers : Owned(w)' <=> Owned(w) /\ w \notin W
  BY DEF ContainersInv, TypeInv, Usable, Owned
<1>3. \A w \in Wrappers : Usable(w)' =>
        wrapper[w].handle \in Live \ {h} /\ wrapper[w].handle \in Handles \ {h}
  BY <1>2 DEF ContainersInv, ReachInv, Live
<1>4. call # Null => call.ptr \in Live \ {h} /\ call.ptr \in Handles \ {h}
  BY DEF Passed, ContainersInv, ReachInv, Live
<1>5. \A k : Cloned(k)' <=> Cloned(k)
  BY DEF Cloned
<1>6. ClassInv'
  BY DEF ContainersInv, ClassInv
<1>7. TypeInv'
  BY <1>1, <1>2 DEF ContainersInv, TypeInv, Live
<1>8. ReachInv'
  <2>1. \A w \in Wrappers : Usable(w)' => InstOf(w)' = InstOf(w)
    BY <1>2 DEF InstOf
  <2> QED BY <1>1, <1>2, <1>3, <1>4, <2>1 DEF ContainersInv, ReachInv, ItemMode
<1>9. OwnerInv'
  <2>1. ASSUME NEW k \in Live', NEW w \in Wrappers, Owned(w), wrapper[w].handle = k
        PROVE  Owned(w)' /\ wrapper'[w].handle = k
    <3>1. w \notin W
      BY <1>1, <2>1
    <3> QED BY <1>2, <2>1, <3>1 DEF Owned
  <2> QED BY <1>1, <1>5, <2>1 DEF ContainersInv, OwnerInv
<1>10. ExclusiveInv'
  <2>1. \A w \in Wrappers : Usable(w)' =>
          /\ wrapper'[w].handle \notin leaked /\ ~Cloned(wrapper'[w].handle)
          /\ Owned(w)' => wrapper'[w].handle \notin held'
    BY <1>2 DEF ContainersInv, ExclusiveInv
  <2>2. \A w \in Wrappers : Usable(w)' => ~Cloned(wrapper[w].handle)'
    BY <2>1 DEF Cloned
  <2>3. \A v, w \in Wrappers :
          Owned(v)' /\ Owned(w)' /\ wrapper'[v].handle = wrapper'[w].handle => v = w
    BY <1>2 DEF ContainersInv, ExclusiveInv, Owned
  <2> QED BY <1>1, <1>5, <2>1, <2>2, <2>3 DEF ContainersInv, ExclusiveInv
<1>11. WalkInv'
  <2>1. walk # Null => walk.wrapper \in Wrappers /\ Usable(walk.wrapper)'
    BY <1>2 DEF ContainersInv, WalkInv, TypeInv, Walk, WalkedBy
  <2>2. walk # Null => ItemsOf(walk.wrapper)' = ItemsOf(walk.wrapper)
    BY <1>1, <1>2, <1>3, <2>1 DEF ItemsOf
  <2> QED BY <2>1, <2>2 DEF ContainersInv, WalkInv
<1>12. ItemsInv'
  BY <1>1, <1>4 DEF ContainersInv, ItemsInv, Live
<1> QED BY <1>6, <1>7, <1>8, <1>9, <1>10, <1>11, <1>12 DEF ContainersInv

LEMMA NativeDestroyStep ==
  ASSUME RulesKept, ContainersInv, NEW h \in Handles, NativeDestroy(h)
  PROVE  ContainersInv'
<1>1. /\ h \in held /\ ~InUse(h, Null)
      /\ native' = [native EXCEPT ![h] = Null] /\ held' = held \ {h}
      /\ UNCHANGED <<class, wrapper, leaked, call, walk>>
  BY DEF NativeDestroy, RulesKept
<1>2. h \in Live /\ h \notin leaked
  BY <1>1 DEF ContainersInv, TypeInv, ExclusiveInv
<1>3. ~Passed(h) /\ \A w \in Wrappers : ~(Usable(w) /\ wrapper[w].handle = h)
  BY <1>1, NullAssumption DEF InUse
<1> DEFINE W == {}
<1>4. wrapper' = [w \in Wrappers |-> IF w \in W THEN Null ELSE wrapper[w]]
  BY <1>1 DEF ContainersInv, TypeInv
<1>5. /\ W \in SUBSET Wrappers
      /\ \A w \in Wrappers : Usable(w) /\ wrapper[w].handle = h => w \in W
      /\ \A w \in W : ~WalkedBy(w) /\ (Owned(w) => wrapper[w].handle = h)
  BY <1>3
<1> HIDE DEF W
<1> QED BY <1>1, <1>2, <1>3, <1>4, <1>5, GoneStep

LEMMA DisposeStep ==
  ASSUME RulesKept, ContainersInv, NEW w \in Wrappers, Dispose(w)
  PROVE  ContainersInv'
<1> DEFINE h == wrapper[w].handle
<1>1. /\ Usable(w) /\ (wrapper[w].owned => ~InUse(h, w)) /\ ~WalkedBy(w)
      /\ native' = IF wrapper[w].owned /\ InstOf(w) # 0
                   THEN [native EXCEPT ![h] = Null] ELSE native
      /\ wrapper' = [wrapper EXCEPT ![w] = Null]
      /\ UNCHANGED <<class, held, leaked, call, walk>>
  BY DEF Dispose, RulesKept
<1>2. h \in Live /\ h \notin leaked /\ wrapper[w] \in Wrapper
  BY <1>1, MemberFacts DEF ContainersInv, ExclusiveInv
<1>3. CASE wrapper[w].owned
  <2>1. h \notin held /\ held' = held \ {h}
    BY <1>1, <1>3 DEF ContainersInv, ExclusiveInv, Owned
  <2>2. InstOf(w) # 0
    BY <1>1, <1>2, ClassFacts DEF ContainersInv, ReachInv, TypeInv
  <2>3. native' = [native EXCEPT ![h] = Null]
    BY <1>1, <1>3, <2>2
  <2> DEFINE W == {w}
  <2>4. ~Passed(h) /\ \A v \in Wrappers : Usable(v) /\ wrapper[v].handle = h => v \in W
    BY <1>1, <1>3 DEF InUse
  <2>5. wrapper' = [v \in Wrappers |-> IF v \in W THEN Null ELSE wrapper[v]]
    BY <1>1 DEF ContainersInv, TypeInv
  <2>6. /\ W \in SUBSET Wrappers
        /\ \A v \in W : ~WalkedBy(v) /\ (Owned(v) => wrapper[v].handle = h)
    BY <1>1
  <2> HIDE DEF W, h
  <2> QED BY <1>1, <1>2, <2>1, <2>3, <2>4, <2>5, <2>6, GoneStep
<1>4. CASE ~wrapper[w].owned
  <2>1. /\ wrapper' \in [Wrappers -> Wrapper \cup {Null}] /\ wrapper'[w] = Null
        /\ \A v \in Wrappers \ {w} : wrapper'[v] = wrapper[v]
        /\ native' = native /\ Live' = Live /\ Insts' = Insts
    BY <1>1, <1>4 DEF ContainersInv, TypeInv, Live, Insts
  <2>2. /\ \A v \in Wrappers : Usable(v)' <=> Usable(v) /\ v # w
        /\ \A v \in Wrappers : Owned(v) => v # w
        /\ \A v \in Wrappers : Owned(v)' <=> Owned(v)
        /\ \A v \in Wrappers : Usable(v)' => wrapper'[v] = wrapper[v]
        /\ \A v \in Wrappers : Usable(v)' => InstOf(v)' = InstOf(v)
    BY <1>1, <1>4, <2>1 DEF Usable, Owned, InstOf
  <2>3. ClassInv' /\ TypeInv'
    BY <1>1, <2>1 DEF ContainersInv, ClassInv, TypeInv
  <2>4. ReachInv'
    BY <1>1, <2>1, <2>2 DEF ContainersInv, ReachInv, ItemMode
  <2>5. OwnerInv'
    BY <1>1, <2>1, <2>2 DEF ContainersInv, OwnerInv, Cloned, Owned
  <2>6. ExclusiveInv'
    BY <1>1, <2>1, <2>2 DEF ContainersInv, ExclusiveInv, Cloned, Owned
  <2>7. WalkInv'
    <3>1. walk # Null => walk.wrapper \in Wrappers /\ Usable(walk.wrapper)'
      BY <1>1, <2>2 DEF ContainersInv, WalkInv, TypeInv, Walk, WalkedBy
    <3>2. walk # Null => ItemsOf(walk.wrapper)' = ItemsOf(walk.wrapper)
      BY <1>1, <2>1, <2>2, <3>1 DEF ItemsOf
    <3> QED BY <1>1, <3>1, <3>2 DEF ContainersInv, WalkInv
  <2>8. ItemsInv'
    BY <1>1, <2>1 DEF ContainersInv, ItemsInv
  <2> QED BY <2>3, <2>4, <2>5, <2>6, <2>7, <2>8 DEF ContainersInv
<1> QED BY <1>3, <1>4

-----------------------------------------------------------------------------
(***************************************************************************)
(* Enumerations.                                                           *)
(***************************************************************************)
\* A step that leaves everything but the enumeration alone.
LEMMA WalkStep ==
  ASSUME ContainersInv, UNCHANGED <<class, native, wrapper, held, leaked, call>>,
         walk' \in Walk \cup {Null}, WalkInv'
  PROVE  ContainersInv'
<1>1. Live' = Live /\ Insts' = Insts
  BY DEF Live, Insts
<1>2. ClassInv' /\ TypeInv' /\ ReachInv' /\ ItemsInv'
  BY <1>1 DEF ContainersInv, ClassInv, TypeInv, ReachInv, ItemsInv, Usable, InstOf, ItemMode
<1>3. OwnerInv' /\ ExclusiveInv'
  BY <1>1 DEF ContainersInv, OwnerInv, ExclusiveInv, Cloned, Owned, Usable
<1> QED BY <1>2, <1>3 DEF ContainersInv

LEMMA GetEnumeratorStep ==
  ASSUME ContainersInv, NEW w \in Wrappers, GetEnumerator(w)
  PROVE  ContainersInv'
<1>1. /\ Usable(w) /\ walk' = [wrapper |-> w, index |-> 0, seen |-> <<>>, done |-> FALSE]
      /\ UNCHANGED <<class, native, wrapper, held, leaked, call>>
  BY DEF GetEnumerator
<1>2. walk' \in Walk
  BY <1>1 DEF Walk
<1>3. ItemsOf(w) \in Seq(Items) /\ SubSeq(ItemsOf(w), 1, 0) = <<>>
  BY <1>1, MemberFacts
<1>4. WalkInv'
  BY <1>1, <1>3 DEF WalkInv, Usable, ItemsOf
<1> QED BY <1>1, <1>2, <1>4, WalkStep

LEMMA MoveNextStep ==
  ASSUME ContainersInv, MoveNext
  PROVE  ContainersInv'
<1> DEFINE items == ItemsOf(walk.wrapper)
<1>1. /\ walk # Null /\ ~walk.done /\ Usable(walk.wrapper)
      /\ walk' = IF walk.index < Len(items)
                 THEN [walk EXCEPT !.index = @ + 1, !.seen = Append(@, items[walk.index + 1])]
                 ELSE [walk EXCEPT !.done = TRUE]
      /\ UNCHANGED <<class, native, wrapper, held, leaked, call>>
  BY DEF MoveNext
<1>2. walk \in Walk /\ walk.wrapper \in Wrappers
  BY <1>1 DEF ContainersInv, TypeInv, Walk
<1>3. items \in Seq(Items) /\ Len(items) \in Nat
  BY <1>1, <1>2, MemberFacts
<1>4. walk.index \in Nat /\ walk.index <= Len(items) /\ walk.seen = SubSeq(items, 1, walk.index)
  BY <1>1, <1>2 DEF ContainersInv, WalkInv, Walk
<1> HIDE DEF items
<1>5. CASE walk.index < Len(items)
  <2> DEFINE next == items[walk.index + 1]
  <2>1. walk' = [walk EXCEPT !.index = @ + 1, !.seen = Append(@, next)]
    BY <1>1, <1>5
  <2>0. next \in Items
    BY <1>3, <1>4, <1>5
  <2> HIDE DEF next
  <2>2. walk.seen \in Seq(Items) /\ Append(walk.seen, next) \in Seq(Items)
    BY <1>2, <2>0 DEF Walk
  <2>3. /\ walk' \in Walk /\ walk'.wrapper = walk.wrapper /\ walk'.index = walk.index + 1
        /\ walk'.seen = Append(walk.seen, next) /\ walk'.done = walk.done
    <3>1. walk' = [wrapper |-> walk.wrapper, index |-> walk.index + 1,
                   seen |-> Append(walk.seen, next), done |-> walk.done]
      BY <1>2, <2>1 DEF Walk
    <3> QED BY <1>2, <1>4, <2>2, <3>1 DEF Walk
  <2>4. Append(SubSeq(items, 1, walk.index), next) = SubSeq(items, 1, walk.index + 1)
    BY <1>3, <1>4, <1>5 DEF next
  <2>5. Usable(walk.wrapper)' /\ ItemsOf(walk.wrapper)' = items
    BY <1>1, <2>3 DEF Usable, ItemsOf, items
  <2>6. ~walk'.done
    BY <1>1, <2>3
  <2>7. walk'.index <= Len(items)
    BY <1>3, <1>4, <1>5, <2>3
  <2>8. WalkInv'
    BY <1>4, <2>3, <2>4, <2>5, <2>6, <2>7 DEF WalkInv
  <2> QED BY <1>1, <2>3, <2>8, WalkStep
<1>6. CASE ~(walk.index < Len(items))
  <2>1. walk' = [walk EXCEPT !.done = TRUE]
    BY <1>1, <1>6
  <2>2. /\ walk' \in Walk /\ walk'.wrapper = walk.wrapper /\ walk'.index = walk.index
        /\ walk'.seen = walk.seen
    BY <1>2, <2>1 DEF Walk
  <2>3. Usable(walk.wrapper)' /\ ItemsOf(walk.wrapper)' = items
    BY <1>1, <2>2 DEF Usable, ItemsOf, items
  <2>4. walk.index = Len(items)
    BY <1>3, <1>4, <1>6
  <2>5. WalkInv'
    BY <1>4, <2>2, <2>3, <2>4 DEF WalkInv
  <2> QED BY <1>1, <2>2, <2>5, WalkStep
<1> QED BY <1>5, <1>6

LEMMA EndWalkStep ==
  ASSUME ContainersInv, EndWalk
  PROVE  ContainersInv'
BY WalkStep DEF EndWalk, WalkInv

-----------------------------------------------------------------------------
(***************************************************************************)
(* Calls.                                                                  *)
(***************************************************************************)
LEMMA PassByValueStep ==
  ASSUME RulesKept, ContainersInv, NEW w \in Wrappers \cup {Null}, NEW c \in Insts,
         PassByValue(w, c)
  PROVE  ContainersInv'
<1> DEFINE items == ItemsOf(w)
<1>1. /\ call = Null /\ w # Null /\ Usable(w) /\ wrapper[w].mode = ItemMode(c)
      /\ UNCHANGED <<class, wrapper, held, leaked, walk>>
  BY DEF PassByValue, RulesKept
<1>2. /\ Dispatch(class.conditions, ManagedTypes(c), ItemMode(c)) = c
      /\ ItemMode(c) \in Modes /\ c \in Nat
  BY ClassFacts DEF ContainersInv
<1>3. PICK h \in Free, copy \in Copies(items) :
        /\ native' = [native EXCEPT ![h] = [inst |-> c, items |-> copy]]
        /\ call' = [inst |-> c, ptr |-> h, clone |-> TRUE, mode |-> ItemMode(c), items |-> items]
  BY <1>1, <1>2 DEF PassByValue
<1>4. items \in Seq(Items) /\ (class.kind # "Vector" => NoneTwice(items))
  BY <1>1, MemberFacts
<1> HIDE DEF items
<1>5. /\ copy \in Seq(Items) /\ (class.kind # "Vector" => NoneTwice(copy))
      /\ Range(copy) = Range(items) /\ Len(copy) = Len(items)
      /\ class.kind # "UnorderedMap" => copy = items
  BY <1>4, CopiesFacts
<1>6. /\ h \in Handles /\ h \notin Live
      /\ native' \in [Handles -> Container \cup {Null}]
      /\ native'[h] = [inst |-> c, items |-> copy]
      /\ \A k \in Handles \ {h} : native'[k] = native[k]
      /\ Live' = Live \cup {h} /\ Insts' = Insts
      /\ \A v \in Wrappers : Usable(v) => wrapper[v].handle \in Handles \ {h}
      /\ held \cup leaked \subseteq Live
  BY <1>1, <1>3, <1>5, NewFacts
<1>7. call' \in Argument
  BY <1>2, <1>3, <1>4, <1>6 DEF Argument
<1>8. /\ call'.inst = c /\ call'.ptr = h /\ call'.clone = TRUE
      /\ call'.mode = ItemMode(c) /\ call'.items = items
  BY <1>3
<1>9. \A k : (Cloned(k)' <=> k = h) /\ ~Cloned(k)
  BY <1>1, <1>7, <1>8, NullAssumption DEF Cloned
<1>10. ClassInv'
  BY <1>1 DEF ContainersInv, ClassInv
<1>11. TypeInv'
  <2>1. \A k \in Live' : native'[k].inst \in Insts
    BY <1>6 DEF ContainersInv, TypeInv, Live
  <2> QED BY <1>1, <1>6, <1>7, <1>8, <2>1 DEF ContainersInv, TypeInv
<1>12. ReachInv'
  <2>1. \A v \in Wrappers : Usable(v)' =>
          wrapper'[v].handle \in Live' /\ InstOf(v)' = native'[wrapper'[v].handle].inst
    BY <1>1, <1>6 DEF ContainersInv, ReachInv, Usable, InstOf
  <2>2. call'.ptr \in Live' /\ native'[call'.ptr].inst = call'.inst
    BY <1>6, <1>8
  <2>3. call'.mode = ItemMode(call.inst)'
    BY <1>1, <1>8 DEF ItemMode
  <2> QED BY <2>1, <2>2, <2>3 DEF ReachInv
<1>13. OwnerInv'
  BY <1>1, <1>6, <1>9 DEF ContainersInv, OwnerInv, Owned, Usable
<1>14. ExclusiveInv'
  <2>1. \A v \in Wrappers : Usable(v) => ~Cloned(wrapper[v].handle)'
    BY <1>1, <1>6, <1>8 DEF Cloned
  <2> QED BY <1>1, <1>6, <1>9, <2>1 DEF ContainersInv, ExclusiveInv, Owned, Usable
<1>15. WalkInv'
  <2>1. walk # Null => walk.wrapper \in Wrappers /\ Usable(walk.wrapper)
    BY DEF ContainersInv, WalkInv, TypeInv, Walk
  <2>2. walk # Null => ItemsOf(walk.wrapper)' = ItemsOf(walk.wrapper)
    BY <1>1, <1>6, <2>1 DEF ItemsOf
  <2> QED BY <1>1, <2>1, <2>2 DEF ContainersInv, WalkInv, Usable
<1>16. ItemsInv'
  <2>1. class'.kind # "Vector" => \A k \in Live' : NoneTwice(native'[k].items)
    BY <1>1, <1>3, <1>5, NewItems
  <2>2. native'[call'.ptr].items = copy
    BY <1>6, <1>8
  <2> QED BY <1>1, <1>5, <1>8, <2>1, <2>2 DEF ItemsInv
<1> QED BY <1>10, <1>11, <1>12, <1>13, <1>14, <1>15, <1>16 DEF ContainersInv

LEMMA PassByReferenceStep ==
  ASSUME RulesKept, ContainersInv, NEW w \in Wrappers, NEW c \in Insts, PassByReference(w, c)
  PROVE  ContainersInv'
<1> DEFINE h == wrapper[w].handle
<1>1. /\ call = Null /\ Usable(w) /\ wrapper[w].types = ManagedTypes(c)
      /\ wrapper[w].mode = ItemMode(c)
      /\ call' = [inst |-> c, ptr |-> h, clone |-> FALSE,
                  mode |-> wrapper[w].mode, items |-> <<>>]
      /\ UNCHANGED <<class, native, wrapper, held, leaked, walk>>
  BY DEF PassByReference, RulesKept
<1>2. /\ Dispatch(class.conditions, ManagedTypes(c), ItemMode(c)) = c
      /\ ItemMode(c) \in Modes /\ c \in Nat
  BY ClassFacts DEF ContainersInv
<1>3. h \in Live /\ h \in Handles
  BY <1>1, MemberFacts
<1>4. native[h].inst = c
  BY <1>1, <1>2 DEF ContainersInv, ReachInv, InstOf
<1> HIDE DEF h
<1>5. call' \in Argument
  BY <1>1, <1>2, <1>3, NoItems DEF Argument
<1>6. /\ call'.inst = c /\ call'.ptr = h /\ call'.clone = FALSE /\ call'.mode = ItemMode(c)
      /\ Live' = Live /\ Insts' = Insts
  BY <1>1 DEF Live, Insts
<1>7. \A k : ~Cloned(k)' /\ ~Cloned(k)
  BY <1>1, <1>6 DEF Cloned
<1>8. ClassInv' /\ TypeInv'
  BY <1>1, <1>5, <1>6 DEF ContainersInv, ClassInv, TypeInv
<1>9. ReachInv'
  BY <1>1, <1>3, <1>4, <1>6 DEF ContainersInv, ReachInv, Usable, InstOf, ItemMode
<1>10. OwnerInv'
  BY <1>1, <1>6, <1>7 DEF ContainersInv, OwnerInv, Owned, Usable
<1>11. ExclusiveInv'
  <2>1. \A v \in Wrappers : ~Cloned(wrapper[v].handle)'
    BY <1>6 DEF Cloned
  <2> QED BY <1>1, <1>6, <1>7, <2>1 DEF ContainersInv, ExclusiveInv, Owned, Usable
<1>12. WalkInv'
  BY <1>1 DEF ContainersInv, WalkInv, Usable, ItemsOf
<1>13. ItemsInv'
  BY <1>1, <1>6 DEF ContainersInv, ItemsInv
<1> QED BY <1>8, <1>9, <1>10, <1>11, <1>12, <1>13 DEF ContainersInv

LEMMA LeakStep ==
  ASSUME ContainersInv, Leak
  PROVE  ContainersInv'
<1>1. /\ call # Null /\ call.clone /\ leaked' = leaked \cup {call.ptr} /\ call' = Null
      /\ UNCHANGED <<class, native, wrapper, held, walk>>
  BY DEF Leak
<1>2. call.ptr \in Live /\ Cloned(call.ptr) /\ call.ptr \notin held
  BY <1>1 DEF ContainersInv, ReachInv, ExclusiveInv, Cloned
<1>3. Live' = Live /\ Insts' = Insts /\ \A k : ~Cloned(k)' /\ (Cloned(k) => k = call.ptr)
  BY <1>1 DEF Live, Insts, Cloned
<1>4. ClassInv' /\ TypeInv'
  BY <1>1, <1>2, <1>3 DEF ContainersInv, ClassInv, TypeInv
<1>5. ReachInv'
  BY <1>1, <1>3 DEF ContainersInv, ReachInv, Usable, InstOf
<1>6. OwnerInv'
  BY <1>1, <1>3 DEF ContainersInv, OwnerInv, Owned, Usable
<1>7. ExclusiveInv'
  <2>1. \A v \in Wrappers : Usable(v) =>
          wrapper[v].handle # call.ptr /\ ~Cloned(wrapper[v].handle)'
    BY <1>1, <1>2 DEF ContainersInv, ExclusiveInv, Cloned
  <2> QED BY <1>1, <1>2, <1>3, <2>1 DEF ContainersInv, ExclusiveInv, Owned, Usable
<1>8. WalkInv'
  BY <1>1 DEF ContainersInv, WalkInv, Usable, ItemsOf
<1>9. ItemsInv'
  BY <1>1, <1>3 DEF ContainersInv, ItemsInv
<1> QED BY <1>4, <1>5, <1>6, <1>7, <1>8, <1>9 DEF ContainersInv

LEMMA DestroyOwnedHandleStep ==
  ASSUME ContainersInv, DestroyOwnedHandle
  PROVE  ContainersInv'
<1> DEFINE h == call.ptr
<1>1. /\ call # Null /\ call' = Null
      /\ native' = IF call.clone
                        /\ Dispatch(class.conditions, ManagedTypes(call.inst), call.mode) # 0
                   THEN [native EXCEPT ![h] = Null] ELSE native
      /\ UNCHANGED <<class, wrapper, held, leaked, walk>>
  BY DEF DestroyOwnedHandle
<1>2. Dispatch(class.conditions, ManagedTypes(call.inst), call.mode) # 0
  BY <1>1, ClassFacts DEF ContainersInv, ReachInv, TypeInv
<1>3. h \in Live /\ h \in Handles
  BY <1>1 DEF ContainersInv, ReachInv, Live
<1>4. /\ native' \in [Handles -> Container \cup {Null}]
      /\ \A k \in Handles : native'[k] = IF Cloned(k) THEN Null ELSE native[k]
  BY <1>1, <1>2, <1>3 DEF ContainersInv, TypeInv, Cloned
<1>5. Live' = {k \in Live : ~Cloned(k)} /\ Insts' = Insts
  BY <1>1, <1>4 DEF Live, Insts
<1>6. \A k : ~Cloned(k)'
  BY <1>1 DEF Cloned
<1>7. \A v \in Wrappers : Usable(v) =>
        /\ wrapper[v].handle \in Live' /\ wrapper[v].handle \in Handles
        /\ native'[wrapper[v].handle] = native[wrapper[v].handle]
  BY <1>4, <1>5 DEF ContainersInv, ReachInv, ExclusiveInv, Live
<1>8. ClassInv'
  BY <1>1 DEF ContainersInv, ClassInv
<1>9. TypeInv'
  <2>1. held \subseteq Live' /\ leaked \subseteq Live'
    BY <1>5 DEF ContainersInv, TypeInv, ExclusiveInv
  <2>2. \A k \in Live' : native'[k].inst \in Insts
    BY <1>4, <1>5 DEF ContainersInv, TypeInv, Live
  <2> QED BY <1>1, <1>4, <1>5, <2>1, <2>2 DEF ContainersInv, TypeInv
<1>10. ReachInv'
  BY <1>1, <1>7 DEF ContainersInv, ReachInv, Usable, InstOf
<1>11. OwnerInv'
  BY <1>1, <1>5, <1>6 DEF ContainersInv, OwnerInv, Owned, Usable
<1>12. ExclusiveInv'
  <2>1. \A v \in Wrappers : ~Cloned(wrapper[v].handle)'
    BY <1>1 DEF Cloned
  <2> QED BY <1>1, <1>5, <1>6, <2>1 DEF ContainersInv, ExclusiveInv, Owned, Usable
<1>13. WalkInv'
  <2>1. walk # Null => walk.wrapper \in Wrappers /\ Usable(walk.wrapper)
    BY DEF ContainersInv, WalkInv, TypeInv, Walk
  <2>2. walk # Null => ItemsOf(walk.wrapper)' = ItemsOf(walk.wrapper)
    BY <1>1, <1>7, <2>1 DEF ItemsOf
  <2> QED BY <1>1, <2>1, <2>2 DEF ContainersInv, WalkInv, Usable
<1>14. ItemsInv'
  BY <1>1, <1>4, <1>5 DEF ContainersInv, ItemsInv, Live
<1> QED BY <1>8, <1>9, <1>10, <1>11, <1>12, <1>13, <1>14 DEF ContainersInv

-----------------------------------------------------------------------------
(***************************************************************************)
(* Every step.                                                             *)
(***************************************************************************)
LEMMA ContainersStep ==
  ASSUME RulesKept, ContainersInv, [Next]_vars
  PROVE  ContainersInv'
<1>1. CASE UNCHANGED vars
  <2>1. Live' = Live /\ Insts' = Insts
    BY <1>1 DEF vars, Live, Insts
  <2>2. WalkInv' /\ walk' \in Walk \cup {Null}
    BY <1>1 DEF vars, ContainersInv, WalkInv, TypeInv, Usable, ItemsOf
  <2> QED BY <1>1, <2>2, WalkStep DEF vars
<1>2. ASSUME NEW w \in Wrappers, NEW c \in Insts, NEW mode \in Modes,
             Create(w, ManagedTypes(c), mode)
      PROVE  ContainersInv'
  BY <1>2, CreateStep
<1>3. ASSUME NEW w \in Wrappers, NEW c \in Insts, NEW x \in Items, FromOwnedHandle(w, c, x)
      PROVE  ContainersInv'
  BY <1>3, FromOwnedStep
<1>4. ASSUME NEW w \in Wrappers, NEW h \in Handles, FromBorrowedHandle(w, h)
      PROVE  ContainersInv'
  BY <1>4, FromBorrowedStep
<1>5. ASSUME NEW w \in Wrappers,
             \/ \E x \in Items : Add(w, x) \/ RemoveItem(w, x)
             \/ \E i \in 1 .. MaxItems, x \in Items : Set(w, i, x) \/ Insert(w, i, x)
             \/ \E i \in 1 .. MaxItems : RemoveIndex(w, i)
             \/ Clear(w)
      PROVE  ContainersInv'
  BY <1>5, MemberStep
<1>6. ASSUME NEW w \in Wrappers, GetEnumerator(w) \/ SetOwnership(w) \/ Dispose(w)
      PROVE  ContainersInv'
  BY <1>6, GetEnumeratorStep, SetOwnershipStep, DisposeStep
<1>7. ASSUME NEW w \in Wrappers, NEW c \in Insts, PassByReference(w, c)
      PROVE  ContainersInv'
  BY <1>7, PassByReferenceStep
<1>8. ASSUME NEW w \in Wrappers \cup {Null}, NEW c \in Insts, PassByValue(w, c)
      PROVE  ContainersInv'
  BY <1>8, PassByValueStep
<1>9. ASSUME NEW c \in Insts, NativeCreate(c)
      PROVE  ContainersInv'
  BY <1>9, NativeCreateStep
<1>10. ASSUME NEW h \in Handles, NEW x \in Items, NativeChange(h, x)
      PROVE  ContainersInv'
  BY <1>10, NativeChangeStep
<1>11. ASSUME NEW h \in Handles, NativeDestroy(h)
      PROVE  ContainersInv'
  BY <1>11, NativeDestroyStep
<1>12. ASSUME MoveNext \/ EndWalk \/ Leak \/ DestroyOwnedHandle
      PROVE  ContainersInv'
  BY <1>12, MoveNextStep, EndWalkStep, LeakStep, DestroyOwnedHandleStep
<1> QED BY <1>1, <1>2, <1>3, <1>4, <1>5, <1>6, <1>7, <1>8, <1>9, <1>10, <1>11, <1>12
   DEF Next

LEMMA ContainersInit ==
  ASSUME RulesKept, Init
  PROVE  ContainersInv
<1>1. PICK g \in Groups : Compiles(g) /\ Distinct(g) /\ class = ClassOf(g)
  BY DEF Init, RulesKept
<1>2. ClassInv
  BY <1>1, GroupsAreTold DEF ClassInv
<1>3. /\ native = [h \in Handles |-> Null] /\ wrapper = [w \in Wrappers |-> Null]
      /\ held = {} /\ leaked = {} /\ call = Null /\ walk = Null
  BY DEF Init
<1>4. Live = {} /\ \A w \in Wrappers : ~Usable(w)
  BY <1>3 DEF Live, Usable
<1>5. TypeInv
  BY <1>3, <1>4 DEF TypeInv
<1>6. ReachInv /\ OwnerInv /\ WalkInv /\ ItemsInv
  BY <1>3, <1>4 DEF ReachInv, OwnerInv, WalkInv, ItemsInv
<1>7. ExclusiveInv
  BY <1>3, <1>4 DEF ExclusiveInv, Owned
<1> QED BY <1>2, <1>5, <1>6, <1>7 DEF ContainersInv

-----------------------------------------------------------------------------
(***************************************************************************)
(* What the invariant says of every state.                                 *)
(***************************************************************************)
\* The invariant holds in every state of a program that keeps the rules of use: each
\* wrapper reaches its container as what it is, and each container has an owner
\* (csharp_emitter.cpp:2665, Vector.partial.cs:86-112).
THEOREM ContainersInductive ==
  ASSUME RulesKept
  PROVE  Spec => []ContainersInv
<1>1. Init => ContainersInv
  BY ContainersInit
<1>2. ContainersInv /\ [Next]_vars => ContainersInv'
  BY ContainersStep
<1> QED BY <1>1, <1>2, PTL DEF Spec

\* However many types share the generated class, a wrapper's members and its Dispose
\* call the functions of the type that its container has, and so does a call that was
\* given the container (csharp_emitter.cpp:2665, vector.hpp:130, map.hpp:154).
THEOREM DispatchAlwaysMatches ==
  ASSUME RulesKept
  PROVE  Spec => []DispatchMatches
<1>1. ContainersInv => DispatchMatches
  BY DEF ContainersInv, ReachInv, DispatchMatches
<1> QED BY <1>1, ContainersInductive, PTL

LEMMA OneOwner ==
  ASSUME ContainersInv, NEW h \in Live
  PROVE  \E owner : Owners(h) = {owner}
<1>1. /\ OwnerInv /\ ExclusiveInv /\ held \subseteq Live /\ leaked \subseteq Live
  BY DEF ContainersInv, TypeInv
<1> DEFINE By == {w \in Wrappers : Owned(w) /\ wrapper[w].handle = h}
           Else == {who \in {"native", "call", "nobody"} :
                      \/ who = "native" /\ h \in held
                      \/ who = "call" /\ Cloned(h)
                      \/ who = "nobody" /\ h \in leaked}
<1>2. Owners(h) = By \cup Else
  BY DEF Owners, Owned, Cloned
<1>3. CASE h \in held
  <2>1. By = {} /\ ~Cloned(h) /\ h \notin leaked
    BY <1>1, <1>3 DEF ExclusiveInv, Owned
  <2>2. Else = {"native"}
    BY <1>3, <2>1
  <2> QED BY <1>2, <2>1, <2>2
<1>4. CASE h \in leaked
  <2>1. By = {} /\ ~Cloned(h) /\ h \notin held
    BY <1>1, <1>4 DEF ExclusiveInv, Owned
  <2>2. Else = {"nobody"}
    BY <1>4, <2>1
  <2> QED BY <1>2, <2>1, <2>2
<1>5. CASE Cloned(h)
  <2>1. By = {} /\ h \notin held /\ h \notin leaked
    BY <1>1, <1>5 DEF ExclusiveInv, Owned
  <2>2. Else = {"call"}
    BY <1>5, <2>1
  <2> QED BY <1>2, <2>1, <2>2
<1>6. CASE h \notin held /\ h \notin leaked /\ ~Cloned(h)
  <2>1. PICK w \in Wrappers : Owned(w) /\ wrapper[w].handle = h
    BY <1>1, <1>6 DEF OwnerInv
  <2>2. By = {w}
    BY <1>1, <2>1 DEF ExclusiveInv
  <2>3. Else = {}
    BY <1>6
  <2> QED BY <1>2, <2>2, <2>3
<1> QED BY <1>3, <1>4, <1>5, <1>6

\* Each container has exactly one owner, a wrapper, a call or native code, unless a
\* conversion that failed has leaked it; no wrapper or call outlives its container
\* (csharp_emitter.cpp:3435, Vector.partial.cs:86-112).
THEOREM ContainersOwnedOnce ==
  ASSUME RulesKept
  PROVE  Spec => []OwnedOnce
<1>1. ASSUME ContainersInv PROVE OwnedOnce
  <2>1. ASSUME NEW h \in Live PROVE Cardinality(Owners(h)) = 1
    BY <1>1, OneOwner, FS_Singleton
  <2>2. /\ \A w \in Wrappers : Usable(w) => wrapper[w].handle \in Live
        /\ call # Null => call.ptr \in Live
    BY <1>1 DEF ContainersInv, ReachInv
  <2> QED BY <2>1, <2>2 DEF OwnedOnce
<1> QED BY <1>1, ContainersInductive, PTL

\* An enumeration has yielded the items up to its index, all of them at its end, and a
\* copy by value has the items of its original, whatever order a hash map gives them
\* (Vector.partial.cs:41-47, Map.partial.cs:74-81).
THEOREM EnumerationAlwaysExact ==
  ASSUME RulesKept
  PROVE  Spec => []EnumerationExact
<1>1. ContainersInv => EnumerationExact
  BY DEF ContainersInv, WalkInv, ItemsInv, EnumerationExact
<1> QED BY <1>1, ContainersInductive, PTL
=============================================================================
