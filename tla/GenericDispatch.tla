--------------------------- MODULE GenericDispatch ---------------------------
(***************************************************************************)
(* How the C# emitter makes one generic class of the instantiations of a   *)
(* C++ class template.  Members of the same shape form a row, a position   *)
(* whose type differs along a row becomes a type parameter, and every      *)
(* generated member asks at run time for which instantiation it was called.*)
(*                                                                         *)
(* A type is [name, const, pointer, reference], where name is that of the  *)
(* C# type; a member is [name, const, ctor, params, result]; a parameter   *)
(* is [type, out]; a class is the sequence of its members.                 *)
(***************************************************************************)
EXTENDS SequencesExt, Integers

\* Members that differ in this are never taken for one another.
ShapeKey(member) ==
  <<member.name, member.const, [i \in DOMAIN member.params |-> member.params[i].out]>>

\* The first member of a class with the shape of another, 0 if there is none.
FirstOfShape(class, member) ==
  SelectInSeq(class, LAMBDA m : m.ctor = member.ctor /\ ShapeKey(m) = ShapeKey(member))

\* The n-th of a set of positions.
Nth(S, n) == CHOOSE p \in S : Cardinality({q \in S : q <= p}) = n

\* The members, or the constructors, of the first class that all classes have.
Rows(group, ctor) ==
  LET shared == {k \in DOMAIN group[1] :
                   /\ group[1][k].ctor = ctor
                   /\ \A class \in Range(group) : FirstOfShape(class, group[1][k]) # 0}
  IN [r \in 1 .. Cardinality(shared) |->
       [c \in DOMAIN group |-> group[c][FirstOfShape(group[c], group[1][Nth(shared, r)])]]]

\* The parameters come first, the result last.
TypeAt(member, position) ==
  IF position <= Len(member.params) THEN member.params[position].type ELSE member.result

Varies(row, position) ==
  \E c \in DOMAIN row : TypeAt(row[c], position) # TypeAt(row[1], position)

Column(row, position) == [c \in DOMAIN row |-> TypeAt(row[c], position).name]

\* The slots of a row: positions with the same column of names share one, that of
\* the first of them.
SlotPositions(row) ==
  {p \in 1 .. Len(row[1].params) + 1 :
    /\ Varies(row, p)
    /\ \A q \in 1 .. p - 1 : Varies(row, q) => Column(row, q) # Column(row, p)}

Slots(row) ==
  LET positions == SlotPositions(row) IN
  [slot \in 1 .. Cardinality(positions) |-> Column(row, Nth(positions, slot))]

\* The type that stands for a slot in an instantiation: that of its first position.
TypeOfSlot(row, slot, c) == TypeAt(row[c], Nth(SlotPositions(row), slot))

AllRows(group) == Rows(group, FALSE) \o Rows(group, TRUE)

AllSlots(group) == LET rows == AllRows(group) IN [r \in DOMAIN rows |-> Slots(rows[r])]

\* The type parameters of the generated class.
ClassArity(group) ==
  LET arities == {Len(slots) : slots \in Range(AllSlots(group))} IN
  CHOOSE n \in arities : \A m \in arities : m <= n

\* The types of the slots in each instantiation, from the first member that has them.
SlotTypes(group) ==
  LET all == AllSlots(group) IN
  [c \in DOMAIN group |->
    [slot \in 1 .. ClassArity(group) |->
      all[SelectInSeq(all, LAMBDA slots : Len(slots) >= slot)][slot][c]]]

\* Two instantiations have the same C# types.
Ambiguous(types, c) == \E d \in DOMAIN types \ {c} : types[d] = types[c]

\* The instantiation is about pointers, so that it does not own its items.
BorrowsItems(group, c) ==
  LET rows == AllRows(group) IN
  \E r \in DOMAIN rows : \E slot \in DOMAIN Slots(rows[r]) : TypeOfSlot(rows[r], slot, c).pointer

\* The condition that guards each instantiation in every generated member.
Conditions(group) ==
  LET types == SlotTypes(group) IN
  [c \in DOMAIN group |->
    [types |-> types[c],
     modes |-> IF ~Ambiguous(types, c) THEN {"Owned", "Borrowed"}
               ELSE IF BorrowsItems(group, c) THEN {"Borrowed"} ELSE {"Owned"}]]

\* The first instantiation whose condition holds, 0 if the member throws.
Dispatch(conditions, types, mode) ==
  SelectInSeq(conditions, LAMBDA condition :
    condition.types = types /\ mode \in condition.modes)
=============================================================================
