----------------------------- MODULE Containers -----------------------------
(***************************************************************************)
(* The wrappers of std::vector, std::map and std::unordered_map.  One      *)
(* generic C# class stands for several C++ types, and what a wrapper does  *)
(* depends on its type arguments and on its item ownership alone.          *)
(* Containers cross the boundary by value, as clones, or by reference.     *)
(***************************************************************************)
EXTENDS GenericDispatch, FiniteSets

CONSTANTS
  Groups,     \* what a program registers: [kind, of], with the types of the items
  Handles,    \* addresses of native containers
  Wrappers,   \* wrapper objects
  Items,      \* the items of a vector, the keys of a map: numbers
  MaxItems,   \* bound on the items of a container
  Rules,      \* the rules of use that the program keeps
  Null

Kinds == {"Vector", "Map", "UnorderedMap"}
Modes == {"Owned", "Borrowed"}

Item == [name : STRING, pointer : BOOLEAN, scalar : BOOLEAN]

ASSUME GroupsAssumption ==
  \A g \in Groups :
    /\ g \in [kind : Kinds, of : Seq(Seq(Item))]
    /\ Len(g.of) > 0
    /\ \A c \in DOMAIN g.of : Len(g.of[c]) = (IF g.kind = "Vector" THEN 1 ELSE 2)
ASSUME ItemsAssumption == Items \subseteq Nat /\ MaxItems \in Nat
ASSUME RulesAssumption ==
  Rules \subseteq {"DistinctTypes", "SameItems", "NoNull", "Outlive", "Unchanged"}

\* A container of an instantiation, a wrapper, a call and an enumeration.
Container == [inst : Nat, items : Seq(Items)]
Wrapper == [handle : Handles, owned : BOOLEAN, mode : Modes, types : Seq(STRING)]
Argument == [inst : Nat, ptr : Handles, clone : BOOLEAN, mode : Modes, items : Seq(Items)]
Walk == [wrapper : Wrappers, index : Nat, seen : Seq(Items), done : BOOLEAN]

ASSUME NullAssumption ==
  /\ Null \notin Wrappers /\ Null \notin Container /\ Null \notin Wrapper
  /\ Null \notin Argument /\ Null \notin Walk

VARIABLES
  class,     \* the generated class: [kind, of, conditions]
  native,    \* the containers on the heap
  wrapper,   \* the wrappers
  held,      \* the containers that native code owns
  leaked,    \* those that a conversion that threw or a callback's result has left
  call,      \* a call with a container argument
  walk       \* an enumeration

vars == <<class, native, wrapper, held, leaked, call, walk>>

-----------------------------------------------------------------------------
(***************************************************************************)
(* What add_vector, add_map and add_unordered_map register.  The type of   *)
(* an item is [name, pointer, scalar].                                     *)
(***************************************************************************)
Plain(name) == [name |-> name, const |-> FALSE, pointer |-> FALSE, reference |-> FALSE]

ByValue(item) == [Plain(item.name) EXCEPT !.pointer = item.pointer]

\* Scalars and pointers are returned by value, the rest as references to the item.
Returned(item) ==
  IF item.scalar \/ item.pointer THEN ByValue(item)
  ELSE [Plain(item.name) EXCEPT !.const = TRUE, !.reference = TRUE]

Member(name, params, result) ==
  [name |-> name, const |-> FALSE, ctor |-> FALSE, result |-> result,
   params |-> [i \in DOMAIN params |-> [type |-> params[i], out |-> FALSE]]]

Constructor(name) == [Member(name, <<>>, Plain("void")) EXCEPT !.ctor = TRUE]

VectorMembers(T) ==
  LET item == ByValue(T)  int == Plain("int")  void == Plain("void") IN
  <<Constructor("Vector"),
    Member("size", <<>>, Plain("ulong")), Member("Clear", <<>>, void),
    Member("Add", <<item>>, void), Member("Contains", <<item>>, Plain("bool")),
    Member("IndexOf", <<item>>, int), Member("__get", <<int>>, Returned(T)),
    Member("__set", <<int, item>>, void), Member("__insert", <<int, item>>, void),
    Member("__erase_at", <<int>>, void), Member("Remove", <<item>>, Plain("bool"))>>

MapMembers(K, V) ==
  LET key == ByValue(K)  value == ByValue(V)  int == Plain("int")  void == Plain("void") IN
  <<Constructor("Map"),
    Member("size", <<>>, Plain("ulong")), Member("Clear", <<>>, void),
    Member("__add", <<key, value>>, void), Member("ContainsKey", <<key>>, Plain("bool")),
    Member("__get", <<key>>, Returned(V)), Member("__set", <<key, value>>, void),
    Member("__get_key_at", <<int>>, Returned(K)),
    Member("__get_value_at", <<int>>, Returned(V)),
    Member("Remove", <<key>>, Plain("bool"))>>

ClassesOf(g) ==
  [c \in DOMAIN g.of |-> IF g.kind = "Vector" THEN VectorMembers(g.of[c][1])
                         ELSE MapMembers(g.of[c][1], g.of[c][2])]

\* The managed type that the converters name.
NamesOf(items) == [i \in DOMAIN items |-> items[i].name]

\* Mutant: the item ownership is left to its default.
ModeOfDefault(items) == "Owned"

\* The item ownership they give: the value of a map decides, whatever its key is.
ModeOf(items) == IF items[Len(items)].pointer THEN "Borrowed" ELSE "Owned"

ClassOf(g) == [kind |-> g.kind, of |-> g.of, conditions |-> Conditions(ClassesOf(g))]

ManagedTypes(c) == NamesOf(class.of[c])
ItemMode(c) == ModeOf(class.of[c])

\* The names, or the values being pointers, tell the instantiations apart.
Distinct(g) ==
  \A c, d \in DOMAIN g.of : c # d =>
    \/ \E i \in DOMAIN g.of[c] : g.of[c][i].name # g.of[d][i].name
    \/ /\ g.of[c][Len(g.of[c])].pointer # g.of[d][Len(g.of[d])].pointer
       /\ g.kind # "Vector" => ~g.of[c][1].pointer /\ ~g.of[d][1].pointer

\* The hand-written part of the class has as many type parameters.
Compiles(g) == ClassArity(ClassesOf(g)) = Len(g.of[1])

Init ==
  /\ \E g \in Groups :
       /\ Compiles(g)
       /\ "DistinctTypes" \in Rules => Distinct(g)
       /\ class = ClassOf(g)
  /\ native = [h \in Handles |-> Null]
  /\ wrapper = [w \in Wrappers |-> Null]
  /\ held = {} /\ leaked = {}
  /\ call = Null /\ walk = Null

-----------------------------------------------------------------------------
(***************************************************************************)
(* The state of the wrappers and of their containers.                      *)
(***************************************************************************)
Live == {h \in Handles : native[h] # Null}
Free == Handles \ Live

\* A wrapper that has been made and has not been disposed.
Usable(w) == wrapper[w] # Null
ItemsOf(w) == native[wrapper[w].handle].items

InstOf(w) == Dispatch(class.conditions, wrapper[w].types, wrapper[w].mode)

WrapperOf(h, owned, mode, types) ==
  [handle |-> h, owned |-> owned, mode |-> mode, types |-> types]

WalkedBy(w) == walk # Null /\ walk.wrapper = w
Walked(h) == \E w \in Wrappers : WalkedBy(w) /\ Usable(w) /\ wrapper[w].handle = h
Passed(h) == call # Null /\ call.ptr = h

\* The wrappers, calls and enumerations that go on with a container, other than w.
InUse(h, w) ==
  \/ \E v \in Wrappers \ {w} : Usable(v) /\ wrapper[v].handle = h
  \/ Passed(h)
  \/ Walked(h)

MayChange(h) == "Unchanged" \in Rules => ~Walked(h)

\* The orders in which a map may have its keys.
Orders(keys) ==
  {s \in SetToSeqs(keys) :
     class.kind = "Map" => \A i, j \in DOMAIN s : i < j => s[i] < s[j]}

\* The sequences that a container may have after an item or a key was added.
Added(items, x) ==
  IF class.kind = "Vector" THEN {Append(items, x)} ELSE Orders(Range(items) \cup {x})

Without(items, i) == RemoveAt(items, i)

FirstIndex(items, x) == SelectInSeq(items, LAMBDA y : y = x)

SetItems(h, items) ==
  /\ MayChange(h)
  /\ Len(items) <= MaxItems
  /\ native' = [native EXCEPT ![h].items = items]
  /\ UNCHANGED <<class, wrapper, held, leaked, call, walk>>

-----------------------------------------------------------------------------
(***************************************************************************)
(* Wrappers come into being.                                               *)
(***************************************************************************)
\* The public constructor; without an instantiation it throws.
Create(w, types, mode) ==
  /\ wrapper[w] = Null
  /\ Dispatch(class.conditions, types, mode) # 0
  /\ \E h \in Free :
       /\ native' = [native EXCEPT ![h] =
            [inst |-> Dispatch(class.conditions, types, mode), items |-> <<>>]]
       /\ wrapper' = [wrapper EXCEPT ![w] = WrapperOf(h, TRUE, mode, types)]
  /\ UNCHANGED <<class, held, leaked, call, walk>>

\* A container that native code returns, or passes to a callback, by value.
FromOwnedHandle(w, c, x) ==
  /\ wrapper[w] = Null
  /\ \E h \in Free : \E items \in Added(<<>>, x) \cup {<<>>} :
       /\ native' = [native EXCEPT ![h] = [inst |-> c, items |-> items]]
       /\ wrapper' = [wrapper EXCEPT ![w] = WrapperOf(h, TRUE, ItemMode(c), ManagedTypes(c))]
  /\ UNCHANGED <<class, held, leaked, call, walk>>

\* One that it returns by reference, its own or one that it was given.
FromBorrowedHandle(w, h) ==
  /\ wrapper[w] = Null
  /\ h \in Live \ leaked
  /\ "Outlive" \in Rules => ~Passed(h)
  /\ LET c == native[h].inst IN
     wrapper' = [wrapper EXCEPT ![w] = WrapperOf(h, FALSE, ItemMode(c), ManagedTypes(c))]
  /\ UNCHANGED <<class, native, held, leaked, call, walk>>

-----------------------------------------------------------------------------
(***************************************************************************)
(* Members that change the container.                                      *)
(***************************************************************************)
Add(w, x) ==
  /\ Usable(w)
  /\ class.kind # "Vector" => x \notin Range(ItemsOf(w))
  /\ \E items \in Added(ItemsOf(w), x) : SetItems(wrapper[w].handle, items)

\* insert_or_assign changes a key's value in place.
Set(w, i, x) ==
  /\ Usable(w)
  /\ IF class.kind = "Vector"
     THEN i \in DOMAIN ItemsOf(w) /\ SetItems(wrapper[w].handle, [ItemsOf(w) EXCEPT ![i] = x])
     ELSE \E items \in IF x \in Range(ItemsOf(w)) THEN {ItemsOf(w)} ELSE Added(ItemsOf(w), x) :
            SetItems(wrapper[w].handle, items)

Insert(w, i, x) ==
  /\ Usable(w) /\ class.kind = "Vector"
  /\ i \in 1 .. Len(ItemsOf(w)) + 1
  /\ SetItems(wrapper[w].handle, InsertAt(ItemsOf(w), i, x))

RemoveIndex(w, i) ==
  /\ Usable(w) /\ class.kind = "Vector"
  /\ i \in DOMAIN ItemsOf(w)
  /\ SetItems(wrapper[w].handle, Without(ItemsOf(w), i))

\* The first item that is equal, or the key.
RemoveItem(w, x) ==
  /\ Usable(w)
  /\ FirstIndex(ItemsOf(w), x) # 0
  /\ SetItems(wrapper[w].handle, Without(ItemsOf(w), FirstIndex(ItemsOf(w), x)))

Clear(w) == Usable(w) /\ SetItems(wrapper[w].handle, <<>>)

-----------------------------------------------------------------------------
(***************************************************************************)
(* Enumeration: an index and the container's size at each step.            *)
(***************************************************************************)
GetEnumerator(w) ==
  /\ Usable(w) /\ walk = Null
  /\ walk' = [wrapper |-> w, index |-> 0, seen |-> <<>>, done |-> FALSE]
  /\ UNCHANGED <<class, native, wrapper, held, leaked, call>>

\* Mutant: the index is advanced before the item is read.
MoveNextSkipping ==
  /\ walk # Null /\ ~walk.done /\ Usable(walk.wrapper)
  /\ walk' = LET items == ItemsOf(walk.wrapper) IN
       IF walk.index + 1 < Len(items)
       THEN [walk EXCEPT !.index = @ + 1, !.seen = Append(@, items[walk.index + 2])]
       ELSE [walk EXCEPT !.done = TRUE]
  /\ UNCHANGED <<class, native, wrapper, held, leaked, call>>

MoveNext ==
  /\ walk # Null /\ ~walk.done /\ Usable(walk.wrapper)
  /\ walk' = LET items == ItemsOf(walk.wrapper) IN
       IF walk.index < Len(items)
       THEN [walk EXCEPT !.index = @ + 1, !.seen = Append(@, items[walk.index + 1])]
       ELSE [walk EXCEPT !.done = TRUE]
  /\ UNCHANGED <<class, native, wrapper, held, leaked, call>>

\* The loop ends, or the program leaves it.
EndWalk ==
  /\ walk # Null
  /\ walk' = Null
  /\ UNCHANGED <<class, native, wrapper, held, leaked, call>>

-----------------------------------------------------------------------------
(***************************************************************************)
(* Containers as arguments.  C# checks the wrapper's type arguments only.  *)
(***************************************************************************)
\* What an item by item copy of a container may look like.
Copies(items) ==
  IF class.kind = "UnorderedMap" THEN Orders(Range(items)) ELSE {items}

\* CloneOrCreateOwned: the clone has the item ownership of the wrapper, and that
\* of a value container when there is no wrapper; its own wrapper gives it up.
PassByValue(w, c) ==
  /\ call = Null
  /\ IF w = Null THEN "NoNull" \notin Rules
     ELSE /\ Usable(w) /\ wrapper[w].types = ManagedTypes(c)
          /\ "SameItems" \in Rules => wrapper[w].mode = ItemMode(c)
  /\ LET mode == IF w = Null THEN "Owned" ELSE wrapper[w].mode
         inst == Dispatch(class.conditions, ManagedTypes(c), mode)
         items == IF w = Null THEN <<>> ELSE ItemsOf(w) IN
     /\ inst # 0
     /\ \E h \in Free : \E copy \in Copies(items) :
          /\ native' = [native EXCEPT ![h] = [inst |-> inst, items |-> copy]]
          /\ call' = [inst |-> c, ptr |-> h, clone |-> TRUE, mode |-> mode, items |-> items]
  /\ UNCHANGED <<class, wrapper, held, leaked, walk>>

\* A reference or a pointer, which native code may change.
PassByReference(w, c) ==
  /\ call = Null
  /\ Usable(w) /\ wrapper[w].types = ManagedTypes(c)
  /\ "SameItems" \in Rules => wrapper[w].mode = ItemMode(c)
  /\ call' = [inst |-> c, ptr |-> wrapper[w].handle, clone |-> FALSE,
              mode |-> wrapper[w].mode, items |-> <<>>]
  /\ UNCHANGED <<class, native, wrapper, held, leaked, walk>>

\* A later argument does not convert, before the try block that would destroy the
\* clone; or the clone is a callback's result, which native code only copies.
Leak ==
  /\ call # Null /\ call.clone
  /\ leaked' = leaked \cup {call.ptr}
  /\ call' = Null
  /\ UNCHANGED <<class, native, wrapper, held, walk>>

\* The call returns; a temporary wrapper destroys the clone.
DestroyOwnedHandle ==
  /\ call # Null
  /\ native' = IF call.clone /\ Dispatch(class.conditions, ManagedTypes(call.inst), call.mode) # 0
               THEN [native EXCEPT ![call.ptr] = Null] ELSE native
  /\ call' = Null
  /\ UNCHANGED <<class, wrapper, held, leaked, walk>>

-----------------------------------------------------------------------------
(***************************************************************************)
(* Native code and the end of wrappers and containers.                     *)
(***************************************************************************)
NativeCreate(c) ==
  /\ \E h \in Free :
       /\ native' = [native EXCEPT ![h] = [inst |-> c, items |-> <<>>]]
       /\ held' = held \cup {h}
  /\ UNCHANGED <<class, wrapper, leaked, call, walk>>

\* It changes what it owns, and what it was given by reference.
NativeChange(h, x) ==
  /\ h \in held \/ (Passed(h) /\ ~call.clone)
  /\ \E items \in Added(native[h].items, x) \cup {<<>>} : SetItems(h, items)

NativeDestroy(h) ==
  /\ h \in held
  /\ "Outlive" \in Rules => ~InUse(h, Null)
  /\ native' = [native EXCEPT ![h] = Null]
  /\ held' = held \ {h}
  /\ UNCHANGED <<class, wrapper, leaked, call, walk>>

\* The program and native code agree on who owns the container from now on.
SetOwnership(w) ==
  /\ Usable(w)
  /\ wrapper[w].owned \/ wrapper[w].handle \in held
  /\ wrapper' = [wrapper EXCEPT ![w].owned = ~@]
  /\ held' = IF wrapper[w].owned THEN held \cup {wrapper[w].handle}
             ELSE held \ {wrapper[w].handle}
  /\ UNCHANGED <<class, native, leaked, call, walk>>

\* Mutant: the container is destroyed whoever owns it.
DisposeAny(w) ==
  /\ Usable(w)
  /\ "Outlive" \in Rules =>
       /\ wrapper[w].owned => ~InUse(wrapper[w].handle, w)
       /\ ~WalkedBy(w)
  /\ native' = [native EXCEPT ![wrapper[w].handle] = Null]
  /\ wrapper' = [wrapper EXCEPT ![w] = Null]
  /\ UNCHANGED <<class, held, leaked, call, walk>>

\* Dispose, or the finalizer; a wrapper without a handle is of no more use.
Dispose(w) ==
  /\ Usable(w)
  /\ "Outlive" \in Rules =>
       /\ wrapper[w].owned => ~InUse(wrapper[w].handle, w)
       /\ ~WalkedBy(w)
  /\ native' = IF wrapper[w].owned /\ InstOf(w) # 0
               THEN [native EXCEPT ![wrapper[w].handle] = Null] ELSE native
  /\ wrapper' = [wrapper EXCEPT ![w] = Null]
  /\ UNCHANGED <<class, held, leaked, call, walk>>

-----------------------------------------------------------------------------
Insts == DOMAIN class.of

Next ==
  \/ \E w \in Wrappers :
       \/ \E c \in Insts, mode \in Modes : Create(w, ManagedTypes(c), mode)
       \/ \E c \in Insts, x \in Items : FromOwnedHandle(w, c, x)
       \/ \E h \in Handles : FromBorrowedHandle(w, h)
       \/ \E x \in Items : Add(w, x) \/ RemoveItem(w, x)
       \/ \E i \in 1 .. MaxItems, x \in Items : Set(w, i, x) \/ Insert(w, i, x)
       \/ \E i \in 1 .. MaxItems : RemoveIndex(w, i)
       \/ Clear(w) \/ GetEnumerator(w) \/ SetOwnership(w) \/ Dispose(w)
       \/ \E c \in Insts : PassByReference(w, c)
  \/ \E w \in Wrappers \cup {Null}, c \in Insts : PassByValue(w, c)
  \/ \E c \in Insts : NativeCreate(c)
  \/ \E h \in Handles, x \in Items : NativeChange(h, x)
  \/ \E h \in Handles : NativeDestroy(h)
  \/ MoveNext \/ EndWalk \/ Leak \/ DestroyOwnedHandle

Spec == Init /\ [][Next]_vars

-----------------------------------------------------------------------------
\* A wrapper's members, and its Dispose, reach the functions of the C++ type that its
\* container has, and so does a call with a container argument, whatever types share
\* the C# class (csharp_emitter.cpp:2665, vector.hpp:130, map.hpp:154).
DispatchMatches ==
  /\ \A w \in Wrappers :
       Usable(w) /\ wrapper[w].handle \in Live => InstOf(w) = native[wrapper[w].handle].inst
  /\ call # Null /\ call.ptr \in Live => native[call.ptr].inst = call.inst

Owners(h) ==
  {w \in Wrappers : Usable(w) /\ wrapper[w].handle = h /\ wrapper[w].owned}
  \cup {who \in {"native", "call", "nobody"} :
          \/ who = "native" /\ h \in held
          \/ who = "call" /\ call # Null /\ call.clone /\ call.ptr = h
          \/ who = "nobody" /\ h \in leaked}

\* Every container has one owner, which will destroy it, unless a conversion threw
\* outside a try block or a callback returned it by value; and no wrapper or call has
\* a container that is gone (csharp_emitter.cpp:3435, Vector.partial.cs:86-112).
OwnedOnce ==
  /\ \A h \in Live : Cardinality(Owners(h)) = 1
  /\ \A w \in Wrappers : Usable(w) => wrapper[w].handle \in Live
  /\ call # Null => call.ptr \in Live

\* An enumeration yields every item once and in order, and a copy by value has the
\* items that the wrapper's container had (Vector.partial.cs:41-47, 96-112,
\* Map.partial.cs:74-81).
EnumerationExact ==
  /\ walk # Null /\ Usable(walk.wrapper) =>
       LET items == ItemsOf(walk.wrapper) IN
       /\ walk.seen = SubSeq(items, 1, walk.index)
       /\ walk.done => walk.index = Len(items)
  /\ call # Null /\ call.clone =>
       LET copy == native[call.ptr].items IN
       /\ Range(copy) = Range(call.items) /\ Len(copy) = Len(call.items)
       /\ class.kind # "UnorderedMap" => copy = call.items
=============================================================================
