------------------------- MODULE ContainersInvariant -------------------------
(***************************************************************************)
(* The inductive invariant of Containers: which instantiation every        *)
(* wrapper and every call reaches, who owns each container, and what an    *)
(* enumeration and a copy have of the items.                               *)
(***************************************************************************)
EXTENDS Containers

\* The program keeps the rules of use.
RulesKept == Rules = {"DistinctTypes", "SameItems", "NoNull", "Outlive", "Unchanged"}

\* The conditions of the generated members select every instantiation by the type
\* arguments and the item ownership that its converter gives.
Told(cl) ==
  \A c \in DOMAIN cl.of : Dispatch(cl.conditions, NamesOf(cl.of[c]), ModeOf(cl.of[c])) = c

ClassInv == class \in {ClassOf(g) : g \in Groups} /\ Told(class)

TypeInv ==
  /\ native \in [Handles -> Container \cup {Null}]
  /\ \A h \in Live : native[h].inst \in Insts
  /\ wrapper \in [Wrappers -> Wrapper \cup {Null}]
  /\ held \subseteq Live /\ leaked \subseteq Live
  /\ call \in Argument \cup {Null}
  /\ call # Null => call.inst \in Insts
  /\ walk \in Walk \cup {Null}

\* Wrappers and calls reach containers that exist, as what they are.
ReachInv ==
  /\ \A w \in Wrappers : Usable(w) =>
       wrapper[w].handle \in Live /\ InstOf(w) = native[wrapper[w].handle].inst
  /\ call # Null =>
       /\ call.ptr \in Live /\ native[call.ptr].inst = call.inst
       /\ call.mode = ItemMode(call.inst)

Cloned(h) == call # Null /\ call.clone /\ call.ptr = h
Owned(w) == Usable(w) /\ wrapper[w].owned

\* Every container has an owner.
OwnerInv ==
  \A h \in Live :
    \/ h \in held \cup leaked
    \/ Cloned(h)
    \/ \E w \in Wrappers : Owned(w) /\ wrapper[w].handle = h

\* No container has two; only its call has a clone, and nobody what has leaked.
ExclusiveInv ==
  /\ held \cap leaked = {}
  /\ \A h \in Live : Cloned(h) => h \notin held \cup leaked
  /\ \A w \in Wrappers : Usable(w) =>
       /\ wrapper[w].handle \notin leaked
       /\ ~Cloned(wrapper[w].handle)
       /\ Owned(w) => wrapper[w].handle \notin held
  /\ \A v, w \in Wrappers :
       Owned(v) /\ Owned(w) /\ wrapper[v].handle = wrapper[w].handle => v = w

WalkInv ==
  walk # Null =>
    /\ Usable(walk.wrapper)
    /\ walk.index <= Len(ItemsOf(walk.wrapper))
    /\ walk.seen = SubSeq(ItemsOf(walk.wrapper), 1, walk.index)
    /\ walk.done => walk.index = Len(ItemsOf(walk.wrapper))

NoneTwice(items) == \A i, j \in DOMAIN items : items[i] = items[j] => i = j

\* A map has no key twice, and a clone has the items of what it was made from.
ItemsInv ==
  /\ class.kind # "Vector" => \A h \in Live : NoneTwice(native[h].items)
  /\ call # Null /\ call.clone =>
       LET copy == native[call.ptr].items IN
       /\ Range(copy) = Range(call.items) /\ Len(copy) = Len(call.items)
       /\ class.kind # "UnorderedMap" => copy = call.items

ContainersInv ==
  ClassInv /\ TypeInv /\ ReachInv /\ OwnerInv /\ ExclusiveInv /\ WalkInv /\ ItemsInv
=============================================================================
