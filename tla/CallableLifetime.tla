-------------------------- MODULE CallableLifetime --------------------------
(***************************************************************************)
(* What the callable support promises the user of a managed delegate that  *)
(* is passed to C++ as a std::function: the delegate is there as long as   *)
(* C++ holds a function that ends in it, and C++ gets hold only of         *)
(* delegates that are there.                                               *)
(***************************************************************************)
CONSTANT Delegates

VARIABLES present,   \* the delegates that exist
          held       \* the delegates that native functions end in

Init == present = {} /\ held = {}

Create(d) == d \notin present /\ present' = present \cup {d} /\ held' = held

Hold(d) == d \in present /\ held' = held \cup {d} /\ present' = present

LetGo(d) == d \in held /\ held' = held \ {d} /\ present' = present

Vanish(d) == d \in present \ held /\ present' = present \ {d} /\ held' = held

Next == \E d \in Delegates : Create(d) \/ Hold(d) \/ LetGo(d) \/ Vanish(d)

Spec == Init /\ [][Next]_<<present, held>>
=============================================================================
