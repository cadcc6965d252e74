----------------------------- MODULE MCCallables -----------------------------
(***************************************************************************)
(* Instances of Callables for TLC.                                         *)
(***************************************************************************)
EXTENDS Callables, TLC

AllRules == {"KeepAlive", "NonEmpty"}

Symmetry ==
  Permutations(Threads) \cup Permutations(Delegates) \cup Permutations(Bridges)
    \cup Permutations(Closures) \cup Permutations(Handles)
=============================================================================
