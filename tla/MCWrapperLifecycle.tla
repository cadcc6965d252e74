------------------------- MODULE MCWrapperLifecycle -------------------------
(* Small instances of WrapperLifecycle for TLC. *)
EXTENDS WrapperLifecycleInvariant, TLC

AllRules == {"KeepAlive", "Exclusive", "Scoped"}

\* Threads, wrappers and addresses are interchangeable in safety runs.
Symmetry == Permutations(Threads) \cup Permutations(Wrappers) \cup Permutations(Addresses)
=============================================================================
