------------------------------- MODULE MCHooks -------------------------------
(* Instances of Hooks for TLC. *)
EXTENDS Hooks, TLC

\* Functions are interchangeable, and so are threads.
Symmetry == Permutations(Functions) \cup Permutations(GameThreads)
==============================================================================
