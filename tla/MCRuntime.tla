------------------------------ MODULE MCRuntime ------------------------------
(* Instances of Runtime for TLC. *)
EXTENDS Runtime, TLC

\* Interchangeable where every game is supported and none is incompatible;
\* only safety runs use it.
Symmetry == Permutations(Sessions) \cup Permutations(Games)
            \cup Permutations(Restarts)
==============================================================================
