----------------------------- MODULE MCDebugger -----------------------------
(* Instances of Debugger for TLC.                                          *)
EXTENDS Debugger, TLC

\* Threads of a kind, and addresses, are interchangeable.
Symmetry == Permutations(GameThreads) \cup Permutations(BreakInThreads)
            \cup Permutations(Addrs)
=============================================================================
