------------------------------- MODULE MCInput -------------------------------
(* Instances of Input for TLC. *)
EXTENDS Input, TLC

\* The remaps the tab adds.
KeyRow == [enabled |-> TRUE, trigger |-> "Q", control |-> FALSE, key |-> "W",
           withControl |-> FALSE]
MouseRow == [KeyRow EXCEPT !.trigger = "X1", !.key = "Q"]

\* Q with Control for Q with Control.
OneRow == <<[KeyRow EXCEPT !.control = TRUE, !.key = "Q", !.withControl = TRUE]>>

\* Chords are interchangeable.
Symmetry == Permutations(Chords)
==============================================================================
