----------------------------- MODULE MCSettings -----------------------------
(* Instances of Settings for TLC. *)
EXTENDS Settings, TLC

\* Two profiles that differ in all a snapshot shows, with one and two opponents; the second
\* is the default one.
Small == [class |-> 1, count |-> 2, difficulty |-> 1, society |-> 1,
          wilder |-> TRUE, unique |-> FALSE]
Large == [class |-> 2, count |-> 3, difficulty |-> 2, society |-> 0,
          wilder |-> FALSE, unique |-> FALSE]
TwoBodies == {Small, Large}

NoLine == [random |-> FALSE, loads |-> NoFile, society |-> 0, wilder |-> FALSE,
           unique |-> FALSE, windowed |-> FALSE]

\* A table of the set-up screen: controllers and classes by slot, teams by player.
Table(controllers, classes, teams) ==
  [controllers |-> [s \in Slots |-> controllers[s + 1]],
   classes |-> [s \in Slots |-> classes[s + 1]],
   teams |-> [s \in Players |-> teams[s + 1]],
   difficulties |-> [s \in Players |-> DefaultDifficulty],
   unique |-> FALSE, society |-> 0, wilder |-> FALSE]

\* What the game proposes: a human and two opponents.
Proposal == Table(<<Human, AI, AI, Unused>>, <<RandomClass, RandomClass, RandomClass, NoClass>>,
                  <<0, 0, 0>>)

\* A game of two humans in teams against one opponent between them, started from the menu:
\* only its restart has a command line that says where the map comes from.
HotSeat == [line |-> NoLine,
            memory |-> Table(<<Human, AI, Human, Unused>>, <<2, RandomClass, 1, NoClass>>,
                             <<1, 2, 1>>)]
OneGame == {HotSeat}

\* A file with both profiles, and none.
BothProfiles ==
  {[profiles |-> <<[id |-> i, body |-> Large], [id |-> j, body |-> Small]>>, active |-> j,
    lock |-> FALSE, source |-> "UseProfile"] : <<i, j>> \in {x \in Ids \X Ids : x[1] # x[2]}}

Symmetry == Permutations(Ids)
==============================================================================
