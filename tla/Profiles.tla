------------------------------ MODULE Profiles ------------------------------
(***************************************************************************)
(* What a set-up profile says of a game, and what a restart makes of a     *)
(* profile or of a running game (crates/assistant/src/config.rs and        *)
(* restart.rs), as operators on records.                                   *)
(*                                                                         *)
(* The memory of a game holds a participant table: for each slot a         *)
(* controller and a class, for the first of them, the players, a team and  *)
(* a difficulty as well.  A profile describes such a table by four         *)
(* numbers.  Settings follows both through the life of a game.             *)
(*                                                                         *)
(* Abstractions: the map settings of a profile are told apart by their     *)
(* society and its rules by "wilder" and "unique", the others travel the   *)
(* same way; a command line is the record of what is found in it.          *)
(***************************************************************************)
EXTENDS Integers

CONSTANTS
  MaxSlots,      \* slots of the participant table (32)
  MaxPlayers,    \* slots that have a team and a difficulty (24)
  Classes,       \* playable classes
  Societies,
  MapFiles,      \* what --loadmap= may name
  NoFile

ASSUME SlotsAssumption ==
  MaxPlayers \in Nat \ {0} /\ MaxSlots \in Nat /\ MaxPlayers <= MaxSlots
ASSUME ClassesAssumption == Classes \subseteq Nat \ {0}
ASSUME NoFileAssumption == NoFile \notin MapFiles

Slots == 0 .. MaxSlots - 1
Players == 0 .. MaxPlayers - 1

\* Values of a controller.
Human == 0
AI == 1
Unused == -1
Eliminated == -4
\* Two values of a class that leave the choice to the game.
RandomClass == 0
NoClass == -1
DefaultDifficulty == 2
Difficulties == 1 .. 12

-----------------------------------------------------------------------------
(* The data.                                                               *)

\* What the fields of the Profiles tab can be given.
Profile == [class : Classes \cup {RandomClass}, count : (2 .. MaxPlayers),
            difficulty : Difficulties, society : Societies,
            wilder : BOOLEAN, unique : BOOLEAN]

\* The part of a game's memory that is read and written: also a GameSnapshot.
Memory == [controllers : [Slots -> {Human, AI, Unused, Eliminated}],
           classes : [Slots -> Classes \cup {RandomClass, NoClass}],
           teams : [Players -> Int], difficulties : [Players -> Difficulties],
           unique : BOOLEAN, society : Societies, wilder : BOOLEAN]

\* A command line: random is --randommap, windowed the flags the relaunch needs.
CommandLine == [random : BOOLEAN, loads : MapFiles \cup {NoFile},
                society : Societies, wilder : BOOLEAN, unique : BOOLEAN,
                windowed : BOOLEAN]

RestartPlan == [arguments : CommandLine,
                controllers : [Slots -> {Human, AI, Unused}],
                classes : [Slots -> Classes \cup {RandomClass, NoClass}],
                teams : [Players -> Int], difficulties : [Players -> Difficulties],
                unique : BOOLEAN, count : 0 .. MaxPlayers,
                mapFromLive : BOOLEAN, rosterFromLive : BOOLEAN]

\* The least element of a set of numbers, and what to take when there is none.
First(S, otherwise) ==
  IF S = {} THEN otherwise ELSE CHOOSE least \in S : \A s \in S : least <= s

-----------------------------------------------------------------------------
(* Profiles and snapshots (config.rs).                                     *)

\* MUTANT: the players that are still in the game are counted.
CountActive(memory) ==
  First({s \in Players : memory.controllers[s] \notin {Human, AI}}, MaxPlayers)

\* The slots before the first unused one: an eliminated player still counts.
ConfiguredCount(memory) ==
  First({s \in Players : memory.controllers[s] = Unused}, MaxPlayers)

\* The class of the first human, as a set: there may be none left.
HumanClass(memory) ==
  LET humans == {s \in Slots : memory.controllers[s] = Human}
  IN  {memory.classes[s] : s \in {h \in humans : \A t \in humans : h <= t}}

Matches(profile, memory) ==
  /\ HumanClass(memory) = {profile.class}
  /\ ConfiguredCount(memory) = profile.count
  /\ \A s \in Players :
       s < ConfiguredCount(memory) /\ memory.controllers[s] # Human
         => memory.difficulties[s] = profile.difficulty

\* The differences the Status tab lists.
Differences(profile, memory) ==
  LET differs == [human_class_id |-> HumanClass(memory) # {profile.class},
                  participant_count |-> ConfiguredCount(memory) # profile.count,
                  society |-> memory.society # profile.society,
                  independent_strength |-> memory.wilder # profile.wilder]
  IN  {field \in DOMAIN differs : differs[field]}

-----------------------------------------------------------------------------
(* The plan of a restart (restart.rs).                                     *)

LaunchArguments(profile) ==
  [random |-> TRUE, loads |-> NoFile, society |-> profile.society,
   wilder |-> profile.wilder, unique |-> profile.unique, windowed |-> TRUE]

\* Whether a command line says where its map comes from.
HasMapSource(line) == line.random \/ line.loads # NoFile

\* What a relaunch keeps of it.  A map that is loaded brings its own settings, and gets
\* none of the flags the relaunch of a random map adds.
Preserved(line) ==
  IF line.loads # NoFile
    THEN [line EXCEPT !.random = FALSE, !.windowed = FALSE]
    ELSE [line EXCEPT !.windowed = TRUE]

FromProfile(profile) ==
  [arguments |-> LaunchArguments(profile),
   controllers |-> [s \in Slots |-> IF s = 0 THEN Human
                                    ELSE IF s < profile.count THEN AI ELSE Unused],
   classes |-> [s \in Slots |-> IF s = 0 THEN profile.class
                                ELSE IF s < profile.count THEN RandomClass ELSE NoClass],
   teams |-> [s \in Players |-> 0],
   difficulties |-> [s \in Players |-> profile.difficulty],
   unique |-> profile.unique, count |-> profile.count,
   mapFromLive |-> FALSE, rosterFromLive |-> FALSE]

\* MUTANT: eliminated participants are copied like the others.
SlotsInUse(memory) == ConfiguredCount(memory)

\* The slots before the first one nobody plays (any more).
LeadingRun(memory) ==
  LET run == First({s \in Slots : memory.controllers[s] \notin {Human, AI}}, MaxSlots)
  IN  IF run <= MaxPlayers THEN run ELSE MaxPlayers

\* roster_from_snapshot, put into the plan.
WithRoster(plan, memory) ==
  LET count == LeadingRun(memory)
  IN [plan EXCEPT
        !.controllers = [s \in Slots |-> IF s < count THEN memory.controllers[s] ELSE Unused],
        !.classes = [s \in Slots |->
                       IF s < count /\ memory.controllers[s] = Human
                         THEN memory.classes[s] ELSE NoClass],
        !.teams = [s \in Players |-> IF s < count THEN memory.teams[s] ELSE 0],
        !.difficulties = [s \in Players |-> IF s < count THEN memory.difficulties[s]
                                            ELSE DefaultDifficulty],
        !.unique = memory.unique, !.count = count, !.rosterFromLive = TRUE]

\* RestartPlan::capture.  lines: the command line, if it can be read; snapshot: the last
\* snapshot, if any.  Each falls back to the profile by itself.
Capture(lines, snapshot, profile) ==
  LET kept == {Preserved(line) : line \in {l \in lines : HasMapSource(l)}}
      rosters == {memory \in snapshot : LeadingRun(memory) > 0}
      plan == IF kept = {} THEN FromProfile(profile)
              ELSE [FromProfile(profile) EXCEPT
                      !.arguments = CHOOSE k \in kept : TRUE, !.mapFromLive = TRUE]
  IN  IF rosters = {} THEN plan ELSE WithRoster(plan, CHOOSE m \in rosters : TRUE)

\* MUTANT: only the slots of participants are written.
WrittenIfActive(plan, memory, slot) ==
  IF slot >= plan.count THEN memory
  ELSE [memory EXCEPT
          !.controllers[slot] = plan.controllers[slot],
          !.classes[slot] = plan.classes[slot],
          !.teams = [s \in Players |-> IF s = slot THEN plan.teams[slot] ELSE @[s]],
          !.difficulties = [s \in Players |->
                              IF s = slot THEN plan.difficulties[slot] ELSE @[s]]]

\* apply_participant_setup: the writes for one slot of the table.
Written(plan, memory, slot) ==
  LET active == slot < plan.count
  IN [memory EXCEPT
        !.controllers[slot] = IF active THEN plan.controllers[slot] ELSE Unused,
        !.classes[slot] = IF active THEN plan.classes[slot] ELSE NoClass,
        !.teams = [s \in Players |->
                     IF s = slot THEN (IF active THEN plan.teams[slot] ELSE 0) ELSE @[s]],
        !.difficulties = [s \in Players |->
                            IF s = slot THEN (IF active THEN plan.difficulties[slot]
                                              ELSE DefaultDifficulty) ELSE @[s]]]
==============================================================================
