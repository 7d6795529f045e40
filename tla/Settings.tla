------------------------------ MODULE Settings ------------------------------
(***************************************************************************)
(* The settings of the assistant and what becomes of them: the profiles    *)
(* the user edits, the file they are saved in (config.rs, the Profiles and *)
(* Status tabs of app.rs), the selection a snapshot of the game may change *)
(* (auto_select), and the set-up screen a restart fills in (restart.rs).   *)
(*                                                                         *)
(* The assistant may be closed or crash at any moment, also between the    *)
(* two steps of a save; a game may be started, played, restarted and ended *)
(* by its user at any moment, also while its set-up is being written.      *)
(*                                                                         *)
(* Abstractions: one restart at a time, and the assistant knows at once    *)
(* that a game has started (Runtime models the time in between, several    *)
(* restarts, and their links); the user leaves the set-up screen as it was *)
(* written.                                                                *)
(***************************************************************************)
EXTENDS Profiles, Sequences, FiniteSets

CONSTANTS
  Ids,             \* ids of profiles
  Bodies,          \* what the user enters as a profile
  DefaultProfile,  \* Profile::default
  UserGames,       \* games the user starts, each with its command line
  SetupScreen,     \* the memory of a game that has reached its set-up screen
  Files,           \* what config.toml may hold from an earlier session
  Rolled,          \* classes the game rolls for a participant without one
  None,
  MaxEdits,        \* bound: changes of the settings and starts of the assistant
  MaxFailures,     \* bound: times the file cannot be read
  MaxGames,        \* bound: games that are started
  MaxEliminated    \* bound: participants of a game that are eliminated

ASSUME SettingsAssumption ==
  /\ Bodies \subseteq Profile /\ DefaultProfile \in Profile
  /\ UserGames \subseteq [line : CommandLine, memory : Memory]
  /\ SetupScreen \in Memory /\ Rolled \subseteq Classes /\ None \notin Ids
  /\ MaxEdits \in Nat /\ MaxFailures \in Nat /\ MaxGames \in Nat
  /\ MaxEliminated \in Nat

VARIABLES
  config,     \* AppConfig
  disk,       \* what config.toml holds; None: there is no file
  unread,     \* the file could not be read when the assistant started
  deleted,    \* profiles deleted since it started
  \* the game: its stage, command line, memory, and the profile it was made from (made);
  \* the restart knows the profile (wanted) or the snapshot (copied) it is to make one
  \* from, and the memory the game had when a copy of it was asked for (running).  These
  \* are sets of at most one, and show what happened: no step looks at them.
  game,
  snapshot,   \* the last snapshot, as a set
  restart,    \* the restart thread: its stage, plan and next slot
  edits, failures, games

settings == <<config, disk, unread, deleted, edits, failures>>
playing == <<game, snapshot, games>>
vars == <<settings, playing, restart>>

-----------------------------------------------------------------------------
Entry == [id : Ids, body : Profile]
Config == [profiles : Seq(Entry), active : Ids \cup {None}, lock : BOOLEAN,
           source : {"CopyLastGame", "UseProfile"}]
\* "setup": the set-up screen is shown; "playing": the world has been created.
GameStage == {"none", "loading", "setup", "playing"}
\* "launch": execute_external up to wait_for_coe5; "ready": waits for the set-up screen;
\* "writing"; "ok": activate_setup_ok; "world": wait_for_world_creation.
RestartStage == {"idle", "launch", "ready", "writing", "ok", "world"}

IdsOf(c) == {c.profiles[k].id : k \in DOMAIN c.profiles}

ASSUME FilesAssumption ==
  None \notin Config /\ \A c \in Files : c \in Config /\ c.active \in IdsOf(c)

OnDisk == IF disk = None THEN {} ELSE IdsOf(disk)

TypeOK ==
  /\ config \in Config
  /\ disk \in Config \cup {None}
  /\ unread \in BOOLEAN /\ deleted \subseteq Ids
  /\ game.stage \in GameStage
  /\ game.stage # "none" => game.line \in CommandLine /\ game.memory \in Memory
                            /\ game.made \subseteq Profile
  /\ snapshot \subseteq Memory
  /\ restart.stage \in RestartStage
  /\ restart.stage # "idle" => restart.plan \in RestartPlan /\ restart.slot \in 0 .. MaxSlots
  /\ restart.stage # "idle" => /\ restart.wanted \subseteq Profile
                               /\ restart.copied \subseteq Memory
                               /\ restart.running \subseteq Memory
  /\ edits \in 0 .. MaxEdits /\ failures \in 0 .. MaxFailures /\ games \in 0 .. MaxGames

NoGame == [stage |-> "none"]
Idle == [stage |-> "idle"]

\* AppConfig::default, with the first profile taken for the active one as AssistantApp::new does.
Default(id) ==
  [profiles |-> <<[id |-> id, body |-> DefaultProfile]>>, active |-> id,
   lock |-> FALSE, source |-> "CopyLastGame"]

Init ==
  /\ disk \in Files \cup {None}
  /\ IF disk = None THEN \E id \in Ids : config = Default(id) ELSE config = disk
  /\ unread = FALSE /\ deleted = {}
  /\ game = NoGame /\ snapshot = {}
  /\ restart = Idle
  /\ edits = 0 /\ failures = 0 /\ games = 0

-----------------------------------------------------------------------------
(* The file.                                                               *)

\* MUTANT: the file is written in place, and a crash leaves the start of it.
SavesInPlace(c) == {disk, c, [c EXCEPT !.profiles = << >>]}

\* save writes config.toml.tmp and renames it.  When one of the two fails, or the
\* assistant ends between them, the file is still the old one.
Saves(c) == {disk, c}

\* The assistant ends, in whatever way, and is started again.
Start ==
  /\ edits < MaxEdits /\ edits' = edits + 1
  /\ \/ /\ disk # None
        /\ config' = disk /\ unread' = FALSE
        /\ UNCHANGED failures
     \/ /\ disk = None
        /\ \E id \in Ids : config' = Default(id)
        /\ unread' = FALSE
        /\ UNCHANGED failures
     \/ /\ disk # None
        /\ failures < MaxFailures /\ failures' = failures + 1
        /\ \E id \in Ids \ OnDisk : config' = Default(id)
        /\ unread' = TRUE
  /\ deleted' = {} /\ snapshot' = {}
  /\ restart' = Idle
  /\ UNCHANGED <<disk, game, games>>

-----------------------------------------------------------------------------
(* The Profiles and Status tabs.                                           *)

Change(c) == edits < MaxEdits /\ edits' = edits + 1 /\ config' = c
Keep == UNCHANGED <<unread, failures, playing, restart>>

ActiveProfile ==
  {config.profiles[k].body : k \in {k \in DOMAIN config.profiles :
                                      config.profiles[k].id = config.active}}

Select(id) ==
  /\ id \in IdsOf(config) \ {config.active}
  /\ Change([config EXCEPT !.active = id])
  /\ UNCHANGED <<disk, deleted>> /\ Keep

\* "+": a copy of the active profile, which becomes the active one.
Add(id) ==
  /\ id \notin IdsOf(config) \cup OnDisk
  /\ \E body \in (IF ActiveProfile = {} THEN {DefaultProfile} ELSE ActiveProfile) :
       Change([config EXCEPT !.profiles = Append(@, [id |-> id, body |-> body]),
                             !.active = id])
  /\ UNCHANGED <<disk, deleted>> /\ Keep

\* The profiles without the one at k.
Without(k) == SubSeq(config.profiles, 1, k - 1) \o
              SubSeq(config.profiles, k + 1, Len(config.profiles))

\* MUTANT: the selection is left to the profile that was deleted.
DeleteOnly(k) == [config EXCEPT !.profiles = Without(k)]

Deleted(k) ==
  [config EXCEPT !.profiles = Without(k),
                 !.active = IF @ = config.profiles[k].id THEN Without(k)[1].id ELSE @]

\* The trash button, which is shown while there is more than one profile.
Delete(k) ==
  /\ Len(config.profiles) > 1
  /\ Change(Deleted(k))
  /\ disk' \in Saves(Deleted(k))
  /\ deleted' = deleted \cup {config.profiles[k].id}
  /\ Keep

\* The fields of the active profile.
Edit(body) ==
  /\ \E k \in DOMAIN config.profiles :
       /\ config.profiles[k].id = config.active
       /\ config.profiles[k].body # body
       /\ Change([config EXCEPT !.profiles[k].body = body])
  /\ UNCHANGED <<disk, deleted>> /\ Keep

ToggleLock ==
  /\ Change([config EXCEPT !.lock = ~ @])
  /\ UNCHANGED <<disk, deleted>> /\ Keep

\* The restart settings source, which is saved at once.
ToggleSource ==
  LET toggled == [config EXCEPT !.source = IF @ = "UseProfile" THEN "CopyLastGame"
                                                               ELSE "UseProfile"]
  IN  Change(toggled) /\ disk' \in Saves(toggled) /\ UNCHANGED deleted /\ Keep

SaveChanges ==
  /\ disk' \in Saves(config)
  /\ UNCHANGED <<config, deleted, edits>> /\ Keep

-----------------------------------------------------------------------------
(* Snapshots.                                                              *)

Matching(memory) ==
  {config.profiles[k].id : k \in {k \in DOMAIN config.profiles :
                                    Matches(config.profiles[k].body, memory)}}

\* MUTANT: the first of several matching profiles is selected.
SelectFirst(memory) ==
  IF config.lock \/ Matching(memory) = {} THEN config.active
  ELSE config.profiles[First({k \in DOMAIN config.profiles :
                                Matches(config.profiles[k].body, memory)}, 1)].id

AutoSelect(memory) ==
  IF config.lock \/ \A id \in Matching(memory) : Matching(memory) # {id}
    THEN config.active
    ELSE CHOOSE id \in Matching(memory) : TRUE

\* A snapshot arrives of a game on its set-up screen or later.
TakeSnapshot ==
  /\ game.stage \in {"setup", "playing"}
  /\ config' = [config EXCEPT !.active = AutoSelect(game.memory)]
  /\ snapshot' = {game.memory}
  /\ UNCHANGED <<disk, unread, deleted, edits, failures, game, games, restart>>

-----------------------------------------------------------------------------
(* A restart.                                                              *)

\* The second press of the hotkey, or the button: start_external_restart.  The command
\* line may be unreadable.
Press(lines) ==
  /\ game.stage # "none" /\ lines \in {{}, {game.line}}
  /\ restart.stage = "idle" /\ games < MaxGames
  /\ \E profile \in ActiveProfile :
       LET plan == IF config.source = "CopyLastGame"
                     THEN Capture(lines, snapshot, profile) ELSE FromProfile(profile)
       IN  restart' = [stage |-> "launch", plan |-> plan, slot |-> 0,
                       wanted |-> IF plan.mapFromLive \/ plan.rosterFromLive
                                    THEN {} ELSE {profile},
                       copied |-> IF plan.rosterFromLive THEN snapshot ELSE {},
                       running |-> IF plan.rosterFromLive THEN {game.memory} ELSE {}]
  /\ UNCHANGED <<settings, playing>>

\* What a game shows when its set-up screen comes up.
FreshSetup(line) == [SetupScreen EXCEPT !.society = line.society, !.wilder = line.wilder]

\* The game is closed and launched again with the arguments of the plan.  The last
\* snapshot is forgotten only if the controller notices that the old game is gone before
\* it hears of the new one.
Relaunch ==
  /\ restart.stage = "launch"
  /\ games < MaxGames /\ games' = games + 1
  /\ game' = [stage |-> "loading", line |-> restart.plan.arguments, made |-> {},
              memory |-> FreshSetup(restart.plan.arguments)]
  /\ snapshot' \in {snapshot, {}}
  /\ restart' = [restart EXCEPT !.stage = "ready"]
  /\ UNCHANGED settings

\* The first controller reads as that of a human: the screen is there, or the game is
\* still loading and has nothing in it yet.
SetupReached ==
  /\ restart.stage = "ready" /\ game.stage # "none"
  /\ game.stage = "loading" \/ game.memory.controllers[0] = Human
  /\ restart' = [restart EXCEPT !.stage = "writing"]
  /\ UNCHANGED <<settings, playing>>

\* The writes of one slot.  Before the screen is there they are lost, once the world has
\* been created they come too late.
WriteSlot ==
  /\ restart.stage = "writing" /\ restart.slot < MaxSlots /\ game.stage # "none"
  /\ game' = [game EXCEPT !.memory = Written(restart.plan, @, restart.slot)]
  /\ restart' = [restart EXCEPT !.slot = @ + 1,
                               !.wanted = IF game.stage = "setup" THEN @ ELSE {},
                               !.copied = IF game.stage = "setup" THEN @ ELSE {},
                               !.running = IF game.stage = "setup" THEN @ ELSE {}]
  /\ UNCHANGED <<settings, snapshot, games>>

\* The last write, and the resize that makes the game draw the screen again.
WriteUnique ==
  /\ restart.stage = "writing" /\ restart.slot = MaxSlots /\ game.stage # "none"
  /\ game' = [game EXCEPT !.memory.unique = restart.plan.unique, !.made = restart.wanted]
  /\ restart' = [restart EXCEPT !.stage = "ok"]
  /\ UNCHANGED <<settings, snapshot, games>>

\* The game leaves its set-up screen and rolls the classes that were left to it.
CreateWorld(class) ==
  game' = [game EXCEPT
             !.stage = "playing",
             !.memory.classes = [s \in Slots |->
                IF game.memory.controllers[s] \in {Human, AI} /\ @[s] \in {RandomClass, NoClass}
                  THEN class ELSE @[s]]]

\* activate_setup_ok: Enter, and a click when that did not do.  Neither may do.
ActivateOk ==
  /\ restart.stage = "ok" /\ game.stage # "none"
  /\ restart' = [restart EXCEPT !.stage = "world"]
  /\ \/ game.stage = "setup" /\ \E class \in Rolled : CreateWorld(class)
     \/ UNCHANGED game
  /\ UNCHANGED <<settings, snapshot, games>>

\* wait_for_world_creation sees a start coordinate.
RestartSucceeds ==
  /\ restart.stage = "world" /\ game.stage = "playing"
  /\ restart' = Idle
  /\ UNCHANGED <<settings, playing>>

\* A step of the restart fails, or its deadline passes.
RestartFails ==
  /\ restart.stage # "idle"
  /\ restart' = Idle
  /\ \/ UNCHANGED playing
     \/ /\ restart.stage = "launch" /\ game.stage # "none"   \* closed, not launched
        /\ game' = NoGame /\ snapshot' = {} /\ UNCHANGED games
  /\ UNCHANGED settings

-----------------------------------------------------------------------------
(* The game and its user.                                                  *)

UserStarts(g) ==
  /\ game.stage = "none" /\ restart.stage = "idle"
  /\ games < MaxGames /\ games' = games + 1
  /\ game' = [stage |-> "setup", line |-> g.line, memory |-> g.memory, made |-> {}]
  /\ UNCHANGED <<settings, snapshot, restart>>

\* The screen comes up with what the game proposes.
SetupShown ==
  /\ game.stage = "loading"
  /\ game' = [game EXCEPT !.stage = "setup", !.memory = FreshSetup(game.line), !.made = {}]
  /\ UNCHANGED <<settings, snapshot, games, restart>>

\* The user confirms the set-up screen, whatever is written of it.
Enter(class) ==
  /\ game.stage = "setup"
  /\ CreateWorld(class)
  /\ UNCHANGED <<settings, snapshot, games, restart>>

Eliminate(s) ==
  /\ game.stage = "playing" /\ game.memory.controllers[s] \in {Human, AI}
  /\ Cardinality({t \in Slots : game.memory.controllers[t] = Eliminated}) < MaxEliminated
  /\ game' = [game EXCEPT !.memory.controllers[s] = Eliminated]
  /\ UNCHANGED <<settings, snapshot, games, restart>>

GameEnds ==
  /\ game.stage # "none"
  /\ game' = NoGame /\ snapshot' = {}
  /\ UNCHANGED <<settings, games, restart>>

-----------------------------------------------------------------------------
User ==
  \/ \E id \in Ids : Select(id) \/ Add(id)
  \/ \E k \in DOMAIN config.profiles : Delete(k)
  \/ \E body \in Bodies : Edit(body)
  \/ ToggleLock \/ ToggleSource \/ SaveChanges
  \/ game.stage # "none" /\ \E lines \in {{}, {game.line}} : Press(lines)

RestartThread ==
  \/ Relaunch \/ SetupReached \/ WriteSlot \/ WriteUnique
  \/ ActivateOk \/ RestartSucceeds \/ RestartFails

Game ==
  \/ \E g \in UserGames : UserStarts(g)
  \/ SetupShown \/ GameEnds
  \/ \E class \in Rolled : Enter(class)
  \/ \E s \in Slots : Eliminate(s)

Next == Start \/ User \/ TakeSnapshot \/ RestartThread \/ Game

Spec == Init /\ [][Next]_vars

-----------------------------------------------------------------------------
(* Correctness.                                                            *)

\* There is always an active profile, and it is one of the list: a restart and the
\* Profiles tab can rely on it whatever was deleted, loaded or selected by a snapshot
\* (config.rs active_profile, app.rs profiles).
ActiveExists == config.active \in IdsOf(config)

\* A profile leaves the file only when the user deletes it: neither a crash in a save nor
\* what is saved in another session drops it, unless that session could not read the file
\* (config.rs load and save).
ProfilesSurvive == [][OnDisk \subseteq OnDisk' \cup deleted' \/ unread]_vars

\* A game made from a profile is recognized as that profile's for as long as a human is in
\* it, whoever else is eliminated and whatever classes the game has rolled, and the Status
\* tab lists no difference (from_profile and apply_participant_setup against matches and
\* differences).  A profile that leaves its own class to the game cannot be recognized.
ProfileRoundTrip ==
  game.stage # "none" =>
    \A profile \in game.made :
      profile.class # RandomClass /\ game.memory.controllers[0] = Human =>
        /\ Matches(profile, game.memory)
        /\ Differences(profile, game.memory) = {}

\* What a restart has written when it copies a game is the leading run of participants
\* of the last snapshot, wherever it ends: the same controllers, teams and difficulties,
\* the class of each human and none for the others, and nobody behind them
\* (roster_from_snapshot against the writes of apply_participant_setup).
CopiesTheRun(memory, original) ==
  \A s \in Slots :
    IF s \in Players /\ \A t \in 0 .. s : original.controllers[t] \in {Human, AI}
      THEN /\ memory.controllers[s] = original.controllers[s]
           /\ memory.teams[s] = original.teams[s]
           /\ memory.difficulties[s] = original.difficulties[s]
           /\ memory.classes[s] = IF original.controllers[s] = Human
                                    THEN original.classes[s] ELSE NoClass
      ELSE memory.controllers[s] = Unused

CopyIsTheLeadingRun ==
  restart.stage \in {"ok", "world"} /\ game.stage = "setup" =>
    \A original \in restart.copied : CopiesTheRun(game.memory, original)

\* Restarting from the active profile does not make snapshots select another one: while
\* the active profile is the one the game was made from, they leave it active
\* (RuntimeController::handle_message, auto_select).
RestartKeepsTheProfile ==
  [][snapshot' \notin {snapshot, {}}
       /\ (\E profile \in game.made : ActiveProfile = {profile} /\ profile.class # RandomClass)
     => config'.active = config.active]_vars

-----------------------------------------------------------------------------
(* What the documents say and the code does not do.                        *)

\* user-guide.md:44-47: a restart that copies the last played game mirrors the running
\* game and its participant roster.  Whoever still played when the restart was asked for
\* is there again, with the same controller, team and difficulty.
CopyMirrorsTheGame ==
  restart.stage \in {"ok", "world"} /\ game.stage = "setup" =>
    \A original \in restart.running : \A s \in Players :
      original.controllers[s] \in {Human, AI} =>
        /\ game.memory.controllers[s] = original.controllers[s]
        /\ game.memory.teams[s] = original.teams[s]
        /\ game.memory.difficulties[s] = original.difficulties[s]
==============================================================================
