---------------------------- MODULE SettingsProofs ----------------------------
(***************************************************************************)
(* Proofs about Settings, for any profiles, snapshots and games and any    *)
(* number of edits and crashes.                                            *)
(*                                                                         *)
(* What is read from the file later was written to it by a session before, *)
(* so the theorems on profiles rest on what config and disk have in        *)
(* common (SettingsInv): a configuration whose active profile exists, and, *)
(* unless the file could not be read, all the profiles of the file but     *)
(* those deleted since.  What is said of games rests on what the restart   *)
(* thread has written at each of its stages (RestartInv), and on lemmas    *)
(* about the operators of Profiles.                                        *)
(***************************************************************************)
EXTENDS Settings, SequenceTheorems, WellFoundedInduction, TLAPS

-----------------------------------------------------------------------------
(* The operators on profiles, snapshots and plans (Profiles).              *)

\* A set of numbers that is not empty has a least one, which First finds.
LEMMA FirstIs ==
  ASSUME NEW S \in SUBSET Nat, S # {}, NEW otherwise
  PROVE  First(S, otherwise) \in S /\ \A s \in S : First(S, otherwise) <= s
<1>1. IsWellFoundedOn(OpToRel(<, Nat), Nat)
  BY NatLessThanWellFounded
<1>2. \E x \in S : \A y \in S : ~ (<<y, x>> \in OpToRel(<, Nat))
  BY <1>1, WFMin, Zenon
<1>3. PICK x \in S : \A y \in S : ~ (<<y, x>> \in OpToRel(<, Nat))
  BY <1>2
<1>4. ASSUME NEW y \in S PROVE x <= y
  <2>1. ~ y < x
    BY <1>3 DEF OpToRel
  <2> QED  BY <2>1
<1>5. \E least \in S : \A s \in S : least <= s
  BY <1>4
<1>6. First(S, otherwise) = CHOOSE least \in S : \A s \in S : least <= s
  BY DEF First
<1> QED  BY <1>5, <1>6, Zenon

\* There is a first slot, every player is a slot, and the values that stand for no
\* class or no participant are different from the others.
LEMMA SlotFacts ==
  /\ MaxSlots \in Nat /\ MaxPlayers \in Nat \ {0} /\ MaxPlayers <= MaxSlots
  /\ 0 \in Slots /\ 0 \in Players /\ Players \subseteq Slots /\ Slots \subseteq Nat
  /\ RandomClass \notin Classes /\ NoClass \notin Classes
  /\ Unused \notin {Human, AI, Eliminated} /\ Eliminated \notin {Human, AI} /\ Human # AI
BY SlotsAssumption, ClassesAssumption
   DEF Slots, Players, RandomClass, NoClass, Unused, Human, AI, Eliminated

\* The configured count is the first unused slot.
LEMMA CountIs ==
  ASSUME NEW memory, NEW n \in 0 .. MaxPlayers,
         \A s \in Players : s < n => memory.controllers[s] # Unused,
         n < MaxPlayers => memory.controllers[n] = Unused
  PROVE  ConfiguredCount(memory) = n
<1> DEFINE S == {s \in Players : memory.controllers[s] = Unused}
<1>1. S \in SUBSET Nat /\ \A s \in S : n <= s
  BY SlotFacts DEF Players
<1>2. CASE n < MaxPlayers
  <2>1. n \in S
    BY <1>2, SlotFacts DEF Players
  <2>2. First(S, MaxPlayers) \in S /\ \A s \in S : First(S, MaxPlayers) <= s
    BY <1>1, <2>1, FirstIs
  <2>3. First(S, MaxPlayers) \in Nat /\ First(S, MaxPlayers) <= n /\ n <= First(S, MaxPlayers)
    BY <1>1, <2>1, <2>2
  <2>4. First(S, MaxPlayers) = n
    BY <2>3
  <2> QED  BY <2>4 DEF ConfiguredCount
<1>3. CASE n = MaxPlayers
  <2>1. S = {}
    BY <1>1, <1>3, SlotFacts DEF Players
  <2> QED  BY <1>3, <2>1 DEF ConfiguredCount, First
<1> QED  BY <1>2, <1>3, SlotFacts

\* The configured count of any memory.
LEMMA CountRange ==
  ASSUME NEW memory
  PROVE  /\ ConfiguredCount(memory) \in 0 .. MaxPlayers
         /\ \A s \in Players : s < ConfiguredCount(memory) => memory.controllers[s] # Unused
         /\ ConfiguredCount(memory) < MaxPlayers
              => memory.controllers[ConfiguredCount(memory)] = Unused
<1> DEFINE S == {s \in Players : memory.controllers[s] = Unused}
<1>1. S \in SUBSET Nat /\ S \subseteq Players
  BY SlotFacts
<1>2. CASE S = {}
  <2>1. ConfiguredCount(memory) = MaxPlayers
    BY <1>2 DEF ConfiguredCount, First
  <2> QED  BY <1>2, <2>1, SlotFacts
<1>3. CASE S # {}
  <2>1. First(S, MaxPlayers) \in S /\ \A s \in S : First(S, MaxPlayers) <= s
    BY <1>1, <1>3, FirstIs
  <2>2. ConfiguredCount(memory) = First(S, MaxPlayers)
    BY DEF ConfiguredCount
  <2> DEFINE n == ConfiguredCount(memory)
  <2>3. n \in Players /\ memory.controllers[n] = Unused
    BY <2>1, <2>2
  <2>4. ASSUME NEW s \in Players, s < n PROVE memory.controllers[s] # Unused
    <3>1. s \in Nat /\ n \in Nat
      BY <2>3, SlotFacts
    <3>2. s \notin S
      BY <2>1, <2>2, <2>4, <3>1
    <3> QED  BY <3>2
  <2>5. n \in 0 .. MaxPlayers
    BY <2>3, SlotFacts DEF Players
  <2> QED  BY <2>3, <2>4, <2>5
<1> QED  BY <1>2, <1>3

\* The leading run of a game: the participants before the first slot that nobody plays.
LEMMA RunIs ==
  ASSUME NEW memory \in Memory
  PROVE  /\ LeadingRun(memory) \in 0 .. MaxPlayers
         /\ \A s \in Slots : s < LeadingRun(memory) => memory.controllers[s] \in {Human, AI}
         /\ LeadingRun(memory) < MaxPlayers
              => memory.controllers[LeadingRun(memory)] \notin {Human, AI}
<1> DEFINE S == {s \in Slots : memory.controllers[s] \notin {Human, AI}}
           run == First(S, MaxSlots)
<1>1. S \in SUBSET Nat /\ S \subseteq Slots
  BY SlotFacts
<1>2. /\ run \in Nat
      /\ \A s \in Slots : s < run => s \notin S
      /\ run = MaxSlots \/ run \in S
  <2>1. CASE S = {}
    <3>1. run = MaxSlots
      BY <2>1 DEF First
    <3> QED  BY <2>1, <3>1, SlotFacts
  <2>2. CASE S # {}
    <3>1. run \in S /\ \A s \in S : run <= s
      BY <1>1, <2>2, FirstIs
    <3> HIDE DEF run, S
    <3>2. run \in Nat
      BY <1>1, <3>1
    <3>3. ASSUME NEW s \in Slots, s < run PROVE s \notin S
      <4>1. s \in Nat
        BY SlotFacts
      <4> QED  BY <3>1, <3>2, <3>3, <4>1
    <3> QED  BY <3>1, <3>2, <3>3
  <2> QED  BY <2>1, <2>2
<1>3. LeadingRun(memory) = IF run <= MaxPlayers THEN run ELSE MaxPlayers
  BY DEF LeadingRun
<1>4. \A s \in Slots : s < run => memory.controllers[s] \in {Human, AI}
  BY <1>2
<1>5. run \in S => memory.controllers[run] \notin {Human, AI}
  OBVIOUS
<1> HIDE DEF run, S
<1> DEFINE n == LeadingRun(memory)
<1>6. n \in Nat /\ n <= MaxPlayers /\ n <= run /\ (n < MaxPlayers => n = run /\ run \in S)
  BY <1>2, <1>3, SlotFacts
<1>7. ASSUME NEW s \in Slots, s < n PROVE memory.controllers[s] \in {Human, AI}
  <2>1. s \in Nat
    BY SlotFacts
  <2>2. s < run
    BY <1>2, <1>6, <1>7, <2>1
  <2> QED  BY <1>4, <2>2
<1>8. n \in 0 .. MaxPlayers
  BY <1>6, SlotFacts
<1>9. n < MaxPlayers => memory.controllers[n] \notin {Human, AI}
  BY <1>5, <1>6
<1> QED  BY <1>7, <1>8, <1>9

\* The plan that describes a profile, field by field.
LEMMA ProfilePlan ==
  ASSUME NEW profile \in Profile
  PROVE  /\ FromProfile(profile) \in RestartPlan
         /\ FromProfile(profile).arguments = LaunchArguments(profile)
         /\ FromProfile(profile).count = profile.count
         /\ FromProfile(profile).controllers =
              [s \in Slots |-> IF s = 0 THEN Human
                               ELSE IF s < profile.count THEN AI ELSE Unused]
         /\ FromProfile(profile).classes[0] = profile.class
         /\ \A s \in Players : FromProfile(profile).difficulties[s] = profile.difficulty
         /\ FromProfile(profile).mapFromLive = FALSE
         /\ FromProfile(profile).rosterFromLive = FALSE
<1>1. /\ profile.class \in Classes \cup {RandomClass} /\ profile.count \in 2 .. MaxPlayers
      /\ profile.difficulty \in Difficulties /\ profile.society \in Societies
      /\ profile.wilder \in BOOLEAN /\ profile.unique \in BOOLEAN
  BY DEF Profile
<1>2. LaunchArguments(profile) \in CommandLine
  BY <1>1 DEF LaunchArguments, CommandLine
<1>3. profile.count \in 0 .. MaxPlayers
  BY <1>1
<1>4. [s \in Slots |-> IF s = 0 THEN Human ELSE IF s < profile.count THEN AI ELSE Unused]
        \in [Slots -> {Human, AI, Unused}]
  OBVIOUS
<1>5. [s \in Slots |-> IF s = 0 THEN profile.class
                       ELSE IF s < profile.count THEN RandomClass ELSE NoClass]
        \in [Slots -> Classes \cup {RandomClass, NoClass}]
  BY <1>1
<1>6. [s \in Players |-> 0] \in [Players -> Int]
  OBVIOUS
<1>7. [s \in Players |-> profile.difficulty] \in [Players -> Difficulties]
  BY <1>1
<1>8. FromProfile(profile) \in RestartPlan
  BY <1>1, <1>2, <1>3, <1>4, <1>5, <1>6, <1>7 DEF FromProfile, RestartPlan
<1> QED  BY <1>8, SlotFacts DEF FromProfile

\* The plan that copies the participants of a game, field by field.
LEMMA RosterPlan ==
  ASSUME NEW plan \in RestartPlan, NEW memory \in Memory
  PROVE  /\ WithRoster(plan, memory) \in RestartPlan
         /\ WithRoster(plan, memory).count = LeadingRun(memory)
         /\ WithRoster(plan, memory).rosterFromLive = TRUE
         /\ \A s \in Slots :
              s < LeadingRun(memory) =>
                /\ WithRoster(plan, memory).controllers[s] = memory.controllers[s]
                /\ WithRoster(plan, memory).classes[s] =
                     IF memory.controllers[s] = Human THEN memory.classes[s] ELSE NoClass
         /\ \A s \in Players :
              s < LeadingRun(memory) =>
                /\ WithRoster(plan, memory).teams[s] = memory.teams[s]
                /\ WithRoster(plan, memory).difficulties[s] = memory.difficulties[s]
<1> DEFINE n == LeadingRun(memory)
           controllers == [s \in Slots |-> IF s < n THEN memory.controllers[s] ELSE Unused]
           classes == [s \in Slots |-> IF s < n /\ memory.controllers[s] = Human
                                         THEN memory.classes[s] ELSE NoClass]
           teams == [s \in Players |-> IF s < n THEN memory.teams[s] ELSE 0]
           difficulties == [s \in Players |-> IF s < n THEN memory.difficulties[s]
                                              ELSE DefaultDifficulty]
<1>1. n \in 0 .. MaxPlayers /\ \A s \in Slots : s < n => memory.controllers[s] \in {Human, AI}
  BY RunIs
<1>2. /\ controllers \in [Slots -> {Human, AI, Unused}]
      /\ classes \in [Slots -> Classes \cup {RandomClass, NoClass}]
      /\ teams \in [Players -> Int]
      /\ memory.unique \in BOOLEAN
  BY <1>1 DEF Memory
<1>3. difficulties \in [Players -> Difficulties]
  BY DEF Memory, Difficulties, DefaultDifficulty
<1>4. WithRoster(plan, memory) =
        [plan EXCEPT !.controllers = controllers, !.classes = classes, !.teams = teams,
                     !.difficulties = difficulties, !.unique = memory.unique,
                     !.count = n, !.rosterFromLive = TRUE]
  BY DEF WithRoster
<1>5. \A s \in Slots : s < n => /\ controllers[s] = memory.controllers[s]
                                /\ classes[s] = IF memory.controllers[s] = Human
                                                  THEN memory.classes[s] ELSE NoClass
  OBVIOUS
<1>6. \A s \in Players : s < n => /\ teams[s] = memory.teams[s]
                                  /\ difficulties[s] = memory.difficulties[s]
  OBVIOUS
<1> HIDE DEF controllers, classes, teams, difficulties
<1>7. /\ WithRoster(plan, memory) \in RestartPlan
      /\ WithRoster(plan, memory).count = n
      /\ WithRoster(plan, memory).rosterFromLive = TRUE
      /\ WithRoster(plan, memory).controllers = controllers
      /\ WithRoster(plan, memory).classes = classes
      /\ WithRoster(plan, memory).teams = teams
      /\ WithRoster(plan, memory).difficulties = difficulties
  BY <1>1, <1>2, <1>3, <1>4 DEF RestartPlan
<1> QED  BY <1>5, <1>6, <1>7

\* What a restart takes from a game and what from the profile: the plan says which.
LEMMA CaptureIs ==
  ASSUME NEW lines \in SUBSET CommandLine, NEW S \in SUBSET Memory, NEW profile \in Profile
  PROVE  /\ Capture(lines, S, profile) \in RestartPlan
         /\ ~ Capture(lines, S, profile).mapFromLive
            /\ ~ Capture(lines, S, profile).rosterFromLive
              => Capture(lines, S, profile) = FromProfile(profile)
         /\ Capture(lines, S, profile).rosterFromLive
              => \E plan \in RestartPlan, memory \in S :
                   Capture(lines, S, profile) = WithRoster(plan, memory)
<1> DEFINE kept == {Preserved(line) : line \in {l \in lines : HasMapSource(l)}}
           rosters == {memory \in S : LeadingRun(memory) > 0}
           plan == IF kept = {} THEN FromProfile(profile)
                   ELSE [FromProfile(profile) EXCEPT
                           !.arguments = CHOOSE k \in kept : TRUE, !.mapFromLive = TRUE]
<1>1. Capture(lines, S, profile) =
        IF rosters = {} THEN plan ELSE WithRoster(plan, CHOOSE m \in rosters : TRUE)
  BY DEF Capture
<1>2. kept \subseteq CommandLine
  BY DEF Preserved, CommandLine
<1>3. kept # {} => (CHOOSE k \in kept : TRUE) \in CommandLine
  BY <1>2
<1>4. rosters # {} => (CHOOSE m \in rosters : TRUE) \in S
  OBVIOUS
<1>5. /\ FromProfile(profile) \in RestartPlan
      /\ FromProfile(profile).mapFromLive = FALSE /\ FromProfile(profile).rosterFromLive = FALSE
  BY ProfilePlan
<1> HIDE DEF kept, rosters
<1>6. /\ plan \in RestartPlan
      /\ plan.rosterFromLive = FALSE
      /\ kept # {} => plan.mapFromLive = TRUE
      /\ kept = {} => plan = FromProfile(profile)
  BY <1>3, <1>5 DEF RestartPlan
<1> HIDE DEF plan
<1>7. CASE rosters = {}
  BY <1>1, <1>6, <1>7
<1>8. CASE rosters # {}
  <2>1. PICK m \in S : Capture(lines, S, profile) = WithRoster(plan, m)
    BY <1>1, <1>4, <1>8
  <2>2. m \in Memory
    OBVIOUS
  <2>3. WithRoster(plan, m) \in RestartPlan /\ WithRoster(plan, m).rosterFromLive = TRUE
    BY <1>6, <2>2, RosterPlan
  <2> QED  BY <1>6, <2>1, <2>3
<1> QED  BY <1>7, <1>8

\* The writes for one slot change that slot, to what the plan says, and nothing else.
LEMMA WrittenIs ==
  ASSUME NEW plan \in RestartPlan, NEW memory \in Memory, NEW slot \in Slots
  PROVE  /\ Written(plan, memory, slot) \in Memory
         /\ Written(plan, memory, slot).controllers =
              [memory.controllers EXCEPT ![slot] = IF slot < plan.count
                                                     THEN plan.controllers[slot] ELSE Unused]
         /\ Written(plan, memory, slot).classes =
              [memory.classes EXCEPT ![slot] = IF slot < plan.count
                                                 THEN plan.classes[slot] ELSE NoClass]
         /\ \A s \in Players :
              /\ s # slot => /\ Written(plan, memory, slot).teams[s] = memory.teams[s]
                             /\ Written(plan, memory, slot).difficulties[s]
                                  = memory.difficulties[s]
              /\ s = slot /\ slot < plan.count =>
                   /\ Written(plan, memory, slot).teams[s] = plan.teams[s]
                   /\ Written(plan, memory, slot).difficulties[s] = plan.difficulties[s]
<1> DEFINE w == Written(plan, memory, slot)
           active == slot < plan.count
           controllers == [memory.controllers EXCEPT ![slot] =
                             IF active THEN plan.controllers[slot] ELSE Unused]
           classes == [memory.classes EXCEPT ![slot] = IF active THEN plan.classes[slot]
                                                       ELSE NoClass]
           teams == [s \in Players |->
                       IF s = slot THEN (IF active THEN plan.teams[slot] ELSE 0)
                       ELSE memory.teams[s]]
           difficulties == [s \in Players |->
                              IF s = slot THEN (IF active THEN plan.difficulties[slot]
                                                ELSE DefaultDifficulty)
                              ELSE memory.difficulties[s]]
<1>1. w = [memory EXCEPT !.controllers = controllers, !.classes = classes,
                         !.teams = teams, !.difficulties = difficulties]
  BY DEF Written, Memory
<1>2. controllers \in [Slots -> {Human, AI, Unused, Eliminated}]
  BY DEF RestartPlan, Memory
<1>3. classes \in [Slots -> Classes \cup {RandomClass, NoClass}]
  BY DEF RestartPlan, Memory
<1>4. teams \in [Players -> Int]
  BY DEF RestartPlan, Memory
<1>5. difficulties \in [Players -> Difficulties]
  BY DEF RestartPlan, Memory, Difficulties, DefaultDifficulty
<1>6. \A s \in Players :
        /\ s # slot => teams[s] = memory.teams[s] /\ difficulties[s] = memory.difficulties[s]
        /\ s = slot /\ active => /\ teams[s] = plan.teams[s]
                                 /\ difficulties[s] = plan.difficulties[s]
  OBVIOUS
<1> HIDE DEF w, controllers, classes, teams, difficulties
<1>7. /\ w \in Memory
      /\ w.controllers = controllers /\ w.classes = classes
      /\ w.teams = teams /\ w.difficulties = difficulties
  BY <1>1, <1>2, <1>3, <1>4, <1>5 DEF Memory
<1> QED  BY <1>6, <1>7 DEF w, controllers, classes

\* They leave the settings of the map alone.
LEMMA WrittenKeepsMap ==
  ASSUME NEW plan, NEW memory \in Memory, NEW slot
  PROVE  /\ Written(plan, memory, slot).society = memory.society
         /\ Written(plan, memory, slot).wilder = memory.wilder
BY DEF Written, Memory

-----------------------------------------------------------------------------
(* Lists of profiles.                                                      *)

\* The ids of a configuration.
LEMMA IdsAre ==
  ASSUME NEW c \in Config
  PROVE  /\ c.profiles \in Seq(Entry) /\ Len(c.profiles) \in Nat
         /\ DOMAIN c.profiles = 1 .. Len(c.profiles)
         /\ IdsOf(c) = {c.profiles[k].id : k \in 1 .. Len(c.profiles)}
         /\ \A k \in 1 .. Len(c.profiles) : c.profiles[k] \in Entry /\ c.profiles[k].id \in IdsOf(c)
BY DEF Config, IdsOf

\* The ids of what holds a list of profiles.
LEMMA IdsFrom ==
  ASSUME NEW c, NEW list \in Seq(Entry), c.profiles = list
  PROVE  IdsOf(c) = {list[i].id : i \in 1 .. Len(list)}
<1>1. DOMAIN list = 1 .. Len(list)
  OBVIOUS
<1> QED  BY <1>1, Zenon DEF IdsOf

\* A list without the profile at k.
LEMMA Cut ==
  ASSUME NEW p \in Seq(Entry), NEW n \in Nat, Len(p) = n, NEW k \in 1 .. n
  PROVE  LET rest == SubSeq(p, 1, k - 1) \o SubSeq(p, k + 1, n)
         IN  /\ rest \in Seq(Entry) /\ Len(rest) = n - 1
             /\ \A i \in 1 .. k - 1 : rest[i] = p[i]
             /\ \A i \in k .. n - 1 : rest[i] = p[i + 1]
<1> DEFINE rest == SubSeq(p, 1, k - 1) \o SubSeq(p, k + 1, n)
<1> DEFINE before == SubSeq(p, 1, k - 1)   after == SubSeq(p, k + 1, n)
<1>1. /\ before \in Seq(Entry) /\ Len(before) = k - 1
      /\ \A i \in 1 .. k - 1 : before[i] = p[i]
  OBVIOUS
<1>2. /\ after \in Seq(Entry) /\ Len(after) = n - k
      /\ \A i \in 1 .. n - k : after[i] = p[k + i]
  OBVIOUS
<1>3. rest = before \o after
  OBVIOUS
<1> HIDE DEF before, after, rest
<1>4. /\ rest \in Seq(Entry) /\ Len(rest) = n - 1
      /\ \A i \in 1 .. n - 1 : rest[i] = IF i <= k - 1 THEN before[i] ELSE after[i - (k - 1)]
  <2>1. /\ rest \in Seq(Entry) /\ Len(rest) = Len(before) + Len(after)
        /\ \A i \in 1 .. Len(before) + Len(after) :
             rest[i] = IF i <= Len(before) THEN before[i] ELSE after[i - Len(before)]
    <3>1. before \in Seq(Entry) /\ after \in Seq(Entry)
      BY <1>1, <1>2
    <3>2. /\ before \o after \in Seq(Entry)
          /\ Len(before \o after) = Len(before) + Len(after)
          /\ \A i \in 1 .. Len(before) + Len(after) :
               (before \o after)[i] = IF i <= Len(before) THEN before[i]
                                                         ELSE after[i - Len(before)]
      BY <3>1, ConcatProperties, Zenon
    <3> QED  BY <1>3, <3>2, Zenon
  <2>2. Len(before) + Len(after) = n - 1
    BY <1>1, <1>2
  <2> QED  BY <1>1, <2>1, <2>2, Zenon
<1>5. ASSUME NEW i \in 1 .. k - 1 PROVE rest[i] = p[i]
  <2>1. i \in 1 .. n - 1 /\ i <= k - 1
    OBVIOUS
  <2> QED  BY <1>1, <1>4, <2>1
<1>6. ASSUME NEW i \in k .. n - 1 PROVE rest[i] = p[i + 1]
  <2>1. i \in 1 .. n - 1 /\ ~ (i <= k - 1)
    OBVIOUS
  <2>2. i - (k - 1) \in 1 .. n - k /\ k + (i - (k - 1)) = i + 1
    OBVIOUS
  <2> QED  BY <1>2, <1>4, <2>1, <2>2
<1> QED  BY <1>4, <1>5, <1>6, Zenon DEF rest

\* A configuration with the same ids, or with more of them.
LEMMA LongerList ==
  ASSUME NEW c \in Config, NEW entry \in Entry, NEW active \in IdsOf(c) \cup {entry.id}
  PROVE  LET longer == [c EXCEPT !.profiles = Append(c.profiles, entry), !.active = active]
         IN  /\ longer \in Config /\ longer.active = active
             /\ IdsOf(longer) = IdsOf(c) \cup {entry.id}
<1> DEFINE list == Append(c.profiles, entry)
<1> DEFINE longer == [c EXCEPT !.profiles = Append(c.profiles, entry), !.active = active]
<1>1. c.profiles \in Seq(Entry) /\ Len(c.profiles) \in Nat
  BY IdsAre
<1>2. /\ list \in Seq(Entry) /\ Len(list) = Len(c.profiles) + 1
      /\ list[Len(c.profiles) + 1] = entry
      /\ \A k \in 1 .. Len(c.profiles) : list[k] = c.profiles[k]
  BY <1>1
<1> HIDE DEF list
<1>3. active \in Ids
  BY IdsAre DEF Entry
<1>4. longer \in Config /\ longer.profiles = list /\ longer.active = active
  BY <1>2, <1>3 DEF Config, list
<1> HIDE DEF longer
<1>5. IdsOf(longer) = {list[k].id : k \in 1 .. Len(list)}
  BY <1>2, <1>4, IdsFrom, Zenon
<1>6. IdsOf(c) = {c.profiles[k].id : k \in 1 .. Len(c.profiles)}
  BY IdsAre
<1>7. {list[k].id : k \in 1 .. Len(list)}
        = {c.profiles[k].id : k \in 1 .. Len(c.profiles)} \cup {entry.id}
  BY <1>1, <1>2
<1>8. /\ longer \in Config /\ longer.active = active
      /\ IdsOf(longer) = IdsOf(c) \cup {entry.id}
  BY <1>4, <1>5, <1>6, <1>7
<1> QED  BY <1>8, Zenon DEF longer

\* The configuration after a profile was deleted has all the others, and one of them is
\* the active one.
LEMMA ShorterList ==
  ASSUME config \in Config, config.active \in IdsOf(config),
         NEW k \in 1 .. Len(config.profiles), Len(config.profiles) > 1
  PROVE  /\ Deleted(k) \in Config /\ Deleted(k).active \in IdsOf(Deleted(k))
         /\ IdsOf(config) \subseteq IdsOf(Deleted(k)) \cup {config.profiles[k].id}
<1> DEFINE p == config.profiles   n == Len(p)   rest == Without(k)
<1>1. /\ p \in Seq(Entry) /\ n \in Nat /\ n > 1 /\ k \in 1 .. n
      /\ IdsOf(config) = {p[i].id : i \in 1 .. n}
      /\ \A i \in 1 .. n : p[i] \in Entry
  BY IdsAre
<1>2. /\ rest \in Seq(Entry) /\ Len(rest) = n - 1
      /\ \A i \in 1 .. k - 1 : rest[i] = p[i]
      /\ \A i \in k .. n - 1 : rest[i] = p[i + 1]
  <2>1. rest = SubSeq(p, 1, k - 1) \o SubSeq(p, k + 1, n)
    BY DEF Without
  <2>2. Len(p) = n
    OBVIOUS
  <2> HIDE DEF rest, p, n
  <2>3. LET cut == SubSeq(p, 1, k - 1) \o SubSeq(p, k + 1, n)
        IN  /\ cut \in Seq(Entry) /\ Len(cut) = n - 1
            /\ \A i \in 1 .. k - 1 : cut[i] = p[i]
            /\ \A i \in k .. n - 1 : cut[i] = p[i + 1]
    BY <1>1, <2>2, Cut, Zenon
  <2> QED  BY <2>1, <2>3, Zenon
<1> HIDE DEF rest
<1>3. {rest[i].id : i \in 1 .. n - 1} = {p[i].id : i \in (1 .. n) \ {k}}
  <2>1. ASSUME NEW i \in 1 .. n - 1
        PROVE  \E j \in (1 .. n) \ {k} : rest[i] = p[j]
    <3>1. CASE i < k
      BY <1>1, <1>2, <3>1
    <3>2. CASE ~ i < k
      <4>1. i + 1 \in (1 .. n) \ {k} /\ i \in k .. n - 1
        BY <1>1, <3>2
      <4> QED  BY <1>2, <4>1
    <3> QED  BY <3>1, <3>2
  <2>2. ASSUME NEW j \in (1 .. n) \ {k}
        PROVE  \E i \in 1 .. n - 1 : rest[i] = p[j]
    <3>1. CASE j < k
      BY <1>1, <1>2, <3>1
    <3>2. CASE ~ j < k
      <4>1. j - 1 \in 1 .. n - 1 /\ j - 1 \in k .. n - 1 /\ (j - 1) + 1 = j
        BY <1>1, <3>2
      <4> QED  BY <1>2, <4>1
    <3> QED  BY <3>1, <3>2
  <2>3. {rest[i].id : i \in 1 .. n - 1} \subseteq {p[i].id : i \in (1 .. n) \ {k}}
    BY <2>1, Zenon
  <2>4. {p[i].id : i \in (1 .. n) \ {k}} \subseteq {rest[i].id : i \in 1 .. n - 1}
    BY <2>2, Zenon
  <2> QED  BY <2>3, <2>4, Zenon
<1>4. rest[1] \in Entry /\ 1 \in 1 .. n - 1
  BY <1>1, <1>2
<1> DEFINE active == IF config.active = p[k].id THEN rest[1].id ELSE config.active
<1>5. active \in Ids /\ active \in {rest[i].id : i \in 1 .. n - 1}
  <2>1. CASE config.active = p[k].id
    BY <1>4, <2>1 DEF Entry
  <2>2. CASE config.active # p[k].id
    BY <1>1, <1>3, <2>2 DEF Entry
  <2> QED  BY <2>1, <2>2
<1> HIDE DEF active
<1>6. Deleted(k) = [config EXCEPT !.profiles = rest, !.active = active]
  BY DEF Deleted, rest, active
<1>7. Deleted(k) \in Config /\ Deleted(k).active = active /\ Deleted(k).profiles = rest
  BY <1>2, <1>5, <1>6 DEF Config
<1>8. IdsOf(Deleted(k)) = {rest[i].id : i \in 1 .. n - 1}
  BY <1>2, <1>7, IdsFrom, Zenon
<1> QED  BY <1>1, <1>3, <1>5, <1>7, <1>8

-----------------------------------------------------------------------------
(* The configuration and the file.                                         *)

\* A configuration whose active profile exists.
Usable(c) == c \in Config /\ c.active \in IdsOf(c)

\* The configuration and the file are usable, and what the file has and the configuration
\* has not was deleted, unless the file could not be read.
SettingsInv ==
  /\ Usable(config)
  /\ disk = None \/ Usable(disk)
  /\ unread \/ OnDisk \subseteq IdsOf(config) \cup deleted

\* What a step does to the settings: it may delete profiles and add others, and the file
\* is left alone or holds the new configuration afterwards.
Changes ==
  /\ Usable(config')
  /\ IdsOf(config) \subseteq IdsOf(config') \cup deleted'
  /\ deleted \subseteq deleted' /\ unread' = unread
  /\ disk' = disk \/ disk' = config'

\* No configuration is mistaken for a missing file.
LEMMA NoneIsNoConfig == \A c : Usable(c) => c # None /\ c \in Config
BY FilesAssumption DEF Usable

\* Such a step keeps the invariant, and what is in the file.
LEMMA ChangesKeep ==
  ASSUME SettingsInv, Changes
  PROVE  SettingsInv' /\ (OnDisk \subseteq OnDisk' \cup deleted' \/ unread)
<1>1. CASE disk' = disk
  <2>1. OnDisk' = OnDisk
    BY <1>1 DEF OnDisk
  <2>2. disk' = None \/ Usable(disk')
    BY <1>1 DEF SettingsInv
  <2> QED  BY <2>1, <2>2 DEF SettingsInv, Changes
<1>2. CASE disk' = config'
  <2>1. disk' # None /\ Usable(disk')
    BY <1>2, NoneIsNoConfig DEF Changes
  <2>2. OnDisk' = IdsOf(config')
    BY <1>2, <2>1 DEF OnDisk
  <2> QED  BY <2>1, <2>2 DEF SettingsInv, Changes
<1> QED  BY <1>1, <1>2 DEF Changes

\* A step that leaves the settings alone is one.
LEMMA Unchanged ==
  ASSUME SettingsInv, UNCHANGED settings
  PROVE  Changes
BY DEF SettingsInv, Changes, settings

\* What AssistantApp::new starts with when there is no file.
LEMMA DefaultIsUsable ==
  ASSUME NEW id \in Ids
  PROVE  Usable(Default(id))
<1> DEFINE list == <<[id |-> id, body |-> DefaultProfile]>>
<1>1. list \in Seq(Entry) /\ Len(list) = 1 /\ list[1].id = id
  BY SettingsAssumption DEF Entry
<1> HIDE DEF list
<1>2. Default(id) = [profiles |-> list, active |-> id, lock |-> FALSE,
                     source |-> "CopyLastGame"]
  BY DEF Default, list
<1>3. Default(id) \in Config /\ Default(id).profiles = list /\ Default(id).active = id
  BY <1>1, <1>2 DEF Config
<1>4. IdsOf(Default(id)) = {list[i].id : i \in 1 .. Len(list)}
  BY <1>1, <1>3, IdsFrom, Zenon
<1>5. id \in {list[i].id : i \in 1 .. Len(list)}
  BY <1>1
<1> QED  BY <1>3, <1>4, <1>5 DEF Usable

\* Another selection from the list.
LEMMA Selected ==
  ASSUME NEW c, Usable(c), NEW id \in IdsOf(c), NEW d, d = [c EXCEPT !.active = id]
  PROVE  Usable(d) /\ IdsOf(d) = IdsOf(c)
<1>1. c \in Config
  BY DEF Usable
<1>2. id \in Ids
  BY <1>1, IdsAre DEF Entry
<1>3. d \in Config /\ d.profiles = c.profiles /\ d.active = id
  BY <1>1, <1>2 DEF Config
<1>4. IdsOf(d) = IdsOf(c)
  BY <1>3, Zenon DEF IdsOf
<1> QED  BY <1>3, <1>4 DEF Usable

\* Another value of one of the settings that are not about profiles.
LEMMA Switched ==
  ASSUME NEW c, Usable(c), NEW d \in Config,
         d.profiles = c.profiles, d.active = c.active
  PROVE  Usable(d) /\ IdsOf(d) = IdsOf(c)
BY Zenon DEF Usable, IdsOf

\* Snapshots only select a profile of the list.
LEMMA AutoSelects ==
  ASSUME SettingsInv, NEW memory
  PROVE  AutoSelect(memory) \in IdsOf(config)
<1>1. Matching(memory) \subseteq IdsOf(config)
  BY DEF Matching, IdsOf
<1>2. CASE config.lock \/ \A id \in Matching(memory) : Matching(memory) # {id}
  BY <1>2 DEF AutoSelect, SettingsInv, Usable
<1>3. CASE ~ (config.lock \/ \A id \in Matching(memory) : Matching(memory) # {id})
  <2>1. \E id \in Matching(memory) : TRUE
    BY <1>3
  <2>2. (CHOOSE id \in Matching(memory) : TRUE) \in Matching(memory)
    BY <2>1
  <2>3. AutoSelect(memory) = CHOOSE id \in Matching(memory) : TRUE
    BY <1>3 DEF AutoSelect
  <2> QED  BY <1>1, <2>2, <2>3
<1> QED  BY <1>2, <1>3

-----------------------------------------------------------------------------
(* The steps.                                                              *)

\* Another profile is selected by the user, or by a snapshot.
LEMMA SelectChanges ==
  ASSUME SettingsInv, (\E id \in Ids : Select(id)) \/ TakeSnapshot
  PROVE  Changes
<1>1. ASSUME NEW id \in Ids, Select(id) PROVE Changes
  <2>1. id \in IdsOf(config) /\ config' = [config EXCEPT !.active = id]
    BY <1>1 DEF Select, Change
  <2>2. disk' = disk /\ deleted' = deleted /\ unread' = unread
    BY <1>1 DEF Select, Keep
  <2>3. Usable(config') /\ IdsOf(config') = IdsOf(config)
    BY <2>1, Selected DEF SettingsInv
  <2> QED  BY <2>2, <2>3 DEF Changes
<1>2. CASE TakeSnapshot
  <2>1. config' = [config EXCEPT !.active = AutoSelect(game.memory)]
    BY <1>2 DEF TakeSnapshot
  <2>2. disk' = disk /\ deleted' = deleted /\ unread' = unread
    BY <1>2 DEF TakeSnapshot
  <2>3. AutoSelect(game.memory) \in IdsOf(config)
    BY AutoSelects
  <2>4. Usable(config') /\ IdsOf(config') = IdsOf(config)
    BY <2>1, <2>3, Selected DEF SettingsInv
  <2> QED  BY <2>2, <2>4 DEF Changes
<1> QED  BY <1>1, <1>2

\* "+" adds one and selects it.
LEMMA AddChanges ==
  ASSUME SettingsInv, NEW id \in Ids, Add(id)
  PROVE  Changes
<1>1. PICK body \in (IF ActiveProfile = {} THEN {DefaultProfile} ELSE ActiveProfile) :
        config' = [config EXCEPT !.profiles = Append(@, [id |-> id, body |-> body]),
                                 !.active = id]
  BY DEF Add, Change
<1>2. disk' = disk /\ deleted' = deleted /\ unread' = unread
  BY DEF Add, Keep
<1>3. config \in Config
  BY DEF SettingsInv, Usable
<1>4. body \in Profile
  <2>1. DefaultProfile \in Profile
    BY SettingsAssumption
  <2>2. ActiveProfile \subseteq Profile
    BY <1>3, IdsAre DEF ActiveProfile, Entry
  <2> QED  BY <2>1, <2>2
<1> DEFINE entry == [id |-> id, body |-> body]
<1>5. entry \in Entry /\ entry.id = id
  BY <1>4 DEF Entry
<1>6. config' = [config EXCEPT !.profiles = Append(config.profiles, entry), !.active = id]
  BY <1>1
<1> HIDE DEF entry
<1>7. config' \in Config /\ config'.active = id /\ IdsOf(config') = IdsOf(config) \cup {id}
  <2>1. id \in IdsOf(config) \cup {entry.id}
    BY <1>5
  <2>2. /\ config' \in Config /\ config'.active = id
        /\ IdsOf(config') = IdsOf(config) \cup {entry.id}
    <3> DEFINE longer == [config EXCEPT !.profiles = Append(config.profiles, entry),
                                        !.active = id]
    <3>1. /\ longer \in Config /\ longer.active = id
          /\ IdsOf(longer) = IdsOf(config) \cup {entry.id}
      BY <1>3, <1>5, <2>1, LongerList, Zenon
    <3>2. config' = longer
      BY <1>6
    <3> HIDE DEF longer
    <3> QED  BY <3>1, <3>2, Zenon
  <2> QED  BY <1>5, <2>2, Zenon
<1> QED  BY <1>2, <1>7 DEF Changes, Usable

\* The trash button deletes one, and selects another if need be.
LEMMA DeleteChanges ==
  ASSUME SettingsInv, NEW k \in DOMAIN config.profiles, Delete(k)
  PROVE  Changes
<1>1. /\ Len(config.profiles) > 1 /\ config' = Deleted(k)
      /\ disk' \in {disk, Deleted(k)} /\ unread' = unread
      /\ deleted' = deleted \cup {config.profiles[k].id}
  BY DEF Delete, Change, Saves, Keep
<1>2. config \in Config /\ config.active \in IdsOf(config) /\ k \in 1 .. Len(config.profiles)
  BY IdsAre DEF SettingsInv, Usable
<1>3. /\ Deleted(k) \in Config /\ Deleted(k).active \in IdsOf(Deleted(k))
      /\ IdsOf(config) \subseteq IdsOf(Deleted(k)) \cup {config.profiles[k].id}
  BY <1>1, <1>2, ShorterList
<1> QED  BY <1>1, <1>3 DEF Changes, Usable

\* The fields of a profile are none of its identity.
LEMMA EditChanges ==
  ASSUME SettingsInv, NEW body \in Bodies, Edit(body)
  PROVE  Changes
<1>1. PICK k \in DOMAIN config.profiles :
        config' = [config EXCEPT !.profiles[k].body = body]
  BY DEF Edit, Change
<1>2. disk' = disk /\ deleted' = deleted /\ unread' = unread
  BY DEF Edit, Keep
<1>3. config \in Config /\ config.profiles \in Seq(Entry) /\ body \in Profile
  BY IdsAre, SettingsAssumption DEF SettingsInv, Usable
<1> DEFINE list == [config.profiles EXCEPT ![k].body = body]
<1>4. list \in Seq(Entry) /\ Len(list) = Len(config.profiles)
  <2> DEFINE entry == [config.profiles[k] EXCEPT !.body = body]
  <2>1. k \in 1 .. Len(config.profiles) /\ config.profiles[k] \in Entry
    BY <1>1, <1>3
  <2>2. entry \in Entry
    BY <1>3, <2>1 DEF Entry
  <2>3. list = [config.profiles EXCEPT ![k] = entry]
    OBVIOUS
  <2> HIDE DEF list, entry
  <2>4. /\ [config.profiles EXCEPT ![k] = entry] \in Seq(Entry)
        /\ Len([config.profiles EXCEPT ![k] = entry]) = Len(config.profiles)
    BY <1>3, <2>1, <2>2, ExceptSeq, Zenon
  <2> QED  BY <2>3, <2>4, Zenon
<1>5. \A i \in 1 .. Len(config.profiles) : list[i].id = config.profiles[i].id
  BY <1>1, <1>3 DEF Entry
<1>6. config' = [config EXCEPT !.profiles = list]
  BY <1>1
<1> HIDE DEF list
<1>7. config' \in Config /\ config'.profiles = list /\ config'.active = config.active
  BY <1>3, <1>4, <1>6 DEF Config
<1>8. IdsOf(config') = IdsOf(config)
  <2>1. IdsOf(config') = {list[i].id : i \in 1 .. Len(list)}
    BY <1>4, <1>7, IdsFrom, Zenon
  <2>2. IdsOf(config) = {config.profiles[i].id : i \in 1 .. Len(config.profiles)}
    BY <1>3, IdsAre, Zenon
  <2> QED  BY <1>4, <1>5, <2>1, <2>2, Zenon
<1> QED  BY <1>2, <1>7, <1>8 DEF Changes, Usable, SettingsInv

\* The switches, and the two ways to save without a change of the list.
LEMMA SwitchChanges ==
  ASSUME SettingsInv, ToggleLock \/ ToggleSource \/ SaveChanges
  PROVE  Changes
<1>1. config \in Config /\ Usable(config)
  BY DEF SettingsInv, Usable
<1>2. CASE ToggleLock
  <2>1. config' = [config EXCEPT !.lock = ~ @]
    BY <1>2 DEF ToggleLock, Change
  <2>2. disk' = disk /\ deleted' = deleted /\ unread' = unread
    BY <1>2 DEF ToggleLock, Keep
  <2>3. config' \in Config /\ config'.profiles = config.profiles /\ config'.active = config.active
    BY <1>1, <2>1 DEF Config
  <2>4. Usable(config') /\ IdsOf(config') = IdsOf(config)
    BY <1>1, <2>3, Switched
  <2> QED  BY <2>2, <2>4 DEF Changes
<1>3. CASE ToggleSource
  <2> DEFINE toggled == [config EXCEPT !.source = IF @ = "UseProfile" THEN "CopyLastGame"
                                                                      ELSE "UseProfile"]
  <2>1. config' = toggled /\ disk' \in {disk, toggled}
    BY <1>3 DEF ToggleSource, Change, Saves
  <2>2. deleted' = deleted /\ unread' = unread
    BY <1>3 DEF ToggleSource, Keep
  <2>3. config' \in Config /\ config'.profiles = config.profiles /\ config'.active = config.active
    BY <1>1, <2>1 DEF Config
  <2>4. Usable(config') /\ IdsOf(config') = IdsOf(config)
    BY <1>1, <2>3, Switched
  <2> HIDE DEF toggled
  <2> QED  BY <2>1, <2>2, <2>4 DEF Changes
<1>4. CASE SaveChanges
  <2>1. disk' \in {disk, config} /\ config' = config /\ deleted' = deleted /\ unread' = unread
    BY <1>4 DEF SaveChanges, Saves, Keep
  <2> QED  BY <1>1, <2>1 DEF Changes
<1> QED  BY <1>2, <1>3, <1>4

\* Each step of the user and of a snapshot changes the settings, no other does.
LEMMA NextChanges ==
  ASSUME SettingsInv, User \/ TakeSnapshot \/ RestartThread \/ Game
  PROVE  Changes
<1>1. CASE User
  <2>1. CASE \E lines \in {{}, {game.line}} : Press(lines)
    <3>1. UNCHANGED settings
      BY <2>1 DEF Press
    <3> QED  BY <3>1, Unchanged
  <2> QED  BY <1>1, <2>1, SelectChanges, AddChanges, DeleteChanges, EditChanges,
              SwitchChanges DEF User
<1>2. CASE TakeSnapshot
  BY <1>2, SelectChanges
<1>3. CASE RestartThread
  <2>1. UNCHANGED settings
    BY <1>3 DEF RestartThread, Relaunch, SetupReached, WriteSlot, WriteUnique, ActivateOk,
                RestartSucceeds, RestartFails
  <2> QED  BY <2>1, Unchanged
<1>4. CASE Game
  <2>1. UNCHANGED settings
    BY <1>4 DEF Game, UserStarts, SetupShown, Enter, Eliminate, GameEnds
  <2> QED  BY <2>1, Unchanged
<1> QED  BY <1>1, <1>2, <1>3, <1>4

\* A new session starts with what the file holds, or with a profile of its own.
LEMMA StartKeeps ==
  ASSUME SettingsInv, Start
  PROVE  SettingsInv' /\ (OnDisk \subseteq OnDisk' \cup deleted' \/ unread)
<1>1. disk' = disk /\ OnDisk' = OnDisk
  BY DEF Start, OnDisk
<1>2. CASE disk # None /\ config' = disk /\ unread' = FALSE
  <2>1. Usable(config') /\ OnDisk' = IdsOf(config')
    BY <1>1, <1>2 DEF SettingsInv, OnDisk
  <2> QED  BY <1>1, <1>2, <2>1 DEF SettingsInv
<1>3. CASE disk = None /\ \E id \in Ids : config' = Default(id)
  <2>1. Usable(config') /\ OnDisk' = {}
    BY <1>1, <1>3, DefaultIsUsable DEF OnDisk
  <2> QED  BY <1>1, <1>3, <2>1 DEF SettingsInv
<1>4. CASE unread' = TRUE /\ \E id \in Ids : config' = Default(id)
  <2>1. Usable(config')
    BY <1>4, DefaultIsUsable
  <2> QED  BY <1>1, <1>4, <2>1 DEF SettingsInv
<1> QED  BY <1>2, <1>3, <1>4 DEF Start

\* The invariant holds initially, and every step keeps it and what is in the file.
LEMMA SettingsInvInit == Init => SettingsInv
<1> SUFFICES ASSUME Init PROVE SettingsInv
  OBVIOUS
<1>1. unread = FALSE /\ deleted = {} /\ disk \in Files \cup {None}
  BY DEF Init
<1>2. CASE disk = None
  <2>1. PICK id \in Ids : config = Default(id)
    BY <1>2 DEF Init
  <2> QED  BY <1>2, <2>1, DefaultIsUsable DEF SettingsInv, OnDisk
<1>3. CASE disk # None
  <2>1. config = disk /\ Usable(disk)
    BY <1>1, <1>3, FilesAssumption DEF Init, Usable
  <2> QED  BY <1>3, <2>1 DEF SettingsInv, OnDisk
<1> QED  BY <1>2, <1>3

\* The same for every step.
LEMMA SettingsInvNext ==
  ASSUME SettingsInv, [Next]_vars
  PROVE  SettingsInv' /\ (OnDisk \subseteq OnDisk' \cup deleted' \/ unread)
<1>1. CASE Start
  BY <1>1, StartKeeps
<1>2. CASE User \/ TakeSnapshot \/ RestartThread \/ Game
  BY <1>2, NextChanges, ChangesKeep
<1>3. CASE UNCHANGED vars
  <2>1. UNCHANGED settings
    BY <1>3 DEF vars
  <2> QED  BY <2>1, Unchanged, ChangesKeep
<1> QED  BY <1>1, <1>2, <1>3 DEF Next

-----------------------------------------------------------------------------
\* There is always an active profile, whatever the user deletes and selects, whatever a
\* snapshot selects, and whichever file a crash has left to the next session.
THEOREM ActiveProfileExists == Spec => []ActiveExists
<1>1. SettingsInv /\ [Next]_vars => SettingsInv'
  BY SettingsInvNext
<1>2. SettingsInv => ActiveExists
  BY DEF SettingsInv, Usable, ActiveExists
<1> QED  BY SettingsInvInit, <1>1, <1>2, PTL DEF Spec

\* A profile leaves the file only when the user deletes it, or when it is overwritten by a
\* session that could not read it.
THEOREM ProfilesAreKept == Spec => ProfilesSurvive
<1>1. SettingsInv /\ [Next]_vars => SettingsInv'
  BY SettingsInvNext
<1>2. SettingsInv /\ [Next]_vars => [OnDisk \subseteq OnDisk' \cup deleted' \/ unread]_vars
  BY SettingsInvNext
<1> QED  BY SettingsInvInit, <1>1, <1>2, PTL DEF Spec, ProfilesSurvive

-----------------------------------------------------------------------------
(* Types.  TypeOK says nothing of the fields a game or a restart has, which *)
(* its steps need to keep them: MachineInv does.                           *)

LiveGame == [stage : GameStage \ {"none"}, line : CommandLine, memory : Memory,
             made : SUBSET Profile]
LiveRestart == [stage : RestartStage \ {"idle"}, plan : RestartPlan, slot : 0 .. MaxSlots,
                wanted : SUBSET Profile, copied : SUBSET Memory, running : SUBSET Memory]

MachineInv ==
  /\ game \in LiveGame \cup {NoGame}
  /\ restart \in LiveRestart \cup {Idle}
  /\ snapshot \in SUBSET Memory

\* A game or a restart that is not over has all its fields.
LEMMA Fields ==
  ASSUME MachineInv
  PROVE  /\ game.stage # "none" => game \in LiveGame
         /\ game.stage = "none" => game = NoGame
         /\ restart.stage # "idle" => restart \in LiveRestart
         /\ restart.stage = "idle" => restart = Idle
BY DEF MachineInv, LiveGame, LiveRestart, NoGame, Idle

\* The counters of the bounds, and the set of deleted profiles.
CountersInv ==
  /\ unread \in BOOLEAN /\ deleted \in SUBSET Ids
  /\ edits \in 0 .. MaxEdits /\ failures \in 0 .. MaxFailures /\ games \in 0 .. MaxGames

\* The memory of a game whose world is created has the types of the memory before: only
\* slots without a class get one.
LEMMA WorldIs ==
  ASSUME NEW class \in Rolled, game \in LiveGame, CreateWorld(class)
  PROVE  /\ game' \in LiveGame /\ game'.stage = "playing" /\ game'.made = game.made
         /\ game'.line = game.line
         /\ game'.memory.controllers = game.memory.controllers
         /\ game'.memory.difficulties = game.memory.difficulties
         /\ game'.memory.society = game.memory.society
         /\ game'.memory.wilder = game.memory.wilder
         /\ \A s \in Slots : game.memory.classes[s] \in Classes
              => game'.memory.classes[s] = game.memory.classes[s]
<1> DEFINE classes == [s \in Slots |->
                         IF /\ game.memory.controllers[s] \in {Human, AI}
                            /\ game.memory.classes[s] \in {RandomClass, NoClass}
                           THEN class ELSE game.memory.classes[s]]
<1>1. game.memory \in Memory
  BY DEF LiveGame
<1>2. game' = [game EXCEPT !.stage = "playing", !.memory.classes = classes]
  BY DEF CreateWorld
<1>3. class \in Classes
  BY SettingsAssumption
<1>4. classes \in [Slots -> Classes \cup {RandomClass, NoClass}]
  BY <1>1, <1>3 DEF Memory
<1>5. \A s \in Slots : game.memory.classes[s] \in Classes => classes[s] = game.memory.classes[s]
  BY SlotFacts
<1> HIDE DEF classes
<1> DEFINE memory == [game.memory EXCEPT !.classes = classes]
<1>6. /\ memory \in Memory /\ memory.classes = classes
      /\ memory.controllers = game.memory.controllers
      /\ memory.difficulties = game.memory.difficulties
      /\ memory.society = game.memory.society /\ memory.wilder = game.memory.wilder
  BY <1>1, <1>4 DEF Memory
<1>7. game' = [game EXCEPT !.stage = "playing", !.memory = memory]
  BY <1>2 DEF LiveGame
<1> HIDE DEF memory
<1>8. /\ game' \in LiveGame /\ game'.stage = "playing" /\ game'.made = game.made
      /\ game'.line = game.line /\ game'.memory = memory
  BY <1>6, <1>7 DEF LiveGame, GameStage
<1> QED  BY <1>5, <1>6, <1>8

\* A set-up screen comes up with the map settings of the command line.
LEMMA FreshIs ==
  ASSUME NEW line \in CommandLine
  PROVE  /\ FreshSetup(line) \in Memory
         /\ FreshSetup(line).society = line.society /\ FreshSetup(line).wilder = line.wilder
BY SettingsAssumption DEF FreshSetup, Memory, CommandLine

\* The active profile is a profile.
LEMMA ActiveType ==
  ASSUME config \in Config
  PROVE  ActiveProfile \subseteq Profile
BY IdsAre DEF ActiveProfile, Entry

\* The types of the steps of a restart.
LEMMA RestartTypes ==
  ASSUME MachineInv, config \in Config,
         (game.stage # "none" /\ \E lines \in {{}, {game.line}} : Press(lines)) \/ RestartThread
  PROVE  MachineInv'
<1>1. ASSUME NEW lines \in {{}, {game.line}}, game.stage # "none", Press(lines)
      PROVE  MachineInv'
  <2>1. PICK profile \in ActiveProfile :
          LET plan == IF config.source = "CopyLastGame"
                        THEN Capture(lines, snapshot, profile) ELSE FromProfile(profile)
          IN  restart' = [stage |-> "launch", plan |-> plan, slot |-> 0,
                          wanted |-> IF plan.mapFromLive \/ plan.rosterFromLive
                                       THEN {} ELSE {profile},
                          copied |-> IF plan.rosterFromLive THEN snapshot ELSE {},
                          running |-> IF plan.rosterFromLive THEN {game.memory} ELSE {}]
    BY <1>1 DEF Press
  <2>2. profile \in Profile /\ lines \in SUBSET CommandLine
    BY <1>1, ActiveType, Fields DEF LiveGame
  <2>3. Capture(lines, snapshot, profile) \in RestartPlan /\ FromProfile(profile) \in RestartPlan
    BY <2>2, CaptureIs, ProfilePlan DEF MachineInv
  <2> DEFINE plan == IF config.source = "CopyLastGame"
                       THEN Capture(lines, snapshot, profile) ELSE FromProfile(profile)
  <2>4. plan \in RestartPlan /\ snapshot \in SUBSET Memory
    BY <2>3 DEF MachineInv
  <2> HIDE DEF plan
  <2>5. restart' = [stage |-> "launch", plan |-> plan, slot |-> 0,
                    wanted |-> IF plan.mapFromLive \/ plan.rosterFromLive
                                 THEN {} ELSE {profile},
                    copied |-> IF plan.rosterFromLive THEN snapshot ELSE {},
                    running |-> IF plan.rosterFromLive THEN {game.memory} ELSE {}]
    BY <2>1 DEF plan
  <2>6. game.memory \in Memory
    BY <1>1, Fields DEF LiveGame
  <2>7. restart' \in LiveRestart
    BY <2>2, <2>4, <2>5, <2>6, SlotFacts DEF LiveRestart, RestartStage
  <2> QED  BY <1>1, <2>7 DEF MachineInv, Press, playing
<1>2. CASE Relaunch
  <2>1. restart \in LiveRestart
    BY <1>2, Fields DEF Relaunch
  <2>2. restart.plan.arguments \in CommandLine
    BY <2>1 DEF LiveRestart, RestartPlan
  <2>3. FreshSetup(restart.plan.arguments) \in Memory
    BY <2>2, FreshIs
  <2>4. game' \in LiveGame
    BY <1>2, <2>2, <2>3 DEF Relaunch, LiveGame, GameStage
  <2>5. restart' \in LiveRestart
    BY <1>2, <2>1 DEF Relaunch, LiveRestart, RestartStage
  <2> QED  BY <1>2, <2>4, <2>5 DEF MachineInv, Relaunch
<1>3. CASE SetupReached
  <2>1. restart \in LiveRestart
    BY <1>3, Fields DEF SetupReached
  <2>2. restart' \in LiveRestart
    BY <1>3, <2>1 DEF SetupReached, LiveRestart, RestartStage
  <2> QED  BY <1>3, <2>2 DEF MachineInv, SetupReached, playing
<1>4. CASE WriteSlot
  <2>1. restart \in LiveRestart /\ game \in LiveGame
    BY <1>4, Fields DEF WriteSlot
  <2>2. restart.slot \in Slots /\ restart.slot + 1 \in 0 .. MaxSlots
    BY <1>4, <2>1, SlotFacts DEF WriteSlot, LiveRestart, Slots
  <2>3. Written(restart.plan, game.memory, restart.slot) \in Memory
    <3>1. restart.plan \in RestartPlan /\ game.memory \in Memory
      BY <2>1 DEF LiveRestart, LiveGame
    <3> QED  BY <2>2, <3>1, WrittenIs
  <2>4. game' \in LiveGame
    BY <1>4, <2>1, <2>3 DEF WriteSlot, LiveGame
  <2>5. restart' \in LiveRestart
    BY <1>4, <2>1, <2>2 DEF WriteSlot, LiveRestart
  <2> QED  BY <1>4, <2>4, <2>5 DEF MachineInv, WriteSlot
<1>5. CASE WriteUnique
  <2>1. restart \in LiveRestart /\ game \in LiveGame
    BY <1>5, Fields DEF WriteUnique
  <2>2. restart.plan.unique \in BOOLEAN /\ restart.wanted \in SUBSET Profile
    BY <2>1 DEF LiveRestart, RestartPlan
  <2>3. [game.memory EXCEPT !.unique = restart.plan.unique] \in Memory
    BY <2>1, <2>2 DEF LiveGame, Memory
  <2>4. game' = [game EXCEPT !.memory = [game.memory EXCEPT !.unique = restart.plan.unique],
                             !.made = restart.wanted]
    BY <1>5, <2>1 DEF WriteUnique, LiveGame
  <2>5. game' \in LiveGame
    BY <2>1, <2>2, <2>3, <2>4 DEF LiveGame
  <2>6. restart' \in LiveRestart
    BY <1>5, <2>1 DEF WriteUnique, LiveRestart, RestartStage
  <2> QED  BY <1>5, <2>5, <2>6 DEF MachineInv, WriteUnique
<1>6. CASE ActivateOk
  <2>1. restart \in LiveRestart /\ game \in LiveGame
    BY <1>6, Fields DEF ActivateOk
  <2>2. restart' \in LiveRestart
    BY <1>6, <2>1 DEF ActivateOk, LiveRestart, RestartStage
  <2>3. game' \in LiveGame
    BY <1>6, <2>1, WorldIs DEF ActivateOk
  <2> QED  BY <1>6, <2>2, <2>3 DEF MachineInv, ActivateOk
<1>7. CASE RestartSucceeds
  BY <1>7 DEF RestartSucceeds, MachineInv, playing
<1>8. CASE RestartFails
  BY <1>8 DEF RestartFails, MachineInv, playing
<1> QED  BY <1>1, <1>2, <1>3, <1>4, <1>5, <1>6, <1>7, <1>8 DEF RestartThread

\* The types of the steps of the game and its user.
LEMMA GameTypes ==
  ASSUME MachineInv, Game
  PROVE  MachineInv'
<1>1. ASSUME NEW g \in UserGames, UserStarts(g) PROVE MachineInv'
  <2>1. g.line \in CommandLine /\ g.memory \in Memory
    BY SettingsAssumption
  <2>2. game' \in LiveGame
    BY <1>1, <2>1 DEF UserStarts, LiveGame, GameStage
  <2> QED  BY <1>1, <2>2 DEF UserStarts, MachineInv
<1>2. CASE SetupShown
  <2>1. game \in LiveGame
    BY <1>2, Fields DEF SetupShown
  <2>2. FreshSetup(game.line) \in Memory
    BY <2>1, FreshIs DEF LiveGame
  <2>3. game' \in LiveGame
    BY <1>2, <2>1, <2>2 DEF SetupShown, LiveGame, GameStage
  <2> QED  BY <1>2, <2>3 DEF SetupShown, MachineInv
<1>3. CASE GameEnds
  BY <1>3 DEF GameEnds, MachineInv
<1>4. ASSUME NEW class \in Rolled, Enter(class) PROVE MachineInv'
  <2>1. game \in LiveGame
    BY <1>4, Fields DEF Enter
  <2>2. game' \in LiveGame
    BY <1>4, <2>1, WorldIs DEF Enter
  <2> QED  BY <1>4, <2>2 DEF Enter, MachineInv
<1>5. ASSUME NEW s \in Slots, Eliminate(s) PROVE MachineInv'
  <2>1. game \in LiveGame
    BY <1>5, Fields DEF Eliminate
  <2>2. [game.memory.controllers EXCEPT ![s] = Eliminated]
          \in [Slots -> {Human, AI, Unused, Eliminated}]
    BY <2>1 DEF LiveGame, Memory
  <2>3. game' = [game EXCEPT !.memory = [game.memory EXCEPT !.controllers =
                   [game.memory.controllers EXCEPT ![s] = Eliminated]]]
    BY <1>5, <2>1 DEF Eliminate, LiveGame, Memory
  <2>4. game' \in LiveGame
    BY <2>1, <2>2, <2>3 DEF LiveGame, Memory
  <2> QED  BY <1>5, <2>4 DEF Eliminate, MachineInv
<1> QED  BY <1>1, <1>2, <1>3, <1>4, <1>5 DEF Game

\* Every step keeps the fields of the game and of the restart.
LEMMA MachineNext ==
  ASSUME MachineInv, SettingsInv, [Next]_vars
  PROVE  MachineInv'
<1>c. config \in Config
  BY DEF SettingsInv, Usable
<1>1. CASE Start
  BY <1>1 DEF Start, MachineInv
<1>2. CASE TakeSnapshot
  <2>1. game.memory \in Memory
    BY <1>2, Fields DEF TakeSnapshot, LiveGame
  <2> QED  BY <1>2, <2>1 DEF TakeSnapshot, MachineInv
<1>3. CASE User
  <2>1. CASE UNCHANGED <<playing, restart>>
    BY <2>1 DEF MachineInv, playing
  <2> QED  BY <1>3, <1>c, <2>1, RestartTypes
           DEF User, Select, Add, Delete, Edit, ToggleLock, ToggleSource, SaveChanges, Keep
<1>4. CASE RestartThread
  BY <1>4, <1>c, RestartTypes
<1>5. CASE Game
  BY <1>5, GameTypes
<1>6. CASE UNCHANGED vars
  BY <1>6 DEF vars, playing, MachineInv
<1> QED  BY <1>1, <1>2, <1>3, <1>4, <1>5, <1>6 DEF Next

\* Every step keeps the counters within their bounds.
LEMMA CountersNext ==
  ASSUME CountersInv, SettingsInv, [Next]_vars
  PROVE  CountersInv'
<1>0. /\ MaxEdits \in Nat /\ MaxFailures \in Nat /\ MaxGames \in Nat
      /\ edits \in Nat /\ failures \in Nat /\ games \in Nat
  BY SettingsAssumption DEF CountersInv
<1>c. config \in Config
  BY DEF SettingsInv, Usable
<1>1. CASE UNCHANGED settings /\ (UNCHANGED games \/ (games < MaxGames /\ games' = games + 1))
  BY <1>0, <1>1 DEF settings, CountersInv
<1>2. CASE /\ UNCHANGED <<unread, failures, playing>>
           /\ UNCHANGED edits \/ (edits < MaxEdits /\ edits' = edits + 1)
           /\ deleted' \in SUBSET Ids
  BY <1>0, <1>2 DEF playing, CountersInv
<1>3. CASE Start
  <2>1. unread' \in BOOLEAN /\ deleted' \in SUBSET Ids /\ UNCHANGED games
    BY <1>3 DEF Start
  <2>2. edits' \in 0 .. MaxEdits /\ failures' \in 0 .. MaxFailures
    BY <1>0, <1>3 DEF Start, CountersInv
  <2> QED  BY <2>1, <2>2 DEF CountersInv
<1>4. CASE TakeSnapshot
  BY <1>4 DEF TakeSnapshot, CountersInv
<1>5. CASE User
  <2>1. ASSUME NEW k \in DOMAIN config.profiles, Delete(k) PROVE CountersInv'
    <3>1. config.profiles[k].id \in Ids
      BY <1>c, IdsAre DEF Entry
    <3> QED  BY <1>2, <2>1, <3>1 DEF Delete, Change, Keep, CountersInv
  <2>2. ASSUME NEW lines, Press(lines) PROVE CountersInv'
    BY <1>1, <2>2 DEF Press, playing
  <2>3. deleted \in SUBSET Ids
    BY DEF CountersInv
  <2> QED  BY <1>2, <1>5, <2>1, <2>2, <2>3
           DEF User, Select, Add, Edit, ToggleLock, ToggleSource, SaveChanges, Change, Keep
<1>6. CASE RestartThread
  BY <1>1, <1>6 DEF RestartThread, Relaunch, SetupReached, WriteSlot, WriteUnique, ActivateOk,
     RestartSucceeds, RestartFails, playing
<1>7. CASE Game
  BY <1>1, <1>7 DEF Game, UserStarts, SetupShown, Enter, Eliminate, GameEnds
<1>8. CASE UNCHANGED vars
  BY <1>1, <1>8 DEF vars, playing
<1> QED  BY <1>3, <1>4, <1>5, <1>6, <1>7, <1>8 DEF Next

\* The games, restarts and snapshots of a behaviour keep their fields.
LEMMA MachineIsTyped == Spec => [](SettingsInv /\ MachineInv)
<1>1. Init => MachineInv
  BY DEF Init, MachineInv
<1>2. SettingsInv /\ MachineInv /\ [Next]_vars => SettingsInv' /\ MachineInv'
  BY SettingsInvNext, MachineNext
<1> QED  BY SettingsInvInit, <1>1, <1>2, PTL DEF Spec

\* Every variable keeps to its type: the settings and their file, what the restart plans
\* and writes, and the memory of the game it writes to.
THEOREM TypeCorrect == Spec => []TypeOK
<1>1. Init => CountersInv
  <2>1. 0 \in 0 .. MaxEdits /\ 0 \in 0 .. MaxFailures /\ 0 \in 0 .. MaxGames
    BY SettingsAssumption
  <2> QED  BY <2>1 DEF Init, CountersInv
<1>2. CountersInv /\ SettingsInv /\ [Next]_vars => CountersInv'
  BY CountersNext
<1>3. CountersInv /\ SettingsInv /\ MachineInv => TypeOK
  <2> SUFFICES ASSUME CountersInv, SettingsInv, MachineInv PROVE TypeOK
    OBVIOUS
  <2>1. config \in Config /\ disk \in Config \cup {None}
    BY DEF SettingsInv, Usable
  <2>2. /\ game.stage \in GameStage
        /\ game.stage # "none" => /\ game.line \in CommandLine /\ game.memory \in Memory
                                  /\ game.made \subseteq Profile
    BY DEF MachineInv, LiveGame, NoGame, GameStage
  <2>3. /\ restart.stage \in RestartStage
        /\ restart.stage # "idle" => /\ restart.plan \in RestartPlan
                                     /\ restart.slot \in 0 .. MaxSlots
                                     /\ restart.wanted \subseteq Profile
                                     /\ restart.copied \subseteq Memory
                                     /\ restart.running \subseteq Memory
    BY DEF MachineInv, LiveRestart, Idle, RestartStage
  <2>4. snapshot \subseteq Memory
    BY DEF MachineInv
  <2> QED  BY <2>1, <2>2, <2>3, <2>4 DEF CountersInv, TypeOK
<1> QED  BY <1>1, <1>2, <1>3, MachineIsTyped, PTL DEF Spec

-----------------------------------------------------------------------------
(* What a restart writes.  As long as the set-up screen is shown, the slots *)
(* it has written are as its plan says; the user may confirm the screen    *)
(* when the last has been written and before the restart does, or the      *)
(* game may go on after that, so that what is said of a game made from a   *)
(* profile has to allow for rolled classes and eliminated participants.    *)

\* The first n slots of a table are those of the plan.
AsPlanned(memory, plan, n) ==
  \A s \in Slots : s < n =>
    /\ memory.controllers[s] = IF s < plan.count THEN plan.controllers[s] ELSE Unused
    /\ memory.classes[s] = IF s < plan.count THEN plan.classes[s] ELSE NoClass
    /\ s < plan.count => /\ memory.teams[s] = plan.teams[s]
                         /\ memory.difficulties[s] = plan.difficulties[s]

\* The first n slots of a table are those a profile describes, except that participants
\* may have been eliminated.
FromIt(profile, memory, n) ==
  /\ \A s \in Slots : s < n =>
       IF s < profile.count
         THEN /\ memory.controllers[s] \in {IF s = 0 THEN Human ELSE AI, Eliminated}
              /\ memory.difficulties[s] = profile.difficulty
         ELSE memory.controllers[s] = Unused
  /\ n > 0 /\ profile.class # RandomClass => memory.classes[0] = profile.class

\* The settings of the map of a table, or of a command line, are those of a profile.
OnItsMap(profile, memory) ==
  memory.society = profile.society /\ memory.wilder = profile.wilder

\* There is one snapshot at most.
OneSnapshot == \A m, n \in snapshot : m = n

\* What the sets wanted and copied say of the plan, and how far a restart is by its stage.
PlanInv ==
  restart.stage # "idle" =>
    /\ \A profile \in restart.wanted : restart.plan = FromProfile(profile)
    /\ \A original \in restart.copied :
         \E plan \in RestartPlan : restart.plan = WithRoster(plan, original)
    /\ restart.stage \in {"launch", "ready"} => restart.slot = 0
    /\ restart.stage \in {"ok", "world"} => restart.slot = MaxSlots

\* The game a restart writes to, or has made.  Of a game that was written to before its
\* set-up screen was there, or after it was left, nothing is said: wanted and copied are
\* empty from then on.
WriteInv ==
  game.stage # "none" =>
    /\ restart.stage \in {"writing", "ok", "world"} /\ restart.slot > 0
       /\ game.stage = "loading" => restart.wanted = {} /\ restart.copied = {}
    /\ restart.stage \in {"writing", "ok", "world"} /\ game.stage = "setup"
       /\ restart.copied # {} => AsPlanned(game.memory, restart.plan, restart.slot)
    /\ restart.stage \in {"ready", "writing"}
         => /\ game.made = {}
            /\ \A profile \in restart.wanted : /\ OnItsMap(profile, game.line)
                                               /\ OnItsMap(profile, game.memory)
                                               /\ FromIt(profile, game.memory, restart.slot)
    /\ \A profile \in game.made : /\ OnItsMap(profile, game.memory)
                                  /\ FromIt(profile, game.memory, MaxSlots)

RestartInv == OneSnapshot /\ PlanInv /\ WriteInv

\* Before the first slot is written, any table is as planned.
LEMMA NothingYet ==
  ASSUME NEW memory, NEW plan, NEW profile
  PROVE  AsPlanned(memory, plan, 0) /\ FromIt(profile, memory, 0)
<1>1. \A s \in Slots : ~ s < 0
  BY SlotFacts
<1>2. ~ 0 > 0
  OBVIOUS
<1> QED  BY <1>1, <1>2 DEF AsPlanned, FromIt

\* The writes for the next slot, as the plan has it.
LEMMA PlannedWrites ==
  ASSUME NEW plan \in RestartPlan, NEW memory \in Memory, NEW slot \in Slots,
         AsPlanned(memory, plan, slot)
  PROVE  AsPlanned(Written(plan, memory, slot), plan, slot + 1)
<1> DEFINE w == Written(plan, memory, slot)
<1>1. PICK v : v = w
  OBVIOUS
<1>2. /\ v.controllers = [memory.controllers EXCEPT ![slot] =
                            IF slot < plan.count THEN plan.controllers[slot] ELSE Unused]
      /\ v.classes = [memory.classes EXCEPT ![slot] =
                        IF slot < plan.count THEN plan.classes[slot] ELSE NoClass]
      /\ \A s \in Players :
           /\ s # slot => /\ v.teams[s] = memory.teams[s]
                          /\ v.difficulties[s] = memory.difficulties[s]
           /\ s = slot /\ slot < plan.count => /\ v.teams[s] = plan.teams[s]
                                               /\ v.difficulties[s] = plan.difficulties[s]
  BY <1>1, WrittenIs
<1> HIDE DEF w
<1>3. ASSUME NEW s \in Slots, s < slot + 1
      PROVE  /\ v.controllers[s] = IF s < plan.count THEN plan.controllers[s] ELSE Unused
             /\ v.classes[s] = IF s < plan.count THEN plan.classes[s] ELSE NoClass
             /\ s < plan.count => /\ v.teams[s] = plan.teams[s]
                                  /\ v.difficulties[s] = plan.difficulties[s]
  <2>1. s < plan.count => s \in Players
    BY SlotFacts DEF RestartPlan, Slots, Players
  <2>2. CASE s = slot
    BY <1>2, <2>1, <2>2 DEF Memory
  <2>3. CASE s # slot
    <3>1. s < slot
      BY <1>3, <2>3, SlotFacts
    <3> QED  BY <1>2, <2>1, <2>3, <3>1 DEF AsPlanned, Memory
  <2> QED  BY <2>2, <2>3
<1> QED  BY <1>1, <1>3 DEF AsPlanned, w

\* The writes for the next slot, as the profile has it.
LEMMA ProfileWrites ==
  ASSUME NEW profile \in Profile, NEW memory \in Memory, NEW slot \in Slots,
         FromIt(profile, memory, slot)
  PROVE  FromIt(profile, Written(FromProfile(profile), memory, slot), slot + 1)
<1> DEFINE w == Written(FromProfile(profile), memory, slot)
<1>1. PICK plan \in RestartPlan :
        /\ plan = FromProfile(profile) /\ plan.count = profile.count
        /\ plan.controllers = [s \in Slots |-> IF s = 0 THEN Human
                                               ELSE IF s < profile.count THEN AI ELSE Unused]
        /\ plan.classes[0] = profile.class
        /\ \A s \in Players : plan.difficulties[s] = profile.difficulty
  BY ProfilePlan
<1>2. PICK v : v = w
  OBVIOUS
<1>3. /\ v.controllers = [memory.controllers EXCEPT ![slot] =
                            IF slot < plan.count THEN plan.controllers[slot] ELSE Unused]
      /\ v.classes = [memory.classes EXCEPT ![slot] =
                        IF slot < plan.count THEN plan.classes[slot] ELSE NoClass]
      /\ \A s \in Players :
           /\ s # slot => v.difficulties[s] = memory.difficulties[s]
           /\ s = slot /\ slot < plan.count => v.difficulties[s] = plan.difficulties[s]
  <2>1. v = Written(plan, memory, slot)
    BY <1>1, <1>2
  <2> HIDE DEF w
  <2> QED  BY <2>1, WrittenIs
<1> HIDE DEF w
<1>4. profile.count \in Nat /\ 1 < profile.count /\ profile.count <= MaxPlayers
  BY SlotFacts DEF Profile
<1>5. ASSUME NEW s \in Slots, s < slot + 1
      PROVE  IF s < profile.count
               THEN /\ v.controllers[s] \in {IF s = 0 THEN Human ELSE AI, Eliminated}
                    /\ v.difficulties[s] = profile.difficulty
               ELSE v.controllers[s] = Unused
  <2>1. s < profile.count => s \in Players
    BY <1>4, SlotFacts DEF Slots, Players
  <2>2. CASE s = slot
    BY <1>1, <1>3, <2>1, <2>2 DEF Memory
  <2>3. CASE s # slot
    <3>1. s < slot
      BY <1>5, <2>3, SlotFacts
    <3> QED  BY <1>3, <2>1, <2>3, <3>1 DEF FromIt, Memory
  <2> QED  BY <2>2, <2>3
<1>6. profile.class # RandomClass => v.classes[0] = profile.class
  <2>1. CASE slot = 0
    BY <1>1, <1>3, <1>4, <2>1, SlotFacts DEF Memory
  <2>2. CASE slot # 0
    <3>1. slot > 0
      BY <2>2, SlotFacts
    <3> QED  BY <1>3, <2>2, <3>1, SlotFacts DEF FromIt, Memory
  <2> QED  BY <2>1, <2>2
<1> QED  BY <1>2, <1>5, <1>6 DEF FromIt, w

\* A table goes on to be one a profile describes when classes are rolled for those who have
\* none, and when participants are eliminated.
LEMMA StaysFromIt ==
  ASSUME NEW memory, NEW later,
         \A s \in Slots : \/ later.controllers[s] = memory.controllers[s]
                          \/ /\ memory.controllers[s] \in {Human, AI}
                             /\ later.controllers[s] = Eliminated,
         later.difficulties = memory.difficulties,
         \A s \in Slots : memory.classes[s] \in Classes => later.classes[s] = memory.classes[s],
         later.society = memory.society, later.wilder = memory.wilder,
         NEW profile \in Profile, NEW n \in Nat
  PROVE  /\ FromIt(profile, memory, n) => FromIt(profile, later, n)
         /\ OnItsMap(profile, memory) => OnItsMap(profile, later)
<1>1. OnItsMap(profile, memory) => OnItsMap(profile, later)
  BY DEF OnItsMap
<1> SUFFICES ASSUME FromIt(profile, memory, n) PROVE FromIt(profile, later, n)
  BY <1>1
<1>2. ASSUME NEW s \in Slots, s < n
      PROVE  IF s < profile.count
               THEN /\ later.controllers[s] \in {IF s = 0 THEN Human ELSE AI, Eliminated}
                    /\ later.difficulties[s] = profile.difficulty
               ELSE later.controllers[s] = Unused
  BY <1>2, SlotFacts DEF FromIt
<1>3. ASSUME n > 0, profile.class # RandomClass PROVE later.classes[0] = profile.class
  <2>1. profile.class \in Classes
    BY <1>3 DEF Profile
  <2> QED  BY <1>3, <2>1, SlotFacts DEF FromIt
<1> QED  BY <1>2, <1>3 DEF FromIt

\* The game goes on, and was made from the same profile.
GoesOn ==
  /\ game'.stage = "playing" /\ game'.made = game.made /\ game'.line = game.line
  /\ \A profile \in Profile, n \in Nat :
       /\ FromIt(profile, game.memory, n) => FromIt(profile, game'.memory, n)
       /\ OnItsMap(profile, game.memory) => OnItsMap(profile, game'.memory)

\* It does when it leaves its set-up screen, and when a participant is eliminated.
LEMMA WorldGoesOn ==
  ASSUME game \in LiveGame,
         (\E class \in Rolled : CreateWorld(class)) \/ \E s \in Slots : Eliminate(s)
  PROVE  GoesOn
<1>0. game.memory \in Memory
  BY DEF LiveGame
<1>1. ASSUME NEW class \in Rolled, CreateWorld(class) PROVE GoesOn
  <2>1. /\ game'.stage = "playing" /\ game'.made = game.made /\ game'.line = game.line
        /\ game'.memory.controllers = game.memory.controllers
        /\ game'.memory.difficulties = game.memory.difficulties
        /\ game'.memory.society = game.memory.society
        /\ game'.memory.wilder = game.memory.wilder
        /\ \A s \in Slots : game.memory.classes[s] \in Classes
             => game'.memory.classes[s] = game.memory.classes[s]
    BY <1>1, WorldIs
  <2>2. PICK later : later = game'.memory
    OBVIOUS
  <2>3. \A profile \in Profile, n \in Nat :
          /\ FromIt(profile, game.memory, n) => FromIt(profile, later, n)
          /\ OnItsMap(profile, game.memory) => OnItsMap(profile, later)
    BY <2>1, <2>2, StaysFromIt
  <2> QED  BY <2>1, <2>2, <2>3 DEF GoesOn
<1>2. ASSUME NEW s \in Slots, Eliminate(s) PROVE GoesOn
  <2> DEFINE controllers == [game.memory.controllers EXCEPT ![s] = Eliminated]
             later == [game.memory EXCEPT !.controllers = controllers]
  <2>1. /\ game' = [game EXCEPT !.memory = later] /\ game.stage = "playing"
        /\ game.memory.controllers[s] \in {Human, AI}
    BY <1>2 DEF Eliminate
  <2>2. \A u \in Slots : \/ controllers[u] = game.memory.controllers[u]
                         \/ /\ game.memory.controllers[u] \in {Human, AI}
                            /\ controllers[u] = Eliminated
    BY <1>0, <2>1 DEF Memory
  <2> HIDE DEF controllers
  <2>3. /\ later.controllers = controllers /\ later.classes = game.memory.classes
        /\ later.difficulties = game.memory.difficulties
        /\ later.society = game.memory.society /\ later.wilder = game.memory.wilder
    BY <1>0 DEF Memory
  <2> HIDE DEF later
  <2>4. \A profile \in Profile, n \in Nat :
          /\ FromIt(profile, game.memory, n) => FromIt(profile, later, n)
          /\ OnItsMap(profile, game.memory) => OnItsMap(profile, later)
    BY <2>2, <2>3, StaysFromIt
  <2>5. /\ game'.stage = "playing" /\ game'.made = game.made
        /\ game'.line = game.line /\ game'.memory = later
    BY <2>1 DEF LiveGame
  <2> QED  BY <2>4, <2>5 DEF GoesOn
<1> QED  BY <1>1, <1>2

\* The plan a restart makes from the profile or copies from the game stays the plan it
\* writes, slot by slot.
LEMMA PlanNext ==
  ASSUME MachineInv, SettingsInv, OneSnapshot, PlanInv, [Next]_vars
  PROVE  OneSnapshot' /\ PlanInv'
<1>c. config \in Config
  BY DEF SettingsInv, Usable
<1>1. OneSnapshot'
  <2>1. snapshot' \in {snapshot, {}, {game.memory}}
    BY DEF Next, Start, User, Select, Add, Delete, Edit, ToggleLock, ToggleSource, SaveChanges,
       Keep, Press, TakeSnapshot, RestartThread, Relaunch, SetupReached, WriteSlot, WriteUnique,
       ActivateOk, RestartSucceeds, RestartFails, Game, UserStarts, SetupShown, Enter, Eliminate,
       GameEnds, playing, vars
  <2> QED  BY <2>1 DEF OneSnapshot
<1>2. ASSUME restart' = restart \/ restart' = Idle PROVE PlanInv'
  <2>1. CASE restart' = restart
    BY <2>1, Zenon DEF PlanInv
  <2>2. CASE restart' = Idle
    BY <2>2 DEF PlanInv, Idle
  <2> QED  BY <1>2, <2>1, <2>2
<1>3. ASSUME NEW lines \in {{}, {game.line}}, game.stage # "none", Press(lines)
      PROVE  PlanInv'
  <2>1. PICK profile \in ActiveProfile :
          LET plan == IF config.source = "CopyLastGame"
                        THEN Capture(lines, snapshot, profile) ELSE FromProfile(profile)
          IN  restart' = [stage |-> "launch", plan |-> plan, slot |-> 0,
                          wanted |-> IF plan.mapFromLive \/ plan.rosterFromLive
                                       THEN {} ELSE {profile},
                          copied |-> IF plan.rosterFromLive THEN snapshot ELSE {},
                          running |-> IF plan.rosterFromLive THEN {game.memory} ELSE {}]
    BY <1>3 DEF Press
  <2>2. profile \in Profile /\ lines \in SUBSET CommandLine
    BY <1>3, <1>c, ActiveType, Fields DEF LiveGame
  <2> DEFINE plan == IF config.source = "CopyLastGame"
                       THEN Capture(lines, snapshot, profile) ELSE FromProfile(profile)
  <2>3. /\ ~ plan.mapFromLive /\ ~ plan.rosterFromLive => plan = FromProfile(profile)
        /\ plan.rosterFromLive => \E other \in RestartPlan, memory \in snapshot :
                                     plan = WithRoster(other, memory)
    <3>1. snapshot \in SUBSET Memory
      BY DEF MachineInv
    <3>2. CASE config.source = "CopyLastGame"
      BY <2>2, <3>1, <3>2, CaptureIs
    <3>3. CASE config.source # "CopyLastGame"
      BY <2>2, <3>3, ProfilePlan
    <3> QED  BY <3>2, <3>3
  <2> HIDE DEF plan
  <2>4. PICK r : r = restart'
    OBVIOUS
  <2>5. /\ r.stage = "launch" /\ r.plan = plan /\ r.slot = 0
        /\ r.wanted = IF plan.mapFromLive \/ plan.rosterFromLive THEN {} ELSE {profile}
        /\ r.copied = IF plan.rosterFromLive THEN snapshot ELSE {}
    BY <2>1, <2>4 DEF plan
  <2>6. \A p \in r.wanted : r.plan = FromProfile(p)
    BY <2>3, <2>5
  <2>7. \A original \in r.copied :
          \E other \in RestartPlan : r.plan = WithRoster(other, original)
    BY <2>3, <2>5 DEF OneSnapshot
  <2> QED  BY <2>4, <2>5, <2>6, <2>7 DEF PlanInv
<1>4. ASSUME Relaunch \/ SetupReached \/ WriteSlot \/ WriteUnique \/ ActivateOk
      PROVE  PlanInv'
  <2>1. restart \in LiveRestart /\ restart.stage # "idle"
    BY <1>4, Fields DEF Relaunch, SetupReached, WriteSlot, WriteUnique, ActivateOk
  <2>2. PICK r : r = restart'
    OBVIOUS
  <2>3. /\ r.plan = restart.plan
        /\ r.wanted \subseteq restart.wanted /\ r.copied \subseteq restart.copied
    BY <1>4, <2>1, <2>2
       DEF Relaunch, SetupReached, WriteSlot, WriteUnique, ActivateOk, LiveRestart
  <2>4. /\ r.stage \in {"launch", "ready"} => r.slot = 0
        /\ r.stage \in {"ok", "world"} => r.slot = MaxSlots
    BY <1>4, <2>1, <2>2
       DEF Relaunch, SetupReached, WriteSlot, WriteUnique, ActivateOk, LiveRestart, PlanInv
  <2>5. \A profile \in r.wanted : r.plan = FromProfile(profile)
    BY <2>1, <2>3 DEF PlanInv
  <2>6. \A original \in r.copied : \E plan \in RestartPlan : r.plan = WithRoster(plan, original)
    BY <2>1, <2>3 DEF PlanInv
  <2> QED  BY <2>2, <2>4, <2>5, <2>6 DEF PlanInv
<1>5. PlanInv'
  <2>1. CASE Start \/ RestartSucceeds \/ RestartFails
    BY <1>2, <2>1 DEF Start, RestartSucceeds, RestartFails
  <2>2. CASE TakeSnapshot \/ Game \/ UNCHANGED vars
    BY <1>2, <2>2 DEF TakeSnapshot, Game, UserStarts, SetupShown, Enter, Eliminate, GameEnds, vars
  <2>3. CASE User
    BY <1>2, <1>3, <2>3 DEF User, Select, Add, Delete, Edit, ToggleLock, ToggleSource,
       SaveChanges, Keep
  <2> QED  BY <1>4, <2>1, <2>2, <2>3 DEF Next, RestartThread
<1> QED  BY <1>1, <1>5

\* The writes of a restart, on the set-up screen, before it or after it.
LEMMA WritesKeep ==
  ASSUME MachineInv, PlanInv, WriteInv, WriteSlot \/ WriteUnique
  PROVE  WriteInv'
<1>0. game \in LiveGame /\ restart \in LiveRestart
  BY Fields DEF WriteSlot, WriteUnique
<1>1. /\ game.memory \in Memory /\ restart.plan \in RestartPlan
      /\ restart.wanted \subseteq Profile /\ restart.stage = "writing"
      /\ game.stage # "none" /\ game.made = {} /\ restart.slot \in Nat
      /\ game.stage = "setup" /\ restart.copied # {}
           => AsPlanned(game.memory, restart.plan, restart.slot)
  BY <1>0, SlotFacts DEF LiveGame, LiveRestart, WriteSlot, WriteUnique, WriteInv
<1>2. ASSUME NEW profile \in restart.wanted
      PROVE  /\ profile \in Profile /\ restart.plan = FromProfile(profile)
             /\ OnItsMap(profile, game.line) /\ OnItsMap(profile, game.memory)
             /\ FromIt(profile, game.memory, restart.slot)
  BY <1>1 DEF PlanInv, WriteInv
<1>3. CASE WriteSlot
  <2>1. restart.slot \in Slots /\ restart.slot + 1 \in 0 .. MaxSlots
    BY <1>0, <1>3, SlotFacts DEF WriteSlot, LiveRestart, Slots
  <2> DEFINE w == Written(restart.plan, game.memory, restart.slot)
  <2>2. w \in Memory /\ w.society = game.memory.society /\ w.wilder = game.memory.wilder
    <3>1. restart.plan \in RestartPlan /\ game.memory \in Memory
      BY <1>1
    <3>2. w \in Memory
      BY <2>1, <3>1, WrittenIs
    <3>3. w.society = game.memory.society
      BY <3>1, WrittenKeepsMap
    <3>4. w.wilder = game.memory.wilder
      BY <3>1, WrittenKeepsMap
    <3> QED  BY <3>2, <3>3, <3>4
  <2>3. game.stage = "setup" /\ restart.copied # {}
          => AsPlanned(w, restart.plan, restart.slot + 1)
    BY <1>1, <2>1, PlannedWrites
  <2>4. ASSUME NEW profile \in restart.wanted
        PROVE  OnItsMap(profile, w) /\ FromIt(profile, w, restart.slot + 1)
    <3>1. OnItsMap(profile, w)
      BY <1>2, <2>2 DEF OnItsMap
    <3>2. FromIt(profile, w, restart.slot + 1)
      <4>1. FromIt(profile, Written(FromProfile(profile), game.memory, restart.slot),
                   restart.slot + 1)
        BY <1>1, <1>2, <2>1, ProfileWrites
      <4> QED  BY <1>2, <4>1
    <3> QED  BY <3>1, <3>2
  <2>5. game' = [game EXCEPT !.memory = w]
    BY <1>3 DEF WriteSlot
  <2> HIDE DEF w
  <2>6. PICK g, r : g = game' /\ r = restart'
    OBVIOUS
  <2>7. g.stage = game.stage /\ g.made = {} /\ g.memory = w /\ g.line = game.line
    BY <1>0, <1>1, <2>5, <2>6 DEF LiveGame
  <2>8. r.stage = "writing" /\ r.plan = restart.plan /\ r.slot = restart.slot + 1
    BY <1>0, <1>1, <1>3, <2>6 DEF WriteSlot, LiveRestart
  <2>9. IF game.stage = "setup" THEN r.wanted = restart.wanted /\ r.copied = restart.copied
                                ELSE r.wanted = {} /\ r.copied = {}
    BY <1>0, <1>3, <2>6 DEF WriteSlot, LiveRestart
  <2> QED  BY <1>1, <1>2, <2>3, <2>4, <2>6, <2>7, <2>8, <2>9 DEF WriteInv
<1>4. CASE WriteUnique
  <2>1. restart.slot = MaxSlots /\ restart.slot > 0
    BY <1>4, SlotFacts DEF WriteUnique
  <2> DEFINE w == [game.memory EXCEPT !.unique = restart.plan.unique]
  <2>2. /\ w.controllers = game.memory.controllers /\ w.classes = game.memory.classes
        /\ w.teams = game.memory.teams /\ w.difficulties = game.memory.difficulties
        /\ w.society = game.memory.society /\ w.wilder = game.memory.wilder
    BY <1>1 DEF Memory
  <2>3. game' = [game EXCEPT !.memory = w, !.made = restart.wanted]
    BY <1>0, <1>4 DEF WriteUnique, LiveGame
  <2> HIDE DEF w
  <2>4. game.stage = "setup" /\ restart.copied # {} => AsPlanned(w, restart.plan, restart.slot)
    BY <1>1, <2>2 DEF AsPlanned
  <2>5. \A profile \in restart.wanted :
          OnItsMap(profile, w) /\ FromIt(profile, w, MaxSlots)
    BY <1>2, <2>1, <2>2 DEF OnItsMap, FromIt
  <2>6. PICK g, r : g = game' /\ r = restart'
    OBVIOUS
  <2>7. g.stage = game.stage /\ g.made = restart.wanted /\ g.memory = w
    BY <1>0, <2>3, <2>6 DEF LiveGame
  <2>8. /\ r.stage = "ok" /\ r.plan = restart.plan /\ r.slot = restart.slot
        /\ r.wanted = restart.wanted /\ r.copied = restart.copied
    BY <1>0, <1>4, <2>6 DEF WriteUnique, LiveRestart
  <2>9. game.stage = "loading" => restart.wanted = {} /\ restart.copied = {}
    BY <1>1, <2>1 DEF WriteInv
  <2> QED  BY <1>1, <2>4, <2>5, <2>6, <2>7, <2>8, <2>9 DEF WriteInv
<1> QED  BY <1>3, <1>4

\* What is said of the games holds when they go on.
LEMMA GoingOnKeeps ==
  ASSUME MachineInv, PlanInv, WriteInv, game.stage # "none", GoesOn,
         \/ UNCHANGED restart
         \/ restart.stage = "ok" /\ restart'.stage = "world"
  PROVE  WriteInv'
<1>0. game.made \subseteq Profile
  BY Fields DEF LiveGame
<1>1. game'.stage = "playing" /\ game'.made = game.made
  BY DEF GoesOn
<1>2. \A profile \in game.made : OnItsMap(profile, game'.memory)
                                 /\ FromIt(profile, game'.memory, MaxSlots)
  BY <1>0, SlotFacts DEF GoesOn, WriteInv
<1>3. ASSUME UNCHANGED restart, restart.stage \in {"ready", "writing"}
      PROVE  /\ game.made = {}
             /\ \A profile \in restart.wanted : /\ OnItsMap(profile, game'.line)
                                                /\ OnItsMap(profile, game'.memory)
                                                /\ FromIt(profile, game'.memory, restart.slot)
  <2>1. restart.wanted \subseteq Profile /\ restart.slot \in Nat
    BY <1>3, Fields, SlotFacts DEF LiveRestart
  <2> QED  BY <1>3, <2>1 DEF GoesOn, WriteInv
<1> QED  BY <1>1, <1>2, <1>3 DEF WriteInv

\* What a restart has written stays as it is planned, and what it has made stays
\* recognizable, whatever happens.
LEMMA WriteNext ==
  ASSUME MachineInv, SettingsInv, PlanInv, WriteInv, [Next]_vars
  PROVE  WriteInv'
<1>1. CASE UNCHANGED game /\ (UNCHANGED restart \/ restart'.stage \in {"idle", "launch"})
  BY <1>1 DEF WriteInv
<1>2. CASE game' = NoGame
  BY <1>2 DEF WriteInv, NoGame
<1>3. CASE Relaunch
  <2>1. restart \in LiveRestart
    BY <1>3, Fields DEF Relaunch
  <2>2. PICK g, r : g = game' /\ r = restart'
    OBVIOUS
  <2>3. /\ r.stage = "ready" /\ r.plan = restart.plan /\ r.slot = 0
        /\ r.wanted = restart.wanted
    BY <1>3, <2>1, <2>2 DEF Relaunch, LiveRestart, PlanInv
  <2>4. /\ g.stage = "loading" /\ g.made = {} /\ g.line = restart.plan.arguments
        /\ g.memory = FreshSetup(restart.plan.arguments)
    BY <1>3, <2>2 DEF Relaunch
  <2>5. /\ g.memory.society = restart.plan.arguments.society
        /\ g.memory.wilder = restart.plan.arguments.wilder
    <3>1. restart.plan.arguments \in CommandLine
      BY <2>1 DEF LiveRestart, RestartPlan
    <3> QED  BY <2>4, <3>1, FreshIs
  <2>6. ASSUME NEW profile \in r.wanted
        PROVE  /\ OnItsMap(profile, g.line) /\ OnItsMap(profile, g.memory)
               /\ FromIt(profile, g.memory, 0)
    <3>1. profile \in Profile /\ restart.plan = FromProfile(profile)
      BY <1>3, <2>1, <2>3, <2>6 DEF LiveRestart, PlanInv, Relaunch
    <3>2. restart.plan.arguments = LaunchArguments(profile)
      BY <3>1, ProfilePlan
    <3>3. OnItsMap(profile, g.line) /\ OnItsMap(profile, g.memory)
      BY <2>4, <2>5, <3>2 DEF OnItsMap, LaunchArguments
    <3> QED  BY <3>3, NothingYet
  <2> QED  BY <2>2, <2>3, <2>4, <2>6 DEF WriteInv
<1>4. CASE SetupReached
  <2>1. restart \in LiveRestart
    BY <1>4, Fields DEF SetupReached
  <2>2. PICK r : r = restart'
    OBVIOUS
  <2>3. /\ r.stage = "writing" /\ r.plan = restart.plan /\ r.slot = 0 /\ restart.slot = 0
        /\ r.wanted = restart.wanted /\ restart.stage = "ready"
        /\ game.stage # "none" /\ UNCHANGED game
    BY <1>4, <2>1, <2>2 DEF SetupReached, LiveRestart, PlanInv, playing
  <2>4. AsPlanned(game.memory, r.plan, 0)
    BY NothingYet
  <2>5. /\ game.made = {}
        /\ \A profile \in r.wanted : OnItsMap(profile, game.line)
                                      /\ OnItsMap(profile, game.memory)
                                      /\ FromIt(profile, game.memory, 0)
    BY <2>3 DEF WriteInv
  <2>6. game' = game /\ ~ r.slot > 0
    BY <2>3
  <2> QED  BY <2>2, <2>3, <2>4, <2>5, <2>6 DEF WriteInv
<1>5. CASE WriteSlot \/ WriteUnique
  BY <1>5, WritesKeep
<1>6. CASE ActivateOk
  <2>1. game \in LiveGame /\ restart \in LiveRestart /\ game.stage # "none" /\ restart.stage = "ok"
    BY <1>6, Fields DEF ActivateOk
  <2>2. PICK r : r = restart'
    OBVIOUS
  <2>3. /\ r.stage = "world" /\ r.plan = restart.plan /\ r.slot = restart.slot
        /\ r.wanted = restart.wanted /\ r.copied = restart.copied
    BY <1>6, <2>1, <2>2 DEF ActivateOk, LiveRestart
  <2>4. CASE UNCHANGED game
    BY <2>1, <2>2, <2>3, <2>4 DEF WriteInv
  <2>5. CASE \E class \in Rolled : CreateWorld(class)
    <3>1. GoesOn
      BY <2>1, <2>5, WorldGoesOn
    <3> QED  BY <2>1, <2>2, <2>3, <3>1, GoingOnKeeps
  <2> QED  BY <1>6, <2>4, <2>5 DEF ActivateOk
<1>7. CASE RestartFails
  BY <1>1, <1>2, <1>7 DEF RestartFails, Idle, playing
<1>8. CASE (\E class \in Rolled : Enter(class)) \/ \E s \in Slots : Eliminate(s)
  <2>1. game \in LiveGame /\ game.stage # "none" /\ UNCHANGED restart
    BY <1>8, Fields DEF Enter, Eliminate
  <2>2. GoesOn
    BY <1>8, <2>1, WorldGoesOn DEF Enter
  <2> QED  BY <2>1, <2>2, GoingOnKeeps
<1>9. ASSUME NEW g \in UserGames, UserStarts(g) PROVE WriteInv'
  BY <1>9 DEF UserStarts, WriteInv
<1>10. CASE SetupShown
  <2>1. game \in LiveGame /\ game.stage = "loading" /\ UNCHANGED restart
    BY <1>10, Fields DEF SetupShown
  <2>2. PICK g : g = game'
    OBVIOUS
  <2>3. /\ g.stage = "setup" /\ g.memory = FreshSetup(game.line) /\ g.made = {}
        /\ g.line = game.line
    BY <1>10, <2>1, <2>2 DEF SetupShown, LiveGame
  <2>4. /\ game.line \in CommandLine
        /\ g.memory.society = game.line.society /\ g.memory.wilder = game.line.wilder
    BY <2>1, <2>3, FreshIs DEF LiveGame
  <2>5. ASSUME restart.stage \in {"ready", "writing", "ok", "world"},
               restart.wanted # {} \/ restart.copied # {}
        PROVE  restart.slot = 0
    <3>1. restart.slot \in Nat /\ MaxSlots > 0
      BY <2>5, Fields, SlotFacts DEF LiveRestart
    <3> QED  BY <2>1, <2>5, <3>1 DEF PlanInv, WriteInv
  <2>6. ASSUME restart.stage \in {"writing", "ok", "world"}, restart.copied # {}
        PROVE  AsPlanned(g.memory, restart.plan, restart.slot)
    BY <2>5, <2>6, NothingYet
  <2>7. ASSUME restart.stage \in {"ready", "writing"}, NEW profile \in restart.wanted
        PROVE  /\ OnItsMap(profile, g.line) /\ OnItsMap(profile, g.memory)
               /\ FromIt(profile, g.memory, restart.slot)
    <3>1. OnItsMap(profile, game.line)
      BY <2>1, <2>7 DEF WriteInv
    <3>2. OnItsMap(profile, g.line) /\ OnItsMap(profile, g.memory)
      BY <2>3, <2>4, <3>1 DEF OnItsMap
    <3> QED  BY <2>5, <2>7, <3>2, NothingYet
  <2> QED  BY <2>1, <2>2, <2>3, <2>6, <2>7 DEF WriteInv
<1>11. CASE GameEnds
  BY <1>2, <1>11 DEF GameEnds
<1>12. CASE Start \/ User \/ TakeSnapshot \/ RestartSucceeds \/ UNCHANGED vars
  <2>1. CASE Start \/ RestartSucceeds
    BY <1>1, <2>1 DEF Start, RestartSucceeds, Idle, playing
  <2>2. CASE TakeSnapshot \/ UNCHANGED vars
    BY <1>1, <2>2 DEF TakeSnapshot, vars, playing
  <2>3. ASSUME NEW lines, Press(lines) PROVE WriteInv'
    BY <1>1, <2>3 DEF Press, playing
  <2>4. CASE User
    <3>1. CASE Keep
      BY <1>1, <3>1 DEF Keep, playing
    <3> QED  BY <2>3, <2>4, <3>1 DEF User, Select, Add, Delete, Edit, ToggleLock, ToggleSource,
                SaveChanges
  <2> QED  BY <1>12, <2>1, <2>2, <2>4
<1> QED  BY <1>3, <1>4, <1>5, <1>6, <1>7, <1>8, <1>9, <1>10, <1>11, <1>12
         DEF Next, RestartThread, Game

\* The plan, the writes and the games they make agree with each other.
LEMMA RestartsFit == Spec => [](SettingsInv /\ MachineInv /\ RestartInv)
<1>1. Init => RestartInv
  BY DEF Init, RestartInv, OneSnapshot, PlanInv, WriteInv, Idle, NoGame
<1>2. SettingsInv /\ MachineInv /\ RestartInv /\ [Next]_vars => RestartInv'
  BY PlanNext, WriteNext DEF RestartInv
<1> QED  BY <1>1, <1>2, MachineIsTyped, PTL DEF Spec

-----------------------------------------------------------------------------
(* What follows from it: a game made from a profile is recognized, a copy  *)
(* mirrors its original, and a restart does not change the selection.      *)

\* The participants of a table that a profile describes are as many as it says.
LEMMA CountOfProfile ==
  ASSUME NEW profile \in Profile, NEW memory, FromIt(profile, memory, MaxSlots)
  PROVE  ConfiguredCount(memory) = profile.count
<1>1. profile.count \in 0 .. MaxPlayers
  BY DEF Profile
<1>2. \A s \in Slots : s < MaxSlots /\ s \in Nat
  BY SlotFacts DEF Slots
<1>3. ASSUME NEW s \in Players, s < profile.count PROVE memory.controllers[s] # Unused
  <2>1. s \in Slots
    BY SlotFacts
  <2>2. memory.controllers[s] \in {IF s = 0 THEN Human ELSE AI, Eliminated}
    BY <1>2, <1>3, <2>1 DEF FromIt
  <2> QED  BY <2>2, SlotFacts
<1>4. ASSUME profile.count < MaxPlayers PROVE memory.controllers[profile.count] = Unused
  <2>1. profile.count \in Slots /\ ~ profile.count < profile.count
    BY <1>1, <1>4, SlotFacts DEF Slots
  <2> QED  BY <1>2, <2>1 DEF FromIt
<1> QED  BY <1>1, <1>3, <1>4, CountIs

\* The only human of such a table is in its first slot.
LEMMA HumanOfProfile ==
  ASSUME NEW profile \in Profile, NEW memory, FromIt(profile, memory, MaxSlots)
  PROVE  /\ memory.controllers[0] = Human /\ profile.class # RandomClass
              => HumanClass(memory) = {profile.class}
         /\ memory.controllers[0] # Human => HumanClass(memory) = {}
<1> DEFINE humans == {s \in Slots : memory.controllers[s] = Human}
           first == {h \in humans : \A t \in humans : h <= t}
<1>0. HumanClass(memory) = {memory.classes[s] : s \in first}
  BY DEF HumanClass
<1>1. \A s \in Slots : s < MaxSlots /\ s \in Nat
  BY SlotFacts DEF Slots
<1>2. ASSUME NEW s \in Slots, s # 0 PROVE s \notin humans
  <2>1. memory.controllers[s] \in {AI, Eliminated, Unused}
    BY <1>1, <1>2 DEF FromIt
  <2> QED  BY <2>1, SlotFacts
<1>3. ASSUME memory.controllers[0] = Human, profile.class # RandomClass
      PROVE  HumanClass(memory) = {profile.class}
  <2>1. humans = {0}
    BY <1>2, <1>3, SlotFacts
  <2>2. 0 <= 0
    OBVIOUS
  <2>3. first = {0}
    BY <2>1, <2>2
  <2>4. memory.classes[0] = profile.class
    <3>1. MaxSlots > 0
      BY SlotFacts
    <3> QED  BY <1>3, <3>1 DEF FromIt
  <2> QED  BY <1>0, <2>3, <2>4
<1>4. ASSUME memory.controllers[0] # Human PROVE HumanClass(memory) = {}
  <2>1. humans = {}
    BY <1>2, <1>4
  <2> QED  BY <1>0, <2>1
<1> QED  BY <1>3, <1>4

\* Such a table matches the profile, as long as its human is there.
LEMMA ProfileMatches ==
  ASSUME NEW profile \in Profile, NEW memory, FromIt(profile, memory, MaxSlots),
         profile.class # RandomClass, memory.controllers[0] = Human
  PROVE  Matches(profile, memory)
<1>1. HumanClass(memory) = {profile.class} /\ ConfiguredCount(memory) = profile.count
  BY HumanOfProfile, CountOfProfile
<1>2. ASSUME NEW s \in Players, s < profile.count
      PROVE  memory.difficulties[s] = profile.difficulty
  <2>1. s \in Slots /\ s < MaxSlots
    BY SlotFacts DEF Slots
  <2> QED  BY <1>2, <2>1 DEF FromIt
<1> QED  BY <1>1, <1>2 DEF Matches

\* A game a restart has made from a profile is recognized as that profile's, with no
\* difference to show, for any number of slots, players and classes: until its human is
\* eliminated or it ends, and whatever the game rolls, whoever else is eliminated, and
\* however the user or the click got it out of its set-up screen.
THEOREM MadeGamesAreRecognized == Spec => []ProfileRoundTrip
<1>1. MachineInv /\ RestartInv => ProfileRoundTrip
  <2> SUFFICES ASSUME MachineInv, RestartInv, game.stage # "none", NEW profile \in game.made,
                      profile.class # RandomClass, game.memory.controllers[0] = Human
               PROVE  /\ Matches(profile, game.memory)
                      /\ Differences(profile, game.memory) = {}
    BY DEF ProfileRoundTrip
  <2>1. profile \in Profile
    BY Fields DEF LiveGame
  <2>2. FromIt(profile, game.memory, MaxSlots) /\ OnItsMap(profile, game.memory)
    BY DEF RestartInv, WriteInv
  <2>3. Matches(profile, game.memory)
    BY <2>1, <2>2, ProfileMatches
  <2>4. /\ HumanClass(game.memory) = {profile.class}
        /\ ConfiguredCount(game.memory) = profile.count
    BY <2>1, <2>2, HumanOfProfile, CountOfProfile
  <2>5. Differences(profile, game.memory) = {}
    <3>1. /\ (HumanClass(game.memory) # {profile.class}) = FALSE
          /\ (ConfiguredCount(game.memory) # profile.count) = FALSE
          /\ (game.memory.society # profile.society) = FALSE
          /\ (game.memory.wilder # profile.wilder) = FALSE
      BY <2>2, <2>4, Zenon DEF OnItsMap
    <3> DEFINE differs == [human_class_id |-> HumanClass(game.memory) # {profile.class},
                           participant_count |-> ConfiguredCount(game.memory) # profile.count,
                           society |-> game.memory.society # profile.society,
                           independent_strength |-> game.memory.wilder # profile.wilder]
    <3>2. differs = [human_class_id |-> FALSE, participant_count |-> FALSE,
                     society |-> FALSE, independent_strength |-> FALSE]
      BY <3>1, Zenon
    <3>3. Differences(profile, game.memory) = {field \in DOMAIN differs : differs[field]}
      BY Zenon DEF Differences
    <3> HIDE DEF differs
    <3>4. {field \in DOMAIN differs : differs[field]} = {}
      BY <3>2
    <3> QED  BY <3>3, <3>4, Zenon
  <2> QED  BY <2>3, <2>5
<1> QED  BY <1>1, RestartsFit, PTL

\* What a restart has written when it copies a game is the leading run of participants of
\* that game's last snapshot and nobody behind it, for any game and any number of slots
\* and players: whatever the user does meanwhile, the slots written before and those
\* still written are of one plan, and of one snapshot.
THEOREM CopiesAreLeadingRuns == Spec => []CopyIsTheLeadingRun
<1>1. MachineInv /\ RestartInv => CopyIsTheLeadingRun
  <2> SUFFICES ASSUME MachineInv, RestartInv, restart.stage \in {"ok", "world"},
                      game.stage = "setup", NEW original \in restart.copied
               PROVE  CopiesTheRun(game.memory, original)
    BY DEF CopyIsTheLeadingRun
  <2>1. original \in Memory /\ game.memory \in Memory
    BY Fields DEF LiveGame, LiveRestart
  <2>2. PICK other \in RestartPlan : restart.plan = WithRoster(other, original)
    BY DEF RestartInv, PlanInv
  <2> DEFINE run == LeadingRun(original)
  <2>3. /\ restart.plan.count = run
        /\ \A s \in Slots : s < run =>
             /\ restart.plan.controllers[s] = original.controllers[s]
             /\ restart.plan.classes[s] = IF original.controllers[s] = Human
                                            THEN original.classes[s] ELSE NoClass
        /\ \A s \in Players : s < run =>
             /\ restart.plan.teams[s] = original.teams[s]
             /\ restart.plan.difficulties[s] = original.difficulties[s]
    <3> DEFINE plan == WithRoster(other, original)
    <3>1. /\ plan.count = run
          /\ \A s \in Slots : s < run =>
               /\ plan.controllers[s] = original.controllers[s]
               /\ plan.classes[s] = IF original.controllers[s] = Human
                                      THEN original.classes[s] ELSE NoClass
          /\ \A s \in Players : s < run =>
               /\ plan.teams[s] = original.teams[s]
               /\ plan.difficulties[s] = original.difficulties[s]
      BY <2>1, RosterPlan, Zenon
    <3> QED  BY <2>2, <3>1, Zenon
  <2>4. /\ run \in 0 .. MaxPlayers
        /\ \A s \in Slots : s < run => original.controllers[s] \in {Human, AI}
        /\ run < MaxPlayers => original.controllers[run] \notin {Human, AI}
    BY <2>1, RunIs
  <2> HIDE DEF run
  <2>5. \A s \in Slots : s < MaxSlots /\ s \in Nat
    BY SlotFacts DEF Slots
  <2>6. AsPlanned(game.memory, restart.plan, MaxSlots)
    BY DEF RestartInv, PlanInv, WriteInv
  <2>7. ASSUME NEW s \in Slots, s < run
        PROVE  /\ s \in Players
               /\ \A t \in 0 .. s : original.controllers[t] \in {Human, AI}
               /\ game.memory.controllers[s] = original.controllers[s]
               /\ game.memory.teams[s] = original.teams[s]
               /\ game.memory.difficulties[s] = original.difficulties[s]
               /\ game.memory.classes[s] = IF original.controllers[s] = Human
                                             THEN original.classes[s] ELSE NoClass
    <3>1. s \in Players /\ s < MaxSlots
      BY <2>4, <2>5, <2>7, SlotFacts DEF Players
    <3>2. ASSUME NEW t \in 0 .. s PROVE original.controllers[t] \in {Human, AI}
      <4>1. t \in Slots /\ t < run
        BY <2>4, <2>5, <2>7, SlotFacts DEF Slots
      <4> QED  BY <2>4, <4>1
    <3>3. /\ game.memory.controllers[s] = restart.plan.controllers[s]
          /\ game.memory.classes[s] = restart.plan.classes[s]
          /\ game.memory.teams[s] = restart.plan.teams[s]
          /\ game.memory.difficulties[s] = restart.plan.difficulties[s]
      BY <2>3, <2>6, <2>7, <3>1 DEF AsPlanned
    <3> QED  BY <2>3, <2>7, <3>1, <3>2, <3>3
  <2>8. ASSUME NEW s \in Slots, ~ s < run
        PROVE  /\ game.memory.controllers[s] = Unused
               /\ ~ (s \in Players /\ \A t \in 0 .. s : original.controllers[t] \in {Human, AI})
    <3>1. game.memory.controllers[s] = Unused
      BY <2>3, <2>5, <2>6, <2>8 DEF AsPlanned
    <3>2. s \in Players => run < MaxPlayers /\ run \in 0 .. s
      BY <2>4, <2>5, <2>8, SlotFacts DEF Players
    <3> QED  BY <2>4, <3>1, <3>2
  <2> QED  BY <2>7, <2>8, Zenon DEF CopiesTheRun
<1> QED  BY <1>1, RestartsFit, PTL

\* Snapshots of a game made from the active profile leave that profile active: the game
\* matches it, and once its human is out of the game it matches none.
THEOREM RestartsKeepTheProfile == Spec => RestartKeepsTheProfile
<1>1. SettingsInv /\ MachineInv /\ RestartInv /\ [Next]_vars
        => [snapshot' \notin {snapshot, {}}
              /\ (\E profile \in game.made :
                    ActiveProfile = {profile} /\ profile.class # RandomClass)
            => config'.active = config.active]_vars
  <2> SUFFICES ASSUME SettingsInv, MachineInv, RestartInv, [Next]_vars,
                      snapshot' \notin {snapshot, {}},
                      NEW profile \in game.made,
                      ActiveProfile = {profile}, profile.class # RandomClass
               PROVE  config'.active = config.active
    OBVIOUS
  <2>1. TakeSnapshot
    BY DEF Next, Start, User, Select, Add, Delete, Edit, ToggleLock, ToggleSource, SaveChanges,
       Keep, Press, RestartThread, Relaunch, SetupReached, WriteSlot, WriteUnique,
       ActivateOk, RestartSucceeds, RestartFails, Game, UserStarts, SetupShown, Enter, Eliminate,
       GameEnds, playing, vars
  <2>2. /\ game.stage # "none" /\ config \in Config
        /\ config' = [config EXCEPT !.active = AutoSelect(game.memory)]
    BY <2>1 DEF TakeSnapshot, SettingsInv, Usable
  <2>3. config'.active = AutoSelect(game.memory)
    BY <2>2 DEF Config
  <2>4. profile \in Profile /\ FromIt(profile, game.memory, MaxSlots)
    BY <2>2, Fields DEF LiveGame, RestartInv, WriteInv
  <2>5. config.active \in Matching(game.memory) \/ Matching(game.memory) = {}
    <3>1. CASE game.memory.controllers[0] = Human
      <4>1. Matches(profile, game.memory)
        BY <2>4, <3>1, ProfileMatches
      <4>2. PICK k \in DOMAIN config.profiles :
              config.profiles[k].id = config.active /\ config.profiles[k].body = profile
        BY DEF ActiveProfile
      <4> QED  BY <4>1, <4>2 DEF Matching
    <3>2. CASE game.memory.controllers[0] # Human
      <4>1. HumanClass(game.memory) = {}
        BY <2>4, <3>2, HumanOfProfile
      <4>2. \A p : ~ Matches(p, game.memory)
        BY <4>1 DEF Matches
      <4> QED  BY <4>2 DEF Matching
    <3> QED  BY <3>1, <3>2
  <2>6. CASE config.lock \/ \A id \in Matching(game.memory) : Matching(game.memory) # {id}
    BY <2>3, <2>6 DEF AutoSelect
  <2>7. CASE ~ (config.lock \/ \A id \in Matching(game.memory) : Matching(game.memory) # {id})
    <3>1. PICK id \in Matching(game.memory) : Matching(game.memory) = {id}
      BY <2>7
    <3>2. Matching(game.memory) = {config.active}
      BY <2>5, <3>1
    <3>3. AutoSelect(game.memory) = CHOOSE i \in Matching(game.memory) : TRUE
      BY <2>7 DEF AutoSelect
    <3> QED  BY <2>3, <3>2, <3>3
  <2> QED  BY <2>6, <2>7
<1> QED  BY <1>1, RestartsFit, PTL DEF Spec, RestartKeepsTheProfile
===============================================================================
