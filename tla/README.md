# Azazel's CoE5 Assistant in TLA+

A model of the assistant's core logic: its debugger, its link to the module it
injects into CoE5, the controller and the restart threads that use the link,
the detours of the injected module, the profiles and their file, the set-up of
a restarted game, the remaps and the restart hotkey, and the plugins with the
framing they are spoken to in. Every definition is translated from the Rust
source; `PROJECT.json` maps each to its lines.

## 1. The system

| Part | Source | State it keeps | Operations |
|---|---|---|---|
| User interface | `crates/assistant/src/app.rs` | tabs, capture of a key | a round: `poll_events`, draw, clicks |
| Runtime controller | `runtime.rs` | `connection`, `process`, `ipc`, `snapshot`, `restart_guard`, results channel | `tick` (restart results, process, events, request), `retry_injection`, `restart_press`, requests |
| IPC server | `ipc.rs` | session thread, command writer, bounded command channel (256), unbounded event channel | `start`, `send`, `shutdown`, drop |
| Pipe transport | `crates/protocol/src/pipe.rs` | one overlapped handle | create, connect, read, write (15 s each), close |
| Protocol | `crates/protocol/src/lib.rs` | none | envelopes, framing |
| Injected runtime | `crates/injected/src/lib.rs` | `INITIALIZATION_STATE`, outbound channel | `AzazelInitialize`: connect, handshake, message loop, writer |
| Hooks | `crates/injected/src/hooks.rs` | table `installed`, six `ORIGINAL_...` statics, MinHook's patches and trampolines | `set_enabled`, `disable_all`, the detours |
| Game state, symbols | `state.rs`, `crates/symbols` | a manifest | validated reads, signature matching |
| Process handling | `process.rs` | none | `find_coe5`, `inject`, `launch_coe5`, `stop_coe5`, waits |
| External restart | `restart.rs` | the guard's first press; a plan | `press`, `capture`, `execute_external` |
| Debugger | `debugger.rs` | breakpoints, pending reinsertions, explicit steps, trap threads, the held event | commands of `DebuggerSession`, Windows' debug events |
| Configuration | `config.rs` | profiles, remaps, hotkeys | load, save, match, select |
| Input, plugins, updates, Lua | `input.rs`, `plugins.rs`, `update.rs`, `lua.rs` | remap rules; a child process; none; none | low-level hooks; start, send, stop; verify; evaluate |
| Tools | `crates/inject-probe`, `tools/update-signer` | none | development and release |

**How they interact.** The thread of the user interface runs the controller;
nothing else touches its state. Four kinds of thread meet it through channels
only: the session thread and the command writer of each `IpcServer`, the
restart threads, the debugger's worker, the input thread. The IPC threads meet
the injected runtime through the named pipe `...-<pid>` (one instance, so a
second server for the same game is refused while the first lingers). The
runtime's thread changes hooks while the game's threads run through them. The
debugger freezes the game, the runtime's thread included, so that the pipe's
deadlines pass.

The settings meet the game twice: a snapshot may select another profile, and a
restart writes a profile or the last snapshot into the set-up screen of the game
it has launched, while the user may already be confirming it, or the game is
still loading. The input thread asks Windows, for every key, which window is in
front and which modifiers are down; the answers change between a press and its
release. The user interface writes to plugins on its own thread and reads from
them on another.

**What is hard.** Debug events queued behind the one that is held; a step over
a breakpoint interrupted by an exit, another breakpoint, a detach; Windows and
MinHook calls that fail half-way; a link whose loss is noticed only by its
writer; an injected runtime that starts once per process whatever is injected
again; a game that exits or is replaced while it is being connected to; a
restart thread working while the controller goes on monitoring; a detour
overtaken by the removal of its hook; a file replaced in two steps by a program
that may end between them; a roster copied from a game in which someone was
eliminated; a rule that changes while the key it replaces is held; two sides
that write to each other over pipes that fill up, and a pipe that nobody reads; a
window whose thread waits for room in a channel. `PROJECT.json` lists each
hazard with its line.

**What makes each part correct.** Debugger: the game's code is its own except
where a breakpoint says so, no breakpoint is forgotten, no trap flag is left
behind, no step exception reaches the game, leaving ends and harms nothing.
Controller and link: the link belongs to the game shown, a loss is reported,
an exit is noticed, a command is sent, a restart ends. Hooks: a patched function
reaches its original, the table is true, the game gets its functions back.
Profiles: the active one
exists, none is lost but by deletion, a game made from one is recognized as it,
and a copied game mirrors the original. Remapper: nothing sticks, no other
window is touched, an output is not remapped again. Restart hotkey: two presses
for each restart, one chord registered. Framing: what was written is what is
read, whole and in order, across any split of the bytes. Plugins: a plugin's
failure stays its own, and none outlives its host.

## 2. The modules

```
Debugger ── DebuggerProofs ── SteppingProofs    Hooks ── HooksProofs
   └─ MCDebugger                                   └─ MCHooks
Link ── Runtime ── RuntimeProofs    Profiles ── Settings ── SettingsProofs
           └─ MCRuntime                            └─ MCSettings
Input ── InputProofs                Fifo ── Plugins ── PluginsProofs ── HeardProofs
   └─ MCInput                                  └─ MCPlugins
```

Each module stands for a part that shares little with the others: `Runtime`
composes the controller with `Link`, and `Settings` composes the edits, the
file, the snapshots and the restart over the operators of `Profiles`. `Fifo` is
an abstract specification; `Plugins` instantiates it twice, once for each
direction, and implements both.

### Debugger (`crates/assistant/src/debugger.rs`)

The game's side is a set of threads, each at an address (`at`), in a state
(`thread`), with a trap flag (`tf`), over code whose first bytes are `byte`;
traps append to `events`, Windows' queue. The worker's side keeps the names of
`DebuggerCore`: `breakpoint`/`saved` (the table and `original_byte`),
`pending_reinsert`, `explicit_steps`, `trap_threads`, `held`, the two flags and
`detach_pending`. Each command and each kind of debug event is one action,
since the game is frozen while the worker handles an event and the worker is
alone. Commands are taken when they are given: the channel is unbounded and
the worker drains it before each wait. Rip inside an instruction, or an
exception of the debugger's making that nobody claims, makes a thread `lost`:
the game is about to go down. `failures` counts failed Windows calls; `residue`
says that a clean-up failed too and left an `int3` or a flag that no table
lists. The hardware breakpoints `docs/architecture.md` speaks of are not in
the code and not in the model.

### Link (`ipc.rs`, `injected/src/lib.rs`, `protocol/src/pipe.rs`)

Threads and channels of one or more `IpcServer`s and the runtimes they talk to:
`session` and `injected` are program counters, `commands`, `pipe` and `events`
the three queues, `owned` whether the `IpcServer` value still exists. A game
is new, running, frozen or dead. Time is replaced by what lets a 15-second
deadline pass: an operation times out only when its peer is dead, frozen, or
busy with something that does not end. `AzazelInitialize` is entered any
number of times and runs once. Frames are their kinds; equal replies in a row
are kept as one, since the second changes nothing. The module states the
steps; `Runtime` composes them.

### Runtime (`runtime.rs`, `restart.rs`, `process.rs`)

The round of the user interface (`ui`: results, monitor, inject, poll,
request, user) with every other thread and process moving between its steps:
`prepare_injection` is two of them, because `inject` waits for the game.
`IpcServer::send` blocks the thread of the user interface while the command
channel is full. So each send is a step of its own (`EnableHook`,
`AskSnapshot`, `StartRestart`), decided on by another (`PollIpc`,
`RequestSnapshot`, `Request`, `Restart`), and the whole interface waits at it
(`Sending`): no poll, no monitor and no click comes in between.

`StartRestart` sends Shutdown and spawns a thread of `execute_external`: open,
close, launch or ask Steam, find, set up, wait for the world, each of which may
fail. The spawn may fail too, after the state has become Restarting. Nothing
keeps restarts from overlapping but the number of threads (`Restarts`).
`Launches` says whether games are launched by the assistant, through Steam, or,
the setting being changed in between, both. Users start games only when none
runs, also between the two steps of a restart in which none does.

### Hooks (`injected/src/hooks.rs`)

`HookManager::enable` and `disable` in the steps between which the game runs:
create the trampoline, store the static, patch; unpatch, free, clear. A
game thread enters a patched function, loads the static, calls what it read,
returns. Reading a static and finding null skips the call; reading a trampoline
that is then freed loses the thread. The observed events are left out.

### Profiles and Settings (`config.rs`, `restart.rs`, the Status and Profiles tabs of `app.rs`)

`Profiles` has the pure part as operators on records: `Matches` and
`Differences` of a profile and a snapshot, `FromProfile` and `Capture` (the two
plans, with the command line that is kept and the roster that is copied) and
`Written`, the writes of `apply_participant_setup` for one slot. The memory of
a game is a controller and a class for each of `MaxSlots` slots and a team and
a difficulty for each of the first `MaxPlayers` of them, as in the code (32 and
24). An eliminated participant still counts for a match but ends the copied
roster, as in the code (and against the user guide: `Settings_copy`).

`Settings` follows them through sessions of the assistant and through games:
`config` in memory and `disk`, the file; a save leaves either the old file or
the new one, and the assistant may end and start at any step, with a file it
cannot read too. The restart thread launches a game, waits for its set-up
screen, writes it slot by slot, and confirms it, while the user may confirm it
first, or end the game. It takes a first controller of 0 for the screen, which a
game that is still loading has too (`SetupReached`): what is written then is lost
when the screen comes up. The last snapshot outlives the game that is closed for a
restart, unless the controller notices that it is gone before the next is there
(`Relaunch`), so that a copy may be one of an older state, or of an older game.
`game.made`, `restart.wanted`, `restart.copied` and `restart.running` remember
which profile, snapshot or game a game was made from; no step reads them.

### Input (`input.rs`, the Hotkeys tab of `app.rs`, `RestartGuard`)

Three views of the keyboard (`held` by the user, `down` for Windows, `seen` by
the game) that differ whenever a press is replaced; `sent` are the events one
call of `SendInput` has inserted and that are under way: any number of the first
ones it is given, since it may insert fewer (`Inserts`). `cut` are the keys whose
press was inserted and whose release was not. The Hotkeys tab edits
`rows`, of which the hooks see a copy (`rules`) that is handed over only by
Save and by the trash button; a key field finds its row by index
(`capture.index`), which `no` lets the properties compare with the row that was
meant. `guard` is the age of the first press; the hotkey is one of `Chords`,
for which other programs compete. A rebind gives up before it tries anything when
the old hotkey is not registered (`Rebind`).

### Fifo and Plugins (`plugins.rs`, `FrameCodec` in `protocol/src/lib.rs`, the Plugins tab)

A frame is two cells, its length and its body, each of which is written and read
on its own, so that a crash, a stop or a full pipe cuts it there. `ui` is the
thread of the user interface, which writes and waits when `stdin` is full,
`reader` the thread that reads `stdout` and feeds the unbounded `channel`. The
plugin is external: it greets, answers a ping before it reads on, speaks
unasked, sends what cannot be read, and ends at any moment. It also logs to its
stderr, which the assistant pipes and never reads: once `logs` exceeds what that
pipe holds the plugin waits (`Stuck`), until the assistant closes its ends.
`asked`/`taken` and `said`/`heard` are the messages written and got in either
direction, and `Fifo` says how they may change: what was got is the start of
what was written, and it stops growing once the end has been reported.

## 3. The runs

Model values stand for threads, addresses, games, links, profile ids and
chords; symmetry is used where a safety run treats them alike.

| Run | Question | Instance |
|---|---|---|
| `Debugger_race` | two threads at one breakpoint: code and table, lifted breakpoints, trap flags, claimed steps | 2 game threads, 1 break-in thread, 1 address |
| `Debugger_live` | one thread, two breakpoints (a step may land on the next): leaving Debug Mode ends | 1 + 1 threads, 2 addresses, fair |
| `Debugger_failures` | calls that fail, faults of the game: code and table, trap flags | 1 + 1 threads, 1 address, 2 failures |
| `Debugger_leave` | *violated*: leaving Debug Mode keeps the game | as `Debugger_race` |
| `Runtime_link` | whose link it is, whether its loss or an exit is missed | 2 games (one with an incompatible module), 2 links, freezes, retries, a channel of 1 command, fair |
| `Runtime_restart` | the same with a restart, by the assistant or through Steam: every wait for room in the channel ends, and so does Restarting, but for one hang | 2 games (one unsupported), 1 link, 1 restart, requests of the user, a channel of 1 command, fair |
| `Runtime_dropped` | *violated*: a running game gets injected | 2 games, 3 links, 1 restart, fair |
| `Hooks_detours` | patch, trampoline, static and table agree; the end unhooks | 2 hookable functions and 1 other, 2 threads, 2 failures, fair |
| `Settings_restart` | the active profile exists, profiles survive, a game made from a profile is what it should be, and one copied from a snapshot its leading run | 2 profiles, 3 players in 4 slots, 2 games, 2 edits, 1 unreadable file, 1 elimination |
| `Settings_copy` | *violated*: a copied game mirrors the roster of the running one | as `Settings_restart` |
| `Input_keys` | nothing sticks that is not cut off, no other window is touched, the armed field gets its key, outputs end, two presses a restart, one hotkey | 2 keys, 1 button, Control, 2 rows, 3 edits, 2 inputs held, 1 key cut off, 2 chords |
| `Plugins_streams` | both streams implement `Fifo`; the user interface is freed; a plugin ends with its host | pipes of 3 cells, a stderr of 1 line, 3 pings, 2 events, 2 starts, fair |

**Bounds and why they are enough.** *Debugger.* Two threads and one address give
every order of hit, step, exit and detach around one breakpoint, the unit the
tables are keyed by; two addresses add the step from one breakpoint onto
another. One break-in thread at a time stands for Windows reusing its id. Two
failures allow one operation and its clean-up to fail. *Runtime.* In
`Runtime_link` two links are the one held and the one a retry starts; in
`Runtime_restart` one is enough, since one game is supported and it is linked to
once; in `Runtime_dropped` a restart drops one more. A channel of one command
(256 in the code) and a pipe of one frame fill within a round, so that every
kind of send meets a full channel. One restart at a time is a bound of the runs,
not of the code: two of them with a fair scheduler take TLC longer than is
practical. What two do is known: with `Restarts = {r1, r2}` and three games TLC
finds two games running, since nothing keeps `start_external_restart` from
starting a second thread; no property here says that one game runs. *Settings.*
Three players in four slots make the two table sizes differ and allow a full
table, a table with a hole, and an eliminated participant before one that still
plays; the profiles differ in every field a snapshot shows; the second game is
the one the restart launches, and a restart is asked for only while a game is
left to launch. `config.toml` starts with both profiles or is not there.
*Input.* Two rows are enough for one remap to produce the trigger of another or
its own, with and without Control; the user holds at most two inputs, so that a
trigger and its modifier are pressed and released in every order; three edits
let a row be changed, handed over, and removed while a key is held. `MaxCut` = 1
lets every cut happen but the one between the two presses of Control and a key,
which would leave both down; the theorem is for any `MaxCut`. *Plugins.* A pipe
of three cells holds one frame and half of the next, so that writes stop at
either boundary and in the middle; three pings with their answers and two
unasked messages fill both pipes at the same time, and two lines fill stderr. A
second start must not see anything of the first.

**Fairness.** The debugger's worker and the game's threads are scheduled (`WF`):
the worker polls with finite timeouts. A game that has lost a thread crashes.
The user interface goes on where it can (`WF_vars(Tick)`: egui repaints every
100 ms, and a send goes on when there is room); the request of every second and
the search for a process happen again and again if they can again and again
(`SF`), because they depend on a clock and on a system call that may fail for a
while. A reply that is never taken eventually fills the runtime's pipe (`SF` on
`RepliesStuck`: requests keep coming). IPC threads, runtimes and restart threads
run (`WF`), each of their waits having a deadline. The user interface and the
reader thread of a plugin run (`WF`). Of the plugin, which is not in the
repository, it is assumed that it greets, goes on reading, and writes when there
is room, as long as it does not wait for room in its stderr: `start` and `send`
have no deadline, so a plugin that does not would hold the window for ever. What
the assistant itself does to the plugin, leaving its stderr unread, is in the
model, and is the exception of `UiIsFreed`. Nothing is assumed of users, of
games starting, exiting or thawing, of plugins not crashing, or of MinHook.

**Deadlock** is checked except where the system may stop: `Debugger_failures` (a
failed `ContinueDebugEvent` of the exit event followed by a step leaves a trap
flag claimed on a dead process, and the worker then waits for it for ever),
`Debugger_leave` (a lost game), `Runtime_restart` and `Runtime_dropped` (the
window hangs on a link that was never connected, with nothing else to happen),
`Hooks_detours` (all threads lost), `Settings_restart`, `Settings_copy`,
`Input_keys` and `Plugins_streams` (nobody has to do anything, and their bounds
on what users and plugins do are used up).

### What the code does otherwise than documented

Three are shown by runs that are violated:

- Leaving Debug Mode may crash the game: `detach` restores the bytes but not the
  Rip of threads whose breakpoint events are still queued (`Debugger_leave`).
- A game that the monitor injected before its restart reported success loses
  its link for good, as its runtime starts only once (`Runtime_dropped`).
- A copied game lacks the participants behind an eliminated one, who still play:
  the roster ends at the first inactive slot (`Settings_copy`). `CopyIsTheLeadingRun`
  says what the copy is instead.

These are in the models too, but no run is spent on them:

- A runtime that gives up leaves the assistant in Connecting, against
  `README.md:62`: `ConnectNamedPipe` waits without a deadline.
- The snapshot survives a restart and may seed the next one, against
  `docs/user-guide.md:44-47`.
- While the state is Connecting nobody takes commands: when the Snapshot button has
  filled the channel, the window hangs at the next click or restart (`Hung`), until
  the game's runtime connects, against "External restart remains available when
  injection fails" (`README.md:64`).
- A restart whose thread cannot be spawned leaves Restarting, which no result will
  end (`runtime.rs:288-297`).
- `SendInput` may insert the press of a key and not its release; the error is
  returned to a hook that ignores it, and the key stays down.
- A restart hotkey that has been lost to another program cannot be replaced before
  the assistant is started again: every rebind fails at the `?` of `app.rs:234`.
- A plugin that has filled its stderr and reads no more holds the window for ever once
  the pipe to it is full, and `stop` does not help: it writes Shutdown before it kills.
- A restart that finds a game still loading takes it for its set-up screen, and what
  it writes is lost, although `docs/user-guide.md:103-106` says that this has been
  mended for failed reads: a read of 0 succeeds.
- A file that could not be read is overwritten by the next save, against "Profiles
  never overwrite silently" (`docs/architecture.md:90`).
- A call that is in a detour while its hook is removed is skipped, or runs into
  freed memory.
- `AzazelInitialize` never returns after a Shutdown, because `EVENT_SENDER` keeps
  its writer's channel open; nothing waits for it.
- A remaps row that is removed while a key field is armed leaves the field to the
  row that has taken its index.
- The first run does not create `config.toml` (`docs/user-guide.md:96`): the
  defaults stay in memory until something is saved.
- The relaunch of a loaded map gets none of the window flags that the comment at
  `restart.rs:262-264` speaks of.

## 4. The proofs

TLAPS proves, for all values of the constants under the named assumptions of
each module:

- **`TypeCorrect`** (Debugger): `TypeOK` is inductive on its own; one lemma per
  group of actions.
- **`TrapFlagsAreOwned`** (Debugger): `TrapFlagsOwned` with `TypeOK` needs to know
  that a reported process exit means a dead process (`ExitMeansDead`), or the
  worker could forget `trap_threads` while a flag is still set; this is proved
  first (`ExitEventIsLast`).
- **`CodeIsSafe`** (Debugger): `CodeMatchesTable` needs that a table of breakpoints
  exists only during a session (`TableInSession`), so that the next session starts
  from clean code, and lemmas on what partially failing writes leave.
- **`EveryStepIsClaimed`** (Debugger, in `SteppingProofs`): `StepInv` says of every
  thread what its trap flag is for (a breakpoint to put back, a step of the user,
  or a breakpoint it is still held on), that a single-step exception comes from a
  set flag, and that without a session no thread waits for an event. It needs
  `TrapFlagsOwned` and that only a failed clean-up leaves something behind.
- **`LiftedIsPutBack`** (Debugger, in `SteppingProofs`): that `continue_held` never
  overwrites an entry of `pending_reinsert` by another breakpoint. `LiftInv`
  relates what Windows has queued for a thread, what is held, and where the
  thread is: a thread with a breakpoint to put back is still at it, held on it
  again, or has its step or exit queued. The theorem assumes
  `~ GameFaults \/ \A a, b \in Addrs : a = b`, and the assumption is needed: with
  one thread, two addresses and `GameFaults = TRUE`, TLC finds a behaviour of 15
  states in which the instruction under the first breakpoint faults while it is
  stepped over, the game's handler moves the thread onto the second breakpoint,
  and Continue replaces the entry for the first, which stays lifted.
- **`PatchedCallsReachTheGame`**, **`TableIsAlwaysTrue`**, **`TypeCorrect`** (Hooks):
  `HooksInv` adds `ManagerInv`, what the manager is in the middle of: between its
  steps the function it works on is not patched, and before it is patched the
  trampoline and the static are there. Without it neither is inductive.
- **`NothingIsLeft`** (Hooks): `LeftInv` says at every step of the manager which
  trampolines and statics there are: those of the table, and those of the
  function it works on as far as it has got.
- **`TypeCorrect`** (Runtime): the types of `Link` and of the controller, with the
  capacity of the command channel.
- **`LinkIsForTheGame`** (Runtime): `IpcIsForProcess` with `KeepsItsLinks`: the
  server being started in `prepare_injection` is another than the link kept,
  both are owned and named after the process shown. Ownership is what keeps a
  session from being reused under the controller's feet.
- **`InjectedLinksAreBacked`** (Runtime): `InjectedIsBacked` needs `WordOrder`: a
  channel is empty until the handshake, and the last word in it, once its session
  is over, is Disconnected, so that taking any other word leaves one to come.
- **`TypeCorrect`**, **`NoKeySticks`**, **`OthersAreLeftAlone`**,
  **`InsertedEventsRunOut`**, **`RestartTakesTwoPresses`** (Input): for any remaps
  and any number of keys. `NothingSticks` says nothing while a key is held, so its
  invariant says what is down at every moment (`Accounted`): only keys the user
  holds, that the events under way will still release, or that `SendInput` has cut
  off. `InsertedEvents` says of any number of the first events of a remap which of its
  keys they leave down. `TwoPressesPerRestart`
  needs that a fresh first press is one no restart has used (`GuardCounts`).
- **`CapturedKeysLand`**, **`HotkeyStaysOurs`** (Input): the armed row is at the
  index of the field as long as none is removed (`ArmedIsThere`), and no chord but
  the hotkey is registered at any time (`OnlyHotkey`).
- **`TypeCorrect`**, **`PluginsEndWithTheirHost`** (Plugins).
- **`ToPluginIsAFifo`** (Plugins): the stream to a plugin implements `Fifo` for
  pipes of any size. The invariant (`ToInv`) numbers the cells from the first
  one written: the reader has got so many messages and perhaps one cell of the
  next, the pipe goes on from there with lengths at odd and bodies at even
  places, each body that of the next message (`Carries`), and what is still to
  be written is the rest of the frame that was begun (`OfFrame`). `Put` and
  `Take` say what one cell does to it; every step then maps to a step of `Fifo`
  or to a stutter.
- **`FromPluginIsAFifo`** (Plugins, in `HeardProofs`): so does the stream from a
  plugin, for which the reader's channel lies in between. What was heard is the
  start of what was said, the channel up to its end (`Shown`) has what comes
  next, and the pipe, as long as somebody reads it, carries what comes after that
  (`HeardInv`). `Stages` says who holds the plugin when: without it a reader could
  be left from an earlier plugin.
- **`ActiveProfileExists`**, **`ProfilesAreKept`** (Settings): for any profiles,
  games, snapshots and edits. `SettingsInv` says that the active profile exists in
  the configuration and in the file, which becomes the configuration of the next
  session, and that what the file has and the configuration has not was deleted,
  or could not be read. `Changes` says what a step may do to the settings; each
  step of the user and of a snapshot does only that, and the others nothing.

- **`TypeCorrect`** (Settings): `TypeOK` says nothing of the fields that a game or a
  restart has, so its invariant does (`MachineInv`).
- **`MadeGamesAreRecognized`**, **`CopiesAreLeadingRuns`**, **`RestartsKeepTheProfile`**
  (Settings): for any profiles, memories and numbers of slots and players. The
  first lemmas are about the operators of `Profiles`, each stated once: what `First`
  finds (a least number, by well-founded induction on `Nat`), what a plan of
  `FromProfile` or `WithRoster` has in each slot, what one call of `Written` sets and
  what it leaves. `RestartInv` follows the restart with them: the slots below
  `restart.slot` are those of the plan as long as the set-up screen is up
  (`AsPlanned`), unless the writing began before the screen was there, and those of a
  profile the game is made from stay so when its world is created and when
  participants are eliminated (`FromIt`). The copy is one of whichever snapshot there
  was when the restart was asked for. `RestartsKeepTheProfile`
  adds that there is one snapshot at most.

The named assumptions give the constants their kinds: sets of threads, games or
functions that do not overlap, bounds that are numbers, model values that are no
member of the types they stand beside (`NoneIsNoRecord`, for the records of the
debugger). The one that restricts the behaviour is that of `LiftedIsPutBack`; it
is a hypothesis of the theorem, not of the module.

Only model-checked: liveness, which is beyond the prover (`LeavingEnds` of
Debugger, the reports of losses and exits and the ends of sends and of a restart
of Runtime, `GameIsUnhooked` of Hooks, `UiIsFreed` of Plugins). Every other
property of the passing runs is a theorem.

## 5. Not modelled

Windows' scheduling beyond what the actions say; process ids reused (a game never
comes back under its id); `TerminateProcess` is immediate; the overlapped read a
timeout does not cancel; the ping, invoke and diagnostics messages of the
injected runtime, which only answer; where the set-up window is clicked and how a
command line is split into tokens; the values of snapshots and signatures;
drawing, logs and wording.

Left out as whole components, with the reasons in `PROJECT.json`: the symbol
manifest (look-ups in a constant table), the verification of updates (one
decision over one input; nothing acts on it), the Lua console (one evaluation,
no state), start-up, constants, the probe and the signer (tools for development
and release, not part of the program).

`LiftedComesBack` and `LeavingEnds` assume that the game raises no exceptions of
its own (`GameFaults = FALSE`): its handlers may drop the trap flag of a thread
that is being stepped, after which the step never ends, or move it onto another
breakpoint, after which the first is forgotten (section 4). `Settings` has one
restart at a time and knows at once that a game has started; `Runtime` has the
time in between. `CapturedKeyLands` is about a field whose row was not removed
while it was armed, and `PatchedReachesOriginal` about calls that the removal of
their hook does not overtake. In `Input` the modifiers are one, Control, and the
game takes every key for released when it loses the foreground.

## 6. Plan

Next, in this order:

1. Facts on which the liveness properties rest and which are safety: what a
   detach still waits for, which deadline a waiting thread has.
2. `Connection`, an abstract specification of the link (no game, connecting,
   linked to *p*, lost), implemented by `Runtime` under a refinement mapping.
3. The pipe with its overlapped reads (`pipe.rs`): the read a timeout leaves
   behind, under `Plugins`' frames.

To check: `tlc -config <Run>.cfg MC<Module>.tla` for each run, with the part of
its name before the underscore for `<Module>`, and `tlapm` for each
module of proofs.
