------------------------------ MODULE Runtime -------------------------------
(***************************************************************************)
(* The controller of the assistant (crates/assistant/src/runtime.rs) with  *)
(* the links it keeps to games (Link) and the threads that restart them    *)
(* (execute_external in crates/assistant/src/restart.rs).                  *)
(*                                                                         *)
(* The thread of the user interface runs the controller: in each round a   *)
(* tick (results of restarts, the process, events of the link, a periodic  *)
(* request), then what the user clicked.  Between its steps every other    *)
(* thread and process may move.  A command for the link is sent in a step  *)
(* of its own, since the thread waits there while the channel is full.     *)
(*                                                                         *)
(* Abstractions: time is replaced by what makes a deadline pass (a peer    *)
(* that can answer within 15 seconds does); snapshots are told apart by    *)
(* the game they were taken of; a restart is the second press of its       *)
(* hotkey; logs, capabilities and the plan's arguments are left out.       *)
(***************************************************************************)
EXTENDS Link

CONSTANTS
  Restarts,    \* restart threads that run at a time
  Supported,   \* games whose executable the manifest lists
  Buttons,     \* what the user clicks: "Retry", "Request", "Restart"
  CanFreeze,   \* whether a debugger or the system freezes games
  Launches     \* values of config.launch_via_steam: "Steam", "Executable"

ASSUME RuntimeAssumption ==
  /\ Supported \subseteq Games
  /\ Buttons \subseteq {"Retry", "Request", "Restart"}
  /\ CanFreeze \in BOOLEAN
  /\ Launches \subseteq {"Steam", "Executable"}
  /\ None \notin Restarts

VARIABLES
  \* RuntimeController
  connection, process, ipc, snapshot,
  \* the thread of the user interface
  ui,        \* where it is in its round
  starting,  \* the IpcServer prepare_injection has started
  retrying,  \* prepare_injection was called by the Retry button
  \* restart threads, the channel of their results, and Steam
  restart, results, steam

controller == <<connection, process, ipc, snapshot>>
uiThread == <<ui, starting, retrying>>
restarts == <<restart, results, steam>>
vars == <<linkVars, controller, uiThread, restarts>>

-----------------------------------------------------------------------------
ConnectionState == {"NoGame", "Connecting", "Injected", "Degraded", "Restarting"}
\* "opening" and "closing": stop_coe5 before and after OpenProcess; "launch";
\* "find": wait_for_coe5_different; "setup": the setup screen up to its Ok;
\* "world": wait_for_world_creation; "done": the result is in the channel.
RestartStage == {"idle", "opening", "closing", "launch", "find", "setup",
                 "world", "done"}
Maybe(S) == S \cup {None}
RestartThread == [stage : RestartStage, current : Maybe(Games),
                  target : Maybe(Games)]
RestartResult == [thread : Restarts, ok : BOOLEAN]
NoRestart == [stage |-> "idle", current |-> None, target |-> None]
\* Where the thread of the user interface is inside IpcServer::send: of the
\* hook that is always on, or of a request for a snapshot when the link is
\* up ("greet"), in tick and for a button; and of Shutdown.
Sending == {"enable", "greet", "requesting", "asking", "restarting"}

TypeOK ==
  /\ LinkTypeOK
  /\ connection \in ConnectionState
  /\ process \in Maybe(Games)
  /\ ipc \in Maybe(Sessions)
  /\ snapshot \in Maybe(Games)
  /\ ui \in {"user", "results", "monitor", "inject", "poll", "request"} \cup Sending
  /\ starting \in Maybe(Sessions)
  /\ retrying \in BOOLEAN
  /\ restart \in [Restarts -> RestartThread]
  /\ results \in Seq(RestartResult)
  /\ steam \in BOOLEAN

Init ==
  /\ LinkInit
  /\ connection = "NoGame" /\ process = None /\ ipc = None /\ snapshot = None
  /\ ui = "results" /\ starting = None /\ retrying = FALSE
  /\ restart = [r \in Restarts |-> NoRestart] /\ results = << >>
  /\ steam = FALSE

\* The link of the controller, if any, as a set.
Current == {ipc} \ {None}

-----------------------------------------------------------------------------
(* tick: poll_restart_result.                                              *)

\* MUTANT: the error of a restart is logged and nothing else.
LogRestartError == UNCHANGED controller

RestartFailed ==
  connection' = "Degraded" /\ UNCHANGED <<process, ipc, snapshot>>

\* MUTANT: the link to the game that was restarted is kept.
KeepLink ==
  /\ connection' = "NoGame" /\ process' = None
  /\ UNCHANGED <<ipc, snapshot, owned, events>>

RestartSucceeded ==
  /\ connection' = "NoGame" /\ process' = None /\ ipc' = None
  /\ Drop(Current)
  /\ UNCHANGED snapshot

PollRestartResult ==
  /\ ui = "results"
  /\ \/ /\ results = << >>
        /\ ui' = "monitor"
        /\ UNCHANGED <<controller, owned, events, restart, results>>
     \/ /\ results # << >>
        /\ \/ /\ Head(results).ok
              /\ RestartSucceeded
           \/ /\ ~ Head(results).ok
              /\ RestartFailed
              /\ UNCHANGED <<owned, events>>
        /\ results' = Tail(results)
        /\ restart' = [restart EXCEPT ![Head(results).thread] = NoRestart]
        /\ UNCHANGED ui
  /\ UNCHANGED <<game, injected, session, pid, writer, commands, pipe, starting,
                 retrying, steam>>

-----------------------------------------------------------------------------
(* tick: monitor_process.                                                  *)

\* MUTANT: a game that is being connected to is taken to be alive.
AliveOrConnecting ==
  /\ ui = "monitor" /\ process # None
  /\ Alive(process) \/ connection = "Connecting"
  /\ ui' = "poll"
  /\ UNCHANGED <<linkVars, controller, starting, retrying, restarts>>

MonitorAlive ==
  /\ ui = "monitor" /\ process # None /\ Alive(process)
  /\ ui' = "poll"
  /\ UNCHANGED <<linkVars, controller, starting, retrying, restarts>>

\* MUTANT: the link of a game that exited is kept.
ForgetProcess ==
  /\ process' = None /\ connection' = "NoGame" /\ snapshot' = None
  /\ UNCHANGED <<ipc, owned, events>>

Forget ==
  /\ process' = None /\ connection' = "NoGame" /\ snapshot' = None
  /\ ipc' = None /\ Drop(Current)

\* The process exited.  The same call goes on to look for another.
MonitorExited ==
  /\ ui = "monitor" /\ process # None /\ ~ Alive(process)
  /\ Forget
  /\ UNCHANGED <<game, injected, session, pid, writer, commands, pipe, uiThread,
                 restarts>>

\* find_coe5 finds nothing, or fails.
MonitorFindsNothing ==
  /\ ui = "monitor" /\ process = None
  /\ ui' = "poll"
  /\ UNCHANGED <<linkVars, controller, starting, retrying, restarts>>

\* prepare_injection(p) up to IpcServer::start: listens, or fails because an
\* older pipe of the game is still open.
StartServer(p) ==
  /\ \E s \in Sessions : Listen(s, p) /\ starting' = s
  /\ ui' = "inject"

\* find_coe5 finds a game, the first in the list of the system.
MonitorFinds(p) ==
  /\ ui = "monitor" /\ process = None /\ Alive(p)
  /\ process' = p
  /\ \/ /\ p \in Supported
        /\ connection' = "Connecting"
        /\ StartServer(p)
     \/ /\ p \notin Supported \/ ~ CanListen(p)
        /\ connection' = "Degraded"
        /\ ui' = "poll"
        /\ UNCHANGED <<links, starting>>
  /\ UNCHANGED <<game, injected, ipc, snapshot, retrying, restarts>>

-----------------------------------------------------------------------------
(* prepare_injection: inject.                                              *)

\* A thread has entered AzazelInitialize; the new server replaces the one
\* of before.
InjectSucceeds ==
  /\ Running(process)
  /\ Initialize(process)
  /\ ipc' = starting
  /\ Drop(Current)
  /\ UNCHANGED connection

\* OpenProcess or LoadLibraryW fails or times out.  monitor_process then
\* degrades the connection, a retry only shows the error.
InjectFails ==
  /\ Drop({starting})
  /\ connection' = IF retrying THEN connection ELSE "Degraded"
  /\ UNCHANGED <<injected, ipc>>

Inject ==
  /\ ui = "inject"
  /\ InjectSucceeds \/ InjectFails
  /\ starting' = None /\ retrying' = FALSE
  /\ ui' = IF retrying THEN "results" ELSE "poll"
  /\ UNCHANGED <<game, session, pid, writer, commands, pipe, process, snapshot,
                 restarts>>

-----------------------------------------------------------------------------
(* tick: poll_ipc and the periodic request.                                *)

PollIpc ==
  /\ ui = "poll" /\ ipc # None /\ events[ipc] # << >>
  /\ LET event == Head(events[ipc])
     IN \/ /\ event = "Connected"
           /\ connection' = "Injected"
           /\ ui' = "enable"
           /\ UNCHANGED snapshot
        \/ /\ event = "Snapshot"
           /\ snapshot' = pid[ipc]
           /\ UNCHANGED <<connection, ui>>
        \/ /\ event = "CapabilityReport"
           /\ UNCHANGED <<connection, snapshot, ui>>
        \/ /\ event = "Disconnected"
           /\ connection' = "Degraded"
           /\ UNCHANGED <<snapshot, ui>>
  /\ events' = [events EXCEPT ![ipc] = Tail(@)]
  /\ UNCHANGED <<game, injected, session, pid, writer, commands, pipe, owned,
                 process, ipc, starting, retrying, restarts>>

\* The link is up: the hook that is always on,
EnableHook ==
  /\ ui = "enable" /\ ipc # None /\ Send(ipc, "SetHook")
  /\ ui' = "greet"
  /\ UNCHANGED <<game, injected, session, pid, writer, pipe, events, owned,
                 controller, starting, retrying, restarts>>

\* and the first of the requests, or any later one.
AskSnapshot ==
  LET next == [greet |-> "poll", requesting |-> "user", asking |-> "results"]
  IN /\ ui \in DOMAIN next /\ ipc # None /\ Send(ipc, "SnapshotRequest")
     /\ ui' = next[ui]
     /\ UNCHANGED <<game, injected, session, pid, writer, pipe, events, owned,
                    controller, starting, retrying, restarts>>

PollIpcEnds ==
  /\ ui = "poll" /\ (ipc # None => events[ipc] = << >>)
  /\ ui' = "request"
  /\ UNCHANGED <<linkVars, controller, starting, retrying, restarts>>

\* MUTANT: no request is made while nothing is known of the game.
RequestWithSnapshot ==
  /\ ui = "request" /\ connection = "Injected" /\ ipc # None
  /\ snapshot = process
  /\ ui' = "requesting"
  /\ UNCHANGED <<linkVars, controller, starting, retrying, restarts>>

\* A second has passed since the last request.
RequestSnapshot ==
  /\ ui = "request" /\ connection = "Injected" /\ ipc # None
  /\ ui' = "requesting"
  /\ UNCHANGED <<linkVars, controller, starting, retrying, restarts>>

EndTick ==
  /\ ui = "request"
  /\ ui' = "user"
  /\ UNCHANGED <<linkVars, controller, starting, retrying, restarts>>

-----------------------------------------------------------------------------
(* What the user clicks in a round, if anything.                           *)

NoClick ==
  /\ ui = "user" /\ ui' = "results"
  /\ UNCHANGED <<linkVars, controller, starting, retrying, restarts>>

\* retry_injection: an error of prepare_injection is shown, whatever it has
\* changed so far.
Retry ==
  /\ "Retry" \in Buttons
  /\ ui = "user" /\ process \in Supported
  /\ connection' = "Connecting"
  /\ \/ StartServer(process) /\ retrying' = TRUE
     \/ /\ ~ CanListen(process)
        /\ ui' = "results"
        /\ UNCHANGED <<links, starting, retrying>>
  /\ UNCHANGED <<game, injected, process, ipc, snapshot, restarts>>

\* The Snapshot button, or one that switches a hook.
Request ==
  /\ "Request" \in Buttons
  /\ ui = "user" /\ ipc # None
  /\ ui' = "asking"
  /\ UNCHANGED <<linkVars, controller, starting, retrying, restarts>>

\* restart_press: nothing keeps a restart from starting while another one
\* runs.
Restart ==
  /\ "Restart" \in Buttons
  /\ ui = "user" /\ process # None
  /\ \E r \in Restarts : restart[r].stage = "idle"
  /\ ui' = "restarting"
  /\ UNCHANGED <<linkVars, controller, starting, retrying, restarts>>

\* start_external_restart: Shutdown is sent, then the thread is spawned; if
\* it cannot be, the error is shown and "Restarting" stays.
StartRestart ==
  /\ ui = "restarting"
  /\ IF ipc # None THEN Send(ipc, "Shutdown") ELSE UNCHANGED commands
  /\ connection' = "Restarting"
  /\ \/ \E r \in Restarts :
          /\ restart[r].stage = "idle"
          /\ restart' = [restart EXCEPT ![r] =
                           [stage |-> "opening", current |-> process, target |-> None]]
     \/ UNCHANGED restart
  /\ ui' = "results"
  /\ UNCHANGED <<game, injected, session, pid, writer, pipe, events, owned,
                 process, ipc, snapshot, starting, retrying, results, steam>>

-----------------------------------------------------------------------------
(* execute_external on a thread of its own.                                *)

At(r, stage) == restart[r].stage = stage
GoTo(r, stage) == restart' = [restart EXCEPT ![r].stage = stage]

Finish(r, ok) ==
  /\ GoTo(r, "done")
  /\ results' = Append(results, [thread |-> r, ok |-> ok])

\* stop_coe5: the process is opened,
OpenGame(r) ==
  /\ At(r, "opening") /\ Alive(restart[r].current)
  /\ GoTo(r, "closing")
  /\ UNCHANGED <<linkVars, controller, uiThread, results, steam>>

\* and asked to close, and killed if it has not after four seconds.
CloseGame(r) ==
  /\ At(r, "closing")
  /\ game' = [game EXCEPT ![restart[r].current] = "dead"]
  /\ GoTo(r, "launch")
  /\ UNCHANGED <<injected, links, controller, uiThread, results, steam>>

\* launch_coe5 and wait_for_coe5, with the configured executable, which may
\* be another than that of the game closed.
LaunchGame(r) ==
  /\ At(r, "launch") /\ "Executable" \in Launches
  /\ \E q \in Games :
       /\ game[q] = "new"
       /\ game' = [game EXCEPT ![q] = "running"]
       /\ restart' = [restart EXCEPT ![r].stage = "setup", ![r].target = q]
  /\ UNCHANGED <<injected, links, controller, uiThread, results, steam>>

\* launch_coe5_via_steam.
AskSteam(r) ==
  /\ At(r, "launch") /\ "Steam" \in Launches
  /\ steam' = TRUE
  /\ GoTo(r, "find")
  /\ UNCHANGED <<linkVars, controller, uiThread, results>>

\* wait_for_coe5_different.
FindGame(r) ==
  /\ At(r, "find")
  /\ \E q \in Games \ {restart[r].current} :
       /\ Alive(q)
       /\ restart' = [restart EXCEPT ![r].stage = "setup", ![r].target = q]
  /\ UNCHANGED <<linkVars, controller, uiThread, results, steam>>

\* apply_participant_setup and activate_setup_ok.
SetUp(r) ==
  /\ At(r, "setup")
  /\ restart[r].target \in Supported /\ Running(restart[r].target)
  /\ GoTo(r, "world")
  /\ UNCHANGED <<linkVars, controller, uiThread, results, steam>>

\* wait_for_world_creation.
WorldCreated(r) ==
  /\ At(r, "world") /\ Running(restart[r].target)
  /\ Finish(r, TRUE)
  /\ UNCHANGED <<linkVars, controller, uiThread, steam>>

\* A step fails, or the deadline of a wait passes.
RestartFails(r) ==
  /\ restart[r].stage \notin {"idle", "done"}
  /\ At(r, "opening") => ~ Alive(restart[r].current)
  /\ Finish(r, FALSE)
  /\ UNCHANGED <<linkVars, controller, uiThread, steam>>

-----------------------------------------------------------------------------
(* The world around the assistant.                                         *)

\* The user starts a game when none runs, also while a restart is about to
\* launch one; Steam starts the one it was asked for.
StartGame(p) ==
  /\ game[p] = "new"
  /\ steam \/ \A q \in Games : ~ Alive(q)
  /\ game' = [game EXCEPT ![p] = "running"]
  /\ steam' = FALSE
  /\ UNCHANGED <<injected, links, controller, uiThread, restart, results>>

Outside == UNCHANGED <<controller, uiThread, restarts>>

\* The controller asks for a snapshot every second, so that neither side of
\* the link idles for 15.
Asking(s) == connection = "Injected" /\ ipc = s

GameStep(p) ==
  \/ StartGame(p)
  \/ Die(p) /\ Outside
  \/ CanFreeze /\ (Freeze(p) \/ Thaw(p)) /\ Outside

LinkStep ==
  /\ \/ \E p \in Games : InjectedRuntime(p)
     \/ \E s \in Sessions : SessionThread(s) \/ CommandWriter(s)
     \/ \E s \in Sessions :
          /\ ~ Asking(s)
          /\ \/ ReadTimesOut(s)
             \/ \E p \in Games : ServeTimesOut(p, s)
  /\ Outside

-----------------------------------------------------------------------------
Tick ==
  \/ PollRestartResult
  \/ MonitorAlive \/ MonitorExited \/ MonitorFindsNothing
  \/ \E p \in Games : MonitorFinds(p)
  \/ Inject
  \/ PollIpc \/ EnableHook \/ AskSnapshot \/ PollIpcEnds
  \/ RequestSnapshot \/ EndTick
  \/ StartRestart \/ NoClick

User == Retry \/ Request \/ Restart

RestartStep(r) ==
  \/ OpenGame(r) \/ CloseGame(r)
  \/ LaunchGame(r) \/ AskSteam(r) \/ FindGame(r)
  \/ SetUp(r) \/ WorldCreated(r) \/ RestartFails(r)

Next ==
  \/ Tick
  \/ User
  \/ \E r \in Restarts : RestartStep(r)
  \/ LinkStep
  \/ \E p \in Games : GameStep(p)

Spec == Init /\ [][Next]_vars

\* The thread of the user interface goes on where it can, a second passes between
\* requests again and again, find_coe5 does not fail forever, and the other
\* threads run.  Nothing is assumed of users and games.
Fairness ==
  /\ WF_vars(Tick)
  /\ SF_vars(RequestSnapshot)
  /\ SF_vars(\E p \in Games : MonitorFinds(p))
  /\ \A p \in Games : /\ WF_vars(InjectedRuntime(p) /\ Outside)
                      /\ SF_vars(RepliesStuck(p) /\ Outside)
  /\ \A s \in Sessions : /\ WF_vars(SessionThread(s) /\ Outside)
                         /\ WF_vars(CommandWriter(s) /\ Outside)
  /\ \A r \in Restarts : WF_vars(RestartStep(r))

FairSpec == Spec /\ Fairness

-----------------------------------------------------------------------------
(* Properties.                                                             *)

\* The link the controller keeps is one to the game it shows, and it shows
\* "Injected" only with a link: neither an exit, a restart nor a retry pairs
\* a game with the link of another.
IpcIsForProcess ==
  /\ ipc # None => pid[ipc] = process
  /\ connection = "Injected" => ipc # None

\* While the controller shows "Injected" there is a session thread that
\* reads from the game, or word of its end is waiting to be read: the loss
\* of a link is never missed.
InjectedIsBacked ==
  connection = "Injected" =>
    \/ session[ipc] \in {"open", "joining"}
    \/ \E i \in DOMAIN events[ipc] : events[ipc][i] = "Disconnected"

\* A link whose reader has given up is not shown as "Injected" for ever: the
\* requests of every second make its command writer fail, which is what
\* lets the session thread report the loss.
LostSessionIsReported ==
  (connection = "Injected" /\ session[ipc] = "joining") ~> connection # "Injected"

\* The exit of a game is noticed, whatever the controller was doing with it.
DeathIsNoticed ==
  \A p \in Games : (process = p /\ game[p] = "dead") ~> process # p

\* A link that nobody has connected to, on which IpcServer::send waits.
Hung == ui \in Sending /\ ipc # None /\ session[ipc] = "listening"

\* Wherever the thread of the user interface waits in IpcServer::send it
\* gets on, whatever the game, the link and the requests of the user do,
\* unless no runtime has connected: ConnectNamedPipe waits for ever, and the
\* channel, which has no other reader, stays full.
SendsEnd == ui \in Sending ~> ui \notin Sending \/ Hung

\* "Restarting" is a passing state once a thread is at work: a restart that
\* fails at any step is reported as well as one that succeeds, unless the
\* thread of the user interface hangs.
RestartingEnds ==
  (connection = "Restarting" /\ \E r \in Restarts : restart[r].stage # "idle")
    ~> connection # "Restarting" \/ Hung

-----------------------------------------------------------------------------
(* What the documents say and the code does not do.                        *)

\* user-guide.md:13-15: the assistant detects the running game and injects
\* its module.  A game with a healthy runtime that the controller has no
\* process for becomes "Injected", unless it stops running.
RunningGameIsInjected ==
  \A p \in Games :
    (Running(p) /\ injected[p] = "serving" /\ process = None)
      ~> (process = p /\ connection = "Injected") \/ ~ Running(p)
=============================================================================
