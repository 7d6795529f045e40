---------------------------- MODULE RuntimeProofs ----------------------------
(***************************************************************************)
(* Proofs about Runtime, for any number of games, links and restart        *)
(* threads.  The link the controller keeps is one to the game it shows     *)
(* (OwnerInv), and its loss is never missed (BackedInv).                   *)
(***************************************************************************)
EXTENDS Runtime, TLAPS

\* The types the argument needs.
OwnerTypes ==
  /\ pid \in [Sessions -> Games \cup {None}]
  /\ owned \in [Sessions -> BOOLEAN]
  /\ ipc \in Sessions \cup {None}
  /\ starting \in Sessions \cup {None}

\* The IpcServers the controller holds, the one of a link and the one that
\* prepare_injection has just started, are different, not dropped, and named
\* after the process.
KeepsItsLinks ==
  /\ ipc # None => owned[ipc] /\ pid[ipc] = process /\ process # None
  /\ starting # None => /\ owned[starting] /\ starting # ipc
                        /\ pid[starting] = process /\ process # None
  /\ ui = "inject" <=> starting # None
  /\ connection = "Injected" => ipc # None

OwnerInv == OwnerTypes /\ KeepsItsLinks

-----------------------------------------------------------------------------
\* IpcServer::start takes an IpcServer that nobody holds.
LEMMA ListenIsFresh ==
  ASSUME OwnerInv, NEW s \in Sessions, NEW p \in Games, Listen(s, p)
  PROVE  /\ pid' \in [Sessions -> Games \cup {None}]
         /\ owned' \in [Sessions -> BOOLEAN]
         /\ s # ipc /\ owned'[s] /\ pid'[s] = p
         /\ ipc # None => owned'[ipc] /\ pid'[ipc] = pid[ipc]
BY LinkAssumption DEF OwnerInv, OwnerTypes, KeepsItsLinks, Listen, Free

\* Dropping IpcServers leaves the others held.
LEMMA DropKeeps ==
  ASSUME OwnerInv, NEW DD, Drop(DD)
  PROVE  /\ owned' \in [Sessions -> BOOLEAN]
         /\ \A s \in Sessions : s \notin DD => owned'[s] = owned[s]
BY DEF OwnerInv, OwnerTypes, Drop

\* Threads and processes other than the controller's change no owner.
LEMMA OutsideKeeps ==
  ASSUME OwnerInv, LinkStep \/ (\E p \in Games : GameStep(p))
                   \/ (\E r \in Restarts : RestartStep(r))
  PROVE  OwnerInv'
<1>1. CASE LinkStep
  <2>1. UNCHANGED <<pid, owned>>
    BY <1>1 DEF LinkStep, InjectedRuntime, InitializeFails, ServeFails, RepliesStuck,
       Connect, Serve, SessionThread, Handshake, SessionEnds, ReadFails, JoinWriter,
       ReaderGivesUp, CommandWriter, WriteCommand, WriterEnds, ReadTimesOut,
       ServeTimesOut, links
  <2>2. UNCHANGED <<connection, process, ipc, ui, starting>>
    BY <1>1 DEF LinkStep, Outside, controller, uiThread
  <2> QED BY <2>1, <2>2 DEF OwnerInv, OwnerTypes, KeepsItsLinks
<1>2. CASE \E p \in Games : GameStep(p)
  <2>1. UNCHANGED <<pid, owned, connection, process, ipc, ui, starting>>
    BY <1>2 DEF GameStep, StartGame, Die, Freeze, Thaw, Outside, controller, uiThread, links
  <2> QED BY <2>1 DEF OwnerInv, OwnerTypes, KeepsItsLinks
<1>3. CASE \E r \in Restarts : RestartStep(r)
  <2>1. UNCHANGED <<pid, owned, connection, process, ipc, ui, starting>>
    BY <1>3 DEF RestartStep, OpenGame, CloseGame, LaunchGame, AskSteam, FindGame,
       SetUp, WorldCreated, RestartFails, linkVars, links, controller, uiThread
  <2> QED BY <2>1 DEF OwnerInv, OwnerTypes, KeepsItsLinks
<1> QED BY <1>1, <1>2, <1>3

\* The rounds of the user interface that start and drop nothing.
LEMMA QuietStepKeeps ==
  ASSUME OwnerInv,
         \/ MonitorAlive \/ MonitorFindsNothing \/ PollIpc \/ EnableHook \/ AskSnapshot
         \/ PollIpcEnds \/ RequestSnapshot \/ EndTick \/ NoClick \/ Request
         \/ Restart \/ StartRestart
  PROVE  OwnerInv'
<1>1. UNCHANGED <<pid, owned, process, ipc, starting>>
  BY DEF MonitorAlive, MonitorFindsNothing, PollIpc, EnableHook, AskSnapshot, PollIpcEnds,
     RequestSnapshot, EndTick, NoClick, Request, Restart, StartRestart, linkVars, links,
     controller, uiThread
<1>2. ui # "inject" /\ ui' # "inject"
  BY DEF MonitorAlive, MonitorFindsNothing, PollIpc, EnableHook, AskSnapshot, PollIpcEnds,
     RequestSnapshot, EndTick, NoClick, Request, Restart, StartRestart, linkVars, links,
     controller, uiThread
<1>3. connection' = "Injected" => connection = "Injected" \/ ipc # None
  BY DEF MonitorAlive, MonitorFindsNothing, PollIpc, EnableHook, AskSnapshot, PollIpcEnds,
     RequestSnapshot, EndTick, NoClick, Request, Restart, StartRestart, linkVars, links,
     controller, uiThread
<1> QED BY <1>1, <1>2, <1>3 DEF OwnerInv, OwnerTypes, KeepsItsLinks

\* A successful restart and the exit of the game drop the link with the
\* process.
LEMMA ForgetKeeps ==
  ASSUME OwnerInv, PollRestartResult \/ MonitorExited
  PROVE  OwnerInv'
<1>1. UNCHANGED <<pid, starting>> /\ starting = None /\ ui # "inject" /\ ui' # "inject"
  BY DEF PollRestartResult, MonitorExited, uiThread, OwnerInv, KeepsItsLinks
<1>2. CASE UNCHANGED <<process, ipc, owned>> /\ connection' \in {connection, "Degraded"}
  BY <1>1, <1>2 DEF OwnerInv, OwnerTypes, KeepsItsLinks
<1>3. CASE process' = None /\ ipc' = None /\ connection' = "NoGame" /\ Drop(Current)
  BY <1>1, <1>3, DropKeeps DEF OwnerInv, OwnerTypes, KeepsItsLinks
<1> QED
  BY <1>2, <1>3 DEF PollRestartResult, MonitorExited, RestartSucceeded, RestartFailed,
     Forget, controller

\* prepare_injection: a server for the process is started, and becomes the
\* link or is dropped.
LEMMA InjectKeeps ==
  ASSUME OwnerInv, Inject
  PROVE  OwnerInv'
<1>1. /\ starting \in Sessions /\ starting # None /\ starting' = None
      /\ ui' # "inject" /\ UNCHANGED <<pid, process>>
  BY DEF Inject, OwnerInv, OwnerTypes, KeepsItsLinks
<1>2. CASE InjectSucceeds
  <2>1. ipc' = starting /\ owned'[starting] /\ owned' \in [Sessions -> BOOLEAN]
    BY <1>1, <1>2, DropKeeps DEF InjectSucceeds, Current, OwnerInv, KeepsItsLinks
  <2> QED BY <1>1, <1>2, <2>1 DEF InjectSucceeds, OwnerInv, OwnerTypes, KeepsItsLinks
<1>3. CASE InjectFails
  <2>1. UNCHANGED ipc /\ (ipc # None => owned'[ipc]) /\ owned' \in [Sessions -> BOOLEAN]
    BY <1>1, <1>3, DropKeeps DEF InjectFails, OwnerInv, OwnerTypes, KeepsItsLinks
  <2>2. connection' = "Injected" => ipc # None
    BY <1>3 DEF InjectFails, OwnerInv, KeepsItsLinks
  <2> QED BY <1>1, <2>1, <2>2 DEF OwnerInv, OwnerTypes, KeepsItsLinks
<1> QED BY <1>2, <1>3 DEF Inject

\* A game is found, or injection is retried: the new server is for it.
LEMMA StartKeeps ==
  ASSUME OwnerInv, (\E p \in Games : MonitorFinds(p)) \/ Retry
  PROVE  OwnerInv'
<1>1. ASSUME NEW p \in Games, NEW s \in Sessions, Listen(s, p), starting' = s,
             ui' = "inject", process' = p, UNCHANGED ipc, connection' = "Connecting",
             ipc # None => process = p
      PROVE  OwnerInv'
  BY <1>1, ListenIsFresh, LinkAssumption DEF OwnerInv, OwnerTypes, KeepsItsLinks
<1>2. ASSUME NEW p \in Games, MonitorFinds(p)
      PROVE  OwnerInv'
  <2>1. CASE p \in Supported /\ connection' = "Connecting" /\ StartServer(p)
    <3>1. ipc = None
      BY <1>2 DEF MonitorFinds, OwnerInv, KeepsItsLinks
    <3>2. PICK s \in Sessions : Listen(s, p) /\ starting' = s
      BY <2>1 DEF StartServer
    <3>3. ui' = "inject" /\ process' = p /\ UNCHANGED ipc
      BY <1>2, <2>1 DEF MonitorFinds, StartServer
    <3> QED BY <1>1, <2>1, <3>1, <3>2, <3>3
  <2>2. CASE connection' = "Degraded" /\ ui' = "poll" /\ UNCHANGED <<links, starting>>
    BY <1>2, <2>2 DEF MonitorFinds, links, OwnerInv, OwnerTypes, KeepsItsLinks
  <2> QED BY <1>2, <2>1, <2>2 DEF MonitorFinds
<1>3. CASE Retry
  <2>1. CASE StartServer(process)
    BY <1>1, <1>3, <2>1, RuntimeAssumption DEF Retry, StartServer
  <2>2. CASE ui' = "results" /\ UNCHANGED <<links, starting>>
    BY <1>3, <2>2 DEF Retry, links, OwnerInv, OwnerTypes, KeepsItsLinks
  <2> QED BY <1>3, <2>1, <2>2 DEF Retry
<1> QED BY <1>2, <1>3

-----------------------------------------------------------------------------
\* The inductive invariant about the IpcServers of the controller.
LEMMA OwnersAreKept == Spec => []OwnerInv
<1>1. Init => OwnerInv
  BY DEF Init, LinkInit, OwnerInv, OwnerTypes, KeepsItsLinks
<1>2. OwnerInv /\ [Next]_vars => OwnerInv'
  <2> SUFFICES ASSUME OwnerInv, [Next]_vars PROVE OwnerInv'
    OBVIOUS
  <2>1. CASE Tick
    BY <2>1, QuietStepKeeps, ForgetKeeps, InjectKeeps, StartKeeps DEF Tick
  <2>2. CASE User
    BY <2>2, QuietStepKeeps, StartKeeps DEF User
  <2>3. CASE \/ LinkStep \/ \E p \in Games : GameStep(p)
             \/ \E r \in Restarts : RestartStep(r)
    BY <2>3, OutsideKeeps
  <2>4. CASE UNCHANGED vars
    BY <2>4 DEF vars, linkVars, links, controller, uiThread, OwnerInv, OwnerTypes,
       KeepsItsLinks
  <2> QED BY <2>1, <2>2, <2>3, <2>4 DEF Next
<1> QED BY <1>1, <1>2, PTL DEF Spec

\* Whatever exits, restarts, retries and failures come together, the link of
\* the controller belongs to the game it shows, and "Injected" has a link.
THEOREM LinkIsForTheGame == Spec => []IpcIsForProcess
<1>1. OwnerInv => IpcIsForProcess
  BY DEF OwnerInv, KeepsItsLinks, IpcIsForProcess
<1> QED BY <1>1, OwnersAreKept, PTL

-----------------------------------------------------------------------------
(* Types.                                                                  *)

\* Channels and pipes stay sequences of what is put into them.
LEMMA QueueTypes ==
  ASSUME NEW S, NEW q \in Seq(S)
  PROVE  /\ \A x \in S : Append(q, x) \in Seq(S)
         /\ << >> \in Seq(S)
         /\ q # << >> => /\ Head(q) \in S /\ Tail(q) \in Seq(S)
                        /\ Len(Tail(q)) <= Len(q)
OBVIOUS

\* What is sent fits the channel.
LEMMA SendTypes ==
  ASSUME LinkTypeOK, NEW s \in Sessions, NEW c \in Command, Send(s, c)
  PROVE  /\ commands' \in [Sessions -> Seq(Command)]
         /\ \A r \in Sessions : Len(commands'[r]) <= CommandCapacity
<1>1. CASE UNCHANGED commands
  BY <1>1 DEF LinkTypeOK
<1>2. CASE /\ Len(commands[s]) < CommandCapacity
           /\ commands' = [commands EXCEPT ![s] = Append(@, c)]
  <2>1. commands[s] \in Seq(Command)
    BY DEF LinkTypeOK
  <2>2. /\ Append(commands[s], c) \in Seq(Command)
        /\ Len(Append(commands[s], c)) = Len(commands[s]) + 1
        /\ Len(commands[s]) \in Nat
    BY <2>1
  <2>3. commands' \in [Sessions -> Seq(Command)]
    BY <1>2, <2>2 DEF LinkTypeOK
  <2>4. ASSUME NEW r \in Sessions PROVE Len(commands'[r]) <= CommandCapacity
    <3>1. \/ commands'[r] = commands[r]
          \/ commands'[r] = Append(commands[s], c)
      BY <1>2 DEF LinkTypeOK
    <3>2. Len(commands[r]) <= CommandCapacity
      BY DEF LinkTypeOK
    <3> QED BY <1>2, <2>2, <3>1, <3>2, LinkAssumption
  <2> QED BY <2>3, <2>4
<1> QED BY <1>1, <1>2 DEF Send

\* Dropping empties channels.
LEMMA DropTypes ==
  ASSUME LinkTypeOK, NEW DD, Drop(DD)
  PROVE  owned' \in [Sessions -> BOOLEAN] /\ events' \in [Sessions -> Seq(IpcEvent)]
BY DEF LinkTypeOK, Drop

\* A new pipe.
LEMMA ListenTypes ==
  ASSUME LinkTypeOK, NEW s \in Sessions, NEW p \in Games, Listen(s, p),
         UNCHANGED <<game, injected>>
  PROVE  LinkTypeOK'
<1>1. << >> \in Seq(Command) /\ << >> \in Seq(IpcEvent)
  OBVIOUS
<1> QED BY <1>1 DEF LinkTypeOK, Listen, SessionState

\* The initializer thread of a game.
LEMMA InjectedTypes ==
  ASSUME LinkTypeOK, NEW p \in Games, InjectedRuntime(p)
  PROVE  LinkTypeOK'
<1>1. CASE InitializeFails(p) \/ ServeFails(p) \/ RepliesStuck(p)
  BY <1>1 DEF InitializeFails, ServeFails, RepliesStuck, links, LinkTypeOK, RuntimeState
<1>2. CASE \E s \in Sessions : Connect(p, s)
  BY <1>2 DEF Connect, LinkTypeOK, RuntimeState, SessionState
<1>3. ASSUME NEW s \in Sessions, Serve(p, s) PROVE LinkTypeOK'
  <2>1. /\ pipe[s] \in Seq(Command) /\ events[s] \in Seq(IpcEvent)
        /\ pipe[s] # << >>
    BY <1>3 DEF Serve, LinkTypeOK
  <2>2. Tail(pipe[s]) \in Seq(Command)
    BY <2>1, QueueTypes
  <2>3. /\ pipe' \in [Sessions -> Seq(Command)]
        /\ injected' \in [Games -> RuntimeState]
    BY <1>3, <2>2 DEF Serve, AfterRequest, LinkTypeOK, RuntimeState
  <2>4. /\ Append(events[s], "Snapshot") \in Seq(IpcEvent)
        /\ Append(events[s], "CapabilityReport") \in Seq(IpcEvent)
    BY <2>1, QueueTypes DEF IpcEvent
  <2>5. Head(pipe[s]) \in Command
    BY <2>1, QueueTypes
  <2>6. session' \in [Sessions -> SessionState] /\ events' \in [Sessions -> Seq(IpcEvent)]
    BY <1>3, <2>4, <2>5 DEF Serve, Reply, LinkTypeOK, SessionState, Command
  <2> QED BY <1>3, <2>3, <2>6 DEF Serve, LinkTypeOK
<1> QED BY <1>1, <1>2, <1>3 DEF InjectedRuntime

\* The session ends without a command writer.
LEMMA SessionEndsTypes ==
  ASSUME LinkTypeOK, NEW s \in Sessions, SessionEnds(s),
         injected' \in [Games -> RuntimeState]
  PROVE  LinkTypeOK'
<1>1. events[s] \in Seq(IpcEvent)
  BY DEF LinkTypeOK
<1>2. Append(events[s], "Disconnected") \in Seq(IpcEvent) /\ << >> \in Seq(Command)
  BY <1>1, QueueTypes DEF IpcEvent
<1>3. Len(<< >>) = 0
  OBVIOUS
<1>4. events' \in [Sessions -> Seq(IpcEvent)]
  BY <1>2 DEF SessionEnds, LinkTypeOK
<1>5. /\ commands' \in [Sessions -> Seq(Command)]
      /\ \A r \in Sessions : Len(commands'[r]) <= CommandCapacity
  BY <1>2, <1>3, LinkAssumption DEF SessionEnds, LinkTypeOK
<1> QED BY <1>4, <1>5 DEF SessionEnds, LinkTypeOK, SessionState

\* The threads of an IpcServer.
LEMMA SessionTypes ==
  ASSUME LinkTypeOK, NEW s \in Sessions,
         SessionThread(s) \/ CommandWriter(s) \/ ReadTimesOut(s)
  PROVE  LinkTypeOK'
<1>1. /\ events[s] \in Seq(IpcEvent) /\ commands[s] \in Seq(Command)
      /\ pipe[s] \in Seq(Command)
  BY DEF LinkTypeOK
<1>2. /\ Append(events[s], "Disconnected") \in Seq(IpcEvent)
      /\ Append(events[s], "Connected") \in Seq(IpcEvent)
      /\ << >> \in Seq(Command)
  BY <1>1, QueueTypes DEF IpcEvent
<1>3. CASE Handshake(s)
  <2>1. injected' \in [Games -> RuntimeState]
    BY <1>3 DEF Handshake, SessionEnds, LinkTypeOK, RuntimeState
  <2>2. CASE SessionEnds(s)
    BY <2>1, <2>2, SessionEndsTypes
  <2>3. CASE /\ session' = [session EXCEPT ![s] = "open"]
             /\ writer' = [writer EXCEPT ![s] = TRUE]
             /\ events' = [events EXCEPT ![s] = Append(@, "Connected")]
             /\ UNCHANGED <<game, pid, commands, pipe, owned>>
    BY <1>2, <2>1, <2>3 DEF LinkTypeOK, SessionState
  <2> QED BY <1>3, <2>2, <2>3 DEF Handshake
<1>4. CASE ReadFails(s) \/ ReadTimesOut(s)
  BY <1>4 DEF ReadFails, ReadTimesOut, ReaderGivesUp, LinkTypeOK, SessionState
<1>5. CASE JoinWriter(s)
  BY <1>2, <1>5 DEF JoinWriter, Report, LinkTypeOK, SessionState
<1>6. CASE WriterEnds(s)
  BY <1>6 DEF WriterEnds, LinkTypeOK
<1>7. CASE WriteCommand(s)
  <2>1. /\ Head(commands[s]) \in Command /\ Tail(commands[s]) \in Seq(Command)
        /\ Len(Tail(commands[s])) <= Len(commands[s]) /\ Len(commands[s]) \in Nat
        /\ Len(Tail(commands[s])) \in Nat /\ Len(<< >>) = 0
    BY <1>1, <1>7 DEF WriteCommand
  <2>2. Append(pipe[s], Head(commands[s])) \in Seq(Command)
    BY <1>1, <2>1, QueueTypes
  <2>3. pipe' \in [Sessions -> Seq(Command)]
    BY <1>7, <2>2 DEF WriteCommand, LinkTypeOK
  <2>4. commands' \in [Sessions -> Seq(Command)]
    BY <1>2, <1>7, <2>1 DEF WriteCommand, LinkTypeOK
  <2>5. ASSUME NEW r \in Sessions PROVE Len(commands'[r]) <= CommandCapacity
    <3>1. Len(commands[r]) <= CommandCapacity
      BY DEF LinkTypeOK
    <3>2. \/ commands'[r] = commands[r]
          \/ r = s /\ commands'[s] \in {Tail(commands[s]), << >>}
      BY <1>7 DEF WriteCommand, LinkTypeOK
    <3> QED BY <2>1, <3>1, <3>2, LinkAssumption
  <2>6. writer' \in [Sessions -> BOOLEAN]
    BY <1>7 DEF WriteCommand, LinkTypeOK
  <2> QED BY <1>7, <2>3, <2>4, <2>5, <2>6 DEF WriteCommand, LinkTypeOK
<1> QED BY <1>3, <1>4, <1>5, <1>6, <1>7 DEF SessionThread, CommandWriter

\* Whatever the controller and the restart threads keep.
ControllerTypes ==
  /\ connection \in ConnectionState
  /\ process \in Maybe(Games)
  /\ ipc \in Maybe(Sessions)
  /\ snapshot \in Maybe(Games)
  /\ ui \in {"user", "results", "monitor", "inject", "poll", "request"} \cup Sending
  /\ starting \in Maybe(Sessions)
  /\ retrying \in BOOLEAN
  /\ restart \in [Restarts -> RestartThread]
  /\ results \in Seq(RestartResult)
  /\ steam \in BOOLEAN

\* The types of Runtime are those of Link and those of the controller.
LEMMA TypeParts == TypeOK <=> LinkTypeOK /\ ControllerTypes
BY DEF TypeOK, ControllerTypes

\* Games, sessions and initializer threads, on their own.
LEMMA WorldTypes ==
  ASSUME TypeOK, LinkStep \/ (\E p \in Games : GameStep(p))
  PROVE  TypeOK'
<1>1. CASE LinkStep
  <2>1. LinkTypeOK'
    <3>1. ASSUME NEW p \in Games, InjectedRuntime(p) PROVE LinkTypeOK'
      BY <3>1, InjectedTypes DEF TypeOK
    <3>2. ASSUME NEW s \in Sessions, SessionThread(s) \/ CommandWriter(s) \/ ReadTimesOut(s)
          PROVE  LinkTypeOK'
      BY <3>2, SessionTypes DEF TypeOK
    <3>3. ASSUME NEW s \in Sessions, NEW p \in Games, ServeTimesOut(p, s) PROVE LinkTypeOK'
      BY <3>3 DEF ServeTimesOut, links, TypeOK, LinkTypeOK, RuntimeState
    <3> QED BY <1>1, <3>1, <3>2, <3>3 DEF LinkStep
  <2>2. ControllerTypes'
    BY <1>1, TypeParts DEF LinkStep, Outside, controller, uiThread, restarts, ControllerTypes
  <2> QED BY <2>1, <2>2, TypeParts DEF TypeOK, ControllerTypes
<1>2. CASE \E p \in Games : GameStep(p)
  <2>1. LinkTypeOK'
    BY <1>2 DEF GameStep, StartGame, Die, Freeze, Thaw, links, TypeOK, LinkTypeOK, GameState
  <2>2. ControllerTypes'
    BY <1>2, TypeParts DEF GameStep, StartGame, Outside, controller, uiThread, restarts,
       ControllerTypes
  <2> QED BY <2>1, <2>2 DEF TypeOK, ControllerTypes
<1> QED BY <1>1, <1>2

\* The steps that move a restart thread to another stage, or end it.
LEMMA StageTypes ==
  ASSUME TypeOK, NEW r \in Restarts, NEW g \in RestartStage, NEW q \in Maybe(Games)
  PROVE  /\ [restart EXCEPT ![r].stage = g] \in [Restarts -> RestartThread]
         /\ [restart EXCEPT ![r].stage = g, ![r].target = q] \in [Restarts -> RestartThread]
         /\ [restart EXCEPT ![r] = NoRestart] \in [Restarts -> RestartThread]
         /\ [restart EXCEPT ![r] = [stage |-> g, current |-> q, target |-> None]]
              \in [Restarts -> RestartThread]
BY DEF TypeOK, RestartThread, NoRestart, RestartStage, Maybe

\* The restart threads.
LEMMA RestartTypes ==
  ASSUME TypeOK, NEW r \in Restarts, RestartStep(r)
  PROVE  TypeOK'
<1>1. ASSUME NEW g \in RestartStage, GoTo(r, g) PROVE restart' \in [Restarts -> RestartThread]
  <2>1. None \in Maybe(Games)
    BY DEF Maybe
  <2>2. [restart EXCEPT ![r].stage = g] \in [Restarts -> RestartThread]
    BY <2>1, StageTypes
  <2> QED BY <1>1, <2>2 DEF GoTo
<1>2. {"closing", "launch", "find", "setup", "world", "done"} \subseteq RestartStage
  BY DEF RestartStage
<1>3. ASSUME NEW ok \in BOOLEAN, Finish(r, ok)
      PROVE  restart' \in [Restarts -> RestartThread] /\ results' \in Seq(RestartResult)
  <2>1. [thread |-> r, ok |-> ok] \in RestartResult
    BY DEF RestartResult
  <2>2. results \in Seq(RestartResult)
    BY DEF TypeOK
  <2>3. Append(results, [thread |-> r, ok |-> ok]) \in Seq(RestartResult)
    BY <2>1, <2>2, QueueTypes
  <2> QED BY <1>1, <1>2, <1>3, <2>3 DEF Finish
<1>4. CASE OpenGame(r) \/ AskSteam(r) \/ SetUp(r)
  BY <1>1, <1>2, <1>4
  DEF OpenGame, AskSteam, SetUp, TypeOK, LinkTypeOK, linkVars, links, controller, uiThread
<1>5. CASE CloseGame(r)
  BY <1>1, <1>2, <1>5
  DEF CloseGame, TypeOK, LinkTypeOK, links, controller, uiThread, GameState
<1>6. CASE LaunchGame(r)
  <2>1. PICK q \in Games :
               restart' = [restart EXCEPT ![r].stage = "setup", ![r].target = q]
    BY <1>6 DEF LaunchGame
  <2>2. "setup" \in RestartStage /\ q \in Maybe(Games)
    BY <1>2, LinkAssumption DEF Maybe
  <2>3. restart' \in [Restarts -> RestartThread]
    BY <2>1, <2>2, StageTypes
  <2> QED BY <1>6, <2>3 DEF LaunchGame, TypeOK, LinkTypeOK, links, controller, uiThread, GameState
<1>7. CASE FindGame(r)
  <2>1. PICK q \in Games :
               restart' = [restart EXCEPT ![r].stage = "setup", ![r].target = q]
    BY <1>7 DEF FindGame
  <2>2. "setup" \in RestartStage /\ q \in Maybe(Games)
    BY <1>2, LinkAssumption DEF Maybe
  <2>3. restart' \in [Restarts -> RestartThread]
    BY <2>1, <2>2, StageTypes
  <2> QED BY <1>7, <2>3 DEF FindGame, TypeOK, LinkTypeOK, linkVars, links, controller, uiThread
<1>8. CASE WorldCreated(r) \/ RestartFails(r)
  <2>1. restart' \in [Restarts -> RestartThread] /\ results' \in Seq(RestartResult)
    BY <1>3, <1>8 DEF WorldCreated, RestartFails
  <2> QED
    BY <1>8, <2>1 DEF WorldCreated, RestartFails, TypeOK, LinkTypeOK, linkVars, links,
       controller, uiThread
<1> QED BY <1>4, <1>5, <1>6, <1>7, <1>8 DEF RestartStep

\* A round of the user interface.
LEMMA TickTypes ==
  ASSUME TypeOK, Tick
  PROVE  TypeOK'
<1>1. CASE PollRestartResult
  <2>1. owned' \in [Sessions -> BOOLEAN] /\ events' \in [Sessions -> Seq(IpcEvent)]
    BY <1>1, DropTypes DEF PollRestartResult, RestartSucceeded, TypeOK, LinkTypeOK
  <2>2. restart' \in [Restarts -> RestartThread] /\ results' \in Seq(RestartResult)
    <3>1. CASE results = << >>
      BY <1>1, <3>1 DEF PollRestartResult, TypeOK
    <3>2. CASE results # << >>
      <4>1. Head(results) \in RestartResult /\ Tail(results) \in Seq(RestartResult)
        BY <3>2, QueueTypes DEF TypeOK
      <4>2. Head(results).thread \in Restarts
        BY <4>1 DEF RestartResult
      <4>3. "done" \in RestartStage /\ None \in Maybe(Games)
        BY DEF RestartStage, Maybe
      <4>4. [restart EXCEPT ![Head(results).thread] = NoRestart]
              \in [Restarts -> RestartThread]
        BY <4>2, <4>3, StageTypes
      <4> QED BY <1>1, <3>2, <4>1, <4>4 DEF PollRestartResult
    <3> QED BY <3>1, <3>2
  <2>3. /\ connection' \in ConnectionState /\ process' \in Maybe(Games)
        /\ ipc' \in Maybe(Sessions) /\ snapshot' \in Maybe(Games)
    BY <1>1 DEF PollRestartResult, RestartSucceeded, RestartFailed, controller, TypeOK,
       ConnectionState, Maybe
  <2>4. ui' \in {"user", "results", "monitor", "inject", "poll", "request"} \cup Sending
    BY <1>1 DEF PollRestartResult, TypeOK
  <2> QED BY <1>1, <2>1, <2>2, <2>3, <2>4 DEF PollRestartResult, TypeOK, LinkTypeOK
<1>2. CASE MonitorAlive \/ MonitorFindsNothing \/ PollIpcEnds \/ EndTick \/ NoClick
  BY <1>2 DEF MonitorAlive, MonitorFindsNothing, PollIpcEnds, EndTick, NoClick, linkVars,
     links, controller, restarts, TypeOK, LinkTypeOK
<1>3. CASE MonitorExited
  <2>1. owned' \in [Sessions -> BOOLEAN] /\ events' \in [Sessions -> Seq(IpcEvent)]
    BY <1>3, DropTypes DEF MonitorExited, Forget, TypeOK
  <2> QED
    BY <1>3, <2>1 DEF MonitorExited, Forget, uiThread, restarts, TypeOK, LinkTypeOK,
       ConnectionState, Maybe
<1>4. CASE \E p \in Games : MonitorFinds(p)
  <2>1. PICK p \in Games : MonitorFinds(p)
    BY <1>4
  <2>2. LinkTypeOK'
    BY <2>1, ListenTypes DEF MonitorFinds, StartServer, links, TypeOK, LinkTypeOK
  <2>3. ControllerTypes'
    BY <2>1 DEF MonitorFinds, StartServer, TypeOK, ControllerTypes, ConnectionState, Maybe,
       restarts
  <2> QED BY <2>2, <2>3 DEF TypeOK, ControllerTypes
<1>5. CASE Inject
  <2>1. owned' \in [Sessions -> BOOLEAN] /\ events' \in [Sessions -> Seq(IpcEvent)]
    BY <1>5, DropTypes DEF Inject, InjectSucceeds, InjectFails, TypeOK
  <2>2. injected' \in [Games -> RuntimeState]
    BY <1>5 DEF Inject, InjectSucceeds, InjectFails, Initialize, TypeOK, LinkTypeOK,
       RuntimeState
  <2>3. LinkTypeOK'
    BY <1>5, <2>1, <2>2 DEF Inject, TypeOK, LinkTypeOK
  <2>4. ControllerTypes'
    BY <1>5 DEF Inject, InjectSucceeds, InjectFails, TypeOK, ControllerTypes,
       ConnectionState, Maybe, restarts
  <2> QED BY <2>3, <2>4 DEF TypeOK, ControllerTypes
<1>6. CASE PollIpc
  <2>1. ipc \in Sessions
    BY <1>6 DEF PollIpc, TypeOK, Maybe
  <2>2. events[ipc] \in Seq(IpcEvent)
    BY <2>1 DEF TypeOK, LinkTypeOK
  <2>3. Tail(events[ipc]) \in Seq(IpcEvent)
    BY <1>6, <2>2, QueueTypes DEF PollIpc
  <2>4. events' \in [Sessions -> Seq(IpcEvent)]
    BY <1>6, <2>3 DEF PollIpc, TypeOK, LinkTypeOK
  <2>7. LinkTypeOK'
    BY <1>6, <2>4 DEF PollIpc, TypeOK, LinkTypeOK
  <2>8. snapshot' \in Maybe(Games)
    BY <1>6, <2>1 DEF PollIpc, TypeOK, LinkTypeOK, Maybe
  <2>9. ControllerTypes'
    BY <1>6, <2>8 DEF PollIpc, TypeOK, ControllerTypes, ConnectionState, Sending, restarts
  <2> QED BY <2>7, <2>9 DEF TypeOK, ControllerTypes
<1>7. CASE RequestSnapshot
  BY <1>7 DEF RequestSnapshot, Sending, linkVars, links, controller, restarts, TypeOK,
     LinkTypeOK
<1>8. CASE EnableHook \/ AskSnapshot
  <2>1. ipc \in Sessions /\ {"SetHook", "SnapshotRequest"} \subseteq Command
    BY <1>8 DEF EnableHook, AskSnapshot, TypeOK, Maybe, Command
  <2>2. /\ commands' \in [Sessions -> Seq(Command)]
        /\ \A r \in Sessions : Len(commands'[r]) <= CommandCapacity
    BY <1>8, <2>1, SendTypes DEF EnableHook, AskSnapshot, TypeOK
  <2>3. ui' \in {"greet", "poll", "user", "results"}
    BY <1>8 DEF EnableHook, AskSnapshot
  <2> QED
    BY <1>8, <2>2, <2>3 DEF EnableHook, AskSnapshot, Sending, TypeOK, LinkTypeOK, controller,
       restarts
<1>9. CASE StartRestart
  <2>1. "Shutdown" \in Command
    BY DEF Command
  <2>2. /\ commands' \in [Sessions -> Seq(Command)]
        /\ \A s \in Sessions : Len(commands'[s]) <= CommandCapacity
    <3>1. CASE ipc = None
      BY <1>9, <3>1 DEF StartRestart, TypeOK, LinkTypeOK
    <3>2. CASE ipc # None
      <4>1. ipc \in Sessions
        BY <3>2 DEF TypeOK, Maybe
      <4> QED BY <1>9, <2>1, <3>2, <4>1, SendTypes DEF StartRestart, TypeOK
    <3> QED BY <3>1, <3>2
  <2>3. restart' \in [Restarts -> RestartThread]
    <3>1. "opening" \in RestartStage /\ process \in Maybe(Games)
      BY DEF RestartStage, TypeOK
    <3>2. restart \in [Restarts -> RestartThread]
      BY DEF TypeOK
    <3>3. \A r \in Restarts : [restart EXCEPT ![r] = [stage |-> "opening", current |-> process,
                                                      target |-> None]]
                                \in [Restarts -> RestartThread]
      BY <3>1, StageTypes
    <3> QED BY <1>9, <3>2, <3>3 DEF StartRestart
  <2> QED BY <1>9, <2>2, <2>3 DEF StartRestart, TypeOK, LinkTypeOK, ConnectionState
<1> QED BY <1>1, <1>2, <1>3, <1>4, <1>5, <1>6, <1>7, <1>8, <1>9 DEF Tick

\* A click.
LEMMA ClickTypes ==
  ASSUME TypeOK, User
  PROVE  TypeOK'
<1>1. CASE Retry
  <2>1. LinkTypeOK'
    BY <1>1, ListenTypes, RuntimeAssumption DEF Retry, StartServer, links, TypeOK, LinkTypeOK
  <2>2. ControllerTypes'
    BY <1>1 DEF Retry, StartServer, TypeOK, ControllerTypes, ConnectionState, Maybe, restarts
  <2> QED BY <2>1, <2>2 DEF TypeOK, ControllerTypes
<1>2. CASE Request \/ Restart
  BY <1>2 DEF Request, Restart, Sending, linkVars, links, controller, restarts, TypeOK,
     LinkTypeOK
<1> QED BY <1>1, <1>2 DEF User

\* Where the system starts.
LEMMA InitTypes == Init => TypeOK
<1>1. LinkInit => LinkTypeOK
  <2>1. Len(<< >>) = 0 /\ << >> \in Seq(Command) /\ << >> \in Seq(IpcEvent)
    OBVIOUS
  <2> QED BY <2>1, LinkAssumption DEF LinkInit, LinkTypeOK, GameState, RuntimeState, SessionState
<1>2. Init => ControllerTypes
  <2>1. << >> \in Seq(RestartResult)
    OBVIOUS
  <2>2. Init => restart \in [Restarts -> RestartThread]
    BY DEF Init, Maybe, NoRestart, RestartThread, RestartStage
  <2> QED BY <2>1, <2>2 DEF Init, ControllerTypes, ConnectionState, Maybe
<1> QED BY <1>1, <1>2 DEF Init, TypeOK, ControllerTypes

\* Every step.
LEMMA NextTypes == TypeOK /\ [Next]_vars => TypeOK'
<1>1. TypeOK /\ UNCHANGED vars => TypeOK'
  BY DEF TypeOK, LinkTypeOK, vars, linkVars, links, controller, uiThread, restarts
<1> QED BY <1>1, TickTypes, ClickTypes, RestartTypes, WorldTypes DEF Next

\* The state of the controller, of its restart threads, of the links and of
\* the games keeps its types, and a command channel its capacity.
THEOREM TypeCorrect == Spec => []TypeOK
BY InitTypes, NextTypes, PTL DEF Spec

-----------------------------------------------------------------------------
(* The loss of a link is never missed.                                     *)

\* The channel of a session says nothing before the handshake, and its last
\* word is that the link is lost.
WordOrder ==
  \A s \in Sessions :
    /\ owned[s] /\ session[s] \in {"listening", "handshake"} => events[s] = << >>
    /\ owned[s] /\ session[s] = "none" /\ events[s] # << >>
         => events[s][Len(events[s])] = "Disconnected"

\* A session that runs, or has left word.
Spoken(s) ==
  \/ session[s] \in {"open", "joining"}
  \/ session[s] = "none" /\ events[s] # << >>

BackedInv ==
  /\ TypeOK
  /\ OwnerInv
  /\ WordOrder
  /\ ui = "inject" => connection = "Connecting"
  /\ connection = "Injected" => Spoken(ipc)

\* What is appended comes last; what is left when the head is taken ends as
\* it did.
LEMMA LastWord ==
  ASSUME NEW S, NEW q \in Seq(S)
  PROVE  /\ \A x \in S : /\ Append(q, x) # << >>
                         /\ Append(q, x)[Len(Append(q, x))] = x
         /\ q # << >> /\ Tail(q) # << >> => Tail(q)[Len(Tail(q))] = q[Len(q)]
         /\ q # << >> /\ q[Len(q)] # Head(q) => Tail(q) # << >>
<1>1. ASSUME NEW x \in S
      PROVE  Append(q, x) # << >> /\ Append(q, x)[Len(Append(q, x))] = x
  <2>1. Len(Append(q, x)) = Len(q) + 1 /\ Append(q, x)[Len(q) + 1] = x /\ Len(q) \in Nat
    OBVIOUS
  <2>2. Len(<< >>) = 0
    OBVIOUS
  <2> QED BY <2>1, <2>2
<1>2. ASSUME q # << >>
      PROVE  /\ Len(q) \in Nat \ {0} /\ Len(Tail(q)) = Len(q) - 1
             /\ \A i \in 1 .. Len(q) - 1 : Tail(q)[i] = q[i + 1]
             /\ Head(q) = q[1] /\ Tail(q) \in Seq(S)
  BY <1>2
<1>0. ASSUME NEW t \in Seq(S), t # << >> PROVE Len(t) # 0
  BY <1>0
<1>3. ASSUME q # << >>, Tail(q) # << >> PROVE Tail(q)[Len(Tail(q))] = q[Len(q)]
  <2>1. Len(Tail(q)) # 0
    BY <1>0, <1>2, <1>3
  <2>2. Len(q) - 1 \in 1 .. Len(q) - 1 /\ (Len(q) - 1) + 1 = Len(q)
    BY <1>2, <1>3, <2>1
  <2> QED BY <1>2, <1>3, <2>2
<1>4. ASSUME q # << >>, q[Len(q)] # Head(q) PROVE Tail(q) # << >>
  <2>1. Len(q) # 1
    BY <1>2, <1>4
  <2>2. Len(Tail(q)) # 0
    BY <1>2, <1>4, <2>1
  <2>3. Len(<< >>) = 0
    OBVIOUS
  <2> QED BY <2>2, <2>3
<1> QED BY <1>1, <1>3, <1>4

\* A session that ends says so to whoever still listens.
LEMMA EndIsSaid ==
  ASSUME TypeOK, WordOrder, NEW s \in Sessions, session' = [session EXCEPT ![s] = "none"],
         Report(s), UNCHANGED owned
  PROVE  /\ WordOrder'
         /\ \A r \in Sessions : owned[r] /\ Spoken(r) => Spoken(r)'
<1>1. events[s] \in Seq(IpcEvent) /\ "Disconnected" \in IpcEvent
  BY DEF TypeOK, LinkTypeOK, IpcEvent
<1> DEFINE q == Append(events[s], "Disconnected")
<1>2. q # << >> /\ q[Len(q)] = "Disconnected"
  BY <1>1, LastWord
<1> HIDE DEF q
<1>3. owned[s] => events'[s] = q
  BY DEF Report, q, TypeOK, LinkTypeOK
<1>4. session'[s] = "none"
  BY DEF TypeOK, LinkTypeOK
<1>5. ASSUME NEW r \in Sessions, r # s PROVE session'[r] = session[r] /\ events'[r] = events[r]
  BY <1>5 DEF Report, TypeOK, LinkTypeOK
<1>6. WordOrder'
  BY <1>2, <1>3, <1>4, <1>5 DEF WordOrder
<1>7. ASSUME NEW r \in Sessions, owned[r], Spoken(r) PROVE Spoken(r)'
  BY <1>2, <1>3, <1>4, <1>5, <1>7 DEF Spoken
<1> QED BY <1>6, <1>7

\* An open session may say more, or close.
LEMMA OpenSpeaks ==
  ASSUME TypeOK, WordOrder, NEW s \in Sessions,
         session[s] \in {"open", "handshake"}, session'[s] \in {"open", "joining"},
         \A r \in Sessions : r # s => session'[r] = session[r] /\ events'[r] = events[r],
         UNCHANGED owned
  PROVE  /\ WordOrder'
         /\ \A r \in Sessions : owned[r] /\ Spoken(r) => Spoken(r)'
<1>1. ASSUME NEW r \in Sessions, r # s PROVE session'[r] = session[r] /\ events'[r] = events[r]
  BY <1>1
<1>2. WordOrder'
  BY <1>1 DEF WordOrder
<1>3. ASSUME NEW r \in Sessions, owned[r], Spoken(r) PROVE Spoken(r)'
  BY <1>1, <1>3 DEF Spoken
<1> QED BY <1>2, <1>3

\* The threads of the links say their words in order.
LEMMA LinkKeepsWord ==
  ASSUME TypeOK, WordOrder, LinkStep
  PROVE  /\ WordOrder' /\ UNCHANGED owned
         /\ \A r \in Sessions : owned[r] /\ Spoken(r) => Spoken(r)'
<1>1. ASSUME UNCHANGED <<session, events, owned>>
      PROVE  /\ WordOrder' /\ UNCHANGED owned
             /\ \A r \in Sessions : owned[r] /\ Spoken(r) => Spoken(r)'
  BY <1>1 DEF WordOrder, Spoken
<1>2. ASSUME NEW p \in Games, InjectedRuntime(p)
      PROVE  /\ WordOrder' /\ UNCHANGED owned
             /\ \A r \in Sessions : owned[r] /\ Spoken(r) => Spoken(r)'
  <2>1. CASE InitializeFails(p) \/ ServeFails(p) \/ RepliesStuck(p)
    BY <1>1, <2>1 DEF InitializeFails, ServeFails, RepliesStuck, links
  <2>2. ASSUME NEW s \in Sessions, Connect(p, s)
        PROVE  /\ WordOrder' /\ UNCHANGED owned
               /\ \A r \in Sessions : owned[r] /\ Spoken(r) => Spoken(r)'
    BY <2>2 DEF Connect, WordOrder, Spoken, TypeOK, LinkTypeOK
  <2>3. ASSUME NEW s \in Sessions, Serve(p, s)
        PROVE  /\ WordOrder' /\ UNCHANGED owned
               /\ \A r \in Sessions : owned[r] /\ Spoken(r) => Spoken(r)'
    <3>1. UNCHANGED owned
      BY <2>3 DEF Serve
    <3>2. \/ UNCHANGED <<session, events>>
          \/ /\ session[s] = "open" /\ session' = session
             /\ \E e : events' = [events EXCEPT ![s] = Append(@, e)]
          \/ ~ owned[s] /\ session' = [session EXCEPT ![s] = "none"] /\ UNCHANGED events
      <4>1. /\ pipe[s] \in Seq(Command) /\ pipe[s] # << >>
        BY <2>3 DEF Serve, TypeOK, LinkTypeOK
      <4>2. Head(pipe[s]) \in Command
        BY <4>1, QueueTypes
      <4>3. \/ UNCHANGED <<session, events>>
            \/ \E e : Reply(s, e)
        BY <2>3, <4>2 DEF Serve, Command
      <4> QED BY <4>3 DEF Reply
    <3>3. CASE UNCHANGED <<session, events>>
      BY <1>1, <3>1, <3>3
    <3>4. CASE /\ session[s] = "open" /\ session' = session
               /\ \E e : events' = [events EXCEPT ![s] = Append(@, e)]
      <4>1. \A r \in Sessions : r # s => session'[r] = session[r] /\ events'[r] = events[r]
        BY <3>4 DEF TypeOK, LinkTypeOK
      <4> QED BY <3>1, <3>4, <4>1, OpenSpeaks
    <3>5. CASE ~ owned[s] /\ session' = [session EXCEPT ![s] = "none"] /\ UNCHANGED events
      BY <3>1, <3>5 DEF WordOrder, Spoken, TypeOK, LinkTypeOK
    <3> QED BY <3>2, <3>3, <3>4, <3>5
  <2> QED BY <1>2, <2>1, <2>2, <2>3 DEF InjectedRuntime
<1>3. ASSUME NEW s \in Sessions, SessionThread(s) \/ CommandWriter(s) \/ ReadTimesOut(s)
      PROVE  /\ WordOrder' /\ UNCHANGED owned
             /\ \A r \in Sessions : owned[r] /\ Spoken(r) => Spoken(r)'
  <2>1. CASE CommandWriter(s)
    BY <1>1, <2>1 DEF CommandWriter, WriteCommand, WriterEnds
  <2>2. CASE ReadFails(s) \/ ReadTimesOut(s)
    <3>1. /\ session[s] = "open" /\ session' = [session EXCEPT ![s] = "joining"]
          /\ UNCHANGED <<events, owned>>
      BY <2>2 DEF ReadFails, ReadTimesOut, ReaderGivesUp
    <3>2. /\ session'[s] = "joining"
          /\ \A r \in Sessions : r # s => session'[r] = session[r] /\ events'[r] = events[r]
      BY <3>1 DEF TypeOK, LinkTypeOK
    <3> QED BY <3>1, <3>2, OpenSpeaks
  <2>3. CASE JoinWriter(s) \/ SessionEnds(s)
    BY <2>3, EndIsSaid DEF JoinWriter, SessionEnds, Report
  <2>4. CASE Handshake(s) /\ ~ SessionEnds(s)
    <3>1. /\ session[s] = "handshake" /\ session' = [session EXCEPT ![s] = "open"]
          /\ events' = [events EXCEPT ![s] = Append(@, "Connected")] /\ UNCHANGED owned
      BY <2>4 DEF Handshake
    <3>2. /\ session'[s] = "open"
          /\ \A r \in Sessions : r # s => session'[r] = session[r] /\ events'[r] = events[r]
      BY <3>1 DEF TypeOK, LinkTypeOK
    <3> QED BY <3>1, <3>2, OpenSpeaks
  <2> QED BY <1>3, <2>1, <2>2, <2>3, <2>4 DEF SessionThread
<1>4. ASSUME NEW s \in Sessions, NEW p \in Games, ServeTimesOut(p, s)
      PROVE  /\ WordOrder' /\ UNCHANGED owned
             /\ \A r \in Sessions : owned[r] /\ Spoken(r) => Spoken(r)'
  BY <1>1, <1>4 DEF ServeTimesOut, links
<1> QED BY <1>2, <1>3, <1>4 DEF LinkStep

\* An IpcServer that is started has said nothing.
LEMMA ListenKeepsWord ==
  ASSUME TypeOK, WordOrder, NEW s \in Sessions, NEW p, Listen(s, p)
  PROVE  WordOrder'
BY DEF Listen, WordOrder, TypeOK, LinkTypeOK

\* Nobody reads the channels of those that are dropped.
LEMMA DropKeepsWord ==
  ASSUME TypeOK, WordOrder, NEW DD, Drop(DD), UNCHANGED session
  PROVE  WordOrder'
BY DEF Drop, WordOrder, TypeOK, LinkTypeOK

\* The controller takes one event: "Connected" means that the session runs
\* or has left another word, and only the last word leaves nothing behind.
LEMMA PollKeepsWord ==
  ASSUME BackedInv, PollIpc
  PROVE  WordOrder' /\ (connection' = "Injected" => Spoken(ipc)')
<1>1. ipc \in Sessions /\ owned[ipc] /\ events[ipc] # << >>
  BY DEF PollIpc, BackedInv, TypeOK, Maybe, OwnerInv, KeepsItsLinks
<1>2. events[ipc] \in Seq(IpcEvent)
  BY <1>1 DEF BackedInv, TypeOK, LinkTypeOK
<1>3. /\ UNCHANGED <<session, owned, ipc>>
      /\ events' = [events EXCEPT ![ipc] = Tail(events[ipc])]
  BY DEF PollIpc
<1>4. /\ events'[ipc] = Tail(events[ipc])
      /\ \A r \in Sessions : r # ipc => events'[r] = events[r]
  BY <1>1, <1>3 DEF BackedInv, TypeOK, LinkTypeOK
<1>5. session[ipc] \in {"open", "joining", "none"}
  BY <1>1 DEF BackedInv, WordOrder, TypeOK, LinkTypeOK, SessionState
<1>6. session[ipc] = "none" => events[ipc][Len(events[ipc])] = "Disconnected"
  BY <1>1 DEF BackedInv, WordOrder
<1>7. Tail(events[ipc]) # << >> =>
        Tail(events[ipc])[Len(Tail(events[ipc]))] = events[ipc][Len(events[ipc])]
  BY <1>1, <1>2, LastWord
<1>8. WordOrder'
  BY <1>3, <1>4, <1>5, <1>6, <1>7 DEF BackedInv, WordOrder
<1>9. ASSUME connection' = "Injected" PROVE Spoken(ipc)'
  <2>1. Head(events[ipc]) # "Disconnected"
    BY <1>9 DEF PollIpc
  <2>2. session[ipc] = "none" => Tail(events[ipc]) # << >>
    BY <1>1, <1>2, <1>6, <2>1, LastWord
  <2> QED BY <1>3, <1>4, <1>5, <2>2 DEF Spoken
<1> QED BY <1>8, <1>9

\* Whatever fails, exits or is restarted in between, as long as "Injected"
\* is shown the session thread reads, or word of its end waits to be read.
THEOREM InjectedLinksAreBacked == Spec => []InjectedIsBacked
<1>1. Init => WordOrder /\ (ui = "inject" => connection = "Connecting")
                        /\ (connection = "Injected" => Spoken(ipc))
  BY DEF Init, LinkInit, WordOrder
<1>2. BackedInv /\ [Next]_vars =>
        /\ WordOrder'
        /\ (ui = "inject" => connection = "Connecting")'
        /\ (connection = "Injected" => Spoken(ipc))'
  <2> SUFFICES ASSUME BackedInv, [Next]_vars
               PROVE  /\ WordOrder'
                      /\ (ui = "inject" => connection = "Connecting")'
                      /\ (connection = "Injected" => Spoken(ipc))'
    OBVIOUS
  <2>0. /\ TypeOK /\ OwnerInv /\ WordOrder
        /\ connection = "Injected" => ipc \in Sessions /\ owned[ipc]
    BY DEF BackedInv, OwnerInv, KeepsItsLinks, TypeOK, Maybe
  <2>1. CASE LinkStep
    BY <2>0, <2>1, LinkKeepsWord DEF BackedInv, LinkStep, Outside, controller, uiThread
  <2>2. CASE \/ \E p \in Games : GameStep(p)
             \/ \E r \in Restarts : RestartStep(r)
             \/ UNCHANGED vars
    <3>1. UNCHANGED <<session, events, owned, connection, ipc, ui>>
      BY <2>2 DEF GameStep, StartGame, Die, Freeze, Thaw, Outside, RestartStep, OpenGame,
         CloseGame, LaunchGame, AskSteam, FindGame, SetUp, WorldCreated, RestartFails,
         vars, linkVars, links, controller, uiThread
    <3> QED BY <3>1 DEF BackedInv, WordOrder, Spoken
  <2>3. CASE \/ MonitorAlive \/ MonitorFindsNothing \/ EnableHook \/ AskSnapshot
             \/ PollIpcEnds \/ RequestSnapshot \/ EndTick \/ NoClick \/ Request
             \/ Restart \/ StartRestart
    <3>1. UNCHANGED <<session, events, owned, ipc>>
      BY <2>3 DEF MonitorAlive, MonitorFindsNothing, EnableHook, AskSnapshot, PollIpcEnds,
         RequestSnapshot, EndTick, NoClick, Request, Restart, StartRestart, linkVars, links,
         controller
    <3>2. ui' # "inject" /\ connection' \in {connection, "Restarting"}
      BY <2>3 DEF MonitorAlive, MonitorFindsNothing, EnableHook, AskSnapshot, PollIpcEnds,
         RequestSnapshot, EndTick, NoClick, Request, Restart, StartRestart, controller
    <3> QED BY <3>1, <3>2 DEF BackedInv, WordOrder, Spoken
  <2>4. CASE PollIpc
    <3>1. ui' # "inject"
      BY <2>4 DEF PollIpc
    <3> QED BY <2>4, <3>1, PollKeepsWord
  <2>5. CASE PollRestartResult \/ MonitorExited
    <3>1. ui' # "inject"
      BY <2>5 DEF PollRestartResult, MonitorExited, uiThread
    <3>2. \/ UNCHANGED <<session, events, owned, ipc>> /\ connection' \in {connection, "Degraded"}
          \/ UNCHANGED session /\ Drop(Current) /\ connection' = "NoGame"
      BY <2>5 DEF PollRestartResult, RestartSucceeded, RestartFailed, MonitorExited, Forget,
         controller
    <3> QED BY <2>0, <3>1, <3>2, DropKeepsWord DEF BackedInv, WordOrder, Spoken
  <2>6. CASE Inject
    <3>1. ui' # "inject" /\ connection' # "Injected" /\ UNCHANGED session
      BY <2>6 DEF Inject, InjectSucceeds, InjectFails, BackedInv
    <3>2. \E DD : Drop(DD)
      BY <2>6 DEF Inject, InjectSucceeds, InjectFails
    <3> QED BY <2>0, <3>1, <3>2, DropKeepsWord
  <2>7. CASE Retry \/ \E p \in Games : MonitorFinds(p)
    <3>1. /\ connection' \in {"Connecting", "Degraded"}
          /\ ui' = "inject" => connection' = "Connecting"
      BY <2>7 DEF Retry, MonitorFinds
    <3>2. UNCHANGED links \/ \E s \in Sessions : \E p \in Maybe(Games) : Listen(s, p)
      BY <2>0, <2>7 DEF Retry, MonitorFinds, StartServer, TypeOK, Maybe
    <3> QED BY <2>0, <3>1, <3>2, ListenKeepsWord DEF links, WordOrder
  <2> QED BY <2>1, <2>2, <2>3, <2>4, <2>5, <2>6, <2>7 DEF Next, Tick, User
<1>3. BackedInv => InjectedIsBacked
  <2> SUFFICES ASSUME BackedInv, connection = "Injected", session[ipc] \notin {"open", "joining"}
               PROVE  \E i \in DOMAIN events[ipc] : events[ipc][i] = "Disconnected"
    BY DEF InjectedIsBacked
  <2>1. ipc \in Sessions /\ owned[ipc] /\ session[ipc] = "none" /\ events[ipc] # << >>
    BY DEF BackedInv, OwnerInv, KeepsItsLinks, TypeOK, Maybe, Spoken
  <2>2. events[ipc][Len(events[ipc])] = "Disconnected"
    BY <2>1 DEF BackedInv, WordOrder
  <2>3. events[ipc] \in Seq(IpcEvent)
    BY <2>1 DEF BackedInv, TypeOK, LinkTypeOK
  <2>4. Len(events[ipc]) \in DOMAIN events[ipc]
    BY <2>1, <2>3
  <2> QED BY <2>2, <2>4
<1>4. Spec => []BackedInv
  <2> DEFINE Rest == /\ WordOrder
                     /\ ui = "inject" => connection = "Connecting"
                     /\ connection = "Injected" => Spoken(ipc)
  <2>1. Init => Rest
    BY <1>1
  <2>2. (TypeOK /\ OwnerInv) /\ Rest /\ [Next]_vars => Rest'
    BY <1>2 DEF BackedInv
  <2>3. (TypeOK /\ OwnerInv) /\ Rest <=> BackedInv
    BY DEF BackedInv
  <2> HIDE DEF Rest
  <2> QED BY <2>1, <2>2, <2>3, TypeCorrect, OwnersAreKept, PTL DEF Spec
<1> QED BY <1>3, <1>4, PTL

=============================================================================
