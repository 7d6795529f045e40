-------------------------------- MODULE Link --------------------------------
(***************************************************************************)
(* The named-pipe link between the assistant and a game                    *)
(* (crates/assistant/src/ipc.rs, crates/injected/src/lib.rs and            *)
(* crates/protocol/src/pipe.rs).                                           *)
(*                                                                         *)
(* The assistant's side of a link is an IpcServer: a session thread that   *)
(* accepts the client, shakes hands and reads, a command-writer thread,    *)
(* and the two channels that join them to the thread of the user           *)
(* interface.  The game's side is the injected runtime: the initializer    *)
(* thread that connects, serves requests until the link ends and then      *)
(* joins a writer of its own.                                              *)
(*                                                                         *)
(* This module has the state of the links and the steps of those threads;  *)
(* Runtime composes it with the controller that starts, uses and drops     *)
(* them.  A frame is its kind; a process that ended is not reborn under    *)
(* its old id.                                                             *)
(***************************************************************************)
EXTENDS Naturals, Sequences, FiniteSets

CONSTANTS
  Games,            \* CoE5 processes, by process id
  Sessions,         \* IpcServers that exist at a time
  None,
  Incompatible,     \* games with another version of the DLL loaded
  CommandCapacity,  \* COMMAND_CAPACITY
  PipeCapacity      \* bound: frames that fit the buffer of a pipe

ASSUME LinkAssumption ==
  /\ None \notin Games \cup Sessions
  /\ Incompatible \subseteq Games
  /\ CommandCapacity \in Nat \ {0} /\ PipeCapacity \in Nat \ {0}

VARIABLES
  game,      \* what each process is doing
  injected,  \* where AzazelInitialize is in each process
  \* IpcServers
  session,   \* where the session thread is
  pid,       \* the game the pipe is named after
  writer,    \* the command writer runs
  commands,  \* the channel to the command writer
  pipe,      \* frames written to the game and not yet read
  events,    \* the channel to the user interface
  owned      \* the IpcServer value has not been dropped

links == <<session, pid, writer, commands, pipe, events, owned>>
linkVars == <<game, injected, links>>

-----------------------------------------------------------------------------
\* "frozen": all threads stopped, by a debugger or for want of memory.
GameState == {"new", "running", "frozen", "dead"}
\* "joining": waits for its writer, "returned": AzazelInitialize has returned.
RuntimeState == {"none", "connecting", "handshake", "serving", "joining", "returned"}
\* "joining": reading failed, waits for the command writer.
SessionState == {"none", "listening", "handshake", "open", "joining"}
Command == {"SetHook", "SnapshotRequest", "Shutdown"}
IpcEvent == {"Connected", "Snapshot", "CapabilityReport", "Disconnected"}

LinkTypeOK ==
  /\ game \in [Games -> GameState]
  /\ injected \in [Games -> RuntimeState]
  /\ session \in [Sessions -> SessionState]
  /\ pid \in [Sessions -> Games \cup {None}]
  /\ writer \in [Sessions -> BOOLEAN]
  /\ commands \in [Sessions -> Seq(Command)]
  /\ \A s \in Sessions : Len(commands[s]) <= CommandCapacity
  /\ pipe \in [Sessions -> Seq(Command)]
  /\ events \in [Sessions -> Seq(IpcEvent)]
  /\ owned \in [Sessions -> BOOLEAN]

LinkInit ==
  /\ game = [p \in Games |-> "new"]
  /\ injected = [p \in Games |-> "none"]
  /\ session = [s \in Sessions |-> "none"]
  /\ pid = [s \in Sessions |-> None]
  /\ writer = [s \in Sessions |-> FALSE]
  /\ commands = [s \in Sessions |-> << >>]
  /\ pipe = [s \in Sessions |-> << >>]
  /\ events = [s \in Sessions |-> << >>]
  /\ owned = [s \in Sessions |-> FALSE]

Alive(p) == game[p] \in {"running", "frozen"}
Running(p) == game[p] = "running"

\* Either thread of the assistant keeps its end of the pipe open.
PipeOpen(s) == session[s] # "none" \/ writer[s]

\* The runtime of pid[s] is the client of s's pipe, and its initializer
\* thread reads from it.
Reading(s) == injected[pid[s]] \in {"handshake", "serving"}

-----------------------------------------------------------------------------
(* What the owner of an IpcServer does with it.                            *)

\* CreateNamedPipeW with one instance: refused while any older pipe of the
\* same name is open.
CanListen(p) == \A s \in Sessions : PipeOpen(s) => pid[s] # p

Free(s) == ~ PipeOpen(s) /\ ~ owned[s]

\* IpcServer::start(p) as session s.
Listen(s, p) ==
  /\ Free(s) /\ CanListen(p)
  /\ session' = [session EXCEPT ![s] = "listening"]
  /\ pid' = [pid EXCEPT ![s] = p]
  /\ owned' = [owned EXCEPT ![s] = TRUE]
  /\ events' = [events EXCEPT ![s] = << >>]
  /\ pipe' = [pipe EXCEPT ![s] = << >>]
  /\ UNCHANGED <<writer, commands>>

\* The receiver of the command channel: held by the session thread, later
\* by the command writer.
ReceiverAlive(s) == session[s] \in {"listening", "handshake"} \/ writer[s]

\* MUTANT: a command is queued however many there are.
SendUnbounded(s, c) == commands' = [commands EXCEPT ![s] = Append(@, c)]

\* IpcServer::send and shutdown: the caller waits while the channel is
\* full; there is an error, which nobody looks at, once its receiver is gone.
Send(s, c) ==
  IF ReceiverAlive(s)
    THEN /\ Len(commands[s]) < CommandCapacity
         /\ commands' = [commands EXCEPT ![s] = Append(@, c)]
    ELSE UNCHANGED commands

\* The owner drops the IpcServers in D, both its ends of their channels.
Drop(D) ==
  /\ owned' = [s \in Sessions |-> owned[s] /\ s \notin D]
  /\ events' = [s \in Sessions |-> IF s \in D THEN << >> ELSE events[s]]

-----------------------------------------------------------------------------
(* AzazelInitialize.                                                       *)

\* A thread enters AzazelInitialize: only the first one ever gets past
\* INITIALIZATION_STATE, the others return 2.
Initialize(p) ==
  injected' = IF injected[p] = "none"
                THEN [injected EXCEPT ![p] = "connecting"] ELSE injected

\* run() fails before it is connected: a failed check of the executable, or
\* no pipe to open within 15 seconds.
InitializeFails(p) ==
  /\ Running(p) /\ injected[p] = "connecting"
  /\ injected' = [injected EXCEPT ![p] = "returned"]
  /\ UNCHANGED <<game, links>>

\* The runtime opens the pipe and writes Hello; ConnectNamedPipe returns.
Connect(p, s) ==
  /\ Running(p) /\ injected[p] = "connecting"
  /\ session[s] = "listening" /\ pid[s] = p
  /\ injected' = [injected EXCEPT ![p] = "handshake"]
  /\ session' = [session EXCEPT ![s] = "handshake"]
  /\ UNCHANGED <<game, pid, writer, commands, pipe, events, owned>>

\* After a Shutdown the runtime disables its hooks, drops its sender and
\* joins its writer, which EVENT_SENDER keeps waiting for frames.
AfterRequest(p, s) ==
  IF Head(pipe[s]) = "Shutdown" THEN "joining" ELSE "serving"

\* A reply reaches the session thread, which passes it on or, when nobody
\* is left to pass it on to, returns.  The same reply twice in a row is
\* kept once: the second changes nothing.
Reply(s, event) ==
  LET queued == events[s] # << >> /\ events[s][Len(events[s])] = event
  IN IF session[s] = "open"
       THEN IF owned[s]
              THEN /\ events' = IF queued THEN events
                                ELSE [events EXCEPT ![s] = Append(@, event)]
                   /\ UNCHANGED session
              ELSE /\ session' = [session EXCEPT ![s] = "none"]
                   /\ UNCHANGED events
       ELSE UNCHANGED <<session, events>>

\* The message loop of run() reads and answers one request.
Serve(p, s) ==
  /\ Running(p) /\ injected[p] = "serving"
  /\ pid[s] = p /\ PipeOpen(s) /\ pipe[s] # << >>
  /\ pipe' = [pipe EXCEPT ![s] = Tail(@)]
  /\ injected' = [injected EXCEPT ![p] = AfterRequest(p, s)]
  /\ CASE Head(pipe[s]) = "SnapshotRequest" -> Reply(s, "Snapshot")
       [] Head(pipe[s]) = "SetHook" -> Reply(s, "CapabilityReport")
       [] Head(pipe[s]) = "Shutdown" -> UNCHANGED <<session, events>>
  /\ UNCHANGED <<game, pid, writer, commands, owned>>

\* The pipe is gone (what it still held goes with it): the read fails,
\* run() returns and the hooks are dropped.
ServeFails(p) ==
  /\ Running(p) /\ injected[p] \in {"handshake", "serving"}
  /\ \A s \in Sessions : PipeOpen(s) /\ pid[s] = p => session[s] = "listening"
  /\ injected' = [injected EXCEPT ![p] = "returned"]
  /\ UNCHANGED <<game, links>>

\* Nothing to read for 15 seconds: the read times out and run() returns.
ServeTimesOut(p, s) ==
  /\ Running(p) /\ injected[p] \in {"handshake", "serving"}
  /\ pid[s] = p /\ session[s] \in {"open", "joining"}
  /\ pipe[s] = << >> /\ commands[s] = << >>
  /\ injected' = [injected EXCEPT ![p] = "returned"]
  /\ UNCHANGED <<game, links>>

\* Nobody takes the runtime's replies any more: they fill the pipe, its
\* writer gives up after 15 seconds and the next reply fails run().
RepliesStuck(p) ==
  /\ Running(p) /\ injected[p] = "serving"
  /\ \E s \in Sessions : pid[s] = p /\ session[s] = "joining"
  /\ injected' = [injected EXCEPT ![p] = "returned"]
  /\ UNCHANGED <<game, links>>

-----------------------------------------------------------------------------
(* The threads of the assistant.                                           *)

\* session() returns an error before it has a command writer.
SessionEnds(s) ==
  /\ session' = [session EXCEPT ![s] = "none"]
  /\ commands' = [commands EXCEPT ![s] = << >>]
  /\ events' = IF owned[s] THEN [events EXCEPT ![s] = Append(@, "Disconnected")]
                           ELSE events
  /\ UNCHANGED <<game, pid, writer, pipe, owned>>

\* session() reads Hello and answers it with HelloAck.
Handshake(s) ==
  /\ session[s] = "handshake"
  /\ \/ /\ Alive(pid[s]) /\ pid[s] \notin Incompatible
        /\ injected' = [injected EXCEPT ![pid[s]] =
                          IF @ = "handshake" THEN "serving" ELSE @]
        /\ \/ /\ owned[s]
              /\ session' = [session EXCEPT ![s] = "open"]
              /\ writer' = [writer EXCEPT ![s] = TRUE]
              /\ events' = [events EXCEPT ![s] = Append(@, "Connected")]
              /\ UNCHANGED <<game, pid, commands, pipe, owned>>
           \/ /\ ~ owned[s]
              /\ SessionEnds(s)
     \/ \* another version, which takes the refusal for an error
        /\ Alive(pid[s]) /\ pid[s] \in Incompatible
        /\ injected' = [injected EXCEPT ![pid[s]] =
                          IF @ = "handshake" THEN "returned" ELSE @]
        /\ SessionEnds(s)
     \/ \* Hello did not come: the game is gone, or was stopped before it
        /\ ~ Running(pid[s])
        /\ SessionEnds(s) /\ UNCHANGED injected

\* MUTANT: a write waits as long as it takes the game to read.
WriteWhenRead(s) ==
  /\ writer[s] /\ commands[s] # << >> /\ Len(pipe[s]) < PipeCapacity
  /\ pipe' = [pipe EXCEPT ![s] = Append(@, Head(commands[s]))]
  /\ writer' = [writer EXCEPT ![s] = Head(commands[s]) # "Shutdown"]
  /\ commands' = [commands EXCEPT ![s] = Tail(@)]
  /\ UNCHANGED <<game, injected, session, pid, events, owned>>

\* The command writer takes a command and writes it.  It ends after a
\* Shutdown, and when the write fails: the game is gone, or has not read
\* for 15 seconds what fills the pipe.
WriteCommand(s) ==
  LET c == Head(commands[s])
      stuck == ~ Running(pid[s]) \/ ~ Reading(s)
      written == Alive(pid[s]) /\ Len(pipe[s]) < PipeCapacity
  IN /\ writer[s] /\ commands[s] # << >>
     /\ written \/ stuck
     /\ pipe' = IF written THEN [pipe EXCEPT ![s] = Append(@, c)] ELSE pipe
     /\ writer' = [writer EXCEPT ![s] = written /\ c # "Shutdown"]
     /\ commands' = [commands EXCEPT ![s] =
                       IF written /\ c # "Shutdown" THEN Tail(@) ELSE << >>]
     /\ UNCHANGED <<game, injected, session, pid, events, owned>>

\* Every command is written and no more can come.
WriterEnds(s) ==
  /\ writer[s] /\ ~ owned[s] /\ commands[s] = << >>
  /\ writer' = [writer EXCEPT ![s] = FALSE]
  /\ UNCHANGED <<game, injected, session, pid, commands, pipe, events, owned>>

ReaderGivesUp(s) ==
  /\ session[s] = "open"
  /\ session' = [session EXCEPT ![s] = "joining"]
  /\ UNCHANGED <<game, injected, pid, writer, commands, pipe, events, owned>>

\* Reading fails: the game is gone, or will not answer within 15 seconds.
ReadFails(s) ==
  /\ session[s] = "open"
  /\ ~ Running(pid[s]) \/ injected[pid[s]] # "serving"
  /\ ReaderGivesUp(s)

\* Nothing was asked for 15 seconds, so nothing was answered.
ReadTimesOut(s) ==
  /\ pipe[s] = << >> /\ commands[s] = << >>
  /\ ReaderGivesUp(s)

\* MUTANT: the loss of the link is not reported.
ReportNothing(s) == UNCHANGED events

Report(s) ==
  events' = IF owned[s] THEN [events EXCEPT ![s] = Append(@, "Disconnected")]
                        ELSE events

\* session() joins the command writer and reports that the link is lost.
JoinWriter(s) ==
  /\ session[s] = "joining" /\ ~ writer[s]
  /\ session' = [session EXCEPT ![s] = "none"]
  /\ Report(s)
  /\ UNCHANGED <<game, injected, pid, writer, commands, pipe, owned>>

-----------------------------------------------------------------------------
(* The games.                                                              *)

\* The process ends, and every handle it had is closed.
Die(p) ==
  /\ Alive(p)
  /\ game' = [game EXCEPT ![p] = "dead"]
  /\ UNCHANGED <<injected, links>>

Freeze(p) ==
  /\ Running(p)
  /\ game' = [game EXCEPT ![p] = "frozen"]
  /\ UNCHANGED <<injected, links>>

Thaw(p) ==
  /\ game[p] = "frozen"
  /\ game' = [game EXCEPT ![p] = "running"]
  /\ UNCHANGED <<injected, links>>

-----------------------------------------------------------------------------
InjectedRuntime(p) ==
  \/ InitializeFails(p) \/ ServeFails(p) \/ RepliesStuck(p)
  \/ \E s \in Sessions : Connect(p, s) \/ Serve(p, s)

SessionThread(s) == Handshake(s) \/ ReadFails(s) \/ JoinWriter(s)
CommandWriter(s) == WriteCommand(s) \/ WriterEnds(s)
=============================================================================
