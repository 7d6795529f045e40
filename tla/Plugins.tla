------------------------------- MODULE Plugins -------------------------------
(***************************************************************************)
(* A plugin in a process of its own, and the assistant that starts it,     *)
(* talks to it and stops it (crates/assistant/src/plugins.rs, the Plugins  *)
(* tab of app.rs), over two pipes that carry frames (FrameCodec in         *)
(* crates/protocol/src/lib.rs), and a third, the plugin's stderr, that     *)
(* nobody reads.                                                           *)
(*                                                                         *)
(* The thread of the user interface writes to the plugin, and waits when   *)
(* the pipe is full; a thread reads from it.  A plugin answers before it   *)
(* reads on, so that each side may wait for the other.                     *)
(*                                                                         *)
(* Abstractions: a frame is two cells, its length and its body; a frame    *)
(* that FrameCodec::read rejects is a message of the kind "bad"; the       *)
(* reader of a plugin that was stopped ends with it.                       *)
(***************************************************************************)
EXTENDS Naturals, Sequences

CONSTANTS
  Capacity,   \* cells a pipe holds
  LogCapacity,\* lines the pipe of stderr holds
  MaxPings,   \* bound: pings the user sends to a plugin
  MaxEvents,  \* bound: messages a plugin sends unasked
  MaxStarts   \* bound: plugins that are started

ASSUME PluginsAssumption ==
  /\ Capacity \in Nat \ {0} /\ LogCapacity \in Nat
  /\ MaxPings \in Nat /\ MaxEvents \in Nat /\ MaxStarts \in Nat

VARIABLES
  ui,       \* the user interface: what it is about, and the cells it has to write
  host,     \* there is a PluginHost
  reader,   \* its reader thread
  channel,  \* its events
  stdin, stdout,
  plugin,   \* the process, the cells it has to write, and the lines it has logged: one
            \* more than its pipe holds while it waits in a write to stderr
  \* the messages of either stream that were written and that were taken
  asked, taken, said, heard,
  over,     \* the user interface has been told of the end
  pings, events, starts

assistant == <<ui, host, reader, channel>>
pipes == <<stdin, stdout>>
streams == <<asked, taken, said, heard, over>>
vars == <<assistant, pipes, plugin, streams, pings, events, starts>>

-----------------------------------------------------------------------------
Kinds == {"hello", "ack", "ping", "pong", "event", "shutdown", "bad"}
Message == [kind : Kinds, no : Nat]
Cell == [part : {"length", "body"}, of : Message]
Exited == [kind |-> "exited", no |-> 0]

\* "hello": start waits for the first frame; "ack": writes its answer.
UiStage == {"idle", "hello", "ack", "ping", "stop"}

UiTypeOK ==
  /\ ui \in [at : UiStage, out : Seq(Cell)] /\ Len(ui.out) <= 2
  /\ ui.at \in {"idle", "hello"} => ui.out = << >>
  /\ reader \in {"none", "reading", "ended"}

PipesTypeOK ==
  /\ stdin \in Seq(Cell) /\ Len(stdin) <= Capacity
  /\ stdout \in Seq(Cell) /\ Len(stdout) <= Capacity
  /\ channel \in Seq(Message \cup {Exited})
  /\ \A k \in DOMAIN channel : channel[k] = Exited => k = Len(channel) /\ reader = "ended"

PluginTypeOK ==
  /\ plugin \in [life : {"none", "running", "ended"}, out : Seq(Cell),
                 greeted : BOOLEAN, connected : BOOLEAN, logs : 0 .. LogCapacity + 1]
  /\ Len(plugin.out) <= 2

StreamsTypeOK ==
  /\ asked \in Seq(Message) /\ taken \in Seq(Message)
  /\ said \in Seq(Message) /\ heard \in Seq(Message)

FlagsTypeOK == host \in BOOLEAN /\ over \in BOOLEAN

CountsTypeOK == pings \in 0 .. MaxPings /\ events \in 0 .. MaxEvents /\ starts \in 0 .. MaxStarts

TypeOK ==
  UiTypeOK /\ PipesTypeOK /\ PluginTypeOK /\ StreamsTypeOK /\ FlagsTypeOK /\ CountsTypeOK

NoPlugin == [life |-> "none", out |-> << >>, greeted |-> FALSE, connected |-> FALSE,
             logs |-> 0]
Idle == [at |-> "idle", out |-> << >>]

Init ==
  /\ ui = Idle /\ host = FALSE /\ reader = "none" /\ channel = << >>
  /\ stdin = << >> /\ stdout = << >> /\ plugin = NoPlugin
  /\ asked = << >> /\ taken = << >> /\ said = << >> /\ heard = << >> /\ over = FALSE
  /\ pings = 0 /\ events = 0 /\ starts = 0

M(kind, no) == [kind |-> kind, no |-> no]
\* FrameCodec::write: the length, then the body.
Frame(m) == <<[part |-> "length", of |-> m], [part |-> "body", of |-> m]>>
\* The messages of which a cell is the last, as a sequence.
Completed(cell) == IF cell.part = "body" THEN <<cell.of>> ELSE << >>

Running == plugin.life = "running"
\* The assistant has its ends of the pipes.
Reading == ui.at \in {"hello", "ack"} \/ reader = "reading"
Writing == ui.at \in {"hello", "ack"} \/ host
\* The plugin waits in a write to stderr: nobody reads it, but its reader has it open.
Stuck == plugin.logs > LogCapacity /\ Writing

-----------------------------------------------------------------------------
(* PluginHost::start.                                                      *)

\* The process is spawned with new pipes.
Start ==
  /\ ui = Idle /\ ~ host
  /\ starts < MaxStarts /\ starts' = starts + 1
  /\ ui' = [at |-> "hello", out |-> << >>]
  /\ plugin' = [NoPlugin EXCEPT !.life = "running"]
  /\ stdin' = << >> /\ stdout' = << >>
  /\ asked' = << >> /\ taken' = << >> /\ said' = << >> /\ heard' = << >> /\ over' = FALSE
  /\ pings' = 0 /\ events' = 0
  /\ UNCHANGED <<host, reader, channel>>

\* An early return: the pipes are closed, the process is left alone.
StartFails == ui' = Idle /\ over' = TRUE /\ UNCHANGED <<host, reader, channel>>

\* start reads the first frame on the thread of the user interface.
ReadHello ==
  /\ ui.at = "hello"
  /\ \/ /\ stdout # << >>
        /\ stdout' = Tail(stdout)
        /\ heard' = heard \o Completed(Head(stdout))
        /\ IF Head(stdout).part = "length"
             THEN UNCHANGED <<assistant, over>>
             ELSE IF Head(stdout).of.kind = "hello"
               THEN /\ ui' = [at |-> "ack", out |-> Frame(M("ack", 0))]
                    /\ UNCHANGED <<host, reader, channel, over>>
               ELSE StartFails
     \/ /\ stdout = << >> /\ ~ Running
        /\ StartFails
        /\ UNCHANGED <<stdout, heard>>
  /\ UNCHANGED <<stdin, plugin, asked, taken, said, pings, events, starts>>

\* The host is there: its reader is started.
Connected ==
  /\ ui.at = "ack" /\ ui.out = << >>
  /\ ui' = Idle /\ host' = TRUE /\ reader' = "reading" /\ channel' = << >>
  /\ plugin' = [plugin EXCEPT !.connected = TRUE]
  /\ UNCHANGED <<pipes, streams, pings, events, starts>>

-----------------------------------------------------------------------------
(* PluginHost: writing, stopping, events.                                  *)

\* MUTANT: a write does not wait, and what does not fit is taken for written.
WriteOrDrop ==
  /\ ui.out # << >> /\ Running
  /\ stdin' = IF Len(stdin) < Capacity THEN Append(stdin, Head(ui.out)) ELSE stdin
  /\ asked' = asked \o Completed(Head(ui.out))
  /\ ui' = [ui EXCEPT !.out = Tail(@)]
  /\ UNCHANGED <<host, reader, channel, stdout, plugin, taken, said, heard, over,
                 pings, events, starts>>

\* MUTANT: a write does not wait for room.
WriteAhead ==
  /\ ui.out # << >> /\ Running
  /\ stdin' = Append(stdin, Head(ui.out))
  /\ asked' = asked \o Completed(Head(ui.out))
  /\ ui' = [ui EXCEPT !.out = Tail(@)]
  /\ UNCHANGED <<host, reader, channel, stdout, plugin, taken, said, heard, over,
                 pings, events, starts>>

\* One write of FrameCodec::write, which waits for room.
WriteCell ==
  /\ ui.out # << >> /\ Running /\ Len(stdin) < Capacity
  /\ stdin' = Append(stdin, Head(ui.out))
  /\ asked' = asked \o Completed(Head(ui.out))
  /\ ui' = [ui EXCEPT !.out = Tail(@)]
  /\ UNCHANGED <<host, reader, channel, stdout, plugin, taken, said, heard, over,
                 pings, events, starts>>

\* The pipe is broken: start returns the error, the others go on without it.
WriteFails ==
  /\ ui.out # << >> /\ ~ Running
  /\ IF ui.at = "ack" THEN StartFails
     ELSE ui' = [ui EXCEPT !.out = << >>] /\ UNCHANGED <<host, reader, channel, over>>
  /\ UNCHANGED <<pipes, plugin, asked, taken, said, heard, pings, events, starts>>

Ping ==
  /\ ui = Idle /\ host
  /\ pings < MaxPings /\ pings' = pings + 1
  /\ ui' = [at |-> "ping", out |-> Frame(M("ping", pings'))]
  /\ UNCHANGED <<host, reader, channel, pipes, plugin, streams, events, starts>>

PingDone ==
  /\ ui.at = "ping" /\ ui.out = << >>
  /\ ui' = Idle
  /\ UNCHANGED <<host, reader, channel, pipes, plugin, streams, pings, events, starts>>

\* The Stop button drops the host, and so does the end of the assistant: Shutdown first.
Stop ==
  /\ ui = Idle /\ host
  /\ ui' = [at |-> "stop", out |-> Frame(M("shutdown", 0))]
  /\ UNCHANGED <<host, reader, channel, pipes, plugin, streams, pings, events, starts>>

\* MUTANT: Shutdown is taken to be enough.
StopWithoutKilling ==
  /\ ui.at = "stop" /\ ui.out = << >>
  /\ ui' = Idle /\ host' = FALSE /\ reader' = "none" /\ channel' = << >> /\ over' = TRUE
  /\ UNCHANGED <<pipes, plugin, asked, taken, said, heard, pings, events, starts>>

\* The process is killed unless it has ended already.
Stopped ==
  /\ ui.at = "stop" /\ ui.out = << >>
  /\ ui' = Idle /\ host' = FALSE /\ reader' = "none" /\ channel' = << >> /\ over' = TRUE
  /\ plugin' = [plugin EXCEPT !.life = "ended", !.out = << >>]
  /\ UNCHANGED <<pipes, asked, taken, said, heard, pings, events, starts>>

\* The Plugins tab takes the events there are; the end, if it is among them, is the last.
ShowEvents ==
  /\ ui = Idle /\ host /\ channel # << >>
  /\ IF channel[Len(channel)] = Exited
       THEN heard' = heard \o SubSeq(channel, 1, Len(channel) - 1) /\ over' = TRUE
       ELSE heard' = heard \o channel /\ UNCHANGED over
  /\ channel' = << >>
  /\ UNCHANGED <<ui, host, reader, pipes, plugin, asked, taken, said, pings, events, starts>>

-----------------------------------------------------------------------------
(* The reader thread.                                                      *)

\* MUTANT: the channel of the events holds one of them.
ReadWhenShown ==
  /\ reader = "reading" /\ stdout # << >> /\ channel = << >>
  /\ stdout' = Tail(stdout)
  /\ channel' = channel \o Completed(Head(stdout))
  /\ UNCHANGED <<ui, host, reader, stdin, plugin, streams, pings, events, starts>>

\* MUTANT: a frame that cannot be read is skipped.
ReadSkippingBad ==
  /\ reader = "reading" /\ stdout # << >>
  /\ stdout' = Tail(stdout)
  /\ channel' = channel \o (IF Head(stdout).of.kind = "bad" THEN << >>
                                                           ELSE Completed(Head(stdout)))
  /\ UNCHANGED <<ui, host, reader, stdin, plugin, streams, pings, events, starts>>

\* FrameCodec::read, a cell at a time; after a frame it rejects the thread ends.
Read ==
  /\ reader = "reading" /\ stdout # << >>
  /\ stdout' = Tail(stdout)
  /\ IF Completed(Head(stdout)) # << >> /\ Head(stdout).of.kind = "bad"
       THEN channel' = Append(channel, Exited) /\ reader' = "ended"
       ELSE channel' = channel \o Completed(Head(stdout)) /\ UNCHANGED reader
  /\ UNCHANGED <<ui, host, stdin, plugin, streams, pings, events, starts>>

\* The end of the stream, be it in the middle of a frame.
ReadFails ==
  /\ reader = "reading" /\ stdout = << >> /\ ~ Running
  /\ channel' = Append(channel, Exited) /\ reader' = "ended"
  /\ UNCHANGED <<ui, host, pipes, plugin, streams, pings, events, starts>>

-----------------------------------------------------------------------------
(* The plugin: it greets, answers each ping before it reads on, may speak  *)
(* unasked or send what is no message, and ends when told so or when a     *)
(* pipe is closed.                                                         *)

PluginKeeps == UNCHANGED <<assistant, asked, heard, over, pings, starts>>

Speak ==
  /\ Running /\ ~ Stuck /\ plugin.out = << >>
  /\ \/ /\ ~ plugin.greeted
        /\ \E kind \in {"hello", "bad"} :
             plugin' = [plugin EXCEPT !.greeted = TRUE, !.out = Frame(M(kind, 0))]
        /\ UNCHANGED events
     \/ /\ plugin.greeted
        /\ events < MaxEvents /\ events' = events + 1
        /\ \E kind \in {"event", "bad"} :
             plugin' = [plugin EXCEPT !.out = Frame(M(kind, events'))]
  /\ UNCHANGED <<pipes, taken, said>> /\ PluginKeeps

PluginWrites ==
  /\ Running /\ ~ Stuck /\ plugin.out # << >>
  /\ IF Reading
       THEN /\ Len(stdout) < Capacity
            /\ stdout' = Append(stdout, Head(plugin.out))
            /\ said' = said \o Completed(Head(plugin.out))
            /\ plugin' = [plugin EXCEPT !.out = Tail(@)]
       ELSE /\ plugin' = [plugin EXCEPT !.life = "ended", !.out = << >>]
            /\ UNCHANGED <<stdout, said>>
  /\ UNCHANGED <<stdin, taken, events>> /\ PluginKeeps

PluginReads ==
  /\ Running /\ ~ Stuck /\ plugin.out = << >> /\ plugin.greeted
  /\ \/ /\ stdin # << >>
        /\ stdin' = Tail(stdin)
        /\ taken' = taken \o Completed(Head(stdin))
        /\ plugin' = IF Head(stdin).part = "length" THEN plugin
                     ELSE CASE Head(stdin).of.kind = "ping" ->
                                 [plugin EXCEPT !.out = Frame(M("pong", Head(stdin).of.no))]
                            [] Head(stdin).of.kind = "shutdown" ->
                                 [plugin EXCEPT !.life = "ended"]
                            [] OTHER -> plugin
     \/ /\ stdin = << >> /\ ~ Writing
        /\ plugin' = [plugin EXCEPT !.life = "ended"]
        /\ UNCHANGED <<stdin, taken>>
  /\ UNCHANGED <<stdout, said, events>> /\ PluginKeeps

\* A line to stderr, between two messages.
PluginLogs ==
  /\ Running /\ Writing /\ ~ Stuck /\ plugin.out = << >>
  /\ plugin' = [plugin EXCEPT !.logs = @ + 1]
  /\ UNCHANGED <<pipes, taken, said, events>> /\ PluginKeeps

PluginCrashes ==
  /\ Running
  /\ plugin' = [plugin EXCEPT !.life = "ended", !.out = << >>]
  /\ UNCHANGED <<pipes, taken, said, events>> /\ PluginKeeps

-----------------------------------------------------------------------------
UserInterface == ReadHello \/ Connected \/ WriteCell \/ WriteFails \/ PingDone \/ Stopped
User == Start \/ Ping \/ Stop \/ ShowEvents
Reader == Read \/ ReadFails
Plugin == Speak \/ PluginWrites \/ PluginReads \/ PluginLogs \/ PluginCrashes

Next == UserInterface \/ User \/ Reader \/ Plugin

Spec == Init /\ [][Next]_vars
\* The threads of the assistant run.  Of the plugin it is assumed that it greets, reads
\* what it is sent, and goes on writing when there is room, unless it waits in a write to
\* stderr.
FairSpec ==
  /\ Spec /\ WF_vars(UserInterface) /\ WF_vars(Reader)
  /\ WF_vars(Speak /\ ~ plugin.greeted) /\ WF_vars(PluginWrites) /\ WF_vars(PluginReads)

-----------------------------------------------------------------------------
(* Correctness.                                                            *)

\* Each direction is a stream as Fifo describes it: whatever the sizes of the pipes and
\* wherever frames are cut, either end takes the other's messages whole and in order, and
\* nothing is heard of a plugin once its end has been reported (FrameCodec::write and read,
\* the reader thread and its channel).
ToPlugin == INSTANCE Fifo WITH Messages <- Message, written <- asked, heard <- taken,
                               ended <- FALSE
FromPlugin == INSTANCE Fifo WITH Messages <- Message, written <- said, heard <- heard,
                                 ended <- over
ToPluginSpec == ToPlugin!Spec
FromPluginSpec == FromPlugin!Spec

\* Whatever the user interface has begun with a plugin comes to an end: it never waits for
\* a plugin that waits for it (start, send and stop write on its thread).  The exception is
\* the pipe that nobody reads: a plugin may fill its stderr, and never read on.
UiIsFreed == ui.at # "idle" ~> ui.at = "idle" \/ (Running /\ Stuck)

\* A plugin that was connected to does not outlive its host (PluginHost::stop, drop).
PluginsAreEnded == plugin.connected /\ ~ host => ~ Running
==============================================================================
