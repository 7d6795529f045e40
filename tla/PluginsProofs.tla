---------------------------- MODULE PluginsProofs ----------------------------
(***************************************************************************)
(* Proofs about Plugins, for pipes of any size and any number of messages. *)
(*                                                                         *)
(* That the stream to a plugin is a Fifo rests on where each cell in the   *)
(* pipe belongs: cells are numbered from the first one written, the odd    *)
(* ones are lengths and the even ones bodies, and the messages they are of *)
(* are those asked, in that order.                                         *)
(***************************************************************************)
EXTENDS Plugins, SequenceTheorems, TLAPS

-----------------------------------------------------------------------------
(* Types.                                                                  *)

\* What the user interface and the plugin write: two cells of a message.
LEMMA FrameTypes ==
  ASSUME NEW kind \in Kinds, NEW no \in Nat
  PROVE  Frame(M(kind, no)) \in Seq(Cell) /\ Len(Frame(M(kind, no))) <= 2
BY DEF Frame, M, Message, Cell

\* What a cell completes.
LEMMA CompletedTypes ==
  ASSUME NEW cell \in Cell
  PROVE  Completed(cell) \in Seq(Message)
BY DEF Completed, Cell

\* A cell that is taken out of a pipe, and the message it may complete.
LEMMA CellTaken ==
  ASSUME NEW pipe \in Seq(Cell), Len(pipe) <= Capacity, pipe # << >>
  PROVE  /\ Head(pipe) \in Cell /\ Tail(pipe) \in Seq(Cell) /\ Len(Tail(pipe)) <= Capacity
         /\ Completed(Head(pipe)) \in Seq(Message)
<1>1. Head(pipe) \in Cell /\ Tail(pipe) \in Seq(Cell) /\ Len(Tail(pipe)) = Len(pipe) - 1
  OBVIOUS
<1> QED  BY <1>1, CompletedTypes, PluginsAssumption

\* A cell of some that are to be written, put into a pipe.
LEMMA CellPut ==
  ASSUME NEW out \in Seq(Cell), out # << >>, Len(out) <= 2,
         NEW pipe \in Seq(Cell), Len(pipe) < Capacity
  PROVE  /\ Append(pipe, Head(out)) \in Seq(Cell) /\ Len(Append(pipe, Head(out))) <= Capacity
         /\ Tail(out) \in Seq(Cell) /\ Len(Tail(out)) <= 2
         /\ Completed(Head(out)) \in Seq(Message)
<1>1. Head(out) \in Cell /\ Tail(out) \in Seq(Cell) /\ Len(Tail(out)) = Len(out) - 1
  OBVIOUS
<1> QED  BY <1>1, CompletedTypes, PluginsAssumption

\* The events the Plugins tab takes for messages are messages.
LEMMA EventTypes ==
  ASSUME PipesTypeOK, channel # << >>
  PROVE  /\ SubSeq(channel, 1, Len(channel) - 1) \in Seq(Message)
         /\ channel[Len(channel)] # Exited => channel \in Seq(Message)
<1>1. /\ Len(channel) \in Nat /\ Len(channel) > 0 /\ DOMAIN channel = 1 .. Len(channel)
      /\ \A k \in 1 .. Len(channel) : channel[k] \in Message \cup {Exited}
  BY DEF PipesTypeOK
<1>2. \A k \in 1 .. Len(channel) - 1 : channel[k] \in Message
  BY <1>1 DEF PipesTypeOK
<1>3. SubSeq(channel, 1, Len(channel) - 1) \in Seq(Message)
  BY <1>1, <1>2, SubSeqProperties
<1>4. ASSUME channel[Len(channel)] # Exited PROVE channel \in Seq(Message)
  <2>1. \A k \in 1 .. Len(channel) : channel[k] \in Message
    BY <1>1, <1>2, <1>4
  <2> QED  BY <1>1, <2>1 DEF PipesTypeOK
<1> QED  BY <1>3, <1>4

\* A plugin that has ended, with nothing left to write.
LEMMA EndedTypes ==
  PluginTypeOK /\ plugin' = [plugin EXCEPT !.life = "ended", !.out = << >>] => PluginTypeOK'
<1>1. ASSUME PluginTypeOK, NEW out \in Seq(Cell), Len(out) <= 2,
             plugin' = [plugin EXCEPT !.life = "ended", !.out = out]
      PROVE  PluginTypeOK'
  BY <1>1 DEF PluginTypeOK
<1>2. << >> \in Seq(Cell) /\ Len(<< >>) <= 2
  BY EmptySeq
<1> QED  BY <1>1, <1>2

\* The first state.
LEMMA InitTypes == Init => TypeOK
<1> SUFFICES ASSUME Init PROVE TypeOK
  OBVIOUS
<1>1. UiTypeOK /\ PluginTypeOK
  BY PluginsAssumption DEF Init, Idle, NoPlugin, UiStage, UiTypeOK, PluginTypeOK
<1>2. PipesTypeOK /\ StreamsTypeOK /\ CountsTypeOK
  BY PluginsAssumption DEF Init, PipesTypeOK, StreamsTypeOK, CountsTypeOK
<1>3. FlagsTypeOK
  BY Zenon DEF Init, FlagsTypeOK
<1> QED  BY <1>1, <1>2, <1>3 DEF TypeOK

\* The groups of variables are typed each for itself.
LEMMA TypesKept ==
  /\ UiTypeOK /\ UNCHANGED <<ui, reader>> => UiTypeOK'
  /\ PipesTypeOK /\ UNCHANGED <<stdin, stdout, channel, reader>> => PipesTypeOK'
  /\ PluginTypeOK /\ UNCHANGED plugin => PluginTypeOK'
  /\ StreamsTypeOK /\ UNCHANGED <<asked, taken, said, heard>> => StreamsTypeOK'
  /\ CountsTypeOK /\ UNCHANGED <<pings, events, starts>> => CountsTypeOK'
BY DEF UiTypeOK, PipesTypeOK, PluginTypeOK, StreamsTypeOK, CountsTypeOK

\* The flags.
LEMMA FlagTypes == TypeOK /\ Next => FlagsTypeOK'
<1> SUFFICES ASSUME FlagsTypeOK, Next PROVE FlagsTypeOK'
  BY DEF TypeOK
<1>1. host' \in {host, TRUE, FALSE}
  BY DEF Next, UserInterface, User, Reader, Plugin, Start, ReadHello, StartFails, Connected,
     WriteCell, WriteFails, Ping, PingDone, Stop, Stopped, ShowEvents, Read, ReadFails, Speak,
     PluginWrites, PluginReads, PluginLogs, PluginCrashes, PluginKeeps, assistant
<1>2. over' \in {over, TRUE, FALSE} \/ over' = (over \/ \E k \in DOMAIN channel : channel[k] = Exited)
  BY DEF Next, UserInterface, User, Reader, Plugin, Start, ReadHello, StartFails, Connected,
     WriteCell, WriteFails, Ping, PingDone, Stop, Stopped, ShowEvents, Read, ReadFails, Speak,
     PluginWrites, PluginReads, PluginLogs, PluginCrashes, PluginKeeps, streams
<1>3. host' \in BOOLEAN
  BY <1>1, Zenon DEF FlagsTypeOK
<1>4. over' \in BOOLEAN
  BY <1>2, Zenon DEF FlagsTypeOK
<1> QED  BY <1>3, <1>4, Zenon DEF FlagsTypeOK

\* The user interface while it starts a plugin.
LEMMA StartTypes ==
  ASSUME UiTypeOK, PipesTypeOK, PluginTypeOK, StreamsTypeOK, CountsTypeOK,
         Start \/ ReadHello \/ Connected
  PROVE  UiTypeOK' /\ PipesTypeOK' /\ PluginTypeOK' /\ StreamsTypeOK' /\ CountsTypeOK'
<1>1. CASE Start
  <2>1. UiTypeOK' /\ PluginTypeOK'
    <3>1. ui' = [at |-> "hello", out |-> << >>] /\ UNCHANGED reader
      BY <1>1 DEF Start
    <3>2. plugin' = [life |-> "running", out |-> << >>, greeted |-> FALSE, connected |-> FALSE,
                     logs |-> 0]
      BY <1>1 DEF Start, NoPlugin
    <3> QED  BY <3>1, <3>2, PluginsAssumption DEF UiStage, UiTypeOK, PluginTypeOK
  <2>2. PipesTypeOK' /\ StreamsTypeOK' /\ CountsTypeOK'
    BY <1>1, PluginsAssumption, SMTT(30) DEF Start, PipesTypeOK, StreamsTypeOK, CountsTypeOK
  <2> QED  BY <2>1, <2>2
<1>2. CASE ReadHello
  <2>1. UiTypeOK'
    <3>1. "ack" \in Kinds
      BY DEF Kinds
    <3>2. \/ ui' = Idle \/ ui' = ui
          \/ ui' = [at |-> "ack", out |-> Frame(M("ack", 0))]
      BY <1>2 DEF ReadHello, StartFails, assistant
    <3>3. UNCHANGED reader
      BY <1>2 DEF ReadHello, StartFails, assistant
    <3>4. Frame(M("ack", 0)) \in Seq(Cell) /\ Len(Frame(M("ack", 0))) <= 2
      BY <3>1, 0 \in Nat, FrameTypes, Zenon
    <3>5. ASSUME ui' = [at |-> "ack", out |-> Frame(M("ack", 0))] PROVE UiTypeOK'
      BY <3>3, <3>4, <3>5 DEF UiStage, UiTypeOK
    <3>6. ASSUME ui' = Idle PROVE UiTypeOK'
      BY <3>3, <3>6 DEF Idle, UiStage, UiTypeOK
    <3>7. ASSUME ui' = ui PROVE UiTypeOK'
      BY <3>3, <3>7 DEF UiTypeOK
    <3> QED  BY <3>2, <3>5, <3>6, <3>7
  <2>2. PipesTypeOK'
    BY <1>2, CellTaken DEF ReadHello, StartFails, assistant, PipesTypeOK
  <2>3. StreamsTypeOK'
    <3>1. UNCHANGED <<asked, taken, said>>
      BY <1>2 DEF ReadHello
    <3>2. CASE stdout # << >> /\ heard' = heard \o Completed(Head(stdout))
      <4>1. Completed(Head(stdout)) \in Seq(Message)
        BY <3>2, CellTaken DEF PipesTypeOK
      <4>2. heard' \in Seq(Message)
        BY <3>2, <4>1 DEF StreamsTypeOK
      <4> QED  BY <3>1, <4>2 DEF StreamsTypeOK
    <3>3. CASE UNCHANGED heard
      BY <3>1, <3>3, TypesKept
    <3> QED  BY <1>2, <3>2, <3>3 DEF ReadHello
  <2>4. UNCHANGED plugin /\ UNCHANGED <<pings, events, starts>>
    BY <1>2 DEF ReadHello
  <2> QED  BY <2>1, <2>2, <2>3, <2>4, TypesKept
<1>3. CASE Connected
  <2>1. UiTypeOK'
    BY <1>3 DEF Connected, Idle, UiStage, UiTypeOK
  <2>2. PluginTypeOK'
    BY <1>3 DEF Connected, PluginTypeOK
  <2>3. PipesTypeOK'
    BY <1>3 DEF Connected, PipesTypeOK, pipes
  <2>4. UNCHANGED <<asked, taken, said, heard>> /\ UNCHANGED <<pings, events, starts>>
    BY <1>3 DEF Connected, streams
  <2> QED  BY <2>1, <2>2, <2>3, <2>4, TypesKept
<1> QED  BY <1>1, <1>2, <1>3

\* The user interface with a host.
LEMMA HostTypes ==
  ASSUME UiTypeOK, PipesTypeOK, PluginTypeOK, StreamsTypeOK, CountsTypeOK,
         WriteCell \/ WriteFails \/ Ping \/ PingDone \/ Stop \/ Stopped \/ ShowEvents
  PROVE  UiTypeOK' /\ PipesTypeOK' /\ PluginTypeOK' /\ StreamsTypeOK' /\ CountsTypeOK'
<1>1. CASE WriteCell
  <2>1. /\ Append(stdin, Head(ui.out)) \in Seq(Cell)
        /\ Len(Append(stdin, Head(ui.out))) <= Capacity
        /\ Tail(ui.out) \in Seq(Cell) /\ Len(Tail(ui.out)) <= 2
        /\ Completed(Head(ui.out)) \in Seq(Message)
    BY <1>1, CellPut DEF WriteCell, UiTypeOK, PipesTypeOK
  <2>2. UiTypeOK'
    BY <1>1, <2>1 DEF WriteCell, UiTypeOK
  <2>3. PipesTypeOK'
    BY <1>1, <2>1 DEF WriteCell, PipesTypeOK
  <2>4. StreamsTypeOK'
    BY <1>1, <2>1 DEF WriteCell, StreamsTypeOK
  <2>5. UNCHANGED plugin /\ UNCHANGED <<pings, events, starts>>
    BY <1>1 DEF WriteCell
  <2> QED  BY <2>2, <2>3, <2>4, <2>5, TypesKept
<1>2. CASE WriteFails
  <2>1. (ui' = Idle \/ ui' = [ui EXCEPT !.out = << >>]) /\ UNCHANGED reader
    BY <1>2 DEF WriteFails, StartFails
  <2>2. UiTypeOK'
    <3>1. CASE ui' = Idle
      BY <2>1, <3>1 DEF Idle, UiStage, UiTypeOK
    <3>2. CASE ui' = [ui EXCEPT !.out = << >>]
      <4>1. ui' = [at |-> ui.at, out |-> << >>]
        BY <3>2 DEF UiTypeOK
      <4> QED  BY <2>1, <4>1 DEF UiTypeOK
    <3> QED  BY <2>1, <3>1, <3>2
  <2>3. UNCHANGED <<stdin, stdout, channel, reader>> /\ UNCHANGED plugin
        /\ UNCHANGED <<asked, taken, said, heard>> /\ UNCHANGED <<pings, events, starts>>
    BY <1>2 DEF WriteFails, StartFails, pipes
  <2> QED  BY <2>2, <2>3, TypesKept
<1>3. CASE Ping
  <2>1. CountsTypeOK'
    BY <1>3, PluginsAssumption DEF Ping, CountsTypeOK
  <2>2. "ping" \in Kinds /\ pings' \in Nat
    BY <2>1, PluginsAssumption DEF Kinds, CountsTypeOK
  <2>3. Frame(M("ping", pings')) \in Seq(Cell) /\ Len(Frame(M("ping", pings'))) <= 2
    BY <2>2, FrameTypes, Zenon
  <2>4. ui' = [at |-> "ping", out |-> Frame(M("ping", pings'))] /\ UNCHANGED reader
    BY <1>3 DEF Ping
  <2>5. UiTypeOK'
    BY <2>3, <2>4 DEF UiStage, UiTypeOK
  <2>6. UNCHANGED <<stdin, stdout, channel, reader>> /\ UNCHANGED plugin
        /\ UNCHANGED <<asked, taken, said, heard>>
    BY <1>3 DEF Ping, pipes, streams
  <2> QED  BY <2>1, <2>5, <2>6, TypesKept
<1>4. CASE Stop
  <2>1. "shutdown" \in Kinds
    BY DEF Kinds
  <2>2. Frame(M("shutdown", 0)) \in Seq(Cell) /\ Len(Frame(M("shutdown", 0))) <= 2
    BY <2>1, 0 \in Nat, FrameTypes, Zenon
  <2>3. ui' = [at |-> "stop", out |-> Frame(M("shutdown", 0))] /\ UNCHANGED reader
    BY <1>4 DEF Stop
  <2>4. UiTypeOK'
    BY <2>2, <2>3 DEF UiStage, UiTypeOK
  <2>5. UNCHANGED <<stdin, stdout, channel, reader>> /\ UNCHANGED plugin
        /\ UNCHANGED <<asked, taken, said, heard>> /\ UNCHANGED <<pings, events, starts>>
    BY <1>4 DEF Stop, pipes, streams
  <2> QED  BY <2>4, <2>5, TypesKept
<1>5. CASE PingDone
  <2>1. UiTypeOK'
    BY <1>5 DEF PingDone, Idle, UiStage, UiTypeOK
  <2>2. UNCHANGED <<stdin, stdout, channel, reader>> /\ UNCHANGED plugin
        /\ UNCHANGED <<asked, taken, said, heard>> /\ UNCHANGED <<pings, events, starts>>
    BY <1>5 DEF PingDone, pipes, streams
  <2> QED  BY <2>1, <2>2, TypesKept
<1>6. CASE Stopped
  <2>1. UiTypeOK'
    BY <1>6 DEF Stopped, Idle, UiStage, UiTypeOK
  <2>2. PipesTypeOK'
    BY <1>6 DEF Stopped, PipesTypeOK, pipes
  <2>3. PluginTypeOK'
    BY <1>6, EndedTypes DEF Stopped
  <2>4. UNCHANGED <<asked, taken, said, heard>> /\ UNCHANGED <<pings, events, starts>>
    BY <1>6 DEF Stopped
  <2> QED  BY <2>1, <2>2, <2>3, <2>4, TypesKept
<1>7. CASE ShowEvents
  <2>1. channel' = << >> /\ UNCHANGED <<ui, reader, stdin, stdout>>
    BY <1>7 DEF ShowEvents, pipes
  <2>2. PipesTypeOK'
    BY <2>1 DEF PipesTypeOK
  <2>3. heard' \in Seq(Message)
    <3>0. channel # << >> /\ heard \in Seq(Message)
      BY <1>7 DEF ShowEvents, StreamsTypeOK
    <3>1. CASE channel[Len(channel)] = Exited
      <4>1. heard' = heard \o SubSeq(channel, 1, Len(channel) - 1)
        BY <1>7, <3>1, Zenon DEF ShowEvents
      <4> QED  BY <3>0, <4>1, EventTypes, ConcatProperties
    <3>2. CASE channel[Len(channel)] # Exited
      <4>1. heard' = heard \o channel
        BY <1>7, <3>2, Zenon DEF ShowEvents
      <4> QED  BY <3>0, <3>2, <4>1, EventTypes, ConcatProperties
    <3> QED  BY <3>1, <3>2
  <2>4. UNCHANGED <<asked, taken, said>> /\ UNCHANGED plugin /\ UNCHANGED <<pings, events, starts>>
    BY <1>7 DEF ShowEvents
  <2>5. StreamsTypeOK'
    BY <2>3, <2>4 DEF StreamsTypeOK
  <2> QED  BY <2>1, <2>2, <2>4, <2>5, TypesKept
<1> QED  BY <1>1, <1>2, <1>3, <1>4, <1>5, <1>6, <1>7

\* The reader thread.
LEMMA ReaderTypes ==
  ASSUME UiTypeOK, PipesTypeOK, PluginTypeOK, StreamsTypeOK, CountsTypeOK, Reader
  PROVE  UiTypeOK' /\ PipesTypeOK' /\ PluginTypeOK' /\ StreamsTypeOK' /\ CountsTypeOK'
<1>1. UiTypeOK'
  BY DEF Reader, Read, ReadFails, UiTypeOK
<1>2. PipesTypeOK'
  <2>1. CASE Read
    <3>1. /\ Head(stdout) \in Cell /\ Tail(stdout) \in Seq(Cell) /\ Len(Tail(stdout)) <= Capacity
          /\ \/ Completed(Head(stdout)) = << >>
             \/ Completed(Head(stdout)) = <<Head(stdout).of>> /\ Head(stdout).of \in Message
      BY <2>1, CellTaken DEF Read, PipesTypeOK, Completed, Cell
    <3>2. reader = "reading" /\ \A k \in DOMAIN channel : channel[k] # Exited
      BY <2>1 DEF Read, PipesTypeOK
    <3>3. \/ channel' = Append(channel, Exited) /\ reader' = "ended"
          \/ channel' = channel \o Completed(Head(stdout)) /\ UNCHANGED reader
      BY <2>1 DEF Read
    <3>4. CASE channel' = Append(channel, Exited) /\ reader' = "ended"
      BY <2>1, <3>1, <3>2, <3>4 DEF Read, PipesTypeOK
    <3>5. CASE channel' = channel /\ UNCHANGED reader
      BY <2>1, <3>1, <3>5 DEF Read, PipesTypeOK
    <3>6. ASSUME channel' = channel \o <<Head(stdout).of>>, Head(stdout).of \in Message,
                 UNCHANGED reader
          PROVE  PipesTypeOK'
      <4>1. Head(stdout).of # Exited
        BY <3>6 DEF Message, Kinds, Exited
      <4> QED  BY <2>1, <3>1, <3>2, <3>6, <4>1, SMTT(30) DEF Read, PipesTypeOK
    <3>7. Completed(Head(stdout)) = << >> => channel \o Completed(Head(stdout)) = channel
      BY DEF PipesTypeOK
    <3> QED  BY <3>1, <3>3, <3>4, <3>5, <3>6, <3>7
  <2>2. CASE ReadFails
    <3>1. reader = "reading" /\ \A k \in DOMAIN channel : channel[k] # Exited
      BY <2>2 DEF ReadFails, PipesTypeOK
    <3> QED  BY <2>2, <3>1 DEF ReadFails, PipesTypeOK, pipes
  <2> QED  BY <2>1, <2>2 DEF Reader
<1>3. UNCHANGED plugin /\ UNCHANGED <<asked, taken, said, heard>>
      /\ UNCHANGED <<pings, events, starts>>
  BY DEF Reader, Read, ReadFails, streams
<1> QED  BY <1>1, <1>2, <1>3, TypesKept

\* The plugin.
LEMMA PluginTypes ==
  ASSUME UiTypeOK, PipesTypeOK, PluginTypeOK, StreamsTypeOK, CountsTypeOK, Plugin
  PROVE  UiTypeOK' /\ PipesTypeOK' /\ PluginTypeOK' /\ StreamsTypeOK' /\ CountsTypeOK'
<1>0. UNCHANGED <<ui, reader>> /\ UNCHANGED <<channel, asked, heard, pings, starts>>
  BY DEF Plugin, Speak, PluginWrites, PluginReads, PluginLogs, PluginCrashes, PluginKeeps,
         assistant
<1>1. CASE Speak
  <2>1. CountsTypeOK'
    BY <1>0, <1>1, PluginsAssumption DEF Speak, CountsTypeOK
  <2>2. events' \in Nat /\ 0 \in Nat /\ {"hello", "bad", "event"} \subseteq Kinds
    BY <2>1, PluginsAssumption DEF Kinds, CountsTypeOK
  <2>3. PICK kind \in Kinds, no \in Nat :
          \/ plugin' = [plugin EXCEPT !.greeted = TRUE, !.out = Frame(M(kind, no))]
          \/ plugin' = [plugin EXCEPT !.out = Frame(M(kind, no))]
    BY <1>1, <2>2 DEF Speak
  <2>4. Frame(M(kind, no)) \in Seq(Cell) /\ Len(Frame(M(kind, no))) <= 2
    BY FrameTypes, Zenon
  <2>5. PluginTypeOK'
    BY <2>3, <2>4 DEF PluginTypeOK
  <2>6. UNCHANGED <<stdin, stdout, channel, reader>> /\ UNCHANGED <<asked, taken, said, heard>>
    BY <1>0, <1>1 DEF Speak, pipes
  <2> QED  BY <1>0, <2>1, <2>5, <2>6, TypesKept
<1>2. CASE PluginWrites
  <2>0. UNCHANGED <<stdin, taken, events>>
    BY <1>2 DEF PluginWrites
  <2>1. CASE Reading
    <3>0. /\ plugin.out # << >> /\ plugin.out \in Seq(Cell) /\ Len(plugin.out) <= 2
          /\ stdout \in Seq(Cell) /\ Len(stdout) < Capacity
          /\ stdout' = Append(stdout, Head(plugin.out))
          /\ said' = said \o Completed(Head(plugin.out))
          /\ plugin' = [plugin EXCEPT !.out = Tail(@)]
      BY <1>2, <2>1 DEF PluginWrites, PluginTypeOK, PipesTypeOK
    <3>1. /\ stdout' \in Seq(Cell) /\ Len(stdout') <= Capacity
          /\ Tail(plugin.out) \in Seq(Cell) /\ Len(Tail(plugin.out)) <= 2
          /\ Completed(Head(plugin.out)) \in Seq(Message)
      BY <3>0, CellPut
    <3>2. PluginTypeOK'
      BY <3>0, <3>1 DEF PluginTypeOK
    <3>3. PipesTypeOK'
      BY <1>0, <2>0, <3>1 DEF PipesTypeOK
    <3>4. StreamsTypeOK'
      BY <1>0, <2>0, <3>0, <3>1 DEF StreamsTypeOK
    <3> QED  BY <1>0, <2>0, <3>2, <3>3, <3>4, TypesKept
  <2>2. CASE ~ Reading
    <3>1. PluginTypeOK' /\ UNCHANGED <<stdout, said>>
      BY <1>2, <2>2, EndedTypes DEF PluginWrites
    <3> QED  BY <1>0, <2>0, <3>1, TypesKept
  <2> QED  BY <2>1, <2>2
<1>3. CASE PluginReads
  <2>0. UNCHANGED <<stdout, said, events>>
    BY <1>3 DEF PluginReads
  <2>1. CASE stdin # << >> /\ stdin' = Tail(stdin) /\ taken' = taken \o Completed(Head(stdin))
    <3>1. /\ Head(stdin) \in Cell /\ Tail(stdin) \in Seq(Cell) /\ Len(Tail(stdin)) <= Capacity
          /\ Completed(Head(stdin)) \in Seq(Message)
      BY <2>1, CellTaken DEF PipesTypeOK
    <3>2. Head(stdin).of.no \in Nat /\ "pong" \in Kinds
      BY <3>1 DEF Cell, Message, Kinds
    <3>3. Frame(M("pong", Head(stdin).of.no)) \in Seq(Cell)
          /\ Len(Frame(M("pong", Head(stdin).of.no))) <= 2
      BY <3>2, FrameTypes, Zenon
    <3>4. \/ plugin' = plugin
          \/ plugin' = [plugin EXCEPT !.out = Frame(M("pong", Head(stdin).of.no))]
          \/ plugin' = [plugin EXCEPT !.life = "ended"]
      BY <1>3, <2>1 DEF PluginReads
    <3>5. PluginTypeOK'
      BY <3>3, <3>4 DEF PluginTypeOK
    <3>6. PipesTypeOK'
      BY <1>0, <2>0, <2>1, <3>1 DEF PipesTypeOK
    <3>7. StreamsTypeOK'
      BY <1>0, <2>0, <2>1, <3>1 DEF StreamsTypeOK
    <3> QED  BY <1>0, <2>0, <3>5, <3>6, <3>7, TypesKept
  <2>2. CASE plugin' = [plugin EXCEPT !.life = "ended"] /\ UNCHANGED <<stdin, taken>>
    <3>1. PluginTypeOK'
      BY <2>2 DEF PluginTypeOK
    <3> QED  BY <1>0, <2>0, <2>2, <3>1, TypesKept
  <2> QED  BY <1>3, <2>1, <2>2 DEF PluginReads
<1>4. CASE PluginCrashes
  <2>1. PluginTypeOK' /\ UNCHANGED <<stdin, stdout, taken, said, events>>
    BY <1>4, EndedTypes DEF PluginCrashes, pipes
  <2> QED  BY <1>0, <2>1, TypesKept
<1>5. CASE PluginLogs
  <2>1. plugin.logs \in 0 .. LogCapacity
    BY <1>5, PluginsAssumption DEF PluginLogs, Stuck, PluginTypeOK
  <2>2. plugin' = [plugin EXCEPT !.logs = @ + 1]
    BY <1>5 DEF PluginLogs
  <2>3. PluginTypeOK'
    BY <2>1, <2>2, PluginsAssumption DEF PluginTypeOK
  <2>4. UNCHANGED <<stdin, stdout, taken, said, events>>
    BY <1>5 DEF PluginLogs, pipes
  <2> QED  BY <1>0, <2>3, <2>4, TypesKept
<1> QED  BY <1>1, <1>2, <1>3, <1>4, <1>5 DEF Plugin

\* Every variable of Plugins keeps its type.
THEOREM TypeCorrect == Spec => []TypeOK
<1>1. TypeOK /\ [Next]_vars => TypeOK'
  <2> SUFFICES ASSUME TypeOK, [Next]_vars PROVE TypeOK'
    OBVIOUS
  <2>1. CASE UNCHANGED vars
    BY <2>1 DEF vars, assistant, pipes, streams, TypeOK, UiTypeOK, PipesTypeOK, PluginTypeOK,
                StreamsTypeOK, FlagsTypeOK, CountsTypeOK
  <2>2. CASE Next
    <3>1. UiTypeOK' /\ PipesTypeOK' /\ PluginTypeOK' /\ StreamsTypeOK' /\ CountsTypeOK'
      BY <2>2, StartTypes, HostTypes, ReaderTypes, PluginTypes
         DEF TypeOK, Next, UserInterface, User
    <3> QED  BY <2>2, <3>1, FlagTypes DEF TypeOK
  <2> QED  BY <2>1, <2>2
<1> QED  BY InitTypes, <1>1, PTL DEF Spec

\* A plugin that was connected to does not outlive its host, however the two are
\* scheduled and whatever the plugin does.
THEOREM PluginsEndWithTheirHost == Spec => []PluginsAreEnded
<1>1. Init => PluginsAreEnded
  BY DEF Init, NoPlugin, PluginsAreEnded
<1>2. TypeOK /\ PluginsAreEnded /\ [Next]_vars => PluginsAreEnded'
  <2> SUFFICES ASSUME PluginTypeOK, PluginsAreEnded, [Next]_vars PROVE PluginsAreEnded'
    BY DEF TypeOK
  <2> USE DEF PluginTypeOK, PluginsAreEnded, Running
  <2>1. CASE Start \/ Connected \/ Stopped
    <3>1. CASE Start
      BY <3>1 DEF Start, NoPlugin
    <3>2. CASE Connected
      BY <3>2, Zenon DEF Connected
    <3>3. CASE Stopped
      <4>1. plugin'.life = "ended"
        BY <3>3 DEF Stopped
      <4> QED  BY <4>1
    <3> QED  BY <2>1, <3>1, <3>2, <3>3
  <2>2. CASE Plugin
    <3>1. UNCHANGED host
      BY <2>2 DEF Plugin, Speak, PluginWrites, PluginReads, PluginLogs, PluginCrashes,
                  PluginKeeps, assistant
    <3>2. plugin'.connected = plugin.connected
          /\ (plugin'.life = plugin.life \/ plugin'.life = "ended")
      BY <2>2 DEF Plugin, Speak, PluginWrites, PluginReads, PluginLogs, PluginCrashes
    <3> QED  BY <3>1, <3>2
  <2>3. CASE ReadHello \/ WriteCell \/ WriteFails \/ PingDone \/ Ping \/ Stop \/ ShowEvents
             \/ Reader \/ UNCHANGED vars
    <3>1. UNCHANGED <<host, plugin>>
      BY <2>3 DEF ReadHello, StartFails, WriteCell, WriteFails, PingDone, Ping, Stop, ShowEvents,
                  Reader, Read, ReadFails, assistant, vars
    <3> QED  BY <3>1
  <2> QED  BY <2>1, <2>2, <2>3 DEF Next, UserInterface, User
<1> QED  BY <1>1, <1>2, TypeCorrect, PTL DEF Spec

-----------------------------------------------------------------------------
(* A pipe and the messages that go through it.                             *)

\* The reader has got `got` messages, and `mid` cells of the next one: the cells in the pipe
\* go on from there.
Ordered(pipe, sent, got, mid) ==
  \A i \in 1 .. Len(pipe) : \A m \in Nat :
    /\ mid + i = m + m => pipe[i] = [part |-> "body", of |-> sent[got + m]]
    /\ mid + i = m + m + 1 => pipe[i].part = "length"

\* The writer has written `sent`, and `begun` cells of the next message; the pipe has what
\* is between the two.
Carries(pipe, sent, got, mid, begun) ==
  /\ mid \in 0 .. 1 /\ begun \in 0 .. 1 /\ got \in Nat
  /\ Len(sent) + Len(sent) + begun = got + got + mid + Len(pipe)
  /\ Ordered(pipe, sent, got, mid)

\* What is left of a frame that was begun.
OfFrame(out, begun) ==
  /\ Len(out) = 2 => begun = 0 /\ out[1].part = "length" /\ out[2].part = "body"
  /\ Len(out) = 1 => begun = 1 /\ out[1].part = "body"
  /\ Len(out) = 0 => begun = 0

\* A whole frame.
LEMMA FrameIsOne ==
  ASSUME NEW kind, NEW no
  PROVE  OfFrame(Frame(M(kind, no)), 0)
BY DEF OfFrame, Frame

\* Small numbers, for the steps in which a sequence leaves no room for arithmetic.
LEMMA Ones == 2 - 1 = 1 /\ 1 + 1 = 2 /\ 1 \in 1 .. 1
OBVIOUS

\* What is left after the first cell of it.
LEMMA RestOfFrame ==
  ASSUME NEW out \in Seq(Cell), Len(out) \in 1 .. 2
  PROVE  /\ Head(out) = out[1] /\ out[1] \in Cell
         /\ Tail(out) \in Seq(Cell) /\ Len(Tail(out)) = Len(out) - 1
         /\ Len(out) = 2 => Tail(out)[1] = out[2]
<1>1. out # << >>
  OBVIOUS
<1>2. /\ Tail(out) \in Seq(Cell) /\ Len(Tail(out)) = Len(out) - 1
      /\ \A i \in 1 .. Len(Tail(out)) : Tail(out)[i] = out[i + 1]
  BY <1>1, HeadTailProperties
<1>3. ASSUME Len(out) = 2 PROVE Tail(out)[1] = out[2]
  <2>1. Len(Tail(out)) = 1
    BY <1>2, <1>3, Ones, Zenon
  <2> QED  BY <1>2, <2>1, Ones, Zenon
<1>4. Head(out) = out[1] /\ out[1] \in Cell
  BY <1>1, HeadTailProperties, ElementOfSeq
<1> QED  BY <1>2, <1>3, <1>4, Zenon

\* There are never more than the two cells of a frame to write.
LEMMA OneOrTwo ==
  \A out \in Seq(Cell) : out # << >> /\ Len(out) <= 2 => Len(out) \in 1 .. 2
<1>1. \A out \in Seq(Cell) : out # << >> => Len(out) \in Nat \ {0}
  BY EmptySeq
<1>2. \A n \in Nat \ {0} : n <= 2 => n \in 1 .. 2
  OBVIOUS
<1> QED  BY <1>1, <1>2, Zenon

\* The last cell of a frame, and none.
LEMMA FrameEnds ==
  /\ \A rest \in Seq(Cell) : Len(rest) = 0 => OfFrame(rest, 0)
  /\ \A rest \in Seq(Cell) : Len(rest) = 1 /\ rest[1].part = "body" => OfFrame(rest, 1)
BY DEF OfFrame

\* A cell written keeps the order.
LEMMA Put ==
  ASSUME NEW pipe \in Seq(Cell), NEW sent \in Seq(Message),
         NEW got \in Nat, NEW mid \in 0 .. 1, NEW begun \in 0 .. 1,
         NEW out \in Seq(Cell), Len(out) \in 1 .. 2,
         Carries(pipe, sent, got, mid, begun), OfFrame(out, begun)
  PROVE  /\ Carries(Append(pipe, Head(out)), sent \o Completed(Head(out)), got, mid, 1 - begun)
         /\ OfFrame(Tail(out), 1 - begun)
         /\ \/ Completed(Head(out)) = << >>
            \/ Completed(Head(out)) = <<Head(out).of>> /\ Head(out).of \in Message
<1>0. /\ Head(out) = out[1] /\ out[1] \in Cell /\ Len(out) \in 1 .. 2
      /\ Tail(out) \in Seq(Cell) /\ Len(Tail(out)) = Len(out) - 1
      /\ (Len(out) = 2 => Tail(out)[1] = out[2])
  BY RestOfFrame
<1>00. Len(out) \in 1 .. 2 /\ Len(Tail(out)) = Len(out) - 1
  BY <1>0
<1>1. /\ mid \in 0 .. 1 /\ begun \in 0 .. 1 /\ got \in Nat /\ Len(pipe) \in Nat /\ Len(sent) \in Nat
      /\ Len(sent) + Len(sent) + begun = got + got + mid + Len(pipe)
  BY DEF Carries
<1>2. Ordered(pipe, sent, got, mid)
  BY DEF Carries
<1> DEFINE longer == Append(pipe, Head(out))
<1>3. Len(longer) = Len(pipe) + 1 /\ longer[Len(pipe) + 1] = out[1]
      /\ \A i \in 1 .. Len(pipe) : longer[i] = pipe[i]
  BY <1>0, <1>1
<1> HIDE DEF longer
<1>4. CASE Len(out) = 2
  <2>0. begun = 0
    BY <1>4 DEF OfFrame
  <2>1. out[1].part = "length" /\ out[2].part = "body"
    BY <1>4 DEF OfFrame
  <2>2. Completed(Head(out)) = << >> /\ sent \o Completed(Head(out)) = sent
    BY <1>0, <2>1 DEF Completed
  <2>3. ASSUME NEW i \in 1 .. Len(longer), NEW m \in Nat
        PROVE  /\ mid + i = m + m => longer[i] = [part |-> "body", of |-> sent[got + m]]
               /\ mid + i = m + m + 1 => longer[i].part = "length"
    <3>1. CASE i \in 1 .. Len(pipe)
      BY <1>2, <1>3, <3>1 DEF Ordered
    <3>2. CASE i = Len(pipe) + 1
      <4>1. mid + i # m + m
        BY <1>1, <2>0, <3>2, SMTT(30)
      <4> QED  BY <1>3, <2>1, <3>2, <4>1
    <3> QED  BY <1>1, <1>3, <3>1, <3>2
  <2>4. Ordered(longer, sent, got, mid)
    BY <2>3 DEF Ordered
  <2>5. Carries(longer, sent, got, mid, 1)
    <3>1. Len(sent) + Len(sent) + 1 = got + got + mid + Len(longer)
      BY <1>1, <1>3, <2>0
    <3> QED  BY <1>1, <2>4, <3>1 DEF Carries
  <2>6. OfFrame(Tail(out), 1)
    <3>1. Len(Tail(out)) = 1
      BY <1>00, <1>4
    <3>2. Tail(out)[1].part = "body"
      BY <1>0, <1>4, <2>1
    <3> QED  BY <1>0, <3>1, <3>2, FrameEnds
  <2>7. 1 - begun = 1
    BY <2>0
  <2> QED  BY <2>2, <2>5, <2>6, <2>7 DEF longer
<1>5. CASE Len(out) = 1
  <2>0. begun = 1
    BY <1>5 DEF OfFrame
  <2>1. out[1].part = "body"
    BY <1>5 DEF OfFrame
  <2>2. out[1].of \in Message /\ out[1] = [part |-> "body", of |-> out[1].of]
    BY <1>0, <2>1 DEF Cell
  <2>3. Completed(Head(out)) = <<out[1].of>>
    BY <1>0, <2>1 DEF Completed
  <2> DEFINE after == sent \o <<out[1].of>>
  <2>4. /\ Len(after) = Len(sent) + 1 /\ after[Len(sent) + 1] = out[1].of
        /\ \A k \in 1 .. Len(sent) : after[k] = sent[k]
    BY <1>1, <2>2
  <2> HIDE DEF after
  <2>5. ASSUME NEW i \in 1 .. Len(longer), NEW m \in Nat
        PROVE  /\ mid + i = m + m => longer[i] = [part |-> "body", of |-> after[got + m]]
               /\ mid + i = m + m + 1 => longer[i].part = "length"
    <3>1. CASE i \in 1 .. Len(pipe)
      <4>1. mid + i = m + m => got + m \in 1 .. Len(sent)
        BY <1>1, <2>0, <3>1
      <4>2. /\ mid + i = m + m => pipe[i] = [part |-> "body", of |-> sent[got + m]]
            /\ mid + i = m + m + 1 => pipe[i].part = "length"
        BY <1>2, <3>1 DEF Ordered
      <4> QED  BY <1>3, <2>4, <3>1, <4>1, <4>2
    <3>2. CASE i = Len(pipe) + 1
      <4>1. mid + i # m + m + 1 /\ (mid + i = m + m => got + m = Len(sent) + 1)
        BY <1>1, <2>0, <3>2, SMTT(30)
      <4> QED  BY <1>3, <2>2, <2>4, <3>2, <4>1
    <3> QED  BY <1>1, <1>3, <3>1, <3>2
  <2>6. Ordered(longer, after, got, mid)
    BY <2>5 DEF Ordered
  <2>7. Carries(longer, after, got, mid, 0)
    <3>1. Len(after) + Len(after) + 0 = got + got + mid + Len(longer)
      BY <1>1, <1>3, <2>0, <2>4
    <3> QED  BY <1>1, <2>6, <3>1 DEF Carries
  <2>8. OfFrame(Tail(out), 0)
    <3>1. Len(Tail(out)) = 0
      BY <1>00, <1>5
    <3> QED  BY <1>0, <3>1, FrameEnds
  <2>9. 1 - begun = 0 /\ Head(out).of = out[1].of
    BY <1>0, <2>0
  <2> QED  BY <2>2, <2>3, <2>7, <2>8, <2>9 DEF longer, after
<1> QED  BY <1>0, <1>4, <1>5, SMTT(30)

\* A cell read is the next one, and if it completes a message that is the next one.
LEMMA Take ==
  ASSUME NEW pipe \in Seq(Cell), pipe # << >>, NEW sent \in Seq(Message),
         NEW got \in Nat, NEW mid \in 0 .. 1, NEW begun \in 0 .. 1,
         Carries(pipe, sent, got, mid, begun)
  PROVE  \/ /\ Completed(Head(pipe)) = << >> /\ Head(pipe).part = "length"
            /\ Carries(Tail(pipe), sent, got, 1 - mid, begun)
         \/ /\ Completed(Head(pipe)) = <<sent[got + 1]>> /\ Head(pipe).part = "body"
            /\ Head(pipe).of = sent[got + 1]
            /\ got + 1 \in 1 .. Len(sent)
            /\ Carries(Tail(pipe), sent, got + 1, 1 - mid, begun)
<1> DEFINE rest == Tail(pipe)
<1>00. Len(pipe) \in Nat /\ Len(pipe) > 0 /\ Len(rest) = Len(pipe) - 1
  OBVIOUS
<1>0. /\ Head(pipe) = pipe[1] /\ Len(pipe) \in Nat /\ Len(pipe) > 0
      /\ rest \in Seq(Cell) /\ Len(rest) = Len(pipe) - 1
      /\ \A i \in 1 .. Len(pipe) - 1 : rest[i] = pipe[i + 1]
  OBVIOUS
<1> HIDE DEF rest
<1>1. /\ mid \in 0 .. 1 /\ begun \in 0 .. 1 /\ got \in Nat /\ Len(sent) \in Nat
      /\ Len(sent) + Len(sent) + begun = got + got + mid + Len(pipe)
  BY DEF Carries
<1>2. \A i \in 1 .. Len(pipe) : \A m \in Nat :
        /\ mid + i = m + m => pipe[i] = [part |-> "body", of |-> sent[got + m]]
        /\ mid + i = m + m + 1 => pipe[i].part = "length"
  BY DEF Carries, Ordered
<1>3. CASE mid = 0
  <2>1. pipe[1].part = "length"
    <3>1. 1 \in 1 .. Len(pipe) /\ 0 \in Nat /\ mid + 1 = 0 + 0 + 1
      BY <1>0, <1>3
    <3> QED  BY <1>2, <3>1
  <2>2. ASSUME NEW i \in 1 .. Len(rest), NEW m \in Nat
        PROVE  /\ 1 + i = m + m => rest[i] = [part |-> "body", of |-> sent[got + m]]
               /\ 1 + i = m + m + 1 => rest[i].part = "length"
    <3>1. i + 1 \in 1 .. Len(pipe) /\ rest[i] = pipe[i + 1] /\ mid + (i + 1) = 1 + i
      BY <1>0, <1>3
    <3> QED  BY <1>2, <3>1
  <2>3. Ordered(rest, sent, got, 1)
    BY <2>2 DEF Ordered
  <2>4. Carries(rest, sent, got, 1, begun)
    <3>1. Len(sent) + Len(sent) + begun = got + got + 1 + Len(rest)
      BY <1>00, <1>1, <1>3, SMTT(30)
    <3> QED  BY <1>1, <2>3, <3>1 DEF Carries
  <2>5. Completed(Head(pipe)) = << >> /\ Head(pipe).part = "length" /\ 1 - mid = 1
    BY <1>0, <1>3, <2>1 DEF Completed
  <2> QED  BY <2>4, <2>5 DEF rest
<1>4. CASE mid = 1
  <2>1. pipe[1] = [part |-> "body", of |-> sent[got + 1]]
    <3>1. 1 \in 1 .. Len(pipe) /\ 1 \in Nat /\ mid + 1 = 1 + 1
      BY <1>0, <1>4
    <3> QED  BY <1>2, <3>1
  <2>2. got + 1 \in 1 .. Len(sent)
    BY <1>0, <1>1, <1>4
  <2>3. ASSUME NEW i \in 1 .. Len(rest), NEW m \in Nat
        PROVE  /\ 0 + i = m + m => rest[i] = [part |-> "body", of |-> sent[(got + 1) + m]]
               /\ 0 + i = m + m + 1 => rest[i].part = "length"
    <3>1. /\ i + 1 \in 1 .. Len(pipe) /\ rest[i] = pipe[i + 1]
          /\ m + 1 \in Nat /\ (got + 1) + m = got + (m + 1)
          /\ 0 + i = m + m => mid + (i + 1) = (m + 1) + (m + 1)
          /\ 0 + i = m + m + 1 => mid + (i + 1) = (m + 1) + (m + 1) + 1
      BY <1>0, <1>1, <1>4
    <3>2. /\ mid + (i + 1) = (m + 1) + (m + 1) =>
               pipe[i + 1] = [part |-> "body", of |-> sent[got + (m + 1)]]
          /\ mid + (i + 1) = (m + 1) + (m + 1) + 1 => pipe[i + 1].part = "length"
      BY <1>2, <3>1
    <3> QED  BY <3>1, <3>2
  <2>4. Ordered(rest, sent, got + 1, 0)
    BY <2>3 DEF Ordered
  <2>5. Carries(rest, sent, got + 1, 0, begun)
    <3>1. Len(sent) + Len(sent) + begun = (got + 1) + (got + 1) + 0 + Len(rest)
      BY <1>00, <1>1, <1>4
    <3> QED  BY <1>1, <2>4, <3>1 DEF Carries
  <2>6. /\ Completed(Head(pipe)) = <<sent[got + 1]>> /\ Head(pipe).part = "body"
        /\ Head(pipe).of = sent[got + 1] /\ 1 - mid = 0
    BY <1>0, <1>4, <2>1 DEF Completed
  <2> QED  BY <2>2, <2>5, <2>6 DEF rest
<1> QED  BY <1>1, <1>3, <1>4

\* What is the start of a sequence stays it when either gets longer.
LEMMA Prefixes ==
  ASSUME NEW s \in Seq(Message), NEW t \in Seq(Message), Len(t) <= Len(s),
         t = SubSeq(s, 1, Len(t)), NEW m \in Message
  PROVE  /\ s \o <<m>> \in Seq(Message) /\ Len(s \o <<m>>) = Len(s) + 1
         /\ SubSeq(s \o <<m>>, 1, Len(s)) = s
         /\ SubSeq(s \o <<m>>, 1, Len(t)) = t
         /\ Len(t) < Len(s) =>
              t \o <<s[Len(t) + 1]>> = SubSeq(s, 1, Len(t) + 1)
<1> DEFINE longer == s \o <<m>>
<1>1. /\ longer \in Seq(Message) /\ Len(longer) = Len(s) + 1
      /\ \A k \in 1 .. Len(s) : longer[k] = s[k]
  OBVIOUS
<1>2. Len(s) \in Nat /\ Len(t) \in Nat /\ \A k \in 1 .. Len(t) : t[k] = s[k]
  <2>1. Len(s) \in Nat /\ Len(t) \in Nat
    OBVIOUS
  <2>2. \A k \in 1 .. Len(t) : SubSeq(s, 1, Len(t))[k] = s[k]
    BY <2>1
  <2> QED  BY <2>1, <2>2
<1> HIDE DEF longer
<1>3. SubSeq(longer, 1, Len(s)) = s
  BY <1>1, <1>2
<1>4. SubSeq(longer, 1, Len(t)) = t
  BY <1>1, <1>2, SMTT(30)
<1>5. Len(t) < Len(s) => t \o <<s[Len(t) + 1]>> = SubSeq(s, 1, Len(t) + 1)
  BY <1>2
<1> QED  BY <1>1, <1>3, <1>4, <1>5 DEF longer

-----------------------------------------------------------------------------
(* The stream to the plugin.                                               *)

\* What the plugin has taken is the start of what it was asked, and as long as it runs its
\* pipe has what comes next.
ToInv ==
  /\ Len(taken) <= Len(asked) /\ taken = SubSeq(asked, 1, Len(taken))
  /\ Running => \E mid \in 0 .. 1, begun \in 0 .. 1 :
                  Carries(stdin, asked, Len(taken), mid, begun) /\ OfFrame(ui.out, begun)

\* A step that neither writes to the plugin nor is read by it.
LEMMA ToKept ==
  ASSUME ToInv, UNCHANGED <<asked, taken>>,
         Running' => /\ Running /\ UNCHANGED stdin
                     /\ \A begun \in 0 .. 1 : OfFrame(ui.out, begun) => OfFrame(ui.out, begun)'
  PROVE  ToInv' /\ [ToPlugin!Next]_(ToPlugin!vars)
BY DEF ToInv, ToPlugin!vars

\* The steps of the user interface that do not write.
LEMMA ToUser ==
  ASSUME TypeOK, ToInv,
         ReadHello \/ Connected \/ WriteFails \/ Ping \/ PingDone \/ Stop \/ Stopped
           \/ ShowEvents \/ Reader \/ UNCHANGED vars
  PROVE  ToInv' /\ [ToPlugin!Next]_(ToPlugin!vars)
<1>0. UiTypeOK
  BY DEF TypeOK
<1>1. UNCHANGED <<asked, taken, stdin>>
  BY DEF ReadHello, Connected, WriteFails, Ping, PingDone, Stop, Stopped, ShowEvents, Reader, Read,
         ReadFails, vars, pipes, streams
<1>2. Running' => Running
  <2>1. Connected \/ Stopped => plugin'.life \in {plugin.life, "ended"}
    BY DEF Connected, Stopped, TypeOK, PluginTypeOK
  <2>2. ~ Connected /\ ~ Stopped => UNCHANGED plugin
    BY DEF ReadHello, WriteFails, Ping, PingDone, Stop, ShowEvents, Reader, Read, ReadFails, vars
  <2> QED  BY <2>1, <2>2 DEF Running
<1>3. ASSUME Running', NEW begun \in 0 .. 1, OfFrame(ui.out, begun)
      PROVE  OfFrame(ui.out, begun)'
  <2>1. CASE UNCHANGED ui
    BY <1>3, <2>1 DEF OfFrame
  <2>2. CASE ui.out = << >> /\ \/ ui'.out = << >>
                               \/ \E kind \in Kinds, no \in {0, pings'} : ui'.out = Frame(M(kind, no))
    BY <1>3, <2>2, FrameIsOne DEF OfFrame
  <2>3. ReadHello \/ Connected \/ Ping \/ PingDone \/ Stop => ui.out = << >>
    BY <1>0 DEF ReadHello, Connected, Ping, PingDone, Stop, Idle, UiTypeOK
  <2>4. ReadHello \/ Connected \/ Ping \/ PingDone \/ Stop =>
          \/ UNCHANGED ui \/ ui'.out = << >>
          \/ \E kind \in Kinds, no \in {0, pings'} : ui'.out = Frame(M(kind, no))
    BY DEF ReadHello, StartFails, Connected, Ping, PingDone, Stop, Idle, Kinds, assistant
  <2>5. ~ WriteFails /\ ~ Stopped
    BY <1>3 DEF WriteFails, Stopped, Running, PluginTypeOK, TypeOK
  <2>6. ShowEvents \/ Reader \/ UNCHANGED vars => UNCHANGED ui
    BY DEF ShowEvents, Reader, Read, ReadFails, vars, assistant
  <2> QED  BY <2>1, <2>2, <2>3, <2>4, <2>5, <2>6
<1> QED  BY <1>1, <1>2, <1>3, ToKept

\* The steps of the plugin that do not read.
LEMMA ToPluginSteps ==
  ASSUME TypeOK, ToInv, Speak \/ PluginWrites \/ PluginLogs \/ PluginCrashes
  PROVE  ToInv' /\ [ToPlugin!Next]_(ToPlugin!vars)
<1>1. UNCHANGED <<asked, taken, stdin, ui>>
  BY DEF Speak, PluginWrites, PluginLogs, PluginCrashes, PluginKeeps, assistant, pipes
<1>2. Running' => Running
  BY DEF Speak, PluginWrites, PluginLogs, PluginCrashes, Running
<1> QED  BY <1>1, <1>2, ToKept DEF OfFrame

\* A cell is written to the plugin.
LEMMA ToWrite ==
  ASSUME TypeOK, ToInv, WriteCell
  PROVE  ToInv' /\ [ToPlugin!Next]_(ToPlugin!vars)
<1>0. /\ ui.out # << >> /\ Running /\ stdin' = Append(stdin, Head(ui.out))
      /\ asked' = asked \o Completed(Head(ui.out)) /\ ui' = [ui EXCEPT !.out = Tail(@)]
      /\ UNCHANGED <<taken, plugin>>
  BY DEF WriteCell
<1>1. /\ ui.out \in Seq(Cell) /\ Len(ui.out) \in 1 .. 2 /\ stdin \in Seq(Cell)
      /\ asked \in Seq(Message) /\ taken \in Seq(Message) /\ ui'.out = Tail(ui.out)
  <2>1. ui.out \in Seq(Cell) /\ Len(ui.out) <= 2
    BY DEF TypeOK, UiTypeOK
  <2>2. Len(ui.out) \in 1 .. 2
    <3>1. ui.out # << >>
      BY <1>0
    <3> QED  BY <2>1, <3>1, OneOrTwo
  <2>3. ui'.out = Tail(ui.out)
    BY <1>0 DEF TypeOK, UiTypeOK
  <2> QED  BY <2>1, <2>2, <2>3 DEF TypeOK, PipesTypeOK, StreamsTypeOK
<1>2. PICK mid \in 0 .. 1, begun \in 0 .. 1 :
        Carries(stdin, asked, Len(taken), mid, begun) /\ OfFrame(ui.out, begun)
  BY <1>0 DEF ToInv
<1>3. Len(taken) \in Nat
  BY <1>1
<1>4. /\ Carries(stdin', asked', Len(taken), mid, 1 - begun)
      /\ OfFrame(ui'.out, 1 - begun)
      /\ \/ Completed(Head(ui.out)) = << >>
         \/ Completed(Head(ui.out)) = <<Head(ui.out).of>> /\ Head(ui.out).of \in Message
  <2>1. /\ Carries(Append(stdin, Head(ui.out)), asked \o Completed(Head(ui.out)), Len(taken),
                   mid, 1 - begun)
        /\ OfFrame(Tail(ui.out), 1 - begun)
        /\ \/ Completed(Head(ui.out)) = << >>
           \/ Completed(Head(ui.out)) = <<Head(ui.out).of>> /\ Head(ui.out).of \in Message
    BY <1>1, <1>2, <1>3, Put
  <2> QED  BY <1>0, <1>1, <2>1
<1>5. 1 - begun \in 0 .. 1
  OBVIOUS
<1>6. Running' => \E m, b \in 0 .. 1 :
                    Carries(stdin', asked', Len(taken'), m, b) /\ OfFrame(ui'.out, b)
  BY <1>0, <1>4, <1>5
<1>7. CASE Completed(Head(ui.out)) = << >>
  <2>1. asked' = asked
    BY <1>0, <1>1, <1>7
  <2> QED  BY <1>0, <1>6, <2>1 DEF ToInv, ToPlugin!vars
<1>8. CASE Completed(Head(ui.out)) = <<Head(ui.out).of>> /\ Head(ui.out).of \in Message
  <2>1. /\ asked' \in Seq(Message) /\ Len(asked') = Len(asked) + 1
        /\ SubSeq(asked', 1, Len(asked)) = asked /\ SubSeq(asked', 1, Len(taken)) = taken
    <3>1. Len(taken) <= Len(asked) /\ taken = SubSeq(asked, 1, Len(taken))
      BY DEF ToInv
    <3>2. PICK m \in Message : asked' = asked \o <<m>>
      BY <1>0, <1>8
    <3> QED  BY <1>1, <3>1, <3>2, Prefixes
  <2>2. ToPlugin!Write
    BY <1>0, <2>1 DEF ToPlugin!Write
  <2>3. Len(taken) <= Len(asked')
    BY <1>1, <2>1 DEF ToInv
  <2> QED  BY <1>0, <1>6, <2>1, <2>2, <2>3 DEF ToInv, ToPlugin!Next
<1> QED  BY <1>4, <1>7, <1>8

\* The plugin reads.
LEMMA ToRead ==
  ASSUME TypeOK, ToInv, PluginReads
  PROVE  ToInv' /\ [ToPlugin!Next]_(ToPlugin!vars)
<1>0. Running /\ UNCHANGED <<ui, asked>>
  BY DEF PluginReads, PluginKeeps, assistant
<1>1. CASE stdin # << >> /\ stdin' = Tail(stdin) /\ taken' = taken \o Completed(Head(stdin))
  <2>1. stdin \in Seq(Cell) /\ asked \in Seq(Message) /\ taken \in Seq(Message)
    BY DEF TypeOK, PipesTypeOK, StreamsTypeOK
  <2>2. PICK mid \in 0 .. 1, begun \in 0 .. 1 :
          Carries(stdin, asked, Len(taken), mid, begun) /\ OfFrame(ui.out, begun)
    BY <1>0 DEF ToInv
  <2>3. Len(taken) \in Nat /\ 1 - mid \in 0 .. 1 /\ OfFrame(ui'.out, begun)
    BY <1>0, <2>1, <2>2
  <2>4. CASE /\ Completed(Head(stdin)) = << >>
             /\ Carries(Tail(stdin), asked, Len(taken), 1 - mid, begun)
    <3>1. taken' = taken
      BY <1>1, <2>1, <2>4
    <3> QED  BY <1>0, <1>1, <2>3, <2>4, <3>1 DEF ToInv, ToPlugin!vars
  <2>5. CASE /\ Completed(Head(stdin)) = <<asked[Len(taken) + 1]>>
             /\ Len(taken) + 1 \in 1 .. Len(asked)
             /\ Carries(Tail(stdin), asked, Len(taken) + 1, 1 - mid, begun)
    <3>1. Len(asked) \in Nat /\ Len(taken) < Len(asked) /\ asked[Len(taken) + 1] \in Message
      BY <2>1, <2>3, <2>5
    <3>2. taken' = SubSeq(asked, 1, Len(taken) + 1)
      <4>1. taken = SubSeq(asked, 1, Len(taken)) /\ Len(taken) <= Len(asked)
        BY DEF ToInv
      <4>2. taken \o <<asked[Len(taken) + 1]>> = SubSeq(asked, 1, Len(taken) + 1)
        BY <2>1, <3>1, <4>1, Prefixes
      <4> QED  BY <1>1, <2>5, <4>2
    <3>3. Len(taken') = Len(taken) + 1
      BY <2>1, <2>3, <3>1, <3>2
    <3>4. ToInv'
      BY <1>0, <1>1, <2>3, <2>5, <3>1, <3>2, <3>3, SMTT(30) DEF ToInv
    <3>5. ToPlugin!Hear(1) /\ 1 \in 0 .. Len(asked) - Len(taken)
      BY <1>0, <2>3, <3>1, <3>2 DEF ToPlugin!Hear
    <3> QED  BY <3>4, <3>5 DEF ToPlugin!Next
  <2> QED  BY <1>1, <2>1, <2>2, <2>3, <2>4, <2>5, Take
<1>2. CASE plugin' = [plugin EXCEPT !.life = "ended"] /\ UNCHANGED taken
  <2>1. ~ Running'
    BY <1>2 DEF TypeOK, PluginTypeOK, Running
  <2> QED  BY <1>0, <1>2, <2>1, ToKept
<1> QED  BY <1>1, <1>2 DEF PluginReads

\* Whatever is written to a plugin reaches it whole and in order: the stream to it implements
\* Fifo, for pipes of any size.
THEOREM ToPluginIsAFifo == Spec => ToPluginSpec
<1>1. Init => ToPlugin!Init /\ ToInv
  BY EmptySeq DEF Init, NoPlugin, Running, ToInv, ToPlugin!Init
<1>2. TypeOK /\ ToInv /\ [Next]_vars => ToInv' /\ [ToPlugin!Next]_(ToPlugin!vars)
  <2> SUFFICES ASSUME TypeOK, ToInv, [Next]_vars
               PROVE  ToInv' /\ [ToPlugin!Next]_(ToPlugin!vars)
    OBVIOUS
  <2>1. CASE Start
    <3>1. asked' = << >> /\ taken' = << >> /\ stdin' = << >> /\ ui'.out = << >>
      BY <2>1 DEF Start
    <3>2. Carries(<< >>, << >>, 0, 0, 0) /\ OfFrame(<< >>, 0)
      BY DEF Carries, Ordered, OfFrame
    <3>3. ToInv'
      BY <3>1, <3>2 DEF ToInv
    <3> QED  BY <3>1, <3>3 DEF ToPlugin!Next, ToPlugin!Open
  <2> QED  BY <2>1, ToUser, ToPluginSteps, ToWrite, ToRead
           DEF Next, UserInterface, User, Plugin
<1> QED  BY <1>1, <1>2, TypeCorrect, PTL DEF Spec, ToPluginSpec, ToPlugin!Spec
==============================================================================
