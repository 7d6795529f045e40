----------------------------- MODULE HeardProofs -----------------------------
(***************************************************************************)
(* Proof that the stream from a plugin is a Fifo, for pipes of any size    *)
(* and any number of messages.                                             *)
(*                                                                         *)
(* Between the pipe and the user interface is the channel of the reader    *)
(* thread: what was heard, then what the channel holds, then what the pipe *)
(* carries is what the plugin has said.                                    *)
(***************************************************************************)
EXTENDS PluginsProofs

-----------------------------------------------------------------------------
(* Who has the plugin at which moment.                                     *)

\* The host and its reader come after start, and go before the next.
Stages ==
  /\ ~ host => channel = << >> /\ reader = "none"
  /\ ui.at \in {"hello", "ack"} => ~ host /\ ~ over
  /\ ui.at \in {"ping", "stop"} => host
  /\ over => ~ host \/ (channel = << >> /\ reader = "ended")

\* They take turns: start has no host yet, and once the end is known nothing is left to show.
LEMMA StagesKept == TypeOK /\ Stages /\ [Next]_vars => Stages'
<1> SUFFICES ASSUME UiTypeOK, PipesTypeOK, Stages, [Next]_vars PROVE Stages'
  BY DEF TypeOK
<1>1. CASE Start \/ ReadHello \/ Connected
  <2>1. CASE Start
    BY <2>1 DEF Start, Idle, Stages
  <2>2. CASE ReadHello
    <3>1. ~ host /\ ~ over /\ UNCHANGED <<host, reader, channel>>
      BY <2>2 DEF ReadHello, StartFails, Stages, assistant
    <3>2. \/ UNCHANGED <<ui, over>> \/ ui' = Idle
          \/ ui'.at = "ack" /\ UNCHANGED over
      BY <2>2 DEF ReadHello, StartFails, assistant
    <3> QED  BY <2>2, <3>1, <3>2 DEF ReadHello, Idle, Stages
  <2>3. CASE Connected
    BY <2>3 DEF Connected, Idle, Stages, streams
  <2> QED  BY <1>1, <2>1, <2>2, <2>3
<1>2. CASE WriteCell \/ WriteFails
  <2>1. UNCHANGED <<host, reader, channel>>
    BY <1>2 DEF WriteCell, WriteFails, StartFails
  <2>2. \/ ui'.at = ui.at /\ UNCHANGED over
        \/ ui' = Idle /\ ui.at = "ack"
    BY <1>2 DEF WriteCell, WriteFails, StartFails, UiTypeOK
  <2> QED  BY <2>1, <2>2 DEF Idle, Stages
<1>3. CASE Ping \/ PingDone \/ Stop
  <2>1. UNCHANGED <<host, reader, channel, over>>
    BY <1>3 DEF Ping, PingDone, Stop, streams
  <2>2. \/ ui'.at \in {"ping", "stop"} /\ host
        \/ ui'.at = "idle"
    BY <1>3 DEF Ping, PingDone, Stop, Idle
  <2> QED  BY <2>1, <2>2 DEF Stages
<1>4. CASE Stopped
  BY <1>4 DEF Stopped, Idle, Stages
<1>5. CASE ShowEvents
  <2>1. channel' = << >> /\ host /\ UNCHANGED <<ui, host, reader>> /\ ui.at = "idle"
    BY <1>5 DEF ShowEvents, Idle
  <2>2. channel # << >> /\ ~ over
    BY <1>5 DEF ShowEvents, Stages
  <2>3. reader = "ended" \/ UNCHANGED over
    <3>1. Len(channel) \in DOMAIN channel
      BY <2>2 DEF PipesTypeOK
    <3> QED  BY <1>5, <3>1 DEF ShowEvents, PipesTypeOK
  <2> QED  BY <2>1, <2>2, <2>3 DEF Stages
<1>6. CASE Reader
  <2>1. reader = "reading" /\ UNCHANGED <<ui, host, over>>
    BY <1>6 DEF Reader, Read, ReadFails, streams
  <2> QED  BY <2>1 DEF Stages
<1>7. CASE Plugin \/ UNCHANGED vars
  <2>1. UNCHANGED <<ui, host, reader, channel, over>>
    BY <1>7 DEF Plugin, Speak, PluginWrites, PluginReads, PluginLogs, PluginCrashes,
                PluginKeeps, vars, assistant, streams
  <2> QED  BY <2>1 DEF Stages
<1> QED  BY <1>1, <1>2, <1>3, <1>4, <1>5, <1>6, <1>7 DEF Next, UserInterface, User

-----------------------------------------------------------------------------
(* What is on its way to the user interface.                               *)

\* The messages in the channel: all of it, but for the end.
Shown ==
  IF channel = << >> \/ channel[Len(channel)] # Exited THEN Len(channel)
  ELSE Len(channel) - 1

\* What was heard is the start of what the plugin has said, the channel has what comes
\* next, and as long as somebody reads its pipe has what comes after that.
HeardInv ==
  /\ Len(heard) + Shown <= Len(said) /\ heard = SubSeq(said, 1, Len(heard))
  /\ \A k \in 1 .. Shown : channel[k] = said[Len(heard) + k]
  /\ Reading => \E mid \in 0 .. 1, begun \in 0 .. 1 :
                  /\ Carries(stdout, said, Len(heard) + Shown, mid, begun)
                  /\ Running => OfFrame(plugin.out, begun)

\* A sequence is one of what its elements are.
LEMMA SeqOf ==
  ASSUME NEW S, NEW T, NEW seq \in Seq(S), \A k \in 1 .. Len(seq) : seq[k] \in T
  PROVE  seq \in Seq(T)
OBVIOUS

\* The events before the end are messages.
LEMMA ShownIs ==
  ASSUME PipesTypeOK
  PROVE  /\ Shown \in Nat /\ Len(channel) \in Nat
         /\ \A k \in 1 .. Shown : channel[k] \in Message
         /\ reader # "ended" => Shown = Len(channel) /\ channel \in Seq(Message)
         /\ channel = << >> => Shown = 0
<1>1. /\ Len(channel) \in Nat /\ DOMAIN channel = 1 .. Len(channel)
      /\ channel = << >> <=> Len(channel) = 0
      /\ \A k \in 1 .. Len(channel) : channel[k] \in Message \cup {Exited}
      /\ channel \in Seq(Message \cup {Exited})
  BY DEF PipesTypeOK
<1>2. \A k \in 1 .. Len(channel) : channel[k] = Exited => k = Len(channel) /\ reader = "ended"
  BY <1>1 DEF PipesTypeOK
<1>3. Shown \in Nat /\ (channel = << >> => Shown = 0)
  BY <1>1 DEF Shown
<1>4. ASSUME NEW k \in 1 .. Shown PROVE channel[k] \in Message
  <2>1. k \in 1 .. Len(channel)
    BY <1>1 DEF Shown
  <2>2. CASE k = Len(channel)
    <3>1. channel[Len(channel)] # Exited
      BY <1>1, <2>1, <2>2 DEF Shown
    <3> QED  BY <1>1, <2>1, <2>2, <3>1
  <2>3. CASE k # Len(channel)
    BY <1>1, <1>2, <2>1, <2>3, Zenon
  <2> QED  BY <2>2, <2>3
<1>5. ASSUME reader # "ended" PROVE Shown = Len(channel) /\ channel \in Seq(Message)
  <2>1. \A k \in 1 .. Len(channel) : channel[k] # Exited
    BY <1>2, <1>5
  <2>2. channel # << >> => Len(channel) \in 1 .. Len(channel)
    BY <1>1
  <2>3. Shown = Len(channel)
    BY <2>1, <2>2, Zenon DEF Shown
  <2>4. \A k \in 1 .. Len(channel) : channel[k] \in Message
    BY <1>4, <2>3
  <2> QED  BY <2>3, <2>4, SeqOf DEF PipesTypeOK
<1> QED  BY <1>1, <1>3, <1>4, <1>5

\* A step in which nothing moves but what the plugin or the user interface is about to do.
LEMMA HeardKept ==
  ASSUME HeardInv, UNCHANGED <<said, heard, channel, stdout>>,
         Reading' => Reading,
         Running' => Running /\ \A begun \in 0 .. 1 : OfFrame(plugin.out, begun)
                                                        => OfFrame(plugin.out, begun)'
  PROVE  HeardInv'
<1>1. UNCHANGED Shown
  BY DEF Shown
<1> QED  BY <1>1 DEF HeardInv

\* A step of which the reader of the stream notices nothing, or no more than its end.
LEMMA MayEnd ==
  ASSUME UNCHANGED <<said, heard>>, StreamsTypeOK, HeardInv, PipesTypeOK, FlagsTypeOK',
         UNCHANGED over \/ ~ over
  PROVE  [FromPlugin!Next]_(FromPlugin!vars)
<1>1. CASE UNCHANGED over
  BY <1>1 DEF FromPlugin!vars
<1>2. CASE ~ over
  <2>1. Len(heard) \in Nat /\ Len(said) \in Nat /\ Shown \in Nat
    BY ShownIs DEF StreamsTypeOK
  <2>2. 0 \in 0 .. Len(said) - Len(heard) /\ Len(heard) + 0 = Len(heard) /\ Len(heard) <= Len(said)
    BY <2>1 DEF HeardInv
  <2>3. heard' = SubSeq(said, 1, Len(heard) + 0)
    BY <2>2 DEF HeardInv
  <2>4. FromPlugin!Hear(0)
    BY <1>2, <2>2, <2>3 DEF FromPlugin!Hear
  <2>5. over' \in BOOLEAN
    BY DEF FlagsTypeOK
  <2> QED  BY <2>2, <2>4, <2>5 DEF FromPlugin!Next
<1> QED  BY <1>1, <1>2

\* The steps of the user interface that do not read.
LEMMA HeardUser ==
  ASSUME TypeOK, TypeOK', Stages, HeardInv,
         \/ Connected \/ WriteCell \/ WriteFails \/ Ping \/ PingDone \/ Stop \/ Stopped
         \/ UNCHANGED vars
  PROVE  HeardInv' /\ [FromPlugin!Next]_(FromPlugin!vars)
<1>0. StreamsTypeOK /\ PipesTypeOK /\ FlagsTypeOK' /\ UiTypeOK /\ PluginTypeOK
  BY DEF TypeOK
<1>1. CASE Stopped
  <2>1. UNCHANGED <<said, heard>> /\ ~ Reading' /\ channel' = << >> /\ over' = TRUE
    BY <1>1 DEF Stopped, Reading, Idle
  <2>2. Shown' = 0
    BY <2>1 DEF Shown
  <2>3. /\ Len(heard) \in Nat /\ Len(said) \in Nat /\ Shown \in Nat
        /\ Len(heard) + Shown <= Len(said)
    BY <1>0, ShownIs DEF StreamsTypeOK, HeardInv
  <2>4. Len(heard) + 0 <= Len(said)
    BY <2>3
  <2>5. HeardInv'
    BY <2>1, <2>2, <2>4 DEF HeardInv
  <2>6. UNCHANGED over \/ ~ over
    BY <1>0, <2>1, Zenon DEF TypeOK, FlagsTypeOK
  <2> QED  BY <1>0, <2>1, <2>5, <2>6, MayEnd
<1>2. CASE Connected
  <2>1. /\ UNCHANGED <<said, heard, stdout, over>> /\ channel' = << >> /\ Reading
        /\ plugin'.life = plugin.life /\ plugin'.out = plugin.out
    BY <1>0, <1>2 DEF Connected, streams, pipes, Reading, PluginTypeOK
  <2>2. UNCHANGED channel
    BY <1>2, <2>1 DEF Connected, Stages
  <2>3. HeardInv'
    BY <2>1, <2>2, HeardKept DEF Running, OfFrame
  <2> QED  BY <1>0, <2>1, <2>3, MayEnd
<1>3. CASE WriteCell \/ WriteFails \/ Ping \/ PingDone \/ Stop \/ UNCHANGED vars
  <2>1. UNCHANGED <<said, heard, stdout, channel, plugin, reader>>
    BY <1>3 DEF WriteCell, WriteFails, StartFails, Ping, PingDone, Stop, vars, assistant, streams,
                pipes
  <2>2. Reading' => Reading
    BY <1>0, <1>3, <2>1 DEF WriteCell, WriteFails, StartFails, Ping, PingDone, Stop, vars,
                assistant, Reading, Idle, UiTypeOK
  <2>3. UNCHANGED over \/ ~ over
    BY <1>3 DEF WriteCell, WriteFails, StartFails, Ping, PingDone, Stop, vars, streams, Stages
  <2>4. HeardInv'
    BY <2>1, <2>2, HeardKept DEF Running, OfFrame
  <2> QED  BY <1>0, <2>1, <2>3, <2>4, MayEnd
<1> QED  BY <1>1, <1>2, <1>3

\* start reads the first frame itself.
LEMMA HeardHello ==
  ASSUME TypeOK, TypeOK', Stages, HeardInv, ReadHello
  PROVE  HeardInv' /\ [FromPlugin!Next]_(FromPlugin!vars)
<1>0. StreamsTypeOK /\ PipesTypeOK /\ FlagsTypeOK' /\ ~ over
  BY DEF TypeOK, ReadHello, Stages
<1>1. /\ UNCHANGED <<said, plugin>> /\ Reading
      /\ UNCHANGED <<channel, reader>> /\ channel = << >>
  BY DEF ReadHello, StartFails, assistant, Reading, Stages
<1>2. CASE stdout = << >> /\ ~ Running
  <2>1. UNCHANGED <<heard, stdout>>
    BY <1>2 DEF ReadHello
  <2>2. HeardInv'
    BY <1>1, <1>2, <2>1, HeardKept DEF Running
  <2> QED  BY <1>0, <1>1, <2>1, <2>2, MayEnd
<1>3. CASE stdout # << >> /\ stdout' = Tail(stdout) /\ heard' = heard \o Completed(Head(stdout))
  <2>1. PICK mid \in 0 .. 1, begun \in 0 .. 1 :
          Carries(stdout, said, Len(heard) + Shown, mid, begun)
          /\ (Running => OfFrame(plugin.out, begun))
    BY <1>1 DEF HeardInv
  <2>2. stdout \in Seq(Cell) /\ said \in Seq(Message) /\ heard \in Seq(Message)
    BY <1>0 DEF PipesTypeOK, StreamsTypeOK
  <2>3. Shown = 0 /\ Shown' = 0 /\ Len(heard) \in Nat /\ Len(heard) + Shown = Len(heard)
    BY <1>1, <2>2 DEF Shown
  <2>4. 1 - mid \in 0 .. 1
    BY <2>1
  <2>5. Running' => OfFrame(plugin'.out, begun)
    BY <1>1, <2>1 DEF Running
  <2>6. Len(heard) <= Len(said) /\ heard = SubSeq(said, 1, Len(heard))
    BY <2>3 DEF HeardInv
  <2>7. CASE /\ Completed(Head(stdout)) = << >>
             /\ Carries(Tail(stdout), said, Len(heard), 1 - mid, begun)
    <3>1. UNCHANGED heard
      BY <1>3, <2>2, <2>7
    <3>2. HeardInv'
      BY <1>1, <1>3, <2>3, <2>4, <2>5, <2>6, <2>7, <3>1 DEF HeardInv
    <3> QED  BY <1>0, <1>1, <3>1, <3>2, MayEnd
  <2>8. CASE /\ Completed(Head(stdout)) = <<said[Len(heard) + 1]>>
             /\ Len(heard) + 1 \in 1 .. Len(said)
             /\ Carries(Tail(stdout), said, Len(heard) + 1, 1 - mid, begun)
    <3>1. Len(said) \in Nat /\ Len(heard) < Len(said) /\ said[Len(heard) + 1] \in Message
      BY <2>2, <2>3, <2>8
    <3>2. heard' = SubSeq(said, 1, Len(heard) + 1)
      <4>1. heard \o <<said[Len(heard) + 1]>> = SubSeq(said, 1, Len(heard) + 1)
        BY <2>2, <2>6, <3>1, Prefixes
      <4> QED  BY <1>3, <2>8, <4>1
    <3>3. Len(heard') = Len(heard) + 1
      BY <2>2, <2>3, <3>1, <3>2
    <3>4. Len(heard') + Shown' = Len(heard) + 1 /\ Len(heard) + 1 <= Len(said)
      BY <2>3, <3>1, <3>3
    <3>5. HeardInv'
      BY <1>1, <1>3, <2>3, <2>4, <2>5, <2>8, <3>2, <3>3, <3>4 DEF HeardInv
    <3>6. FromPlugin!Hear(1) /\ 1 \in 0 .. Len(said) - Len(heard)
      BY <1>0, <1>1, <2>3, <3>1, <3>2, <3>4 DEF FromPlugin!Hear
    <3>7. over' \in BOOLEAN
      BY <1>0 DEF FlagsTypeOK
    <3> QED  BY <3>5, <3>6, <3>7 DEF FromPlugin!Next
  <2> QED  BY <1>3, <2>1, <2>2, <2>3, <2>7, <2>8, Take
<1> QED  BY <1>2, <1>3 DEF ReadHello

-----------------------------------------------------------------------------
(* The channel.                                                            *)

\* Some messages that follow those that were heard.
LEMMA NextOnes ==
  ASSUME NEW s \in Seq(Message), NEW t \in Seq(Message), NEW c \in Seq(Message),
         t = SubSeq(s, 1, Len(t)), Len(t) + Len(c) <= Len(s),
         \A k \in 1 .. Len(c) : c[k] = s[Len(t) + k]
  PROVE  t \o c = SubSeq(s, 1, Len(t) + Len(c)) /\ Len(t \o c) = Len(t) + Len(c)
<1>1. /\ Len(s) \in Nat /\ Len(t) \in Nat /\ Len(c) \in Nat
      /\ \A k \in 1 .. Len(t) : t[k] = s[k]
  <2>1. Len(s) \in Nat /\ Len(t) \in Nat /\ Len(c) \in Nat
    OBVIOUS
  <2>2. \A k \in 1 .. Len(t) : SubSeq(s, 1, Len(t))[k] = s[k]
    BY <2>1
  <2> QED  BY <2>1, <2>2
<1> DEFINE both == t \o c   start == SubSeq(s, 1, Len(t) + Len(c))
<1>2. /\ both \in Seq(Message) /\ Len(both) = Len(t) + Len(c)
      /\ \A k \in 1 .. Len(t) : both[k] = t[k]
      /\ \A k \in 1 .. Len(c) : both[Len(t) + k] = c[k]
  BY <1>1
<1>3. /\ start \in Seq(Message) /\ Len(start) = Len(t) + Len(c)
      /\ \A k \in 1 .. Len(t) + Len(c) : start[k] = s[k]
  BY <1>1
<1> HIDE DEF both, start
<1>4. ASSUME NEW k \in 1 .. Len(t) + Len(c) PROVE both[k] = start[k]
  <2>1. CASE k <= Len(t)
    BY <1>1, <1>2, <1>3, <2>1
  <2>2. CASE ~ k <= Len(t)
    <3>1. k - Len(t) \in 1 .. Len(c) /\ Len(t) + (k - Len(t)) = k
      BY <1>1, <2>2
    <3>2. PICK j \in 1 .. Len(c) : Len(t) + j = k
      BY <3>1
    <3>3. both[Len(t) + j] = c[j] /\ s[Len(t) + j] = c[j]
      BY <1>2
    <3>4. start[k] = s[k]
      BY <1>3
    <3> QED  BY <3>2, <3>3, <3>4, Zenon
  <2> QED  BY <2>1, <2>2
<1>5. both = start
  BY <1>2, <1>3, <1>4, SeqEqual
<1> QED  BY <1>2, <1>5 DEF both, start

\* The end is no message.
LEMMA EndShown ==
  ASSUME channel \in Seq(Message), channel' = Append(channel, Exited)
  PROVE  Shown' = Len(channel) /\ \A k \in 1 .. Len(channel) : channel'[k] = channel[k]
<1>1. /\ Len(channel) \in Nat /\ Len(channel') = Len(channel) + 1
      /\ channel'[Len(channel) + 1] = Exited
      /\ \A k \in 1 .. Len(channel) : channel'[k] = channel[k]
  OBVIOUS
<1>2. channel' # << >> /\ Len(channel') - 1 = Len(channel)
  BY <1>1
<1> QED  BY <1>1, <1>2 DEF Shown

\* A message is.
LEMMA MessageShown ==
  ASSUME channel \in Seq(Message), NEW m \in Message, channel' = channel \o <<m>>
  PROVE  /\ Shown' = Len(channel) + 1 /\ channel'[Len(channel) + 1] = m
         /\ \A k \in 1 .. Len(channel) : channel'[k] = channel[k]
<1>1. /\ Len(channel) \in Nat /\ Len(channel') = Len(channel) + 1
      /\ channel'[Len(channel) + 1] = m
      /\ \A k \in 1 .. Len(channel) : channel'[k] = channel[k]
  OBVIOUS
<1>2. m # Exited
  BY DEF Message, Kinds, Exited
<1>3. channel'[Len(channel')] # Exited
  BY <1>1, <1>2
<1> QED  BY <1>1, <1>3, Zenon DEF Shown

\* The Plugins tab takes what there is.
LEMMA HeardShow ==
  ASSUME TypeOK, TypeOK', Stages, HeardInv, ShowEvents
  PROVE  HeardInv' /\ [FromPlugin!Next]_(FromPlugin!vars)
<1>0. /\ UNCHANGED <<ui, reader, stdout, plugin, said>> /\ channel # << >> /\ channel' = << >>
      /\ ~ over /\ PipesTypeOK /\ over' \in BOOLEAN
      /\ said \in Seq(Message) /\ heard \in Seq(Message)
  BY DEF ShowEvents, Stages, TypeOK, StreamsTypeOK, FlagsTypeOK, pipes
<1>1. /\ Shown \in Nat /\ Len(channel) \in Nat /\ Shown' = 0
      /\ Len(heard) \in Nat /\ Len(said) \in Nat /\ Len(heard) + Shown <= Len(said)
  BY <1>0, ShownIs DEF Shown, HeardInv
<1>2. PICK c \in Seq(Message) : /\ heard' = heard \o c /\ Len(c) = Shown
                                /\ \A k \in 1 .. Shown : c[k] = channel[k]
  <2>1. CASE channel[Len(channel)] = Exited
    <3>1. heard' = heard \o SubSeq(channel, 1, Len(channel) - 1)
      BY <2>1, Zenon DEF ShowEvents
    <3>2. Shown = Len(channel) - 1
      BY <1>0, <2>1, Zenon DEF Shown
    <3>3. SubSeq(channel, 1, Len(channel) - 1) \in Seq(Message)
      BY <1>0, EventTypes
    <3>4. /\ Len(SubSeq(channel, 1, Shown)) = Shown
          /\ \A k \in 1 .. Shown : SubSeq(channel, 1, Shown)[k] = channel[k]
      <4>1. channel \in Seq(Message \cup {Exited}) /\ 1 \in 1 .. Len(channel) + 1
            /\ Shown \in 0 .. Len(channel) /\ Shown - 1 + 1 = Shown
        BY <1>0, <1>1, <3>2 DEF PipesTypeOK
      <4> QED  BY <1>1, <4>1
    <3> QED  BY <3>1, <3>2, <3>3, <3>4
  <2>2. CASE channel[Len(channel)] # Exited
    <3>1. heard' = heard \o channel
      BY <2>2, Zenon DEF ShowEvents
    <3>2. Shown = Len(channel)
      BY <2>2, Zenon DEF Shown
    <3>3. channel \in Seq(Message)
      BY <1>0, <2>2, EventTypes
    <3> QED  BY <3>1, <3>2, <3>3
  <2> QED  BY <2>1, <2>2
<1>3. heard' = SubSeq(said, 1, Len(heard) + Shown) /\ Len(heard') = Len(heard) + Shown
  <2>1. \A k \in 1 .. Len(c) : c[k] = said[Len(heard) + k]
    BY <1>2 DEF HeardInv
  <2>2. Len(heard) + Len(c) <= Len(said) /\ heard = SubSeq(said, 1, Len(heard))
    BY <1>1, <1>2 DEF HeardInv
  <2> QED  BY <1>0, <1>2, <2>1, <2>2, NextOnes
<1>4. HeardInv'
  <2>1. Len(heard') + Shown' = Len(heard) + Shown
    BY <1>1, <1>3
  <2>2. Reading' = Reading /\ Running' = Running /\ plugin'.out = plugin.out
    BY <1>0 DEF Reading, Running
  <2>3. Len(heard') + Shown' <= Len(said') /\ heard' = SubSeq(said', 1, Len(heard'))
    BY <1>0, <1>1, <1>3, <2>1
  <2>4. \A k \in 1 .. Shown' : channel'[k] = said'[Len(heard') + k]
    BY <1>1
  <2>5. Reading' => \E mid \in 0 .. 1, begun \in 0 .. 1 :
                      /\ Carries(stdout', said', Len(heard') + Shown', mid, begun)
                      /\ Running' => OfFrame(plugin'.out, begun)
    BY <1>0, <2>1, <2>2 DEF HeardInv
  <2> QED  BY <2>3, <2>4, <2>5 DEF HeardInv
<1>5. FromPlugin!Hear(Shown) /\ Shown \in 0 .. Len(said) - Len(heard)
  BY <1>0, <1>1, <1>3 DEF FromPlugin!Hear
<1> QED  BY <1>0, <1>4, <1>5 DEF FromPlugin!Next

\* The reader thread takes a cell, or finds that there will be no more.
LEMMA HeardRead ==
  ASSUME TypeOK, TypeOK', Stages, HeardInv, Reader
  PROVE  HeardInv' /\ [FromPlugin!Next]_(FromPlugin!vars)
<1>0. /\ UNCHANGED <<ui, plugin, said, heard, over>> /\ reader = "reading" /\ Reading
      /\ PipesTypeOK /\ StreamsTypeOK
  BY DEF Reader, Read, ReadFails, streams, Reading, TypeOK
<1>1. UNCHANGED FromPlugin!vars
  BY <1>0 DEF FromPlugin!vars
<1>2. /\ Shown = Len(channel) /\ channel \in Seq(Message) /\ Len(channel) \in Nat
      /\ stdout \in Seq(Cell) /\ said \in Seq(Message) /\ Len(heard) \in Nat /\ Len(said) \in Nat
  BY <1>0, ShownIs DEF PipesTypeOK, StreamsTypeOK
<1>3. ui.at \notin {"hello", "ack"}
  BY <1>0 DEF Stages
<1>4. CASE channel' = Append(channel, Exited) /\ reader' = "ended"
  <2>1. ~ Reading'
    BY <1>0, <1>3, <1>4 DEF Reading
  <2>2. Shown' = Shown /\ \A k \in 1 .. Shown : channel'[k] = channel[k]
    BY <1>2, <1>4, EndShown
  <2> QED  BY <1>0, <1>1, <2>1, <2>2 DEF HeardInv
<1>5. CASE stdout # << >> /\ stdout' = Tail(stdout)
           /\ channel' = channel \o Completed(Head(stdout)) /\ UNCHANGED reader
  <2>1. PICK mid \in 0 .. 1, begun \in 0 .. 1 :
          Carries(stdout, said, Len(heard) + Shown, mid, begun)
          /\ (Running => OfFrame(plugin.out, begun))
    BY <1>0 DEF HeardInv
  <2>2. 1 - mid \in 0 .. 1 /\ Len(heard) + Shown \in Nat
    BY <1>2, <2>1
  <2>3. Running' => OfFrame(plugin'.out, begun)
    BY <1>0, <2>1 DEF Running
  <2>4. CASE /\ Completed(Head(stdout)) = << >>
             /\ Carries(Tail(stdout), said, Len(heard) + Shown, 1 - mid, begun)
    <3>1. channel' = channel
      BY <1>2, <1>5, <2>4, SMTT(30)
    <3>2. Shown' = Shown
      BY <3>1 DEF Shown
    <3> QED  BY <1>0, <1>1, <1>5, <2>2, <2>3, <2>4, <3>1, <3>2 DEF HeardInv
  <2>5. CASE /\ Completed(Head(stdout)) = <<said[Len(heard) + Shown + 1]>>
             /\ Len(heard) + Shown + 1 \in 1 .. Len(said)
             /\ Carries(Tail(stdout), said, Len(heard) + Shown + 1, 1 - mid, begun)
    <3>1. said[Len(heard) + Shown + 1] \in Message
      BY <1>2, <2>5, ElementOfSeq, Zenon
    <3>2. /\ Shown' = Shown + 1 /\ channel'[Shown + 1] = said[Len(heard) + Shown + 1]
          /\ \A k \in 1 .. Shown : channel'[k] = channel[k]
      BY <1>2, <1>5, <2>5, <3>1, MessageShown
    <3>3. /\ Len(heard) + (Shown + 1) = Len(heard) + Shown + 1
          /\ Len(heard) + Shown + 1 <= Len(said)
      BY <1>2, <2>5
    <3>4. \A k \in 1 .. Shown' : channel'[k] = said[Len(heard) + k]
      <4>1. ASSUME NEW k \in 1 .. Shown + 1 PROVE channel'[k] = said[Len(heard) + k]
        <5>1. CASE k = Shown + 1
          BY <3>2, <3>3, <5>1
        <5>2. CASE k # Shown + 1
          <6>1. k \in 1 .. Shown
            BY <1>2, <5>2
          <6> QED  BY <3>2, <6>1 DEF HeardInv
        <5> QED  BY <5>1, <5>2
      <4> QED  BY <3>2, <4>1
    <3>5. /\ Len(heard') + Shown' <= Len(said') /\ Len(heard') + Shown' = Len(heard) + Shown + 1
          /\ heard' = SubSeq(said', 1, Len(heard'))
      BY <1>0, <3>2, <3>3 DEF HeardInv
    <3>6. \E m \in 0 .. 1, b \in 0 .. 1 :
            /\ Carries(stdout', said', Len(heard') + Shown', m, b)
            /\ Running' => OfFrame(plugin'.out, b)
      BY <1>0, <1>5, <2>2, <2>3, <2>5, <3>5
    <3> QED  BY <1>0, <1>1, <3>4, <3>5, <3>6 DEF HeardInv
  <2> QED  BY <1>2, <1>5, <2>1, <2>2, <2>4, <2>5, Take
<1> QED  BY <1>4, <1>5 DEF Reader, Read, ReadFails

-----------------------------------------------------------------------------
(* The plugin.                                                             *)

\* It begins a frame only when it has none to write.
LEMMA HeardThinks ==
  ASSUME TypeOK, TypeOK', HeardInv,
         Speak \/ PluginReads \/ PluginLogs \/ PluginCrashes
  PROVE  HeardInv' /\ [FromPlugin!Next]_(FromPlugin!vars)
<1>0. UNCHANGED <<said, heard, channel, stdout, ui, reader, over>> /\ Running
  BY DEF Speak, PluginReads, PluginLogs, PluginCrashes, PluginKeeps, pipes, assistant
<1>1. PluginTypeOK /\ PluginTypeOK'
  BY DEF TypeOK
<1>2. ASSUME Running', NEW begun \in 0 .. 1, OfFrame(plugin.out, begun)
      PROVE  OfFrame(plugin.out, begun)'
  <2>1. CASE UNCHANGED plugin
    BY <1>2, <2>1 DEF OfFrame
  <2>2. CASE plugin.out = << >> /\ \E kind, no : plugin'.out = Frame(M(kind, no))
    BY <1>2, <2>2, FrameIsOne DEF OfFrame
  <2>3. CASE PluginCrashes \/ plugin' = [plugin EXCEPT !.life = "ended"]
    BY <1>1, <1>2, <2>3 DEF PluginCrashes, Running, PluginTypeOK
  <2>4. CASE Speak
    <3>1. PICK kind, no : \/ plugin' = [plugin EXCEPT !.greeted = TRUE, !.out = Frame(M(kind, no))]
                          \/ plugin' = [plugin EXCEPT !.out = Frame(M(kind, no))]
      BY <2>4 DEF Speak
    <3>2. plugin'.out = Frame(M(kind, no))
      BY <1>1, <3>1 DEF PluginTypeOK
    <3> QED  BY <2>2, <2>4, <3>2 DEF Speak
  <2>5. CASE PluginReads
    <3>1. \/ UNCHANGED plugin \/ plugin' = [plugin EXCEPT !.life = "ended"]
          \/ plugin' = [plugin EXCEPT !.out = Frame(M("pong", Head(stdin).of.no))]
      BY <2>5 DEF PluginReads
    <3>2. plugin' = [plugin EXCEPT !.out = Frame(M("pong", Head(stdin).of.no))] =>
            \E kind, no : plugin'.out = Frame(M(kind, no))
      BY <1>1 DEF PluginTypeOK
    <3> QED  BY <2>1, <2>2, <2>3, <2>5, <3>1, <3>2 DEF PluginReads
  <2>6. CASE PluginLogs
    <3>1. plugin'.out = plugin.out
      BY <1>1, <2>6 DEF PluginLogs, PluginTypeOK
    <3> QED  BY <1>2, <3>1 DEF OfFrame
  <2> QED  BY <2>3, <2>4, <2>5, <2>6
<1>3. HeardInv'
  BY <1>0, <1>2, HeardKept DEF Reading
<1> QED  BY <1>0, <1>3 DEF FromPlugin!vars

\* It writes a cell, and ends when nobody reads.
LEMMA HeardWrites ==
  ASSUME TypeOK, HeardInv, PluginWrites
  PROVE  HeardInv' /\ [FromPlugin!Next]_(FromPlugin!vars)
<1>0. /\ UNCHANGED <<heard, channel, ui, reader, over>> /\ Running /\ plugin.out # << >>
      /\ UNCHANGED Shown /\ PipesTypeOK
      /\ Reading' = Reading
  BY DEF PluginWrites, PluginKeeps, assistant, Shown, TypeOK, Reading
<1>1. CASE ~ Reading
  <2>1. UNCHANGED <<stdout, said>>
    BY <1>1 DEF PluginWrites
  <2>2. ~ Reading'
    BY <1>0, <1>1
  <2> QED  BY <1>0, <2>1, <2>2 DEF HeardInv, FromPlugin!vars
<1>2. CASE Reading
  <2>1. /\ stdout' = Append(stdout, Head(plugin.out))
        /\ said' = said \o Completed(Head(plugin.out)) /\ plugin' = [plugin EXCEPT !.out = Tail(@)]
    BY <1>2 DEF PluginWrites
  <2>2. /\ plugin.out \in Seq(Cell) /\ Len(plugin.out) <= 2 /\ stdout \in Seq(Cell)
        /\ said \in Seq(Message) /\ heard \in Seq(Message) /\ plugin'.out = Tail(plugin.out)
    BY <2>1 DEF TypeOK, PluginTypeOK, PipesTypeOK, StreamsTypeOK
  <2>3. Len(plugin.out) \in 1 .. 2
    BY <1>0, <2>2, OneOrTwo
  <2>4. PICK mid \in 0 .. 1, begun \in 0 .. 1 :
          Carries(stdout, said, Len(heard) + Shown, mid, begun) /\ OfFrame(plugin.out, begun)
    BY <1>0, <1>2 DEF HeardInv
  <2>5. Len(heard) \in Nat /\ Len(said) \in Nat /\ Shown \in Nat /\ Len(heard) + Shown \in Nat
    BY <1>0, <2>2, ShownIs
  <2>6. /\ Carries(stdout', said', Len(heard) + Shown, mid, 1 - begun)
        /\ OfFrame(plugin'.out, 1 - begun)
        /\ \/ Completed(Head(plugin.out)) = << >>
           \/ Completed(Head(plugin.out)) = <<Head(plugin.out).of>>
              /\ Head(plugin.out).of \in Message
    BY <2>1, <2>2, <2>3, <2>4, <2>5, Put
  <2>7. Reading' => \E m \in 0 .. 1, b \in 0 .. 1 :
                      /\ Carries(stdout', said', Len(heard') + Shown', m, b)
                      /\ Running' => OfFrame(plugin'.out, b)
    <3>1. 1 - begun \in 0 .. 1
      BY <2>4
    <3> QED  BY <1>0, <2>6, <3>1
  <2>8. CASE Completed(Head(plugin.out)) = << >>
    <3>1. said' = said
      BY <2>1, <2>2, <2>8
    <3> QED  BY <1>0, <2>7, <3>1 DEF HeardInv, FromPlugin!vars
  <2>9. CASE /\ Completed(Head(plugin.out)) = <<Head(plugin.out).of>>
             /\ Head(plugin.out).of \in Message
    <3>1. PICK m \in Message : said' = said \o <<m>>
      BY <2>1, <2>9
    <3>2. Len(heard) <= Len(said) /\ heard = SubSeq(said, 1, Len(heard))
      BY <2>5 DEF HeardInv
    <3>3. /\ said' \in Seq(Message) /\ Len(said') = Len(said) + 1
          /\ SubSeq(said', 1, Len(said)) = said /\ SubSeq(said', 1, Len(heard)) = heard
      BY <2>2, <3>1, <3>2, Prefixes
    <3>4. \A k \in 1 .. Len(said) : said'[k] = said[k]
      BY <2>2, <3>1
    <3>5. ASSUME NEW k \in 1 .. Shown PROVE channel'[k] = said'[Len(heard') + k]
      <4>1. Len(heard) + k \in 1 .. Len(said)
        BY <2>5 DEF HeardInv
      <4> QED  BY <1>0, <3>4, <4>1 DEF HeardInv
    <3>6. Len(heard') + Shown' <= Len(said')
      BY <1>0, <2>5, <3>3 DEF HeardInv
    <3>7. HeardInv'
      BY <1>0, <2>7, <3>3, <3>5, <3>6 DEF HeardInv
    <3>8. FromPlugin!Write
      BY <1>0, <3>3 DEF FromPlugin!Write
    <3> QED  BY <3>7, <3>8 DEF FromPlugin!Next
  <2> QED  BY <2>6, <2>8, <2>9
<1> QED  BY <1>1, <1>2

\* What a plugin says reaches the user interface whole and in order, and nothing after its
\* end has been shown: the stream from it implements Fifo, for pipes of any size.
THEOREM FromPluginIsAFifo == Spec => FromPluginSpec
<1>1. Init => FromPlugin!Init /\ Stages /\ HeardInv
  <2>1. Len(<< >>) = 0 /\ SubSeq(<< >>, 1, 0) = << >>
    BY EmptySeq
  <2> QED  BY <2>1 DEF Init, Idle, Stages, HeardInv, Shown, Reading, FromPlugin!Init
<1>2. TypeOK /\ TypeOK' /\ Stages /\ HeardInv /\ [Next]_vars =>
        HeardInv' /\ [FromPlugin!Next]_(FromPlugin!vars)
  <2> SUFFICES ASSUME TypeOK, TypeOK', Stages, HeardInv, [Next]_vars
               PROVE  HeardInv' /\ [FromPlugin!Next]_(FromPlugin!vars)
    OBVIOUS
  <2>1. CASE Start
    <3>1. /\ said' = << >> /\ heard' = << >> /\ over' = FALSE /\ stdout' = << >>
          /\ plugin'.out = << >> /\ channel' = << >>
      BY <2>1 DEF Start, NoPlugin, Stages
    <3>2. Carries(<< >>, << >>, 0, 0, 0) /\ OfFrame(<< >>, 0)
      BY DEF Carries, Ordered, OfFrame
    <3>3. Shown' = 0 /\ Len(<< >>) = 0 /\ SubSeq(<< >>, 1, 0) = << >> /\ 0 + 0 = 0
      BY <3>1 DEF Shown
    <3>4. HeardInv'
      BY <3>1, <3>2, <3>3 DEF HeardInv
    <3> QED  BY <3>1, <3>4 DEF FromPlugin!Next, FromPlugin!Open
  <2> QED  BY <2>1, HeardUser, HeardHello, HeardShow, HeardRead, HeardThinks, HeardWrites
           DEF Next, UserInterface, User, Plugin
<1> QED  BY <1>1, <1>2, StagesKept, TypeCorrect, PTL DEF Spec, FromPluginSpec, FromPlugin!Spec
==============================================================================
