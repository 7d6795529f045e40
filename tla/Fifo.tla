-------------------------------- MODULE Fifo --------------------------------
(***************************************************************************)
(* What a stream of messages promises its two ends: the reader gets what   *)
(* the writer wrote, each message once, whole and in order, until the      *)
(* stream ends, and nothing after that.  What was under way then is lost.  *)
(***************************************************************************)
EXTENDS Sequences, Naturals

CONSTANT Messages

VARIABLES
  written,  \* the messages written since the stream was opened
  heard,    \* those the reader has got
  ended     \* the reader knows of the end

vars == <<written, heard, ended>>

Init == written = << >> /\ heard = << >> /\ ended = FALSE

Open == written' = << >> /\ heard' = << >> /\ ended' = FALSE

\* A message follows those that were written before.
Write ==
  /\ written' \in Seq(Messages) /\ Len(written') = Len(written) + 1
  /\ SubSeq(written', 1, Len(written)) = written
  /\ UNCHANGED <<heard, ended>>

\* The reader gets the next messages, as many as there are for it.
Hear(n) ==
  /\ ~ ended /\ Len(heard) + n <= Len(written)
  /\ heard' = SubSeq(written, 1, Len(heard) + n)
  /\ UNCHANGED written

Next ==
  \/ Open
  \/ Write
  \/ \E n \in 0 .. Len(written) - Len(heard) : Hear(n) /\ ended' \in BOOLEAN

Spec == Init /\ [][Next]_vars
==============================================================================
