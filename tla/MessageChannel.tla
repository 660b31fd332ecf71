--------------------------- MODULE MessageChannel ---------------------------
(***************************************************************************)
(* What the framing promises: messages are handled whole, in the order     *)
(* they were sent, each once.                                              *)
(***************************************************************************)
EXTENDS Integers, Sequences

VARIABLES
  sent,    \* how many messages were sent
  handled  \* the messages that were handled, by number

ChannelInit == sent = 0 /\ handled = <<>>

SendNext == sent' = sent + 1 /\ UNCHANGED handled

HandleNext ==
  /\ Len(handled) < sent
  /\ handled' = Append(handled, Len(handled) + 1)
  /\ UNCHANGED sent

ChannelSpec == ChannelInit /\ [][SendNext \/ HandleNext]_<<sent, handled>>
=============================================================================
