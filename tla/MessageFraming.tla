--------------------------- MODULE MessageFraming ---------------------------
(***************************************************************************)
(* One direction of a connection: messages that start with their size and  *)
(* type are encoded, cross a stream that keeps no boundaries, are          *)
(* collected in the readBuffer chunk by chunk, and are taken out again by  *)
(* the loop of onRead (the server's and the client's are alike).           *)
(*                                                                         *)
(* A byte is the number of its message and its place in it; the size and   *)
(* the type a header holds are those of the message.  The sizes are those  *)
(* that encode writes: a header that gives less than its own three bytes   *)
(* is not sent.                                                            *)
(***************************************************************************)
EXTENDS DynamicBuffer

CONSTANTS
  MessageSize,  \* the sizes of the messages that are sent
  MaxRead,      \* how much one read takes, 1024 in FD::defaultRead
  MaxMessages   \* bound on the messages sent

HeaderSize == 3  \* two bytes of size, one of type
LargestSize == 65535  \* uint16_t size

ASSUME FramingAssumption ==
  /\ MessageSize \subseteq HeaderSize..LargestSize
  /\ MaxRead \in Nat \ {0}
  /\ MaxMessages \in Nat

VARIABLES
  sizes,     \* the sizes of the messages sent so far
  flying,    \* the bytes written and not read yet
  buffers,   \* the readBuffer of the descriptor
  received,  \* what the handlers were given, message by message
  status,    \* "loop", "onRead", or "aborted" by a failed assertion
  split      \* history: a read has ended inside a message

framingVars == <<sizes, flying, buffers, received, status, split>>

Encoded(m, size) == [i \in 1..size |-> [message |-> m, index |-> i]]

FramingInit ==
  /\ sizes = <<>>
  /\ flying = <<>>
  /\ buffers = <<>>
  /\ received = <<>>
  /\ status = "loop"
  /\ split = FALSE

\* encode and write.
SendMessage(size) ==
  /\ Len(sizes) < MaxMessages
  /\ sizes' = Append(sizes, size)
  /\ flying' = flying \o Encoded(Len(sizes) + 1, size)
  /\ UNCHANGED <<buffers, received, status, split>>

EndsMessage(n) == n < Len(flying) => flying[n + 1].index = 1

\* defaultRead returns what has arrived, as the stream has cut it, and the
\* callback starts.
Read(n) ==
  /\ status = "loop"
  /\ n <= MaxRead
  /\ buffers' = AddBuffer(buffers, SubSeq(flying, 1, n))
  /\ flying' = SubSeq(flying, n + 1, Len(flying))
  /\ status' = "onRead"
  /\ split' = (split \/ ~EndsMessage(n))
  /\ UNCHANGED <<sizes, received>>

(***************************************************************************)
(* onRead: while (message.peek(buffer)) ...                                *)
(***************************************************************************)
HeaderThere == BufferLength(buffers) >= HeaderSize

\* peekHeader looks at the front chunk only.
HeaderWhole == HeaderThere /\ Len(Head(buffers)) >= HeaderSize

\* The size the header gives.
HeadSize == sizes[Head(buffers)[1].message]

\* Mutant: a message must be followed by something.
MessageFollowed == HeaderWhole /\ Len(Head(buffers)) > HeadSize

\* Message::peek compares the size with the front chunk only.
MessageWhole == HeaderWhole /\ Len(Head(buffers)) >= HeadSize

\* peekHeader asks the front chunk for its third byte: Buffer::get asserts that
\* it has one.
HeaderTorn ==
  /\ status = "onRead"
  /\ HeaderThere /\ ~HeaderWhole
  /\ status' = "aborted"
  /\ UNCHANGED <<sizes, flying, buffers, received, split>>

\* Mutant: get takes only the header out of the buffer.
TakeHeader == AdvanceBuffer(buffers, HeaderSize)

\* get: advanceBuffer(size).
TakeMessage == AdvanceBuffer(buffers, HeadSize)

\* The handler of the message's type gets it, byte by byte through operator[].
HandleMessage ==
  /\ status = "onRead"
  /\ MessageWhole
  /\ received' = Append(received, [i \in 1..HeadSize |-> At(buffers, i - 1)])
  /\ buffers' = TakeMessage
  /\ UNCHANGED <<sizes, flying, status, split>>

\* peek finds no whole message: onRead returns.
Return ==
  /\ status = "onRead"
  /\ \/ ~HeaderThere
     \/ HeaderWhole /\ ~MessageWhole
  /\ status' = "loop"
  /\ UNCHANGED <<sizes, flying, buffers, received, split>>

(***************************************************************************)
(* The specification.                                                      *)
(***************************************************************************)
Sending == \E size \in MessageSize : SendMessage(size)

Reading == \E n \in 1..Len(flying) : Read(n)

onRead == HeaderTorn \/ HandleMessage \/ Return

FramingNext ==
  \/ Sending
  \/ Reading
  \/ onRead

FramingSpec == FramingInit /\ [][FramingNext]_framingVars

\* The loop reads what is there and onRead goes on: one thread, never blocked.
FairFramingSpec ==
  /\ FramingSpec
  /\ WF_framingVars(Reading)
  /\ WF_framingVars(onRead)

(***************************************************************************)
(* Properties.                                                             *)
(***************************************************************************)
Byte == [message : 1..MaxMessages, index : Nat]

FramingTypeOK ==
  /\ sizes \in Seq(MessageSize)
  /\ flying \in Seq(Byte)
  /\ buffers \in Seq(Seq(Byte) \ {<<>>})
  /\ received \in Seq(Seq(Byte))
  /\ status \in {"loop", "onRead", "aborted"}
  /\ split \in BOOLEAN

\* What is read starts at a header: bytes are never taken for a size.
InFrame == buffers # <<>> => Head(buffers)[1].index = 1

\* The number of the message the bytes are, 0 if they are none.
NumberOf(bytes) ==
  IF bytes # <<>> /\ bytes = Encoded(bytes[1].message, sizes[bytes[1].message])
    THEN bytes[1].message ELSE 0

Channel == INSTANCE MessageChannel
  WITH sent <- Len(sizes), handled <- [k \in DOMAIN received |-> NumberOf(received[k])]

\* However the stream cuts the bytes, what is handled is whole messages in the
\* order they were sent: none is lost, torn or repeated.
WholeMessagesInOrder == Channel!ChannelSpec

\* What the two rest on: the bytes that are there and those under way are the
\* messages sent and not handled, and what was handled is what was sent.
Pending ==
  [j \in 1..(Len(sizes) - Len(received)) |->
     Encoded(Len(received) + j, sizes[Len(received) + j])]

FramingInv ==
  /\ FramingTypeOK
  /\ Len(received) <= Len(sizes) /\ Len(sizes) <= MaxMessages
  /\ \A k \in DOMAIN received : received[k] = Encoded(k, sizes[k])
  /\ FlattenSeq(buffers) \o flying = FlattenSeq(Pending)

\* Every message sent is handled, as long as no read ends inside a message:
\* when the peer waits for every answer and its messages fit into one read.
AllHandled ==
  \A m \in 1..MaxMessages : (Len(sizes) >= m) ~> (Len(received) >= m \/ split)

\* The loop handles the data received (TCPServer.cpp:87): a message that was
\* sent is handled, or an assertion has failed.
DataHandled ==
  \A m \in 1..MaxMessages :
    (Len(sizes) >= m) ~> (Len(received) >= m \/ status = "aborted")
=============================================================================
