------------------------------ MODULE MCBytes -------------------------------
(***************************************************************************)
(* The four places where bytes are cut into pieces and put together again, *)
(* each explored by itself: the framing of messages, the DynamicBuffer     *)
(* under it, the rows of a table and base64.  part says which of them a    *)
(* behaviour is about; the last two are functions, whose inputs are chosen *)
(* in the initial state.                                                   *)
(***************************************************************************)
EXTENDS MessageFraming, ReadBuffer, StoredText

CONSTANTS
  MaxPiece,   \* bound on the bytes of one read of a file
  MaxOctets,  \* bound on the bytes encoded
  MCOctet     \* the bytes they are chosen from

VARIABLE part  \* "framing", "buffer", "rows" or "base64"

vars == <<framingVars, bufferVars, inputs, part>>

\* A column: nothing, names of which one is the start of others, and characters
\* with a meaning of their own at either end.
MCPlain == {"a", "b"}

MCNames == {<<>>, <<"a">>, <<"a", "b">>, <<"b", "a", "a">>}

Field == MCNames \cup
  {<<Backslash>>, <<Backslash, Delimiter>>, <<"a", Backslash>>, <<Delimiter, "b">>}

\* Up to two rows of one or two columns, one of three.
Tables == UNION {[1..n -> [1..c -> Field]] : n \in 0..2, c \in 1..2}
            \cup [1..1 -> [1..3 -> Field]]

Width(rows) == IF rows = <<>> THEN 1..3 ELSE {Len(rows[1])}

\* The inputs explored are among those that the theorems of StoredTextProofs are
\* about.
ASSUME InputsAssumption ==
  /\ MCOctet \subseteq Octet
  /\ \A rows \in Tables : \A w \in Width(rows) : rows \in Seq([1..w -> Seq(Character)])

NoInput == readSize = 1 /\ columns = 1 /\ table = <<>> /\ octets = <<>>

RowsInput ==
  /\ part = "rows"
  /\ readSize \in 1..MaxPiece
  /\ table \in Tables
  /\ columns \in Width(table)
  /\ octets = <<>>

Base64Input ==
  /\ part = "base64"
  /\ octets \in SeqOf(MCOctet, MaxOctets)
  /\ readSize = 1 /\ columns = 1 /\ table = <<>>

BytesInit ==
  /\ FramingInit
  /\ BufferInit
  /\ \/ part \in {"framing", "buffer"} /\ NoInput
     \/ RowsInput
     \/ Base64Input

BytesNext ==
  \/ part = "framing" /\ FramingNext /\ UNCHANGED <<bufferVars, inputs, part>>
  \/ part = "buffer" /\ BufferNext /\ UNCHANGED <<framingVars, inputs, part>>

BytesSpec ==
  /\ BytesInit /\ [][BytesNext]_vars
  /\ WF_framingVars(Reading) /\ WF_framingVars(onRead)
=============================================================================
