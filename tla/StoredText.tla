----------------------------- MODULE StoredText -----------------------------
(***************************************************************************)
(* What the programs write into their files and read from them again: the  *)
(* rows of a table, and base64.  Both are functions; the variables are     *)
(* their inputs, chosen in the initial state.                              *)
(***************************************************************************)
EXTENDS RowFormat, Base64

CONSTANT Names  \* the names that are looked for

VARIABLES
  readSize,  \* how much one read of the file takes, 1024 in the code
  columns,   \* the template parameter columns
  table,     \* the rows of the table
  octets     \* the bytes to encode

inputs == <<readSize, columns, table, octets>>

Character == Plain \cup {Backslash, Delimiter}

InputOK ==
  /\ readSize \in Nat \ {0}
  /\ columns \in Nat \ {0}
  /\ table \in Seq([1..columns -> Seq(Character)])
  /\ octets \in Seq(Octet)

(***************************************************************************)
(* Properties.                                                             *)
(***************************************************************************)

\* How the reader wants a column to be written: an escape before a character with
\* a meaning.  writeToFile writes no escapes; what it writes of columns without
\* such characters is the same.
EscapedCharacter(c) ==
  IF c \in {Backslash, Delimiter} THEN <<Backslash, c>> ELSE <<c>>

Escaped(field) == FlattenSeq([i \in DOMAIN field |-> EscapedCharacter(field[i])])

EscapedRow(row) == [k \in DOMAIN row |-> Escaped(row[k])]

EscapedRows == [i \in DOMAIN table |-> EscapedRow(table[i])]

\* A table of one column has an empty row at its end.
WithLast == IF columns = 1 THEN Append(table, <<<<>>>>) ELSE table

\* However read cuts a file that is written as the reader wants it, readFromFile
\* gives op the rows of the file and stores none of their columns beyond the row.
\* So insert and update copy a table if its columns are plain; of one that
\* writeToFile wrote with a backslash or a delimiter in a column this says nothing.
RowsReadBack ==
  LET r == readFromFile(Table(EscapedRows), readSize, columns, {})
  IN  r.rows = WithLast /\ ~r.overrun

\* The table as writeToFile writes it, which escapes nothing.
PlainTable ==
  /\ \A i \in DOMAIN table : \A k \in DOMAIN table[i] : table[i][k] \in Seq(Plain)
  /\ \A i, j \in DOMAIN table : table[i][1] = table[j][1] => i = j

\* A table with or without a newline at the end.
Texts == {Table(table)} \cup (IF table = <<>> THEN {} ELSE {Front(Table(table))})

RowOf(key) ==
  IF \E i \in DOMAIN table : table[i][1] = key
    THEN table[CHOOSE i \in DOMAIN table : table[i][1] = key] ELSE <<>>

\* find returns the row of the name and no other, whole, although it goes on with
\* the characters of the read it found it in and with the start of a row that
\* they may end in; without one it returns none.  (The empty row at the end of a
\* table of one column has an empty name.)
FindsRow ==
  PlainTable =>
    \A text \in Texts, key \in Names :
      (columns = 1 => key # <<>>) => find(text, readSize, columns, key) = RowOf(key)

\* What base64Encode wrote is decoded to the same bytes, followed by a zero for
\* every byte its last group lacks, and the assertion of base64Decode holds.
EncodedDecodes ==
  LET text == base64Encode(octets)
      lacking == (3 - (Len(octets) % 3)) % 3
  IN  /\ base64Decode(text) = octets \o [i \in 1..lacking |-> 0]
      /\ ~DecodeAborts(text)
=============================================================================
