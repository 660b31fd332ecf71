----------------------------- MODULE RowFormat ------------------------------
(***************************************************************************)
(* The text of a table of include/Database.h: what readFromFile makes of   *)
(* the characters of a file, read by read, and what writeToFile writes.  A *)
(* row has a fixed number of columns.  The reader takes a backslash for an *)
(* escape; the writer writes none.  Files are read in pieces of one size,  *)
(* 1024 bytes in the code, of which the last may be shorter.               *)
(***************************************************************************)
EXTENDS Cutting, SequencesExt

CONSTANTS
  Plain,      \* the characters without a meaning of their own
  Backslash,
  Delimiter,  \* the template parameter delimeter
  Newline     \* "\n"; "\r" is treated alike

ASSUME CharacterAssumption ==
  /\ Backslash # Delimiter /\ Backslash # Newline /\ Delimiter # Newline
  /\ {Backslash, Delimiter, Newline} \cap Plain = {}

\* The reader between two characters: data, the columns of the row read so far;
\* stringBuffer; escaped; the rows op was called with; and whether op has been
\* told to stop.  overrun: a column was stored beyond the end of data.
Fresh ==
  [data |-> <<>>, stringBuffer |-> <<>>, escaped |-> FALSE,
   rows |-> <<>>, terminateRead |-> FALSE, overrun |-> FALSE]

NewRow(r) == [r EXCEPT !.data = <<>>, !.stringBuffer = <<>>, !.escaped = FALSE]

\* Mutant: a backslash cannot be escaped.
BackslashAlways(r) == [r EXCEPT !.escaped = TRUE]

\* A backslash escapes the next character, itself included.
ReadBackslash(r) ==
  IF r.escaped
    THEN [r EXCEPT !.stringBuffer = Append(@, Backslash), !.escaped = FALSE]
    ELSE [r EXCEPT !.escaped = TRUE]

EndColumn(r, columns) ==
  [r EXCEPT !.data = Append(@, r.stringBuffer), !.stringBuffer = <<>>,
            !.overrun = @ \/ Len(r.data) >= columns]

\* op is called with the row; find's asks to stop at a row with the key it looks
\* for.  keys: those, none for the op of update and insert.
CallOp(r, keys) ==
  LET row == Append(r.data, r.stringBuffer)
  IN  [r EXCEPT !.rows = Append(@, row), !.terminateRead = @ \/ row[1] \in keys]

\* A newline ends a row, escaped or not; one with too few columns is dropped.
EndRow(r, columns, keys) ==
  NewRow(IF Len(r.data) + 1 = columns THEN CallOp(r, keys) ELSE r)

ReadCharacter(r, c, columns, keys) ==
  CASE c = Backslash -> ReadBackslash(r)
    [] c = Delimiter /\ ~r.escaped -> EndColumn(r, columns)
    [] c = Newline -> EndRow(r, columns, keys)
    [] OTHER -> [r EXCEPT !.stringBuffer = Append(@, c), !.escaped = FALSE]

ReadCharacters(r, piece, columns, keys) ==
  LET after[k \in 0..Len(piece)] ==
        IF k = 0 THEN r ELSE ReadCharacter(after[k - 1], piece[k], columns, keys)
  IN  after[Len(piece)]

\* Mutant: every read starts a row of its own.
ReadPieceAnew(r, piece, columns, keys) ==
  IF r.terminateRead THEN r ELSE ReadCharacters(NewRow(r), piece, columns, keys)

\* One turn of the loop: the characters a read brought, all of them, even when op
\* asks to stop before the last.
ReadPiece(r, piece, columns, keys) ==
  IF r.terminateRead THEN r ELSE ReadCharacters(r, piece, columns, keys)

\* What is left after the last read is a row if it has all the columns, also when
\* op has asked to stop.
LastRow(r, columns, keys) == IF Len(r.data) + 1 = columns THEN CallOp(r, keys) ELSE r

readFromFile(text, size, columns, keys) ==
  LET pieces == Pieces(text, size)
      after[k \in 0..Len(pieces)] ==
        IF k = 0 THEN Fresh ELSE ReadPiece(after[k - 1], pieces[k], columns, keys)
  IN  LastRow(after[Len(pieces)], columns, keys)

\* The last row of the key that op was called with; no row: <<>>.
find(text, size, columns, key) ==
  LET rows == readFromFile(text, size, columns, {key}).rows
      found == {i \in DOMAIN rows : rows[i][1] = key}
  IN  IF found = {} THEN <<>> ELSE rows[Max(found)]

\* The text of a row and of a table as writeToFile writes them.
writeToFile(row) ==
  FlattenSeq([i \in DOMAIN row |-> IF i = 1 THEN row[i] ELSE <<Delimiter>> \o row[i]])
    \o <<Newline>>

Table(rows) == FlattenSeq([i \in DOMAIN rows |-> writeToFile(rows[i])])
=============================================================================
