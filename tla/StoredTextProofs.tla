-------------------------- MODULE StoredTextProofs --------------------------
(* What is written to a file or encoded is read back and decoded, for every  *)
(* table, name, size of a read and run of bytes.                             *)
EXTENDS StoredText, SequenceLemmas

(***************************************************************************)
(* Pieces.                                                                 *)
(***************************************************************************)
\* The smaller of two numbers.
LEMMA MinOfTwo ==
  ASSUME NEW a \in Int, NEW b \in Int
  PROVE  Min({a, b}) = IF a <= b THEN a ELSE b
<1> DEFINE least == IF a <= b THEN a ELSE b
<1>1. least \in {a, b} /\ \A y \in {a, b} : least <= y
  OBVIOUS
<1>2. \A x \in {a, b} : (\A y \in {a, b} : x <= y) => x = least
  OBVIOUS
<1> HIDE DEF least
<1>3. Min({a, b}) = least
  BY <1>1, <1>2 DEF Min
<1> QED BY <1>3 DEF least

\* How many pieces there are: as many as it takes.
LEMMA PieceCount ==
  ASSUME NEW l \in Nat, NEW n \in Nat \ {0}
  PROVE  LET m == (l + n - 1) \div n
         IN  /\ m \in Nat /\ l <= m * n
             /\ \A k \in 1..m : (k - 1) * n \in Nat /\ (k - 1) * n < l /\ k * n = (k - 1) * n + n
<1> DEFINE m == (l + n - 1) \div n
<1>1. l + n - 1 \in Nat
  OBVIOUS
<1>2. m \in Nat /\ m * n <= l + n - 1 /\ l + n - 1 < m * n + n
  <2> DEFINE d == l + n - 1
  <2> HIDE DEF d
  <2>1. d \in Nat => d \div n \in Nat /\ (d \div n) * n <= d /\ d < (d \div n) * n + n
    BY SMT
  <2> QED BY <1>1, <2>1 DEF d
<1> HIDE DEF m
<1>3. m * n \in Nat
  BY <1>2
<1>4. l <= m * n
  BY <1>2, <1>3
<1>5. ASSUME NEW k \in 1..m
      PROVE  (k - 1) * n \in Nat /\ (k - 1) * n < l /\ k * n = (k - 1) * n + n
  <2>1. (k - 1) * n \in Nat /\ k * n \in Nat /\ k * n = (k - 1) * n + n
    BY <1>2
  <2>2. k * n <= m * n
    BY <1>2
  <2> QED BY <1>2, <1>3, <2>1, <2>2
<1> QED BY <1>2, <1>4, <1>5 DEF m

\* p are m pieces of n that s is cut into, one after the other.
CutInto(B, s, n, p, m) ==
  /\ p \in Seq(Seq(B)) /\ Len(p) = m /\ m \in Nat /\ DOMAIN p = 1..m
  /\ PieceEnd(s, n, 0) = 0 /\ PieceEnd(s, n, m) = Len(s)
  /\ \A k \in 1..m :
       /\ PieceEnd(s, n, k - 1) = (k - 1) * n /\ (k - 1) * n \in Nat
       /\ PieceEnd(s, n, k) \in 1..Len(s)
       /\ PieceEnd(s, n, k) = IF (k - 1) * n + n <= Len(s) THEN (k - 1) * n + n ELSE Len(s)
       /\ Len(p[k]) = PieceEnd(s, n, k) - (k - 1) * n
       /\ Len(p[k]) \in 1..n
       /\ \A j \in 1..Len(p[k]) : p[k][j] = s[(k - 1) * n + j]

\* Pieces cuts a sequence: no element is lost, doubled or moved.
LEMMA PiecesProperties ==
  ASSUME NEW B, NEW s \in Seq(B), NEW n \in Nat \ {0}
  PROVE  CutInto(B, s, n, Pieces(s, n), (Len(s) + n - 1) \div n)
<1> DEFINE p == Pieces(s, n)
           l == Len(s)
           m == (l + n - 1) \div n
           End(k) == PieceEnd(s, n, k)
<1>1. l \in Nat /\ \A i \in 1..l : s[i] \in B
  BY LenProperties, ElementOfSeq
<1>2. /\ m \in Nat /\ l <= m * n
      /\ \A k \in 1..m : (k - 1) * n \in Nat /\ (k - 1) * n < l /\ k * n = (k - 1) * n + n
  <2> HIDE DEF l
  <2> QED BY <1>1, PieceCount
<1>3. \A k \in Nat : End(k) = IF k * n <= l THEN k * n ELSE l
  <2> SUFFICES ASSUME NEW k \in Nat PROVE End(k) = IF k * n <= l THEN k * n ELSE l
    OBVIOUS
  <2> DEFINE x == k * n
  <2>1. x \in Int /\ l \in Int
    BY <1>1
  <2> HIDE DEF x, l
  <2>2. Min({x, l}) = IF x <= l THEN x ELSE l
    BY <2>1, MinOfTwo
  <2> QED BY <2>2 DEF x, l, PieceEnd
<1>4. p = [k \in 1..m |-> SubSeq(s, (k - 1) * n + 1, End(k))]
  BY DEF Pieces
<1> HIDE DEF p, l, m, End
<1>5. ASSUME NEW k \in 1..m
      PROVE  /\ End(k - 1) = (k - 1) * n /\ (k - 1) * n \in Nat
             /\ End(k) \in 1..l
             /\ End(k) = IF (k - 1) * n + n <= l THEN (k - 1) * n + n ELSE l
             /\ Len(p[k]) = End(k) - (k - 1) * n
             /\ Len(p[k]) \in 1..n
             /\ \A j \in 1..Len(p[k]) : p[k][j] = s[(k - 1) * n + j]
             /\ p[k] \in Seq(B)
  <2> DEFINE x == (k - 1) * n
  <2>1. x \in Nat /\ x < l /\ k * n = x + n /\ k \in Nat /\ k - 1 \in Nat
    BY <1>2
  <2>2. End(k - 1) = IF x <= l THEN x ELSE l
    BY <1>3, <2>1
  <2>3. End(k) = IF x + n <= l THEN x + n ELSE l
    BY <1>3, <2>1
  <2>4. p[k] = SubSeq(s, x + 1, End(k))
    BY <1>4
  <2> HIDE DEF x
  <2> DEFINE e == End(k)
  <2>5. e \in 1..l /\ x < e /\ e <= x + n
    BY <1>1, <2>1, <2>3
  <2> HIDE DEF e
  <2>6. /\ SubSeq(s, x + 1, e) \in Seq(B)
        /\ Len(SubSeq(s, x + 1, e)) = e - x
        /\ \A j \in 1..(e - x) : SubSeq(s, x + 1, e)[j] = s[x + j]
    <3>1. \A i \in (x + 1)..e : s[i] \in B
      BY <1>1, <2>1, <2>5
    <3>2. /\ SubSeq(s, x + 1, e) \in Seq(B)
          /\ Len(SubSeq(s, x + 1, e)) = IF x + 1 <= e THEN e - (x + 1) + 1 ELSE 0
          /\ \A i \in 1..(e - (x + 1) + 1) : SubSeq(s, x + 1, e)[i] = s[(x + 1) + i - 1]
      BY <2>1, <2>5, <3>1, SubSeqProperties
    <3>3. ASSUME NEW j \in 1..(e - x) PROVE SubSeq(s, x + 1, e)[j] = s[x + j]
      <4>1. j \in 1..(e - (x + 1) + 1) /\ (x + 1) + j - 1 = x + j
        BY <1>1, <2>1, <2>5
      <4> QED BY <3>2, <4>1
    <3>4. (IF x + 1 <= e THEN e - (x + 1) + 1 ELSE 0) = e - x
      BY <2>1, <2>5
    <3> QED BY <3>2, <3>3, <3>4
  <2>7. p[k] \in Seq(B) /\ Len(p[k]) = e - x /\ \A j \in 1..Len(p[k]) : p[k][j] = s[x + j]
    BY <2>4, <2>6 DEF e
  <2>8. e - x \in 1..n
    BY <2>1, <2>5
  <2>9. End(k - 1) = x
    BY <1>1, <2>1, <2>2
  <2> QED BY <2>1, <2>3, <2>5, <2>7, <2>8, <2>9 DEF e, x
<1>6. End(0) = 0 /\ End(m) = l
  <2>1. End(0) = 0
    <3>1. 0 * n = 0
      OBVIOUS
    <3> QED BY <1>1, <1>3, <3>1
  <2>2. m * n \in Nat /\ End(m) = IF m * n <= l THEN m * n ELSE l
    <3>1. m \in Nat
      BY <1>2
    <3>2. m * n \in Nat
      BY <3>1
    <3> QED BY <1>3, <3>1, <3>2, Zenon
  <2> DEFINE x == m * n
  <2> HIDE DEF x
  <2>3. x \in Nat /\ l <= x /\ End(m) = IF x <= l THEN x ELSE l
    BY <1>2, <2>2 DEF x
  <2> QED BY <1>1, <2>1, <2>3
<1>7. p \in [1..m -> Seq(B)]
  BY <1>4, <1>5
<1>8. p \in Seq(Seq(B)) /\ Len(p) = m /\ DOMAIN p = 1..m
  BY <1>2, <1>7, RunOf
<1> QED BY <1>2, <1>5, <1>6, <1>8 DEF CutInto, p, l, m, End

(***************************************************************************)
(* Rows.                                                                   *)
(***************************************************************************)
\* The characters of a file, and what the reader can be between two of them.
FileCharacter == Character \cup {Newline}

Readers ==
  [data : Seq(Seq(Character)), stringBuffer : Seq(Character), escaped : BOOLEAN,
   rows : Seq(Seq(Seq(Character))), terminateRead : BOOLEAN, overrun : BOOLEAN]

\* A character leaves the reader a reader.
LEMMA ReadCharacterType ==
  ASSUME NEW r \in Readers, NEW c \in FileCharacter, NEW width \in Nat, NEW keys
  PROVE  ReadCharacter(r, c, width, keys) \in Readers
<1> DEFINE F == Seq(Character)
           row == Append(r.data, r.stringBuffer)
<1>1. /\ r.data \in Seq(F) /\ r.stringBuffer \in F /\ r.rows \in Seq(Seq(F))
      /\ r.escaped \in BOOLEAN /\ r.terminateRead \in BOOLEAN /\ r.overrun \in BOOLEAN
  BY DEF Readers
<1>2. <<>> \in F /\ <<>> \in Seq(F)
  BY EmptySeq
<1>3. row \in Seq(F)
  <2> HIDE DEF F
  <2> QED BY <1>1, AppendProperties
<1>4. Append(r.rows, row) \in Seq(Seq(F))
  <2> HIDE DEF F, row
  <2> QED BY <1>1, <1>3, AppendProperties
<1>5. \A x \in Character : Append(r.stringBuffer, x) \in F
  BY <1>1, AppendProperties
<1>6. CallOp(r, keys) \in Readers
  BY <1>1, <1>4 DEF CallOp, Readers
<1>7. \A q \in Readers : NewRow(q) \in Readers
  BY <1>2 DEF NewRow, Readers
<1>8. Backslash \in Character /\ (c # Newline => c \in Character)
  BY DEF FileCharacter, Character
<1>9. ReadBackslash(r) \in Readers
  BY <1>1, <1>5, <1>8 DEF ReadBackslash, Readers
<1>10. EndColumn(r, width) \in Readers
  BY <1>1, <1>2, <1>3 DEF EndColumn, Readers
<1>11. EndRow(r, width, keys) \in Readers
  BY <1>6, <1>7 DEF EndRow
<1>12. c # Newline => [r EXCEPT !.stringBuffer = Append(@, c), !.escaped = FALSE] \in Readers
  BY <1>1, <1>5, <1>8 DEF Readers
<1> HIDE DEF F, row
<1> QED BY <1>9, <1>10, <1>11, <1>12 DEF ReadCharacter

\* f[k] is the reader after k characters of the text.
Reads(f, text, width, keys) ==
  /\ f \in [0..Len(text) -> Readers] /\ f[0] = Fresh
  /\ \A k \in 1..Len(text) : f[k] = ReadCharacter(f[k - 1], text[k], width, keys)

\* Every text is read to some end.
LEMMA ReadsExist ==
  ASSUME NEW text \in Seq(FileCharacter), NEW width \in Nat, NEW keys
  PROVE  \E f : Reads(f, text, width, keys)
<1> DEFINE m == Len(text)
           step == [k \in 1..m |-> [r \in Readers |-> ReadCharacter(r, text[k], width, keys)]]
<1>1. m \in Nat /\ \A k \in 1..m : text[k] \in FileCharacter
  BY LenProperties, ElementOfSeq
<1>2. Fresh \in Readers
  <2>1. \A S : <<>> \in Seq(S)
    BY EmptySeq
  <2> QED BY <2>1, Zenon DEF Fresh, Readers
<1>3. step \in Steps(m, Readers)
  <2>1. \A k \in 1..m : \A r \in Readers : ReadCharacter(r, text[k], width, keys) \in Readers
    BY <1>1, ReadCharacterType
  <2> HIDE DEF m
  <2> QED BY <2>1 DEF Steps
<1> HIDE DEF m, step
<1>4. PICK f \in [0..m -> Readers] : f[0] = Fresh /\ \A k \in 1..m : f[k] = step[k][f[k - 1]]
  <2> DEFINE S == Readers
             a == Fresh
  <2>1. m \in Nat /\ a \in S /\ step \in Steps(m, S)
    BY <1>1, <1>2, <1>3
  <2> HIDE DEF S, a
  <2>2. \E f \in [0..m -> S] : f[0] = a /\ \A k \in 1..m : f[k] = step[k][f[k - 1]]
    BY <2>1, FunctionByRecursion
  <2> QED BY <2>2 DEF S, a
<1>5. ASSUME NEW k \in 1..m PROVE f[k] = ReadCharacter(f[k - 1], text[k], width, keys)
  <2>1. f[k - 1] \in Readers
    BY <1>1, <1>4
  <2> QED BY <1>4, <2>1, Zenon DEF step
<1> QED BY <1>4, <1>5, Zenon DEF Reads, m

\* The loop over a piece of the text goes on as the loop over the text does.
LEMMA PieceIsRead ==
  ASSUME NEW text \in Seq(FileCharacter), NEW width, NEW keys, NEW f,
         Reads(f, text, width, keys), NEW x \in Nat, NEW piece \in Seq(FileCharacter),
         x + Len(piece) <= Len(text), \A j \in 1..Len(piece) : piece[j] = text[x + j]
  PROVE  ReadCharacters(f[x], piece, width, keys) = f[x + Len(piece)]
<1> DEFINE n == Len(piece)
           a == f[x]
           g == [k \in 0..n |-> f[x + k]]
           Runs(h) == h = [k \in 0..n |-> IF k = 0 THEN a
                                          ELSE ReadCharacter(h[k - 1], piece[k], width, keys)]
           after == CHOOSE h : Runs(h)
<1>1. n \in Nat /\ Len(text) \in Nat
  BY LenProperties
<1>2. ReadCharacters(a, piece, width, keys) = after[n]
  BY Zenon DEF ReadCharacters
<1>3. ASSUME NEW k \in 1..n PROVE g[k] = ReadCharacter(g[k - 1], piece[k], width, keys)
  <2>1. x + k \in 1..Len(text) /\ (x + k) - 1 = x + (k - 1) /\ k \in 0..n /\ k - 1 \in 0..n
    BY <1>1
  <2>2. f[x + k] = ReadCharacter(f[(x + k) - 1], text[x + k], width, keys)
    BY <2>1, Zenon DEF Reads
  <2>3. g[k] = f[x + k] /\ g[k - 1] = f[x + (k - 1)] /\ piece[k] = text[x + k]
    BY <2>1
  <2> HIDE DEF g
  <2> QED BY <2>1, <2>2, <2>3, Zenon
<1>4. g[0] = a
  <2>1. 0 \in 0..n /\ x + 0 = x
    BY <1>1
  <2> HIDE DEF n
  <2> QED BY <2>1, Zenon
<1> HIDE DEF a
<1>5. Runs(g)
  <2>1. ASSUME NEW k \in 0..n
        PROVE  f[x + k] = IF k = 0 THEN a ELSE ReadCharacter(g[k - 1], piece[k], width, keys)
    <3>1. (k = 0 \/ k \in 1..n) /\ g[k] = f[x + k]
      BY <1>1
    <3> HIDE DEF g, n
    <3> QED BY <1>3, <1>4, <3>1, Zenon
  <2> HIDE DEF n
  <2> QED BY <2>1, Zenon
<1>6. Runs(after)
  BY <1>5, Zenon
<1> HIDE DEF after, g
<1>7. Alike(after, g, n)
  <2>1. after[0] = g[0]
    BY <1>1, <1>4, <1>6
  <2>2. ASSUME NEW k \in 1..n, after[k - 1] = g[k - 1] PROVE after[k] = g[k]
    <3>1. k \in 0..n /\ k # 0
      BY <1>1
    <3> HIDE DEF n
    <3>2. after[k] = ReadCharacter(after[k - 1], piece[k], width, keys)
      BY <1>6, <3>1, Zenon
    <3> QED BY <1>3, <2>2, <3>2, Zenon
  <2> QED BY <2>1, <2>2, Zenon DEF Alike
<1> HIDE DEF n, Runs
<1>8. after[n] = g[n] /\ n \in 0..n
  BY <1>1, <1>7, SameRecursion
<1>9. g[n] = f[x + n]
  BY <1>8 DEF g
<1> QED BY <1>2, <1>8, <1>9 DEF a, n

\* However the text is cut, the reader is where the loop over all the text is at
\* some place: at the end, or where op has asked to stop.
LEMMA StopsSomewhere ==
  ASSUME NEW text \in Seq(FileCharacter), NEW size \in Nat \ {0}, NEW width, NEW keys,
         NEW f, Reads(f, text, width, keys)
  PROVE  \E p \in 0..Len(text) :
           /\ readFromFile(text, size, width, keys) = LastRow(f[p], width, keys)
           /\ p = Len(text) \/ f[p].terminateRead
<1> DEFINE pieces == Pieces(text, size)
           m == (Len(text) + size - 1) \div size
           End(k) == PieceEnd(text, size, k)
           l == Len(text)
           step == [k \in 1..m |-> [p \in 0..l |-> IF f[p].terminateRead THEN p ELSE End(k)]]
<1>1. CutInto(FileCharacter, text, size, pieces, m)
  BY PiecesProperties
<1> HIDE DEF m, pieces
<1>2. l \in Nat /\ m \in Nat /\ End(0) = 0 /\ End(m) = l /\ Len(pieces) = m
  BY <1>1, LenProperties DEF CutInto
<1>3. ASSUME NEW k \in 1..m
      PROVE  /\ End(k) \in 0..l /\ pieces[k] \in Seq(FileCharacter)
             /\ ReadCharacters(f[End(k - 1)], pieces[k], width, keys) = f[End(k)]
  <2> DEFINE x == (k - 1) * size
             e == End(k)
             piece == pieces[k]
  <2>1. /\ End(k - 1) = x /\ x \in Nat /\ e \in 1..l
        /\ Len(piece) = e - x
        /\ \A j \in 1..Len(piece) : piece[j] = text[x + j]
    BY <1>1, Zenon DEF CutInto
  <2>2. piece \in Seq(FileCharacter)
    BY <1>1, ElementOfSeq DEF CutInto
  <2> HIDE DEF x, e, piece
  <2>3. x + Len(piece) = e /\ e <= l /\ e \in 0..l
    BY <1>2, <2>1
  <2>4. ReadCharacters(f[x], piece, width, keys) = f[x + Len(piece)]
    <3>1. x + Len(piece) <= Len(text)
      BY <2>3 DEF l
    <3>2. x \in Nat /\ \A j \in 1..Len(piece) : piece[j] = text[x + j]
      BY <2>1
    <3>3. Reads(f, text, width, keys)
      OBVIOUS
    <3> QED BY <2>2, <3>1, <3>2, <3>3, PieceIsRead, SMTT(60)
  <2> QED BY <2>1, <2>2, <2>3, <2>4, Zenon DEF e, piece
<1> HIDE DEF l, End
<1>4. step \in Steps(m, 0..l)
  BY <1>3 DEF Steps
<1>5. PICK pos \in [0..m -> 0..l] : pos[0] = 0 /\ \A k \in 1..m : pos[k] = step[k][pos[k - 1]]
  <2> DEFINE S == 0..l
  <2>1. 0 \in S /\ step \in Steps(m, S)
    BY <1>2, <1>4
  <2> HIDE DEF S, step
  <2>2. \E pos \in [0..m -> S] : pos[0] = 0 /\ \A k \in 1..m : pos[k] = step[k][pos[k - 1]]
    BY <1>2, <2>1, FunctionByRecursion
  <2> QED BY <2>2 DEF S
<1>6. ASSUME NEW k \in 1..m
      PROVE  pos[k - 1] \in 0..l /\ pos[k] = IF f[pos[k - 1]].terminateRead THEN pos[k - 1] ELSE End(k)
  <2>1. pos[k - 1] \in 0..l
    BY <1>2, <1>5
  <2> QED BY <1>5, <2>1, Zenon
<1> HIDE DEF step
<1> DEFINE T == {k \in Nat : k <= m => pos[k] = End(k) \/ f[pos[k]].terminateRead}
<1>7. ASSUME NEW k \in Nat PROVE k \in T
  <2>1. 0 \in T
    BY <1>2, <1>5
  <2>2. ASSUME NEW j \in Nat, j \in T PROVE j + 1 \in T
    <3> SUFFICES ASSUME j + 1 <= m
                 PROVE  pos[j + 1] = End(j + 1) \/ f[pos[j + 1]].terminateRead
      OBVIOUS
    <3>1. j + 1 \in 1..m /\ (j + 1) - 1 = j
      BY <1>2
    <3> QED BY <1>6, <3>1
  <2> HIDE DEF T
  <2> QED BY <2>1, <2>2, NatSetInduction
<1> DEFINE g == [k \in 0..m |-> f[pos[k]]]
           Runs(h) == h = [k \in 0..m |-> IF k = 0 THEN Fresh
                                          ELSE ReadPiece(h[k - 1], pieces[k], width, keys)]
           after == CHOOSE h : Runs(h)
<1>8. readFromFile(text, size, width, keys) = LastRow(after[m], width, keys)
  BY <1>2, Zenon DEF readFromFile, pieces
<1>9. g[0] = Fresh
  <2>1. 0 \in 0..m
    BY <1>2
  <2> QED BY <1>5, <2>1, Zenon DEF Reads
<1>10. ASSUME NEW k \in 1..m PROVE g[k] = ReadPiece(g[k - 1], pieces[k], width, keys)
  <2>1. k \in 0..m /\ k - 1 \in 0..m /\ k - 1 \in Nat /\ k - 1 <= m
    BY <1>2
  <2>2. g[k] = f[pos[k]] /\ g[k - 1] = f[pos[k - 1]]
    BY <2>1, Zenon
  <2>3. pos[k - 1] = End(k - 1) \/ f[pos[k - 1]].terminateRead
    BY <1>7, <2>1
  <2> HIDE DEF g
  <2>4. CASE f[pos[k - 1]].terminateRead
    BY <1>6, <2>2, <2>4, Zenon DEF ReadPiece
  <2>5. CASE ~f[pos[k - 1]].terminateRead
    <3>1. pos[k] = End(k) /\ pos[k - 1] = End(k - 1)
      BY <1>6, <2>3, <2>5, Zenon
    <3>2. ReadPiece(g[k - 1], pieces[k], width, keys)
            = ReadCharacters(g[k - 1], pieces[k], width, keys)
      BY <2>2, <2>5, Zenon DEF ReadPiece
    <3> QED BY <1>3, <2>2, <3>1, <3>2, Zenon
  <2> QED BY <2>4, <2>5
<1>11. Runs(g)
  <2>1. ASSUME NEW k \in 0..m
        PROVE  f[pos[k]] = IF k = 0 THEN Fresh ELSE ReadPiece(g[k - 1], pieces[k], width, keys)
    <3>1. (k = 0 \/ k \in 1..m) /\ g[k] = f[pos[k]]
      BY <1>2
    <3> HIDE DEF g
    <3> QED BY <1>9, <1>10, <3>1, Zenon
  <2> QED BY <2>1, Zenon
<1>12. Runs(after)
  BY <1>11, Zenon
<1> HIDE DEF after, g
<1>13. Alike(after, g, m)
  <2>1. after[0] = g[0]
    BY <1>2, <1>9, <1>12
  <2>2. ASSUME NEW k \in 1..m, after[k - 1] = g[k - 1] PROVE after[k] = g[k]
    <3>1. k \in 0..m /\ k # 0
      BY <1>2
    <3>2. after[k] = ReadPiece(after[k - 1], pieces[k], width, keys)
      BY <1>12, <3>1, Zenon
    <3> QED BY <1>10, <2>2, <3>2, Zenon
  <2> QED BY <2>1, <2>2, Zenon DEF Alike
<1> HIDE DEF Runs
<1>14. after[m] = f[pos[m]] /\ pos[m] \in 0..l
  <2>1. m \in 0..m /\ after[m] = g[m]
    BY <1>2, <1>13, SameRecursion
  <2> QED BY <1>5, <2>1 DEF g
<1>15. pos[m] = l \/ f[pos[m]].terminateRead
  <2>1. m \in T
    BY <1>2, <1>7, Zenon
  <2> QED BY <1>2, <2>1
<1> QED BY <1>8, <1>14, <1>15, Zenon DEF l

\* The texts that a field, a row and the table are joined from.
CharacterTexts(field) == [i \in DOMAIN field |-> EscapedCharacter(field[i])]

ColumnTexts(row) ==
  [i \in DOMAIN row |-> IF i = 1 THEN Escaped(row[i]) ELSE <<Delimiter>> \o Escaped(row[i])]

RowTexts == [i \in DOMAIN table |-> writeToFile(EscapedRow(table[i]))]

\* What is left of their text after some characters, columns and rows.
FieldRest(field, n) == FlattenSeq(Dropped(CharacterTexts(field), n))

RowRest(row, c) == FlattenSeq(Dropped(ColumnTexts(row), c)) \o <<Newline>>

TableRest(m) == FlattenSeq(Dropped(RowTexts, m))

\* The text of a field, from its first character to its last.
LEMMA FieldText ==
  ASSUME NEW field \in Seq(Character)
  PROVE  /\ FieldRest(field, 0) = Escaped(field) /\ FieldRest(field, Len(field)) = <<>>
         /\ \A n \in Nat : FieldRest(field, n) \in Seq(FileCharacter)
         /\ \A n \in Nat : n < Len(field) =>
              /\ field[n + 1] \in Character
              /\ FieldRest(field, n) = EscapedCharacter(field[n + 1]) \o FieldRest(field, n + 1)
<1> DEFINE texts == CharacterTexts(field)
           l == Len(field)
<1>1. l \in Nat /\ DOMAIN field = 1..l /\ \A i \in 1..l : field[i] \in Character
  BY LenProperties, ElementOfSeq
<1>2. \A c \in Character : EscapedCharacter(c) \in Seq(FileCharacter)
  <2>1. \A x \in FileCharacter, y \in FileCharacter :
          <<x>> \in Seq(FileCharacter) /\ <<x, y>> \in Seq(FileCharacter)
    OBVIOUS
  <2>2. Backslash \in FileCharacter /\ \A c \in Character : c \in FileCharacter
    BY DEF FileCharacter, Character
  <2> QED BY <2>1, <2>2, Zenon DEF EscapedCharacter
<1>3. texts \in [1..l -> Seq(FileCharacter)]
  BY <1>1, <1>2 DEF CharacterTexts
<1>4. \A i \in 1..l : texts[i] = EscapedCharacter(field[i])
  BY <1>1 DEF CharacterTexts
<1>5. Escaped(field) = FlattenSeq(texts)
  BY Zenon DEF Escaped, CharacterTexts
<1> HIDE DEF texts
<1>6. texts \in Seq(Seq(FileCharacter)) /\ Len(texts) = l
  <2> DEFINE S == Seq(FileCharacter)
  <2> HIDE DEF S, l
  <2>1. texts \in [1..l -> S]
    BY <1>3 DEF S
  <2>2. texts \in Seq(S) /\ Len(texts) = l
    BY <1>1, <2>1, RunOf
  <2> QED BY <2>2 DEF S
<1>7. /\ FlattenSeq(Dropped(texts, 0)) = FlattenSeq(texts)
      /\ FlattenSeq(Dropped(texts, Len(texts))) = <<>>
      /\ \A n \in Nat : FlattenSeq(Dropped(texts, n)) \in Seq(FileCharacter)
      /\ \A n \in Nat : n < Len(texts) =>
              FlattenSeq(Dropped(texts, n)) = texts[n + 1] \o FlattenSeq(Dropped(texts, n + 1))
  BY <1>6, FlattenDropped
<1>8. \A n \in Nat : FieldRest(field, n) = FlattenSeq(Dropped(texts, n))
  BY Zenon DEF FieldRest, texts
<1>9. \A n \in Nat : n < l => n + 1 \in 1..l /\ n + 1 \in Nat
  BY <1>1
<1> HIDE DEF l
<1>10. FieldRest(field, 0) = Escaped(field) /\ FieldRest(field, l) = <<>>
  <2>1. 0 \in Nat
    OBVIOUS
  <2> QED BY <1>1, <1>5, <1>6, <1>7, <1>8, <2>1, Zenon
<1>11. ASSUME NEW n \in Nat, n < l
       PROVE  /\ field[n + 1] \in Character
              /\ FieldRest(field, n) = EscapedCharacter(field[n + 1]) \o FieldRest(field, n + 1)
  BY <1>1, <1>4, <1>6, <1>7, <1>8, <1>9, <1>11, Zenon
<1>12. \A n \in Nat : FieldRest(field, n) \in Seq(FileCharacter)
  BY <1>7, <1>8, Zenon
<1> QED BY <1>10, <1>11, <1>12 DEF l

\* A row of the table.
Row == [1..columns -> Seq(Character)]

\* The text of a row, from its first column to its newline.
LEMMA RowText ==
  ASSUME InputOK, NEW row \in Row
  PROVE  /\ writeToFile(EscapedRow(row)) = Escaped(row[1]) \o RowRest(row, 1)
         /\ writeToFile(EscapedRow(row)) \in Seq(FileCharacter)
         /\ RowRest(row, columns) = <<Newline>>
         /\ \A c \in Nat : RowRest(row, c) \in Seq(FileCharacter)
         /\ \A c \in 1..columns : c < columns =>
              RowRest(row, c) = <<Delimiter>> \o (Escaped(row[c + 1]) \o RowRest(row, c + 1))
<1> DEFINE texts == ColumnTexts(row)
           F == Seq(FileCharacter)
           E(i) == Escaped(row[i])
           Rest(c) == FlattenSeq(Dropped(texts, c))
           newline == <<Newline>>
           delimiter == <<Delimiter>>
<1>1. columns \in Nat \ {0} /\ 1 \in 1..columns /\ DOMAIN row = 1..columns
  BY DEF InputOK, Row
<1>2. \A i \in 1..columns : E(i) \in F
  <2>1. \A field \in Seq(Character) : Escaped(field) \in F
    <3> SUFFICES ASSUME NEW field \in Seq(Character) PROVE Escaped(field) \in F
      OBVIOUS
    <3>1. 0 \in Nat
      OBVIOUS
    <3> QED BY <3>1, FieldText, Zenon
  <2> QED BY <2>1 DEF Row
<1>3. newline \in F /\ delimiter \in F
  BY DEF FileCharacter, Character
<1>4. \A x, y, z \in F : x \o y \in F /\ (x \o y) \o z = x \o (y \o z)
  <2>1. \A x, y, z \in F : (x \o y) \o z = x \o (y \o z)
    BY ConcatAssociates DEF Associative
  <2>2. \A x, y \in F : x \o y \in F
    BY ConcatProperties
  <2> HIDE DEF F
  <2> QED BY <2>1, <2>2
<1>4a. \A x, y \in F : (x \o y) \o newline = x \o (y \o newline)
  <2> HIDE DEF F, newline
  <2>1. newline \in F
    BY <1>3
  <2>2. \A x, y, z \in F : (x \o y) \o z = x \o (y \o z)
    BY <1>4
  <2>3. ASSUME NEW x \in F, NEW y \in F PROVE (x \o y) \o newline = x \o (y \o newline)
    BY <2>1, <2>2, <2>3, Zenon
  <2> QED BY <2>3
<1>5. \A i \in 1..columns : texts[i] = IF i = 1 THEN E(i) ELSE delimiter \o E(i)
  BY <1>1 DEF ColumnTexts
<1>6. texts \in [1..columns -> F]
  <2> HIDE DEF F, E, delimiter, newline
  <2>1. \A i \in 1..columns : (IF i = 1 THEN E(i) ELSE delimiter \o E(i)) \in F
    BY <1>2, <1>3, <1>4
  <2>2. texts = [i \in 1..columns |-> IF i = 1 THEN E(i) ELSE delimiter \o E(i)]
    BY <1>1, Zenon DEF ColumnTexts, E, delimiter
  <2> QED BY <2>1, <2>2
<1>7. writeToFile(EscapedRow(row)) = FlattenSeq(texts) \o newline
  <2>1. EscapedRow(row) = [k \in 1..columns |-> E(k)] /\ DOMAIN EscapedRow(row) = 1..columns
    BY <1>1 DEF EscapedRow
  <2>2. [i \in DOMAIN EscapedRow(row) |->
           IF i = 1 THEN EscapedRow(row)[i] ELSE <<Delimiter>> \o EscapedRow(row)[i]] = texts
    <3> DEFINE w == EscapedRow(row)
    <3>1. DOMAIN w = 1..columns /\ \A i \in 1..columns : w[i] = E(i)
      BY <2>1
    <3> HIDE DEF w, E
    <3>2. [i \in DOMAIN w |-> IF i = 1 THEN w[i] ELSE <<Delimiter>> \o w[i]]
            = [i \in 1..columns |-> IF i = 1 THEN E(i) ELSE <<Delimiter>> \o E(i)]
      BY <3>1
    <3> QED BY <1>1, <3>2, Zenon DEF w, E, ColumnTexts
  <2> QED BY <2>2, Zenon DEF writeToFile
<1> HIDE DEF texts, E, F, newline, delimiter
<1>8. texts \in Seq(F) /\ Len(texts) = columns
  BY <1>1, <1>6, RunOf
<1>9. /\ Rest(0) = FlattenSeq(texts) /\ Rest(columns) = <<>>
      /\ \A n \in Nat : Rest(n) \in F
      /\ \A n \in Nat : n < columns => Rest(n) = texts[n + 1] \o Rest(n + 1)
  <2>1. texts \in Seq(Seq(FileCharacter))
    BY <1>8 DEF F
  <2> QED BY <1>8, <2>1, FlattenDropped DEF F
<1>10. \A c \in Nat : RowRest(row, c) = Rest(c) \o newline /\ RowRest(row, c) \in F
  <2>1. \A c \in Nat : RowRest(row, c) = Rest(c) \o newline
    BY Zenon DEF RowRest, newline, texts
  <2>2. ASSUME NEW c \in Nat PROVE Rest(c) \o newline \in F
    <3> DEFINE s == Rest(c)
    <3>1. s \in F
      BY <1>9
    <3> HIDE DEF s
    <3>2. s \o newline \in F
      BY <1>3, <1>4, <3>1
    <3> QED BY <3>2 DEF s
  <2> QED BY <2>1, <2>2
<1> HIDE DEF Rest
<1>11. writeToFile(EscapedRow(row)) = E(1) \o RowRest(row, 1)
  <2>1. Rest(0) = texts[0 + 1] \o Rest(0 + 1) /\ 0 + 1 = 1 /\ 1 \in Nat
    <3>1. 0 \in Nat /\ 0 < columns /\ 0 + 1 = 1 /\ 1 \in Nat
      BY <1>1
    <3> QED BY <1>9, <3>1, Zenon
  <2>2. texts[1] = E(1) /\ E(1) \in F /\ Rest(1) \in F
    BY <1>1, <1>2, <1>5, <1>9, <2>1
  <2>3. FlattenSeq(texts) = E(1) \o Rest(1)
    BY <1>9, <2>1, <2>2
  <2>4. (E(1) \o Rest(1)) \o newline = E(1) \o (Rest(1) \o newline)
    <3> DEFINE e == E(1)
               s == Rest(1)
    <3>1. e \in F /\ s \in F
      BY <2>2
    <3> HIDE DEF e, s
    <3>2. (e \o s) \o newline = e \o (s \o newline)
      BY <1>4a, <3>1, Zenon
    <3> QED BY <3>2 DEF e, s
  <2>5. RowRest(row, 1) = Rest(1) \o newline
    BY <1>10, <2>1, Zenon
  <2> QED BY <1>7, <2>3, <2>4, <2>5, Zenon
<1>12. RowRest(row, columns) = newline
  <2>1. <<>> \o newline = newline
    BY <1>3, ConcatEmptySeq DEF F
  <2> QED BY <1>1, <1>9, <1>10, <2>1
<1>13. ASSUME NEW c \in 1..columns, c < columns
       PROVE  RowRest(row, c) = delimiter \o (E(c + 1) \o RowRest(row, c + 1))
  <2>1. c \in Nat /\ c + 1 \in 1..columns /\ c + 1 # 1 /\ c + 1 \in Nat
    BY <1>1, <1>13
  <2>2. Rest(c) = texts[c + 1] \o Rest(c + 1) /\ texts[c + 1] = delimiter \o E(c + 1)
    BY <1>5, <1>9, <1>13, <2>1
  <2>3. E(c + 1) \in F /\ Rest(c + 1) \in F
    BY <1>2, <1>9, <2>1
  <2> DEFINE e == E(c + 1)
             s == Rest(c + 1)
  <2> HIDE DEF e, s
  <2>4. ((delimiter \o e) \o s) \o newline = delimiter \o (e \o (s \o newline))
    <3>1. e \in F /\ s \in F
      BY <2>3 DEF e, s
    <3>2. ((delimiter \o e) \o s) = delimiter \o (e \o s)
      BY <1>3, <1>4, <3>1, Zenon
    <3>3. e \o s \in F
      BY <1>4, <3>1
    <3>4. (delimiter \o (e \o s)) \o newline = delimiter \o ((e \o s) \o newline)
      BY <1>3, <1>4a, <3>3, Zenon
    <3>5. (e \o s) \o newline = e \o (s \o newline)
      BY <1>4a, <3>1, Zenon
    <3> QED BY <3>2, <3>4, <3>5, Zenon
  <2> QED BY <1>10, <2>1, <2>2, <2>4, Zenon DEF e, s
<1>14. writeToFile(EscapedRow(row)) \in F
  <2>1. 1 \in Nat
    OBVIOUS
  <2>2. E(1) \in F /\ RowRest(row, 1) \in F
    BY <1>1, <1>2, <1>10, <2>1, Zenon
  <2>3. E(1) \o RowRest(row, 1) \in F
    BY <1>4, <2>2, Zenon
  <2> QED BY <1>11, <2>3, Zenon
<1> QED BY <1>10, <1>11, <1>12, <1>13, <1>14 DEF F, E, newline, delimiter

\* The text of the table, from its first row to its last.
LEMMA TableText ==
  ASSUME InputOK
  PROVE  /\ Table(EscapedRows) = TableRest(0) /\ TableRest(Len(table)) = <<>>
         /\ \A m \in Nat : TableRest(m) \in Seq(FileCharacter)
         /\ \A m \in Nat : m < Len(table) =>
              /\ table[m + 1] \in Row
              /\ TableRest(m) = (Escaped(table[m + 1][1]) \o RowRest(table[m + 1], 1)) \o TableRest(m + 1)
<1> DEFINE l == Len(table)
           texts == RowTexts
           F == Seq(FileCharacter)
           Text(i) == writeToFile(EscapedRow(table[i]))
<1>1. table \in Seq(Row) /\ l \in Nat /\ DOMAIN table = 1..l /\ \A i \in 1..l : table[i] \in Row
  BY LenProperties, ElementOfSeq DEF InputOK, Row
<1>2. \A i \in 1..l : Text(i) \in F /\ Text(i) = Escaped(table[i][1]) \o RowRest(table[i], 1)
  BY <1>1, RowText
<1>3. texts = [i \in 1..l |-> Text(i)]
  BY <1>1, Zenon DEF RowTexts
<1>4. Table(EscapedRows) = FlattenSeq(texts)
  <2>1. EscapedRows = [i \in 1..l |-> EscapedRow(table[i])]
    BY <1>1, Zenon DEF EscapedRows
  <2> DEFINE w == EscapedRows
  <2>2. DOMAIN w = 1..l /\ \A i \in 1..l : w[i] = EscapedRow(table[i])
    BY <2>1
  <2> HIDE DEF w
  <2>3. [i \in DOMAIN w |-> writeToFile(w[i])] = [i \in 1..l |-> Text(i)]
    BY <2>2
  <2> QED BY <1>3, <2>3, Zenon DEF Table, w
<1> HIDE DEF texts, Text, F, l
<1>5. texts \in Seq(F) /\ Len(texts) = l /\ \A i \in 1..l : texts[i] = Text(i)
  <2>1. texts \in [1..l -> F]
    BY <1>2, <1>3
  <2> QED BY <1>1, <1>3, <2>1, RunOf
<1>6. /\ FlattenSeq(Dropped(texts, 0)) = FlattenSeq(texts)
      /\ FlattenSeq(Dropped(texts, l)) = <<>>
      /\ \A n \in Nat : FlattenSeq(Dropped(texts, n)) \in F
      /\ \A n \in Nat : n < l =>
           FlattenSeq(Dropped(texts, n)) = texts[n + 1] \o FlattenSeq(Dropped(texts, n + 1))
  <2>1. texts \in Seq(Seq(FileCharacter))
    BY <1>5 DEF F
  <2> QED BY <1>5, <2>1, FlattenDropped DEF F
<1>7. \A n \in Nat : TableRest(n) = FlattenSeq(Dropped(texts, n))
  BY Zenon DEF TableRest, texts
<1>8. Table(EscapedRows) = TableRest(0) /\ TableRest(l) = <<>>
  <2>1. 0 \in Nat
    OBVIOUS
  <2> QED BY <1>1, <1>4, <1>6, <1>7, <2>1, Zenon
<1>9. ASSUME NEW m \in Nat, m < l
      PROVE  /\ table[m + 1] \in Row
             /\ TableRest(m) = (Escaped(table[m + 1][1]) \o RowRest(table[m + 1], 1)) \o TableRest(m + 1)
  <2>1. m + 1 \in 1..l /\ m + 1 \in Nat
    BY <1>1, <1>9
  <2> QED BY <1>1, <1>2, <1>5, <1>6, <1>7, <1>9, <2>1, Zenon
<1>10. \A m \in Nat : TableRest(m) \in F
  BY <1>6, <1>7, Zenon
<1> QED BY <1>8, <1>9, <1>10 DEF F, l

\* The reader is in a field: some of its characters are read, and if escaped the
\* backslash that was written before the next one.  rest: what is left of the
\* file; after: what comes after the field.
InField(r, field, rest, after) ==
  \E n \in 0..Len(field) :
    /\ r.stringBuffer = Taken(field, n)
    /\ \/ ~r.escaped /\ rest = FieldRest(field, n) \o after
       \/ /\ r.escaped /\ n < Len(field) /\ field[n + 1] \in {Backslash, Delimiter}
          /\ rest = <<field[n + 1]>> \o (FieldRest(field, n + 1) \o after)

\* The reader is in a row, some of whose columns are read.
InRow(r, row, rest, after) ==
  \E c \in 1..columns :
    /\ r.data = Taken(row, c - 1)
    /\ InField(r, row[c], rest, RowRest(row, c) \o after)

\* What r is told of by ops does not change.
SameRows(r, q) ==
  /\ q.rows = r.rows /\ q.terminateRead = r.terminateRead /\ q.overrun = r.overrun

\* The next character is one of the field.
FieldGoesOn(r, field, rest, after, keys) ==
  \E ch \in FileCharacter, rest2 \in Seq(FileCharacter) :
    LET q == ReadCharacter(r, ch, columns, keys)
    IN  /\ rest = <<ch>> \o rest2 /\ InField(q, field, rest2, after)
        /\ q.data = r.data /\ SameRows(r, q)

\* A field ends, or the reader goes on in it.
LEMMA FieldStep ==
  ASSUME NEW r \in Readers, NEW field \in Seq(Character), NEW rest,
         NEW after \in Seq(FileCharacter), NEW keys, InField(r, field, rest, after)
  PROVE  \/ ~r.escaped /\ r.stringBuffer = field /\ rest = after
         \/ FieldGoesOn(r, field, rest, after, keys)
<1> DEFINE F == Seq(FileCharacter)
           l == Len(field)
           Rest(n) == FieldRest(field, n)
<1>1. PICK n \in 0..l :
        /\ r.stringBuffer = Taken(field, n)
        /\ \/ ~r.escaped /\ rest = Rest(n) \o after
           \/ /\ r.escaped /\ n < l /\ field[n + 1] \in {Backslash, Delimiter}
              /\ rest = <<field[n + 1]>> \o (Rest(n + 1) \o after)
  BY DEF InField
<1>2. /\ l \in Nat /\ n \in Nat /\ n + 1 \in Nat /\ after \in F
      /\ n < l => n + 1 \in 0..l
  BY LenProperties
<1>3. /\ Rest(l) = <<>> /\ \A i \in Nat : Rest(i) \in F
      /\ n < l => field[n + 1] \in Character /\ Rest(n) = EscapedCharacter(field[n + 1]) \o Rest(n + 1)
  BY <1>2, FieldText
<1>4. /\ Taken(field, l) = field
      /\ n < l => Append(Taken(field, n), field[n + 1]) = Taken(field, n + 1)
  BY TakenNext
<1>5. Backslash # Delimiter /\ Backslash # Newline /\ Delimiter # Newline /\ \A x \in Character : x # Newline
  BY CharacterAssumption DEF Character
<1>6. \A x \in Character : x \in FileCharacter
  BY DEF FileCharacter
<1>7. \A s, t \in F : s \o t \in F /\ (s \o t) \o after = s \o (t \o after)
  <2>1. Associative(FileCharacter)
    BY ConcatAssociates
  <2> QED BY <2>1, ConcatProperties DEF Associative
<1>8. \A x \in FileCharacter : <<x>> \in F
  OBVIOUS
<1> DEFINE x == field[n + 1]
           rest2 == Rest(n + 1) \o after
           Next(ch) == ReadCharacter(r, ch, columns, keys)
<1>9. n < l => x \in Character /\ x \in FileCharacter /\ x # Newline /\ rest2 \in F
               /\ Rest(n) = EscapedCharacter(x) \o Rest(n + 1) /\ Rest(n + 1) \in F
  <2>1. Rest(n + 1) \in F
    BY <1>2, <1>3
  <2>2. rest2 \in F
    <3> DEFINE s == Rest(n + 1)
    <3>1. s \in F
      BY <2>1
    <3> HIDE DEF s, F
    <3>2. s \o after \in F
      BY <1>2, <1>7, <3>1, Zenon
    <3> QED BY <3>2 DEF s
  <2> HIDE DEF rest2, F, Rest
  <2> QED BY <1>3, <1>5, <1>6, <2>1, <2>2
<1>10. r.stringBuffer \in Seq(Character) /\ r.escaped \in BOOLEAN /\ r = [r EXCEPT !.data = @]
  BY DEF Readers
<1>11. CASE r.escaped
  <2>1. n < l /\ rest = <<x>> \o rest2 /\ x \in {Backslash, Delimiter}
    BY <1>1, <1>11
  <2> DEFINE q == Next(x)
  <2>2. q = [r EXCEPT !.stringBuffer = Append(@, x), !.escaped = FALSE]
    <3>1. CASE x = Backslash
      BY <1>5, <1>11, <3>1 DEF ReadCharacter, ReadBackslash
    <3>2. CASE x = Delimiter
      BY <1>5, <1>11, <3>2 DEF ReadCharacter
    <3> QED BY <2>1, <3>1, <3>2
  <2>3. /\ q.stringBuffer = Append(r.stringBuffer, x) /\ ~q.escaped
        /\ q.data = r.data /\ SameRows(r, q)
    BY <2>2 DEF Readers, SameRows
  <2> HIDE DEF q, x, rest2
  <2>4. q.stringBuffer = Taken(field, n + 1) /\ n + 1 \in 0..l /\ rest2 = Rest(n + 1) \o after
    BY <1>1, <1>2, <1>4, <2>1, <2>3 DEF x, rest2
  <2>5. InField(q, field, rest2, after)
    BY <2>3, <2>4, Zenon DEF InField
  <2> QED BY <1>9, <2>1, <2>3, <2>5, Zenon DEF q, FieldGoesOn
<1>12. CASE ~r.escaped /\ n < l
  <2>1. rest = (EscapedCharacter(x) \o Rest(n + 1)) \o after
    BY <1>1, <1>9, <1>12
  <2>2. CASE x \in {Backslash, Delimiter}
    <3> DEFINE q == Next(Backslash)
               ch == <<x>>
               b == <<Backslash>>
               s == Rest(n + 1)
               more == ch \o rest2
    <3>1. EscapedCharacter(x) = b \o ch
      BY <2>2 DEF EscapedCharacter
    <3>2. b \in F /\ ch \in F /\ s \in F /\ Backslash \in FileCharacter
      <4>1. Backslash \in FileCharacter
        BY DEF FileCharacter, Character
      <4> HIDE DEF F, x
      <4> QED BY <1>8, <1>9, <1>12, <4>1
    <3>3. rest = b \o more /\ more \in F
      <4> HIDE DEF ch, b, s, F
      <4>1. rest = ((b \o ch) \o s) \o after
        BY <2>1, <3>1, Zenon DEF s
      <4>2. (b \o ch) \o s = b \o (ch \o s)
        <5>1. Associative(FileCharacter)
          BY ConcatAssociates
        <5>2. b \in Seq(FileCharacter) /\ ch \in Seq(FileCharacter) /\ s \in Seq(FileCharacter)
          BY <3>2, Zenon DEF F
        <5> QED BY <5>1, <5>2, Zenon DEF Associative
      <4>3. ch \o s \in F
        BY <1>7, <3>2
      <4>4. (b \o (ch \o s)) \o after = b \o ((ch \o s) \o after)
        BY <1>7, <3>2, <4>3, Zenon
      <4>5. (ch \o s) \o after = ch \o (s \o after) /\ s \o after \in F
        <5>1. (ch \o s) \o after = ch \o (s \o after)
          BY <1>7, <3>2, Zenon
        <5>2. s \o after \in F
          BY <1>2, <1>7, <3>2, Zenon
        <5> QED BY <5>1, <5>2
      <4>6. ch \o (s \o after) \in F
        BY <1>7, <3>2, <4>5, Zenon
      <4> QED BY <4>1, <4>2, <4>4, <4>5, <4>6, Zenon DEF s
    <3>4. q = [r EXCEPT !.escaped = TRUE]
      BY <1>5, <1>12 DEF ReadCharacter, ReadBackslash
    <3>5. q.stringBuffer = r.stringBuffer /\ q.escaped /\ q.data = r.data /\ SameRows(r, q)
      BY <3>4 DEF Readers, SameRows
    <3> HIDE DEF q, b
    <3>6. InField(q, field, more, after)
      BY <1>1, <1>12, <2>2, <3>5, Zenon DEF InField
    <3> HIDE DEF more
    <3> QED BY <3>2, <3>3, <3>5, <3>6, Zenon DEF q, b, FieldGoesOn
  <2>3. CASE x \notin {Backslash, Delimiter}
    <3> DEFINE q == Next(x)
               ch == <<x>>
               s == Rest(n + 1)
    <3>1. EscapedCharacter(x) = ch
      BY <2>3 DEF EscapedCharacter
    <3>2. ch \in F /\ s \in F
      <4> HIDE DEF F, x
      <4> QED BY <1>8, <1>9, <1>12
    <3>3. rest = ch \o rest2
      <4> HIDE DEF ch, s, F
      <4>1. rest = (ch \o s) \o after
        BY <2>1, <3>1, Zenon DEF s
      <4>2. (ch \o s) \o after = ch \o (s \o after)
        BY <1>7, <3>2, Zenon
      <4> QED BY <4>1, <4>2, Zenon DEF s
    <3>4. q = [r EXCEPT !.stringBuffer = Append(@, x), !.escaped = FALSE]
      BY <1>9, <1>12, <2>3 DEF ReadCharacter
    <3>5. /\ q.stringBuffer = Append(r.stringBuffer, x) /\ ~q.escaped
          /\ q.data = r.data /\ SameRows(r, q)
      BY <3>4 DEF Readers, SameRows
    <3> HIDE DEF q, x, rest2
    <3>6. q.stringBuffer = Taken(field, n + 1) /\ n + 1 \in 0..l /\ rest2 = Rest(n + 1) \o after
      BY <1>1, <1>2, <1>4, <1>12, <3>5 DEF x, rest2
    <3>7. InField(q, field, rest2, after)
      BY <3>5, <3>6, Zenon DEF InField
    <3> QED BY <1>9, <1>12, <3>3, <3>5, <3>7, Zenon DEF q, FieldGoesOn
  <2> QED BY <2>2, <2>3
<1>13. CASE ~r.escaped /\ ~(n < l)
  <2>1. n = l
    BY <1>2, <1>13
  <2>2. rest = <<>> \o after
    BY <1>1, <1>3, <1>13, <2>1
  <2>3. <<>> \o after = after
    BY ConcatEmptySeq
  <2> QED BY <1>1, <1>4, <1>13, <2>1, <2>2, <2>3
<1> QED BY <1>11, <1>12, <1>13

\* At the first character of a field.
LEMMA FieldBegins ==
  ASSUME NEW r, NEW field \in Seq(Character), NEW after,
         r.stringBuffer = <<>>, ~r.escaped
  PROVE  InField(r, field, Escaped(field) \o after, after)
<1>1. FieldRest(field, 0) = Escaped(field)
  BY FieldText
<1>2. Taken(field, 0) = <<>>
  BY TakenNext
<1>3. 0 \in 0..Len(field)
  BY LenProperties
<1> QED BY <1>1, <1>2, <1>3, Zenon DEF InField

\* A row is a sequence of its columns.
LEMMA RowAsSequence ==
  ASSUME InputOK, NEW row \in Row
  PROVE  /\ columns \in Nat \ {0} /\ row \in Seq(Seq(Character)) /\ Len(row) = columns
         /\ \A c \in 1..columns : row[c] \in Seq(Character)
<1>1. columns \in Nat \ {0}
  BY DEF InputOK
<1>2. row \in [1..columns -> Seq(Character)]
  BY DEF Row
<1> DEFINE S == Seq(Character)
<1> HIDE DEF S
<1>3. row \in Seq(S) /\ Len(row) = columns /\ \A c \in 1..columns : row[c] \in S
  BY <1>1, <1>2, RunOf DEF S
<1> QED BY <1>1, <1>3 DEF S

\* The next character is one of the row.
RowGoesOn(r, row, rest, after, keys) ==
  \E ch \in FileCharacter, rest2 \in Seq(FileCharacter) :
    LET q == ReadCharacter(r, ch, columns, keys)
    IN  rest = <<ch>> \o rest2 /\ InRow(q, row, rest2, after) /\ SameRows(r, q)

\* A row ends, or the reader goes on in it.
LEMMA RowStep ==
  ASSUME InputOK, NEW r \in Readers, NEW row \in Row, NEW rest,
         NEW after \in Seq(FileCharacter), NEW keys, InRow(r, row, rest, after)
  PROVE  \/ /\ ~r.escaped /\ Append(r.data, r.stringBuffer) = row
            /\ Len(r.data) + 1 = columns /\ rest = <<Newline>> \o after
         \/ RowGoesOn(r, row, rest, after, keys)
<1> DEFINE F == Seq(FileCharacter)
<1>1. PICK c \in 1..columns :
        /\ r.data = Taken(row, c - 1)
        /\ InField(r, row[c], rest, RowRest(row, c) \o after)
  BY Zenon DEF InRow
<1>2. /\ columns \in Nat \ {0} /\ row \in Seq(Seq(Character)) /\ Len(row) = columns
      /\ \A i \in 1..columns : row[i] \in Seq(Character)
  BY RowAsSequence
<1>3. /\ c \in Nat /\ c - 1 \in 0..columns /\ c - 1 < columns /\ (c - 1) + 1 = c
  BY <1>2
<1>4. /\ Taken(row, columns) = row /\ Len(Taken(row, c - 1)) = c - 1
      /\ Append(Taken(row, c - 1), row[c]) = Taken(row, c)
  <2> DEFINE S == Seq(Character)
             d == c - 1
  <2>1. row \in Seq(S) /\ d \in 0..Len(row) /\ d < Len(row) /\ d + 1 = c
    BY <1>2, <1>3
  <2> HIDE DEF S, d
  <2>2. /\ Taken(row, Len(row)) = row /\ Len(Taken(row, d)) = d
        /\ Append(Taken(row, d), row[d + 1]) = Taken(row, d + 1)
    BY <2>1, TakenNext
  <2>3. Len(row) = columns
    BY <1>2
  <2> QED BY <2>1, <2>2, <2>3, Zenon DEF d
<1>5. /\ RowRest(row, columns) = <<Newline>> /\ RowRest(row, c) \in F
      /\ c < columns => RowRest(row, c) = <<Delimiter>> \o (Escaped(row[c + 1]) \o RowRest(row, c + 1))
      /\ RowRest(row, c + 1) \in F
  <2>1. c + 1 \in Nat
    BY <1>3
  <2> QED BY <1>3, <2>1, RowText
<1>6. \A s, t \in F : s \o t \in F /\ (s \o t) \o after = s \o (t \o after)
  <2>1. Associative(FileCharacter)
    BY ConcatAssociates
  <2> QED BY <2>1, ConcatProperties DEF Associative
<1> DEFINE a == RowRest(row, c) \o after
<1>7. a \in F
  <2> HIDE DEF F
  <2>1. after \in F
    BY DEF F
  <2> QED BY <1>5, <1>6, <2>1
<1>8. \/ ~r.escaped /\ r.stringBuffer = row[c] /\ rest = a
      \/ FieldGoesOn(r, row[c], rest, a, keys)
  <2>1. row[c] \in Seq(Character) /\ InField(r, row[c], rest, a)
    BY <1>1, <1>2
  <2> HIDE DEF a
  <2> QED BY <1>7, <2>1, FieldStep
<1>9. ASSUME NEW ch \in FileCharacter, NEW rest2 \in F,
             rest = <<ch>> \o rest2,
             LET q == ReadCharacter(r, ch, columns, keys)
             IN  InField(q, row[c], rest2, a) /\ q.data = r.data /\ SameRows(r, q)
      PROVE  RowGoesOn(r, row, rest, after, keys)
  <2> DEFINE q == ReadCharacter(r, ch, columns, keys)
  <2>1. q.data = Taken(row, c - 1) /\ InField(q, row[c], rest2, RowRest(row, c) \o after)
    BY <1>1, <1>9
  <2> HIDE DEF q
  <2>2. InRow(q, row, rest2, after)
    BY <2>1, Zenon DEF InRow
  <2>3. SameRows(r, q)
    BY <1>9 DEF q
  <2> QED BY <1>9, <2>2, <2>3, Zenon DEF q, RowGoesOn
<1>10. ASSUME ~r.escaped, r.stringBuffer = row[c], rest = a, c = columns
       PROVE  /\ Append(r.data, r.stringBuffer) = row
              /\ Len(r.data) + 1 = columns /\ rest = <<Newline>> \o after
  BY <1>1, <1>3, <1>4, <1>5, <1>10
<1>11. ASSUME ~r.escaped, r.stringBuffer = row[c], rest = a, c < columns
       PROVE  RowGoesOn(r, row, rest, after, keys)
  <2> DEFINE q == ReadCharacter(r, Delimiter, columns, keys)
             d == <<Delimiter>>
             e == Escaped(row[c + 1])
             s == RowRest(row, c + 1)
             rest2 == e \o (s \o after)
  <2>1. c + 1 \in 1..columns /\ row[c + 1] \in Seq(Character) /\ (c + 1) - 1 = c
    BY <1>2, <1>3, <1>11
  <2>2. d \in F /\ e \in F /\ s \in F /\ after \in F /\ Delimiter \in FileCharacter
    <3>1. Delimiter \in FileCharacter
      BY DEF FileCharacter, Character
    <3>2. e \in F
      <4>1. 0 \in Nat
        OBVIOUS
      <4> QED BY <2>1, <4>1, FieldText, Zenon
    <3> QED BY <1>5, <3>1, <3>2
  <2>3. rest = d \o rest2 /\ rest2 \in F
    <3>1. rest = (d \o (e \o s)) \o after
      BY <1>5, <1>11, Zenon
    <3> HIDE DEF d, e, s, F
    <3>2. e \o s \in F
      BY <1>6, <2>2, Zenon
    <3>3. (d \o (e \o s)) \o after = d \o ((e \o s) \o after)
      BY <1>6, <2>2, <3>2, Zenon
    <3>4. (e \o s) \o after = e \o (s \o after)
      BY <1>6, <2>2, Zenon
    <3>5. s \o after \in F
      BY <1>6, <2>2, Zenon
    <3>6. e \o (s \o after) \in F
      BY <1>6, <2>2, <3>5, Zenon
    <3> QED BY <3>1, <3>3, <3>4, <3>6, Zenon
  <2>4. q = EndColumn(r, columns)
    BY <1>11, CharacterAssumption DEF ReadCharacter
  <2>5. Len(r.data) = c - 1 /\ ~(Len(r.data) >= columns)
    <3>1. Len(r.data) = c - 1
      BY <1>1, <1>4, Zenon
    <3> QED BY <1>2, <1>3, <3>1
  <2>6. /\ q.data = Append(r.data, r.stringBuffer) /\ q.stringBuffer = <<>> /\ ~q.escaped
        /\ SameRows(r, q)
    BY <1>11, <2>4, <2>5 DEF EndColumn, Readers, SameRows
  <2>7. q.data = Taken(row, (c + 1) - 1)
    BY <1>1, <1>4, <1>11, <2>1, <2>6
  <2> HIDE DEF q
  <2>8. InField(q, row[c + 1], rest2, s \o after)
    BY <2>1, <2>6, FieldBegins
  <2>9. InRow(q, row, rest2, after)
    BY <2>1, <2>7, <2>8, Zenon DEF InRow, s
  <2> HIDE DEF rest2
  <2> QED BY <2>2, <2>3, <2>6, <2>9, Zenon DEF q, d, RowGoesOn
<1> HIDE DEF a, F
<1>12. c = columns \/ c < columns
  BY <1>2, <1>3
<1>13. CASE ~r.escaped /\ r.stringBuffer = row[c] /\ rest = a
  BY <1>10, <1>11, <1>12, <1>13, Zenon
<1>14. CASE FieldGoesOn(r, row[c], rest, a, keys)
  BY <1>9, <1>14, Zenon DEF F, FieldGoesOn
<1> QED BY <1>8, <1>13, <1>14, Zenon

\* op has been called with the first m rows of the table.
RowsRead(r, m, keys) ==
  /\ r.rows = Taken(table, m) /\ ~r.overrun
  /\ r.terminateRead <=> \E i \in 1..m : table[i][1] \in keys

Between(r) == r.data = <<>> /\ r.stringBuffer = <<>> /\ ~r.escaped

\* The reader, with rest of the table left to read.
InTable(r, rest, keys) ==
  \E m \in 0..Len(table) :
    /\ RowsRead(r, m, keys)
    /\ \/ m = Len(table) /\ Between(r) /\ rest = <<>>
       \/ m < Len(table) /\ InRow(r, table[m + 1], rest, TableRest(m + 1))

\* Between two rows the reader is at the first character of the next, if there is
\* one.
LEMMA RowBegins ==
  ASSUME InputOK, NEW r, NEW keys, NEW m \in 0..Len(table), RowsRead(r, m, keys), Between(r)
  PROVE  InTable(r, TableRest(m), keys)
<1>1. table \in Seq(Row) /\ Len(table) \in Nat /\ m \in Nat /\ m + 1 \in Nat
  BY LenProperties DEF InputOK, Row
<1>2. CASE m = Len(table)
  BY <1>1, <1>2, TableText, Zenon DEF InTable
<1>3. CASE m < Len(table)
  <2> DEFINE row == table[m + 1]
             after == TableRest(m + 1)
             s == RowRest(row, 1)
             e == Escaped(row[1])
             F == Seq(FileCharacter)
  <2>1. row \in Row /\ TableRest(m) = (e \o s) \o after /\ after \in F
    BY <1>1, <1>3, TableText
  <2> HIDE DEF row, after
  <2>2. /\ columns \in Nat \ {0} /\ row \in Seq(Seq(Character)) /\ Len(row) = columns
        /\ row[1] \in Seq(Character) /\ 1 \in 1..columns
    <3>1. 1 \in 1..columns
      BY DEF InputOK
    <3> QED BY <2>1, <3>1, RowAsSequence
  <2>3. e \in F /\ s \in F
    <3>1. 0 \in Nat /\ 1 \in Nat
      OBVIOUS
    <3>2. e \in F
      BY <2>2, <3>1, FieldText, Zenon
    <3>3. s \in F
      BY <2>1, <3>1, RowText, Zenon
    <3> QED BY <3>2, <3>3
  <2> HIDE DEF e, s
  <2>4. (e \o s) \o after = e \o (s \o after)
    <3>1. Associative(FileCharacter)
      BY ConcatAssociates
    <3>2. e \in Seq(FileCharacter) /\ s \in Seq(FileCharacter) /\ after \in Seq(FileCharacter)
      BY <2>1, <2>3
    <3> QED BY <3>1, <3>2, Zenon DEF Associative
  <2>5. InField(r, row[1], e \o (s \o after), s \o after)
    BY <2>2, FieldBegins DEF Between, e
  <2>6. r.data = Taken(row, 1 - 1)
    <3>1. Taken(row, 0) = <<>>
      BY <2>2, TakenNext
    <3> QED BY <3>1 DEF Between
  <2>7. InRow(r, row, TableRest(m), after)
    <3> HIDE DEF F
    <3>1. InField(r, row[1], TableRest(m), RowRest(row, 1) \o after)
      BY <2>1, <2>4, <2>5, Zenon DEF s
    <3> QED BY <2>2, <2>6, <3>1, Zenon DEF InRow
  <2> QED BY <1>3, <2>7, Zenon DEF InTable, row, after
<1> QED BY <1>1, <1>2, <1>3

\* One character of the table.
LEMMA TableStep ==
  ASSUME InputOK, NEW r \in Readers, NEW rest, NEW keys, InTable(r, rest, keys), rest # <<>>
  PROVE  \E ch \in FileCharacter, rest2 \in Seq(FileCharacter) :
           rest = <<ch>> \o rest2 /\ InTable(ReadCharacter(r, ch, columns, keys), rest2, keys)
<1>1. PICK m \in 0..Len(table) :
        /\ RowsRead(r, m, keys) /\ m < Len(table)
        /\ InRow(r, table[m + 1], rest, TableRest(m + 1))
  BY DEF InTable
<1> DEFINE row == table[m + 1]
           after == TableRest(m + 1)
<1>2. table \in Seq(Row) /\ Len(table) \in Nat /\ m \in Nat /\ m + 1 \in Nat /\ m + 1 \in 0..Len(table)
  BY <1>1, LenProperties DEF InputOK, Row
<1>3. row \in Row /\ after \in Seq(FileCharacter)
  BY <1>1, <1>2, TableText
<1>4. \/ /\ ~r.escaped /\ Append(r.data, r.stringBuffer) = row
         /\ Len(r.data) + 1 = columns /\ rest = <<Newline>> \o after
      \/ RowGoesOn(r, row, rest, after, keys)
  <2>1. InRow(r, row, rest, after)
    BY <1>1
  <2> HIDE DEF row, after
  <2> QED BY <1>3, <2>1, RowStep
<1>5. CASE RowGoesOn(r, row, rest, after, keys)
  <2>1. PICK ch \in FileCharacter, rest2 \in Seq(FileCharacter) :
              LET q == ReadCharacter(r, ch, columns, keys)
              IN  rest = <<ch>> \o rest2 /\ InRow(q, row, rest2, after) /\ SameRows(r, q)
    BY <1>5 DEF RowGoesOn
  <2> DEFINE q == ReadCharacter(r, ch, columns, keys)
  <2>2. rest = <<ch>> \o rest2 /\ InRow(q, row, rest2, after) /\ SameRows(r, q)
    BY <2>1
  <2> HIDE DEF q
  <2>3. RowsRead(q, m, keys)
    BY <1>1, <2>2, Zenon DEF RowsRead, SameRows
  <2>4. InTable(q, rest2, keys)
    BY <1>1, <2>2, <2>3, Zenon DEF InTable
  <2> QED BY <2>2, <2>4, Zenon DEF q
<1>6. CASE /\ ~r.escaped /\ Append(r.data, r.stringBuffer) = row
           /\ Len(r.data) + 1 = columns /\ rest = <<Newline>> \o after
  <2> DEFINE q == ReadCharacter(r, Newline, columns, keys)
  <2>1. q = NewRow(CallOp(r, keys))
    BY <1>6, CharacterAssumption DEF ReadCharacter, EndRow
  <2>2. /\ q.rows = Append(r.rows, row) /\ Between(q) /\ q.overrun = r.overrun
        /\ q.terminateRead = (r.terminateRead \/ row[1] \in keys)
    <3> HIDE DEF row
    <3> QED BY <1>6, <2>1 DEF NewRow, CallOp, Readers, Between
  <2> HIDE DEF q
  <2>3. Append(Taken(table, m), row) = Taken(table, m + 1)
    BY <1>1, <1>2, TakenNext
  <2>4. q.terminateRead <=> \E i \in 1..(m + 1) : table[i][1] \in keys
    <3>1. \A i : i \in 1..(m + 1) <=> i \in 1..m \/ i = m + 1
      BY <1>2
    <3>2. r.terminateRead <=> \E i \in 1..m : table[i][1] \in keys
      BY <1>1 DEF RowsRead
    <3> QED BY <2>2, <3>1, <3>2, Zenon
  <2>5. RowsRead(q, m + 1, keys)
    BY <1>1, <2>2, <2>3, <2>4, Zenon DEF RowsRead
  <2>6. InTable(q, after, keys)
    BY <1>2, <2>2, <2>5, RowBegins
  <2>7. Newline \in FileCharacter
    BY DEF FileCharacter
  <2> HIDE DEF after
  <2> QED BY <1>3, <1>6, <2>6, <2>7, Zenon DEF q
<1> QED BY <1>4, <1>5, <1>6

\* Wherever the reader is, the rest of the table's text is what it has left.
LEMMA ReadsTable ==
  ASSUME InputOK, NEW f, NEW keys, Reads(f, Table(EscapedRows), columns, keys)
  PROVE  /\ Table(EscapedRows) \in Seq(FileCharacter)
         /\ \A p \in 0..Len(Table(EscapedRows)) :
              f[p] \in Readers /\ InTable(f[p], Dropped(Table(EscapedRows), p), keys)
<1> DEFINE text == Table(EscapedRows)
           l == Len(text)
<1>1. text \in Seq(FileCharacter) /\ text = TableRest(0)
  <2>1. 0 \in Nat
    OBVIOUS
  <2> QED BY <2>1, TableText, Zenon
<1>2. /\ f \in [0..l -> Readers] /\ f[0] = Fresh
      /\ \A k \in 1..l : f[k] = ReadCharacter(f[k - 1], text[k], columns, keys)
  BY Zenon DEF Reads
<1> HIDE DEF text
<1>3. l \in Nat
  BY <1>1, LenProperties
<1>4. /\ Dropped(text, 0) = text
      /\ \A n \in Nat : Dropped(text, n) \in Seq(FileCharacter)
      /\ \A n \in Nat : n < l =>
              /\ text[n + 1] \in FileCharacter /\ Dropped(text, n) # <<>>
              /\ Dropped(text, n) = <<text[n + 1]>> \o Dropped(text, n + 1)
  <2>1. /\ Dropped(text, 0) = text
        /\ \A n \in Nat : Dropped(text, n) \in Seq(FileCharacter)
        /\ \A n \in Nat : n < Len(text) =>
              /\ text[n + 1] \in FileCharacter /\ Head(Dropped(text, n)) = text[n + 1]
              /\ Dropped(text, n) # <<>> /\ Tail(Dropped(text, n)) = Dropped(text, n + 1)
              /\ Dropped(text, n) = <<text[n + 1]>> \o Dropped(text, n + 1)
    BY <1>1, DroppedNext
  <2> QED BY <2>1, Zenon
<1> HIDE DEF l
<1> DEFINE T == {p \in Nat : p <= l => InTable(f[p], Dropped(text, p), keys)}
<1>5. 0 \in T
  <2>1. Len(table) \in Nat /\ 0 \in 0..Len(table)
    BY LenProperties DEF InputOK
  <2>2. Between(Fresh)
    BY DEF Between, Fresh
  <2>3. RowsRead(Fresh, 0, keys)
    <3>1. Fresh.rows = <<>> /\ ~Fresh.overrun /\ ~Fresh.terminateRead
      BY DEF Fresh
    <3>2. Taken(table, 0) = <<>>
      BY TakenNext DEF InputOK
    <3>3. \A i \in 1..0 : FALSE
      OBVIOUS
    <3> QED BY <3>1, <3>2, <3>3, Zenon DEF RowsRead
  <2>4. InTable(Fresh, TableRest(0), keys)
    BY <2>1, <2>2, <2>3, RowBegins
  <2>5. InTable(f[0], Dropped(text, 0), keys)
    BY <1>1, <1>2, <1>4, <2>4, Zenon
  <2> QED BY <2>5
<1>6. ASSUME NEW p \in Nat, p \in T PROVE p + 1 \in T
  <2> SUFFICES ASSUME p + 1 <= l PROVE InTable(f[p + 1], Dropped(text, p + 1), keys)
    OBVIOUS
  <2>1. p \in 0..l /\ p < l /\ p + 1 \in 1..l /\ p + 1 \in Nat /\ (p + 1) - 1 = p
    BY <1>3
  <2>2. InTable(f[p], Dropped(text, p), keys) /\ f[p] \in Readers
    BY <1>2, <1>6, <2>1
  <2> HIDE DEF T
  <2>3. PICK ch \in FileCharacter, rest2 \in Seq(FileCharacter) :
          /\ Dropped(text, p) = <<ch>> \o rest2
          /\ InTable(ReadCharacter(f[p], ch, columns, keys), rest2, keys)
    BY <1>4, <2>1, <2>2, TableStep, Zenon
  <2>4. ch = text[p + 1] /\ rest2 = Dropped(text, p + 1)
    <3> DEFINE x == text[p + 1]
               s == Dropped(text, p + 1)
    <3>1. x \in FileCharacter /\ s \in Seq(FileCharacter) /\ <<x>> \o s = <<ch>> \o rest2
      BY <1>4, <2>1, <2>3, Zenon
    <3> HIDE DEF x, s
    <3>2. x = ch /\ s = rest2
      BY <3>1, SameStart, Zenon
    <3> QED BY <3>2 DEF x, s
  <2>5. f[p + 1] = ReadCharacter(f[p], text[p + 1], columns, keys)
    BY <1>2, <2>1, Zenon
  <2> QED BY <2>3, <2>4, <2>5, Zenon
<1>7. \A p \in Nat : p \in T
  <2> HIDE DEF T
  <2> QED BY <1>5, <1>6, NatSetInduction
<1>8. ASSUME NEW p \in 0..l PROVE f[p] \in Readers /\ InTable(f[p], Dropped(text, p), keys)
  <2>1. p \in Nat /\ p <= l /\ p \in T
    BY <1>3, <1>7
  <2> QED BY <1>2, <2>1
<1> QED BY <1>1, <1>8, Zenon DEF text, l

\* In a row something is left to read: its newline at least.
LEMMA RowNotRead ==
  ASSUME InputOK, NEW r \in Readers, NEW row \in Row, NEW rest,
         NEW after \in Seq(FileCharacter), InRow(r, row, rest, after)
  PROVE  rest # <<>>
<1>1. PICK keys : keys = {}
  OBVIOUS
<1>2. CASE rest = <<Newline>> \o after
  <2>1. Newline \in FileCharacter
    BY DEF FileCharacter
  <2> QED BY <1>2, <2>1, NotEmpty, Zenon
<1>3. CASE RowGoesOn(r, row, rest, after, keys)
  <2>1. PICK ch \in FileCharacter, rest2 \in Seq(FileCharacter) : rest = <<ch>> \o rest2
    BY <1>3, Zenon DEF RowGoesOn
  <2> QED BY <2>1, NotEmpty, Zenon
<1> QED BY <1>2, <1>3, RowStep, Zenon

\* When nothing is left, op has been called with every row.
LEMMA AllRead ==
  ASSUME InputOK, NEW r \in Readers, NEW keys, InTable(r, <<>>, keys)
  PROVE  r.rows = table /\ ~r.overrun /\ Between(r)
<1>1. PICK m \in 0..Len(table) :
        /\ RowsRead(r, m, keys)
        /\ \/ m = Len(table) /\ Between(r)
           \/ m < Len(table) /\ InRow(r, table[m + 1], <<>>, TableRest(m + 1))
  BY Zenon DEF InTable
<1>2. CASE m = Len(table) /\ Between(r)
  <2>1. Taken(table, Len(table)) = table
    BY TakenNext DEF InputOK
  <2> QED BY <1>1, <1>2, <2>1, Zenon DEF RowsRead
<1>3. CASE m < Len(table) /\ InRow(r, table[m + 1], <<>>, TableRest(m + 1))
  <2>1. m \in Nat /\ m + 1 \in Nat
    BY <1>1
  <2>2. table[m + 1] \in Row /\ TableRest(m + 1) \in Seq(FileCharacter)
    BY <1>3, <2>1, TableText
  <2> QED BY <1>3, <2>2, RowNotRead, Zenon
<1> QED BY <1>1, <1>2, <1>3, Zenon

\* However read cuts a file, readFromFile gives op the rows of the file, whatever
\* characters they hold if those are escaped, and stores none of their columns
\* beyond the row: what insert and update copy is the table.
THEOREM RowsReadBackHolds == InputOK => RowsReadBack
<1> SUFFICES ASSUME InputOK PROVE RowsReadBack
  OBVIOUS
<1> DEFINE text == Table(EscapedRows)
<1>1. columns \in Nat /\ readSize \in Nat \ {0}
  BY DEF InputOK
<1>2. text \in Seq(FileCharacter)
  <2>1. 0 \in Nat
    OBVIOUS
  <2> QED BY <2>1, TableText, Zenon
<1>3. PICK f : Reads(f, text, columns, {})
  <2> HIDE DEF text
  <2> QED BY <1>1, <1>2, ReadsExist
<1>4. \A p \in 0..Len(text) : f[p] \in Readers /\ InTable(f[p], Dropped(text, p), {})
  BY <1>3, ReadsTable
<1> HIDE DEF text
<1>5. PICK p \in 0..Len(text) :
        /\ readFromFile(text, readSize, columns, {}) = LastRow(f[p], columns, {})
        /\ p = Len(text) \/ f[p].terminateRead
  BY <1>1, <1>2, <1>3, StopsSomewhere
<1> DEFINE r == f[p]
<1>6. r \in Readers /\ InTable(r, Dropped(text, p), {})
  BY <1>4
<1>7. ~r.terminateRead
  BY <1>6 DEF InTable, RowsRead
<1>8. Dropped(text, Len(text)) = <<>>
  BY <1>2, DroppedNext
<1>9. InTable(r, <<>>, {})
  BY <1>5, <1>6, <1>7, <1>8, Zenon
<1> HIDE DEF r
<1>10. r.rows = table /\ ~r.overrun /\ Between(r)
  BY <1>6, <1>9, AllRead
<1>11. Len(r.data) = 0 /\ r.data = <<>> /\ r.stringBuffer = <<>>
  BY <1>10, EmptySeq DEF Between
<1> DEFINE q == LastRow(r, columns, {})
<1>12. q.rows = WithLast /\ ~q.overrun
  <2>1. CASE columns = 1
    <3>1. q = CallOp(r, {})
      BY <1>11, <2>1 DEF LastRow
    <3>2. q.rows = Append(r.rows, Append(r.data, r.stringBuffer)) /\ q.overrun = r.overrun
      BY <1>6, <3>1 DEF CallOp, Readers
    <3>3. Append(<<>>, <<>>) = << <<>> >>
      OBVIOUS
    <3> QED BY <1>10, <1>11, <2>1, <3>2, <3>3, Zenon DEF WithLast
  <2>2. CASE columns # 1
    <3>1. q = r
      BY <1>1, <1>11, <2>2 DEF LastRow
    <3> QED BY <1>10, <2>2, <3>1, Zenon DEF WithLast
  <2> QED BY <2>1, <2>2
<1> QED BY <1>5, <1>12, Zenon DEF RowsReadBack, text, q, r

\* Rows in which the row of the key is found: those of the table up to it at
\* least, and perhaps one more, which is that row if it has the key.
Enough(rows, key) ==
  \E m \in 0..Len(table) :
    /\ m = Len(table) \/ \E i \in 1..m : table[i][1] = key
    /\ \/ rows = Taken(table, m)
       \/ \E row : /\ rows = Append(Taken(table, m), row)
                   /\ row[1] = key => \E i \in 1..m : table[i] = row

\* Of such rows find takes the last with the key, which is the one of the table.
LEMMA EnoughFinds ==
  ASSUME InputOK, PlainTable, NEW text, NEW key,
         Enough(readFromFile(text, readSize, columns, {key}).rows, key)
  PROVE  find(text, readSize, columns, key) = RowOf(key)
<1> DEFINE rows == readFromFile(text, readSize, columns, {key}).rows
           found == {i \in DOMAIN rows : rows[i][1] = key}
           l == Len(table)
<1>1. PICK m \in 0..l :
        /\ m = l \/ \E i \in 1..m : table[i][1] = key
        /\ \/ rows = Taken(table, m)
           \/ \E row : /\ rows = Append(Taken(table, m), row)
                       /\ row[1] = key => \E i \in 1..m : table[i] = row
  BY Zenon DEF Enough
<1>2. l \in Nat /\ m \in Nat /\ DOMAIN table = 1..l /\ table \in Seq(Row)
  BY LenProperties DEF InputOK, Row
<1>3. /\ Taken(table, m) \in Seq(Row) /\ Len(Taken(table, m)) = m
      /\ \A i \in 1..m : Taken(table, m)[i] = table[i]
  BY <1>2, TakenProperties
<1>4. find(text, readSize, columns, key) = IF found = {} THEN <<>> ELSE rows[Max(found)]
  BY Zenon DEF find
<1> HIDE DEF rows, l
\* A row that was found is one of the table.
<1>5. /\ \A j \in 1..m : j \in DOMAIN rows /\ rows[j] = table[j]
      /\ \A j \in DOMAIN rows : j \in 1..m \/ j = m + 1
      /\ \A j \in found : \E i \in 1..m : table[i] = rows[j] /\ table[i][1] = key
  <2>1. CASE rows = Taken(table, m)
    <3>1. DOMAIN rows = 1..m
      BY <1>3, <2>1, LenProperties
    <3> QED BY <1>3, <2>1, <3>1
  <2>2. CASE \E row : /\ rows = Append(Taken(table, m), row)
                      /\ row[1] = key => \E i \in 1..m : table[i] = row
    <3>1. PICK row : /\ rows = Append(Taken(table, m), row)
                     /\ row[1] = key => \E i \in 1..m : table[i] = row
      BY <2>2
    <3> DEFINE t == Taken(table, m)
               S == Row \cup {row}
    <3>2. t \in Seq(S) /\ row \in S /\ Len(t) = m /\ \A i \in 1..m : t[i] = table[i]
      <4>1. Row \subseteq S
        OBVIOUS
      <4>2. t \in Seq(S)
        BY <1>3, <4>1, SeqMonotonic
      <4> QED BY <1>3, <4>2
    <3> HIDE DEF t, S
    <3>3. /\ rows \in Seq(S) /\ Len(rows) = m + 1 /\ rows[m + 1] = row
          /\ \A i \in 1..m : rows[i] = table[i]
      <4>1. rows = Append(t, row)
        BY <3>1 DEF t
      <4> QED BY <3>2, <4>1, AppendProperties
    <3>4. DOMAIN rows = 1..(m + 1)
      BY <3>3, LenProperties
    <3>5. \A j \in DOMAIN rows : j \in 1..m \/ j = m + 1
      BY <1>2, <3>4
    <3>6. \A j \in 1..m : j \in DOMAIN rows
      BY <1>2, <3>4
    <3>7. ASSUME NEW j \in found PROVE \E i \in 1..m : table[i] = rows[j] /\ table[i][1] = key
      <4>1. j \in DOMAIN rows /\ rows[j][1] = key
        OBVIOUS
      <4>2. CASE j \in 1..m
        BY <3>3, <4>1, <4>2, Zenon
      <4>3. CASE j = m + 1
        <5>1. rows[j] = row
          BY <3>3, <4>3, Zenon
        <5> QED BY <3>1, <4>1, <5>1, Zenon
      <4> QED BY <3>5, <4>2, <4>3, Zenon
    <3> HIDE DEF found
    <3>8. \A j \in 1..m : j \in DOMAIN rows /\ rows[j] = table[j]
      BY <3>3, <3>6, Zenon
    <3> QED BY <3>5, <3>7, <3>8, Zenon
  <2> QED BY <1>1, <2>1, <2>2, Zenon
<1>6. \A j \in 1..m : j \in 1..l
  BY <1>2
<1>7. \A i, j \in 1..l : table[i][1] = table[j][1] => i = j
  BY <1>2 DEF PlainTable
<1>8. CASE ~\E i \in 1..l : table[i][1] = key
  <2>1. found = {}
    <3> HIDE DEF found
    <3>1. \A j \in found : FALSE
      BY <1>5, <1>6, <1>8, Zenon
    <3> QED BY <3>1
  <2>2. RowOf(key) = <<>>
    BY <1>2, <1>8, Zenon DEF RowOf
  <2> QED BY <1>4, <2>1, <2>2, Zenon
<1>9. CASE \E i \in 1..l : table[i][1] = key
  <2>1. PICK i \in 1..l : table[i][1] = key
    BY <1>9
  <2>2. \A j \in 1..l : table[j][1] = key => j = i
    BY <1>7, <2>1, Zenon
  <2>3. RowOf(key) = table[i]
    <3>1. (CHOOSE j \in 1..l : table[j][1] = key) = i
      BY <2>1, <2>2, Zenon
    <3> QED BY <1>2, <2>1, <3>1, Zenon DEF RowOf
  <2>4. i \in 1..m
    BY <1>1, <1>6, <2>1, <2>2
  <2>5. i \in found /\ \A j \in found : j = i \/ j = m + 1
    <3>1. i \in found
      BY <1>5, <2>1, <2>4, Zenon
    <3>2. \A j \in 1..m : j \in found => j = i
      BY <1>5, <1>6, <2>2, Zenon
    <3>3. \A j \in found : j \in 1..m \/ j = m + 1
      BY <1>5, Zenon
    <3> HIDE DEF found
    <3> QED BY <3>1, <3>2, <3>3, Zenon
  <2>6. \A j \in found : rows[j] = table[i]
    <3> HIDE DEF found
    <3> QED BY <1>5, <1>6, <2>2, Zenon
  <2> HIDE DEF found
  <2>7. Max(found) \in found
    <3>1. \E x \in found : \A y \in found : x >= y
      <4>1. CASE m + 1 \in found
        BY <1>2, <2>4, <2>5, <4>1
      <4>2. CASE m + 1 \notin found
        <5>1. i >= i
          BY <2>4
        <5>2. \A j \in found : j = i
          BY <2>5, <4>2, Zenon
        <5> QED BY <2>5, <5>1, <5>2, Zenon
      <4> QED BY <4>1, <4>2
    <3> QED BY <3>1, Zenon DEF Max
  <2>8. found # {}
    BY <2>5
  <2> QED BY <1>4, <2>3, <2>6, <2>7, <2>8, Zenon
<1> QED BY <1>8, <1>9

\* Names of plain characters are written as they are.
LEMMA PlainText ==
  ASSUME InputOK, PlainTable
  PROVE  EscapedRows = table
<1>1. ASSUME NEW field \in Seq(Character), field \in Seq(Plain) PROVE Escaped(field) = field
  <2> DEFINE texts == [i \in DOMAIN field |-> EscapedCharacter(field[i])]
             l == Len(field)
             w == 1
             F == Seq(Character)
  <2>1. l \in Nat /\ DOMAIN field = 1..l /\ \A i \in 1..l : field[i] \in Plain /\ field[i] \in Character
    BY <1>1, LenProperties, ElementOfSeq
  <2>2. \A i \in 1..l : EscapedCharacter(field[i]) = <<field[i]>>
    BY <2>1, CharacterAssumption DEF EscapedCharacter
  <2>3. \A i \in 1..l : texts[i] \in F /\ Len(texts[i]) = 1 /\ texts[i][1] = field[i]
    <3> SUFFICES ASSUME NEW i \in 1..l
                 PROVE  texts[i] \in F /\ Len(texts[i]) = 1 /\ texts[i][1] = field[i]
      OBVIOUS
    <3>1. texts[i] = <<field[i]>>
      BY <2>1, <2>2
    <3> HIDE DEF texts
    <3> QED BY <2>1, <3>1
  <2>4. texts \in [1..l -> F]
    BY <2>1, <2>3
  <2>5. Escaped(field) = FlattenSeq(texts)
    BY Zenon DEF Escaped
  <2> HIDE DEF texts, l
  <2>6. texts \in Seq(F) /\ Len(texts) = l
    <3> HIDE DEF F
    <3> QED BY <2>1, <2>4, RunOf
  <2>7. w \in Nat /\ \A k \in 1..Len(texts) : Len(texts[k]) = w
    BY <2>3, <2>6
  <2> HIDE DEF w
  <2>8. /\ FlattenSeq(texts) \in Seq(Character) /\ Len(FlattenSeq(texts)) = Len(texts) * w
        /\ \A k \in 1..Len(texts), j \in 1..w : FlattenSeq(texts)[(k - 1) * w + j] = texts[k][j]
    BY <2>6, <2>7, FlattenUniform
  <2> DEFINE e == FlattenSeq(texts)
  <2>9. Len(e) = l
    BY <2>1, <2>6, <2>8 DEF w
  <2>10. \A i \in 1..l : e[i] = field[i]
    <3> SUFFICES ASSUME NEW i \in 1..l PROVE e[i] = field[i]
      OBVIOUS
    <3>1. 1 \in 1..w /\ (i - 1) * w + 1 = i
      BY <2>1 DEF w
    <3>2. e[(i - 1) * w + 1] = texts[i][1]
      BY <2>6, <2>8, <3>1, Zenon
    <3> QED BY <2>3, <3>1, <3>2, Zenon
  <2>11. e \in Seq(Character)
    BY <2>8
  <2> HIDE DEF e
  <2>12. e = field
    <3>1. Len(e) = Len(field) /\ \A i \in 1..Len(e) : e[i] = field[i]
      BY <2>9, <2>10 DEF l
    <3> QED BY <2>11, <3>1, SeqEqual
  <2> QED BY <2>5, <2>12 DEF e
<1>2. table \in Seq(Row) /\ \A i \in DOMAIN table : table[i] \in Row
  BY ElementOfSeq DEF InputOK, Row
<1>3. ASSUME NEW i \in DOMAIN table PROVE EscapedRow(table[i]) = table[i]
  <2> DEFINE row == table[i]
  <2>1. row \in Row /\ \A k \in DOMAIN row : row[k] \in Seq(Plain)
    BY <1>2 DEF PlainTable
  <2> HIDE DEF row
  <2>2. DOMAIN row = 1..columns /\ row = [k \in 1..columns |-> row[k]]
        /\ \A k \in 1..columns : row[k] \in Seq(Character)
    BY <2>1 DEF Row
  <2>3. \A k \in 1..columns : Escaped(row[k]) = row[k]
    BY <1>1, <2>1, <2>2
  <2>4. [k \in 1..columns |-> Escaped(row[k])] = row
    BY <2>2, <2>3
  <2>5. EscapedRow(row) = row
    BY <2>2, <2>4, Zenon DEF EscapedRow
  <2> QED BY <2>5 DEF row
<1>4. DOMAIN table = 1..Len(table) /\ table = [i \in DOMAIN table |-> table[i]]
  <2>1. \A S : \A s \in Seq(S) : s = [i \in DOMAIN s |-> s[i]] /\ DOMAIN s = 1..Len(s)
    BY LenProperties, SMT
  <2> QED BY <1>2, <2>1
<1> QED BY <1>3, <1>4 DEF EscapedRows

\* After all the rows, LastRow adds an empty one if it adds any.
LEMMA EnoughAtEnd ==
  ASSUME InputOK, NEW key, columns = 1 => key # <<>>, NEW r \in Readers,
         r.rows = table, Between(r)
  PROVE  Enough(LastRow(r, columns, {key}).rows, key)
<1> DEFINE q == LastRow(r, columns, {key})
           l == Len(table)
<1>1. Len(r.data) = 0 /\ r.data = <<>> /\ r.stringBuffer = <<>>
  BY EmptySeq DEF Between
<1>2. l \in 0..l /\ Taken(table, l) = table
  BY LenProperties, TakenNext DEF InputOK
<1>3. CASE columns = 1
  <2> DEFINE row == Append(r.data, r.stringBuffer)
  <2>1. q.rows = Append(table, row)
    BY <1>1, <1>3 DEF LastRow, CallOp, Readers
  <2>2. row[1] # key
    <3>1. row = <<<<>>>>
      BY <1>1
    <3>2. row[1] = <<>>
      BY <3>1
    <3> QED BY <1>3, <3>2
  <2> HIDE DEF q, row, l
  <2> QED BY <1>2, <2>1, <2>2, Zenon DEF Enough, q, l
<1>4. CASE columns # 1
  <2>1. q = r
    BY <1>1, <1>4 DEF LastRow, InputOK
  <2> HIDE DEF q, l
  <2> QED BY <1>2, <2>1, Zenon DEF Enough, q, l
<1> QED BY <1>3, <1>4

\* op has asked to stop: the row of the key is among those it was called with, and
\* the start of the next row, if it is taken for a row, has another name or is it.
LEMMA StoppedEarly ==
  ASSUME InputOK, PlainTable, NEW key, columns = 1 => key # <<>>, NEW r \in Readers,
         NEW rest, InTable(r, rest, {key}), r.terminateRead
  PROVE  Enough(LastRow(r, columns, {key}).rows, key)
<1> DEFINE q == LastRow(r, columns, {key})
           l == Len(table)
<1>1. PICK m \in 0..l :
        /\ RowsRead(r, m, {key})
        /\ \/ m = l /\ Between(r)
           \/ m < l /\ InRow(r, table[m + 1], rest, TableRest(m + 1))
  BY Zenon DEF InTable
<1>2. l \in Nat /\ m \in Nat /\ DOMAIN table = 1..l /\ table \in Seq(Row)
      /\ \A i \in 1..l : table[i] \in Row
  <2>1. table \in Seq(Row)
    BY DEF InputOK, Row
  <2>2. l \in Nat /\ DOMAIN table = 1..l
    BY <2>1, LenProperties
  <2>3. \A i \in 1..l : table[i] \in Row
    BY <2>1, ElementOfSeq
  <2>4. m \in Nat
    BY <2>2
  <2> QED BY <2>1, <2>2, <2>3, <2>4
<1>3. r.rows = Taken(table, m) /\ \E i \in 1..m : table[i][1] = key
  BY <1>1 DEF RowsRead
<1>4. CASE m = l /\ Between(r)
  <2>1. Taken(table, l) = table
    BY <1>2, TakenNext
  <2>2. r.rows = table
    BY <1>3, <1>4, <2>1
  <2> QED BY <1>4, <2>2, EnoughAtEnd
<1>5. CASE m < l /\ InRow(r, table[m + 1], rest, TableRest(m + 1))
  <2> DEFINE row == table[m + 1]
  <2>1. row \in Row /\ m + 1 \in 1..l /\ m + 1 \notin 1..m
    BY <1>2, <1>5
  <2>2. /\ columns \in Nat \ {0} /\ row \in Seq(Seq(Character)) /\ Len(row) = columns
        /\ \A c \in 1..columns : row[c] \in Seq(Character)
    <3> HIDE DEF row
    <3> QED BY <2>1, RowAsSequence
  <2>3. PICK c \in 1..columns : r.data = Taken(row, c - 1)
    BY <1>5 DEF InRow
  <2>4. PICK i \in 1..m : table[i][1] = key
    BY <1>3
  <2>5. row[1] # key
    <3>1. i \in 1..l /\ i # m + 1
      BY <1>2, <2>1, <2>4
    <3>2. table[i][1] = table[m + 1][1] => i = m + 1
      BY <1>2, <2>1, <3>1, Zenon DEF PlainTable
    <3> QED BY <2>4, <3>1, <3>2, Zenon
  <2> HIDE DEF row, l
  <2>6. c - 1 \in 0..columns /\ Len(r.data) = c - 1 /\ r.data \in Seq(Seq(Character))
        /\ \A k \in 1..(c - 1) : r.data[k] = row[k]
    <3> DEFINE S == Seq(Character)
               d == c - 1
    <3>1. d \in 0..Len(row) /\ row \in Seq(S)
      BY <2>2
    <3> HIDE DEF S, d
    <3>2. Taken(row, d) \in Seq(S) /\ Len(Taken(row, d)) = d /\ \A k \in 1..d : Taken(row, d)[k] = row[k]
      BY <3>1, TakenProperties
    <3>3. r.data = Taken(row, d)
      BY <2>3 DEF d
    <3>4. Len(row) = columns
      BY <2>2
    <3> QED BY <3>1, <3>2, <3>3, <3>4, Zenon DEF S, d
  <2>7. CASE Len(r.data) + 1 = columns
    <3> DEFINE e == Append(r.data, r.stringBuffer)
    <3>1. q.rows = Append(Taken(table, m), e)
      BY <1>3, <2>7 DEF LastRow, CallOp, Readers
    <3>2. e[1] = key => table[i] = e
      <4>1. CASE columns = 1
        <5>1. r.data = <<>>
          BY <2>6, <2>7, <4>1, EmptySeq
        <5>2. e = <<r.stringBuffer>>
          BY <5>1
        <5>3. ASSUME e[1] = key PROVE table[i] = e
          <6>1. table[i] \in [1..1 -> Seq(Character)] /\ table[i][1] = key
            BY <1>2, <2>4, <4>1 DEF Row
          <6>2. r.stringBuffer = key
            BY <5>2, <5>3
          <6>3. \A f \in [1..1 -> Seq(Character)] : f = <<f[1]>>
            OBVIOUS
          <6> QED BY <5>2, <6>1, <6>2, <6>3, Zenon
        <5> QED BY <5>3
      <4>2. CASE columns # 1
        <5>1. 1 \in 1..Len(r.data) /\ 1 \in 1..(c - 1)
          BY <2>2, <2>6, <2>7, <4>2
        <5>2. r.stringBuffer \in Seq(Character)
          BY DEF Readers
        <5>3. e[1] = r.data[1]
          <6> DEFINE S == Seq(Character)
                     t == r.data
                     x == r.stringBuffer
          <6>1. t \in Seq(S) /\ x \in S /\ 1 \in 1..Len(t)
            BY <2>6, <5>1, <5>2
          <6> HIDE DEF S, t, x
          <6>2. Append(t, x)[1] = t[1]
            BY <6>1, AppendProperties
          <6> QED BY <6>2 DEF t, x
        <5> QED BY <2>5, <2>6, <5>1, <5>3, Zenon
      <4> QED BY <4>1, <4>2
    <3> HIDE DEF q, e
    <3> QED BY <1>3, <2>4, <3>1, <3>2, Zenon DEF Enough, q, l
  <2>8. CASE Len(r.data) + 1 # columns
    <3>1. q = r
      BY <2>8 DEF LastRow
    <3> HIDE DEF q
    <3> QED BY <1>3, <3>1, Zenon DEF Enough, q, l
  <2> QED BY <2>7, <2>8
<1> QED BY <1>1, <1>4, <1>5, Zenon

\* A text without its last character is read as the text is, as far as it goes.
LEMMA ReadsFront ==
  ASSUME NEW text \in Seq(FileCharacter), NEW n \in 0..Len(text), NEW f, NEW keys,
         Reads(f, text, columns, keys)
  PROVE  /\ Taken(text, n) \in Seq(FileCharacter) /\ Len(Taken(text, n)) = n
         /\ Reads([k \in 0..n |-> f[k]], Taken(text, n), columns, keys)
<1> DEFINE t == Taken(text, n)
           l == Len(text)
           g == [k \in 0..n |-> f[k]]
<1>1. l \in Nat /\ n \in 0..l
  BY LenProperties
<1>2. t \in Seq(FileCharacter) /\ Len(t) = n /\ \A k \in 1..n : t[k] = text[k]
  BY TakenProperties
<1>3. /\ f \in [0..l -> Readers] /\ f[0] = Fresh
      /\ \A k \in 1..l : f[k] = ReadCharacter(f[k - 1], text[k], columns, keys)
  BY DEF Reads
<1> HIDE DEF t, l
<1>4. g \in [0..n -> Readers] /\ g[0] = Fresh
  BY <1>1, <1>3
<1>5. ASSUME NEW k \in 1..n PROVE g[k] = ReadCharacter(g[k - 1], t[k], columns, keys)
  <2>1. k \in 0..n /\ k - 1 \in 0..n /\ k \in 1..l
    BY <1>1
  <2>2. g[k] = f[k] /\ g[k - 1] = f[k - 1]
    BY <2>1
  <2> HIDE DEF g
  <2> QED BY <1>2, <1>3, <2>1, <2>2, Zenon
<1> HIDE DEF g
<1>6. Reads(g, t, columns, keys)
  BY <1>2, <1>4, <1>5, Zenon DEF Reads
<1> QED BY <1>2, <1>6 DEF g, t

\* The last character of a table is the newline of its last row.  Without it, the
\* row is one that LastRow adds.
LEMMA EnoughAtFront ==
  ASSUME InputOK, NEW key, NEW r \in Readers, NEW ch \in FileCharacter,
         InTable(r, <<ch>>, {key}),
         LET q == ReadCharacter(r, ch, columns, {key})
         IN  q \in Readers /\ InTable(q, <<>>, {key})
  PROVE  Enough(LastRow(r, columns, {key}).rows, key)
<1> DEFINE q == ReadCharacter(r, ch, columns, {key})
           rest == <<ch>>
           l == Len(table)
<1>1. PICK m \in 0..l :
        /\ RowsRead(r, m, {key}) /\ m < l
        /\ InRow(r, table[m + 1], rest, TableRest(m + 1))
  BY Zenon DEF InTable
<1> DEFINE row == table[m + 1]
           after == TableRest(m + 1)
<1>2. m \in Nat /\ m + 1 \in Nat
  BY <1>1
<1>3. row \in Row /\ after \in Seq(FileCharacter)
  BY <1>1, <1>2, TableText
<1>4. rest = <<ch>> \o <<>> /\ <<>> \in Seq(FileCharacter)
  OBVIOUS
<1>5. \/ /\ ~r.escaped /\ Append(r.data, r.stringBuffer) = row
         /\ Len(r.data) + 1 = columns /\ rest = <<Newline>> \o after
      \/ RowGoesOn(r, row, rest, after, {key})
  <2>1. InRow(r, row, rest, after)
    BY <1>1
  <2> HIDE DEF row, after, rest
  <2> QED BY <1>3, <2>1, RowStep
<1> HIDE DEF row, after, rest
<1>6. CASE RowGoesOn(r, row, rest, after, {key})
  <2>1. PICK x \in FileCharacter, rest2 \in Seq(FileCharacter) :
          LET p == ReadCharacter(r, x, columns, {key})
          IN  rest = <<x>> \o rest2 /\ InRow(p, row, rest2, after)
    BY <1>6 DEF RowGoesOn
  <2> DEFINE p == ReadCharacter(r, x, columns, {key})
  <2>2. rest = <<x>> \o rest2 /\ InRow(p, row, rest2, after)
    BY <2>1
  <2>3. rest2 = <<>>
    <3> DEFINE none == <<>>
               B == FileCharacter
    <3>1. none \in Seq(B) /\ <<x>> \o rest2 = <<ch>> \o none
      BY <1>4, <2>2
    <3>2. x \in B /\ ch \in B /\ rest2 \in Seq(B)
      OBVIOUS
    <3> HIDE DEF none, B
    <3>3. x = ch /\ rest2 = none
      BY <3>1, <3>2, SameStart
    <3> QED BY <3>3 DEF none
  <2>4. p \in Readers
    BY ReadCharacterType DEF InputOK
  <2> HIDE DEF p
  <2> QED BY <1>3, <2>2, <2>3, <2>4, RowNotRead, Zenon
<1>7. CASE /\ Len(r.data) + 1 = columns /\ rest = <<Newline>> \o after
  <2>1. ch = Newline
    <3>1. Newline \in FileCharacter
      BY DEF FileCharacter
    <3> QED BY <1>3, <1>4, <1>7, <3>1, SameStart
  <2>2. q = NewRow(CallOp(r, {key}))
    BY <1>7, <2>1, CharacterAssumption DEF ReadCharacter, EndRow
  <2>3. q.rows = CallOp(r, {key}).rows
    BY <2>2 DEF NewRow, CallOp, Readers
  <2>4. q.rows = table
    BY AllRead
  <2>5. LastRow(r, columns, {key}).rows = table
    BY <1>7, <2>3, <2>4 DEF LastRow
  <2>6. l \in 0..l /\ Taken(table, l) = table
    BY LenProperties, TakenNext DEF InputOK
  <2> HIDE DEF l, q
  <2> QED BY <2>5, <2>6, Zenon DEF Enough, l
<1> QED BY <1>5, <1>6, <1>7

\* find returns the row of the name and no other, whole, although it goes on with
\* the characters of the read it found it in and with the start of a row that
\* they may end in; without one it returns none.
THEOREM FindsRowHolds == InputOK => FindsRow
<1> SUFFICES ASSUME InputOK, PlainTable, NEW text \in Texts, NEW key \in Names,
                    columns = 1 => key # <<>>
             PROVE  find(text, readSize, columns, key) = RowOf(key)
  BY Zenon DEF FindsRow
<1> DEFINE whole == Table(EscapedRows)
           l == Len(whole)
<1>1. columns \in Nat /\ readSize \in Nat \ {0}
  BY DEF InputOK
<1>2. whole \in Seq(FileCharacter)
  <2>1. 0 \in Nat
    OBVIOUS
  <2> QED BY <2>1, TableText, Zenon
<1>3. PICK f : Reads(f, whole, columns, {key})
  <2> HIDE DEF whole
  <2> QED BY <1>1, <1>2, ReadsExist
<1>4. \A p \in 0..l : f[p] \in Readers /\ InTable(f[p], Dropped(whole, p), {key})
  BY <1>3, ReadsTable
<1>5. text = whole \/ text = Front(whole)
  BY PlainText, Zenon DEF Texts
<1> HIDE DEF whole
<1>6. l \in Nat
  BY <1>2, LenProperties
<1>7. PICK n \in 0..l : text = Taken(whole, n) /\ (n = l \/ n = l - 1)
  <2>1. CASE text = whole
    <3>1. Taken(whole, l) = whole /\ l \in 0..l
      BY <1>2, <1>6, TakenNext
    <3> QED BY <2>1, <3>1
  <2>2. CASE text = Front(whole) /\ l # 0
    <3>1. text = Taken(whole, l - 1)
      BY <2>2 DEF Front, Taken
    <3>2. l - 1 \in 0..l
      BY <1>6, <2>2
    <3> QED BY <3>1, <3>2
  <2>3. CASE text = Front(whole) /\ l = 0
    <3>1. whole = <<>>
      BY <1>2, <2>3, EmptySeq
    <3>2. Front(<<>>) = <<>> /\ Taken(<<>>, 0) = <<>>
      BY DEF Front, Taken
    <3> QED BY <1>6, <2>3, <3>1, <3>2
  <2> QED BY <1>5, <2>1, <2>2, <2>3
<1> DEFINE g == [k \in 0..n |-> f[k]]
<1>8. text \in Seq(FileCharacter) /\ Len(text) = n /\ Reads(g, text, columns, {key})
  BY <1>2, <1>3, <1>7, ReadsFront
<1>9. PICK p \in 0..n :
        /\ readFromFile(text, readSize, columns, {key}) = LastRow(f[p], columns, {key})
        /\ p = n \/ f[p].terminateRead
  <2>1. \A p \in 0..n : g[p] = f[p]
    OBVIOUS
  <2> HIDE DEF g
  <2>2. PICK p \in 0..Len(text) :
        /\ readFromFile(text, readSize, columns, {key}) = LastRow(g[p], columns, {key})
        /\ p = Len(text) \/ g[p].terminateRead
    BY <1>1, <1>8, StopsSomewhere
  <2> QED BY <1>8, <2>1, <2>2, Zenon
<1> DEFINE r == f[p]
<1>10. r \in Readers /\ InTable(r, Dropped(whole, p), {key})
  <2>1. p \in 0..l
    BY <1>6
  <2> QED BY <1>4, <2>1, Zenon
<1>11. Enough(LastRow(r, columns, {key}).rows, key)
  <2>1. CASE r.terminateRead
    <3> HIDE DEF r
    <3> QED BY <1>10, <2>1, StoppedEarly
  <2>2. CASE p = l
    <3>1. InTable(r, <<>>, {key})
      BY <1>2, <1>10, <2>2, DroppedNext
    <3> HIDE DEF r
    <3> QED BY <1>10, <3>1, AllRead, EnoughAtEnd
  <2>3. CASE p = l - 1 /\ n = p
    <3>1. p \in Nat /\ p < l /\ p + 1 = l /\ l \in 0..l /\ l \in 1..l /\ l - 1 = p
      BY <1>6, <1>7, <2>3
    <3> DEFINE ch == whole[p + 1]
    <3>2. /\ ch \in FileCharacter /\ Dropped(whole, p) = <<ch>> \o Dropped(whole, p + 1)
          /\ Dropped(whole, l) = <<>>
      <4>1. \A i \in Nat : i < Len(whole) =>
              /\ whole[i + 1] \in FileCharacter /\ Head(Dropped(whole, i)) = whole[i + 1]
              /\ Dropped(whole, i) # <<>> /\ Tail(Dropped(whole, i)) = Dropped(whole, i + 1)
              /\ Dropped(whole, i) = <<whole[i + 1]>> \o Dropped(whole, i + 1)
        BY <1>2, DroppedNext
      <4>2. Dropped(whole, Len(whole)) = <<>>
        BY <1>2, DroppedNext
      <4> QED BY <3>1, <4>1, <4>2, Zenon
    <3>3. InTable(f[l], <<>>, {key}) /\ f[l] \in Readers
      BY <1>4, <3>1, <3>2
    <3>4. f[l] = ReadCharacter(r, ch, columns, {key})
      BY <1>3, <3>1 DEF Reads
    <3>5. <<ch>> \o <<>> = <<ch>>
      OBVIOUS
    <3>6. InTable(r, <<ch>>, {key})
      BY <1>10, <3>1, <3>2, <3>5, Zenon
    <3> HIDE DEF r, ch
    <3> QED BY <1>10, <3>2, <3>3, <3>4, <3>6, EnoughAtFront, Zenon
  <2> QED BY <1>7, <1>9, <2>1, <2>2, <2>3
<1> QED BY <1>9, <1>11, EnoughFinds, Zenon DEF r

(***************************************************************************)
(* base64.                                                                 *)
(***************************************************************************)
\* A byte in two parts.
LEMMA Parts ==
  ASSUME NEW a \in Octet
  PROVE  /\ a = 4 * (a \div 4) + (a % 4) /\ a \div 4 \in 0..63 /\ a % 4 \in 0..3
         /\ a = 16 * (a \div 16) + (a % 16) /\ a \div 16 \in 0..15 /\ a % 16 \in 0..15
         /\ a = 64 * (a \div 64) + (a % 64) /\ a \div 64 \in 0..3 /\ a % 64 \in 0..63
BY SMT DEF Octet

\* The parts are put into characters, and taken out again.
LEMMA FirstByte ==
  ASSUME NEW p \in 0..63, NEW q \in 0..3, NEW r \in 0..15
  PROVE  /\ ((p * 4) % 256) + ((q * 16 + r) \div 16) = 4 * p + q
         /\ q * 16 + r \in 0..63
BY SMT

LEMMA SecondByte ==
  ASSUME NEW q \in 0..3, NEW r \in 0..15, NEW t \in 0..15, NEW u \in 0..3
  PROVE  /\ (((q * 16 + r) * 16) % 256) + ((t * 4 + u) \div 4) = 16 * r + t
         /\ t * 4 + u \in 0..63
BY SMT

LEMMA ThirdByte ==
  ASSUME NEW t \in 0..15, NEW u \in 0..3, NEW v \in 0..63
  PROVE  (((t * 4 + u) * 64) % 256) + v = 64 * u + v
BY SMT

LEMMA CharactersDecoded ==
  ASSUME NEW a \in Octet, NEW b \in Octet, NEW c \in Octet
  PROVE  LET t == Characters(a, b, c)
         IN  /\ \A i \in 1..4 : t[i] \in 0..63
             /\ Octets(t[1], t[2], t[3], t[4]) = <<a, b, c>>
<1> DEFINE p == a \div 4
           q == a % 4
           r == b \div 16
           t == b % 16
           u == c \div 64
           v == c % 64
           x == q * 16 + r
           y == t * 4 + u
<1>1. p \in 0..63 /\ q \in 0..3 /\ a = 4 * p + q
  BY Parts
<1>2. r \in 0..15 /\ t \in 0..15 /\ b = 16 * r + t
  BY Parts
<1>3. u \in 0..3 /\ v \in 0..63 /\ c = 64 * u + v
  BY Parts
<1>4. Characters(a, b, c) = <<p, x, y, v>>
  BY DEF Characters
<1> HIDE DEF p, q, r, t, u, v
<1>5. ((p * 4) % 256) + (x \div 16) = a /\ x \in 0..63
  BY <1>1, <1>2, FirstByte
<1>6. ((x * 16) % 256) + (y \div 4) = b /\ y \in 0..63
  BY <1>1, <1>2, <1>3, SecondByte
<1>7. ((y * 64) % 256) + v = c
  BY <1>2, <1>3, ThirdByte
<1> HIDE DEF x, y
<1>8. Octets(p, x, y, v) = <<a, b, c>>
  BY <1>5, <1>6, <1>7, Zenon DEF Octets
<1> DEFINE w == Characters(a, b, c)
<1>9. w[1] = p /\ w[2] = x /\ w[3] = y /\ w[4] = v
  BY <1>4
<1> HIDE DEF w
<1>10. \A i \in 1..4 : w[i] \in 0..63
  BY <1>1, <1>3, <1>5, <1>6, <1>9
<1>11. Octets(w[1], w[2], w[3], w[4]) = <<a, b, c>>
  BY <1>8, <1>9, Zenon
<1> QED BY <1>10, <1>11 DEF w

\* What a decoded group holds: its bytes, and a zero for each that it lacks.
Filled(g) == [i \in 1..3 |-> ByteAt(g, i)]

\* A group of one to three bytes becomes four characters, and these its bytes.
LEMMA GroupDecodes ==
  ASSUME NEW g \in Seq(Octet), Len(g) \in 1..3
  PROVE  /\ EncodeGroup(g) \in Seq(0..64) /\ Len(EncodeGroup(g)) = 4
         /\ DecodeGroup(EncodeGroup(g)) = Filled(g)
         /\ Filled(g) \in Seq(Octet) /\ Len(Filled(g)) = 3
<1> DEFINE a == ByteAt(g, 1)
           b == ByteAt(g, 2)
           c == ByteAt(g, 3)
           w == Characters(a, b, c)
           e == EncodeGroup(g)
           n == Len(g)
<1>1. DOMAIN g = 1..n /\ \A i \in 1..n : g[i] \in Octet
  BY LenProperties, ElementOfSeq
<1>2. a \in Octet /\ b \in Octet /\ c \in Octet /\ a = g[1]
  <2>1. \A i \in 1..3 : ByteAt(g, i) \in Octet
    BY <1>1 DEF ByteAt, Octet
  <2>2. 1 \in DOMAIN g
    BY <1>1
  <2> QED BY <2>1, <2>2 DEF ByteAt
<1>3. e = [i \in 1..4 |-> IF i <= n + 1 THEN w[i] ELSE Padding]
  BY <1>2 DEF EncodeGroup
<1>4. b = 0 \/ n >= 2
  BY <1>1 DEF ByteAt
<1>5. c = 0 \/ n = 3
  BY <1>1 DEF ByteAt
<1>6. \A i \in 1..4 : w[i] \in 0..63
  BY <1>2, CharactersDecoded
<1>7. Octets(w[1], w[2], w[3], w[4]) = <<a, b, c>>
  BY <1>2, CharactersDecoded
<1>8. /\ n = 1 => w[3] = 0
      /\ n # 3 => w[4] = 0
  <2>1. w[3] = (b % 16) * 4 + (c \div 64) /\ w[4] = c % 64
    BY DEF Characters
  <2>2. (0 % 16) * 4 + (0 \div 64) = 0 /\ 0 % 64 = 0
    OBVIOUS
  <2>3. CASE n = 1
    <3>1. b = 0 /\ c = 0
      BY <1>4, <1>5, <2>3
    <3> QED BY <2>1, <2>2, <2>3, <3>1
  <2>4. CASE n = 2
    <3>1. c = 0
      BY <1>5, <2>4
    <3> QED BY <2>1, <2>2, <2>4, <3>1
  <2>5. CASE n = 3
    BY <2>5
  <2> QED BY <2>3, <2>4, <2>5
<1> HIDE DEF a, b, c, w, e, n
<1>9. n \in 1..3
  BY DEF n
<1> DEFINE S == 0..64
<1>10. e \in [1..4 -> S]
  <2>1. \A i \in 1..4 : (IF i <= n + 1 THEN w[i] ELSE Padding) \in S
    <3>1. Padding \in S /\ \A x \in 0..63 : x \in S
      BY DEF Padding
    <3> HIDE DEF S
    <3> QED BY <1>6, <3>1
  <2> HIDE DEF S
  <2> QED BY <1>3, <2>1
<1>11. e \in Seq(0..64) /\ Len(e) = 4 /\ DOMAIN e = 1..4
  <2> HIDE DEF S
  <2>1. e \in Seq(S) /\ Len(e) = 4 /\ DOMAIN e = 1..4
    BY <1>10, RunOf
  <2> QED BY <2>1 DEF S
<1> HIDE DEF S
<1>12. ASSUME NEW i \in 1..4 PROVE Decoded(e[i]) = w[i]
  <2>1. CASE i <= n + 1
    <3>1. e[i] = w[i]
      BY <1>3, <2>1
    <3>2. w[i] # 64
      <4>1. \A x \in 0..63 : x # 64
        OBVIOUS
      <4> QED BY <1>6, <4>1
    <3> QED BY <3>1, <3>2 DEF Decoded, Padding
  <2>2. CASE ~(i <= n + 1)
    <3>1. e[i] = Padding
      BY <1>3, <2>2
    <3>2. w[i] = 0
      BY <1>8, <1>9, <2>2
    <3> QED BY <3>1, <3>2 DEF Decoded
  <2> QED BY <2>1, <2>2
<1> DEFINE d == [i \in 1..4 |-> IF i \in DOMAIN e THEN Decoded(e[i]) ELSE 0]
<1>13. d[1] = w[1] /\ d[2] = w[2] /\ d[3] = w[3] /\ d[4] = w[4]
  BY <1>11, <1>12
<1>14. DecodeGroup(e) = Octets(d[1], d[2], d[3], d[4])
  BY <1>11 DEF DecodeGroup
<1> HIDE DEF d
<1>15. DecodeGroup(e) = <<a, b, c>>
  BY <1>7, <1>13, <1>14, Zenon
<1>16. Filled(g) = <<a, b, c>>
  BY DEF Filled, a, b, c
<1>17. Filled(g) \in Seq(Octet) /\ Len(Filled(g)) = 3
  <2>1. Filled(g) \in [1..3 -> Octet]
    BY <1>2 DEF Filled, a, b, c
  <2> QED BY <2>1, RunOf
<1> QED BY <1>11, <1>15, <1>16, <1>17 DEF e

\* The groups of the data, encoded, are the groups of the text.
LEMMA GroupsOfText ==
  ASSUME NEW data \in Seq(Octet)
  PROVE  LET groups == Pieces(data, 3)
             m == (Len(data) + 2) \div 3
         IN  /\ m \in Nat
             /\ Pieces(base64Encode(data), 4) = [k \in 1..m |-> EncodeGroup(groups[k])]
             /\ \A k \in 1..m : groups[k] \in Seq(Octet) /\ Len(groups[k]) \in 1..3
<1> DEFINE groups == Pieces(data, 3)
           m == (Len(data) + 2) \div 3
           coded == [k \in 1..m |-> EncodeGroup(groups[k])]
           text == base64Encode(data)
           parts == Pieces(text, 4)
<1>1. Len(data) \in Nat /\ Len(data) + 3 - 1 = Len(data) + 2
  BY LenProperties
<1>2. /\ groups \in Seq(Seq(Octet)) /\ m \in Nat /\ DOMAIN groups = 1..m /\ Len(groups) = m
      /\ \A k \in 1..m : Len(groups[k]) \in 1..3
  <2> HIDE DEF groups, m
  <2>1. (Len(data) + 3 - 1) \div 3 = m
    BY <1>1 DEF m
  <2>2. 3 \in Nat \ {0}
    OBVIOUS
  <2>3. CutInto(Octet, data, 3, groups, m)
    BY <2>1, <2>2, PiecesProperties DEF groups
  <2> QED BY <2>3 DEF CutInto
<1>3. \A k \in 1..m : groups[k] \in Seq(Octet) /\ Len(groups[k]) \in 1..3
  <2> HIDE DEF groups, m
  <2> QED BY <1>2, ElementOfSeq
<1>4. text = FlattenSeq(coded)
  BY <1>2, Zenon DEF base64Encode
<1> HIDE DEF groups, m, text
<1> DEFINE S == 0..64
<1>5. \A k \in 1..m : coded[k] \in Seq(S) /\ Len(coded[k]) = 4
  BY <1>3, GroupDecodes
<1> HIDE DEF S
<1>6. coded \in Seq(Seq(S)) /\ Len(coded) = m
  <2>1. coded \in [1..m -> Seq(S)]
    BY <1>5
  <2> HIDE DEF coded
  <2> QED BY <1>2, <2>1, RunOf
<1> HIDE DEF coded
<1>7. /\ text \in Seq(S) /\ Len(text) = m * 4
      /\ \A k \in 1..m, j \in 1..4 : text[(k - 1) * 4 + j] = coded[k][j]
  <2>1. \A k \in 1..Len(coded) : Len(coded[k]) = 4
    BY <1>5, <1>6
  <2>2. /\ FlattenSeq(coded) \in Seq(S) /\ Len(FlattenSeq(coded)) = Len(coded) * 4
        /\ \A k \in 1..Len(coded), j \in 1..4 :
             FlattenSeq(coded)[(k - 1) * 4 + j] = coded[k][j]
    <3> DEFINE w == 4
    <3>1. w \in Nat /\ \A k \in 1..Len(coded) : Len(coded[k]) = w
      BY <2>1
    <3> HIDE DEF w
    <3>2. /\ FlattenSeq(coded) \in Seq(S) /\ Len(FlattenSeq(coded)) = Len(coded) * w
          /\ \A k \in 1..Len(coded), j \in 1..w :
               FlattenSeq(coded)[(k - 1) * w + j] = coded[k][j]
      BY <1>6, <3>1, FlattenUniform
    <3> QED BY <3>2, Zenon DEF w
  <2> QED BY <1>4, <1>6, <2>2, Zenon
<1>8. (Len(text) + 4 - 1) \div 4 = m
  BY <1>2, <1>7
<1>9. /\ parts \in Seq(Seq(S)) /\ DOMAIN parts = 1..m /\ Len(parts) = m
      /\ \A k \in 1..m :
           /\ PieceEnd(text, 4, k) =
                IF (k - 1) * 4 + 4 <= Len(text) THEN (k - 1) * 4 + 4 ELSE Len(text)
           /\ Len(parts[k]) = PieceEnd(text, 4, k) - (k - 1) * 4
           /\ \A j \in 1..Len(parts[k]) : parts[k][j] = text[(k - 1) * 4 + j]
  <2>1. 4 \in Nat \ {0} /\ parts = Pieces(text, 4)
    OBVIOUS
  <2> HIDE DEF parts
  <2>2. CutInto(S, text, 4, parts, m)
    BY <1>7, <1>8, <2>1, PiecesProperties
  <2> QED BY <2>2, Zenon DEF CutInto
<1> HIDE DEF parts
<1>10. ASSUME NEW k \in 1..m PROVE parts[k] = coded[k]
  <2> DEFINE x == (k - 1) * 4
  <2>1. x + 4 <= Len(text) /\ x \in Nat
    BY <1>2, <1>7
  <2>2. PieceEnd(text, 4, k) = (IF x + 4 <= Len(text) THEN x + 4 ELSE Len(text))
        /\ Len(parts[k]) = PieceEnd(text, 4, k) - x
        /\ \A j \in 1..Len(parts[k]) : parts[k][j] = text[x + j]
    BY <1>9, Zenon
  <2>3. parts[k] \in Seq(S)
    BY <1>9, ElementOfSeq
  <2>4. \A j \in 1..4 : text[x + j] = coded[k][j]
    BY <1>7
  <2> HIDE DEF x
  <2>5. Len(parts[k]) = 4
    BY <2>1, <2>2
  <2>6. \A j \in 1..4 : parts[k][j] = coded[k][j]
    BY <2>2, <2>4, <2>5
  <2> QED BY <1>5, <2>3, <2>5, <2>6, SeqEqual
<1>11. parts = coded
  <2>1. Len(parts) = Len(coded) /\ \A k \in 1..Len(parts) : parts[k] = coded[k]
    BY <1>6, <1>9, <1>10
  <2> QED BY <1>6, <1>9, <2>1, SeqEqual
<1> QED BY <1>2, <1>3, <1>11 DEF parts, coded, text, m, groups

\* What is decoded: three bytes for each group, zeros where the data had none.
LEMMA DecodedText ==
  ASSUME NEW data \in Seq(Octet)
  PROVE  LET m == (Len(data) + 2) \div 3
             back == base64Decode(base64Encode(data))
         IN  /\ back \in Seq(Octet) /\ Len(back) = m * 3
             /\ \A i \in 1..(m * 3) : back[i] = IF i <= Len(data) THEN data[i] ELSE 0
<1> DEFINE groups == Pieces(data, 3)
           m == (Len(data) + 2) \div 3
           parts == Pieces(base64Encode(data), 4)
           blocks == [k \in 1..m |-> DecodeGroup(parts[k])]
           back == base64Decode(base64Encode(data))
           l == Len(data)
<1>1. /\ m \in Nat /\ parts = [k \in 1..m |-> EncodeGroup(groups[k])]
      /\ \A k \in 1..m : groups[k] \in Seq(Octet) /\ Len(groups[k]) \in 1..3
  BY GroupsOfText
<1>2. l \in Nat /\ l + 3 - 1 = l + 2
  BY LenProperties
<1>3. CutInto(Octet, data, 3, groups, m)
  <2> HIDE DEF groups, m, l
  <2>1. (l + 3 - 1) \div 3 = m
    BY <1>2, Zenon DEF m, l
  <2>2. 3 \in Nat \ {0}
    OBVIOUS
  <2> QED BY <2>1, <2>2, PiecesProperties DEF groups, l
<1>4. back = FlattenSeq(blocks)
  <2>1. DOMAIN parts = 1..m
    BY <1>1
  <2> HIDE DEF m
  <2> QED BY <2>1 DEF base64Decode
<1>5. l <= m * 3 /\ \A k \in 1..m : (k - 1) * 3 < l
  <2>0. \A n \in Nat : 3 * ((n + 2) \div 3) <= n + 2 /\ n <= 3 * ((n + 2) \div 3)
    OBVIOUS
  <2>1. 3 * m <= l + 2 /\ l <= 3 * m
    BY <1>2, <2>0, Zenon DEF m
  <2> HIDE DEF m, l
  <2> QED BY <1>1, <1>2, <2>1
<1> HIDE DEF groups, m, parts, back, l
<1>6. \A k \in 1..m : blocks[k] = Filled(groups[k]) /\ blocks[k] \in Seq(Octet) /\ Len(blocks[k]) = 3
  BY <1>1, GroupDecodes
<1>7. blocks \in Seq(Seq(Octet)) /\ Len(blocks) = m
  <2>1. blocks \in [1..m -> Seq(Octet)]
    BY <1>6
  <2> HIDE DEF blocks
  <2> QED BY <1>1, <2>1, RunOf
<1> HIDE DEF blocks
<1>8. /\ back \in Seq(Octet) /\ Len(back) = m * 3
      /\ \A k \in 1..m, j \in 1..3 : back[(k - 1) * 3 + j] = blocks[k][j]
  <2> DEFINE w == 3
  <2>1. w \in Nat /\ \A k \in 1..Len(blocks) : Len(blocks[k]) = w
    BY <1>6, <1>7
  <2> HIDE DEF w
  <2>2. /\ FlattenSeq(blocks) \in Seq(Octet) /\ Len(FlattenSeq(blocks)) = Len(blocks) * w
        /\ \A k \in 1..Len(blocks), j \in 1..w :
             FlattenSeq(blocks)[(k - 1) * w + j] = blocks[k][j]
    BY <1>7, <2>1, FlattenUniform
  <2> QED BY <1>4, <1>7, <2>2, Zenon DEF w
<1>9. ASSUME NEW k \in 1..m, NEW j \in 1..3
      PROVE  blocks[k][j] = IF (k - 1) * 3 + j <= l THEN data[(k - 1) * 3 + j] ELSE 0
  <2> DEFINE x == (k - 1) * 3
             g == groups[k]
             e == PieceEnd(data, 3, k)
  <2>1. blocks[k][j] = ByteAt(g, j)
    <3>1. blocks[k] = Filled(g)
      BY <1>6, Zenon
    <3> HIDE DEF g
    <3>2. Filled(g)[j] = ByteAt(g, j)
      BY Zenon DEF Filled
    <3> QED BY <3>1, <3>2, Zenon
  <2>2. /\ e = IF x + 3 <= l THEN x + 3 ELSE l
        /\ Len(g) = e - x
        /\ \A i \in 1..Len(g) : g[i] = data[x + i]
    BY <1>3, Zenon DEF CutInto, l
  <2>3. x \in Nat /\ x < l
    BY <1>1, <1>5
  <2>4. DOMAIN g = 1..Len(g)
    BY <1>1, LenProperties
  <2> HIDE DEF x, g, e
  <2>5. j \in 1..Len(g) <=> x + j <= l
    BY <1>2, <2>2, <2>3
  <2>6. blocks[k][j] = IF x + j <= l THEN data[x + j] ELSE 0
    BY <2>1, <2>2, <2>4, <2>5 DEF ByteAt
  <2> QED BY <2>6 DEF x
<1>10. ASSUME NEW i \in 1..(m * 3) PROVE back[i] = IF i <= l THEN data[i] ELSE 0
  <2> DEFINE k == (i + 2) \div 3
             j == i - (k - 1) * 3
  <2>1. k \in 1..m /\ j \in 1..3 /\ (k - 1) * 3 + j = i
    BY <1>1
  <2> HIDE DEF k, j
  <2>2. back[(k - 1) * 3 + j] = blocks[k][j]
    BY <1>8, <2>1, Zenon
  <2>3. blocks[k][j] = IF (k - 1) * 3 + j <= l THEN data[(k - 1) * 3 + j] ELSE 0
    BY <1>9, <2>1, Zenon
  <2> QED BY <2>1, <2>2, <2>3, Zenon
<1> QED BY <1>8, <1>10 DEF m, back, l

\* base64Encode writes groups of four: the assertion of base64Decode holds.
LEMMA TextInFours ==
  ASSUME NEW data \in Seq(Octet)
  PROVE  ~DecodeAborts(base64Encode(data))
<1> DEFINE groups == Pieces(data, 3)
           m == (Len(data) + 2) \div 3
           parts == Pieces(base64Encode(data), 4)
<1>1. /\ m \in Nat /\ parts = [k \in 1..m |-> EncodeGroup(groups[k])]
      /\ \A k \in 1..m : groups[k] \in Seq(Octet) /\ Len(groups[k]) \in 1..3
  BY GroupsOfText
<1> HIDE DEF groups, m, parts
<1>2. \A g \in ToSet(parts) : Len(g) = 4
  <2>1. \A g \in ToSet(parts) : \E k \in 1..m : g = EncodeGroup(groups[k])
    BY <1>1 DEF ToSet
  <2> QED BY <1>1, <2>1, GroupDecodes
<1> QED BY <1>2 DEF DecodeAborts, parts

\* What base64Encode wrote is decoded to the same bytes, followed by a zero for
\* every byte its last group lacks, and the assertion of base64Decode holds.
THEOREM EncodedDecodesHolds == InputOK => EncodedDecodes
<1> SUFFICES ASSUME InputOK PROVE EncodedDecodes
  OBVIOUS
<1> DEFINE l == Len(octets)
           m == (l + 2) \div 3
           n == (3 - (l % 3)) % 3
           zeros == [i \in 1..n |-> 0]
           back == base64Decode(base64Encode(octets))
           whole == octets \o zeros
<1>1. octets \in Seq(Octet) /\ l \in Nat
  BY LenProperties DEF InputOK
<1>2. /\ back \in Seq(Octet) /\ Len(back) = m * 3
      /\ \A i \in 1..(m * 3) : back[i] = IF i <= l THEN octets[i] ELSE 0
  BY <1>1, DecodedText
<1>3. n \in Nat /\ m \in Nat /\ m * 3 = l + n
  <2> HIDE DEF l
  <2> QED BY <1>1
<1> HIDE DEF l, m, n, back
<1>4. zeros \in Seq(Octet) /\ Len(zeros) = n /\ \A i \in 1..n : zeros[i] = 0
  <2>1. zeros \in [1..n -> Octet]
    BY DEF Octet
  <2> QED BY <1>3, <2>1, RunOf
<1> HIDE DEF zeros
<1>5. /\ whole \in Seq(Octet) /\ Len(whole) = l + n
      /\ \A i \in 1..(l + n) : whole[i] = IF i <= l THEN octets[i] ELSE zeros[i - l]
  BY <1>1, <1>4, ConcatProperties DEF l
<1> HIDE DEF whole
<1>6. \A i \in 1..Len(back) : back[i] = whole[i]
  <2> SUFFICES ASSUME NEW i \in 1..(l + n) PROVE back[i] = whole[i]
    BY <1>2, <1>3
  <2>1. i <= l \/ i - l \in 1..n
    BY <1>1, <1>3
  <2> QED BY <1>2, <1>3, <1>4, <1>5, <2>1
<1>7. back = whole
  BY <1>2, <1>3, <1>5, <1>6, SeqEqual
<1>8. ~DecodeAborts(base64Encode(octets))
  BY <1>1, TextInFours
<1> QED BY <1>7, <1>8, Zenon DEF EncodedDecodes, back, whole, zeros, n, l
=============================================================================
