--------------------------- MODULE DatabaseProofs ---------------------------
(* Proofs about the flat-file table, for any table, any rows in a chunk, any *)
(* number of runs of adduser and of operations: its invariant is inductive,  *)
(* and the table changes by whole operations as long as none overlap.        *)
EXTENDS Database, SequenceTheorems, TLAPS

Content == Row \cup {Hole}

(***************************************************************************)
(* What a chunk is, and what writing does to a file.                       *)
(***************************************************************************)

\* The larger and the smaller of two numbers.
LEMMA TwoNumbers ==
  ASSUME NEW a \in Int, NEW b \in Int
  PROVE  /\ Max({a, b}) = IF a >= b THEN a ELSE b
         /\ Min({a, b}) = IF a <= b THEN a ELSE b
<1>1. /\ \E x \in {a, b} : \A y \in {a, b} : x >= y
      /\ \E x \in {a, b} : \A y \in {a, b} : x <= y
  OBVIOUS
<1>2. Max({a, b}) \in {a, b} /\ \A y \in {a, b} : Max({a, b}) >= y
  BY <1>1 DEF Max
<1>3. Min({a, b}) \in {a, b} /\ \A y \in {a, b} : Min({a, b}) <= y
  BY <1>1 DEF Min
<1> QED BY <1>2, <1>3

\* The length is determined by the positions.
LEMMA SameInterval ==
  ASSUME NEW a \in Nat, NEW b \in Nat, 1..a = 1..b
  PROVE  a = b
<1>1. a >= 1 => a <= b
  <2>1. a >= 1 => a \in 1..b
    OBVIOUS
  <2> QED BY <2>1
<1>2. b >= 1 => b <= a
  <2>1. b >= 1 => b \in 1..a
    OBVIOUS
  <2> QED BY <2>1
<1> QED BY <1>1, <1>2

\* The n elements behind the first m.
LEMMA PartOfSequence ==
  ASSUME NEW S, NEW s, NEW m \in Int, NEW n \in Int,
         \A i \in (m + 1)..(m + n) : s[i] \in S
  PROVE  /\ SubSeq(s, m + 1, m + n) \in Seq(S)
         /\ Len(SubSeq(s, m + 1, m + n)) = IF n > 0 THEN n ELSE 0
         /\ \A i \in 1..n : SubSeq(s, m + 1, m + n)[i] = s[m + i]
<1>1. PICK a \in Int, b \in Int : a = m + 1 /\ b = m + n
  OBVIOUS
<1>2. /\ SubSeq(s, a, b) \in Seq(S)
      /\ Len(SubSeq(s, a, b)) = IF a <= b THEN b - a + 1 ELSE 0
      /\ \A i \in 1..(b - a + 1) : SubSeq(s, a, b)[i] = s[a + i - 1]
  BY <1>1, SubSeqProperties
<1>3. /\ b - a + 1 = n /\ (a <= b <=> n > 0)
      /\ \A i \in 1..n : a + i - 1 = m + i
  BY <1>1
<1> QED BY <1>1, <1>2, <1>3

\* The rows of a chunk are the next of the file; there are some unless all were
\* read.
LEMMA ChunkRowsRead ==
  ASSUME DatabaseTypeOK, NEW w \in Process, in[w] # NoFile
  PROVE  /\ in[w] \in File
         /\ rows[in[w]] \in Seq(Content)
         /\ Chunk(w) \in Seq(Content)
         /\ DOMAIN Chunk(w) = 1..Len(Chunk(w))
         /\ Len(Chunk(w)) \in Nat
         /\ \A k \in DOMAIN Chunk(w) :
              /\ pos[w] + k \in DOMAIN rows[in[w]]
              /\ Chunk(w)[k] = rows[in[w]][pos[w] + k]
         /\ pos[w] <= Len(rows[in[w]]) => pos[w] + Len(Chunk(w)) <= Len(rows[in[w]])
         /\ Chunk(w) = <<>> <=> pos[w] >= Len(rows[in[w]])
<1> DEFINE rs == rows[in[w]]
           n == Min({ChunkRows, Len(rs) - pos[w]})
<1>1. in[w] \in File /\ rs \in Seq(Content) /\ pos[w] \in Nat
  BY DEF DatabaseTypeOK, Content
<1>2. Len(rs) \in Nat /\ DOMAIN rs = 1..Len(rs) /\ ChunkRows \in Nat \ {0}
  BY <1>1, LenProperties, DatabaseAssumption
<1>3. n = IF ChunkRows <= Len(rs) - pos[w] THEN ChunkRows ELSE Len(rs) - pos[w]
  <2>1. ChunkRows \in Int /\ Len(rs) - pos[w] \in Int
    BY <1>1, <1>2
  <2> QED BY <2>1, TwoNumbers
<1>4. Chunk(w) = SubSeq(rs, pos[w] + 1, pos[w] + n)
  BY DEF Chunk
<1> HIDE DEF n, rs
<1>5. \A i \in (pos[w] + 1)..(pos[w] + n) : i \in DOMAIN rs /\ rs[i] \in Content
  BY <1>1, <1>2, <1>3, ElementOfSeq
<1>6. pos[w] + 1 \in Int /\ pos[w] + n \in Int /\ n \in Int
  BY <1>1, <1>2, <1>3
<1>7. /\ Chunk(w) \in Seq(Content)
      /\ Len(Chunk(w)) = IF n > 0 THEN n ELSE 0
      /\ \A i \in 1..n : Chunk(w)[i] = rs[pos[w] + i]
  <2>1. pos[w] \in Int /\ \A i \in (pos[w] + 1)..(pos[w] + n) : rs[i] \in Content
    BY <1>1, <1>5
  <2>2. PICK m \in Int : m = pos[w]
    BY <2>1
  <2>3. \A i \in (m + 1)..(m + n) : rs[i] \in Content
    BY <2>1, <2>2
  <2>4. /\ SubSeq(rs, m + 1, m + n) \in Seq(Content)
        /\ Len(SubSeq(rs, m + 1, m + n)) = IF n > 0 THEN n ELSE 0
        /\ \A i \in 1..n : SubSeq(rs, m + 1, m + n)[i] = rs[m + i]
    BY <1>6, <2>3, PartOfSequence
  <2> QED BY <1>4, <2>2, <2>4
<1>8. DOMAIN Chunk(w) = 1..Len(Chunk(w))
  BY <1>7, LenProperties
<1>9. ASSUME NEW k \in DOMAIN Chunk(w)
      PROVE  pos[w] + k \in DOMAIN rs /\ Chunk(w)[k] = rs[pos[w] + k]
  <2>1. k \in 1..n /\ pos[w] + k \in (pos[w] + 1)..(pos[w] + n)
    BY <1>1, <1>6, <1>7, <1>8
  <2> QED BY <1>5, <1>7, <2>1
<1>10. Chunk(w) = <<>> <=> Len(Chunk(w)) = 0
  BY <1>7, EmptySeq
<1>12. n > 0 <=> pos[w] < Len(rs)
  BY <1>1, <1>2, <1>3
<1>13. Len(Chunk(w)) \in Nat /\ (Chunk(w) = <<>> <=> pos[w] >= Len(rs))
  BY <1>1, <1>2, <1>6, <1>7, <1>10, <1>12
<1>14. pos[w] <= Len(rs) => pos[w] + Len(Chunk(w)) <= Len(rs)
  BY <1>1, <1>2, <1>3, <1>6, <1>7
<1> QED BY <1>1, <1>7, <1>8, <1>9, <1>13, <1>14 DEF rs

\* Writing changes one file; behind its last row it appends.
LEMMA WrittenRows ==
  ASSUME rows \in [File -> Seq(Content)], NEW f \in File \cup {NoFile},
         NEW k \in Nat, NEW rs \in Seq(Content)
  PROVE  /\ Written(f, k, rs) \in [File -> Seq(Content)]
         /\ \A g \in File : g # f => Written(f, k, rs)[g] = rows[g]
         /\ f # NoFile /\ k = Len(rows[f]) =>
              Written(f, k, rs)[f] = [i \in 1..(k + Len(rs)) |->
                                        IF i <= k THEN rows[f][i] ELSE rs[i - k]]
<1>1. CASE f = NoFile
  BY <1>1, DatabaseAssumption DEF Written
<1>2. CASE f # NoFile
  <2> DEFINE old == rows[f]
             m == Max({Len(old), k + Len(rs)})
             new == [i \in 1..m |->
                       IF i \in (k + 1)..(k + Len(rs)) THEN rs[i - k]
                       ELSE IF i <= Len(old) THEN old[i] ELSE Hole]
  <2>1. f \in File /\ old \in Seq(Content)
    BY <1>2
  <2>2. /\ Len(old) \in Nat /\ Len(rs) \in Nat
        /\ \A i \in 1..Len(old) : old[i] \in Content
        /\ \A i \in 1..Len(rs) : rs[i] \in Content
    BY <2>1, LenProperties, ElementOfSeq
  <2>3. m = IF Len(old) >= k + Len(rs) THEN Len(old) ELSE k + Len(rs)
    BY <2>2, TwoNumbers
  <2>4. m \in Nat
    BY <2>2, <2>3
  <2>5. Written(f, k, rs) = [rows EXCEPT ![f] = new]
    BY <1>2 DEF Written
  <2>6. \A i \in 1..m :
          (IF i \in (k + 1)..(k + Len(rs)) THEN rs[i - k]
           ELSE IF i <= Len(old) THEN old[i] ELSE Hole) \in Content
    <3>1. Hole \in Content
      BY DEF Content
    <3> HIDE DEF m, old
    <3>2. TAKE i \in 1..m
    <3>3. CASE i \in (k + 1)..(k + Len(rs))
      <4>1. i - k \in 1..Len(rs)
        BY <2>2, <3>3
      <4> QED BY <2>2, <3>3, <4>1
    <3>4. CASE i \notin (k + 1)..(k + Len(rs))
      BY <2>2, <2>4, <3>1, <3>4
    <3> QED BY <3>3, <3>4
  <2>7. new \in [1..m -> Content]
    BY <2>6
  <2>8. new \in Seq(Content)
    <3> HIDE DEF new, m
    <3> QED BY <2>4, <2>7, SeqDef
  <2>9. k = Len(old) => new = [i \in 1..(k + Len(rs)) |->
                                 IF i <= k THEN old[i] ELSE rs[i - k]]
    <3> HAVE k = Len(old)
    <3>1. m = k + Len(rs)
      BY <2>2, <2>3
    <3> HIDE DEF m, old
    <3>2. \A i \in 1..m :
            (IF i \in (k + 1)..(k + Len(rs)) THEN rs[i - k]
             ELSE IF i <= Len(old) THEN old[i] ELSE Hole)
            = IF i <= k THEN old[i] ELSE rs[i - k]
      BY <2>2, <3>1
    <3> QED BY <3>1, <3>2
  <2> HIDE DEF new, m
  <2> QED BY <2>1, <2>5, <2>8, <2>9
<1> QED BY <1>1, <1>2

(***************************************************************************)
(* What holds whatever overlaps: types, operations, open files.            *)
(***************************************************************************)
FileInv == DatabaseTypeOK /\ OperationFits /\ FilesFit

\* A process whose operation ends, while the files that can be read stay so.
LEMMA EndsFiles ==
  ASSUME FileInv, NEW w \in Process, Ends(w), sealed \subseteq sealed'
  PROVE  /\ OperationFits' /\ FilesFit'
         /\ pc' \in [Process -> {"idle", "look", "scan", "ask", "remove", "create",
                                 "source", "copy", "append", "seal", "rename"}]
         /\ op' \in [Process -> Operation \cup {NoOp}]
         /\ out' \in [Process -> File \cup {NoFile}]
         /\ in' \in [Process -> File \cup {NoFile}]
         /\ pos' \in [Process -> Nat]
<1> USE DEF FileInv, Ends, Goes
<1>1. OperationFits'
  BY DEF OperationFits, DatabaseTypeOK
<1>2. FilesFit'
  BY DEF FilesFit, DatabaseTypeOK
<1> QED BY <1>1, <1>2 DEF DatabaseTypeOK

\* Starting an operation.
LEMMA BeginsFiles ==
  ASSUME FileInv, NEW w \in Process, NEW o \in Operation,
         NEW first \in {"remove", "look"}, Begins(w, o, first),
         overlapped' \in BOOLEAN, sameName' \in BOOLEAN,
         w = Server => o.kind = "update" /\ first = "remove",
         w # Server => o.kind = "insert"
  PROVE  FileInv'
<1> USE DEF FileInv, Begins, Goes, fileVars
<1>1. DatabaseTypeOK'
  BY DatabaseAssumption DEF DatabaseTypeOK
<1>2. OperationFits'
  BY DEF OperationFits, DatabaseTypeOK
<1>3. FilesFit'
  BY DEF FilesFit, DatabaseTypeOK
<1> QED BY <1>1, <1>2, <1>3

\* The new row, and a row as it is copied.
LEMMA RowsWritten ==
  ASSUME FileInv, NEW w \in Process, pc[w] # "idle"
  PROVE  /\ NewRow(w) \in Content
         /\ \A r \in Content : Copied(w, r) \in Content
<1>1. NewRow(w) \in Content
  BY DEF FileInv, OperationFits, NewRow, Operation, Content, Row
<1> QED BY <1>1 DEF Copied

\* The rows of a chunk as they are copied.
LEMMA ChunkCopied ==
  ASSUME FileInv, NEW w \in Process, pc[w] = "copy"
  PROVE  /\ [k \in DOMAIN Chunk(w) |-> Copied(w, Chunk(w)[k])] \in Seq(Content)
         /\ Len([k \in DOMAIN Chunk(w) |-> Copied(w, Chunk(w)[k])]) = Len(Chunk(w))
<1> DEFINE cs == [k \in DOMAIN Chunk(w) |-> Copied(w, Chunk(w)[k])]
<1>1. in[w] # NoFile
  BY DEF FileInv, FilesFit
<1>2. /\ Chunk(w) \in Seq(Content) /\ DOMAIN Chunk(w) = 1..Len(Chunk(w))
      /\ Len(Chunk(w)) \in Nat
  BY <1>1, ChunkRowsRead DEF FileInv
<1>3. \A k \in 1..Len(Chunk(w)) : Copied(w, Chunk(w)[k]) \in Content
  BY <1>2, ElementOfSeq, RowsWritten
<1>4. cs \in [1..Len(Chunk(w)) -> Content]
  BY <1>2, <1>3
<1> HIDE DEF cs
<1>5. cs \in Seq(Content)
  BY <1>2, <1>4, SeqDef
<1>6. DOMAIN cs = 1..Len(cs) /\ Len(cs) \in Nat /\ DOMAIN cs = 1..Len(Chunk(w))
  BY <1>4, <1>5, LenProperties
<1>7. Len(cs) = Len(Chunk(w))
  BY <1>2, <1>6, SameInterval
<1> QED BY <1>5, <1>7 DEF cs

\* A process that reads, before it asks for the password.
LEMMA LookFiles ==
  ASSUME FileInv, NEW w \in Process,
         OpenToLook(w) \/ ScanFinds(w) \/ ScanGoesOn(w) \/ ScanEnds(w) \/ PasswordGiven(w)
  PROVE  FileInv'
<1> USE DEF FileInv, fileVars, historyVars
<1>1. CASE OpenToLook(w)
  <2>1. DatabaseTypeOK'
    BY <1>1 DEF OpenToLook, Goes, DatabaseTypeOK
  <2>2. OperationFits'
    BY <1>1 DEF OpenToLook, Goes, DatabaseTypeOK, OperationFits
  <2>3. FilesFit'
    BY <1>1 DEF OpenToLook, Goes, Readable, DatabaseTypeOK, FilesFit
  <2> QED BY <2>1, <2>2, <2>3
<1>2. CASE ScanFinds(w)
  BY <1>2, EndsFiles DEF ScanFinds, DatabaseTypeOK
<1>3. CASE ScanGoesOn(w)
  <2>1. Len(Chunk(w)) \in Nat
    BY <1>3, ChunkRowsRead DEF ScanGoesOn, FilesFit
  <2>2. DatabaseTypeOK'
    BY <1>3, <2>1 DEF ScanGoesOn, DatabaseTypeOK
  <2>3. OperationFits' /\ FilesFit'
    BY <1>3 DEF ScanGoesOn, DatabaseTypeOK, OperationFits, FilesFit
  <2> QED BY <2>2, <2>3
<1>4. CASE ScanEnds(w)
  <2>1. DatabaseTypeOK'
    BY <1>4 DEF ScanEnds, Goes, DatabaseTypeOK
  <2>2. OperationFits'
    BY <1>4 DEF ScanEnds, Goes, DatabaseTypeOK, OperationFits
  <2>3. FilesFit'
    BY <1>4 DEF ScanEnds, Goes, DatabaseTypeOK, FilesFit
  <2> QED BY <2>1, <2>2, <2>3
<1>5. CASE PasswordGiven(w)
  <2>1. DatabaseTypeOK'
    BY <1>5 DEF PasswordGiven, Goes, DatabaseTypeOK
  <2>2. OperationFits'
    BY <1>5 DEF PasswordGiven, Goes, DatabaseTypeOK, OperationFits
  <2>3. FilesFit'
    BY <1>5 DEF PasswordGiven, Goes, DatabaseTypeOK, FilesFit
  <2> QED BY <2>1, <2>2, <2>3
<1> QED BY <1>1, <1>2, <1>3, <1>4, <1>5

\* A process in updateFile.
LEMMA UpdateFiles ==
  ASSUME FileInv, NEW w \in Process,
         \/ RemoveTmp(w) \/ CreateTmp(w) \/ OpenSource(w) \/ CopyChunk(w)
         \/ CopyEnds(w) \/ AppendRow(w) \/ Seal(w) \/ Rename(w)
  PROVE  FileInv'
<1> USE DEF FileInv, fileVars, historyVars
<1>1. CASE RemoveTmp(w)
  <2>1. DatabaseTypeOK'
    BY <1>1 DEF RemoveTmp, Goes, DatabaseTypeOK
  <2>2. OperationFits'
    BY <1>1 DEF RemoveTmp, Goes, DatabaseTypeOK, OperationFits
  <2>3. FilesFit'
    BY <1>1 DEF RemoveTmp, Goes, DatabaseTypeOK, FilesFit
  <2> QED BY <2>1, <2>2, <2>3
<1>2. CASE CreateTmp(w)
  <2>1. DatabaseTypeOK'
    <3>1. <<>> \in Seq(Content)
      BY EmptySeq
    <3>2. \A f \in File : [rows EXCEPT ![f] = <<>>] \in [File -> Seq(Content)]
      BY <3>1 DEF DatabaseTypeOK, Content
    <3>3. rows' \in [File -> Seq(Content)] /\ sealed' \subseteq File
      BY <1>2, <3>2 DEF CreateTmp, DatabaseTypeOK, Content
    <3>4. tmp' \in File \cup {NoFile}
      BY <1>2 DEF CreateTmp, DatabaseTypeOK
    <3>5. out' \in [Process -> File \cup {NoFile}]
      <4>1. \A f \in File \cup {NoFile} :
              [out EXCEPT ![w] = f] \in [Process -> File \cup {NoFile}]
        BY DEF DatabaseTypeOK
      <4> QED BY <1>2, <4>1, ZenonT(60) DEF CreateTmp, DatabaseTypeOK
    <3> QED BY <1>2, <3>3, <3>4, <3>5 DEF CreateTmp, Goes, DatabaseTypeOK, Content
  <2>2. OperationFits'
    BY <1>2 DEF CreateTmp, Goes, DatabaseTypeOK, OperationFits
  <2>3. FilesFit'
    BY <1>2 DEF CreateTmp, Goes, Unused, DatabaseTypeOK, FilesFit
  <2> QED BY <2>1, <2>2, <2>3
<1>3. CASE OpenSource(w)
  <2>1. CASE Readable(table) /\ Goes(w, "copy")
    <3>1. DatabaseTypeOK'
      BY <1>3, <2>1 DEF OpenSource, Goes, Ends, Readable, DatabaseTypeOK
    <3>2. OperationFits'
      BY <1>3, <2>1 DEF OpenSource, Goes, Ends, Readable, DatabaseTypeOK, OperationFits
    <3>3. FilesFit'
      BY <1>3, <2>1 DEF OpenSource, Goes, Ends, Readable, DatabaseTypeOK, FilesFit
    <3> QED BY <3>1, <3>2, <3>3
  <2>2. CASE ~Readable(table) /\ op[w].kind = "insert" /\ Goes(w, "append")
    <3>1. DatabaseTypeOK'
      BY <1>3, <2>2 DEF OpenSource, Goes, DatabaseTypeOK
    <3>2. OperationFits'
      BY <1>3, <2>2 DEF OpenSource, Goes, DatabaseTypeOK, OperationFits
    <3>3. FilesFit'
      BY <1>3, <2>2 DEF OpenSource, Goes, DatabaseTypeOK, FilesFit
    <3> QED BY <3>1, <3>2, <3>3
  <2>3. CASE Ends(w)
    BY <1>3, <2>3, EndsFiles DEF OpenSource, DatabaseTypeOK
  <2> QED BY <1>3, <2>1, <2>2, <2>3 DEF OpenSource
<1>4. CASE CopyChunk(w)
  <2>1. Len(Chunk(w)) \in Nat
    BY <1>4, ChunkRowsRead DEF CopyChunk, FilesFit
  <2>2. rows' \in [File -> Seq(Content)]
    BY <1>4, ChunkCopied, WrittenRows DEF CopyChunk, DatabaseTypeOK, Content
  <2>3. DatabaseTypeOK'
    BY <1>4, <2>1, <2>2, SMTT(30) DEF CopyChunk, DatabaseTypeOK, Content
  <2>4. OperationFits' /\ FilesFit'
    BY <1>4 DEF CopyChunk, DatabaseTypeOK, OperationFits, FilesFit
  <2> QED BY <2>3, <2>4
<1>5. CASE CopyEnds(w)
  <2>1. DatabaseTypeOK'
    BY <1>5 DEF CopyEnds, Goes, DatabaseTypeOK
  <2>2. OperationFits'
    BY <1>5 DEF CopyEnds, Goes, DatabaseTypeOK, OperationFits
  <2>3. FilesFit'
    BY <1>5 DEF CopyEnds, Goes, DatabaseTypeOK, FilesFit
  <2> QED BY <2>1, <2>2, <2>3
<1>6. CASE AppendRow(w)
  <2>1. <<NewRow(w)>> \in Seq(Content)
    BY <1>6, RowsWritten DEF AppendRow
  <2>2. rows' \in [File -> Seq(Content)]
    BY <1>6, <2>1, WrittenRows DEF AppendRow, DatabaseTypeOK, Content
  <2>3. DatabaseTypeOK'
    BY <1>6, <2>2 DEF AppendRow, Goes, DatabaseTypeOK, Content
  <2>4. OperationFits'
    BY <1>6 DEF AppendRow, Goes, DatabaseTypeOK, OperationFits
  <2>5. FilesFit'
    BY <1>6 DEF AppendRow, Goes, DatabaseTypeOK, FilesFit
  <2> QED BY <2>3, <2>4, <2>5
<1>7. CASE Seal(w)
  <2>1. CASE out[w] # NoFile /\ Goes(w, "rename")
    <3>1. DatabaseTypeOK'
      BY <1>7, <2>1 DEF Seal, Ends, Goes, DatabaseTypeOK
    <3>2. OperationFits'
      BY <1>7, <2>1 DEF Seal, Ends, Goes, DatabaseTypeOK, OperationFits
    <3>3. FilesFit'
      BY <1>7, <2>1 DEF Seal, Ends, Goes, DatabaseTypeOK, FilesFit
    <3> QED BY <3>1, <3>2, <3>3
  <2>2. CASE out[w] = NoFile /\ Ends(w)
    BY <1>7, <2>2, EndsFiles DEF Seal, DatabaseTypeOK
  <2> QED BY <1>7, <2>1, <2>2 DEF Seal
<1>8. CASE Rename(w)
  <2>1. op[w].name \in Name
    BY <1>8 DEF Rename, OperationFits, Operation
  <2> QED BY <1>8, <2>1, EndsFiles DEF Rename, DatabaseTypeOK
<1> QED BY <1>1, <1>2, <1>3, <1>4, <1>5, <1>6, <1>7, <1>8

\* These facts are inductive by themselves.
LEMMA InitFiles == DatabaseInit => FileInv
<1> SUFFICES ASSUME DatabaseInit PROVE FileInv
  OBVIOUS
<1> USE DatabaseAssumption DEF DatabaseInit
<1>1. <<>> \in Seq(Content) /\ InitialRows \in Seq(Content)
  BY EmptySeq, SeqMonotonic DEF Content
<1>2. DatabaseTypeOK
  <2>1. rows \in [File -> Seq(Content)] /\ table \in File /\ sealed \subseteq File
    BY <1>1
  <2>2. pc \in [Process -> {"idle", "look", "scan", "ask", "remove", "create", "source",
                            "copy", "append", "seal", "rename"}]
    OBVIOUS
  <2>3. op \in [Process -> Operation \cup {NoOp}]
    OBVIOUS
  <2>4. /\ out \in [Process -> File \cup {NoFile}] /\ in \in [Process -> File \cup {NoFile}]
        /\ pos \in [Process -> Nat] /\ ops \in 0..MaxOps
    OBVIOUS
  <2> QED BY <2>1, <2>2, <2>3, <2>4 DEF DatabaseTypeOK, Content
<1>3. OperationFits /\ FilesFit
  BY DEF OperationFits, FilesFit
<1> QED BY <1>2, <1>3 DEF FileInv

\* Every step keeps them.
LEMMA NextFiles ==
  ASSUME FileInv, [DatabaseNext]_databaseVars
  PROVE  FileInv'
<1>1. ASSUME NEW u \in Name, NEW p \in Password, Update(u, p)
      PROVE  FileInv'
  <2>1. [kind |-> "update", name |-> u, password |-> p] \in Operation
    BY DEF Operation
  <2>2. overlapped' \in BOOLEAN /\ sameName' \in BOOLEAN
    BY <1>1 DEF Update, FileInv, DatabaseTypeOK
  <2> QED BY <1>1, <2>1, <2>2, BeginsFiles DEF Update, Process
<1>2. ASSUME NEW w \in Adder, NEW u \in Name, NEW p \in Password, AddUser(w, u, p)
      PROVE  FileInv'
  <2>1. [kind |-> "insert", name |-> u, password |-> p] \in Operation
    BY DEF Operation
  <2>2. overlapped' \in BOOLEAN /\ sameName' \in BOOLEAN
    BY <1>2 DEF AddUser, FileInv, DatabaseTypeOK
  <2>3. w \in Process /\ w # Server
    BY DatabaseAssumption DEF Process
  <2> QED BY <1>2, <2>1, <2>2, <2>3, BeginsFiles DEF AddUser
<1>3. ASSUME NEW w \in Process, Step(w)
      PROVE  FileInv'
  <2>1. CASE Stopped(w)
    BY <2>1, EndsFiles DEF Stopped, FileInv, DatabaseTypeOK, fileVars, historyVars
  <2> QED BY <1>3, <2>1, LookFiles, UpdateFiles DEF Step
<1>4. CASE UNCHANGED databaseVars
  <2> USE <1>4 DEF databaseVars, fileVars, procVars, historyVars
  <2>1. DatabaseTypeOK'
    BY DEF FileInv, DatabaseTypeOK
  <2>2. OperationFits' /\ FilesFit'
    BY DEF FileInv, OperationFits, FilesFit
  <2> QED BY <2>1, <2>2 DEF FileInv
<1> QED BY <1>1, <1>2, <1>3, <1>4 DEF DatabaseNext

\* Types are as declared, whatever programs overlap or are stopped.
THEOREM DatabaseTypeCorrect == DatabaseSpec => []DatabaseTypeOK
<1>1. DatabaseInit => FileInv
  BY InitFiles
<1>2. FileInv /\ [DatabaseNext]_databaseVars => FileInv'
  BY NextFiles
<1>3. FileInv => DatabaseTypeOK
  BY DEF FileInv
<1> QED BY <1>1, <1>2, <1>3, PTL DEF DatabaseSpec

(***************************************************************************)
(* While no two calls of updateFile overlap.                               *)
(***************************************************************************)
Apart == OneUpdates /\ TmpApart /\ TmpHolds

\* Where only one process is inside updateFile, the others are not.
LEMMA OthersOutside ==
  ASSUME FileInv, OneUpdates, NEW v \in Process, NEW w \in Process, v # w,
         pc[w] \notin {"idle", "look", "scan", "ask"}
  PROVE  pc[v] \in {"idle", "look", "scan", "ask"}
BY DEF OneUpdates, Updating

\* Nobody enters updateFile.
LEMMA NobodyEnters ==
  ASSUME OneUpdates, NEW w \in Process,
         \A v \in Process \ {w} : pc'[v] = pc[v],
         pc'[w] \in {"idle", "look", "scan", "ask"} \/ w \in Updating
  PROVE  OneUpdates'
<1>1. Updating' \subseteq Updating
  BY DEF Updating
<1> QED BY <1>1 DEF OneUpdates

\* A step that leaves the files alone and ends outside the part of updateFile that
\* creates, writes and seals.
LEMMA QuietApart ==
  ASSUME FileInv, FileInv', TmpApart, TmpHolds, NEW w \in Process,
         UNCHANGED fileVars,
         \A v \in Process \ {w} :
           /\ pc'[v] = pc[v] /\ op'[v] = op[v] /\ out'[v] = out[v]
           /\ in'[v] = in[v] /\ pos'[v] = pos[v],
         pc'[w] \in {"idle", "look", "scan", "ask", "remove"},
         in'[w] \in {NoFile, table, in[w]}
  PROVE  TmpApart' /\ TmpHolds'
<1> USE DEF fileVars
<1>1. TmpApart'
  <2>1. (table \in sealed)'
    BY DEF TmpApart
  <2>2. ASSUME NEW v \in Process, pc'[v] = "create" PROVE tmp' = NoFile
    BY <2>2 DEF TmpApart
  <2>3. ASSUME NEW v \in Process, pc'[v] = "copy" PROVE in'[v] = table'
    BY <2>3 DEF TmpApart
  <2>4. ASSUME NEW v \in Process,
               pc'[v] \in {"source", "copy", "append", "seal", "rename"}
        PROVE  /\ tmp' \in File /\ out'[v] = tmp' /\ tmp' # table'
               /\ \A x \in Process : in'[x] # tmp'
               /\ tmp' \in sealed' <=> pc'[v] = "rename"
    <3>1. v # w /\ pc[v] = pc'[v] /\ out[v] = out'[v]
      BY <2>4
    <3>2. /\ tmp \in File /\ out[v] = tmp /\ tmp # table
          /\ \A x \in Process : in[x] # tmp
          /\ tmp \in sealed <=> pc[v] = "rename"
      BY <2>4, <3>1 DEF TmpApart
    <3>3. \A x \in Process : in'[x] # tmp'
      BY <3>2, DatabaseAssumption
    <3> QED BY <3>1, <3>2, <3>3
  <2> QED BY <2>1, <2>2, <2>3, <2>4 DEF TmpApart
<1>2. TmpHolds'
  <2>1. ASSUME NEW v \in Process,
               pc'[v] \in {"source", "copy", "append", "seal", "rename"}
        PROVE  pc[v] = pc'[v] /\ op[v] = op'[v] /\ pos[v] = pos'[v]
    BY <2>1
  <2>2. ASSUME NEW v \in Process, pc'[v] = "source" PROVE rows'[tmp'] = <<>>
    BY <2>1, <2>2 DEF TmpHolds
  <2>3. ASSUME NEW v \in Process, pc'[v] = "copy"
        PROVE  /\ pos'[v] <= Len(rows'[table'])
               /\ rows'[tmp'] = [k \in 1..pos'[v] |-> Copied(v, rows[table][k])']
    BY <2>1, <2>3 DEF TmpHolds, Copied, NewRow
  <2>4. ASSUME NEW v \in Process, pc'[v] = "append"
        PROVE  pos'[v] = Len(rows'[table']) /\ rows'[tmp'] = rows'[table']
    BY <2>1, <2>4 DEF TmpHolds
  <2>5. ASSUME NEW v \in Process, pc'[v] \in {"seal", "rename"}
        PROVE  rows'[tmp'] = Result(v)'
    <3>1. Result(v)' = Result(v)
      BY <2>1, <2>5 DEF Result, NewRow
    <3>2. rows[tmp] = Result(v)
      BY <2>1, <2>5 DEF TmpHolds
    <3> QED BY <3>1, <3>2
  <2> QED BY <2>2, <2>3, <2>4, <2>5 DEF TmpHolds
<1> QED BY <1>1, <1>2

\* Starting an operation, and adduser until it has a password.
LEMMA OutsideApart ==
  ASSUME FileInv, FileInv', Apart, ~overlapped', NEW w \in Process,
         \/ \E u \in Name, p \in Password : Update(u, p) /\ w = Server
         \/ \E u \in Name, p \in Password : AddUser(w, u, p)
         \/ OpenToLook(w) \/ ScanFinds(w) \/ ScanGoesOn(w) \/ ScanEnds(w)
         \/ PasswordGiven(w) \/ Stopped(w)
  PROVE  /\ Apart'
         /\ UNCHANGED <<rows, sealed, table, added>>
<1> USE DEF Apart
<1>1. CASE \/ \E u \in Name, p \in Password : Update(u, p) /\ w = Server
           \/ PasswordGiven(w)
  <2>1. /\ UNCHANGED <<fileVars, added>> /\ Updating = {} /\ pc' = [pc EXCEPT ![w] = "remove"]
        /\ UNCHANGED <<out, in, pos>> /\ \A v \in Process \ {w} : op'[v] = op[v]
    BY <1>1 DEF Update, PasswordGiven, Begins, Goes, FileInv, DatabaseTypeOK
  <2>2. OneUpdates'
    BY <2>1 DEF OneUpdates, Updating, FileInv, DatabaseTypeOK
  <2>3. TmpApart' /\ TmpHolds'
    BY <2>1, QuietApart DEF FileInv, DatabaseTypeOK
  <2> QED BY <2>1, <2>2, <2>3 DEF fileVars
<1>2. CASE \E u \in Name, p \in Password : AddUser(w, u, p)
  <2>1. /\ UNCHANGED <<fileVars, added>> /\ pc' = [pc EXCEPT ![w] = "look"]
        /\ UNCHANGED <<out, in, pos>> /\ \A v \in Process \ {w} : op'[v] = op[v]
    BY <1>2 DEF AddUser, Begins, Goes, FileInv, DatabaseTypeOK
  <2>2. OneUpdates'
    BY <2>1, NobodyEnters DEF FileInv, DatabaseTypeOK
  <2>3. TmpApart' /\ TmpHolds'
    BY <2>1, QuietApart, SMTT(30) DEF FileInv, DatabaseTypeOK
  <2> QED BY <2>1, <2>2, <2>3 DEF fileVars
<1>3. CASE OpenToLook(w) \/ ScanFinds(w) \/ ScanGoesOn(w) \/ ScanEnds(w) \/ Stopped(w)
  <2>1. /\ UNCHANGED <<fileVars, added>>
        /\ \A v \in Process \ {w} :
             /\ pc'[v] = pc[v] /\ op'[v] = op[v] /\ out'[v] = out[v]
             /\ in'[v] = in[v] /\ pos'[v] = pos[v]
    BY <1>3 DEF OpenToLook, ScanFinds, ScanGoesOn, ScanEnds, Stopped, Ends, Goes,
                fileVars, historyVars, FileInv, DatabaseTypeOK
  <2>2. pc'[w] \in {"idle", "look", "scan", "ask"}
    BY <1>3 DEF OpenToLook, ScanFinds, ScanGoesOn, ScanEnds, Stopped, Ends, Goes,
                FileInv, DatabaseTypeOK
  <2>3. in'[w] \in {NoFile, table, in[w]}
    BY <1>3 DEF OpenToLook, ScanFinds, ScanGoesOn, ScanEnds, Stopped, Ends, Goes,
                FileInv, DatabaseTypeOK
  <2>4. OneUpdates'
    BY <2>1, <2>2, NobodyEnters
  <2>5. TmpApart' /\ TmpHolds'
    BY <2>1, <2>2, <2>3, QuietApart
  <2> QED BY <2>1, <2>4, <2>5 DEF fileVars
<1> QED BY <1>1, <1>2, <1>3

\* The steps of the only process in updateFile: what is to be shown of it alone.
LEMMA UpdaterApart ==
  ASSUME FileInv, OneUpdates, NEW w \in Updating,
         \A v \in Process \ {w} : pc'[v] = pc[v],
         table' \in sealed',
         pc'[w] = "create" => tmp' = NoFile,
         pc'[w] = "copy" => in'[w] = table',
         pc'[w] \in {"source", "copy", "append", "seal", "rename"} =>
           /\ tmp' \in File /\ out'[w] = tmp' /\ tmp' # table'
           /\ \A v \in Process : in'[v] # tmp'
           /\ tmp' \in sealed' <=> pc'[w] = "rename",
         pc'[w] = "source" => rows'[tmp'] = <<>>,
         pc'[w] = "copy" =>
           /\ pos'[w] <= Len(rows'[table'])
           /\ rows'[tmp'] = [k \in 1..pos'[w] |-> Copied(w, rows[table][k])'],
         pc'[w] = "append" => pos'[w] = Len(rows'[table']) /\ rows'[tmp'] = rows'[table'],
         pc'[w] \in {"seal", "rename"} => rows'[tmp'] = Result(w)'
  PROVE  Apart'
<1>1. w \in Process /\ pc[w] \notin {"idle", "look", "scan", "ask"}
  BY DEF Updating
<1>2. \A v \in Process : v # w => pc'[v] \in {"idle", "look", "scan", "ask"}
  BY <1>1, OthersOutside
<1>3. OneUpdates'
  BY <1>2 DEF OneUpdates, Updating
<1>4. TmpApart'
  BY <1>2 DEF TmpApart
<1>5. TmpHolds'
  BY <1>2 DEF TmpHolds
<1> QED BY <1>3, <1>4, <1>5 DEF Apart

\* Removing and creating the temporary file, and opening the table.
LEMMA OpenApart ==
  ASSUME FileInv, Apart, NEW w \in Process,
         RemoveTmp(w) \/ CreateTmp(w) \/ OpenSource(w)
  PROVE  /\ Apart'
         /\ \A f \in sealed \cap sealed' : rows'[f] = rows[f]
         /\ UNCHANGED <<table, added>>
<1> USE DEF Apart, fileVars, historyVars
<1>1. w \in Updating
  BY DEF RemoveTmp, CreateTmp, OpenSource, Updating
<1>2. table \in File /\ table \in sealed /\ Readable(table)
  BY DatabaseAssumption DEF FileInv, DatabaseTypeOK, TmpApart, Readable
<1>3. CASE RemoveTmp(w)
  <2>1. pc' = [pc EXCEPT ![w] = "create"] /\ tmp' = NoFile /\ UNCHANGED <<rows, sealed, table, added>>
    BY <1>3 DEF RemoveTmp, Goes
  <2>2. pc'[w] = "create" /\ \A v \in Process \ {w} : pc'[v] = pc[v]
    BY <2>1 DEF FileInv, DatabaseTypeOK
  <2>3. Apart'
    BY <1>1, <1>2, <2>1, <2>2, UpdaterApart
  <2> QED BY <2>1, <2>3
<1>4. CASE CreateTmp(w)
  <2>1. tmp = NoFile
    BY <1>4 DEF CreateTmp, TmpApart
  <2>2. PICK f \in File :
          /\ Unused(f) /\ tmp' = f /\ out' = [out EXCEPT ![w] = f]
          /\ rows' = [rows EXCEPT ![f] = <<>>] /\ sealed' = sealed \ {f}
    BY <1>4, <2>1 DEF CreateTmp
  <2>3. pc' = [pc EXCEPT ![w] = "source"] /\ UNCHANGED <<table, in, added>>
    BY <1>4 DEF CreateTmp, Goes
  <2>4. pc'[w] = "source" /\ \A v \in Process \ {w} : pc'[v] = pc[v]
    BY <2>3 DEF FileInv, DatabaseTypeOK
  <2>5. out'[w] = f /\ rows'[f] = <<>> /\ \A g \in File \ {f} : rows'[g] = rows[g]
    BY <2>2 DEF FileInv, DatabaseTypeOK
  <2>6. f # table /\ \A v \in Process : in'[v] # f
    BY <2>2, <2>3 DEF Unused
  <2>7. Apart'
    BY <1>1, <1>2, <2>2, <2>3, <2>4, <2>5, <2>6, UpdaterApart
  <2>8. sealed \subseteq File
    BY DEF FileInv, DatabaseTypeOK
  <2> QED BY <2>2, <2>3, <2>5, <2>7, <2>8
<1>5. CASE OpenSource(w)
  <2>1. /\ in' = [in EXCEPT ![w] = table] /\ pc' = [pc EXCEPT ![w] = "copy"]
        /\ UNCHANGED <<fileVars, out, pos, op, added>> /\ pc[w] = "source"
    BY <1>2, <1>5 DEF OpenSource, Goes
  <2>2. /\ pc'[w] = "copy" /\ \A v \in Process \ {w} : pc'[v] = pc[v]
        /\ in'[w] = table /\ \A v \in Process \ {w} : in'[v] = in[v]
    BY <2>1 DEF FileInv, DatabaseTypeOK
  <2>3. /\ tmp \in File /\ out[w] = tmp /\ tmp # table /\ tmp \notin sealed
        /\ \A v \in Process : in[v] # tmp
    BY <2>1 DEF TmpApart
  <2>4. pos[w] = 0 /\ rows[tmp] = <<>>
    BY <2>1 DEF FileInv, FilesFit, TmpHolds
  <2>5. Len(rows[table]) \in Nat
    BY <1>2, LenProperties DEF FileInv, DatabaseTypeOK
  <2>6. <<>> = [k \in 1..0 |-> Copied(w, rows[table][k])']
    OBVIOUS
  <2>7. Apart'
    <3>1. \A v \in Process : in'[v] # tmp'
      BY <2>1, <2>2, <2>3
    <3>2. rows'[tmp'] = [k \in 1..pos'[w] |-> Copied(w, rows[table][k])']
      BY <2>1, <2>4, <2>6
    <3>3. pos'[w] <= Len(rows'[table'])
      BY <2>1, <2>4, <2>5
    <3> QED BY <1>1, <1>2, <2>1, <2>2, <2>3, <3>1, <3>2, <3>3, UpdaterApart
  <2> QED BY <2>1, <2>7
<1> QED BY <1>3, <1>4, <1>5

\* Copying a chunk.
LEMMA CopyApart ==
  ASSUME FileInv, Apart, NEW w \in Process, CopyChunk(w)
  PROVE  /\ Apart'
         /\ \A f \in sealed \cap sealed' : rows'[f] = rows[f]
         /\ UNCHANGED <<table, added>>
<1> USE DEF Apart, historyVars
<1> DEFINE cs == [k \in DOMAIN Chunk(w) |-> Copied(w, Chunk(w)[k])]
           rs == rows[table]
<1>1. /\ pc[w] = "copy" /\ w \in Updating
      /\ rows' = Written(out[w], pos[w], cs)
      /\ pos' = [pos EXCEPT ![w] = @ + Len(Chunk(w))]
      /\ UNCHANGED <<sealed, table, tmp, pc, op, out, in, added>>
  BY DEF CopyChunk, Updating
<1>2. /\ table \in File /\ table \in sealed /\ in[w] = table /\ in[w] # NoFile
      /\ tmp \in File /\ out[w] = tmp /\ tmp # table /\ tmp \notin sealed
      /\ \A v \in Process : in[v] # tmp
  BY <1>1 DEF FileInv, DatabaseTypeOK, TmpApart, FilesFit
<1>3. /\ pos[w] <= Len(rs) /\ rows[tmp] = [k \in 1..pos[w] |-> Copied(w, rs[k])]
  BY <1>1 DEF TmpHolds
<1>4. /\ DOMAIN Chunk(w) = 1..Len(Chunk(w)) /\ Len(Chunk(w)) \in Nat
      /\ \A k \in DOMAIN Chunk(w) : Chunk(w)[k] = rs[pos[w] + k]
      /\ pos[w] + Len(Chunk(w)) <= Len(rs)
  BY <1>2, <1>3, ChunkRowsRead DEF FileInv
<1>5. pos[w] \in Nat /\ pos'[w] = pos[w] + Len(Chunk(w)) /\ tmp # NoFile
  BY <1>1, <1>2, DatabaseAssumption DEF FileInv, DatabaseTypeOK
<1>6. cs \in Seq(Content) /\ Len(cs) = Len(Chunk(w))
  BY <1>1, ChunkCopied
<1>7. Len(rows[tmp]) = pos[w]
  <2>1. rows[tmp] \in Seq(Content)
    BY <1>2 DEF FileInv, DatabaseTypeOK, Content
  <2>2. DOMAIN rows[tmp] = 1..Len(rows[tmp]) /\ Len(rows[tmp]) \in Nat
    BY <2>1, LenProperties
  <2>3. DOMAIN rows[tmp] = 1..pos[w]
    BY <1>3
  <2> QED BY <1>5, <2>2, <2>3, SameInterval
<1>8. /\ rows' \in [File -> Seq(Content)]
      /\ \A g \in File : g # tmp => rows'[g] = rows[g]
      /\ rows'[tmp] = [i \in 1..(pos[w] + Len(cs)) |->
                         IF i <= pos[w] THEN rows[tmp][i] ELSE cs[i - pos[w]]]
  <2>1. rows \in [File -> Seq(Content)]
    BY DEF FileInv, DatabaseTypeOK, Content
  <2> HIDE DEF cs
  <2>2. PICK f \in File \cup {NoFile}, k \in Nat : f = tmp /\ k = pos[w]
    BY <1>2, <1>5
  <2>3. /\ Written(f, k, cs) \in [File -> Seq(Content)]
        /\ \A g \in File : g # f => Written(f, k, cs)[g] = rows[g]
        /\ f # NoFile /\ k = Len(rows[f]) =>
             Written(f, k, cs)[f] = [i \in 1..(k + Len(cs)) |->
                                       IF i <= k THEN rows[f][i] ELSE cs[i - k]]
    BY <1>6, <2>1, WrittenRows
  <2>4. rows' = Written(f, k, cs) /\ k = Len(rows[f]) /\ f # NoFile
    BY <1>1, <1>2, <1>5, <1>7, <2>2
  <2> QED BY <2>2, <2>3, <2>4
<1>9. \A i \in 1..(pos[w] + Len(Chunk(w))) :
        (IF i <= pos[w] THEN rows[tmp][i] ELSE cs[i - pos[w]]) = Copied(w, rs[i])
  <2> TAKE i \in 1..(pos[w] + Len(Chunk(w)))
  <2>1. CASE i <= pos[w]
    BY <1>3, <1>5, <2>1
  <2>2. CASE i > pos[w]
    <3>1. i - pos[w] \in DOMAIN Chunk(w) /\ pos[w] + (i - pos[w]) = i
      BY <1>4, <1>5, <2>2
    <3> QED BY <1>4, <1>5, <2>2, <3>1
  <2> QED BY <1>5, <2>1, <2>2
<1> HIDE DEF cs
<1>10. rows'[tmp] = [i \in 1..(pos[w] + Len(Chunk(w))) |-> Copied(w, rs[i])]
  BY <1>6, <1>8, <1>9
<1>11. rows'[table] = rs
  BY <1>2, <1>8
<1>12. [i \in 1..pos'[w] |-> Copied(w, rows[table][i])']
         = [i \in 1..(pos[w] + Len(Chunk(w))) |-> Copied(w, rs[i])]
  BY <1>1, <1>5, <1>11 DEF Copied, NewRow
<1>13. Apart'
  <2>1. pc'[w] = "copy" /\ \A v \in Process \ {w} : pc'[v] = pc[v]
    BY <1>1
  <2>2. in'[w] = table' /\ table' \in sealed' /\ \A v \in Process : in'[v] # tmp'
    BY <1>1, <1>2
  <2>3. tmp' \in File /\ out'[w] = tmp' /\ tmp' # table' /\ tmp' \notin sealed'
    BY <1>1, <1>2
  <2>4. pos'[w] <= Len(rows'[table'])
    BY <1>1, <1>4, <1>5, <1>11
  <2>5. rows'[tmp'] = [i \in 1..pos'[w] |-> Copied(w, rows[table][i])']
    BY <1>1, <1>10, <1>12
  <2> HIDE DEF rs
  <2> QED BY <1>1, <2>1, <2>2, <2>3, <2>4, <2>5, UpdaterApart
<1>14. sealed \subseteq File
  BY DEF FileInv, DatabaseTypeOK
<1> QED BY <1>1, <1>2, <1>8, <1>13, <1>14

\* The end of the table, for an update and for an insertion.
LEMMA EndApart ==
  ASSUME FileInv, Apart, NEW w \in Process, CopyEnds(w)
  PROVE  /\ Apart'
         /\ \A f \in sealed \cap sealed' : rows'[f] = rows[f]
         /\ UNCHANGED <<table, added>>
<1> USE DEF Apart, fileVars, historyVars
<1> DEFINE rs == rows[table]
<1>1. /\ pc[w] = "copy" /\ Chunk(w) = <<>> /\ w \in Updating
      /\ in' = [in EXCEPT ![w] = NoFile]
      /\ pc' = [pc EXCEPT ![w] = IF op[w].kind = "insert" THEN "append" ELSE "seal"]
      /\ UNCHANGED <<rows, sealed, table, tmp, op, out, pos, added>>
  BY DEF CopyEnds, Goes, Updating
<1>2. /\ table \in File /\ table \in sealed /\ in[w] = table /\ in[w] # NoFile
      /\ tmp \in File /\ out[w] = tmp /\ tmp # table /\ tmp \notin sealed
      /\ \A v \in Process : in[v] # tmp
  BY <1>1 DEF FileInv, DatabaseTypeOK, TmpApart, FilesFit
<1>3. /\ pos[w] <= Len(rs) /\ rows[tmp] = [k \in 1..pos[w] |-> Copied(w, rs[k])]
  BY <1>1 DEF TmpHolds
<1>4. pos[w] >= Len(rs) /\ pos[w] \in Nat
  BY <1>1, <1>2, ChunkRowsRead DEF FileInv, DatabaseTypeOK
<1>5. Len(rs) \in Nat /\ DOMAIN rs = 1..Len(rs) /\ rs \in [1..Len(rs) -> Content]
  BY <1>2, LenProperties DEF FileInv, DatabaseTypeOK, Content
<1>6. pos[w] = Len(rs)
  BY <1>3, <1>4, <1>5
<1>7. \A v \in Process \ {w} : pc'[v] = pc[v]
  BY <1>1 DEF FileInv, DatabaseTypeOK
<1>8. \A v \in Process : in'[v] # tmp
  BY <1>1, <1>2, DatabaseAssumption DEF FileInv, DatabaseTypeOK
<1>9. tmp' \in File /\ out'[w] = tmp' /\ tmp' # table' /\ tmp' \notin sealed' /\ table' \in sealed'
  BY <1>1, <1>2
<1>10. op[w] \in Operation
  BY <1>1 DEF FileInv, OperationFits
<1>11. CASE op[w].kind = "insert"
  <2>1. rows[tmp] = rs
    BY <1>3, <1>5, <1>6, <1>11 DEF Copied
  <2>2. pc'[w] = "append"
    BY <1>1, <1>11 DEF FileInv, DatabaseTypeOK
  <2>3. pos'[w] = Len(rows'[table']) /\ rows'[tmp'] = rows'[table']
    BY <1>1, <1>6, <2>1
  <2>4. Apart'
    BY <1>1, <1>7, <1>8, <1>9, <2>2, <2>3, UpdaterApart
  <2> QED BY <1>1, <2>4
<1>12. CASE op[w].kind = "update"
  <2>1. rows[tmp] = Result(w)
    BY <1>3, <1>5, <1>6, <1>12 DEF Copied, Result, NewRow, Table!Changed
  <2>2. pc'[w] = "seal"
    BY <1>1, <1>12 DEF FileInv, DatabaseTypeOK
  <2>3. Result(w)' = Result(w)
    BY <1>1 DEF Result, NewRow
  <2>4. Apart'
    BY <1>1, <1>7, <1>8, <1>9, <2>1, <2>2, <2>3, UpdaterApart
  <2> QED BY <1>1, <2>4
<1> QED BY <1>10, <1>11, <1>12 DEF Operation

\* The new row at the end of the copy.
LEMMA AppendApart ==
  ASSUME FileInv, Apart, NEW w \in Process, AppendRow(w)
  PROVE  /\ Apart'
         /\ \A f \in sealed \cap sealed' : rows'[f] = rows[f]
         /\ UNCHANGED <<table, added>>
<1> USE DEF Apart, historyVars
<1> DEFINE rs == rows[table]
<1>1. /\ pc[w] = "append" /\ w \in Updating
      /\ rows' = Written(out[w], pos[w], <<NewRow(w)>>)
      /\ pc' = [pc EXCEPT ![w] = "seal"]
      /\ UNCHANGED <<sealed, table, tmp, op, out, in, pos, added>>
  BY DEF AppendRow, Goes, Updating
<1>2. /\ table \in File /\ table \in sealed
      /\ tmp \in File /\ out[w] = tmp /\ tmp # table /\ tmp \notin sealed
      /\ \A v \in Process : in[v] # tmp
  BY <1>1 DEF FileInv, DatabaseTypeOK, TmpApart
<1>3. pos[w] = Len(rs) /\ rows[tmp] = rs
  BY <1>1 DEF TmpHolds
<1>4. NewRow(w) \in Content /\ <<NewRow(w)>> \in Seq(Content) /\ Len(<<NewRow(w)>>) = 1
  BY <1>1, RowsWritten
<1>5. rs \in Seq(Content) /\ Len(rs) \in Nat /\ DOMAIN rs = 1..Len(rs)
  BY <1>2, LenProperties DEF FileInv, DatabaseTypeOK, Content
<1>6. /\ \A g \in File : g # tmp => rows'[g] = rows[g]
      /\ rows'[tmp] = [i \in 1..(Len(rs) + 1) |-> IF i <= Len(rs) THEN rs[i] ELSE NewRow(w)]
  <2>1. rows \in [File -> Seq(Content)] /\ tmp # NoFile
    BY <1>2, DatabaseAssumption DEF FileInv, DatabaseTypeOK, Content
  <2>2. PICK f \in File \cup {NoFile}, k \in Nat, new \in Seq(Content) :
          f = tmp /\ k = pos[w] /\ new = <<NewRow(w)>>
    BY <1>2, <1>3, <1>4, <1>5
  <2>3. /\ \A g \in File : g # f => Written(f, k, new)[g] = rows[g]
        /\ f # NoFile /\ k = Len(rows[f]) =>
             Written(f, k, new)[f] = [i \in 1..(k + Len(new)) |->
                                        IF i <= k THEN rows[f][i] ELSE new[i - k]]
    BY <2>1, WrittenRows
  <2>4. rows' = Written(f, k, new) /\ k = Len(rows[f]) /\ f # NoFile /\ Len(new) = 1
    BY <1>1, <1>2, <1>3, <1>4, <2>1, <2>2
  <2>5. \A i \in 1..(k + 1) : i <= k \/ new[i - k] = NewRow(w)
    BY <1>4, <2>2
  <2> QED BY <1>3, <2>2, <2>3, <2>4, <2>5
<1>7. rows'[tmp] = Append(rs, NewRow(w))
  <2> DEFINE ap == Append(rs, NewRow(w))
  <2>1. /\ ap \in Seq(Content) /\ Len(ap) = Len(rs) + 1
        /\ \A i \in 1..Len(rs) : ap[i] = rs[i]
        /\ ap[Len(rs) + 1] = NewRow(w)
    BY <1>4, <1>5, AppendProperties
  <2>2. ap \in [1..(Len(rs) + 1) -> Content]
    BY <2>1, LenProperties
  <2> HIDE DEF ap
  <2>3. \A i \in 1..(Len(rs) + 1) :
          ap[i] = IF i <= Len(rs) THEN rs[i] ELSE NewRow(w)
    BY <1>5, <2>1
  <2> QED BY <1>6, <2>2, <2>3 DEF ap
<1>8. rows'[table] = rs
  BY <1>2, <1>6
<1>9. op[w].kind = "insert"
  BY <1>1 DEF FileInv, OperationFits
<1>10. rows'[tmp'] = Result(w)'
  BY <1>1, <1>7, <1>8, <1>9 DEF Result, NewRow
<1>11. /\ pc'[w] = "seal" /\ \A v \in Process \ {w} : pc'[v] = pc[v]
  BY <1>1 DEF FileInv, DatabaseTypeOK
<1>12. Apart'
  BY <1>1, <1>2, <1>10, <1>11, UpdaterApart
<1>13. sealed \subseteq File
  BY DEF FileInv, DatabaseTypeOK
<1> QED BY <1>1, <1>2, <1>6, <1>12, <1>13

\* The file is made readable, and becomes the table.
LEMMA SealApart ==
  ASSUME FileInv, Apart, NEW w \in Process, Seal(w) \/ Rename(w)
  PROVE  /\ Apart'
         /\ UNCHANGED rows
         /\ Seal(w) => UNCHANGED <<table, added>>
         /\ Rename(w) => rows'[table'] = Result(w)
<1> USE DEF Apart, historyVars
<1>1. w \in Updating
  BY DEF Seal, Rename, Updating
<1>2. /\ table \in File /\ table \in sealed
      /\ tmp \in File /\ out[w] = tmp /\ tmp # table
      /\ \A v \in Process : in[v] # tmp
      /\ tmp \in sealed <=> pc[w] = "rename"
      /\ rows[tmp] = Result(w)
  BY DEF Seal, Rename, FileInv, DatabaseTypeOK, TmpApart, TmpHolds
<1>3. tmp # NoFile
  BY <1>2, DatabaseAssumption
<1>4. CASE Seal(w)
  <2>1. /\ sealed' = sealed \cup {tmp} /\ pc' = [pc EXCEPT ![w] = "rename"]
        /\ UNCHANGED <<op, out, in, pos, rows, table, tmp, added>>
    BY <1>2, <1>3, <1>4 DEF Seal, Goes
  <2>2. pc'[w] = "rename" /\ \A v \in Process \ {w} : pc'[v] = pc[v]
    BY <2>1 DEF FileInv, DatabaseTypeOK
  <2>3. Result(w)' = Result(w)
    BY <2>1 DEF Result, NewRow
  <2>4. Apart'
    BY <1>1, <1>2, <2>1, <2>2, <2>3, UpdaterApart
  <2>5. ~Rename(w)
    BY <1>4 DEF Seal, Rename
  <2> QED BY <2>1, <2>4, <2>5
<1>5. CASE Rename(w)
  <2>1. /\ table' = tmp /\ tmp' = NoFile /\ pc' = [pc EXCEPT ![w] = "idle"]
        /\ UNCHANGED <<rows, sealed>> /\ pc[w] = "rename"
    BY <1>3, <1>5 DEF Rename, Ends, Goes
  <2>2. pc'[w] = "idle" /\ \A v \in Process \ {w} : pc'[v] = pc[v]
    BY <2>1 DEF FileInv, DatabaseTypeOK
  <2>3. table' \in sealed'
    BY <1>2, <2>1
  <2>4. Apart'
    BY <1>1, <2>2, <2>3, UpdaterApart
  <2>5. ~Seal(w)
    BY <1>5 DEF Seal, Rename
  <2> QED BY <1>2, <2>1, <2>4, <2>5
<1> QED BY <1>4, <1>5

\* History: what was overlapped stays so.
LEMMA OverlappedStays ==
  ASSUME FileInv, [DatabaseNext]_databaseVars
  PROVE  (overlapped => overlapped') /\ (sameName => sameName')
<1>1. ASSUME NEW w \in Process, Step(w)
      PROVE  (overlapped => overlapped') /\ sameName' = sameName
  <2>1. CASE OpenToLook(w) \/ ScanFinds(w) \/ ScanGoesOn(w) \/ ScanEnds(w) \/ Stopped(w)
    BY <2>1 DEF OpenToLook, ScanFinds, ScanGoesOn, ScanEnds, Stopped, historyVars
  <2>0. CASE PasswordGiven(w)
    <3>1. overlapped' = (overlapped \/ Updating # {}) /\ sameName' = sameName
      BY <2>0 DEF PasswordGiven
    <3> QED BY <3>1, Zenon
  <2>2. CASE \/ RemoveTmp(w) \/ CreateTmp(w) \/ OpenSource(w) \/ CopyChunk(w)
             \/ CopyEnds(w) \/ AppendRow(w) \/ Seal(w) \/ Rename(w)
    BY <2>2 DEF RemoveTmp, CreateTmp, OpenSource, CopyChunk, CopyEnds, AppendRow, Seal,
                Rename, historyVars
  <2> QED BY <1>1, <2>0, <2>1, <2>2 DEF Step
<1>2. CASE \E u \in Name : \E p \in Password : Update(u, p)
  <2>1. overlapped' = (overlapped \/ Updating # {}) /\ sameName' = sameName
    BY <1>2 DEF Update
  <2> QED BY <2>1, Zenon
<1>3. CASE \E w \in Adder : \E u \in Name : \E p \in Password : AddUser(w, u, p)
  <2>1. PICK w \in Adder, u \in Name, p \in Password : AddUser(w, u, p)
    BY <1>3
  <2>2. /\ sameName' = (sameName \/ \E v \in Adder : pc[v] # "idle" /\ op[v].name = u)
        /\ overlapped' = overlapped
    BY <2>1 DEF AddUser
  <2> QED BY <2>2, Zenon
<1>4. CASE UNCHANGED databaseVars
  BY <1>4 DEF databaseVars, historyVars
<1> QED BY <1>1, <1>2, <1>3, <1>4 DEF DatabaseNext

\* What a step does to the files, unless updates overlap: what can be read stays,
\* and only a rename changes the table, to the result of its operation.
FilesStep ==
  /\ \A f \in sealed \cap sealed' : rows'[f] = rows[f]
  /\ \/ UNCHANGED <<table, added>> /\ rows'[table] = rows[table]
     \/ \E w \in Process : Rename(w) /\ rows'[table'] = Result(w)

\* Every step keeps the updates apart, or they overlap from then on.
LEMMA NextApart ==
  ASSUME FileInv, UpdatesApart, [DatabaseNext]_databaseVars
  PROVE  /\ UpdatesApart'
         /\ overlapped' \/ (Apart /\ Apart' /\ FilesStep)
<1> SUFFICES ASSUME ~overlapped'
             PROVE  Apart /\ Apart' /\ FilesStep
  BY DEF UpdatesApart, Apart
<1>1. FileInv' /\ Apart
  BY NextFiles, OverlappedStays DEF UpdatesApart, Apart
<1>2. SUFFICES Apart' /\ FilesStep
  BY <1>1
<1>3. ASSUME Apart', UNCHANGED <<rows, sealed, table, added>>
      PROVE  Apart' /\ FilesStep
  BY <1>3 DEF FilesStep
<1>4. table \in sealed /\ (Apart' => table' \in sealed')
  BY <1>1 DEF Apart, TmpApart
<1>5. ASSUME Apart', \A f \in sealed \cap sealed' : rows'[f] = rows[f],
             UNCHANGED <<table, added>>
      PROVE  Apart' /\ FilesStep
  BY <1>4, <1>5 DEF FilesStep
<1>6. CASE \E u \in Name : \E p \in Password : Update(u, p)
  <2>1. Server \in Process
    BY DEF Process
  <2> QED BY <1>1, <1>3, <1>6, <2>1, OutsideApart
<1>7. ASSUME NEW w \in Adder, NEW u \in Name, NEW p \in Password, AddUser(w, u, p)
      PROVE  Apart' /\ FilesStep
  <2>1. w \in Process
    BY DEF Process
  <2> QED BY <1>1, <1>3, <1>7, <2>1, OutsideApart
<1>8. ASSUME NEW w \in Process, Step(w)
      PROVE  Apart' /\ FilesStep
  <2>1. CASE \/ OpenToLook(w) \/ ScanFinds(w) \/ ScanGoesOn(w) \/ ScanEnds(w)
             \/ PasswordGiven(w) \/ Stopped(w)
    BY <1>1, <1>3, <2>1, OutsideApart
  <2>2. CASE RemoveTmp(w) \/ CreateTmp(w) \/ OpenSource(w)
    BY <1>1, <1>5, <2>2, OpenApart
  <2>3. CASE CopyChunk(w)
    BY <1>1, <1>5, <2>3, CopyApart
  <2>4. CASE CopyEnds(w)
    BY <1>1, <1>5, <2>4, EndApart
  <2>5. CASE AppendRow(w)
    BY <1>1, <1>5, <2>5, AppendApart
  <2>6. CASE Seal(w)
    <3>1. Apart' /\ UNCHANGED <<rows, table, added>>
      BY <1>1, <2>6, SealApart
    <3> QED BY <1>5, <3>1
  <2>7. CASE Rename(w)
    <3>1. Apart' /\ UNCHANGED rows /\ rows'[table'] = Result(w)
      BY <1>1, <2>7, SealApart
    <3> QED BY <2>7, <3>1 DEF FilesStep
  <2> QED BY <1>8, <2>1, <2>2, <2>3, <2>4, <2>5, <2>6, <2>7 DEF Step
<1>9. CASE UNCHANGED databaseVars
  <2> USE <1>9 DEF databaseVars, fileVars, procVars, historyVars
  <2>1. OneUpdates'
    BY <1>1 DEF Apart, OneUpdates, Updating
  <2>2. TmpApart'
    BY <1>1 DEF Apart, TmpApart
  <2>3. TmpHolds'
    BY <1>1 DEF Apart, TmpHolds, Copied, NewRow, Result, Table!Changed
  <2>4. UNCHANGED <<rows, sealed, table, added>>
    OBVIOUS
  <2> QED BY <1>3, <2>1, <2>2, <2>3, <2>4 DEF Apart
<1> QED BY <1>6, <1>7, <1>8, <1>9 DEF DatabaseNext

\* At first nobody updates, and the table can be read.
LEMMA InitApart == DatabaseInit => UpdatesApart
<1> SUFFICES ASSUME DatabaseInit PROVE Apart
  BY DEF UpdatesApart, Apart
<1> USE DEF DatabaseInit
<1>1. OneUpdates
  BY DEF OneUpdates, Updating
<1>2. TmpApart
  BY DEF TmpApart
<1>3. TmpHolds
  BY DEF TmpHolds
<1> QED BY <1>1, <1>2, <1>3 DEF Apart

\* Both hold in every state.
LEMMA ApartHolds == DatabaseSpec => [](FileInv /\ UpdatesApart)
<1>1. DatabaseInit => FileInv /\ UpdatesApart
  BY InitFiles, InitApart
<1>2. FileInv /\ UpdatesApart /\ [DatabaseNext]_databaseVars => FileInv' /\ UpdatesApart'
  BY NextFiles, NextApart
<1> QED BY <1>1, <1>2, PTL DEF DatabaseSpec

\* A file that can be read is not written to, unless updates overlap: whoever
\* reads the table in chunks sees it as it was at one moment.
THEOREM SealedStaysHolds == DatabaseSpec => SealedStays
<1>1. FileInv /\ UpdatesApart /\ [DatabaseNext]_databaseVars =>
        [overlapped' \/ \A f \in sealed \cap sealed' : rows'[f] = rows[f]]_databaseVars
  BY NextApart DEF FilesStep
<1> QED BY <1>1, ApartHolds, PTL DEF DatabaseSpec, SealedStays

\* Unless updates overlap, the table changes by one whole operation at a time,
\* wherever a program is stopped: the detailed table implements the abstract one.
THEOREM TableAtomicHolds == DatabaseSpec => TableAtomic
<1>1. FileInv /\ UpdatesApart /\ [DatabaseNext]_databaseVars => [AtomicStep]_databaseVars
  <2> SUFFICES ASSUME FileInv, UpdatesApart, [DatabaseNext]_databaseVars, ~overlapped'
               PROVE  Table!TableNext \/ UNCHANGED rows[table]
    BY DEF AtomicStep
  <2>1. FilesStep
    BY NextApart
  <2>2. ASSUME NEW w \in Process, Rename(w), rows'[table'] = Result(w)
        PROVE  Table!TableNext
    <3>1. op[w] \in Operation
      BY <2>2 DEF Rename, FileInv, OperationFits
    <3>2. CASE op[w].kind = "insert"
      <4>1. rows'[table'] = Append(rows[table], [name |-> op[w].name, password |-> op[w].password])
        BY <2>2, <3>2 DEF Result, NewRow
      <4>2. Table!Add(op[w].name, op[w].password)
        BY <4>1 DEF Table!Add
      <4> QED BY <3>1, <4>2 DEF Table!TableNext, Operation
    <3>3. CASE op[w].kind = "update"
      <4>1. rows'[table'] = Table!Changed(rows[table], op[w].name, op[w].password)
        BY <2>2, <3>3 DEF Result
      <4>2. Table!Change(op[w].name, op[w].password)
        BY <4>1 DEF Table!Change
      <4> QED BY <3>1, <4>2 DEF Table!TableNext, Operation
    <3> QED BY <3>1, <3>2, <3>3 DEF Operation
  <2> QED BY <2>1, <2>2 DEF FilesStep
<1> QED BY <1>1, ApartHolds, PTL DEF DatabaseSpec, TableAtomic

(***************************************************************************)
(* The names in the table.                                                 *)
(***************************************************************************)

\* An operation adds a row of its name or changes none of the names.
LEMMA ResultNames ==
  ASSUME FileInv, NEW w \in Process, pc[w] # "idle"
  PROVE  /\ \A u : HasRow(Result(w), u) <=>
              \/ HasRow(rows[table], u)
              \/ op[w].kind = "insert" /\ u = op[w].name
         /\ \A j, k \in DOMAIN Result(w) :
              \/ Result(w)[j].name # Result(w)[k].name
              \/ j = k
              \/ op[w].kind = "insert" /\ HasRow(rows[table], op[w].name)
              \/ \E x, y \in DOMAIN rows[table] :
                   rows[table][x].name = rows[table][y].name /\ x # y
<1> DEFINE rs == rows[table]
           res == Result(w)
<1>1. rs \in Seq(Content)
  BY DEF FileInv, DatabaseTypeOK, Content
<1>2. Len(rs) \in Nat /\ DOMAIN rs = 1..Len(rs)
  BY <1>1, LenProperties
<1>3. op[w] \in Operation /\ NewRow(w) \in Content /\ NewRow(w).name = op[w].name
  BY RowsWritten DEF FileInv, OperationFits, NewRow
<1>4. CASE op[w].kind = "insert"
  <2>1. res = Append(rs, NewRow(w))
    BY <1>4 DEF Result
  <2>2. /\ res \in Seq(Content) /\ Len(res) = Len(rs) + 1
        /\ \A i \in 1..Len(rs) : res[i] = rs[i]
        /\ res[Len(rs) + 1] = NewRow(w)
    BY <1>1, <1>3, <2>1, AppendProperties
  <2>3. DOMAIN res = 1..(Len(rs) + 1)
    BY <2>2, LenProperties
  <2> HIDE DEF res, rs
  <2>4. \A u : HasRow(res, u) <=> HasRow(rs, u) \/ u = op[w].name
    BY <1>2, <1>3, <2>2, <2>3 DEF HasRow
  <2>5. ASSUME NEW j \in DOMAIN res, NEW k \in DOMAIN res, res[j].name = res[k].name, j # k
        PROVE  \/ HasRow(rs, op[w].name)
               \/ \E x, y \in DOMAIN rs : rs[x].name = rs[y].name /\ x # y
    <3>1. CASE j \in DOMAIN rs /\ k \in DOMAIN rs
      BY <1>2, <2>2, <2>5, <3>1
    <3>2. CASE j = Len(rs) + 1
      BY <1>2, <1>3, <2>2, <2>3, <2>5, <3>2 DEF HasRow
    <3>3. CASE k = Len(rs) + 1
      BY <1>2, <1>3, <2>2, <2>3, <2>5, <3>3 DEF HasRow
    <3> QED BY <1>2, <2>3, <3>1, <3>2, <3>3
  <2> QED BY <1>4, <2>4, <2>5 DEF rs, res
<1>5. CASE op[w].kind = "update"
  <2>1. res = Table!Changed(rs, op[w].name, op[w].password)
    BY <1>5 DEF Result
  <2>2. DOMAIN res = DOMAIN rs /\ \A k \in DOMAIN rs : res[k].name = rs[k].name
    BY <2>1 DEF Table!Changed
  <2> HIDE DEF res, rs
  <2>3. \A u : HasRow(res, u) <=> HasRow(rs, u)
    BY <2>2 DEF HasRow
  <2>4. \A j, k \in DOMAIN res :
          \/ res[j].name # res[k].name \/ j = k
          \/ \E x, y \in DOMAIN rs : rs[x].name = rs[y].name /\ x # y
    BY <2>2
  <2> QED BY <1>5, <2>3, <2>4 DEF rs, res
<1> QED BY <1>3, <1>4, <1>5 DEF Operation

Lasting == {"ask", "remove", "create", "source", "copy", "append", "seal", "rename"}

\* How a run of adduser goes on.
LEMMA AdderMoves ==
  ASSUME FileInv, [DatabaseNext]_databaseVars, NEW v \in Adder, pc'[v] # "idle"
  PROVE  \/ \E u \in Name, p \in Password : AddUser(v, u, p)
         \/ /\ pc[v] # "idle" /\ op'[v] = op[v]
            /\ \/ OpenToLook(v) \/ ScanGoesOn(v) \/ ScanEnds(v)
               \/ pc'[v] = pc[v] /\ in'[v] = in[v] /\ pos'[v] = pos[v]
               \/ pc[v] \in Lasting /\ pc'[v] \in Lasting
<1> USE DEF FileInv, DatabaseTypeOK, Lasting
<1>1. v \in Process /\ v # Server
  BY DatabaseAssumption DEF Process
<1>2. CASE \E u \in Name : \E p \in Password : Update(u, p)
  BY <1>1, <1>2 DEF Update, Begins, Goes
<1>3. ASSUME NEW w \in Adder, NEW u \in Name, NEW p \in Password, AddUser(w, u, p), w # v
      PROVE  /\ pc[v] # "idle" /\ op'[v] = op[v]
             /\ pc'[v] = pc[v] /\ in'[v] = in[v] /\ pos'[v] = pos[v]
  BY <1>1, <1>3 DEF AddUser, Begins, Goes
<1>4. ASSUME NEW w \in Process, Step(w), w # v
      PROVE  /\ pc[v] # "idle" /\ op'[v] = op[v]
             /\ pc'[v] = pc[v] /\ in'[v] = in[v] /\ pos'[v] = pos[v]
  <2>1. CASE \/ OpenToLook(w) \/ ScanFinds(w) \/ ScanGoesOn(w) \/ ScanEnds(w)
             \/ PasswordGiven(w) \/ Stopped(w)
    BY <1>1, <1>4, <2>1 DEF OpenToLook, ScanFinds, ScanGoesOn, ScanEnds, PasswordGiven,
                            Stopped, Ends, Goes
  <2>2. CASE RemoveTmp(w) \/ CreateTmp(w) \/ OpenSource(w) \/ CopyChunk(w)
    BY <1>1, <1>4, <2>2 DEF RemoveTmp, CreateTmp, OpenSource, CopyChunk, Ends, Goes
  <2>3. CASE CopyEnds(w) \/ AppendRow(w) \/ Seal(w) \/ Rename(w)
    BY <1>1, <1>4, <2>3 DEF CopyEnds, AppendRow, Seal, Rename, Ends, Goes
  <2> QED BY <1>4, <2>1, <2>2, <2>3 DEF Step
<1>5. CASE Step(v)
  <2>1. CASE OpenToLook(v) \/ ScanGoesOn(v) \/ ScanEnds(v)
    BY <1>1, <2>1 DEF OpenToLook, ScanGoesOn, ScanEnds
  <2>2. CASE ScanFinds(v) \/ Stopped(v) \/ Rename(v)
    BY <1>1, <2>2 DEF ScanFinds, Stopped, Rename, Ends, Goes
  <2>3. CASE PasswordGiven(v) \/ RemoveTmp(v) \/ CreateTmp(v) \/ AppendRow(v)
    BY <1>1, <2>3 DEF PasswordGiven, RemoveTmp, CreateTmp, AppendRow, Goes
  <2>4. CASE CopyChunk(v)
    BY <1>1, <2>4 DEF CopyChunk
  <2>5. CASE CopyEnds(v)
    BY <1>1, <2>5 DEF CopyEnds, Goes
  <2>6. CASE OpenSource(v)
    BY <1>1, <2>6 DEF OpenSource, Ends, Goes
  <2>7. CASE Seal(v)
    BY <1>1, <2>7 DEF Seal, Ends, Goes
  <2> QED BY <1>5, <2>1, <2>2, <2>3, <2>4, <2>5, <2>6, <2>7 DEF Step
<1>6. CASE UNCHANGED databaseVars
  BY <1>1, <1>6 DEF databaseVars, procVars
<1> QED BY <1>2, <1>3, <1>4, <1>5, <1>6 DEF DatabaseNext

\* The names of runs of adduser stay apart, or two were about one name at once.
LEMMA NextNamesApart ==
  ASSUME FileInv, NamesApart, [DatabaseNext]_databaseVars, ~sameName'
  PROVE  NamesApart'
<1> SUFFICES ASSUME NEW v \in Adder, NEW w \in Adder, pc'[v] # "idle", pc'[w] # "idle",
                    op'[v].name = op'[w].name, v # w
             PROVE  FALSE
  BY DEF NamesApart
<1>1. v \in Process /\ w \in Process
  BY DEF Process
<1>2. ASSUME NEW x \in Adder, NEW y \in Adder, x # y, pc'[y] # "idle",
             NEW u \in Name, NEW p \in Password, AddUser(x, u, p)
      PROVE  op'[x].name # op'[y].name
  <2>1. /\ op' = [op EXCEPT ![x] = [kind |-> "insert", name |-> u, password |-> p]]
        /\ pc' = [pc EXCEPT ![x] = "look"]
        /\ sameName' = (sameName \/ \E z \in Adder : pc[z] # "idle" /\ op[z].name = u)
    BY <1>2 DEF AddUser, Begins, Goes
  <2>2. x \in Process /\ y \in Process
    BY DEF Process
  <2>3. op'[x].name = u /\ op'[y] = op[y] /\ pc'[y] = pc[y]
    BY <1>2, <2>1, <2>2 DEF FileInv, DatabaseTypeOK
  <2>4. ~\E z \in Adder : pc[z] # "idle" /\ op[z].name = u
    BY <2>1, Zenon
  <2> QED BY <1>2, <2>3, <2>4
<1>3. /\ pc[v] # "idle" /\ op'[v] = op[v]
      /\ pc[w] # "idle" /\ op'[w] = op[w]
  BY <1>2, AdderMoves
<1> QED BY <1>3 DEF NamesApart

\* The only way a name gets into the table is the operation that is about it.
LEMMA NameStaysOut ==
  ASSUME FileInv, NamesApart, FilesStep, NEW v \in Adder,
         pc[v] # "idle", pc'[v] # "idle", HasRow(rows'[table'], op[v].name)
  PROVE  HasRow(rows[table], op[v].name)
<1>1. ASSUME NEW x \in Process, Rename(x), rows'[table'] = Result(x)
      PROVE  HasRow(rows[table], op[v].name)
  <2>1. pc[x] # "idle" /\ pc'[x] = "idle"
    BY <1>1 DEF Rename, Ends, Goes, FileInv, DatabaseTypeOK
  <2>2. CASE op[x].kind = "insert"
    <3>1. x \in Adder
      BY <2>1, <2>2 DEF FileInv, OperationFits, Process
    <3>2. op[x].name # op[v].name
      BY <2>1, <3>1 DEF NamesApart
    <3> QED BY <1>1, <2>1, <3>2, ResultNames
  <2>3. CASE op[x].kind # "insert"
    BY <1>1, <2>1, <2>3, ResultNames
  <2> QED BY <2>2, <2>3
<1> QED BY <1>1 DEF FilesStep

\* A name that was not found stays free until the operation about it ends.
LEMMA NextNameFree ==
  ASSUME FileInv, FileInv', Apart, FilesStep, NamesApart, NameFree,
         [DatabaseNext]_databaseVars
  PROVE  NameFree'
<1> USE DEF Lasting
<1> SUFFICES ASSUME NEW v \in Adder
             PROVE  /\ pc'[v] = "scan" =>
                         /\ \A k \in DOMAIN rows'[in'[v]] :
                              k <= pos'[v] => rows'[in'[v]][k].name # op'[v].name
                         /\ HasRow(rows'[table'], op'[v].name) =>
                              HasRow(rows'[in'[v]], op'[v].name)
                    /\ pc'[v] \in Lasting => ~HasRow(rows'[table'], op'[v].name)
  BY DEF NameFree, HasRow
<1>1. v \in Process
  BY DEF Process
<1>2. CASE \E u \in Name, p \in Password : AddUser(v, u, p)
  <2>1. pc'[v] = "look"
    BY <1>1, <1>2 DEF AddUser, Begins, Goes, FileInv, DatabaseTypeOK
  <2> QED BY <2>1
<1>3. CASE pc'[v] = "idle"
  BY <1>3
<1>4. CASE pc'[v] # "idle" /\ pc[v] # "idle" /\ op'[v] = op[v] /\ OpenToLook(v)
  <2>1. Readable(table)
    BY DatabaseAssumption DEF Readable, Apart, TmpApart, FileInv, DatabaseTypeOK
  <2>2. /\ UNCHANGED <<rows, table>> /\ pc'[v] = "scan" /\ in'[v] = table
        /\ pos'[v] = pos[v] /\ pos[v] = 0
    BY <1>1, <1>4, <2>1 DEF OpenToLook, Goes, fileVars, FileInv, FilesFit, DatabaseTypeOK
  <2>3. rows[table] \in Seq(Content)
    BY DEF FileInv, DatabaseTypeOK, Content
  <2>4. \A k \in DOMAIN rows[table] : ~(k <= 0)
    BY <2>3, LenProperties
  <2> QED BY <2>2, <2>4
<1>5. CASE pc'[v] # "idle" /\ pc[v] # "idle" /\ op'[v] = op[v] /\ ScanGoesOn(v)
  <2>1. /\ UNCHANGED <<rows, table, pc, in>> /\ pc[v] = "scan"
        /\ pos'[v] = pos[v] + Len(Chunk(v)) /\ pos[v] \in Nat /\ in[v] # NoFile
        /\ \A k \in DOMAIN Chunk(v) : Chunk(v)[k].name # op[v].name
    BY <1>1, <1>5 DEF ScanGoesOn, fileVars, FileInv, FilesFit, DatabaseTypeOK
  <2>2. /\ rows[in[v]] \in Seq(Content) /\ Len(Chunk(v)) \in Nat
        /\ DOMAIN Chunk(v) = 1..Len(Chunk(v))
        /\ \A k \in DOMAIN Chunk(v) : Chunk(v)[k] = rows[in[v]][pos[v] + k]
    BY <1>1, <2>1, ChunkRowsRead DEF FileInv
  <2>3. DOMAIN rows[in[v]] \subseteq Nat
    BY <2>2, LenProperties
  <2>4. ASSUME NEW k \in DOMAIN rows[in[v]], k <= pos[v] + Len(Chunk(v))
        PROVE  rows[in[v]][k].name # op[v].name
    <3>1. CASE k <= pos[v]
      BY <2>1, <3>1 DEF NameFree
    <3>2. CASE k > pos[v]
      <4>1. k - pos[v] \in DOMAIN Chunk(v) /\ pos[v] + (k - pos[v]) = k
        BY <2>1, <2>2, <2>3, <2>4, <3>2
      <4> QED BY <2>1, <2>2, <4>1
    <3> QED BY <2>1, <2>3, <3>1, <3>2
  <2>5. HasRow(rows[table], op[v].name) => HasRow(rows[in[v]], op[v].name)
    BY <2>1 DEF NameFree
  <2> QED BY <1>5, <2>1, <2>4, <2>5
<1>6. CASE pc'[v] # "idle" /\ pc[v] # "idle" /\ op'[v] = op[v] /\ ScanEnds(v)
  <2>1. /\ UNCHANGED <<rows, table>> /\ pc[v] = "scan" /\ pc'[v] = "ask"
        /\ pos[v] \in Nat /\ in[v] # NoFile /\ Chunk(v) = <<>>
    BY <1>1, <1>6 DEF ScanEnds, Goes, fileVars, FileInv, FilesFit, DatabaseTypeOK
  <2>2. rows[in[v]] \in Seq(Content) /\ pos[v] >= Len(rows[in[v]])
    BY <1>1, <2>1, ChunkRowsRead DEF FileInv
  <2>3. \A k \in DOMAIN rows[in[v]] : k <= pos[v]
    BY <2>1, <2>2, LenProperties
  <2>4. ~HasRow(rows[in[v]], op[v].name)
    BY <2>1, <2>3 DEF NameFree, HasRow
  <2>5. ~HasRow(rows[table], op[v].name)
    BY <2>1, <2>4 DEF NameFree
  <2> QED BY <1>6, <2>1, <2>5
<1>7. CASE /\ pc'[v] # "idle" /\ pc[v] # "idle" /\ op'[v] = op[v]
           /\ pc'[v] = pc[v] /\ in'[v] = in[v] /\ pos'[v] = pos[v]
  <2>1. CASE pc[v] = "scan"
    <3>1. in[v] \in sealed \cap sealed'
      BY <1>1, <1>7, <2>1 DEF FileInv, FilesFit
    <3>2. rows'[in[v]] = rows[in[v]]
      BY <3>1 DEF FilesStep
    <3>3. /\ \A k \in DOMAIN rows[in[v]] : k <= pos[v] => rows[in[v]][k].name # op[v].name
          /\ HasRow(rows[table], op[v].name) => HasRow(rows[in[v]], op[v].name)
      BY <2>1 DEF NameFree
    <3>4. HasRow(rows'[table'], op[v].name) => HasRow(rows[table], op[v].name)
      BY <1>7, NameStaysOut
    <3> QED BY <1>7, <2>1, <3>2, <3>3, <3>4
  <2>2. CASE pc[v] \in Lasting
    <3>1. ~HasRow(rows[table], op[v].name)
      BY <2>2 DEF NameFree
    <3> QED BY <1>7, <2>2, <3>1, NameStaysOut
  <2> QED BY <1>7, <2>1, <2>2
<1>8. CASE /\ pc'[v] # "idle" /\ pc[v] # "idle" /\ op'[v] = op[v]
           /\ pc[v] \in Lasting /\ pc'[v] \in Lasting
  <2>1. ~HasRow(rows[table], op[v].name)
    BY <1>8 DEF NameFree
  <2> QED BY <1>8, <2>1, NameStaysOut
<1> QED BY <1>2, <1>3, <1>4, <1>5, <1>6, <1>7, <1>8, AdderMoves

\* A user reported as added keeps the account.
LEMMA NextKept ==
  ASSUME FileInv, FileInv', FilesStep, ~overlapped, AccountKept
  PROVE  AccountKept'
<1>1. \A u \in added : HasRow(rows[table], u)
  BY DEF AccountKept, HasRow
<1>2. \A u \in added' : HasRow(rows'[table'], u)
  <2>1. CASE UNCHANGED <<table, added>> /\ rows'[table] = rows[table]
    BY <1>1, <2>1
  <2>2. ASSUME NEW w \in Process, Rename(w), rows'[table'] = Result(w)
        PROVE  \A u \in added' : HasRow(rows'[table'], u)
    <3>1. pc[w] # "idle"
      BY <2>2 DEF Rename
    <3>2. \A u \in added' : u \in added \/ (op[w].kind = "insert" /\ u = op[w].name)
      BY <2>2 DEF Rename
    <3> QED BY <1>1, <2>2, <3>1, <3>2, ResultNames
  <2> QED BY <2>1, <2>2 DEF FilesStep
<1> QED BY <1>2 DEF AccountKept, HasRow

\* No user gets a second row.
LEMMA NextOne ==
  ASSUME FileInv, FilesStep, NameFree,
         \A j, k \in DOMAIN rows[table] : rows[table][j].name = rows[table][k].name => j = k
  PROVE  \A j, k \in DOMAIN rows'[table'] :
           rows'[table'][j].name = rows'[table'][k].name => j = k
<1>1. ASSUME NEW w \in Process, Rename(w), rows'[table'] = Result(w)
      PROVE  \A j, k \in DOMAIN rows'[table'] :
               rows'[table'][j].name = rows'[table'][k].name => j = k
  <2>1. pc[w] = "rename"
    BY <1>1 DEF Rename
  <2>2. op[w].kind = "insert" => ~HasRow(rows[table], op[w].name)
    <3>1. op[w].kind = "insert" => w \in Adder
      BY <2>1 DEF FileInv, OperationFits, Process
    <3> QED BY <2>1, <3>1 DEF NameFree
  <2> QED BY <1>1, <2>1, <2>2, ResultNames
<1> QED BY <1>1 DEF FilesStep

\* All of it is inductive.
LEMMA NextDatabaseInv ==
  ASSUME DatabaseInv, [DatabaseNext]_databaseVars
  PROVE  DatabaseInv'
<1>1. FileInv /\ UpdatesApart
  BY DEF DatabaseInv, FileInv
<1>2. /\ FileInv' /\ UpdatesApart'
      /\ overlapped' \/ (Apart /\ Apart' /\ FilesStep)
      /\ overlapped => overlapped'
      /\ sameName => sameName'
  BY <1>1, NextFiles, NextApart, OverlappedStays
<1>3. AccountKept'
  <2>1. CASE overlapped'
    BY <2>1 DEF AccountKept
  <2>2. CASE ~overlapped'
    BY <1>1, <1>2, <2>2, NextKept DEF DatabaseInv
  <2> QED BY <2>1, <2>2
<1>4. AddsApart'
  <2>1. CASE sameName'
    BY <2>1 DEF AddsApart
  <2>2. CASE ~sameName'
    <3>1. NamesApart /\ (overlapped \/ NameFree)
      BY <1>2, <2>2 DEF DatabaseInv, AddsApart
    <3>2. NamesApart'
      BY <1>1, <2>2, <3>1, NextNamesApart
    <3>3. overlapped' \/ NameFree'
      BY <1>1, <1>2, <3>1, NextNameFree
    <3> QED BY <3>2, <3>3 DEF AddsApart
  <2> QED BY <2>1, <2>2
<1>5. OneAccount'
  <2>1. CASE overlapped' \/ sameName'
    BY <2>1 DEF OneAccount
  <2>2. CASE ~overlapped' /\ ~sameName'
    <3>1. /\ NameFree /\ FilesStep
          /\ \A j, k \in DOMAIN rows[table] :
               rows[table][j].name = rows[table][k].name => j = k
      BY <1>2, <2>2 DEF DatabaseInv, AddsApart, OneAccount
    <3> QED BY <1>1, <3>1, NextOne DEF OneAccount
  <2> QED BY <2>1, <2>2
<1> QED BY <1>2, <1>3, <1>4, <1>5 DEF DatabaseInv, FileInv

\* The invariant holds at first.
LEMMA InitDatabaseInv == DatabaseInit => DatabaseInv
<1> SUFFICES ASSUME DatabaseInit PROVE DatabaseInv
  OBVIOUS
<1>1. FileInv /\ UpdatesApart
  BY InitFiles, InitApart
<1>2. AccountKept
  BY DEF DatabaseInit, AccountKept
<1>3. AddsApart
  BY DEF DatabaseInit, AddsApart, NamesApart, NameFree, Process
<1>4. OneAccount
  <2>1. rows[table] = InitialRows
    BY DEF DatabaseInit
  <2> QED BY <2>1, InitialAssumption DEF OneAccount
<1> QED BY <1>1, <1>2, <1>3, <1>4 DEF DatabaseInv, FileInv

\* The invariant holds in every state.
THEOREM DatabaseInvHolds == DatabaseSpec => []DatabaseInv
<1>1. DatabaseInv /\ [DatabaseNext]_databaseVars => DatabaseInv'
  BY NextDatabaseInv
<1> QED BY <1>1, InitDatabaseInv, PTL DEF DatabaseSpec

\* A user adduser reported as added has an account from then on, wherever programs
\* are stopped, as long as calls of updateFile do not overlap.
THEOREM AccountKeptHolds == DatabaseSpec => []AccountKept
<1>1. DatabaseInv => AccountKept
  BY DEF DatabaseInv
<1> QED BY <1>1, DatabaseInvHolds, PTL

\* No user gets a second row, as long as neither calls of updateFile overlap nor
\* two runs of adduser for one name: the look before the prompt is enough then.
THEOREM OneAccountHolds == DatabaseSpec => []OneAccount
<1>1. DatabaseInv => OneAccount
  BY DEF DatabaseInv
<1> QED BY <1>1, DatabaseInvHolds, PTL
=============================================================================
