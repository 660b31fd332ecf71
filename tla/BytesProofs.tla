---------------------------- MODULE BytesProofs -----------------------------
(* The chunks of a DynamicBuffer behave as one queue of bytes, and the       *)
(* framing on top of it hands out whole messages in order, for every size of *)
(* message, read and chunk.                                                  *)
EXTENDS ReadBuffer, MessageFraming, SequenceLemmas

(***************************************************************************)
(* advanceBuffer.                                                          *)
(***************************************************************************)
\* The chunks of a buffer: none is empty.
Chunk(B) == Seq(B) \ {<<>>}

\* What advanceBuffer still has to cover, and what it has kept.
Progress(B) == [count : Nat, left : Seq(Chunk(B))]

\* A front chunk is popped or cut.
LEMMA AdvanceChunkType ==
  ASSUME NEW B, NEW acc \in Progress(B), NEW c \in Chunk(B)
  PROVE  AdvanceChunk(acc, c) \in Progress(B)
<1>1. c \in Seq(B) /\ Len(c) \in Nat /\ acc.count \in Nat /\ acc.left \in Seq(Chunk(B))
  BY LenProperties DEF Chunk, Progress
<1>2. CASE acc.count >= Len(c)
  BY <1>1, <1>2 DEF AdvanceChunk, Progress
<1>3. CASE ~(acc.count >= Len(c))
  <2> DEFINE d == SubSeq(c, acc.count + 1, Len(c))
  <2>1. d \in Chunk(B)
    <3>1. Dropped(c, acc.count) \in Seq(B) /\ Dropped(c, acc.count) # <<>>
      <4> DEFINE j == acc.count
      <4>1. j \in Nat /\ j < Len(c)
        BY <1>1, <1>3
      <4> HIDE DEF j
      <4>2. Dropped(c, j) \in Seq(B) /\ Dropped(c, j) # <<>>
        BY <1>1, <4>1, DroppedProperties
      <4> QED BY <4>2 DEF j
    <3> QED BY <3>1 DEF Dropped, Chunk
  <2> HIDE DEF d
  <2>2. Append(acc.left, d) \in Seq(Chunk(B))
    BY <1>1, <2>1, AppendProperties
  <2>3. AdvanceChunk(acc, c) = [count |-> 0, left |-> Append(acc.left, d)]
    BY <1>3 DEF AdvanceChunk, d
  <2> QED BY <2>2, <2>3 DEF Progress
<1> QED BY <1>2, <1>3

\* The loop of advanceBuffer, chunk by chunk.
LEMMA AdvanceSteps ==
  ASSUME NEW B, NEW bs \in Seq(Chunk(B)), NEW n \in Nat
  PROVE  \E f \in [0..Len(bs) -> Progress(B)] :
           /\ f[0] = [count |-> n, left |-> <<>>]
           /\ \A k \in 1..Len(bs) : f[k] = AdvanceChunk(f[k - 1], bs[k])
           /\ AdvanceBuffer(bs, n) = f[Len(bs)].left
<1> DEFINE m == Len(bs)
           S == Progress(B)
           a == [count |-> n, left |-> <<>>]
           step == [k \in 1..m |-> [acc \in S |-> AdvanceChunk(acc, bs[k])]]
<1>1. m \in Nat /\ a \in S /\ \A k \in 1..m : bs[k] \in Chunk(B)
  BY LenProperties, ElementOfSeq, EmptySeq DEF Progress
<1>2. step \in Steps(m, S)
  <2>1. \A k \in 1..m : \A acc \in S : AdvanceChunk(acc, bs[k]) \in S
    BY <1>1, AdvanceChunkType
  <2> HIDE DEF m, S
  <2> QED BY <2>1 DEF Steps
<1> HIDE DEF step
<1>3. PICK f \in [0..m -> S] : f[0] = a /\ \A k \in 1..m : f[k] = step[k][f[k - 1]]
  <2>1. m \in Nat /\ a \in S
    BY <1>1
  <2> HIDE DEF m, S, a
  <2> QED BY <1>2, <2>1, FunctionByRecursion
<1>4. ASSUME NEW k \in 1..m PROVE f[k] = AdvanceChunk(f[k - 1], bs[k])
  <2>1. k - 1 \in 0..m
    BY <1>1
  <2>2. f[k - 1] \in S
    BY <2>1
  <2> HIDE DEF m, S, a
  <2> QED BY <1>3, <2>2 DEF step
<1> DEFINE Runs(g) ==
             g = [k \in 0..m |-> IF k = 0 THEN a ELSE AdvanceChunk(g[k - 1], bs[k])]
           h == CHOOSE g : Runs(g)
<1>5. AdvanceBuffer(bs, n) = h[m].left
  BY DEF AdvanceBuffer
<1>6. Runs(f)
  <2>1. ASSUME NEW k \in 0..m
        PROVE  f[k] = IF k = 0 THEN a ELSE AdvanceChunk(f[k - 1], bs[k])
    <3>1. k = 0 \/ k \in 1..m
      BY <1>1
    <3> QED BY <1>3, <1>4, <3>1
  <2> HIDE DEF m, S, a
  <2> QED BY <2>1
<1>7. Runs(h)
  BY <1>6
<1> HIDE DEF h
<1>8. \A k \in 0..m : h[k] = f[k]
  <2>1. h[0] = f[0]
    BY <1>1, <1>3, <1>7
  <2>2. ASSUME NEW k \in 1..m, h[k - 1] = f[k - 1] PROVE h[k] = f[k]
    <3>1. k \in 0..m /\ k # 0
      BY <1>1
    <3> HIDE DEF m, a
    <3> QED BY <1>4, <1>7, <2>2, <3>1
  <2> HIDE DEF m
  <2>3. Alike(h, f, m)
    BY <2>1, <2>2 DEF Alike
  <2> QED BY <1>1, <2>3, SameRecursion
<1>9. m \in 0..m
  BY <1>1
<1> QED BY <1>3, <1>4, <1>5, <1>8, <1>9

\* What has been kept after some chunks: nothing as long as the count covers them.
Kept(acc, n, p) ==
  IF n >= Len(p) THEN acc = [count |-> n - Len(p), left |-> <<>>]
  ELSE acc.count = 0 /\ FlattenSeq(acc.left) = Dropped(p, n)

\* One more chunk.
LEMMA KeptNext ==
  ASSUME NEW B, NEW acc \in Progress(B), NEW n \in Nat, NEW p \in Seq(B),
         NEW c \in Chunk(B), Kept(acc, n, p)
  PROVE  Kept(AdvanceChunk(acc, c), n, p \o c)
<1>1. /\ c \in Seq(B) /\ c # <<>> /\ Len(c) \in Nat \ {0} /\ Len(p) \in Nat
      /\ p \o c \in Seq(B) /\ Len(p \o c) = Len(p) + Len(c)
      /\ acc.count \in Nat /\ acc.left \in Seq(Chunk(B)) /\ acc.left \in Seq(Seq(B))
  BY LenProperties, EmptySeq, ConcatProperties, SeqMonotonic DEF Chunk, Progress
<1>2. CASE n >= Len(p) + Len(c)
  <2>1. acc = [count |-> n - Len(p), left |-> <<>>] /\ n - Len(p) >= Len(c)
    BY <1>1, <1>2 DEF Kept
  <2>2. AdvanceChunk(acc, c) = [count |-> n - Len(p) - Len(c), left |-> <<>>]
    BY <2>1 DEF AdvanceChunk
  <2> QED BY <1>1, <1>2, <2>2 DEF Kept
<1>3. CASE n >= Len(p) /\ ~(n >= Len(p) + Len(c))
  <2> DEFINE j == n - Len(p)
  <2>1. acc = [count |-> j, left |-> <<>>] /\ j \in Nat /\ ~(j >= Len(c))
    BY <1>1, <1>3 DEF Kept
  <2>2. AdvanceChunk(acc, c) = [count |-> 0, left |-> Append(<<>>, Dropped(c, j))]
    BY <2>1 DEF AdvanceChunk, Dropped
  <2>3. Dropped(p \o c, n) = Dropped(c, j)
    BY <1>1, <1>3, DroppedConcat
  <2> HIDE DEF j
  <2>4. Dropped(c, j) \in Seq(B)
    BY <1>1, <2>1, DroppedProperties
  <2>5. FlattenSeq(Append(<<>>, Dropped(c, j))) = FlattenSeq(<<>>) \o Dropped(c, j)
    <3>1. <<>> \in Seq(Seq(B))
      BY EmptySeq
    <3> QED BY <2>4, <3>1, FlattenAppend
  <2>6. FlattenSeq(<<>>) \o Dropped(c, j) = Dropped(c, j)
    BY <2>4, FlattenType, ConcatEmptySeq
  <2>7. ~(n >= Len(p \o c))
    BY <1>1, <1>3
  <2>8. AdvanceChunk(acc, c).count = 0 /\ AdvanceChunk(acc, c).left = Append(<<>>, Dropped(c, j))
    BY <2>2
  <2> QED BY <2>3, <2>5, <2>6, <2>7, <2>8, Zenon DEF Kept
<1>4. CASE ~(n >= Len(p))
  <2>1. acc.count = 0 /\ FlattenSeq(acc.left) = Dropped(p, n)
    BY <1>4 DEF Kept
  <2>2. SubSeq(c, acc.count + 1, Len(c)) = c
    <3>1. acc.count + 1 = 1
      BY <2>1
    <3> QED BY <1>1, <3>1, SubSeqFull
  <2>3. AdvanceChunk(acc, c) = [count |-> 0, left |-> Append(acc.left, c)]
    <3>1. ~(acc.count >= Len(c))
      BY <1>1, <2>1
    <3> QED BY <2>2, <3>1, Zenon DEF AdvanceChunk
  <2>4. FlattenSeq(Append(acc.left, c)) = FlattenSeq(acc.left) \o c
    <3> DEFINE l == acc.left
    <3>1. l \in Seq(Seq(B))
      BY <1>1
    <3> HIDE DEF l
    <3>2. FlattenSeq(Append(l, c)) = FlattenSeq(l) \o c
      BY <1>1, <3>1, FlattenAppend
    <3> QED BY <3>2 DEF l
  <2>5. Dropped(p \o c, n) = Dropped(p, n) \o c
    BY <1>1, <1>4, DroppedConcat
  <2> QED BY <1>1, <1>4, <2>1, <2>3, <2>4, <2>5 DEF Kept
<1> QED BY <1>1, <1>2, <1>3, <1>4

\* advanceBuffer drops the first n bytes of the run, and leaves no empty chunk.
LEMMA AdvanceDrops ==
  ASSUME NEW B, NEW bs \in Seq(Chunk(B)), NEW n \in Nat
  PROVE  /\ AdvanceBuffer(bs, n) \in Seq(Chunk(B))
         /\ FlattenSeq(AdvanceBuffer(bs, n)) = Dropped(FlattenSeq(bs), n)
<1> DEFINE m == Len(bs)
<1>1. m \in Nat /\ bs \in Seq(Seq(B)) /\ \A k \in 1..m : bs[k] \in Chunk(B)
  BY LenProperties, ElementOfSeq, SeqMonotonic DEF Chunk
<1>2. PICK f \in [0..m -> Progress(B)] :
        /\ f[0] = [count |-> n, left |-> <<>>]
        /\ \A k \in 1..m : f[k] = AdvanceChunk(f[k - 1], bs[k])
        /\ AdvanceBuffer(bs, n) = f[m].left
  BY AdvanceSteps
<1>3. PICK P \in [0..m -> Seq(B)] : JoinedUpTo(P, bs)
  BY <1>1, PrefixesExist
<1>4. FlattenSeq(bs) = P[m]
  BY <1>1, <1>3, FlattenIsPrefix
<1> DEFINE T == {k \in Nat : k <= m => Kept(f[k], n, P[k])}
<1>5. 0 \in T
  <2>1. P[0] = <<>> /\ Len(<<>>) = 0
    BY <1>3, EmptySeq DEF JoinedUpTo
  <2>2. n >= Len(P[0]) /\ n - Len(P[0]) = n
    BY <2>1
  <2>3. f[0] = [count |-> n - Len(P[0]), left |-> <<>>]
    BY <1>2, <2>2
  <2>4. Kept(f[0], n, P[0])
    BY <2>2, <2>3, Zenon DEF Kept
  <2> QED BY <2>4
<1>6. ASSUME NEW k \in Nat, k \in T PROVE k + 1 \in T
  <2> SUFFICES ASSUME k + 1 <= m PROVE Kept(f[k + 1], n, P[k + 1])
    OBVIOUS
  <2>1. k + 1 \in 1..m /\ (k + 1) - 1 = k /\ k \in 0..m /\ Kept(f[k], n, P[k])
    BY <1>1, <1>6
  <2> HIDE DEF m
  <2>2. f[k + 1] = AdvanceChunk(f[k], bs[k + 1])
    BY <1>2, <2>1
  <2>3. P[k + 1] = P[k] \o bs[k + 1]
    BY <1>3, <2>1 DEF JoinedUpTo, m
  <2>4. f[k] \in Progress(B) /\ P[k] \in Seq(B) /\ bs[k + 1] \in Chunk(B)
    BY <1>1, <2>1
  <2>5. Kept(AdvanceChunk(f[k], bs[k + 1]), n, P[k] \o bs[k + 1])
    BY <2>1, <2>4, KeptNext
  <2> QED BY <2>2, <2>3, <2>5
<1> HIDE DEF T
<1>7. Kept(f[m], n, P[m])
  <2>1. m \in T
    BY <1>1, <1>5, <1>6, NatSetInduction
  <2> QED BY <1>1, <2>1 DEF T
<1>8. f[m] \in Progress(B) /\ P[m] \in Seq(B)
  <2>1. m \in 0..m
    BY <1>1
  <2> QED BY <2>1
<1>9. FlattenSeq(f[m].left) = Dropped(P[m], n)
  <2>1. CASE n >= Len(P[m])
    <3>1. f[m].left = <<>>
      BY <1>7, <2>1 DEF Kept
    <3> DEFINE p == P[m]
    <3>2. p \in Seq(B) /\ n >= Len(p)
      BY <1>8, <2>1
    <3> HIDE DEF p
    <3>3. Dropped(p, n) = <<>>
      BY <3>2, DroppedProperties
    <3> QED BY <3>1, <3>3, FlattenType DEF p
  <2>2. CASE ~(n >= Len(P[m]))
    BY <1>7, <2>2 DEF Kept
  <2> QED BY <2>1, <2>2
<1> QED BY <1>2, <1>4, <1>8, <1>9 DEF Progress

(***************************************************************************)
(* getNext.                                                                *)
(***************************************************************************)
\* What getNext still wants, and what it has.
Transfer(B) == [wanted : Nat, data : Seq(B)]

\* A front chunk gives all it has, or what is still wanted.
LEMMA TransferChunkType ==
  ASSUME NEW B, NEW acc \in Transfer(B), NEW c \in Seq(B)
  PROVE  /\ TransferChunk(acc, c) \in Transfer(B)
         /\ acc.wanted >= Len(c) =>
              TransferChunk(acc, c) = [wanted |-> acc.wanted - Len(c), data |-> acc.data \o c]
         /\ acc.wanted <= Len(c) =>
              TransferChunk(acc, c) = [wanted |-> 0, data |-> acc.data \o Taken(c, acc.wanted)]
<1>1. Len(c) \in Nat /\ acc.wanted \in Nat /\ acc.data \in Seq(B)
  BY LenProperties DEF Transfer
<1> DEFINE w == acc.wanted
           m == IF w < Len(c) THEN w ELSE Len(c)
<1>2. TransferChunk(acc, c) = [wanted |-> w - m, data |-> acc.data \o Taken(c, m)]
  BY DEF TransferChunk, Taken
<1>3. m \in 0..Len(c) /\ w - m \in Nat /\ (w >= Len(c) => m = Len(c)) /\ (w <= Len(c) => m = w)
  BY <1>1
<1> HIDE DEF m
<1>4. Taken(c, m) \in Seq(B) /\ Taken(c, Len(c)) = c
  BY <1>3, TakenProperties, SubSeqFull DEF Taken
<1>5. acc.data \o Taken(c, m) \in Seq(B)
  BY <1>1, <1>4, ConcatProperties
<1>6. TransferChunk(acc, c) \in Transfer(B)
  BY <1>2, <1>3, <1>5 DEF Transfer
<1>7. w <= Len(c) => w - m = 0
  BY <1>1, <1>3
<1> QED BY <1>2, <1>3, <1>4, <1>6, <1>7, Zenon


\* The loop of getNext, chunk by chunk.
LEMMA TransferSteps ==
  ASSUME NEW B, NEW bs \in Seq(Seq(B)), NEW n \in Nat
  PROVE  \E f \in [0..Len(bs) -> Transfer(B)] :
           /\ f[0] = [wanted |-> n, data |-> <<>>]
           /\ \A k \in 1..Len(bs) : f[k] = TransferChunk(f[k - 1], bs[k])
           /\ Transferred(bs, n) = f[Len(bs)].data
<1> DEFINE m == Len(bs)
           S == Transfer(B)
           a == [wanted |-> n, data |-> <<>>]
           step == [k \in 1..m |-> [acc \in S |-> TransferChunk(acc, bs[k])]]
<1>1. m \in Nat /\ a \in S /\ \A k \in 1..m : bs[k] \in Seq(B)
  BY LenProperties, ElementOfSeq, EmptySeq DEF Transfer
<1>2. step \in Steps(m, S)
  <2>1. \A k \in 1..m : \A acc \in S : TransferChunk(acc, bs[k]) \in S
    BY <1>1, TransferChunkType
  <2> HIDE DEF m, S
  <2> QED BY <2>1 DEF Steps
<1> HIDE DEF step
<1>3. PICK f \in [0..m -> S] : f[0] = a /\ \A k \in 1..m : f[k] = step[k][f[k - 1]]
  <2>1. m \in Nat /\ a \in S
    BY <1>1
  <2> HIDE DEF m, S, a
  <2> QED BY <1>2, <2>1, FunctionByRecursion
<1>4. ASSUME NEW k \in 1..m PROVE f[k] = TransferChunk(f[k - 1], bs[k])
  <2>1. k - 1 \in 0..m
    BY <1>1
  <2>2. f[k - 1] \in S
    BY <2>1
  <2> HIDE DEF m, S, a
  <2> QED BY <1>3, <2>2 DEF step
<1> DEFINE Runs(g) ==
             g = [k \in 0..m |-> IF k = 0 THEN a ELSE TransferChunk(g[k - 1], bs[k])]
           h == CHOOSE g : Runs(g)
<1>5. Transferred(bs, n) = h[m].data
  BY DEF Transferred
<1>6. Runs(f)
  <2>1. ASSUME NEW k \in 0..m
        PROVE  f[k] = IF k = 0 THEN a ELSE TransferChunk(f[k - 1], bs[k])
    <3>1. k = 0 \/ k \in 1..m
      BY <1>1
    <3> QED BY <1>3, <1>4, <3>1
  <2> HIDE DEF m, S, a
  <2> QED BY <2>1
<1>7. Runs(h)
  BY <1>6
<1> HIDE DEF h
<1>8. \A k \in 0..m : h[k] = f[k]
  <2>1. h[0] = f[0]
    BY <1>1, <1>3, <1>7
  <2>2. ASSUME NEW k \in 1..m, h[k - 1] = f[k - 1] PROVE h[k] = f[k]
    <3>1. k \in 0..m /\ k # 0
      BY <1>1
    <3> HIDE DEF m, a
    <3> QED BY <1>4, <1>7, <2>2, <3>1
  <2> HIDE DEF m
  <2>3. Alike(h, f, m)
    BY <2>1, <2>2 DEF Alike
  <2> QED BY <1>1, <2>3, SameRecursion
<1>9. m \in 0..m
  BY <1>1
<1> QED BY <1>3, <1>4, <1>5, <1>8, <1>9

\* What has been taken after some chunks.
Moved(acc, n, p) ==
  IF n >= Len(p) THEN acc = [wanted |-> n - Len(p), data |-> p]
  ELSE acc = [wanted |-> 0, data |-> Taken(p, n)]

\* One more chunk.
LEMMA MovedNext ==
  ASSUME NEW B, NEW acc \in Transfer(B), NEW n \in Nat, NEW p \in Seq(B),
         NEW c \in Seq(B), Moved(acc, n, p)
  PROVE  Moved(TransferChunk(acc, c), n, p \o c)
<1>1. /\ Len(c) \in Nat /\ Len(p) \in Nat /\ p \o c \in Seq(B)
      /\ Len(p \o c) = Len(p) + Len(c)
  BY LenProperties, ConcatProperties
<1> DEFINE next == TransferChunk(acc, c)
<1>2. CASE n >= Len(p) + Len(c)
  <2>1. acc.wanted = n - Len(p) /\ acc.data = p
    BY <1>1, <1>2 DEF Moved
  <2>2. acc.wanted >= Len(c) /\ n >= Len(p \o c) /\ acc.wanted - Len(c) = n - Len(p \o c)
    BY <1>1, <1>2, <2>1
  <2>3. next = [wanted |-> acc.wanted - Len(c), data |-> acc.data \o c]
    BY <2>2, TransferChunkType
  <2> QED BY <2>1, <2>2, <2>3, Zenon DEF Moved
<1>3. CASE n >= Len(p) /\ ~(n >= Len(p) + Len(c))
  <2>1. acc.wanted = n - Len(p) /\ acc.data = p
    BY <1>1, <1>3 DEF Moved
  <2>2. acc.wanted <= Len(c) /\ ~(n >= Len(p \o c)) /\ n \in 0..(Len(p) + Len(c))
    BY <1>1, <1>3, <2>1
  <2>3. next = [wanted |-> 0, data |-> acc.data \o Taken(c, acc.wanted)]
    BY <2>2, TransferChunkType
  <2>4. Taken(p \o c, n) = p \o Taken(c, n - Len(p))
    BY <1>3, <2>2, TakenConcat
  <2> QED BY <2>1, <2>2, <2>3, <2>4, Zenon DEF Moved
<1>4. CASE ~(n >= Len(p))
  <2>1. acc.wanted = 0 /\ acc.data = Taken(p, n)
    BY <1>4 DEF Moved
  <2>2. /\ acc.wanted <= Len(c) /\ ~(n >= Len(p \o c)) /\ n \in 0..(Len(p) + Len(c))
        /\ n \in 0..Len(p) /\ n <= Len(p)
    BY <1>1, <1>4, <2>1
  <2>3. next = [wanted |-> 0, data |-> acc.data \o Taken(c, acc.wanted)]
    BY <2>2, TransferChunkType
  <2>4. Taken(c, acc.wanted) = <<>>
    BY <2>1, SubSeqEmpty DEF Taken
  <2>5. acc.data \o <<>> = acc.data
    <3>1. Taken(p, n) \in Seq(B)
      BY <2>2, TakenProperties
    <3> QED BY <2>1, <3>1, ConcatEmptySeq
  <2>6. Taken(p \o c, n) = Taken(p, n)
    BY <2>2, TakenConcat
  <2> QED BY <2>1, <2>2, <2>3, <2>4, <2>5, <2>6, Zenon DEF Moved
<1> QED BY <1>1, <1>2, <1>3, <1>4

\* getNext copies out the first n bytes of the run.
LEMMA TransferredTakes ==
  ASSUME NEW B, NEW bs \in Seq(Seq(B)), NEW n \in 0..Len(FlattenSeq(bs))
  PROVE  Transferred(bs, n) = Taken(FlattenSeq(bs), n)
<1> DEFINE m == Len(bs)
<1>1. m \in Nat /\ \A k \in 1..m : bs[k] \in Seq(B)
  BY LenProperties, ElementOfSeq
<1>2. PICK P \in [0..m -> Seq(B)] : JoinedUpTo(P, bs)
  BY PrefixesExist
<1>3. FlattenSeq(bs) = P[m] /\ P[m] \in Seq(B)
  <2>1. m \in 0..m
    BY <1>1
  <2> QED BY <1>2, <2>1, FlattenIsPrefix
<1>4. n \in Nat /\ n <= Len(P[m])
  BY <1>3, LenProperties
<1>5. PICK f \in [0..m -> Transfer(B)] :
        /\ f[0] = [wanted |-> n, data |-> <<>>]
        /\ \A k \in 1..m : f[k] = TransferChunk(f[k - 1], bs[k])
        /\ Transferred(bs, n) = f[m].data
  BY <1>4, TransferSteps
<1> DEFINE T == {k \in Nat : k <= m => Moved(f[k], n, P[k])}
<1>6. 0 \in T
  <2>1. P[0] = <<>> /\ Len(P[0]) = 0
    BY <1>2, EmptySeq DEF JoinedUpTo
  <2>2. n >= Len(P[0]) /\ n - Len(P[0]) = n
    BY <1>4, <2>1
  <2>3. Moved(f[0], n, P[0])
    BY <1>5, <2>1, <2>2, Zenon DEF Moved
  <2> QED BY <2>3
<1>7. ASSUME NEW k \in Nat, k \in T PROVE k + 1 \in T
  <2> SUFFICES ASSUME k + 1 <= m PROVE Moved(f[k + 1], n, P[k + 1])
    OBVIOUS
  <2>1. k + 1 \in 1..m /\ (k + 1) - 1 = k /\ k \in 0..m /\ Moved(f[k], n, P[k])
    BY <1>1, <1>7
  <2> HIDE DEF m
  <2>2. f[k + 1] = TransferChunk(f[k], bs[k + 1])
    BY <1>5, <2>1
  <2>3. P[k + 1] = P[k] \o bs[k + 1]
    BY <1>2, <2>1 DEF JoinedUpTo, m
  <2>4. f[k] \in Transfer(B) /\ P[k] \in Seq(B) /\ bs[k + 1] \in Seq(B)
    BY <1>1, <2>1
  <2>5. Moved(TransferChunk(f[k], bs[k + 1]), n, P[k] \o bs[k + 1])
    BY <1>4, <2>1, <2>4, MovedNext
  <2> QED BY <2>2, <2>3, <2>5
<1> HIDE DEF T
<1>8. Moved(f[m], n, P[m])
  <2>1. m \in T
    BY <1>1, <1>6, <1>7, NatSetInduction
  <2> QED BY <1>1, <2>1 DEF T
<1>9. CASE n = Len(P[m])
  <2>1. f[m].data = P[m] /\ Taken(P[m], n) = P[m]
    BY <1>3, <1>4, <1>8, <1>9, SubSeqFull DEF Moved, Taken
  <2> QED BY <1>3, <1>5, <2>1
<1>10. CASE n # Len(P[m])
  <2>1. ~(n >= Len(P[m]))
    BY <1>3, <1>4, <1>10, LenProperties
  <2>2. f[m].data = Taken(P[m], n)
    BY <1>8, <2>1 DEF Moved
  <2> QED BY <1>3, <1>5, <2>2
<1> QED BY <1>9, <1>10

(***************************************************************************)
(* operator[].                                                             *)
(***************************************************************************)
\* operator[] finds the byte of the run at its index, whatever chunk it is in.
LEMMA AtFinds ==
  ASSUME NEW B, NEW bs \in Seq(Seq(B)), NEW i \in 0..(Len(FlattenSeq(bs)) - 1)
  PROVE  At(bs, i) = FlattenSeq(bs)[i + 1]
<1> DEFINE m == Len(bs)
<1>1. m \in Nat /\ DOMAIN bs = 1..m /\ \A k \in 1..m : bs[k] \in Seq(B)
  BY LenProperties, ElementOfSeq
<1>2. PICK P \in [0..m -> Seq(B)] : JoinedUpTo(P, bs)
  BY PrefixesExist
<1>3. FlattenSeq(bs) = P[m] /\ \A k \in 0..m : Len(P[k]) \in Nat
  BY <1>2, FlattenIsPrefix, LenProperties
<1>4. \A k \in 0..m : LengthUpTo(bs, k) = Len(P[k])
  BY <1>2, FlattenFront DEF LengthUpTo, BufferLength
<1> DEFINE reach == {j \in DOMAIN bs : LengthUpTo(bs, j) > i}
<1>5. i \in Nat /\ i < Len(P[m])
  BY <1>1, <1>3
<1>6. m \in reach
  <2>1. m # 0
    <3>1. P[0] = <<>> /\ Len(<<>>) = 0
      BY <1>2, EmptySeq DEF JoinedUpTo
    <3> QED BY <1>5, <3>1
  <2>2. m \in 1..m /\ m \in 0..m
    BY <1>1, <2>1
  <2> HIDE DEF m
  <2> QED BY <1>1, <1>3, <1>4, <1>5, <2>2
<1>7. PICK k \in reach : (\A j \in reach : k <= j) /\ Min(reach) = k
  <2>1. reach \subseteq Nat
    BY <1>1
  <2> HIDE DEF reach
  <2>2. PICK j \in reach : \A l \in reach : j <= l
    BY <1>6, <2>1, LeastNumber
  <2>3. Min(reach) \in reach /\ \A l \in reach : Min(reach) <= l
    BY <2>2 DEF Min
  <2> QED BY <2>3
<1>8. k \in 1..m /\ k - 1 \in 0..m /\ k \in 0..m /\ Len(P[k]) > i
  <2>1. k \in 1..m /\ LengthUpTo(bs, k) > i
    BY <1>1, <1>7
  <2>2. k - 1 \in 0..m /\ k \in 0..m
    BY <1>1, <2>1
  <2> HIDE DEF m
  <2> QED BY <1>4, <2>1, <2>2
<1>9. Len(P[k - 1]) <= i
  <2>1. CASE k = 1
    <3>1. P[k - 1] = <<>> /\ Len(<<>>) = 0
      BY <1>2, <2>1, EmptySeq DEF JoinedUpTo
    <3> QED BY <1>5, <3>1
  <2>2. CASE k # 1
    <3>1. k - 1 \in DOMAIN bs /\ ~(k <= k - 1)
      BY <1>1, <1>8, <2>2
    <3>2. ~(LengthUpTo(bs, k - 1) > i)
      BY <1>7, <3>1
    <3> DEFINE l == k - 1
    <3>3. l \in 0..m /\ ~(LengthUpTo(bs, l) > i)
      BY <1>8, <3>2
    <3> HIDE DEF l, m
    <3>4. Len(P[l]) \in Nat /\ ~(Len(P[l]) > i)
      BY <1>3, <1>4, <3>3
    <3>5. Len(P[l]) <= i
      BY <1>5, <3>4
    <3> QED BY <3>5 DEF l
  <2> QED BY <2>1, <2>2
<1> DEFINE p == P[k - 1]
           c == bs[k]
           q == P[k]
<1>10. q = p \o c /\ p \in Seq(B) /\ c \in Seq(B)
  <2> HIDE DEF m
  <2>1. \A l \in 1..m : P[l] = P[l - 1] \o bs[l]
    BY <1>2 DEF JoinedUpTo, m
  <2> QED BY <1>1, <1>8, <2>1
<1>11. At(bs, i) = c[i - Len(p) + 1]
  <2>1. LengthUpTo(bs, k - 1) = Len(p)
    <3> HIDE DEF m
    <3> QED BY <1>4, <1>8
  <2>2. At(bs, i) = bs[k][i - LengthUpTo(bs, k - 1) + 1]
    BY <1>7, Zenon DEF At
  <2> QED BY <2>1, <2>2
<1>12. i + 1 \in 1..Len(P[k]) /\ q[i + 1] = c[i - Len(p) + 1]
  <2>1. i + 1 \in 1..Len(P[k])
    BY <1>5, <1>8, <1>3
  <2>2. Len(p) <= i /\ Len(q) > i
    BY <1>8, <1>9
  <2> HIDE DEF p, c, q
  <2>3. /\ Len(q) = Len(p) + Len(c) /\ Len(p) \in Nat /\ Len(c) \in Nat
        /\ \A l \in 1..(Len(p) + Len(c)) : q[l] = IF l <= Len(p) THEN p[l] ELSE c[l - Len(p)]
    BY <1>10, ConcatProperties, LenProperties
  <2>4. i + 1 \in 1..(Len(p) + Len(c)) /\ ~(i + 1 <= Len(p)) /\ i + 1 - Len(p) = i - Len(p) + 1
    <3>1. i \in Nat
      BY <1>5
    <3> QED BY <2>2, <2>3, <3>1
  <2>5. q[i + 1] = c[i + 1 - Len(p)]
    BY <2>3, <2>4
  <2> QED BY <2>1, <2>4, <2>5
<1>13. P[m][i + 1] = P[k][i + 1]
  <2> DEFINE x == i + 1
  <2>1. k \in 0..Len(bs) /\ x \in 1..Len(P[k])
    BY <1>8, <1>12
  <2> HIDE DEF x
  <2>2. P[m][x] = P[k][x]
    BY <1>2, <2>1, PrefixGrows
  <2> QED BY <2>2 DEF x
<1> QED BY <1>3, <1>11, <1>12, <1>13

(***************************************************************************)
(* ReadBuffer.                                                             *)
(***************************************************************************)
BufferInv == chunks \in Seq(Chunk(Nat)) /\ fed \in Nat

\* A run of numbered bytes.
Numbered(from, n) == [i \in 1..n |-> from + i]

LEMMA NumberedRun ==
  ASSUME NEW from \in Nat, NEW n \in Nat
  PROVE  /\ Numbered(from, n) \in Seq(Nat) /\ Len(Numbered(from, n)) = n
         /\ n # 0 => Numbered(from, n) \in Chunk(Nat)
         /\ Numbered(from, 0) = <<>>
<1>1. Numbered(from, n) \in [1..n -> Nat] /\ Numbered(from, 0) \in [1..0 -> Nat]
  BY DEF Numbered
<1>2. Numbered(from, n) \in Seq(Nat) /\ Numbered(from, 0) \in Seq(Nat)
  BY <1>1, SeqDef
<1>3. Len(Numbered(from, n)) = n /\ Len(Numbered(from, 0)) = 0
  <2>1. /\ DOMAIN Numbered(from, n) = 1..n /\ DOMAIN Numbered(from, 0) = 1..0
        /\ DOMAIN Numbered(from, n) = 1..Len(Numbered(from, n))
        /\ DOMAIN Numbered(from, 0) = 1..Len(Numbered(from, 0))
        /\ Len(Numbered(from, n)) \in Nat /\ Len(Numbered(from, 0)) \in Nat
    BY <1>1, <1>2, LenProperties
  <2> QED BY <2>1
<1>4. Numbered(from, 0) = <<>> /\ (n # 0 => Numbered(from, n) # <<>>)
  BY <1>2, <1>3, EmptySeq
<1> QED BY <1>2, <1>3, <1>4 DEF Chunk

\* Two runs that follow each other are one.
LEMMA NumberedJoin ==
  ASSUME NEW from \in Nat, NEW n \in Nat, NEW m \in Nat
  PROVE  Numbered(from, n) \o Numbered(from + n, m) = Numbered(from, n + m)
<1> DEFINE s == Numbered(from, n)
           t == Numbered(from + n, m)
           u == Numbered(from, n + m)
<1>1. s \in Seq(Nat) /\ t \in Seq(Nat) /\ u \in Seq(Nat) /\ Len(s) = n /\ Len(t) = m
      /\ Len(u) = n + m
  <2> DEFINE to == from + n
             k == n + m
  <2>1. to \in Nat /\ k \in Nat
    OBVIOUS
  <2> HIDE DEF to, k
  <2>2. /\ Numbered(from, n) \in Seq(Nat) /\ Len(Numbered(from, n)) = n
        /\ Numbered(to, m) \in Seq(Nat) /\ Len(Numbered(to, m)) = m
        /\ Numbered(from, k) \in Seq(Nat) /\ Len(Numbered(from, k)) = k
    BY <2>1, NumberedRun
  <2> QED BY <2>2 DEF to, k
<1>2. /\ \A i \in 1..n : s[i] = from + i
      /\ \A i \in 1..m : t[i] = (from + n) + i
      /\ \A i \in 1..(n + m) : u[i] = from + i
  BY DEF Numbered
<1> HIDE DEF s, t, u
<1>3. /\ s \o t \in Seq(Nat) /\ Len(s \o t) = n + m
      /\ \A i \in 1..(n + m) : (s \o t)[i] = IF i <= n THEN s[i] ELSE t[i - n]
  BY <1>1, ConcatProperties
<1>4. ASSUME NEW i \in 1..(n + m) PROVE (s \o t)[i] = u[i]
  <2>1. i <= n => i \in 1..n
    OBVIOUS
  <2>2. ~(i <= n) => i - n \in 1..m /\ (from + n) + (i - n) = from + i
    OBVIOUS
  <2> QED BY <1>2, <1>3, <2>1, <2>2
<1>5. s \o t = u
  <2> DEFINE v == s \o t
  <2>1. v \in Seq(Nat) /\ Len(v) = Len(u) /\ \A i \in 1..Len(v) : v[i] = u[i]
    BY <1>1, <1>3, <1>4
  <2> HIDE DEF v
  <2>2. v = u
    BY <1>1, <2>1, SeqEqual
  <2> QED BY <2>2 DEF v
<1> QED BY <1>5 DEF s, t, u

\* addBuffer adds at the end of the run, and no empty chunk.
LEMMA AddBufferAdds ==
  ASSUME NEW B, NEW bs \in Seq(Chunk(B)), NEW c \in Seq(B)
  PROVE  /\ AddBuffer(bs, c) \in Seq(Chunk(B))
         /\ FlattenSeq(AddBuffer(bs, c)) = FlattenSeq(bs) \o c
<1>1. bs \in Seq(Seq(B))
  BY SeqMonotonic DEF Chunk
<1>2. CASE c = <<>>
  <2>1. FlattenSeq(bs) \o <<>> = FlattenSeq(bs)
    BY <1>1, FlattenType, ConcatEmptySeq
  <2> QED BY <1>2, <2>1 DEF AddBuffer
<1>3. CASE c # <<>>
  <2>1. c \in Chunk(B)
    BY <1>3 DEF Chunk
  <2>2. Append(bs, c) \in Seq(Chunk(B))
    BY <2>1, AppendProperties
  <2>3. FlattenSeq(Append(bs, c)) = FlattenSeq(bs) \o c
    BY <1>1, FlattenAppend
  <2> QED BY <1>3, <2>2, <2>3 DEF AddBuffer
<1> QED BY <1>2, <1>3

\* Every operation on the chunks is one on the queue.
LEMMA BufferStep ==
  ASSUME BufferInv, [BufferNext]_bufferVars
  PROVE  BufferInv' /\ [Queue!QueueNext]_<<FlattenSeq(chunks), fed, got>>
<1> DEFINE q == FlattenSeq(chunks)
<1>1. /\ MaxBytes \in Nat /\ MaxChunk \in Nat /\ fed \in Nat
      /\ chunks \in Seq(Chunk(Nat)) /\ chunks \in Seq(Seq(Nat)) /\ q \in Seq(Nat)
  BY BoundAssumption, SeqMonotonic, FlattenType DEF BufferInv, Chunk
<1>2. ASSUME NEW n \in 0..MaxChunk, addBuffer(n)
      PROVE  BufferInv' /\ \E k \in 0..MaxBytes : Queue!Put(k)
  <2>1. NewBytes(n) = Numbered(fed, n) /\ Numbered(fed, n) \in Seq(Nat)
    BY <1>1, NumberedRun DEF NewBytes, Numbered
  <2>2. chunks' \in Seq(Chunk(Nat)) /\ q' = q \o Numbered(fed, n)
    BY <1>1, <1>2, <2>1, AddBufferAdds DEF addBuffer
  <2>3. n \in 0..MaxBytes /\ fed' = fed + n /\ fed' \in Nat /\ got' = got
    BY <1>1, <1>2 DEF addBuffer
  <2>4. Queue!Put(n)
    BY <2>2, <2>3 DEF Queue!Put, Numbered
  <2> QED BY <2>2, <2>3, <2>4 DEF BufferInv
<1>3. ASSUME NEW n \in 1..MaxChunk, NEW m \in 1..MaxChunk, addChunks(n, m)
      PROVE  BufferInv' /\ \E k \in 0..MaxBytes : Queue!Put(k)
  <2> DEFINE a == Numbered(fed, n)
             b == Numbered(fed + n, m)
  <2>1. /\ fed + n + m <= MaxBytes /\ chunks' = chunks \o <<a, b>>
        /\ fed' = fed + n + m /\ got' = got
    BY <1>3 DEF addChunks, NewBytes, Numbered
  <2>2. a \in Chunk(Nat) /\ b \in Chunk(Nat) /\ a \in Seq(Nat) /\ b \in Seq(Nat)
    <3> DEFINE to == fed + n
    <3>1. n \in Nat /\ n # 0 /\ m \in Nat /\ m # 0 /\ to \in Nat
      BY <1>1
    <3> HIDE DEF to
    <3>2. Numbered(fed, n) \in Chunk(Nat) /\ Numbered(to, m) \in Chunk(Nat)
      BY <1>1, <3>1, NumberedRun
    <3> QED BY <3>2 DEF Chunk, to
  <2>3. a \o b = Numbered(fed, n + m)
    <3>1. n \in Nat /\ m \in Nat
      BY <1>1
    <3> QED BY <1>1, <3>1, NumberedJoin
  <2> HIDE DEF a, b
  <2> DEFINE one == Append(chunks, a)
  <2>4. one \in Seq(Chunk(Nat)) /\ one \in Seq(Seq(Nat))
    BY <1>1, <2>2, AppendProperties
  <2>5. Append(one, b) \in Seq(Chunk(Nat))
    <3> HIDE DEF one
    <3> QED BY <2>2, <2>4, AppendProperties
  <2>6. chunks' = Append(one, b)
    BY <1>1, <2>1, <2>2
  <2>7. FlattenSeq(one) = q \o a
    BY <1>1, <2>2, FlattenAppend
  <2>8. FlattenSeq(Append(one, b)) = (q \o a) \o b
    <3> HIDE DEF one
    <3> QED BY <2>2, <2>4, <2>7, FlattenAppend
  <2>9. (q \o a) \o b = q \o (a \o b)
    <3>1. Associative(Nat)
      BY ConcatAssociates
    <3> QED BY <1>1, <2>2, <3>1, Zenon DEF Associative
  <2>10. n + m \in 0..MaxBytes /\ fed' \in Nat /\ fed' = fed + (n + m)
    BY <1>1, <2>1
  <2>11. Queue!Put(n + m)
    BY <2>1, <2>3, <2>6, <2>8, <2>9, <2>10 DEF Queue!Put, Numbered
  <2> QED BY <2>5, <2>6, <2>10, <2>11 DEF BufferInv
<1>4. ASSUME NEW n \in 0..MaxBytes, advanceBuffer(n) PROVE BufferInv' /\ Queue!Drop(n)
  <2>1. n \in Nat /\ chunks' = AdvanceBuffer(chunks, n) /\ fed' = fed /\ got' = got
    BY <1>1, <1>4 DEF advanceBuffer
  <2>2. chunks' \in Seq(Chunk(Nat)) /\ q' = Dropped(q, n)
    BY <1>1, <2>1, AdvanceDrops
  <2> QED BY <1>1, <2>1, <2>2 DEF BufferInv, Queue!Drop, Dropped
<1>5. ASSUME NEW n \in 1..MaxBytes, getNext(n) PROVE BufferInv' /\ Queue!Take(n)
  <2>1. /\ n \in Nat /\ n <= Len(q) /\ chunks' = AdvanceBuffer(chunks, n)
        /\ got' = Transferred(chunks, n) /\ fed' = fed
    BY <1>1, <1>5 DEF getNext, BufferLength
  <2>2. chunks' \in Seq(Chunk(Nat)) /\ q' = Dropped(q, n)
    BY <1>1, <2>1, AdvanceDrops
  <2>3. got' = Taken(q, n)
    <3>1. n \in 0..Len(FlattenSeq(chunks))
      BY <1>1, <2>1, LenProperties
    <3> QED BY <1>1, <2>1, <3>1, TransferredTakes
  <2> QED BY <1>1, <2>1, <2>2, <2>3 DEF BufferInv, Queue!Take, Dropped, Taken
<1>6. CASE UNCHANGED bufferVars
  BY <1>6 DEF bufferVars, BufferInv
<1>7. 1..MaxBytes \subseteq 0..MaxBytes
  BY <1>1
<1> QED BY <1>2, <1>3, <1>4, <1>5, <1>6, <1>7 DEF BufferNext, Queue!QueueNext

\* The buffer starts empty.
LEMMA BufferStart == BufferInit => BufferInv /\ Queue!QueueInit
BY EmptySeq, FlattenType DEF BufferInit, BufferInv, Queue!QueueInit

\* The chunks behave as one queue of bytes: getNext returns the oldest bytes and
\* takes out just those, advanceBuffer drops as many as it is told.
THEOREM BytesInOrderHolds == BufferSpec => BytesInOrder
<1>1. BufferSpec => []BufferInv
  <2>1. BufferInv /\ [BufferNext]_bufferVars => BufferInv'
    BY BufferStep
  <2> QED BY <2>1, BufferStart, PTL DEF BufferSpec
<1>2. BufferInv /\ [BufferNext]_bufferVars => [Queue!QueueNext]_<<FlattenSeq(chunks), fed, got>>
  BY BufferStep
<1> QED BY <1>1, <1>2, BufferStart, PTL DEF BufferSpec, BytesInOrder, Queue!QueueSpec

\* No chunk in the list is empty, as the assertions "Should have been cleaned up"
\* of the buffer say.
THEOREM CleanedUpHolds == BufferSpec => []CleanedUp
<1>1. BufferInv => CleanedUp
  <2> SUFFICES ASSUME BufferInv, NEW k \in DOMAIN chunks PROVE chunks[k] # <<>>
    BY DEF CleanedUp
  <2>1. chunks[k] \in Chunk(Nat)
    BY LenProperties, ElementOfSeq DEF BufferInv
  <2> QED BY <2>1 DEF Chunk
<1>2. BufferInv /\ [BufferNext]_bufferVars => BufferInv'
  BY BufferStep
<1> QED BY <1>1, <1>2, BufferStart, PTL DEF BufferSpec

\* operator[] finds every byte at its place in the run.
THEOREM IndexInOrderHolds == BufferSpec => []IndexInOrder
<1>1. BufferInv => IndexInOrder
  <2> SUFFICES ASSUME BufferInv, NEW i \in 0..(BufferLength(chunks) - 1)
               PROVE  At(chunks, i) = FlattenSeq(chunks)[i + 1]
    BY DEF IndexInOrder
  <2>1. chunks \in Seq(Seq(Nat))
    BY SeqMonotonic DEF BufferInv, Chunk
  <2> QED BY <2>1, AtFinds DEF BufferLength
<1>2. BufferInv /\ [BufferNext]_bufferVars => BufferInv'
  BY BufferStep
<1> QED BY <1>1, <1>2, BufferStart, PTL DEF BufferSpec

(***************************************************************************)
(* MessageFraming.                                                         *)
(***************************************************************************)
\* The bytes of a message.
LEMMA EncodedRun ==
  ASSUME NEW m \in 1..MaxMessages, NEW size \in MessageSize
  PROVE  /\ size \in Nat /\ size >= 3
         /\ Encoded(m, size) \in Seq(Byte) /\ Len(Encoded(m, size)) = size
         /\ \A i \in 1..size : Encoded(m, size)[i] = [message |-> m, index |-> i]
<1>1. size \in Nat /\ size >= 3
  <2>1. size \in HeaderSize..LargestSize
    BY FramingAssumption
  <2> QED BY <2>1 DEF HeaderSize
<1>2. \A i \in 1..size : Encoded(m, size)[i] = [message |-> m, index |-> i]
  BY DEF Encoded
<1>3. Encoded(m, size) \in [1..size -> Byte]
  BY <1>1 DEF Encoded, Byte
<1>4. Encoded(m, size) \in Seq(Byte)
  BY <1>1, <1>3, SeqDef
<1>5. Len(Encoded(m, size)) = size
  <2>1. /\ DOMAIN Encoded(m, size) = 1..size
        /\ DOMAIN Encoded(m, size) = 1..Len(Encoded(m, size))
        /\ Len(Encoded(m, size)) \in Nat
    BY <1>3, <1>4, LenProperties
  <2> QED BY <1>1, <2>1
<1> QED BY <1>1, <1>2, <1>4, <1>5

\* The messages that are under way, by the count of those handled.
LEMMA PendingMessages ==
  ASSUME FramingInv
  PROVE  /\ Pending \in Seq(Seq(Byte)) /\ Len(Pending) = Len(sizes) - Len(received)
         /\ Len(sizes) \in Nat /\ Len(received) \in Nat
         /\ \A j \in 1..Len(sizes) : j \in 1..MaxMessages /\ sizes[j] \in MessageSize
         /\ \A j \in 1..(Len(sizes) - Len(received)) :
              Pending[j] = Encoded(Len(received) + j, sizes[Len(received) + j])
<1> DEFINE n == Len(sizes) - Len(received)
<1>1. Len(sizes) \in Nat /\ Len(received) \in Nat /\ n \in Nat /\ Len(sizes) <= MaxMessages
  BY LenProperties DEF FramingInv, FramingTypeOK
<1>2. \A j \in 1..Len(sizes) : j \in 1..MaxMessages /\ sizes[j] \in MessageSize
  BY <1>1, ElementOfSeq, FramingAssumption DEF FramingInv, FramingTypeOK
<1>3. \A j \in 1..n : Pending[j] = Encoded(Len(received) + j, sizes[Len(received) + j])
  BY DEF Pending
<1>4. Pending \in [1..n -> Seq(Byte)]
  <2>1. ASSUME NEW j \in 1..n
        PROVE  Encoded(Len(received) + j, sizes[Len(received) + j]) \in Seq(Byte)
    <3> DEFINE i == Len(received) + j
    <3>1. i \in 1..Len(sizes)
      BY <1>1
    <3> HIDE DEF i
    <3>2. Encoded(i, sizes[i]) \in Seq(Byte)
      BY <1>2, <3>1, EncodedRun
    <3> QED BY <3>2 DEF i
  <2> QED BY <2>1 DEF Pending
<1>5. Pending \in Seq(Seq(Byte))
  <2> HIDE DEF n
  <2> QED BY <1>1, <1>4, SeqDef
<1>6. Len(Pending) = n
  <2>1. DOMAIN Pending = 1..n /\ DOMAIN Pending = 1..Len(Pending) /\ Len(Pending) \in Nat
    BY <1>4, <1>5, LenProperties
  <2> HIDE DEF n
  <2> QED BY <1>1, <2>1
<1> QED BY <1>1, <1>2, <1>3, <1>5, <1>6

\* The bytes that are there start with the oldest message that is not handled.
LEMMA FirstPending ==
  ASSUME FramingInv, buffers # <<>>
  PROVE  LET m == Len(received) + 1
             e == Encoded(m, sizes[m])
             rest == FlattenSeq(Tail(Pending))
         IN  /\ m \in 1..Len(sizes) /\ rest \in Seq(Byte) /\ Pending # <<>>
             /\ FlattenSeq(buffers) \o flying = e \o rest
             /\ Head(buffers) \in Chunk(Byte)
             /\ Len(FlattenSeq(buffers)) >= Len(Head(buffers))
             /\ Head(buffers)[1] = [message |-> m, index |-> 1]
<1> DEFINE m == Len(received) + 1
           e == Encoded(m, sizes[m])
           rest == FlattenSeq(Tail(Pending))
           f == FlattenSeq(buffers)
           h == Head(buffers)
           t == FlattenSeq(Tail(buffers))
<1>1. /\ buffers \in Seq(Chunk(Byte)) /\ buffers \in Seq(Seq(Byte)) /\ flying \in Seq(Byte)
      /\ f \o flying = FlattenSeq(Pending)
  BY SeqMonotonic DEF FramingInv, FramingTypeOK, Chunk
<1>2. h \in Chunk(Byte) /\ h \in Seq(Byte) /\ t \in Seq(Byte) /\ f = h \o t
  <2>1. h \in Chunk(Byte)
    BY <1>1, HeadTailProperties
  <2>2. h \in Seq(Byte) /\ Tail(buffers) \in Seq(Seq(Byte)) /\ f = h \o t
    BY <1>1, FlattenHead
  <2>3. t \in Seq(Byte)
    BY <2>2, FlattenType
  <2> QED BY <2>1, <2>2, <2>3
<1> HIDE DEF f, h, t
<1>3. /\ Len(h) \in Nat \ {0} /\ Len(t) \in Nat /\ f \in Seq(Byte) /\ Len(f) = Len(h) + Len(t)
      /\ f[1] = h[1]
  <2>1. Len(h) \in Nat \ {0} /\ Len(t) \in Nat
    BY <1>2, EmptySeq, LenProperties DEF Chunk
  <2> QED BY <1>2, <2>1, ConcatProperties
<1> DEFINE all == f \o flying
<1>4. all \in Seq(Byte) /\ Len(all) >= 1 /\ all[1] = h[1]
  <2>1. Len(flying) \in Nat /\ 1 \in 1..(Len(f) + Len(flying)) /\ 1 <= Len(f)
    BY <1>1, <1>3, LenProperties
  <2>2. /\ f \o flying \in Seq(Byte) /\ Len(f \o flying) = Len(f) + Len(flying)
        /\ \A i \in 1..(Len(f) + Len(flying)) :
             (f \o flying)[i] = IF i <= Len(f) THEN f[i] ELSE flying[i - Len(f)]
    <3>1. f \in Seq(Byte) /\ flying \in Seq(Byte)
      BY <1>1, <1>3
    <3> QED BY <3>1, ConcatProperties, SMTT(30)
  <2>3. all[1] = f[1]
    BY <2>1, <2>2
  <2> QED BY <1>3, <2>1, <2>2, <2>3
<1>5. Pending # <<>>
  <2>1. Len(<<>>) = 0 /\ FlattenSeq(<<>>) = <<>>
    BY EmptySeq, FlattenType
  <2> QED BY <1>1, <1>4, <2>1
<1>6. m \in 1..Len(sizes) /\ Head(Pending) = e /\ e \in Seq(Byte)
  <2>1. Pending[1] = e /\ Len(Pending) # 0 /\ m \in 1..Len(sizes)
    <3>1. Len(Pending) \in Nat \ {0}
      BY <1>5, PendingMessages, EmptySeq
    <3>2. 1 \in 1..(Len(sizes) - Len(received)) /\ m \in 1..Len(sizes)
      BY <3>1, PendingMessages
    <3> QED BY <3>1, <3>2, PendingMessages
  <2>2. e \in Seq(Byte)
    <3> HIDE DEF m
    <3> QED BY <2>1, PendingMessages, EncodedRun
  <2> QED BY <2>1, <2>2
<1>7. all = e \o rest /\ rest \in Seq(Byte)
  <2>1. Tail(Pending) \in Seq(Seq(Byte)) /\ FlattenSeq(Pending) = Head(Pending) \o rest
    BY <1>5, PendingMessages, FlattenHead
  <2> QED BY <1>1, <1>6, <2>1, FlattenType
<1> HIDE DEF rest
<1>8. e[1] = [message |-> m, index |-> 1] /\ Len(e) >= 1 /\ Len(e) \in Nat
  <2> HIDE DEF m
  <2>1. m \in 1..MaxMessages /\ sizes[m] \in MessageSize
    BY <1>6, PendingMessages
  <2>2. Len(e) = sizes[m] /\ sizes[m] \in Nat /\ sizes[m] >= 3
        /\ \A i \in 1..sizes[m] : e[i] = [message |-> m, index |-> i]
    BY <2>1, EncodedRun
  <2>3. 1 \in 1..sizes[m]
    BY <2>2
  <2> QED BY <2>2, <2>3
<1> HIDE DEF e
<1>9. all[1] = e[1]
  <2>1. Len(rest) \in Nat /\ 1 \in 1..(Len(e) + Len(rest)) /\ 1 <= Len(e)
    BY <1>7, <1>8, LenProperties
  <2> QED BY <1>6, <1>7, <2>1, ConcatProperties
<1>10. h[1] = [message |-> m, index |-> 1] /\ Len(f) >= Len(h)
  BY <1>3, <1>4, <1>8, <1>9
<1> QED BY <1>2, <1>5, <1>6, <1>7, <1>10, Zenon DEF e, rest, f, h

\* One more message is sent.
LEMMA SendFrames ==
  ASSUME FramingInv, NEW size \in MessageSize, SendMessage(size)
  PROVE  FramingInv'
<1> DEFINE n == Len(sizes)
           r == Len(received)
           e == Encoded(n + 1, size)
           f == FlattenSeq(buffers)
<1>1. /\ sizes \in Seq(MessageSize) /\ sizes' = Append(sizes, size) /\ n + 1 <= MaxMessages
      /\ flying' = flying \o e /\ buffers' = buffers /\ received' = received
      /\ status' = status /\ split' = split /\ r <= n
      /\ n \in Nat /\ r \in Nat /\ DOMAIN received = 1..r
  BY LenProperties, FramingAssumption DEF FramingInv, FramingTypeOK, SendMessage
<1>2. /\ sizes' \in Seq(MessageSize) /\ Len(sizes') = n + 1 /\ sizes'[n + 1] = size
      /\ \A j \in 1..n : sizes'[j] = sizes[j]
  BY <1>1, AppendProperties
<1>3. e \in Seq(Byte)
  <2> DEFINE m == n + 1
  <2>1. m \in 1..MaxMessages
    BY <1>1, FramingAssumption
  <2> HIDE DEF m
  <2>2. Encoded(m, size) \in Seq(Byte)
    BY <2>1, EncodedRun
  <2> QED BY <2>2 DEF m
<1>4. /\ f \in Seq(Byte) /\ flying \in Seq(Byte) /\ f \o flying = FlattenSeq(Pending)
      /\ f' = f
  <2>1. buffers \in Seq(Seq(Byte))
    BY SeqMonotonic DEF FramingInv, FramingTypeOK
  <2> QED BY <1>1, <2>1, FlattenType DEF FramingInv, FramingTypeOK
<1>5. flying' \in Seq(Byte)
  <2> HIDE DEF e
  <2> QED BY <1>1, <1>3, <1>4, ConcatProperties
<1>6. FramingTypeOK'
  BY <1>1, <1>2, <1>5 DEF FramingInv, FramingTypeOK
<1>7. \A k \in DOMAIN received' : received'[k] = Encoded(k, sizes'[k])
  <2>1. \A k \in 1..r : received[k] = Encoded(k, sizes[k])
    BY <1>1, Zenon DEF FramingInv
  <2>2. \A k \in 1..r : k \in 1..n
    BY <1>1
  <2> QED BY <1>1, <1>2, <2>1, <2>2
<1>8. Pending' = Append(Pending, e)
  <2> DEFINE p == Pending
             q == Append(p, e)
             d == n - r
  <2>1. /\ p \in Seq(Seq(Byte)) /\ Len(p) = d /\ d \in Nat
        /\ \A j \in 1..d : p[j] = Encoded(r + j, sizes[r + j])
    BY <1>1, PendingMessages
  <2> HIDE DEF p, e, d
  <2>2. /\ q \in Seq(Seq(Byte)) /\ Len(q) = d + 1 /\ q[d + 1] = e
        /\ \A j \in 1..d : q[j] = p[j]
    BY <1>3, <2>1, AppendProperties
  <2>3. Pending' = [j \in 1..(d + 1) |-> Encoded(r + j, sizes'[r + j])]
    <3>1. Len(sizes') - Len(received') = d + 1
      BY <1>1, <1>2 DEF d
    <3> QED BY <1>1, <3>1 DEF Pending
  <2>4. ASSUME NEW j \in 1..(d + 1) PROVE q[j] = Encoded(r + j, sizes'[r + j])
    <3>1. CASE j = d + 1
      <4>1. r + j = n + 1
        BY <1>1, <3>1 DEF d
      <4> QED BY <1>2, <2>2, <3>1, <4>1 DEF e
    <3>2. CASE j # d + 1
      <4>1. j \in 1..d /\ r + j \in 1..n
        BY <1>1, <2>1, <3>2 DEF d
      <4> QED BY <1>2, <2>1, <2>2, <4>1
    <3> QED BY <3>1, <3>2
  <2>5. q = [j \in 1..(d + 1) |-> q[j]]
    BY <2>1, <2>2, LenProperties
  <2> HIDE DEF q
  <2>6. q = Pending'
    BY <2>3, <2>4, <2>5
  <2> QED BY <2>6 DEF p, q
<1>9. FlattenSeq(Pending') = FlattenSeq(Pending) \o e
  <2> HIDE DEF e
  <2> QED BY <1>3, <1>8, PendingMessages, FlattenAppend
<1>10. f' \o flying' = FlattenSeq(Pending')
  <2>1. (f \o flying) \o e = f \o (flying \o e)
    <3>1. Associative(Byte)
      BY ConcatAssociates
    <3> HIDE DEF e, f
    <3> QED BY <1>3, <1>4, <3>1, Zenon DEF Associative
  <2> QED BY <1>1, <1>4, <1>9, <2>1, Zenon
<1>11. Len(received') <= Len(sizes') /\ Len(sizes') <= MaxMessages
  BY <1>1, <1>2
<1> QED BY <1>6, <1>7, <1>10, <1>11 DEF FramingInv

\* Some of the bytes arrive.
LEMMA ReadFrames ==
  ASSUME FramingInv, NEW n \in 1..Len(flying), Read(n)
  PROVE  FramingInv'
<1> DEFINE a == Taken(flying, n)
           b == Dropped(flying, n)
           f == FlattenSeq(buffers)
<1>1. /\ buffers' = AddBuffer(buffers, a) /\ flying' = b /\ status' = "onRead"
      /\ split' \in BOOLEAN /\ sizes' = sizes /\ received' = received
  BY DEF Read, Taken, Dropped, EndsMessage, FramingInv, FramingTypeOK
<1>2. flying \in Seq(Byte) /\ n \in Nat /\ n \in 0..Len(flying)
  BY LenProperties DEF FramingInv, FramingTypeOK
<1>3. a \in Seq(Byte) /\ b \in Seq(Byte) /\ a \o b = flying
  BY <1>2, TakenProperties, DroppedProperties, SplitJoin DEF Taken, Dropped
<1>4. buffers \in Seq(Chunk(Byte)) /\ f \in Seq(Byte) /\ f \o flying = FlattenSeq(Pending)
  <2>1. buffers \in Seq(Seq(Byte))
    BY SeqMonotonic DEF FramingInv, FramingTypeOK
  <2> QED BY <2>1, FlattenType DEF FramingInv, FramingTypeOK, Chunk
<1> HIDE DEF a, b
<1>5. buffers' \in Seq(Chunk(Byte)) /\ f' = f \o a
  BY <1>1, <1>3, <1>4, AddBufferAdds
<1>6. f' \o flying' = f \o flying
  <2>1. (f \o a) \o b = f \o (a \o b)
    <3>1. Associative(Byte)
      BY ConcatAssociates
    <3> HIDE DEF f
    <3> QED BY <1>3, <1>4, <3>1, Zenon DEF Associative
  <2> QED BY <1>1, <1>3, <1>5, <2>1
<1>7. Pending' = Pending
  BY <1>1 DEF Pending
<1>8. FramingTypeOK'
  BY <1>1, <1>3, <1>5 DEF FramingInv, FramingTypeOK, Chunk
<1> QED BY <1>1, <1>4, <1>6, <1>7, <1>8 DEF FramingInv

\* When a message is handled, it is the oldest one under way, whole.
LEMMA HandleFrames ==
  ASSUME FramingInv, HandleMessage
  PROVE  FramingInv'
<1> DEFINE r == Len(received)
           m == r + 1
           size == sizes[m]
           e == Encoded(m, size)
           f == FlattenSeq(buffers)
           g == FlattenSeq(Tail(Pending))
           bytes == [i \in 1..size |-> At(buffers, i - 1)]
<1>1. /\ buffers \in Seq(Chunk(Byte)) /\ buffers \in Seq(Seq(Byte)) /\ f \in Seq(Byte)
      /\ flying \in Seq(Byte) /\ Len(f) \in Nat
  <2>1. buffers \in Seq(Seq(Byte))
    BY SeqMonotonic DEF FramingInv, FramingTypeOK
  <2> QED BY <2>1, FlattenType, LenProperties DEF FramingInv, FramingTypeOK, Chunk
<1>2. buffers # <<>>
  <2>1. Len(f) >= 3
    BY DEF HandleMessage, MessageWhole, HeaderWhole, HeaderThere, HeaderSize, BufferLength
  <2>2. FlattenSeq(<<>>) = <<>> /\ Len(<<>>) = 0
    BY FlattenType, EmptySeq
  <2> QED BY <2>1, <2>2
<1>3. /\ m \in 1..Len(sizes) /\ g \in Seq(Byte) /\ f \o flying = e \o g
      /\ Len(f) >= Len(Head(buffers)) /\ Pending # <<>>
      /\ Head(buffers)[1] = [message |-> m, index |-> 1] /\ Head(buffers) \in Seq(Byte)
  BY <1>2, FirstPending DEF Chunk
<1>4. HeadSize = size
  BY <1>3 DEF HeadSize
<1>5. Len(Head(buffers)) >= size
  BY <1>4 DEF HandleMessage, MessageWhole
<1>6. /\ r \in Nat /\ m \in 1..MaxMessages /\ size \in MessageSize
      /\ Len(sizes) \in Nat
  <2>1. \A j \in 1..Len(sizes) : j \in 1..MaxMessages /\ sizes[j] \in MessageSize
    BY PendingMessages
  <2> HIDE DEF m
  <2>2. m \in 1..MaxMessages /\ sizes[m] \in MessageSize
    BY <1>3, <2>1
  <2> QED BY <2>2, PendingMessages DEF m
<1>7. /\ size \in Nat /\ e \in Seq(Byte) /\ Len(e) = size
      /\ \A i \in 1..size : e[i] = [message |-> m, index |-> i]
  <2> HIDE DEF m
  <2>1. sizes[m] \in MessageSize
    BY <1>6
  <2> QED BY <1>6, <2>1, EncodedRun
<1>8. size <= Len(f)
  <2>1. Len(Head(buffers)) \in Nat
    BY <1>3, LenProperties
  <2> HIDE DEF size, f
  <2> QED BY <1>1, <1>3, <1>5, <1>7, <2>1 DEF f, size
<1> HIDE DEF g
<1>9. \A i \in 1..size : At(buffers, i - 1) = e[i]
  <2> SUFFICES ASSUME NEW i \in 1..size PROVE At(buffers, i - 1) = e[i]
    OBVIOUS
  <2> DEFINE j == i - 1
  <2>1. j \in 0..(Len(f) - 1) /\ j + 1 = i /\ i \in 1..Len(f)
    BY <1>1, <1>7, <1>8
  <2>2. At(buffers, j) = f[i]
    <3>1. At(buffers, j) = FlattenSeq(buffers)[j + 1]
      <4> HIDE DEF j
      <4> QED BY <1>1, <2>1, AtFinds
    <3> QED BY <2>1, <3>1
  <2> HIDE DEF f, e, m
  <2>3. (f \o flying)[i] = f[i]
    <3>1. Len(flying) \in Nat /\ i \in 1..(Len(f) + Len(flying)) /\ i <= Len(f)
      BY <1>1, <2>1, LenProperties
    <3> QED BY <1>1, <3>1, ConcatProperties
  <2>4. (e \o g)[i] = e[i]
    <3>1. Len(g) \in Nat /\ i \in 1..(Len(e) + Len(g)) /\ i <= Len(e)
      BY <1>3, <1>7, LenProperties
    <3> QED BY <1>3, <1>7, <3>1, ConcatProperties
  <2> QED BY <1>3, <2>2, <2>3, <2>4
<1>10. bytes = e
  <2>1. e = [i \in 1..size |-> e[i]]
    BY DEF Encoded
  <2> HIDE DEF e, size
  <2> QED BY <1>9, <2>1
<1>11. /\ received' = Append(received, e) /\ buffers' = AdvanceBuffer(buffers, size)
       /\ sizes' = sizes /\ flying' = flying /\ status' = status /\ split' = split
  BY <1>4, <1>10 DEF HandleMessage, TakeMessage
<1>12. /\ received' \in Seq(Seq(Byte)) /\ Len(received') = m /\ received'[m] = e
       /\ \A k \in 1..r : received'[k] = received[k]
  <2>1. received \in Seq(Seq(Byte))
    BY DEF FramingInv, FramingTypeOK
  <2> HIDE DEF e
  <2> QED BY <1>7, <1>11, <2>1, AppendProperties
<1>13. \A k \in DOMAIN received' : received'[k] = Encoded(k, sizes'[k])
  <2>1. DOMAIN received' = 1..m /\ DOMAIN received = 1..r
    BY <1>12, LenProperties DEF FramingInv, FramingTypeOK
  <2>2. \A k \in 1..r : received[k] = Encoded(k, sizes[k])
    BY <2>1 DEF FramingInv
  <2>3. ASSUME NEW k \in 1..m PROVE received'[k] = Encoded(k, sizes'[k])
    <3>1. CASE k = m
      BY <1>11, <1>12, <3>1
    <3>2. CASE k # m
      <4>1. k \in 1..r
        BY <1>6, <3>2
      <4> QED BY <1>11, <1>12, <2>2, <4>1
    <3> QED BY <3>1, <3>2
  <2> QED BY <2>1, <2>3
<1>14. buffers' \in Seq(Chunk(Byte)) /\ FlattenSeq(buffers') = Dropped(f, size)
  <2> HIDE DEF size
  <2> QED BY <1>1, <1>7, <1>11, AdvanceDrops
<1>15. Dropped(f, size) \o flying = g
  <2> HIDE DEF f, e, size
  <2>1. Dropped(f \o flying, size) = Dropped(f, size) \o flying
    BY <1>1, <1>7, <1>8, DroppedConcat
  <2>2. Dropped(e \o g, size) = Dropped(g, size - Len(e))
    <3>1. size >= Len(e)
      BY <1>7
    <3> QED BY <1>3, <1>7, <3>1, DroppedConcat
  <2>3. size - Len(e) = 0 /\ Dropped(g, 0) = g
    BY <1>3, <1>7, SubSeqFull DEF Dropped
  <2> QED BY <1>3, <2>1, <2>2, <2>3
<1>16. Pending' = Tail(Pending)
  <2> DEFINE p == Pending
             q == Tail(p)
             d == Len(sizes) - r
  <2>1. /\ p \in Seq(Seq(Byte)) /\ Len(p) = d /\ d \in Nat /\ p # <<>>
        /\ \A j \in 1..d : p[j] = Encoded(r + j, sizes[r + j])
    BY <1>3, PendingMessages, LenProperties
  <2>2. Pending' = [j \in 1..(d - 1) |-> Encoded(m + j, sizes[m + j])]
    <3>1. Len(sizes') - Len(received') = d - 1
      BY <1>6, <1>11, <1>12
    <3> QED BY <1>11, <1>12, <3>1 DEF Pending
  <2> HIDE DEF p, d
  <2>3. /\ q \in Seq(Seq(Byte)) /\ Len(q) = d - 1
        /\ \A j \in 1..(d - 1) : q[j] = p[j + 1]
    BY <2>1, HeadTailProperties
  <2>4. ASSUME NEW j \in 1..(d - 1) PROVE q[j] = Encoded(m + j, sizes[m + j])
    <3>1. j + 1 \in 1..d /\ r + (j + 1) = m + j
      BY <1>6, <2>1
    <3> QED BY <2>1, <2>3, <3>1
  <2>5. q = [j \in 1..(d - 1) |-> q[j]]
    BY <2>3, LenProperties
  <2> HIDE DEF q
  <2>6. q = Pending'
    BY <2>2, <2>4, <2>5
  <2> QED BY <2>6 DEF p, q
<1>17. FramingTypeOK'
  BY <1>11, <1>12, <1>14 DEF FramingInv, FramingTypeOK, Chunk
<1>18. Len(received') <= Len(sizes') /\ Len(sizes') <= MaxMessages
  BY <1>3, <1>6, <1>11, <1>12 DEF FramingInv
<1> QED BY <1>11, <1>13, <1>14, <1>15, <1>16, <1>17, <1>18 DEF FramingInv, g

\* Nothing is sent, read or handled otherwise.
LEMMA FramingStep ==
  ASSUME FramingInv, [FramingNext]_framingVars
  PROVE  FramingInv'
<1>1. ASSUME UNCHANGED <<sizes, flying, buffers, received, split>>,
             status' \in {"loop", "onRead", "aborted"}
      PROVE  FramingInv'
  BY <1>1 DEF FramingInv, FramingTypeOK, Pending
<1>2. CASE HeaderTorn
  BY <1>1, <1>2 DEF HeaderTorn
<1>3. CASE Return
  BY <1>1, <1>3 DEF Return
<1>4. CASE UNCHANGED framingVars
  BY <1>1, <1>4 DEF framingVars, FramingInv, FramingTypeOK
<1> QED
  BY <1>2, <1>3, <1>4, SendFrames, ReadFrames, HandleFrames
  DEF FramingNext, Sending, Reading, onRead

\* Nothing was sent at first.
LEMMA FramingStart == FramingInit => FramingInv
<1> SUFFICES ASSUME FramingInit PROVE FramingInv
  OBVIOUS
<1>1. Len(<<>>) = 0 /\ \A S : <<>> \in Seq(S)
  BY EmptySeq
<1>2. FramingTypeOK
  BY <1>1 DEF FramingInit, FramingTypeOK
<1>3. Pending = <<>>
  <2>1. Pending \in [1..0 -> Seq(Byte)]
    BY <1>1 DEF FramingInit, Pending
  <2>2. Pending \in Seq(Seq(Byte)) /\ DOMAIN Pending = 1..0
    BY <2>1, SeqDef
  <2>3. Len(Pending) \in Nat /\ DOMAIN Pending = 1..Len(Pending)
    BY <2>2, LenProperties
  <2>4. Len(Pending) = 0
    BY <2>2, <2>3
  <2> QED BY <2>2, <2>4, EmptySeq
<1>4. FlattenSeq(buffers) \o flying = FlattenSeq(Pending)
  <2>1. <<>> \o <<>> = <<>>
    BY <1>1, ConcatEmptySeq
  <2> QED BY <1>3, <2>1, FlattenType DEF FramingInit
<1>5. Len(received) <= Len(sizes) /\ Len(sizes) <= MaxMessages /\ DOMAIN received = {}
  BY <1>1, FramingAssumption DEF FramingInit
<1> QED BY <1>2, <1>4, <1>5 DEF FramingInv

\* The bytes that are there and under way are always the messages to come.
THEOREM FramingInvariance == FramingSpec => []FramingInv
BY FramingStart, FramingStep, PTL DEF FramingSpec

\* The sizes, the bytes and the messages have their types, and no chunk of the
\* readBuffer is empty.
THEOREM FramingTypeOKHolds == FramingSpec => []FramingTypeOK
<1>1. FramingInv => FramingTypeOK
  BY DEF FramingInv
<1> QED BY <1>1, FramingInvariance, PTL

\* What is read starts at a header: bytes are never taken for a size.
THEOREM InFrameHolds == FramingSpec => []InFrame
<1>1. FramingInv => InFrame
  <2> SUFFICES ASSUME FramingInv, buffers # <<>> PROVE Head(buffers)[1].index = 1
    BY DEF InFrame
  <2> QED BY FirstPending
<1> QED BY <1>1, FramingInvariance, PTL

\* What was handled are the messages from the first one on.
LEMMA HandledInOrder ==
  ASSUME FramingInv
  PROVE  [k \in DOMAIN received |-> NumberOf(received[k])] = [k \in 1..Len(received) |-> k]
<1>1. DOMAIN received = 1..Len(received) /\ Len(received) \in Nat
  BY LenProperties DEF FramingInv, FramingTypeOK
<1>2. ASSUME NEW k \in 1..Len(received) PROVE NumberOf(received[k]) = k
  <2> DEFINE e == Encoded(k, sizes[k])
  <2>1. received[k] = e /\ k \in 1..Len(sizes)
    <3>1. received[k] = e
      BY <1>1 DEF FramingInv
    <3>2. Len(received) <= Len(sizes) /\ Len(sizes) \in Nat
      BY PendingMessages DEF FramingInv
    <3> QED BY <1>1, <3>1, <3>2
  <2>2. k \in 1..MaxMessages /\ sizes[k] \in MessageSize
    BY <2>1, PendingMessages
  <2>3. /\ Len(e) = sizes[k] /\ sizes[k] \in Nat /\ sizes[k] >= 3
        /\ \A i \in 1..sizes[k] : e[i] = [message |-> k, index |-> i]
    BY <2>2, EncodedRun
  <2>4. e[1].message = k
    <3>1. 1 \in 1..sizes[k]
      BY <2>3
    <3>2. e[1] = [message |-> k, index |-> 1]
      BY <2>3, <3>1, Zenon
    <3> HIDE DEF e
    <3> QED BY <3>2
  <2>5. e # <<>>
    BY <2>3, EmptySeq
  <2> QED BY <2>1, <2>4, <2>5, Zenon DEF NumberOf
<1> QED BY <1>1, <1>2

\* So it is after a step.
LEMMA HandledInOrderNext ==
  (FramingInv =>
     /\ [k \in DOMAIN received |-> NumberOf(received[k])] = [k \in 1..Len(received) |-> k]
     /\ Len(received) \in Nat)'
<1>1. FramingInv =>
        /\ [k \in DOMAIN received |-> NumberOf(received[k])] = [k \in 1..Len(received) |-> k]
        /\ Len(received) \in Nat
  BY HandledInOrder, PendingMessages
<1> QED BY <1>1, PTL

\* Every step of the framing is one of the channel, or none.
LEMMA ChannelStep ==
  ASSUME FramingInv, FramingInv', [FramingNext]_framingVars
  PROVE  [Channel!SendNext \/ Channel!HandleNext]_<<Len(sizes),
           [k \in DOMAIN received |-> NumberOf(received[k])]>>
<1> DEFINE h == [k \in DOMAIN received |-> NumberOf(received[k])]
           r == Len(received)
<1>1. h = [k \in 1..r |-> k] /\ h' = [k \in 1..r' |-> k] /\ r \in Nat /\ r' \in Nat
  <2>1. h = [k \in 1..r |-> k] /\ r \in Nat
    BY HandledInOrder, PendingMessages
  <2>2. h' = [k \in 1..r' |-> k] /\ r' \in Nat
    BY HandledInOrderNext
  <2> QED BY <2>1, <2>2
<1>2. ASSUME NEW size \in MessageSize, SendMessage(size) PROVE Channel!SendNext
  <2>1. Len(sizes') = Len(sizes) + 1 /\ received' = received
    BY <1>2, AppendProperties DEF SendMessage, FramingInv, FramingTypeOK
  <2> HIDE DEF h
  <2>2. h' = h
    BY <1>1, <2>1
  <2> QED BY <2>1, <2>2 DEF Channel!SendNext, h
<1>3. CASE HandleMessage
  <2>1. Len(sizes') = Len(sizes) /\ r' = r + 1 /\ r' <= Len(sizes')
    <3>1. received' = Append(received, [i \in 1..HeadSize |-> At(buffers, i - 1)])
      BY <1>3 DEF HandleMessage
    <3>2. Len(received') = Len(received) + 1
      BY <3>1 DEF FramingInv, FramingTypeOK
    <3> QED BY <1>3, <3>2 DEF HandleMessage, FramingInv
  <2> DEFINE s == [k \in 1..r |-> k]
  <2>2. s \in Seq(Nat) /\ Len(s) = r
    BY <1>1, SeqDef
  <2>3. h' = Append(h, Len(h) + 1) /\ Len(h) = r
    BY <1>1, <2>1, <2>2
  <2>4. Len(h) < Len(sizes)
    BY <1>1, <2>1, <2>3
  <2> QED BY <2>1, <2>3, <2>4 DEF Channel!HandleNext
<1>4. ASSUME UNCHANGED <<sizes, received>> PROVE UNCHANGED <<Len(sizes), h>>
  <2> HIDE DEF h
  <2> QED BY <1>1, <1>4
<1> QED
  BY <1>2, <1>3, <1>4 DEF FramingNext, Sending, Reading, Read, onRead, HeaderTorn, Return, framingVars

\* However the stream cuts the bytes, what is handled is whole messages in the
\* order they were sent: none is lost, torn or repeated.
THEOREM WholeMessagesInOrderHolds == FramingSpec => WholeMessagesInOrder
<1>1. FramingInit => Channel!ChannelInit
  <2> SUFFICES ASSUME FramingInit PROVE Channel!ChannelInit
    OBVIOUS
  <2>1. sizes = <<>> /\ received = <<>> /\ Len(<<>>) = 0 /\ DOMAIN received = {}
    BY EmptySeq DEF FramingInit
  <2> QED BY <2>1 DEF Channel!ChannelInit
<1> QED BY <1>1, FramingInvariance, ChannelStep, PTL
        DEF FramingSpec, WholeMessagesInOrder, Channel!ChannelSpec
=============================================================================
