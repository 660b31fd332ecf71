--------------------------- MODULE DynamicBuffer ---------------------------
(***************************************************************************)
(* The buffer of include/Selector.h and src/Selector.cpp that collects     *)
(* what reads bring in: a list of chunks, none of them empty, that callers *)
(* see as one run of bytes.  A Buffer is the sequence of bytes it has left; *)
(* the pair of mOffset and mLength is abstracted away.                     *)
(***************************************************************************)
EXTENDS Integers, Sequences, SequencesExt, FiniteSetsExt

\* length(): the bytes of all chunks.
BufferLength(buffers) == Len(FlattenSeq(buffers))

\* addBuffer: an empty chunk is not kept.
AddBuffer(buffers, chunk) ==
  IF chunk = <<>> THEN buffers ELSE Append(buffers, chunk)

\* Mutants: a chunk used up exactly stays in the list; what is left of a count
\* after one chunk is not taken from the next.
AdvanceChunkKeepsEmpty(acc, chunk) ==
  IF acc.count > Len(chunk)
    THEN [acc EXCEPT !.count = @ - Len(chunk)]
    ELSE [count |-> 0, left |-> Append(acc.left, SubSeq(chunk, acc.count + 1, Len(chunk)))]

AdvanceChunkForgets(acc, chunk) ==
  IF acc.count >= Len(chunk)
    THEN [acc EXCEPT !.count = 0]
    ELSE [count |-> 0, left |-> Append(acc.left, SubSeq(chunk, acc.count + 1, Len(chunk)))]

\* Buffer::advance on the front chunk: what it does not cover is left to the
\* next one, and a chunk used up is popped.
AdvanceChunk(acc, chunk) ==
  IF acc.count >= Len(chunk)
    THEN [acc EXCEPT !.count = @ - Len(chunk)]
    ELSE [count |-> 0, left |-> Append(acc.left, SubSeq(chunk, acc.count + 1, Len(chunk)))]

\* advanceBuffer.
AdvanceBuffer(buffers, count) ==
  LET after[k \in 0..Len(buffers)] ==
        IF k = 0 THEN [count |-> count, left |-> <<>>]
        ELSE AdvanceChunk(after[k - 1], buffers[k])
  IN  after[Len(buffers)].left

\* How many bytes the first k chunks hold.
LengthUpTo(buffers, k) == BufferLength(SubSeq(buffers, 1, k))

\* Mutant: the offset in the chunk is counted from the start of the buffer.
AtUnshifted(buffers, i) ==
  LET k == Min({j \in DOMAIN buffers : LengthUpTo(buffers, j) > i})
  IN  buffers[k][(i % Len(buffers[k])) + 1]

\* operator[]: the byte at index i of the first chunk that reaches beyond i.
At(buffers, i) ==
  LET k == Min({j \in DOMAIN buffers : LengthUpTo(buffers, j) > i})
  IN  buffers[k][i - LengthUpTo(buffers, k - 1) + 1]

\* The transfer loop of getNext: from the front chunk as long as bytes are
\* wanted.
TransferChunk(acc, chunk) ==
  LET n == IF acc.wanted < Len(chunk) THEN acc.wanted ELSE Len(chunk)
  IN  [wanted |-> acc.wanted - n, data |-> acc.data \o SubSeq(chunk, 1, n)]

\* What peekNext and getNext copy out.
Transferred(buffers, n) ==
  LET after[k \in 0..Len(buffers)] ==
        IF k = 0 THEN [wanted |-> n, data |-> <<>>]
        ELSE TransferChunk(after[k - 1], buffers[k])
  IN  after[Len(buffers)].data
=============================================================================
