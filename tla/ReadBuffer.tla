----------------------------- MODULE ReadBuffer -----------------------------
(***************************************************************************)
(* A DynamicBuffer in use: every order of addBuffer, advanceBuffer and     *)
(* getNext.  The bytes are numbered as they are put in, so that losing,    *)
(* repeating or swapping one shows.                                        *)
(***************************************************************************)
EXTENDS DynamicBuffer

CONSTANTS
  MaxBytes,  \* bound on the bytes put in
  MaxChunk   \* bound on the bytes of one chunk

ASSUME BoundAssumption == MaxBytes \in Nat /\ MaxChunk \in Nat

VARIABLES
  chunks,   \* DynamicBuffer::buffers
  fed,      \* how many bytes were put in
  got       \* what the last getNext returned

bufferVars == <<chunks, fed, got>>

BufferInit == chunks = <<>> /\ fed = 0 /\ got = <<>>

\* The next n bytes.
NewBytes(n) == [i \in 1..n |-> fed + i]

addBuffer(n) ==
  /\ fed + n <= MaxBytes
  /\ chunks' = AddBuffer(chunks, NewBytes(n))
  /\ fed' = fed + n
  /\ UNCHANGED got

\* The overload that moves the chunks of another buffer over.
addChunks(n, m) ==
  /\ n > 0 /\ m > 0 /\ fed + n + m <= MaxBytes
  /\ chunks' = chunks \o <<NewBytes(n), [i \in 1..m |-> fed + n + i]>>
  /\ fed' = fed + n + m
  /\ UNCHANGED got

advanceBuffer(n) ==
  /\ chunks' = AdvanceBuffer(chunks, n)
  /\ UNCHANGED <<fed, got>>

\* Callers ask for no more than there is: the assertion of getNext.
getNext(n) ==
  /\ n <= BufferLength(chunks)
  /\ got' = Transferred(chunks, n)
  /\ chunks' = AdvanceBuffer(chunks, n)
  /\ UNCHANGED fed

BufferNext ==
  \/ \E n \in 0..MaxChunk : addBuffer(n)
  \/ \E n, m \in 1..MaxChunk : addChunks(n, m)
  \/ \E n \in 0..MaxBytes : advanceBuffer(n)
  \/ \E n \in 1..MaxBytes : getNext(n)

BufferSpec == BufferInit /\ [][BufferNext]_bufferVars

(***************************************************************************)
(* Properties.                                                             *)
(***************************************************************************)

\* The assertions "Should have been cleaned up": no chunk in the list is empty,
\* whatever was taken from it.
CleanedUp == \A k \in DOMAIN chunks : chunks[k] # <<>>

\* operator[] finds every byte at its place in the run, whatever chunks it is in.
IndexInOrder ==
  \A i \in 0..(BufferLength(chunks) - 1) : At(chunks, i) = FlattenSeq(chunks)[i + 1]

Queue == INSTANCE ByteQueue WITH queue <- FlattenSeq(chunks), put <- fed

\* The chunks behave as one queue of bytes: getNext returns the oldest bytes and
\* takes out just those, advanceBuffer drops as many as it is told.
BytesInOrder == Queue!QueueSpec
=============================================================================
