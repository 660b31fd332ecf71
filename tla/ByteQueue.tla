----------------------------- MODULE ByteQueue ------------------------------
(***************************************************************************)
(* What callers take a DynamicBuffer for: one first-in first-out run of    *)
(* bytes.  The bytes are numbered in the order they are put in.            *)
(***************************************************************************)
EXTENDS Integers, Sequences

CONSTANT MaxBytes  \* bound on the bytes put in

VARIABLES
  queue,  \* the bytes that are there, oldest first
  put,    \* how many bytes were put in
  got     \* the bytes the last Take was given

QueueInit == queue = <<>> /\ put = 0 /\ got = <<>>

Put(n) ==
  /\ queue' = queue \o [i \in 1..n |-> put + i]
  /\ put' = put + n
  /\ UNCHANGED got

\* Dropping more bytes than there are empties the queue.
Drop(n) ==
  /\ queue' = SubSeq(queue, n + 1, Len(queue))
  /\ UNCHANGED <<put, got>>

Take(n) ==
  /\ n <= Len(queue)
  /\ got' = SubSeq(queue, 1, n)
  /\ queue' = SubSeq(queue, n + 1, Len(queue))
  /\ UNCHANGED put

QueueNext == \E n \in 0..MaxBytes : Put(n) \/ Drop(n) \/ Take(n)

QueueSpec == QueueInit /\ [][QueueNext]_<<queue, put, got>>
=============================================================================
