------------------------------ MODULE Cutting -------------------------------
(* A run of characters or bytes taken in pieces of one length, of which the  *)
(* last may be shorter: a file by read, data by the loops of base64.         *)
EXTENDS Integers, Sequences, FiniteSetsExt

\* Where the first k pieces of n end.
PieceEnd(s, n, k) == Min({k * n, Len(s)})

Pieces(s, n) ==
  [k \in 1..((Len(s) + n - 1) \div n) |->
     SubSeq(s, (k - 1) * n + 1, PieceEnd(s, n, k))]
=============================================================================
