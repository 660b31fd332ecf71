----------------------------- MODULE MCDatabase -----------------------------
(* The server and two runs of adduser on a table of one row, read a row at  *)
(* a time.                                                                   *)
EXTENDS Database, TLC

CONSTANTS a1, a2, u1, u2, p0, p1

MCInitialRows == <<[name |-> u1, password |-> p0]>>

\* The files are alike, and so are the runs of adduser.
Symmetry == Permutations(File) \cup Permutations(Adder)
=============================================================================
