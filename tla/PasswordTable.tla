--------------------------- MODULE PasswordTable ----------------------------
(***************************************************************************)
(* What the programs take a Database for: a table that changes by whole    *)
(* operations, one after another.                                          *)
(***************************************************************************)
EXTENDS Sequences

CONSTANTS Name, Password, InitialRows

VARIABLE rows

TableInit == rows = InitialRows

Changed(rs, u, p) ==
  [k \in DOMAIN rs |-> IF rs[k].name = u THEN [name |-> u, password |-> p] ELSE rs[k]]

Change(u, p) == rows' = Changed(rows, u, p)

Add(u, p) == rows' = Append(rows, [name |-> u, password |-> p])

TableNext == \E u \in Name : \E p \in Password : Change(u, p) \/ Add(u, p)

TableSpec == TableInit /\ [][TableNext]_rows
=============================================================================
