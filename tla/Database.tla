------------------------------ MODULE Database ------------------------------
(***************************************************************************)
(* The flat-file table of include/Database.h as several programs use one:  *)
(* the server looks rows up and changes passwords while adduser adds rows. *)
(* An operation writes a temporary file with a fixed name and renames it   *)
(* over the table; nothing locks.  A step here is a system call, or the    *)
(* read of one chunk with the writes of its rows.                          *)
(*                                                                         *)
(* A file is a sequence of rows; rows have one length, so that two         *)
(* programs that write to one file overwrite each other row by row.  The   *)
(* programs do not run as root: a file of mode 0200 cannot be opened for   *)
(* reading, one of mode 0444 not for writing.                              *)
(***************************************************************************)
EXTENDS Integers, Sequences, FiniteSetsExt

CONSTANTS
  Server,       \* the server's process
  Adder,        \* the runs of adduser
  Name,         \* user names
  Password,     \* passwords, for salts and their hashes
  File,         \* what the directory entries name, inodes
  NoFile,       \* no inode
  NoOp,         \* a process between two operations
  InitialRows,  \* the rows of "passwd" at first
  ChunkRows,    \* how many rows one read brings in
  MaxOps        \* bound on the operations started

Process == {Server} \cup Adder

Row == [name : Name, password : Password]

\* What a file holds where nothing was written.
Hole == [name |-> NoOp, password |-> NoOp]

Operation == [kind : {"update", "insert"}, name : Name, password : Password]

ASSUME DatabaseAssumption ==
  /\ Server \notin Adder
  /\ NoFile \notin File /\ NoOp \notin Name \cup Password \cup Operation
  /\ InitialRows \in Seq(Row)
  /\ ChunkRows \in Nat \ {0} /\ MaxOps \in Nat

\* adduser wrote the rows there are at first.
ASSUME InitialAssumption ==
  \A j, k \in DOMAIN InitialRows : InitialRows[j].name = InitialRows[k].name => j = k

VARIABLES
  rows,    \* the rows of every file
  sealed,  \* the files of mode 0444
  table,   \* the file "passwd" names
  tmp,     \* the file "passwd.tmp" names
  pc,      \* where a process is in its operation
  op,      \* the operation of a process
  out,     \* the file its updateFile writes
  in,      \* the file its readFromFile reads
  pos,     \* how many rows it has read
  ops,     \* how many operations were started
  added,   \* history: the names adduser reported as added
  overlapped, \* history: two calls of updateFile have run at once
  sameName    \* history: two runs of adduser were about one name at once

fileVars == <<rows, sealed, table, tmp>>
procVars == <<pc, op, out, in, pos>>
historyVars == <<added, overlapped, sameName>>
databaseVars == <<fileVars, procVars, ops, historyVars>>

DatabaseInit ==
  /\ \E f \in File :
       /\ table = f /\ sealed = {f}
       /\ rows = [g \in File |-> IF g = f THEN InitialRows ELSE <<>>]
  /\ tmp = NoFile
  /\ pc = [w \in Process |-> "idle"]
  /\ op = [w \in Process |-> NoOp]
  /\ out = [w \in Process |-> NoFile]
  /\ in = [w \in Process |-> NoFile]
  /\ pos = [w \in Process |-> 0]
  /\ ops = 0
  /\ added = {}
  /\ overlapped = FALSE
  /\ sameName = FALSE

Goes(w, next) == pc' = [pc EXCEPT ![w] = next]

\* The process closes its files and is done with its operation.
Ends(w) ==
  /\ Goes(w, "idle")
  /\ op' = [op EXCEPT ![w] = NoOp]
  /\ out' = [out EXCEPT ![w] = NoFile]
  /\ in' = [in EXCEPT ![w] = NoFile]
  /\ pos' = [pos EXCEPT ![w] = 0]

Begins(w, o, first) ==
  /\ pc[w] = "idle" /\ ops < MaxOps
  /\ Goes(w, first)
  /\ op' = [op EXCEPT ![w] = o]
  /\ ops' = ops + 1
  /\ UNCHANGED <<fileVars, out, in, pos, added>>

\* The processes inside updateFile.
Updating == {w \in Process : pc[w] \notin {"idle", "look", "scan", "ask"}}

(***************************************************************************)
(* What is started.                                                        *)
(***************************************************************************)
Update(u, p) ==
  /\ Begins(Server, [kind |-> "update", name |-> u, password |-> p], "remove")
  /\ overlapped' = (overlapped \/ Updating # {})
  /\ UNCHANGED sameName

\* adduser first looks whether the name is taken.
AddUser(w, u, p) ==
  /\ Begins(w, [kind |-> "insert", name |-> u, password |-> p], "look")
  /\ sameName' = (sameName \/ \E v \in Adder : pc[v] # "idle" /\ op[v].name = u)
  /\ UNCHANGED overlapped

(***************************************************************************)
(* readFromFile.                                                           *)
(***************************************************************************)
Readable(f) == f # NoFile /\ f \in sealed

\* Mutant: no look whether the user has an account.
OpenToLookSkipped(w) ==
  /\ pc[w] = "look"
  /\ Goes(w, "ask")
  /\ UNCHANGED <<fileVars, op, out, in, pos, ops, historyVars>>

OpenToLook(w) ==
  /\ pc[w] = "look"
  /\ \/ /\ Readable(table)
        /\ in' = [in EXCEPT ![w] = table]
        /\ Goes(w, "scan")
     \/ /\ ~Readable(table)
        /\ Goes(w, "ask")
        /\ UNCHANGED in
  /\ UNCHANGED <<fileVars, op, out, pos, ops, historyVars>>

\* The rows of the next chunk.
Chunk(w) ==
  LET rs == rows[in[w]]
      n == Min({ChunkRows, Len(rs) - pos[w]})
  IN  SubSeq(rs, pos[w] + 1, pos[w] + n)

\* The chunk has a row of the name: adduser says so and ends.
ScanFinds(w) ==
  /\ pc[w] = "scan"
  /\ \E k \in DOMAIN Chunk(w) : Chunk(w)[k].name = op[w].name
  /\ Ends(w)
  /\ UNCHANGED <<fileVars, ops, historyVars>>

ScanGoesOn(w) ==
  /\ pc[w] = "scan" /\ Chunk(w) # <<>>
  /\ \A k \in DOMAIN Chunk(w) : Chunk(w)[k].name # op[w].name
  /\ pos' = [pos EXCEPT ![w] = @ + Len(Chunk(w))]
  /\ UNCHANGED <<fileVars, pc, op, out, in, ops, historyVars>>

\* The end of the file: adduser asks for the password, twice.
ScanEnds(w) ==
  /\ pc[w] = "scan" /\ Chunk(w) = <<>>
  /\ Goes(w, "ask")
  /\ in' = [in EXCEPT ![w] = NoFile]
  /\ pos' = [pos EXCEPT ![w] = 0]
  /\ UNCHANGED <<fileVars, op, out, ops, historyVars>>

PasswordGiven(w) ==
  /\ pc[w] = "ask"
  /\ Goes(w, "remove")
  /\ overlapped' = (overlapped \/ Updating # {})
  /\ UNCHANGED <<fileVars, op, out, in, pos, ops, added, sameName>>

(***************************************************************************)
(* updateFile.                                                             *)
(***************************************************************************)

\* Mutant: the table is removed, to be written anew.
RemoveTable(w) ==
  /\ pc[w] = "remove"
  /\ table' = NoFile
  /\ Goes(w, "create")
  /\ UNCHANGED <<rows, sealed, tmp, op, out, in, pos, ops, historyVars>>

\* A temporary file left by a run that was stopped is removed.
RemoveTmp(w) ==
  /\ pc[w] = "remove"
  /\ tmp' = NoFile
  /\ Goes(w, "create")
  /\ UNCHANGED <<rows, sealed, table, op, out, in, pos, ops, historyVars>>

Unused(f) ==
  /\ f \notin {table, tmp}
  /\ \A w \in Process : f # out[w] /\ f # in[w]

\* Mutant: the table itself is opened and truncated.
CreateInPlace(w) ==
  /\ pc[w] = "create"
  /\ Goes(w, "source")
  /\ out' = [out EXCEPT ![w] = table]
  /\ rows' = [rows EXCEPT ![table] = <<>>]
  /\ UNCHANGED <<sealed, table, tmp, op, in, pos, ops, historyVars>>

\* open with O_CREAT and O_TRUNC: the file another process has just created is
\* shared and emptied, unless it is sealed already.
CreateTmp(w) ==
  /\ pc[w] = "create"
  /\ Goes(w, "source")
  /\ \/ /\ tmp = NoFile
        /\ \E f \in File :
             /\ Unused(f)
             /\ tmp' = f
             /\ out' = [out EXCEPT ![w] = f]
             /\ rows' = [rows EXCEPT ![f] = <<>>]
             /\ sealed' = sealed \ {f}
     \/ /\ tmp # NoFile /\ tmp \notin sealed
        /\ out' = [out EXCEPT ![w] = tmp]
        /\ rows' = [rows EXCEPT ![tmp] = <<>>]
        /\ UNCHANGED <<sealed, tmp>>
     \/ /\ tmp # NoFile /\ tmp \in sealed
        /\ UNCHANGED <<rows, sealed, tmp, out>>
  /\ UNCHANGED <<table, op, in, pos, ops, historyVars>>

\* update gives up when the table cannot be read; insert does not look.
OpenSource(w) ==
  /\ pc[w] = "source"
  /\ \/ /\ Readable(table)
        /\ in' = [in EXCEPT ![w] = table]
        /\ Goes(w, "copy")
        /\ UNCHANGED <<op, out, pos>>
     \/ /\ ~Readable(table) /\ op[w].kind = "insert"
        /\ Goes(w, "append")
        /\ UNCHANGED <<op, out, in, pos>>
     \/ /\ ~Readable(table) /\ op[w].kind = "update"
        /\ Ends(w)
  /\ UNCHANGED <<fileVars, ops, historyVars>>

\* File f with rs written after its first k rows.
Written(f, k, rs) ==
  IF f = NoFile THEN rows
  ELSE [rows EXCEPT ![f] =
         [i \in 1..Max({Len(@), k + Len(rs)}) |->
            IF i \in (k + 1)..(k + Len(rs)) THEN rs[i - k]
            ELSE IF i <= Len(@) THEN @[i] ELSE Hole]]

NewRow(w) == [name |-> op[w].name, password |-> op[w].password]

\* The function update is given: the rows of the name get the new hash.
Copied(w, row) ==
  IF op[w].kind = "update" /\ row.name = op[w].name THEN NewRow(w) ELSE row

CopyChunk(w) ==
  /\ pc[w] = "copy" /\ Chunk(w) # <<>>
  /\ rows' = Written(out[w], pos[w], [k \in DOMAIN Chunk(w) |-> Copied(w, Chunk(w)[k])])
  /\ pos' = [pos EXCEPT ![w] = @ + Len(Chunk(w))]
  /\ UNCHANGED <<sealed, table, tmp, pc, op, out, in, ops, historyVars>>

\* Mutant: the new row is not written.
CopyEndsAll(w) ==
  /\ pc[w] = "copy" /\ Chunk(w) = <<>>
  /\ in' = [in EXCEPT ![w] = NoFile]
  /\ Goes(w, "seal")
  /\ UNCHANGED <<fileVars, op, out, pos, ops, historyVars>>

CopyEnds(w) ==
  /\ pc[w] = "copy" /\ Chunk(w) = <<>>
  /\ in' = [in EXCEPT ![w] = NoFile]
  /\ Goes(w, IF op[w].kind = "insert" THEN "append" ELSE "seal")
  /\ UNCHANGED <<fileVars, op, out, pos, ops, historyVars>>

AppendRow(w) ==
  /\ pc[w] = "append"
  /\ rows' = Written(out[w], pos[w], <<NewRow(w)>>)
  /\ Goes(w, "seal")
  /\ UNCHANGED <<sealed, table, tmp, op, out, in, pos, ops, historyVars>>

\* Mutant: the mode is left at 0200.
SealSkipped(w) ==
  /\ pc[w] = "seal"
  /\ Goes(w, "rename")
  /\ UNCHANGED <<fileVars, op, out, in, pos, ops, historyVars>>

\* fchmod fails on a file that could not be opened.
Seal(w) ==
  /\ pc[w] = "seal"
  /\ \/ /\ out[w] # NoFile
        /\ sealed' = sealed \cup {out[w]}
        /\ Goes(w, "rename")
        /\ UNCHANGED <<op, out, in, pos>>
     \/ /\ out[w] = NoFile
        /\ Ends(w)
        /\ UNCHANGED sealed
  /\ UNCHANGED <<rows, table, tmp, ops, historyVars>>

\* Whatever file has the temporary name becomes the table.
Rename(w) ==
  /\ pc[w] = "rename"
  /\ \/ /\ tmp # NoFile
        /\ table' = tmp
        /\ tmp' = NoFile
        /\ added' = IF op[w].kind = "insert" THEN added \cup {op[w].name} ELSE added
     \/ /\ tmp = NoFile
        /\ UNCHANGED <<table, tmp, added>>
  /\ Ends(w)
  /\ UNCHANGED <<rows, sealed, ops, overlapped, sameName>>

\* The process is stopped, by Ctrl-C, a signal or a crash of its own.
Stopped(w) ==
  /\ pc[w] # "idle"
  /\ Ends(w)
  /\ UNCHANGED <<fileVars, ops, historyVars>>

(***************************************************************************)
(* The specification.                                                      *)
(***************************************************************************)
Step(w) ==
  \/ OpenToLook(w) \/ ScanFinds(w) \/ ScanGoesOn(w) \/ ScanEnds(w)
  \/ PasswordGiven(w)
  \/ RemoveTmp(w) \/ CreateTmp(w) \/ OpenSource(w)
  \/ CopyChunk(w) \/ CopyEnds(w) \/ AppendRow(w)
  \/ Seal(w) \/ Rename(w)
  \/ Stopped(w)

DatabaseNext ==
  \/ \E u \in Name : \E p \in Password : Update(u, p)
  \/ \E w \in Adder : \E u \in Name : \E p \in Password : AddUser(w, u, p)
  \/ \E w \in Process : Step(w)

DatabaseSpec == DatabaseInit /\ [][DatabaseNext]_databaseVars

(***************************************************************************)
(* Properties.                                                             *)
(***************************************************************************)
DatabaseTypeOK ==
  /\ rows \in [File -> Seq(Row \cup {Hole})]
  /\ sealed \subseteq File
  /\ table \in File
  /\ tmp \in File \cup {NoFile}
  /\ pc \in [Process -> {"idle", "look", "scan", "ask", "remove", "create", "source",
                         "copy", "append", "seal", "rename"}]
  /\ op \in [Process -> Operation \cup {NoOp}]
  /\ out \in [Process -> File \cup {NoFile}]
  /\ in \in [Process -> File \cup {NoFile}]
  /\ pos \in [Process -> Nat]
  /\ ops \in 0..MaxOps
  /\ added \subseteq Name
  /\ overlapped \in BOOLEAN
  /\ sameName \in BOOLEAN

Table == INSTANCE PasswordTable WITH rows <- rows[table]

\* As long as no two calls of updateFile overlap, and wherever a process is
\* stopped, the table changes by one whole operation at a time.
AtomicStep ==
  overlapped' \/ Table!TableNext \/ UNCHANGED rows[table]

TableAtomic == [][AtomicStep]_databaseVars

\* Under the same condition a file that can be read is never written to again:
\* whoever reads the table, chunk by chunk, sees it as it was at one moment.
SealedStays ==
  [][overlapped' \/ \A f \in sealed \cap sealed' : rows'[f] = rows[f]]_databaseVars

\* And a user reported as added has an account from then on.
AccountKept ==
  \A u \in added :
    overlapped \/ \E k \in DOMAIN rows[table] : rows[table][k].name = u

\* No user gets a second row, unless calls of updateFile overlap or two runs of
\* adduser for the name do: the look before the prompt is all that prevents it.
OneAccount ==
  \/ overlapped
  \/ sameName
  \/ \A j, k \in DOMAIN rows[table] : rows[table][j].name = rows[table][k].name => j = k

\* adduser creates a user account (adduser_main.cpp:2): a user reported as added
\* has one.
AddedUserHasAccount ==
  \A u \in added : \E k \in DOMAIN rows[table] : rows[table][k].name = u

(***************************************************************************)
(* The inductive invariant behind the properties.                          *)
(***************************************************************************)
\* What a process is about in each step.
OperationFits ==
  \A w \in Process :
    /\ pc[w] # "idle" =>
         op[w] \in Operation /\ op[w].kind = IF w = Server THEN "update" ELSE "insert"
    /\ w = Server => pc[w] \notin {"look", "scan", "ask", "append"}

\* The files a process has open, and how far it has read.
FilesFit ==
  \A w \in Process :
    /\ in[w] # NoFile <=> pc[w] \in {"scan", "copy"}
    /\ in[w] # NoFile => in[w] \in sealed
    /\ pc[w] \notin {"scan", "copy", "append", "seal", "rename"} => pos[w] = 0
    /\ out[w] # NoFile => pc[w] \in {"source", "copy", "append", "seal", "rename"}

OneUpdates == \A v, w \in Updating : v = w

\* The file that is written is the one with the temporary name, and nobody reads
\* it; the table can be read, and the process that writes reads no other file.
TmpApart ==
  /\ table \in sealed
  /\ \A w \in Process :
       /\ pc[w] = "create" => tmp = NoFile
       /\ pc[w] = "copy" => in[w] = table
       /\ pc[w] \in {"source", "copy", "append", "seal", "rename"} =>
            /\ tmp \in File /\ out[w] = tmp /\ tmp # table
            /\ \A v \in Process : in[v] # tmp
            /\ tmp \in sealed <=> pc[w] = "rename"

\* The table after the operation of process w.
Result(w) ==
  IF op[w].kind = "insert" THEN Append(rows[table], NewRow(w))
  ELSE Table!Changed(rows[table], op[w].name, op[w].password)

\* What the file that is written holds.
TmpHolds ==
  \A w \in Process :
    /\ pc[w] = "source" => rows[tmp] = <<>>
    /\ pc[w] = "copy" =>
         /\ pos[w] <= Len(rows[table])
         /\ rows[tmp] = [k \in 1..pos[w] |-> Copied(w, rows[table][k])]
    /\ pc[w] = "append" => pos[w] = Len(rows[table]) /\ rows[tmp] = rows[table]
    /\ pc[w] \in {"seal", "rename"} => rows[tmp] = Result(w)

UpdatesApart == overlapped \/ (OneUpdates /\ TmpApart /\ TmpHolds)

HasRow(rs, u) == \E k \in DOMAIN rs : rs[k].name = u

\* The names of two runs of adduser differ.
NamesApart ==
  \A v, w \in Adder :
    pc[v] # "idle" /\ pc[w] # "idle" /\ op[v].name = op[w].name => v = w

\* A name that was looked for in vain, in the part of a file that was read, is not
\* in the table of now: what was added since then has another name.
NameFree ==
  \A w \in Adder :
    /\ pc[w] = "scan" =>
         /\ \A k \in DOMAIN rows[in[w]] : k <= pos[w] => rows[in[w]][k].name # op[w].name
         /\ HasRow(rows[table], op[w].name) => HasRow(rows[in[w]], op[w].name)
    /\ pc[w] \in {"ask", "remove", "create", "source", "copy", "append", "seal", "rename"} =>
         ~HasRow(rows[table], op[w].name)

AddsApart == sameName \/ (NamesApart /\ (overlapped \/ NameFree))

DatabaseInv ==
  /\ DatabaseTypeOK
  /\ OperationFits
  /\ FilesFit
  /\ UpdatesApart
  /\ AccountKept
  /\ AddsApart
  /\ OneAccount
=============================================================================
