SPECIFICATION DatabaseSpec
CONSTANTS
  a1 = a1
  a2 = a2
  u1 = u1
  u2 = u2
  p0 = p0
  p1 = p1
  Server = Server
  Adder = {a1, a2}
  Name = {u1, u2}
  Password = {p0, p1}
  File = {f1, f2, f3, f4}
  NoFile = {f1, f2, f3, f4}
  NoOp = NoOp
  InitialRows <- MCInitialRows
  ChunkRows = 1
  MaxOps = 3
SYMMETRY Symmetry
INVARIANTS
  DatabaseTypeOK
  AccountKept
  OneAccount
PROPERTIES
  TableAtomic
  SealedStays
CHECK_DEADLOCK FALSE
