SPECIFICATION MCSpec
CONSTANTS
  l = l
  c1 = c1
  c2 = c2
  c3 = c3
  m = m
  NoDesc = NoDesc
  MaxQueued = 1
  Desc <- MCDesc
  Acceptor <- MCAcceptor
  Initial <- MCInitial
  Stopping <- MCStopping
  FdNum <- MCFdNum
  Reply <- MCReply
  Burst <- MCBurst
INVARIANTS
  SelectorTypeOK
  NoStaleDispatch
  OpenWhileRegistered
  SnapshotRegistered
PROPERTIES
  StopIsHeard
