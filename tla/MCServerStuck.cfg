SPECIFICATION FairServerSpec
CONSTANTS
  l = l
  c1 = c1
  c2 = c2
  u1 = u1
  u2 = u2
  p1 = p1
  p2 = p2
  NoDesc = NoDesc
  NoUser = NoUser
  NoRow = NoRow
  NoArg = NoArg
  Listener = l
  Desc <- LoginDesc
  Acceptor <- MCAcceptor
  Initial <- MCInitial
  Stopping = {}
  FdNum <- LoginFdNum
  Reply <- ServerReply
  Burst <- ServerBurst
  Whitelisted = {c1}
  User = {u1, u2}
  Password = {p1, p2}
  InitialPasswd <- MCPasswd
  Request <- StuckRequest
  MaxRequests = 1
PROPERTIES
  CallbacksReturn
