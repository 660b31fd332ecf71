SPECIFICATION FairClientSpec
CONSTANTS
  s = s
  t = t
  NoDesc = NoDesc
  Socket = s
  Stdin = t
  SocketFd = 3
  Desc <- MCDesc
  Acceptor = {}
  Initial <- MCInitial
  Stopping = {s}
  FdNum <- MCFdNum
  Reply <- Message
  Burst <- ClientBurst
  Arg <- MCArg
  Sent <- MCSent
  NoArg = NoArg
  Text <- OneText
  MaxLines = 3
  MaxAhead = 1
PROPERTIES
  UserInputRead
