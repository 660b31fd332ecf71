SPECIFICATION FairSpec
CONSTANTS
  NoDesc = NoDesc
  Reply <- MCReply
  Burst <- MCBurst
  sReply <- MCServerReply
  sBurst <- MCServerBurst
  Socket = s
  Stdin = t
  SocketFd = 3
  Lines <- MCLines
  MaxLines = 4
  MaxAhead = 1
  NoArg = NoArg
  Listener = l
  Connection = c
  ServerFdNum <- MCServerFdNum
  NoUser = NoUser
  NoRow = NoRow
  InitialPasswd <- MCPasswd
INVARIANTS
  PromptsAgree
PROPERTIES
  ServerAsDescribed
  LoginProgresses
  ClientEnds
