---------------------------- MODULE MCTCPServer -----------------------------
(* Small instances of the server.  The .cfg files choose the connections,   *)
(* the descriptor numbers and which requests the peers send.                 *)
EXTENDS TCPServer

CONSTANTS l, c1, c2, u1, u2, p1, p2

MCAcceptor == {l}
MCInitial == <<l>>
MCPasswd == [u \in User |-> IF u = u1 THEN p1 ELSE NoRow]

Info == [type |-> "HELLO", arg |-> NoArg]
Unknown == [type |-> "UNKNOWN", arg |-> NoArg]
DisplayRequest == [type |-> "DISPLAY_MESSAGE", arg |-> NoArg]
SetUsername(u) == [type |-> "LOGIN_SET_USERNAME", arg |-> u]
SetPassword(p) == [type |-> "LOGIN_SET_PASSWORD", arg |-> p]
Authenticate(p) == [type |-> "LOGIN_AUTHENTICATE", arg |-> p]

\* One connection and everything a login is made of, and a request that is never
\* taken out of the buffer.
LoginDesc == {l, c1}
LoginRequest ==
  {SetUsername(u) : u \in User} \cup {Authenticate(p) : p \in Password}
    \cup {SetPassword(p2), DisplayRequest}
LoginFdNum == 3..6

\* Two connections that are served for ever: nothing the server spins on.  Either
\* peer may send parts of a message for ever.  There are numbers for the listening
\* socket, one connection and one file.
LiveDesc == {l, c1, c2}
LiveFdNum == 3..5
LiveRequest == {Info, Unknown, Part}

\* A request that is never taken out of the buffer.
StuckRequest == {DisplayRequest}
=============================================================================
