----------------------------- MODULE TCPServer ------------------------------
(***************************************************************************)
(* The server of src/TCPServer.cpp on top of the select loop: the accept   *)
(* handler with its whitelist, the dispatch of the requests a read brought *)
(* in, the login of a session, and the log file.  Every action of the      *)
(* server is an action of Selector together with what the handler does to  *)
(* the server's own state; the connections, their peers and the other      *)
(* programs that write the password file are the environment.              *)
(*                                                                         *)
(* Of a message that a read cuts nothing is ever handled (MessageFraming); *)
(* here that is a request of its own, Part, the last one that a peer gets  *)
(* to send.  All other reads deliver whole messages.  Password hashes are  *)
(* abstracted to the password: two hashes with one salt are equal iff the  *)
(* passwords are.                                                          *)
(***************************************************************************)
EXTENDS Selector

CONSTANTS
  Listener,      \* the listening socket
  Whitelisted,   \* the connections that come from an address in "whitelist"
  User,          \* user names
  Password,      \* passwords
  NoUser,        \* the empty user name of a session that has given none
  NoRow,         \* a user without a row in "passwd"
  NoArg,         \* the payload of a request without one
  InitialPasswd, \* the password file the server starts with
  Request,       \* the requests the peers send
  MaxRequests    \* bound on the requests one peer sends

Conn == Desc \ {Listener}

InfoType ==
  {"HELLO", "GENERIC_1", "GENERIC_2", "GENERIC_3", "GENERIC_4", "GENERIC_5", "MENU"}

AnyRequest ==
  [type : InfoType \cup {"DISPLAY_MESSAGE", "UNKNOWN", "PART"}, arg : {NoArg}]
    \cup [type : {"LOGIN_SET_USERNAME"}, arg : User]
    \cup [type : {"LOGIN_SET_PASSWORD", "LOGIN_AUTHENTICATE"}, arg : Password]

\* Bytes of a message that a read has cut, behind its header, or of what follows
\* that message.
Part == [type |-> "PART", arg |-> NoArg]

\* What the server queues: a DisplayMessage, the bare text of an unknown
\* request, or the response to a login request.
Display == [type |-> "DISPLAY_MESSAGE", success |-> TRUE]
Text == [type |-> "TEXT", success |-> TRUE]
UsernameResponse(b) == [type |-> "LOGIN_SET_USERNAME_RESPONSE", success |-> b]
PasswordResponse(b) == [type |-> "LOGIN_SET_PASSWORD_RESPONSE", success |-> b]
AuthenticateResponse(b) == [type |-> "LOGIN_AUTHENTICATE_RESPONSE", success |-> b]

ServerBurst ==
  {<<Display>>, <<Text>>, <<UsernameResponse(FALSE)>>,
   <<Display, UsernameResponse(TRUE)>>}
    \cup {<<Display, PasswordResponse(b)>> : b \in BOOLEAN}
    \cup {<<Display, AuthenticateResponse(b)>> : b \in BOOLEAN}

ServerReply == UNION {Range(ms) : ms \in ServerBurst}

ASSUME ServerAssumption ==
  /\ Listener \in Desc
  /\ Acceptor = {Listener}
  /\ Initial = <<Listener>>
  /\ Whitelisted \subseteq Conn
  /\ NoUser \notin User /\ NoRow \notin Password
  /\ InitialPasswd \in [User -> Password \cup {NoRow}]
  /\ Request \subseteq AnyRequest
  /\ ServerBurst \subseteq Burst
  /\ MaxRequests \in Nat

VARIABLES
  backlog,  \* connections the kernel holds for accept4, oldest first
  peer,     \* what the other end of a connection did: "none", "open",
            \* "streaming" once a message of it was cut, "closed"
  sent,     \* how many whole requests the peer sent
  recvq,    \* the requests the kernel holds for the connection
  inbuf,    \* the requests in the readBuffer of the callback that runs
  user,     \* TCPServer::User of every connection
  passwd,   \* the rows of "passwd"
  log       \* the rows of "server.log", by connection

environmentVars == <<backlog, peer, sent, recvq>>
sessionVars == <<user, passwd, log>>
serverVars == <<selectorVars, environmentVars, inbuf, sessionVars>>

Up == status \in {"loop", "callback"}

Session ==
  [username : User \cup {NoUser}, passwordAttempts : Nat,
   usernameVerified : BOOLEAN, passwordVerified : BOOLEAN]

NewSession ==
  [username |-> NoUser, passwordAttempts |-> 0,
   usernameVerified |-> FALSE, passwordVerified |-> FALSE]

LogRow ==
  [event : {"refused", "connected", "unknownUser", "twoFailures", "loggedIn",
            "disconnected"},
   username : User \cup {NoUser}]

\* The listening socket has the lowest number: it was opened first.
ServerInit ==
  /\ SelectorInit
  /\ \A n \in FdNum : num[Listener] <= n
  /\ backlog = <<>>
  /\ peer = [c \in Conn |-> "none"]
  /\ sent = [c \in Conn |-> 0]
  /\ recvq = [c \in Conn |-> <<>>]
  /\ inbuf = <<>>
  /\ user = [c \in Conn |-> NewSession]
  /\ passwd = InitialPasswd
  /\ log = [c \in Conn |-> <<>>]

(***************************************************************************)
(* The environment.                                                        *)
(***************************************************************************)
Connect(c) ==
  /\ Up /\ peer[c] = "none"
  /\ peer' = [peer EXCEPT ![c] = "open"]
  /\ backlog' = Append(backlog, c)
  /\ UNCHANGED <<selectorVars, sent, recvq, inbuf, sessionVars>>

\* A peer may send before it is accepted, and need not wait for an answer.
Send(c, r) ==
  /\ Up /\ peer[c] = "open"
  /\ c \in Range(backlog) \/ num[c] # NoFd
  /\ sent[c] < MaxRequests
  /\ sent' = [sent EXCEPT ![c] = @ + 1]
  /\ recvq' = [recvq EXCEPT ![c] = Append(@, r)]
  /\ UNCHANGED <<selectorVars, backlog, peer, inbuf, sessionVars>>

\* A peer may go on with a long message for ever; bytes that have not been read
\* yet are joined by those that follow.
SendPart(c) ==
  /\ Up /\ peer[c] \in {"open", "streaming"}
  /\ c \in Range(backlog) \/ num[c] # NoFd
  /\ Part \in Request
  /\ recvq[c] # <<>> => Last(recvq[c]) # Part
  /\ peer' = [peer EXCEPT ![c] = "streaming"]
  /\ recvq' = [recvq EXCEPT ![c] = Append(@, Part)]
  /\ UNCHANGED <<selectorVars, backlog, sent, inbuf, sessionVars>>

Close(c) ==
  /\ Up /\ peer[c] \in {"open", "streaming"}
  /\ peer' = [peer EXCEPT ![c] = "closed"]
  /\ UNCHANGED <<selectorVars, backlog, sent, recvq, inbuf, sessionVars>>

\* The adduser program adds a row to the password file.
AddUser(u, p) ==
  /\ Up /\ passwd[u] = NoRow
  /\ passwd' = [passwd EXCEPT ![u] = p]
  /\ UNCHANGED <<selectorVars, environmentVars, inbuf, user, log>>

\* A row disappears from the file, the case onReadLoginAuthenticate and the
\* TODO of onReadLoginSetPassword provide for.
DropUser(u) ==
  /\ Up /\ passwd[u] # NoRow
  /\ passwd' = [passwd EXCEPT ![u] = NoRow]
  /\ UNCHANGED <<selectorVars, environmentVars, inbuf, user, log>>

Environment ==
  \/ \E c \in Conn : Connect(c)
  \/ \E c \in Conn : \E r \in Request \ {Part} : Send(c, r)
  \/ \E c \in Conn : SendPart(c)
  \/ \E c \in Conn : Close(c)
  \/ \E u \in User : \E p \in Password : AddUser(u, p)
  \/ \E u \in User : DropUser(u)

(***************************************************************************)
(* The files of the server, through Database: find needs one free number   *)
(* while it runs, update and insert need two, for the file and for the     *)
(* temporary file that replaces it.                                        *)
(***************************************************************************)
TwoIn(free) == \E m, n \in free : m # n

\* passwd.find: nothing is found in a file that cannot be opened.
RowOf(u) == IF FreeNumbers = {} THEN NoRow ELSE passwd[u]

Row(event, u) == [event |-> event, username |-> u]

\* The log after logfile.insert of rows for connection c.  insert does not look
\* whether the old rows could be read: with one free number the temporary file
\* takes it, and the new row alone replaces the log.
Logged(c, rows, free) ==
  IF TwoIn(free) THEN [log EXCEPT ![c] = @ \o rows]
  ELSE IF free # {} /\ rows # <<>>
    THEN [d \in Conn |-> IF d = c THEN <<Last(rows)>> ELSE <<>>]
    ELSE log

\* Enough numbers for every connection and two files at a time.
NumbersSuffice ==
  \A f \in [Desc -> FdNum \cup {NoFd}] : TwoIn(FdNum \ {f[d] : d \in Desc})

(***************************************************************************)
(* The loop: what makes the descriptors ready, and the handlers.           *)
(***************************************************************************)
Pending(d) ==
  IF d = Listener THEN backlog # <<>> ELSE recvq[d] # <<>> \/ peer[d] = "closed"

\* Mutants: a connection is looked at for the end of its stream, or for what it
\* has sent, only.
ReadableEnds ==
  {num[d] : d \in {e \in Registered : Pending(e) /\ (e = Listener \/ peer[e] = "closed")}}
ReadableData ==
  {num[d] : d \in {e \in Registered : Pending(e) /\ (e = Listener \/ recvq[e] # <<>>)}}

ReadableNow == {num[d] : d \in {e \in Registered : Pending(e)}}

\* Requests, the end of a stream and pending connections are reported as soon
\* as they are there; room in a send buffer depends on the peer, and so do
\* exceptional conditions, which is what urgent data is.
ServerPoll(wr, ex) ==
  /\ ex \subseteq {num[c] : c \in Conn}
  /\ Poll(ReadableNow, wr, ex)
  /\ UNCHANGED <<environmentVars, inbuf, sessionVars>>

ServerSkip ==
  /\ Skip
  /\ UNCHANGED <<environmentVars, inbuf, sessionVars>>

\* accept4 gives the oldest connection a number; its object is a new one.
Accepted(c) ==
  /\ backlog # <<>> /\ c = Head(backlog)
  /\ FreeNumbers # {} /\ num[c] = NoFd

\* The numbers free while the accepted connection holds the lowest one.
AfterAccept == {n \in FreeNumbers : \E m \in FreeNumbers : m < n}

\* Mutant: a whitelist that cannot be read lets everybody in.
WelcomeUnread(c) == c \in Whitelisted \/ AfterAccept = {}

\* whitelist.find has the address of c.
Welcome(c) == c \in Whitelisted /\ AfterAccept # {}

AcceptConnection(c) ==
  /\ Accepted(c) /\ Welcome(c)
  /\ AcceptFD(c)
  /\ backlog' = Tail(backlog)
  /\ user' = [user EXCEPT ![c] = NewSession]
  /\ log' = Logged(c, <<Row("connected", NoUser)>>, AfterAccept)
  /\ UNCHANGED <<peer, sent, recvq, inbuf, passwd>>

\* An address that is not found on the whitelist is logged and closed.
RefuseConnection(c) ==
  /\ Accepted(c) /\ ~Welcome(c)
  /\ AcceptNothing
  /\ backlog' = Tail(backlog)
  /\ log' = Logged(c, <<Row("refused", NoUser)>>, AfterAccept)
  /\ UNCHANGED <<peer, sent, recvq, inbuf, user, passwd>>

\* accept4 fails, for want of a number or of memory; the connection stays in the
\* backlog.
AcceptFails ==
  /\ backlog # <<>>
  /\ AcceptNothing
  /\ UNCHANGED <<environmentVars, inbuf, sessionVars>>

\* One read takes some of the requests that have arrived.
ReadRequests(c, k) ==
  /\ k \in 1..Len(recvq[c])
  /\ StartCallback(c)
  /\ inbuf' = SubSeq(recvq[c], 1, k)
  /\ recvq' = [recvq EXCEPT ![c] = SubSeq(@, k + 1, Len(@))]
  /\ UNCHANGED <<backlog, peer, sent, sessionVars>>

\* removeFD calls onClose, which logs the session's end, before the file is
\* closed.
LogClose(c) ==
  log' = Logged(c, <<Row("disconnected", user[c].username)>>, FreeNumbers)

ConnectionLost(c) ==
  /\ recvq[c] = <<>> /\ peer[c] = "closed"
  /\ ReadFails(c)
  /\ LogClose(c)
  /\ UNCHANGED <<environmentVars, inbuf, user, passwd>>

\* pselect reported room, so at least one buffer goes out.
Flush(c, k) ==
  /\ k >= 1
  /\ Write(c, k)
  /\ UNCHANGED <<environmentVars, inbuf, sessionVars>>

\* The peer reset the connection after pselect returned.
FlushFails(c) ==
  /\ peer[c] = "closed"
  /\ WriteFails(c)
  /\ LogClose(c)
  /\ UNCHANGED <<environmentVars, inbuf, user, passwd>>

\* A write to a connection whose peer has closed and then reset it, as it does
\* when an earlier write reaches it, raises SIGPIPE.
FlushKills(c) ==
  /\ peer[c] = "closed"
  /\ WriteKills(c)
  /\ UNCHANGED <<environmentVars, inbuf, sessionVars>>

\* The peer has sent urgent data: the connection is removed.
Urgent(c) ==
  /\ ExceptFD /\ IsFD(c, HeadFD)
  /\ LogClose(c)
  /\ UNCHANGED <<environmentVars, inbuf, user, passwd>>

(***************************************************************************)
(* onRead: one handler per message.                                        *)
(***************************************************************************)
Handles(types) ==
  /\ status = "callback" /\ inbuf # <<>>
  /\ Head(inbuf).type \in types
  /\ inbuf' = Tail(inbuf)
  /\ UNCHANGED environmentVars

Arg == Head(inbuf).arg

Username == user[current].username

\* The handler queues ms and logs rows.
Answer(ms, rows) ==
  /\ CallbackWrite(HeadFD, ms)
  /\ log' = Logged(current, rows, FreeNumbers)

\* Mutant: onClose is called for a descriptor that is gone, too.
ClosingRowAlways == <<Row("disconnected", Username)>>

\* What onClose logs when removeFD is asked for the descriptor handled.
ClosingRow ==
  IF Found(HeadFD) THEN <<Row("disconnected", Username)>> ELSE <<>>

\* Mutant: the descriptor stays.
AnswerAndStay(ms, rows) ==
  /\ CallbackWrite(HeadFD, ms)
  /\ log' = Logged(current, rows \o ClosingRow, FreeNumbers)

\* The handler queues ms, logs rows and removes the descriptor.
AnswerAndRemove(ms, rows) ==
  /\ CallbackRemove(ms)
  /\ log' = Logged(current, rows \o ClosingRow, FreeNumbers)

\* onReadHelloRequest, onReadGeneric1Request .. 5 and onReadMenuRequest.
onReadInfoRequest ==
  /\ Handles(InfoType)
  /\ Answer(<<Display>>, <<>>)
  /\ UNCHANGED <<user, passwd>>

onReadUnknown ==
  /\ Handles({"UNKNOWN"})
  /\ Answer(<<Text>>, <<>>)
  /\ UNCHANGED <<user, passwd>>

\* A DISPLAY_MESSAGE is not taken out of the buffer: the loop sees it again.
onReadDisplayMessage ==
  /\ status = "callback" /\ inbuf # <<>>
  /\ Head(inbuf).type = "DISPLAY_MESSAGE"
  /\ UNCHANGED serverVars

\* Mutant: a session may name itself again.
NeverNamed == FALSE

AlreadyNamed == user[current].usernameVerified

onReadLoginSetUsername ==
  /\ Handles({"LOGIN_SET_USERNAME"})
  /\ \/ /\ AlreadyNamed
        /\ Answer(<<Display>>, <<>>)
        /\ UNCHANGED user
     \/ /\ ~AlreadyNamed /\ RowOf(Arg) # NoRow
        /\ user' = [user EXCEPT ![current].username = Arg,
                                ![current].usernameVerified = TRUE]
        /\ Answer(<<Display, UsernameResponse(TRUE)>>, <<>>)
     \/ /\ ~AlreadyNamed /\ RowOf(Arg) = NoRow
        /\ AnswerAndRemove(<<UsernameResponse(FALSE)>>, <<Row("unknownUser", Arg)>>)
        /\ UNCHANGED user
  /\ UNCHANGED passwd

\* Mutant: the update stores the key in the column of the hash.
UpdatedWithKey == [passwd EXCEPT ![Username] = Username]

\* passwd.update can read and replace the file, and meets the row.
PasswdUpdated == TwoIn(FreeNumbers) /\ passwd[Username] # NoRow

\* passwd.update with the hash of the new password.
UpdatedPasswd == [passwd EXCEPT ![Username] = Arg]

onReadLoginSetPassword ==
  /\ Handles({"LOGIN_SET_PASSWORD"})
  /\ \/ /\ ~(user[current].usernameVerified /\ user[current].passwordVerified)
        /\ AnswerAndRemove(<<Display>>, <<>>)
        /\ UNCHANGED passwd
     \/ /\ user[current].usernameVerified /\ user[current].passwordVerified
        /\ PasswdUpdated
        /\ passwd' = UpdatedPasswd
        /\ Answer(<<Display, PasswordResponse(TRUE)>>, <<>>)
     \/ /\ user[current].usernameVerified /\ user[current].passwordVerified
        /\ ~PasswdUpdated
        /\ Answer(<<Display, PasswordResponse(FALSE)>>, <<>>)
        /\ UNCHANGED passwd
  /\ UNCHANGED user

\* Mutant: the login is not logged.
RightPasswordSilent ==
  /\ user' = [user EXCEPT ![current].passwordAttempts = @ + 1,
                          ![current].passwordVerified = TRUE]
  /\ Answer(<<Display, AuthenticateResponse(TRUE)>>, <<>>)

\* The hash of the password given equals the one in the row.
RightPassword ==
  /\ user' = [user EXCEPT ![current].passwordAttempts = @ + 1,
                          ![current].passwordVerified = TRUE]
  /\ Answer(<<Display, AuthenticateResponse(TRUE)>>, <<Row("loggedIn", Username)>>)

\* Mutant: one attempt too many.
ExhaustedLate(attempts) == attempts > 3

Exhausted(attempts) == attempts >= 3

\* The third wrong password removes the session, the second one is logged.
WrongPassword ==
  LET attempts == user[current].passwordAttempts + 1
      ms == <<Display, AuthenticateResponse(FALSE)>>
  IN  /\ user' = [user EXCEPT ![current].passwordAttempts = attempts]
      /\ \/ Exhausted(attempts) /\ AnswerAndRemove(ms, <<>>)
         \/ attempts >= 2 /\ ~Exhausted(attempts) /\ Answer(ms, <<Row("twoFailures", Username)>>)
         \/ attempts < 2 /\ Answer(ms, <<>>)

onReadLoginAuthenticate ==
  /\ Handles({"LOGIN_AUTHENTICATE"})
  /\ \/ /\ ~user[current].usernameVerified
        /\ AnswerAndRemove(<<Display>>, <<>>)
        /\ UNCHANGED user
     \/ /\ user[current].usernameVerified /\ RowOf(Username) = NoRow
        /\ AnswerAndRemove(<<Display, AuthenticateResponse(FALSE)>>, <<>>)
        /\ UNCHANGED user
     \/ /\ user[current].usernameVerified /\ RowOf(Username) = Arg
        /\ RightPassword
     \/ /\ user[current].usernameVerified /\ RowOf(Username) \notin {NoRow, Arg}
        /\ WrongPassword
  /\ UNCHANGED passwd

\* message.peek finds no whole message in the bytes, which stay in the readBuffer
\* and are not looked at again.
PartKept ==
  /\ Handles({"PART"})
  /\ UNCHANGED <<selectorVars, sessionVars>>

\* message.peek finds nothing more: onRead returns.
ReadDone ==
  /\ inbuf = <<>>
  /\ EndCallback
  /\ UNCHANGED <<environmentVars, inbuf, sessionVars>>

(***************************************************************************)
(* The end of the server.                                                  *)
(***************************************************************************)
ServerInterrupt ==
  /\ Interrupt
  /\ UNCHANGED <<environmentVars, inbuf, sessionVars>>

\* Mutant: shutdown leaves the descriptors to the end of the process.
shutdownKeeps ==
  /\ status = "stopped"
  /\ status' = "done"
  /\ UNCHANGED <<fds, num, wbuf, running, possible, current, polled>>
  /\ UNCHANGED <<environmentVars, inbuf, sessionVars>>

shutdown ==
  /\ ClearFDs
  /\ UNCHANGED <<environmentVars, inbuf, sessionVars>>

ServerTerminated == status \in {"done", "killed"} /\ UNCHANGED serverVars

(***************************************************************************)
(* The specification.                                                      *)
(***************************************************************************)
onRead ==
  \/ onReadInfoRequest
  \/ onReadUnknown
  \/ onReadDisplayMessage
  \/ onReadLoginSetUsername
  \/ onReadLoginSetPassword
  \/ onReadLoginAuthenticate
  \/ PartKept
  \/ ReadDone

Pass ==
  \/ ServerSkip
  \/ \E c \in Conn : AcceptConnection(c)
  \/ \E c \in Conn : RefuseConnection(c)
  \/ AcceptFails
  \/ \E c \in Conn : \E k \in 1..Len(recvq[c]) : ReadRequests(c, k)
  \/ \E c \in Conn : ConnectionLost(c)
  \/ \E c \in Conn : \E k \in 1..Len(wbuf[c]) : Flush(c, k)
  \/ \E c \in Conn : FlushFails(c)
  \/ \E c \in Conn : FlushKills(c)
  \/ \E c \in Conn : Urgent(c)

ServerNext ==
  \/ Environment
  \/ \E wr, ex \in SUBSET RegisteredNumbers : ServerPoll(wr, ex)
  \/ Pass
  \/ onRead
  \/ ServerInterrupt
  \/ shutdown
  \/ ServerTerminated

ServerSpec == ServerInit /\ [][ServerNext]_serverVars

\* The one thread of the server runs, accept4 does not fail for ever, and the
\* kernel keeps reporting room for a connection with queued answers: its peer
\* reads.  Nothing is assumed of what peers send, urgent data included, of signals
\* or of the password file.
ServerFairness ==
  /\ WF_serverVars(\E wr \in SUBSET RegisteredNumbers : ServerPoll(wr, {}))
  /\ WF_serverVars(Pass)
  /\ WF_serverVars(onRead)
  /\ WF_serverVars(shutdown)
  /\ SF_serverVars(\E c \in Conn : AcceptConnection(c) \/ RefuseConnection(c))
  /\ \A c \in Conn :
       SF_serverVars(\E wr, ex \in SUBSET RegisteredNumbers :
                       num[c] \in wr /\ ServerPoll(wr, ex))

FairServerSpec == ServerSpec /\ ServerFairness

(***************************************************************************)
(* Properties.                                                             *)
(***************************************************************************)
ServerTypeOK ==
  /\ SelectorTypeOK
  /\ backlog \in Seq(Conn)
  /\ peer \in [Conn -> {"none", "open", "streaming", "closed"}]
  /\ sent \in [Conn -> 0..MaxRequests]
  /\ recvq \in [Conn -> Seq(Request)]
  /\ inbuf \in Seq(Request)
  /\ user \in [Conn -> Session]
  /\ passwd \in [User -> Password \cup {NoRow}]
  /\ log \in [Conn -> Seq(LogRow)]

\* However its requests are spread over reads, a session that has used up its
\* three attempts without the right password is no longer registered.
AttemptLimit ==
  \A c \in Conn \cap Registered :
    user[c].passwordAttempts >= 3 => user[c].passwordVerified

\* While numbers suffice, a session counts as verified only under the name its
\* login is logged for.
LoginRecorded ==
  \A c \in Conn : user[c].passwordVerified =>
    user[c].usernameVerified /\ Row("loggedIn", user[c].username) \in Range(log[c])

\* A row of the password file is replaced only on behalf of a session whose
\* login under that very name is in the log.  Names cannot be switched between
\* the check of a password and the change of one.
AuthorisedChange ==
  \A u \in User :
    passwd[u] # NoRow /\ passwd'[u] \notin {NoRow, passwd[u]} =>
      status = "callback" /\ Row("loggedIn", u) \in Range(log[current])

PasswordChangeAuthorised == [][AuthorisedChange]_serverVars

\* The inductive invariant behind these properties.
VerifiedNamed ==
  \A c \in Conn : user[c].passwordVerified => user[c].usernameVerified

ServerInv ==
  /\ SelectorInv
  /\ ServerTypeOK
  /\ VerifiedNamed
  /\ AttemptLimit
  /\ NumbersSuffice => LoginRecorded

\* Beside it: what a read brought is handled before its callback returns.
InbufHandled == status # "callback" => inbuf = <<>>

\* The server never uses up its descriptor numbers: a connection that takes the
\* last one finds no whitelist to be on.
ReserveKept == FreeNumbers # {}

EventCount(rows, event) ==
  Cardinality({k \in DOMAIN rows : rows[k].event = event})

Count(c, event) == EventCount(log[c], event)

\* Until the server shuts down, the log holds one "disconnected" row for every
\* accepted connection that is gone, and none for those that are still there,
\* even when requests of a session keep being handled after its removal.
DisconnectLogged ==
  Up => \A c \in Conn :
          Count(c, "disconnected") =
            Count(c, "connected") - IF c \in Registered THEN 1 ELSE 0

\* A callback returns whatever it was sent.
CallbacksReturn == status = "callback" ~> status # "callback"

\* What a connection has sent is read, unless the connection or the server is
\* gone first.
RequestsRead ==
  \A c \in Conn :
    (recvq[c] # <<>> /\ c \in Registered) ~>
      (recvq[c] = <<>> \/ c \notin Registered \/ ~Up)

RepliesLeaveTo(c) == wbuf[c] # <<>> ~> (wbuf[c] = <<>> \/ ~Up)

\* Once a peer stops sending, what is queued for it is written or dropped with its
\* connection, whatever the other peers do: a connection is read before it is
\* written to, but only as long as there is something to read.
RepliesLeave ==
  \A c \in Conn : <>[][Len(recvq'[c]) <= Len(recvq[c])]_recvq => RepliesLeaveTo(c)

\* The loop handles the sending of data (TCPServer.cpp:87): what is queued for a
\* peer is written or dropped with its connection, whatever the peer sends.
DataSent == \A c \in Conn : RepliesLeaveTo(c)

\* A connection whose peer has closed gives its descriptor back.
ClosedReleased ==
  \A c \in Conn : (peer[c] = "closed") ~>
                    ((num[c] = NoFd /\ c \notin Range(backlog)) \/ ~Up)
=============================================================================
