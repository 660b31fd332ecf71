----------------------------- MODULE TCPClient ------------------------------
(***************************************************************************)
(* The client of src/TCPClient.cpp on top of the select loop: the socket   *)
(* and the terminal are its two descriptors, what a line means depends on  *)
(* clientInputState, and the echo of the terminal is switched off while a  *)
(* password is typed.  Switching it throws away what was typed meanwhile   *)
(* (TCSAFLUSH).  The user, the terminal and the server are the environment.*)
(*                                                                         *)
(* Stdin is a terminal, which gives one line to a read.  Empty lines, which*)
(* onRead drops, and the texts shown are left out; a message arrives whole *)
(* (MessageFraming is about those that do not).  The server here is any    *)
(* that answers as src/TCPServer.cpp may; ClientServer puts TCPServer in   *)
(* its place and shows that it is one of them.                             *)
(***************************************************************************)
EXTENDS Selector

CONSTANTS
  Socket,    \* the connection to the server
  Stdin,     \* the terminal
  SocketFd,  \* the number of the socket; that of Stdin is 0
  Text,      \* the lines the user types
  Arg,       \* the names and passwords the server tells apart
  Sent,      \* which of them a line is
  NoArg,     \* the payload of a request without one
  MaxLines,  \* bound on the lines typed
  MaxAhead   \* bound on those the terminal holds at a time

StdinFd == 0

\* The commands that ask the server for a text, with the request each becomes.
InfoText == {"hello", "1", "2", "3", "4", "5", "menu"}

InfoRequest ==
  [t \in InfoText |->
     CASE t = "hello" -> "HELLO"     [] t = "1" -> "GENERIC_1" [] t = "2" -> "GENERIC_2"
       [] t = "3" -> "GENERIC_3"     [] t = "4" -> "GENERIC_4" [] t = "5" -> "GENERIC_5"
       [] t = "menu" -> "MENU"]

LoginResponse == {"LOGIN_SET_USERNAME_RESPONSE", "LOGIN_AUTHENTICATE_RESPONSE"}

Message ==
  [type : Range(InfoRequest), arg : {NoArg}]
    \cup [type : {"LOGIN_SET_USERNAME", "LOGIN_SET_PASSWORD", "LOGIN_AUTHENTICATE"},
          arg : Arg]

ServerMessage ==
  [type : {"DISPLAY_MESSAGE", "LOGIN_SET_PASSWORD_RESPONSE"} \cup LoginResponse,
   success : BOOLEAN]

ClientBurst == {<<m>> : m \in Message}

ASSUME ClientAssumption ==
  /\ Socket # Stdin /\ Desc = {Socket, Stdin}
  /\ Acceptor = {} /\ Initial = <<Socket, Stdin>> /\ Stopping = {Socket}
  /\ SocketFd \in FdNum \ {StdinFd} /\ StdinFd \in FdNum
  /\ Reply = Message /\ ClientBurst \subseteq Burst
  /\ "" \notin Text /\ Sent \in [Text -> Arg]
  /\ MaxLines \in Nat /\ MaxAhead \in Nat

VARIABLES
  tty,       \* the lines typed and not read
  eof,       \* the user has ended the input
  echo,      \* the terminal shows what is typed
  typed,     \* how many lines were typed
  conn,      \* the server's end of the connection: "open" or "closed"
  srv,       \* what the server knows of the user: "new", "named", "verified"
  gone,      \* the server has removed the connection and is about to close it
  toServer,  \* the requests sent and not handled by the server
  answers,   \* what the server has queued for the connection
  inbox,     \* the messages the kernel holds for the socket
  inbuf,     \* what the callback that runs has read and not handled
  clientInputState,
  passwordTemporaryStorage,
  awaiting,  \* history: a login request was sent, and no answer handled since
  patient,   \* history: no line was typed but in answer to a prompt
  exposed    \* history: a password was sent that was typed with the echo on

terminalVars == <<tty, eof, echo, typed, patient>>
serverEnd == <<conn, srv, gone, answers>>
networkVars == <<serverEnd, toServer, inbox>>
inputVars == <<clientInputState, passwordTemporaryStorage, awaiting, exposed>>
clientVars == <<selectorVars, terminalVars, networkVars, inbuf, inputVars>>

Up == status \in {"loop", "callback"}

InputState ==
  {"NONE", "LOGIN_USERNAME", "LOGIN_PASSWORD", "CHANGE_PASSWORD1", "CHANGE_PASSWORD2"}

Line == [text : Text, hidden : BOOLEAN]

NothingStored == [text |-> "", hidden |-> TRUE]

ClientInit ==
  /\ SelectorInit
  /\ num = [d \in Desc |-> IF d = Stdin THEN StdinFd ELSE SocketFd]
  /\ tty = <<>> /\ eof = FALSE /\ echo = TRUE /\ typed = 0 /\ patient = TRUE
  /\ conn = "open" /\ srv = "new" /\ gone = FALSE
  /\ toServer = <<>> /\ answers = <<>> /\ inbox = <<>>
  /\ inbuf = <<>>
  /\ clientInputState = "LOGIN_USERNAME"
  /\ passwordTemporaryStorage = NothingStored
  /\ awaiting = FALSE /\ exposed = FALSE

(***************************************************************************)
(* The user, and the server as src/TCPServer.cpp answers.                  *)
(***************************************************************************)
\* What was typed is read and handled, and no prompt is still to come.
Prompted == tty = <<>> /\ current # Stdin /\ ~awaiting

TypeLine(t) ==
  /\ Up /\ ~eof /\ typed < MaxLines /\ Len(tty) < MaxAhead
  /\ tty' = Append(tty, [text |-> t, hidden |-> ~echo])
  /\ typed' = typed + 1
  /\ patient' = (patient /\ Prompted)
  /\ UNCHANGED <<selectorVars, eof, echo, networkVars, inbuf, inputVars>>

EndInput ==
  /\ Up /\ ~eof
  /\ eof' = TRUE
  /\ UNCHANGED <<selectorVars, tty, echo, typed, patient, networkVars, inbuf, inputVars>>

Display == [type |-> "DISPLAY_MESSAGE", success |-> TRUE]

Response(type, b) == [type |-> type, success |-> b]

\* What the server may make of a request: what it queues, what it knows of the
\* user then, and whether it removes the connection.
Outcome(queued, s, g) == [queued |-> queued, srv |-> s, gone |-> g]

Answers(m) ==
  CASE m.type \in Range(InfoRequest) -> {Outcome(<<Display>>, srv, FALSE)}
    [] m.type = "LOGIN_SET_USERNAME" /\ srv # "new" -> {Outcome(<<Display>>, srv, FALSE)}
    [] m.type = "LOGIN_SET_USERNAME" /\ srv = "new" ->
         {Outcome(<<Display, Response("LOGIN_SET_USERNAME_RESPONSE", TRUE)>>, "named", FALSE),
          Outcome(<<Response("LOGIN_SET_USERNAME_RESPONSE", FALSE)>>, srv, TRUE)}
    [] m.type = "LOGIN_AUTHENTICATE" /\ srv # "new" ->
         {Outcome(<<Display, Response("LOGIN_AUTHENTICATE_RESPONSE", TRUE)>>, "verified", FALSE)}
           \cup {Outcome(<<Display, Response("LOGIN_AUTHENTICATE_RESPONSE", FALSE)>>, srv, g) :
                   g \in BOOLEAN}
    [] m.type = "LOGIN_SET_PASSWORD" /\ srv = "verified" ->
         {Outcome(<<Display, Response("LOGIN_SET_PASSWORD_RESPONSE", b)>>, srv, FALSE) :
                   b \in BOOLEAN}
    [] OTHER -> {Outcome(<<Display>>, srv, TRUE)}

\* A connection that was removed gets no answer, not even the last one queued,
\* but the requests that came with the one that removed it are handled all the
\* same.
ServerHandles ==
  /\ conn = "open" /\ toServer # <<>>
  /\ \E a \in Answers(Head(toServer)) :
       /\ srv' = a.srv
       /\ gone' = (gone \/ a.gone)
       /\ answers' = IF gone' THEN <<>> ELSE answers \o a.queued
  /\ toServer' = Tail(toServer)
  /\ UNCHANGED <<selectorVars, terminalVars, conn, inbox, inbuf, inputVars>>

ServerSends(k) ==
  /\ conn = "open" /\ ~gone
  /\ k \in 1..Len(answers)
  /\ inbox' = inbox \o SubSeq(answers, 1, k)
  /\ answers' = SubSeq(answers, k + 1, Len(answers))
  /\ UNCHANGED <<selectorVars, terminalVars, conn, srv, gone, toServer, inbuf, inputVars>>

\* What was queued or not yet handled is lost with the connection.
ServerCloses ==
  /\ conn = "open"
  /\ conn' = "closed" /\ gone' = TRUE
  /\ toServer' = <<>> /\ answers' = <<>>
  /\ UNCHANGED <<selectorVars, terminalVars, srv, inbox, inbuf, inputVars>>

User ==
  \/ \E t \in Text : TypeLine(t)
  \/ EndInput

Server ==
  \/ ServerHandles
  \/ \E k \in 1..Len(answers) : ServerSends(k)
  \/ ServerCloses

(***************************************************************************)
(* The loop.                                                               *)
(***************************************************************************)
Pending(d) ==
  IF d = Stdin THEN tty # <<>> \/ eof ELSE inbox # <<>> \/ conn = "closed"

ReadableNow == {num[d] : d \in {e \in Registered : Pending(e)}}

\* The server sends no urgent data, so there are no exceptional conditions.
ClientPoll(wr) ==
  /\ Poll(ReadableNow, wr, {})
  /\ UNCHANGED <<terminalVars, networkVars, inbuf, inputVars>>

ClientSkip ==
  /\ Skip
  /\ UNCHANGED <<terminalVars, networkVars, inbuf, inputVars>>

\* One read brings some of the messages that have arrived.
ReadMessages(k) ==
  /\ k \in 1..Len(inbox)
  /\ StartCallback(Socket)
  /\ inbuf' = SubSeq(inbox, 1, k)
  /\ inbox' = SubSeq(inbox, k + 1, Len(inbox))
  /\ UNCHANGED <<terminalVars, serverEnd, toServer, inputVars>>

ReadLine ==
  /\ tty # <<>>
  /\ StartCallback(Stdin)
  /\ inbuf' = <<Head(tty)>>
  /\ tty' = Tail(tty)
  /\ UNCHANGED <<eof, echo, typed, patient, networkVars, inputVars>>

\* The server has closed the connection: the loop is told to stop.
ConnectionLost ==
  /\ inbox = <<>>
  /\ ReadFails(Socket)
  /\ UNCHANGED <<terminalVars, networkVars, inbuf, inputVars>>

\* read finds the end of the input, or nothing: what pselect reported was
\* flushed since, and EAGAIN counts as a closed connection like any other error.
InputLost ==
  /\ tty = <<>>
  /\ ReadFails(Stdin)
  /\ UNCHANGED <<terminalVars, networkVars, inbuf, inputVars>>

\* pselect reported room, so at least one message goes out.
Flush(k) ==
  /\ k >= 1
  /\ Write(Socket, k)
  /\ toServer' = IF conn = "open" THEN toServer \o SubSeq(wbuf[Socket], 1, k) ELSE <<>>
  /\ UNCHANGED <<terminalVars, serverEnd, inbox, inbuf, inputVars>>

FlushFails ==
  /\ conn = "closed"
  /\ WriteFails(Socket)
  /\ UNCHANGED <<terminalVars, networkVars, inbuf, inputVars>>

\* A write to the closed connection is answered by a reset, and one after it
\* raises SIGPIPE.
FlushKills ==
  /\ conn = "closed"
  /\ WriteKills(Socket)
  /\ UNCHANGED <<terminalVars, networkVars, inbuf, inputVars>>

(***************************************************************************)
(* onRead on the socket: one handler per message.                          *)
(***************************************************************************)
Takes(d) ==
  /\ status = "callback" /\ current = d /\ inbuf # <<>>
  /\ inbuf' = Tail(inbuf)
  /\ UNCHANGED <<eof, typed, patient, networkVars>>

Received(type) == Takes(Socket) /\ Head(inbuf).type = type

\* Security::setFDEcho: what was typed and not read is discarded.
setFDEcho(b) == echo' = b /\ tty' = <<>>

\* Mutant: the terminal is set up again with every text that is shown.
onReadDisplayMessageEchoes ==
  /\ Received("DISPLAY_MESSAGE")
  /\ setFDEcho(TRUE)
  /\ UNCHANGED <<selectorVars, inputVars>>

onReadDisplayMessage ==
  /\ Received("DISPLAY_MESSAGE")
  /\ UNCHANGED <<selectorVars, echo, tty, inputVars>>

\* Mutant: the echo is left on for the password.
AskPasswordShown ==
  /\ clientInputState' = "LOGIN_PASSWORD"
  /\ UNCHANGED <<selectorVars, echo, tty, passwordTemporaryStorage>>

AskPassword ==
  /\ clientInputState' = "LOGIN_PASSWORD"
  /\ setFDEcho(FALSE)
  /\ UNCHANGED <<selectorVars, passwordTemporaryStorage>>

onReadLoginSetUsernameResponse ==
  /\ Received("LOGIN_SET_USERNAME_RESPONSE")
  /\ awaiting' = FALSE
  /\ UNCHANGED exposed
  /\ \/ Head(inbuf).success /\ AskPassword
     \/ /\ ~Head(inbuf).success
        /\ CallbackStop
        /\ UNCHANGED <<echo, tty, clientInputState, passwordTemporaryStorage>>

onReadLoginSetPasswordResponse ==
  /\ Received("LOGIN_SET_PASSWORD_RESPONSE")
  /\ UNCHANGED <<selectorVars, echo, tty, inputVars>>

\* Mutant: the answer is not looked at.
onReadLoginAuthenticateResponseTrusts ==
  /\ Received("LOGIN_AUTHENTICATE_RESPONSE")
  /\ awaiting' = FALSE
  /\ clientInputState' = "NONE"
  /\ UNCHANGED <<selectorVars, echo, tty, passwordTemporaryStorage, exposed>>

onReadLoginAuthenticateResponse ==
  /\ Received("LOGIN_AUTHENTICATE_RESPONSE")
  /\ awaiting' = FALSE
  /\ UNCHANGED exposed
  /\ \/ /\ Head(inbuf).success
        /\ clientInputState' = "NONE"
        /\ UNCHANGED <<selectorVars, echo, tty, passwordTemporaryStorage>>
     \/ ~Head(inbuf).success /\ AskPassword

(***************************************************************************)
(* handleUserInput: what a line means in each state.                       *)
(***************************************************************************)
Input == Head(inbuf)

Entered(state) == Takes(Stdin) /\ clientInputState = state

\* writeToFD(fd, message->encode())
SendMessage(type, arg) == CallbackWrite(SocketFd, <<[type |-> type, arg |-> arg]>>)

SendPassword(type) ==
  /\ SendMessage(type, Sent[Input.text])
  /\ exposed' = (exposed \/ ~Input.hidden)

EnterUsername ==
  /\ Entered("LOGIN_USERNAME")
  /\ SendMessage("LOGIN_SET_USERNAME", Sent[Input.text])
  /\ awaiting' = TRUE
  /\ UNCHANGED <<echo, tty, clientInputState, passwordTemporaryStorage, exposed>>

\* Mutant: the echo stays off until the answer comes.
EnterPasswordQuiet ==
  /\ Entered("LOGIN_PASSWORD")
  /\ SendPassword("LOGIN_AUTHENTICATE")
  /\ awaiting' = TRUE
  /\ UNCHANGED <<echo, tty, clientInputState, passwordTemporaryStorage>>

EnterPassword ==
  /\ Entered("LOGIN_PASSWORD")
  /\ setFDEcho(TRUE)
  /\ SendPassword("LOGIN_AUTHENTICATE")
  /\ awaiting' = TRUE
  /\ UNCHANGED <<clientInputState, passwordTemporaryStorage>>

EnterNewPassword ==
  /\ Entered("CHANGE_PASSWORD1")
  /\ passwordTemporaryStorage' = Input
  /\ clientInputState' = "CHANGE_PASSWORD2"
  /\ UNCHANGED <<selectorVars, echo, tty, awaiting, exposed>>

RepeatNewPassword ==
  /\ Entered("CHANGE_PASSWORD2")
  /\ clientInputState' = "NONE"
  /\ setFDEcho(TRUE)
  /\ \/ /\ Input.text = passwordTemporaryStorage.text
        /\ SendPassword("LOGIN_SET_PASSWORD")
     \/ /\ Input.text # passwordTemporaryStorage.text
        /\ UNCHANGED <<selectorVars, exposed>>
  /\ passwordTemporaryStorage' = NothingStored
  /\ UNCHANGED awaiting

EnterInfoCommand ==
  /\ Entered("NONE") /\ Input.text \in InfoText
  /\ SendMessage(InfoRequest[Input.text], NoArg)
  /\ UNCHANGED <<echo, tty, inputVars>>

EnterPasswd ==
  /\ Entered("NONE") /\ Input.text = "passwd"
  /\ clientInputState' = "CHANGE_PASSWORD1"
  /\ passwordTemporaryStorage' = NothingStored
  /\ setFDEcho(FALSE)
  /\ UNCHANGED <<selectorVars, awaiting, exposed>>

\* Mutant: exit removes the descriptors at once, under the callback.
EnterExitClears ==
  /\ Entered("NONE") /\ Input.text = "exit"
  /\ fds' = <<>> /\ num' = [d \in Desc |-> NoFd] /\ running' = FALSE
  /\ UNCHANGED <<wbuf, possible, current, status, polled, echo, tty, inputVars>>

EnterExit ==
  /\ Entered("NONE") /\ Input.text = "exit"
  /\ CallbackStop
  /\ UNCHANGED <<echo, tty, inputVars>>

EnterUnknown ==
  /\ Entered("NONE") /\ Input.text \notin InfoText \cup {"passwd", "exit"}
  /\ UNCHANGED <<selectorVars, echo, tty, inputVars>>

ReadDone ==
  /\ inbuf = <<>>
  /\ EndCallback
  /\ UNCHANGED <<terminalVars, networkVars, inbuf, inputVars>>

(***************************************************************************)
(* The end of the client.                                                  *)
(***************************************************************************)
ClientInterrupt ==
  /\ Interrupt
  /\ UNCHANGED <<terminalVars, networkVars, inbuf, inputVars>>

ClientStops ==
  /\ LoopEnds
  /\ UNCHANGED <<terminalVars, networkVars, inbuf, inputVars>>

closeConn ==
  /\ ClearFDs
  /\ UNCHANGED <<terminalVars, networkVars, inbuf, inputVars>>

ClientTerminated == status \in {"done", "killed"} /\ UNCHANGED clientVars

(***************************************************************************)
(* The specification.                                                      *)
(***************************************************************************)
handleUserInput ==
  \/ EnterUsername \/ EnterPassword
  \/ EnterNewPassword \/ RepeatNewPassword
  \/ EnterInfoCommand \/ EnterPasswd \/ EnterExit \/ EnterUnknown

onRead ==
  \/ onReadDisplayMessage
  \/ onReadLoginSetUsernameResponse
  \/ onReadLoginSetPasswordResponse
  \/ onReadLoginAuthenticateResponse
  \/ handleUserInput
  \/ ReadDone

Pass ==
  \/ ClientSkip
  \/ \E k \in 1..Len(inbox) : ReadMessages(k)
  \/ ReadLine
  \/ ConnectionLost
  \/ InputLost
  \/ \E k \in 1..Len(wbuf[Socket]) : Flush(k)
  \/ FlushFails
  \/ FlushKills

\* What the one thread of the client does.
ClientRuns ==
  \/ \E wr \in SUBSET RegisteredNumbers : ClientPoll(wr)
  \/ Pass
  \/ onRead
  \/ ClientStops
  \/ closeConn

ClientNext ==
  \/ User
  \/ Server
  \/ ClientRuns
  \/ ClientInterrupt
  \/ ClientTerminated

ClientSpec == ClientInit /\ [][ClientNext]_clientVars

\* The one thread of the client runs, pselect returns when something is ready,
\* and the server reads and answers.  Nothing is assumed of the user, and the
\* server may close the connection at any time or keep it.
ClientFairness ==
  /\ WF_clientVars(ClientRuns)
  /\ SF_clientVars(\E wr \in SUBSET RegisteredNumbers : SocketFd \in wr /\ ClientPoll(wr))
  /\ WF_clientVars(ServerHandles)
  /\ WF_clientVars(\E k \in 1..Len(answers) : ServerSends(k))
  /\ WF_clientVars(gone /\ ServerCloses)

FairClientSpec == ClientSpec /\ ClientFairness

(***************************************************************************)
(* Properties.                                                             *)
(***************************************************************************)
ClientTypeOK ==
  /\ SelectorTypeOK
  /\ tty \in Seq(Line)
  /\ eof \in BOOLEAN /\ echo \in BOOLEAN
  /\ typed \in 0..MaxLines
  /\ conn \in {"open", "closed"} /\ srv \in {"new", "named", "verified"}
  /\ gone \in BOOLEAN
  /\ toServer \in Seq(Message) /\ answers \in Seq(ServerMessage) /\ inbox \in Seq(ServerMessage)
  /\ inbuf \in Seq(ServerMessage) \cup Seq(Line)
  /\ clientInputState \in InputState
  /\ passwordTemporaryStorage \in Line \cup {NothingStored}
  /\ awaiting \in BOOLEAN /\ patient \in BOOLEAN /\ exposed \in BOOLEAN

\* For a user who types in answer to prompts only, the echo is off exactly while
\* a password is asked for, however answers and lines interleave.
EchoFollowsState ==
  patient =>
    (~echo <=> \/ clientInputState \in {"CHANGE_PASSWORD1", "CHANGE_PASSWORD2"}
               \/ clientInputState = "LOGIN_PASSWORD" /\ ~awaiting)

\* No password such a user typed was shown on the terminal.
PasswordsHidden ==
  patient => ~exposed /\ passwordTemporaryStorage.hidden

\* Such a user keeps the terminal: switching the echo never discards a line
\* that pselect has reported, which would make the read fail and remove stdin.
TerminalKept == patient /\ Up /\ ~eof => Stdin \in Registered

\* When the server closes the connection, the client ends.
ClientEnds == conn = "closed" ~> status \in {"done", "killed"}

\* Every login request is answered and the answer handled, or the client ends:
\* nobody is left without a prompt.
LoginProgresses == awaiting ~> (~awaiting \/ ~Up)

\* handleConnection "looks for user input and sends it if available"
\* (TCPClient.cpp:60): a line that was typed is read.
UserInputRead == tty # <<>> ~> (tty = <<>> \/ ~Up)

(***************************************************************************)
(* The inductive invariant behind the safety properties.                   *)
(***************************************************************************)
LoginRequest == {"LOGIN_SET_USERNAME", "LOGIN_AUTHENTICATE"}

IsLogin(m) == m.type \in LoginRequest \cup LoginResponse

\* The state in which the client waits for what becomes of a login message.
AwaitedIn(m) ==
  IF m.type \in {"LOGIN_SET_USERNAME", "LOGIN_SET_USERNAME_RESPONSE"}
    THEN "LOGIN_USERNAME" ELSE "LOGIN_PASSWORD"

\* Where a request and its answer may be: read by the callback that runs,
\* arrived, queued by the server, on the way to it, queued by the client.
UnderWay ==
  <<IF current = Socket THEN inbuf ELSE <<>>, inbox, answers, toServer, wbuf[Socket]>>

Place == 1..5

\* Two login messages in the places w are one and the same.
OneLogin(w) ==
  \A p, q \in Place : \A i \in DOMAIN w[p], j \in DOMAIN w[q] :
    IsLogin(w[p][i]) /\ IsLogin(w[q][j]) => p = q /\ i = j

\* The client waits for every login message, in the state for it.
LoginFits(w) ==
  \A p \in Place : \A i \in DOMAIN w[p] :
    IsLogin(w[p][i]) => awaiting /\ clientInputState = AwaitedIn(w[p][i])

OneLoginUnderWay == patient => OneLogin(UnderWay) /\ LoginFits(UnderWay)

\* The callback that runs has read one line or messages.
InbufKind ==
  /\ current = Stdin => inbuf = <<>> \/ \E l \in Line : inbuf = <<l>>
  /\ current = Socket => inbuf \in Seq(ServerMessage)
  /\ current = NoDesc => inbuf = <<>>

NumbersKept ==
  \A d \in Registered : num[d] = IF d = Stdin THEN StdinFd ELSE SocketFd

\* A patient user's line is the only one, the echo is still as it was when it was
\* typed, and no answer is awaited beside it.
LineAlone ==
  patient =>
    /\ tty = <<>> \/ \E l \in Line : tty = <<l>> /\ (l.hidden <=> ~echo)
    /\ current = Stdin => tty = <<>> /\ (inbuf # <<>> => (Head(inbuf).hidden <=> ~echo))
    /\ awaiting => tty = <<>> /\ (current = Stdin => inbuf = <<>>)

\* What pselect reported on stdin is still there.
ReportedInput ==
  patient /\ Up /\ ~eof =>
    \A k \in DOMAIN possible :
      /\ possible[k].fd = StdinFd /\ possible[k].event = "read"
      /\ ~(k = 1 /\ status = "callback")
      => tty # <<>>

\* The messages on their way to the client, or read by the callback that runs.
ToClient ==
  Range(IF current = Socket THEN inbuf ELSE <<>>) \cup Range(inbox) \cup Range(answers)

\* What message m tells the client about its user is so if s is what the server
\* knows.
SaysTrue(m, s) ==
  /\ m.type = "LOGIN_SET_USERNAME_RESPONSE" /\ m.success => s # "new"
  /\ m.type = "LOGIN_AUTHENTICATE_RESPONSE" => s # "new" /\ (m.success => s = "verified")

AnswersTrue == \A m \in ToClient : SaysTrue(m, srv)

\* What the client prompts for fits what the server knows of the user, whoever
\* the user is and whatever was typed ahead.
PromptsFit ==
  /\ clientInputState = "LOGIN_PASSWORD" => srv # "new"
  /\ clientInputState \in {"NONE", "CHANGE_PASSWORD1", "CHANGE_PASSWORD2"} =>
       srv = "verified"

ClientInv ==
  /\ SelectorInv
  /\ ClientTypeOK
  /\ InbufKind
  /\ NumbersKept
  /\ LineAlone
  /\ OneLoginUnderWay
  /\ EchoFollowsState
  /\ PasswordsHidden
  /\ ReportedInput
  /\ TerminalKept
=============================================================================
