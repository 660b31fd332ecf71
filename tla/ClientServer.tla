---------------------------- MODULE ClientServer ----------------------------
(***************************************************************************)
(* One client of src/TCPClient.cpp connected to the server of              *)
(* src/TCPServer.cpp: two programs, each with its own select loop, and the *)
(* connection between them.  What the client writes is under way (net)     *)
(* until the kernel of the server has it, what the server writes is in the *)
(* client's inbox, and either program may end with messages anywhere       *)
(* between them.                                                           *)
(*                                                                         *)
(* Names and passwords are the lines the user may type.  Nobody else is    *)
(* connected, and nobody else writes the password file.  The few short     *)
(* messages fit into the buffers of the sockets: there is always room for  *)
(* what is queued, one write takes all of it, and neither side ever sends  *)
(* urgent data.  The user does not end the input, and accept4 finds the    *)
(* resources it needs.                                                     *)
(***************************************************************************)
EXTENDS Integers, Sequences, SequencesExt

CONSTANTS
  NoDesc,                    \* of both select loops
  Reply, Burst,              \* what the client's callbacks queue
  sReply, sBurst,            \* what the server's callbacks queue
  Socket, Stdin, SocketFd,   \* the client's descriptors
  Lines, MaxLines, MaxAhead,  \* the lines typed, and their bounds
  NoArg,                     \* the payload of a request without one
  Listener, Connection,      \* the server's descriptors
  ServerFdNum,               \* the numbers the server may use
  NoUser, NoRow,             \* no name given, no row for a name
  InitialPasswd              \* the password file

VARIABLES
  \* The client.
  fds, num, wbuf, running, possible, current, status, polled,
  tty, eof, echo, typed, patient,
  inbuf, clientInputState, passwordTemporaryStorage, awaiting, exposed,
  \* The connection.
  conn,   \* as the client's kernel sees the server's end: "open" or "closed"
  inbox,  \* the messages that have arrived at the client
  net,    \* the requests on their way to the server
  \* The server.
  sFds, sNum, sWbuf, sRunning, sPossible, sCurrent, sStatus, sPolled,
  backlog, peer, sent, recvq, sInbuf, user, passwd, log

programVars ==
  <<fds, num, wbuf, running, possible, current, status, polled,
    tty, eof, echo, typed, patient,
    inbuf, clientInputState, passwordTemporaryStorage, awaiting, exposed>>

serverVars ==
  <<sFds, sNum, sWbuf, sRunning, sPossible, sCurrent, sStatus, sPolled,
    backlog, peer, sent, recvq, sInbuf, user, passwd, log>>

vars == <<programVars, conn, inbox, net, serverVars>>

(***************************************************************************)
(* What of the server a client's end of the connection stands for.         *)
(***************************************************************************)
\* The process is there, and the connection waits for accept4 or has a number.
ServerHolds ==
  /\ sStatus \notin {"done", "killed"}
  /\ Connection \in Range(backlog) \/ sNum[Connection] # -1

\* removeFD has taken the connection out of the vector.
Removed ==
  \/ conn = "closed"
  \/ Connection \notin Range(backlog) \cup Range(sFds)

Known ==
  CASE user[Connection].passwordVerified -> "verified"
    [] user[Connection].usernameVerified /\ ~user[Connection].passwordVerified -> "named"
    [] OTHER -> "new"

Queued == IF conn = "open" THEN sWbuf[Connection] ELSE <<>>

\* The requests sent and not handled, oldest first.
Unhandled == IF conn = "open" THEN sInbuf \o recvq[Connection] \o net ELSE <<>>

(***************************************************************************)
(* The two programs.  TheClient sends to net; AsSeen is the client with    *)
(* the server as the environment that TCPClient describes.  The modules    *)
(* with the proofs are instantiated, so that ClientServerProofs can cite   *)
(* what they prove.                                                        *)
(***************************************************************************)
TheClient == INSTANCE TCPClient WITH
  Desc <- {Socket, Stdin}, Acceptor <- {}, Initial <- <<Socket, Stdin>>,
  Stopping <- {Socket}, FdNum <- {0, SocketFd},
  Arg <- Lines, Text <- Lines, Sent <- [t \in Lines |-> t],
  srv <- Known, gone <- Removed, answers <- Queued, toServer <- net

AsSeen == INSTANCE TCPClientProofs WITH
  Desc <- {Socket, Stdin}, Acceptor <- {}, Initial <- <<Socket, Stdin>>,
  Stopping <- {Socket}, FdNum <- {0, SocketFd},
  Arg <- Lines, Text <- Lines, Sent <- [t \in Lines |-> t],
  srv <- Known, gone <- Removed, answers <- Queued, toServer <- Unhandled

TheServer == INSTANCE TCPServerProofs WITH
  Desc <- {Listener, Connection}, Acceptor <- {Listener}, Initial <- <<Listener>>,
  Stopping <- {}, FdNum <- ServerFdNum,
  Reply <- sReply, Burst <- sBurst,
  Whitelisted <- {Connection}, User <- Lines, Password <- Lines,
  Request <- TheClient!Message, MaxRequests <- MaxLines,
  fds <- sFds, num <- sNum, wbuf <- sWbuf, running <- sRunning,
  possible <- sPossible, current <- sCurrent, status <- sStatus,
  polled <- sPolled, inbuf <- sInbuf

ASSUME ClientServerAssumption ==
  /\ NoDesc \notin {Socket, Stdin, Listener, Connection}
  /\ Socket # Stdin /\ Listener # Connection
  /\ SocketFd \in Nat \ {0} /\ ServerFdNum \subseteq Nat
  /\ Reply = TheClient!Message /\ Burst = TheClient!ClientBurst
  /\ sReply = TheServer!ServerReply /\ sBurst = TheServer!ServerBurst
  /\ "" \notin Lines /\ NoUser \notin Lines /\ NoRow \notin Lines
  /\ InitialPasswd \in [Lines -> Lines \cup {NoRow}]
  /\ MaxLines \in Nat /\ MaxAhead \in Nat

(***************************************************************************)
(* The client is connected when its loop starts, and not yet accepted.     *)
(***************************************************************************)
Init ==
  /\ TheServer!SelectorInit
  /\ sNum[Listener] = 3
  /\ backlog = <<Connection>>
  /\ peer = [c \in {Connection} |-> "open"]
  /\ sent = [c \in {Connection} |-> 0]
  /\ recvq = [c \in {Connection} |-> <<>>]
  /\ sInbuf = <<>>
  /\ user = [c \in {Connection} |-> TheServer!NewSession]
  /\ passwd = InitialPasswd
  /\ log = [c \in {Connection} |-> <<>>]
  /\ TheClient!ClientInit

(***************************************************************************)
(* The client and its user.                                                *)
(***************************************************************************)
ServerIdle == UNCHANGED <<serverVars, conn>>

UserTypes == ServerIdle /\ \E line \in Lines : TheClient!TypeLine(line)

\* Of the writes, those that take everything.
ClientRuns ==
  /\ ServerIdle
  /\ \/ TheClient!ClientPoll({SocketFd : d \in {e \in {Socket} : wbuf[e] # <<>>}})
     \/ TheClient!Pass /\ Len(wbuf'[Socket]) \in {0, Len(wbuf[Socket])}
     \/ TheClient!onRead
     \/ TheClient!ClientStops
     \/ TheClient!closeConn

ClientInterrupted == ServerIdle /\ TheClient!ClientInterrupt

(***************************************************************************)
(* The connection.                                                         *)
(***************************************************************************)
Arrives ==
  /\ net # <<>>
  /\ TheServer!Send(Connection, Head(net))
  /\ net' = Tail(net)
  /\ UNCHANGED <<programVars, conn, inbox>>

\* The closeHandlers of the client close no file: the kernel ends the stream with
\* the process.  The end follows the last request.
ClientGone ==
  /\ status \in {"done", "killed"}
  /\ net = <<>>
  /\ TheServer!Close(Connection)
  /\ UNCHANGED <<programVars, conn, inbox, net>>

(***************************************************************************)
(* The server.  When it lets go of the connection, what is on its way to   *)
(* it is lost, and the client sees the end of the stream after what has    *)
(* arrived.                                                                *)
(***************************************************************************)
ServerActs ==
  \/ TheServer!ServerPoll({sNum[c] : c \in {d \in {Connection} : sWbuf[d] # <<>>}}, {})
  \/ TheServer!ServerSkip
  \/ TheServer!AcceptConnection(Connection)
  \/ TheServer!RefuseConnection(Connection)
  \/ \E k \in 1..Len(recvq[Connection]) : TheServer!ReadRequests(Connection, k)
  \/ TheServer!ConnectionLost(Connection)
  \/ TheServer!FlushFails(Connection)
  \/ TheServer!FlushKills(Connection)
  \/ TheServer!onRead
  \/ TheServer!shutdown

ServerFlushes ==
  /\ TheServer!Flush(Connection, Len(sWbuf[Connection]))
  /\ inbox' = inbox \o sWbuf[Connection]

AfterServer ==
  /\ conn' = IF ServerHolds' THEN conn ELSE "closed"
  /\ net' = IF ServerHolds' THEN net ELSE <<>>
  /\ UNCHANGED programVars

ServerRuns ==
  /\ \/ ServerActs /\ UNCHANGED inbox
     \/ ServerFlushes
  /\ AfterServer

ServerInterrupted ==
  /\ TheServer!ServerInterrupt
  /\ UNCHANGED inbox
  /\ AfterServer

BothEnded ==
  /\ status \in {"done", "killed"} /\ sStatus \in {"done", "killed"}
  /\ UNCHANGED vars

Next ==
  \/ UserTypes
  \/ ClientRuns
  \/ ClientInterrupted
  \/ Arrives
  \/ ClientGone
  \/ ServerRuns
  \/ ServerInterrupted
  \/ BothEnded

Spec == Init /\ [][Next]_vars

\* Each program has one thread, which pselect lets run when something is ready
\* for it or it has something to write, and the network delivers.  Nothing is
\* assumed of the user or of signals.
Fairness ==
  /\ WF_vars(ClientRuns)
  /\ WF_vars(ServerRuns)
  /\ WF_vars(Arrives)

FairSpec == Spec /\ Fairness

(***************************************************************************)
(* Properties.                                                             *)
(***************************************************************************)
\* The server is an environment as TCPClient describes it: what TCPClient shows
\* of the client holds with this server, whatever is under way when.
ServerAsDescribed == AsSeen!ClientSpec

\* The client asks for a password only from a user the server knows by name, and
\* takes commands only from one whose password the server has checked, in spite
\* of answers that are under way and lines typed ahead of them.
PromptsAgree ==
  /\ clientInputState = "LOGIN_PASSWORD" => Known \in {"named", "verified"}
  /\ clientInputState \in {"NONE", "CHANGE_PASSWORD1", "CHANGE_PASSWORD2"} => Known = "verified"

\* A login request has an outcome for the user: an answer is handled, or the
\* client ends, although a refusal queued just before the server removes the
\* connection is never sent.
LoginProgresses == TheClient!LoginProgresses

\* When the connection is gone, for whatever reason, the client ends.
ClientEnds == TheClient!ClientEnds

(***************************************************************************)
(* The inductive invariant behind the safety properties.                   *)
(***************************************************************************)
\* The connection is open, and requests are on their way, while the server holds
\* it; one that was not accepted yet is new in every respect.
ConnectionInv ==
  /\ net \in Seq(TheClient!Message)
  /\ conn = "open" <=> ServerHolds
  /\ conn = "closed" => net = <<>>
  /\ backlog \in {<<>>, <<Connection>>}
  /\ backlog # <<>> => user[Connection] = TheServer!NewSession /\ sNum[Connection] = -1

ClientServerInv ==
  /\ TheServer!ServerInv
  /\ TheServer!QueuedRegistered
  /\ TheServer!InbufHandled
  /\ ConnectionInv
  /\ AsSeen!TypeInv
=============================================================================
