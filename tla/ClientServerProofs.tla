------------------------ MODULE ClientServerProofs -------------------------
(* Proofs about the client and the server together, for any lines: the       *)
(* server is an environment as TCPClient describes it, so that what is       *)
(* proved of the client holds with this server.                              *)
EXTENDS ClientServer, SequenceLemmas

(***************************************************************************)
(* The constants are as the two programs assume.                           *)
(***************************************************************************)

\* Short sequences, and what they hold.
LEMMA ShortSequences ==
  ASSUME NEW a, NEW b
  PROVE  /\ <<a>> \in Seq(Range(<<a>>)) /\ Range(<<a>>) = {a} /\ DOMAIN <<a>> = {1}
         /\ <<a, b>> \in Seq(Range(<<a, b>>)) /\ Range(<<a, b>>) = {a, b}
         /\ DOMAIN <<a, b>> = {1, 2}
<1>1. DOMAIN <<a>> = {1} /\ DOMAIN <<a, b>> = {1, 2}
  OBVIOUS
<1>2. <<a>>[1] = a /\ <<a, b>>[1] = a /\ <<a, b>>[2] = b
  OBVIOUS
<1>3. Range(<<a>>) = {a} /\ Range(<<a, b>>) = {a, b}
  BY <1>1, <1>2 DEF Range
<1>4. <<a>> \in Seq({a}) /\ <<a, b>> \in Seq({a, b})
  OBVIOUS
<1> QED BY <1>1, <1>3, <1>4

\* What the server queues are bursts of its replies.
LEMMA ServerBursts == sBurst \subseteq Seq(sReply)
<1>1. ASSUME NEW ms \in TheServer!ServerBurst PROVE ms \in Seq(Range(ms))
  <2>1. \/ \E a : ms = <<a>>
        \/ \E a, b : ms = <<a, b>>
    BY DEF TheServer!ServerBurst
  <2>2. ASSUME NEW a, ms = <<a>> PROVE ms \in Seq(Range(ms))
    BY <2>2, ShortSequences
  <2>3. ASSUME NEW a, NEW b, ms = <<a, b>> PROVE ms \in Seq(Range(ms))
    BY <2>3, ShortSequences
  <2> QED BY <2>1, <2>2, <2>3
<1>2. ASSUME NEW ms \in TheServer!ServerBurst PROVE Range(ms) \subseteq TheServer!ServerReply
  BY DEF TheServer!ServerReply, TheServer!Range, Range
<1>3. \A ms \in TheServer!ServerBurst : ms \in Seq(TheServer!ServerReply)
  BY <1>1, <1>2, SeqMonotonic
<1> QED BY <1>3, ClientServerAssumption

\* The requests of the client are requests the server knows.
LEMMA RequestsKnown == TheClient!Message \subseteq TheServer!AnyRequest
<1>1. TheClient!Range(TheClient!InfoRequest) \subseteq TheServer!InfoType
  BY DEF TheClient!Range, TheClient!InfoRequest, TheClient!InfoText, TheServer!InfoType
<1> QED BY <1>1 DEF TheClient!Message, TheServer!AnyRequest

\* The server's constants are as TCPServer assumes.
LEMMA ServerConstants ==
  /\ TheServer!DescAssumption /\ TheServer!FdNumAssumption
  /\ TheServer!BurstAssumption /\ TheServer!ServerAssumption
<1>1. TheServer!DescAssumption
  <2>1. <<Listener>> \in Seq({Listener, Connection}) /\ DOMAIN <<Listener>> = {1}
    BY ShortSequences
  <2>2. NoDesc \notin {Listener, Connection}
    BY ClientServerAssumption
  <2> QED BY <2>1, <2>2 DEF TheServer!DescAssumption
<1>2. TheServer!FdNumAssumption
  BY ClientServerAssumption DEF TheServer!FdNumAssumption
<1>3. TheServer!BurstAssumption
  BY ServerBursts DEF TheServer!BurstAssumption
<1>4. TheServer!ServerAssumption
  <2>1. Connection \in TheServer!Conn
    BY ClientServerAssumption DEF TheServer!Conn
  <2> QED BY <2>1, RequestsKnown, ClientServerAssumption DEF TheServer!ServerAssumption
<1> QED BY <1>1, <1>2, <1>3, <1>4

\* The client's constants are as TCPClient assumes.
LEMMA ClientConstants ==
  /\ AsSeen!DescAssumption /\ AsSeen!FdNumAssumption
  /\ AsSeen!BurstAssumption /\ AsSeen!ClientAssumption
<1>1. AsSeen!DescAssumption
  <2>1. <<Socket, Stdin>> \in Seq({Socket, Stdin}) /\ DOMAIN <<Socket, Stdin>> = {1, 2}
    BY ShortSequences
  <2>2. NoDesc \notin {Socket, Stdin} /\ Socket # Stdin
    BY ClientServerAssumption
  <2> QED BY <2>1, <2>2 DEF AsSeen!DescAssumption
<1>2. AsSeen!FdNumAssumption
  <2>1. SocketFd \in Nat \ {0}
    BY ClientServerAssumption
  <2> QED BY <2>1 DEF AsSeen!FdNumAssumption
<1>3. AsSeen!Message = TheClient!Message /\ AsSeen!ClientBurst = TheClient!ClientBurst
  BY DEF AsSeen!Message, TheClient!Message, AsSeen!ClientBurst, TheClient!ClientBurst,
         AsSeen!InfoRequest, TheClient!InfoRequest, AsSeen!InfoText, TheClient!InfoText,
         AsSeen!Range, TheClient!Range
<1>4. AsSeen!BurstAssumption
  <2>1. \A ms \in TheClient!ClientBurst : ms \in Seq(TheClient!Message)
    <3>1. ASSUME NEW m \in TheClient!Message PROVE <<m>> \in Seq(TheClient!Message)
      OBVIOUS
    <3> QED BY <3>1 DEF TheClient!ClientBurst
  <2> QED BY <2>1, ClientServerAssumption DEF AsSeen!BurstAssumption
<1>5. AsSeen!ClientAssumption
  BY <1>3, ClientServerAssumption DEF AsSeen!ClientAssumption, AsSeen!StdinFd
<1> QED BY <1>1, <1>2, <1>4, <1>5

(***************************************************************************)
(* What the invariant says of the connection.                              *)
(***************************************************************************)

\* The server's vector, seen from here.
LEMMA RegisteredHere ==
  /\ TheServer!Registered = Range(sFds) /\ TheServer!Registered' = Range(sFds')
  /\ \A s : TheServer!Range(s) = Range(s)
BY DEF TheServer!Registered, TheServer!Range, Range

\* The connection is one of the server's, and the only one.
LEMMA OnlyConnection ==
  /\ TheServer!Conn = {Connection} /\ Connection \in {Listener, Connection}
  /\ Connection # NoDesc /\ TheServer!NoFd = -1 /\ -1 \notin ServerFdNum
<1>1. Listener # Connection /\ NoDesc # Connection /\ ServerFdNum \subseteq Nat
  BY ClientServerAssumption
<1> QED BY <1>1 DEF TheServer!Conn, TheServer!NoFd

\* The kinds of what is between the two programs.
LEMMA ConnectionTyped ==
  ASSUME ClientServerInv
  PROVE  /\ sInbuf \in Seq(TheClient!Message) /\ recvq[Connection] \in Seq(TheClient!Message)
         /\ net \in Seq(TheClient!Message)
         /\ recvq \in [{Connection} -> Seq(TheClient!Message)]
         /\ sNum \in [{Listener, Connection} -> ServerFdNum \cup {-1}]
         /\ sWbuf \in [{Listener, Connection} -> Seq(sReply)]
         /\ user \in [{Connection} -> TheServer!Session]
         /\ user[Connection].passwordVerified => user[Connection].usernameVerified
         /\ conn \in {"open", "closed"}
<1>1. TheServer!SelectorTypeOK /\ TheServer!ServerTypeOK /\ TheServer!VerifiedNamed
  BY DEF ClientServerInv, TheServer!ServerInv, TheServer!SelectorInv
<1>2. /\ sNum \in [{Listener, Connection} -> ServerFdNum \cup {-1}]
      /\ sWbuf \in [{Listener, Connection} -> Seq(sReply)]
  BY <1>1, OnlyConnection DEF TheServer!SelectorTypeOK
<1>3. /\ sInbuf \in Seq(TheClient!Message)
      /\ recvq \in [{Connection} -> Seq(TheClient!Message)]
      /\ user \in [{Connection} -> TheServer!Session]
  BY <1>1, OnlyConnection DEF TheServer!ServerTypeOK
<1>4. user[Connection].passwordVerified => user[Connection].usernameVerified
  BY <1>1, OnlyConnection DEF TheServer!VerifiedNamed
<1>5. net \in Seq(TheClient!Message)
  BY DEF ClientServerInv, ConnectionInv
<1>6. conn \in {"open", "closed"}
  BY DEF ClientServerInv, AsSeen!TypeInv, AsSeen!ClientTypeOK
<1> QED BY <1>2, <1>3, <1>4, <1>5, <1>6

\* A registered connection, or one whose callback runs, was taken out of the
\* backlog.
LEMMA AcceptedOnce ==
  ASSUME ClientServerInv
  PROVE  /\ sNum[Connection] # -1 => backlog = <<>>
         /\ sStatus = "callback" => sCurrent = Connection /\ sNum[Connection] # -1
         /\ Connection \in Range(sFds) => sNum[Connection] # -1
         /\ sStatus # "callback" => sInbuf = <<>> /\ sCurrent = NoDesc
         /\ Connection \notin Range(sFds) => sWbuf[Connection] = <<>>
<1>1. TheServer!SelectorInv /\ ConnectionInv /\ TheServer!InbufHandled /\ TheServer!QueuedRegistered
  BY DEF ClientServerInv, TheServer!ServerInv
<1>2. sStatus = "callback" => sCurrent = Connection /\ sNum[Connection] # -1
  <2>1. ASSUME sStatus = "callback"
        PROVE  sCurrent \in TheServer!Conn /\ sNum[sCurrent] = TheServer!HeadFD
               /\ TheServer!HeadFD # TheServer!NoFd
    BY <1>1, <2>1, ServerConstants, TheServer!CallbackCurrent
  <2> QED BY <2>1, OnlyConnection
<1>3. Connection \in Range(sFds) => sNum[Connection] # -1
  BY <1>1, OnlyConnection, RegisteredHere DEF TheServer!SelectorInv, TheServer!OpenWhileRegistered
<1>4. sNum[Connection] # -1 => backlog = <<>>
  BY <1>1 DEF ConnectionInv
<1>5. sStatus # "callback" => sInbuf = <<>> /\ sCurrent = NoDesc
  BY <1>1 DEF TheServer!InbufHandled, TheServer!SelectorInv, TheServer!CallbackHolds
<1>6. Connection \notin Range(sFds) => sWbuf[Connection] = <<>>
  BY <1>1, OnlyConnection, RegisteredHere DEF TheServer!QueuedRegistered
<1> QED BY <1>2, <1>3, <1>4, <1>5, <1>6

(***************************************************************************)
(* What a step of the server may be for the client.                        *)
(***************************************************************************)

\* The server goes on with the connection, or has let go of it.
KeepsConnection ==
  /\ ServerHolds' => ServerHolds
  /\ backlog' = <<>> \/ UNCHANGED <<backlog, user[Connection], sNum[Connection]>>

\* What follows it keeps the connection's part of the invariant.
LEMMA ConnectionKept ==
  ASSUME ClientServerInv, KeepsConnection, AfterServer
  PROVE  ConnectionInv'
<1>1. net' \in Seq(TheClient!Message)
  BY ConnectionTyped, EmptySeq DEF AfterServer
<1>2. (conn = "open" <=> ServerHolds)'
  BY DEF AfterServer, KeepsConnection, ClientServerInv, ConnectionInv
<1>3. (conn = "closed" => net = <<>>)'
  BY <1>2 DEF AfterServer, ClientServerInv, ConnectionInv
<1>4. /\ backlog' \in {<<>>, <<Connection>>}
      /\ backlog' # <<>> =>
           user'[Connection] = TheServer!NewSession /\ sNum'[Connection] = -1
  BY DEF KeepsConnection, ClientServerInv, ConnectionInv
<1>5. TheServer!NewSession' = TheServer!NewSession
  BY DEF TheServer!NewSession
<1> QED BY <1>1, <1>2, <1>3, <1>4, <1>5 DEF ConnectionInv

\* A step the client cannot see.
LEMMA Unseen ==
  ASSUME ClientServerInv, AfterServer, UNCHANGED inbox,
         ServerHolds' <=> ServerHolds,
         UNCHANGED <<user[Connection], sWbuf[Connection], sInbuf \o recvq[Connection]>>,
         (Connection \in Range(backlog) \cup Range(sFds))'
           <=> Connection \in Range(backlog) \cup Range(sFds)
  PROVE  UNCHANGED AsSeen!clientVars
<1>1. UNCHANGED programVars
  BY DEF AfterServer
<1>2. conn' = conn /\ net' = net
  BY ConnectionTyped DEF AfterServer, ClientServerInv, ConnectionInv
<1>3. UNCHANGED <<Known, Removed, Queued, Unhandled>>
  BY <1>2 DEF Known, Removed, Queued, Unhandled
<1> QED BY <1>1, <1>2, <1>3
        DEF programVars, AsSeen!clientVars, AsSeen!selectorVars, AsSeen!terminalVars,
            AsSeen!networkVars, AsSeen!serverEnd, AsSeen!inputVars

\* A step after which the connection is gone.
LEMMA SeenClosing ==
  ASSUME ClientServerInv, AfterServer, UNCHANGED <<inbox, user[Connection]>>, ~ServerHolds'
  PROVE  AsSeen!ServerCloses \/ UNCHANGED AsSeen!clientVars
<1>1. UNCHANGED programVars /\ conn' = "closed" /\ net' = <<>>
  BY DEF AfterServer
<1>2. Known' = Known /\ Removed' = TRUE /\ Queued' = <<>> /\ Unhandled' = <<>>
  BY <1>1 DEF Known, Removed, Queued, Unhandled
<1>3. CASE conn = "open"
  <2>1. AsSeen!ServerCloses
    BY <1>1, <1>2, <1>3
      DEF programVars, AsSeen!ServerCloses, AsSeen!selectorVars, AsSeen!terminalVars,
          AsSeen!inputVars
  <2> QED BY <2>1
<1>4. CASE conn = "closed"
  <2>1. Removed = TRUE /\ Queued = <<>> /\ Unhandled = <<>>
    BY <1>4 DEF Removed, Queued, Unhandled
  <2>2. UNCHANGED AsSeen!clientVars
    BY <1>1, <1>2, <1>4, <2>1
      DEF programVars, AsSeen!clientVars, AsSeen!selectorVars, AsSeen!terminalVars,
          AsSeen!networkVars, AsSeen!serverEnd, AsSeen!inputVars
  <2> QED BY <2>2
<1> QED BY <1>3, <1>4, ConnectionTyped

Seen == [AsSeen!ClientNext]_(AsSeen!clientVars)

\* When the server lets go of the connection, the client may see that.
LEMMA ClosingSeen ==
  ASSUME ClientServerInv, AfterServer, UNCHANGED <<inbox, user[Connection]>>, ~ServerHolds',
         backlog' = <<>> \/ UNCHANGED <<backlog, sNum[Connection]>>
  PROVE  KeepsConnection /\ Seen
<1>1. KeepsConnection
  BY DEF KeepsConnection
<1> QED BY <1>1, SeenClosing DEF Seen, AsSeen!ClientNext, AsSeen!Server

\* The loop goes on without a handler.
LEMMA LoopSeen ==
  ASSUME ClientServerInv, AfterServer, UNCHANGED inbox,
         \/ \E wr : TheServer!ServerPoll(wr, {})
         \/ TheServer!ServerSkip
         \/ TheServer!ServerInterrupt
  PROVE  KeepsConnection /\ Seen
<1>1. /\ UNCHANGED <<sFds, sNum, sWbuf, backlog, recvq, sInbuf, user>>
      /\ sStatus \in {"loop"} /\ sStatus' \in {"loop", "stopped"}
  BY DEF TheServer!ServerPoll, TheServer!Poll, TheServer!Polling, TheServer!ServerSkip,
         TheServer!Skip, TheServer!Handling, TheServer!NextDescriptor,
         TheServer!ServerInterrupt, TheServer!Interrupt, TheServer!environmentVars,
         TheServer!sessionVars
<1>2. (ServerHolds' <=> ServerHolds) /\ KeepsConnection
  BY <1>1 DEF ServerHolds, KeepsConnection
<1> QED BY <1>1, <1>2, Unseen DEF Seen

\* accept4 gives the connection its number, and nothing else changes for it.
LEMMA AcceptSeen ==
  ASSUME ClientServerInv, AfterServer, UNCHANGED inbox, TheServer!AcceptConnection(Connection)
  PROVE  KeepsConnection /\ Seen
<1>1. /\ backlog # <<>> /\ backlog' = Tail(backlog) /\ sStatus' = sStatus
      /\ sStatus = "loop" /\ sFds' = Append(sFds, Connection)
      /\ sFds \in Seq({Listener, Connection})
      /\ UNCHANGED <<recvq, sInbuf, sWbuf>>
      /\ user' = [user EXCEPT ![Connection] = TheServer!NewSession]
      /\ \E n \in ServerFdNum : sNum' = [sNum EXCEPT ![Connection] = n]
  BY DEF TheServer!AcceptConnection, TheServer!Accepted, TheServer!AcceptFD,
         TheServer!HandlingEvent, TheServer!Handling, TheServer!NextDescriptor,
         TheServer!FreeNumbers, ClientServerInv, TheServer!ServerInv, TheServer!SelectorInv,
         TheServer!SelectorTypeOK
<1>2. backlog = <<Connection>> /\ user[Connection] = TheServer!NewSession
  BY <1>1 DEF ClientServerInv, ConnectionInv
<1>3. backlog' = <<>> /\ Range(<<Connection>>) = {Connection}
  <2>1. backlog' = <<>>
    BY <1>1, <1>2
  <2> QED BY <2>1, ShortSequences
<1>4. user'[Connection] = user[Connection] /\ sNum'[Connection] # -1
  BY <1>1, <1>2, ConnectionTyped, OnlyConnection
<1>5. Connection \in Range(sFds')
  <2>1. /\ Len(sFds') = Len(sFds) + 1 /\ sFds'[Len(sFds) + 1] = Connection
        /\ Len(sFds) \in Nat /\ sFds' \in Seq({Listener, Connection})
    BY <1>1, AppendProperties, LenProperties
  <2>2. DOMAIN sFds' = 1..(Len(sFds) + 1)
    BY <2>1, LenProperties
  <2>3. Len(sFds) + 1 \in DOMAIN sFds'
    BY <2>1, <2>2
  <2> QED BY <2>1, <2>3 DEF Range
<1>6. ServerHolds' /\ ServerHolds
  BY <1>1, <1>2, <1>3, <1>4 DEF ServerHolds
<1>7. KeepsConnection
  BY <1>3, <1>6 DEF KeepsConnection
<1> QED BY <1>1, <1>2, <1>3, <1>4, <1>5, <1>6, <1>7, Unseen DEF Seen

\* A refused connection is closed at once.
LEMMA RefuseSeen ==
  ASSUME ClientServerInv, AfterServer, UNCHANGED inbox, TheServer!RefuseConnection(Connection)
  PROVE  KeepsConnection /\ Seen
<1>1. backlog # <<>> /\ backlog' = Tail(backlog) /\ UNCHANGED <<sNum, user>>
  BY DEF TheServer!RefuseConnection, TheServer!Accepted, TheServer!AcceptNothing
<1>2. backlog = <<Connection>> /\ sNum[Connection] = -1
  BY <1>1 DEF ClientServerInv, ConnectionInv
<1>3. backlog' = <<>> /\ Range(<<>>) = {}
  BY <1>1, <1>2 DEF Range
<1>4. ~ServerHolds'
  BY <1>1, <1>2, <1>3 DEF ServerHolds
<1> QED BY <1>1, <1>3, <1>4, ClosingSeen

\* What the kernel had of the requests is in the buffer of the callback.
LEMMA ReadSeen ==
  ASSUME ClientServerInv, AfterServer, UNCHANGED inbox,
         NEW k \in 1..Len(recvq[Connection]), TheServer!ReadRequests(Connection, k)
  PROVE  KeepsConnection /\ Seen
<1>1. /\ UNCHANGED <<sFds, sNum, sWbuf, backlog, user>>
      /\ sStatus = "loop" /\ sStatus' = "callback"
      /\ sInbuf' = SubSeq(recvq[Connection], 1, k)
      /\ recvq' = [recvq EXCEPT ![Connection] = SubSeq(@, k + 1, Len(@))]
  BY DEF TheServer!ReadRequests, TheServer!StartCallback, TheServer!HandlingEvent,
         TheServer!Handling, TheServer!sessionVars
<1>2. (ServerHolds' <=> ServerHolds) /\ KeepsConnection
  BY <1>1 DEF ServerHolds, KeepsConnection
<1>3. recvq'[Connection] = SubSeq(recvq[Connection], k + 1, Len(recvq[Connection]))
  BY <1>1, ConnectionTyped
<1>4. sInbuf' \o recvq'[Connection] = recvq[Connection]
  <2>1. recvq[Connection] \in Seq(TheClient!Message) /\ k \in 0..Len(recvq[Connection])
    BY ConnectionTyped, LenProperties
  <2> QED BY <1>1, <1>3, <2>1, SplitJoin
<1>5. sInbuf \o recvq[Connection] = recvq[Connection]
  BY <1>1, AcceptedOnce, ConnectionTyped, ConcatEmptySeq
<1> QED BY <1>1, <1>2, <1>4, <1>5, Unseen DEF Seen

\* The server finds the connection closed or reset, or writes to it in vain.
LEMMA FailureSeen ==
  ASSUME ClientServerInv, AfterServer, UNCHANGED inbox,
         \/ TheServer!ConnectionLost(Connection)
         \/ TheServer!FlushFails(Connection)
         \/ TheServer!FlushKills(Connection)
         \/ TheServer!shutdown
  PROVE  KeepsConnection /\ Seen
<1>1. CASE TheServer!ConnectionLost(Connection) \/ TheServer!FlushFails(Connection)
  <2>1. TheServer!ReadFails(Connection) \/ TheServer!WriteFails(Connection)
    BY <1>1 DEF TheServer!ConnectionLost, TheServer!FlushFails
  <2>2. sNum[Connection] # -1 /\ sNum'[Connection] = -1
    <3>1. TheServer!SelectorInv
      BY DEF ClientServerInv, TheServer!ServerInv
    <3>2. sNum[Connection] # TheServer!NoFd /\ sNum'[Connection] = TheServer!NoFd
      BY <2>1, <3>1, ServerConstants, OnlyConnection, TheServer!FailureCloses
    <3> QED BY <3>2, OnlyConnection
  <2>3. backlog = <<>> /\ UNCHANGED <<backlog, user>>
    BY <1>1, <2>2, AcceptedOnce
      DEF TheServer!ConnectionLost, TheServer!FlushFails, TheServer!environmentVars
  <2>4. ~ServerHolds'
    BY <2>2, <2>3 DEF ServerHolds, Range
  <2> QED BY <2>3, <2>4, ClosingSeen
<1>2. CASE TheServer!FlushKills(Connection)
  <2>1. UNCHANGED <<backlog, sNum, user>> /\ sStatus' = "killed"
    BY <1>2 DEF TheServer!FlushKills, TheServer!WriteKills, TheServer!environmentVars,
                TheServer!sessionVars
  <2>2. ~ServerHolds'
    BY <2>1 DEF ServerHolds
  <2> QED BY <2>1, <2>2, ClosingSeen
<1>3. CASE TheServer!shutdown
  <2>1. /\ UNCHANGED <<backlog, user>> /\ sStatus' = "done"
        /\ sNum' = [d \in {Listener, Connection} |-> -1]
    BY <1>3, OnlyConnection
      DEF TheServer!shutdown, TheServer!ClearFDs, TheServer!environmentVars,
          TheServer!sessionVars
  <2>2. ~ServerHolds'
    BY <2>1 DEF ServerHolds
  <2>3. backlog' = <<>> \/ UNCHANGED <<backlog, sNum[Connection]>>
    BY <2>1, AcceptedOnce
  <2> QED BY <2>1, <2>2, <2>3, ClosingSeen
<1> QED BY <1>1, <1>2, <1>3

\* The callback returns: a connection it removed is closed only now.
LEMMA ReturnSeen ==
  ASSUME ClientServerInv, AfterServer, UNCHANGED inbox, TheServer!ReadDone
  PROVE  KeepsConnection /\ Seen
<1>1. /\ sStatus = "callback" /\ sStatus' = "loop" /\ sCurrent = Connection
      /\ UNCHANGED <<sFds, sWbuf, backlog, recvq, sInbuf, user>>
      /\ IF sCurrent \in TheServer!Registered THEN sNum' = sNum
           ELSE sNum' = [sNum EXCEPT ![sCurrent] = -1]
  BY AcceptedOnce, OnlyConnection
    DEF TheServer!ReadDone, TheServer!EndCallback, TheServer!Destroy,
        TheServer!environmentVars, TheServer!sessionVars
<1>2. sNum[Connection] # -1 /\ backlog = <<>>
  BY <1>1, AcceptedOnce
<1>3. CASE sCurrent \in TheServer!Registered
  <2>1. (ServerHolds' <=> ServerHolds) /\ KeepsConnection
    BY <1>1, <1>3 DEF ServerHolds, KeepsConnection
  <2> QED BY <1>1, <2>1, Unseen DEF Seen
<1>4. CASE sCurrent \notin TheServer!Registered
  <2>1. sNum'[Connection] = -1
    BY <1>1, <1>4, ConnectionTyped
  <2>2. ~ServerHolds'
    BY <1>1, <1>2, <2>1 DEF ServerHolds, Range
  <2> QED BY <1>1, <1>2, <2>2, ClosingSeen
<1> QED BY <1>3, <1>4

\* What the server writes arrives at the client.
LEMMA FlushSeen ==
  ASSUME ClientServerInv, AfterServer, ServerFlushes
  PROVE  KeepsConnection /\ Seen
<1> DEFINE q == sWbuf[Connection]
           k == Len(q)
<1>1. /\ k \in 1..k /\ UNCHANGED <<sFds, sNum, backlog, recvq, sInbuf, user, sStatus>>
      /\ sStatus = "loop"
      /\ TheServer!IsFD(Connection, TheServer!HeadFD)
      /\ sWbuf' = [sWbuf EXCEPT ![Connection] = SubSeq(@, k + 1, Len(@))]
      /\ inbox' = inbox \o q
  <2>1. k \in Nat
    BY ConnectionTyped, LenProperties
  <2> QED BY <2>1 DEF ServerFlushes, TheServer!Flush, TheServer!Write, TheServer!HandlingEvent,
         TheServer!Handling, TheServer!NextDescriptor, TheServer!environmentVars,
         TheServer!sessionVars
<1>2. Connection \in Range(sFds) /\ sNum[Connection] # -1
  <2>1. TheServer!SelectorInv
    BY DEF ClientServerInv, TheServer!ServerInv
  <2>2. Connection \in TheServer!Registered
    BY <1>1, <2>1, ServerConstants, OnlyConnection, TheServer!FoundRegistered
  <2> QED BY <2>2, AcceptedOnce, RegisteredHere
<1>3. ServerHolds /\ ServerHolds' /\ KeepsConnection
  BY <1>1, <1>2 DEF ServerHolds, KeepsConnection
<1>4. conn = "open" /\ conn' = "open" /\ net' = net /\ UNCHANGED programVars
  BY <1>3 DEF AfterServer, ClientServerInv, ConnectionInv
<1>5. SubSeq(q, 1, k) = q /\ sWbuf'[Connection] = SubSeq(q, k + 1, Len(q))
  BY <1>1, ConnectionTyped, SubSeqFull
<1>6. /\ UNCHANGED <<Known, Removed, Unhandled>> /\ ~Removed
      /\ Queued = q /\ Queued' = SubSeq(q, k + 1, Len(q))
  BY <1>1, <1>2, <1>4, <1>5 DEF Known, Removed, Unhandled, Queued
<1> HIDE DEF q
<1>7. AsSeen!ServerSends(k)
  BY <1>1, <1>4, <1>5, <1>6
    DEF programVars, AsSeen!ServerSends, AsSeen!selectorVars, AsSeen!terminalVars,
        AsSeen!inputVars
<1>8. k \in 1..Len(Queued)
  BY <1>1, <1>6
<1> QED BY <1>3, <1>7, <1>8 DEF Seen, AsSeen!ClientNext, AsSeen!Server

(***************************************************************************)
(* A request is handled.                                                   *)
(***************************************************************************)

\* A handler that answers as TCPClient describes, and stays or removes the
\* connection as described, is the server's handling of the oldest request.
LEMMA HandlesSeen ==
  ASSUME ClientServerInv, AfterServer, UNCHANGED inbox,
         sStatus = "callback", sInbuf # <<>>, sInbuf' = Tail(sInbuf),
         UNCHANGED <<backlog, recvq>>,
         NEW ms, NEW s, NEW g \in BOOLEAN,
         AsSeen!Outcome(ms, s, g) \in AsSeen!Answers(Head(sInbuf)),
         Known' = s,
         IF g THEN \E q : TheServer!CallbackRemove(q)
              ELSE TheServer!CallbackWrite(TheServer!HeadFD, ms)
  PROVE  KeepsConnection /\ Seen
<1> DEFINE M == TheClient!Message
           r == recvq[Connection]
<1>1. TheServer!SelectorInv /\ TheServer!QueuedRegistered
  BY DEF ClientServerInv, TheServer!ServerInv
<1>2. sCurrent = Connection /\ sNum[Connection] # -1 /\ backlog = <<>>
  BY AcceptedOnce
<1>3. /\ UNCHANGED <<sStatus, sNum>>
      /\ g => Connection \notin Range(sFds') /\ sWbuf'[Connection] = <<>>
      /\ ~g => /\ sFds' = sFds
               /\ sWbuf'[Connection] = IF Connection \in Range(sFds)
                                         THEN sWbuf[Connection] \o ms ELSE sWbuf[Connection]
  <2>1. CASE g
    <3>1. PICK q : TheServer!CallbackRemove(q)
      BY <2>1
    <3>2. /\ sCurrent \notin TheServer!Registered' /\ sNum' = sNum
          /\ TheServer!QueuedRegistered => sWbuf'[sCurrent] = <<>>
      BY <1>1, <3>1, ServerConstants, TheServer!RemovedGone
    <3>3. sStatus' = sStatus
      BY <3>1 DEF TheServer!CallbackRemove
    <3> QED BY <1>1, <1>2, <2>1, <3>2, <3>3, RegisteredHere
  <2>2. CASE ~g
    <3>1. TheServer!CallbackWrite(TheServer!HeadFD, ms)
      BY <2>2
    <3>2. sWbuf' = IF sCurrent \in TheServer!Registered
                     THEN [sWbuf EXCEPT ![sCurrent] = @ \o ms] ELSE sWbuf
      BY <1>1, <3>1, ServerConstants, TheServer!AnswerQueues
    <3>3. UNCHANGED <<sStatus, sNum, sFds>>
      BY <3>1 DEF TheServer!CallbackWrite
    <3> QED BY <1>2, <2>2, <3>2, <3>3, RegisteredHere, ConnectionTyped
  <2> QED BY <2>1, <2>2
<1>4. ServerHolds /\ ServerHolds' /\ KeepsConnection
  BY <1>2, <1>3 DEF ServerHolds, KeepsConnection
<1>5. conn = "open" /\ conn' = "open" /\ net' = net /\ UNCHANGED programVars
  BY <1>4 DEF AfterServer, ClientServerInv, ConnectionInv
<1>6. /\ Unhandled # <<>> /\ Head(Unhandled) = Head(sInbuf) /\ Unhandled' = Tail(Unhandled)
  <2>1. sInbuf \in Seq(M) /\ r \in Seq(M) /\ net \in Seq(M)
    BY ConnectionTyped
  <2>2. Unhandled = sInbuf \o r \o net /\ Unhandled' = sInbuf' \o r \o net
    BY <1>5 DEF Unhandled
  <2> HIDE DEF M, r
  <2>3. /\ sInbuf \o r \in Seq(M) /\ sInbuf \o r # <<>> /\ Head(sInbuf \o r) = Head(sInbuf)
        /\ Tail(sInbuf \o r) = Tail(sInbuf) \o r
    BY <2>1, FrontOfConcat, ConcatProperties
  <2>4. /\ sInbuf \o r \o net # <<>> /\ Head(sInbuf \o r \o net) = Head(sInbuf \o r)
        /\ Tail(sInbuf \o r \o net) = Tail(sInbuf \o r) \o net
    BY <2>1, <2>3, FrontOfConcat
  <2> QED BY <2>2, <2>3, <2>4
<1>7. Range(<<>>) = {}
  BY DEF Range
<1>8. Removed' <=> Removed \/ g
  BY <1>2, <1>3, <1>5, <1>7 DEF Removed
<1>9. Queued' = IF Removed' THEN <<>> ELSE Queued \o ms
  BY <1>2, <1>3, <1>5, <1>7, AcceptedOnce DEF Queued, Removed
<1> DEFINE a == AsSeen!Outcome(ms, s, g)
<1>10. a.queued = ms /\ a.srv = s /\ a.gone = g
  BY DEF AsSeen!Outcome
<1>11. (Removed \in BOOLEAN) /\ (Removed' \in BOOLEAN)
  BY DEF Removed
<1>12. /\ Known' = a.srv /\ Removed' = (Removed \/ a.gone)
       /\ Queued' = IF Removed' THEN <<>> ELSE Queued \o a.queued
  BY <1>8, <1>9, <1>10, <1>11
<1>13. a \in AsSeen!Answers(Head(Unhandled))
  BY <1>6
<1> HIDE DEF a
<1>14. AsSeen!ServerHandles
  BY <1>5, <1>6, <1>12, <1>13
    DEF programVars, AsSeen!ServerHandles, AsSeen!selectorVars, AsSeen!terminalVars,
        AsSeen!inputVars
<1> QED BY <1>4, <1>14 DEF Seen, AsSeen!ClientNext, AsSeen!Server

\* What a session says of its user.
LEMMA KnownIs ==
  ASSUME ClientServerInv
  PROVE  /\ ~user[Connection].usernameVerified <=> Known = "new"
         /\ user[Connection].usernameVerified /\ user[Connection].passwordVerified
              <=> Known = "verified"
         /\ Known \in {"new", "named", "verified"}
<1>1. user[Connection] \in TheServer!Session
  BY ConnectionTyped
<1> QED BY <1>1, ConnectionTyped DEF Known, TheServer!Session

\* The kinds of requests do not overlap.
LEMMA RequestKinds ==
  ASSUME NEW m \in TheClient!Message
  PROVE  /\ m.type \in TheServer!InfoType => m.type \in AsSeen!Range(AsSeen!InfoRequest)
         /\ m.type \in {"LOGIN_SET_USERNAME", "LOGIN_SET_PASSWORD", "LOGIN_AUTHENTICATE"}
              => m.type \notin AsSeen!Range(AsSeen!InfoRequest)
         /\ m.type \notin {"UNKNOWN", "DISPLAY_MESSAGE", "PART"}
<1>1. \A t \in AsSeen!Range(AsSeen!InfoRequest) :
        t \notin {"LOGIN_SET_USERNAME", "LOGIN_SET_PASSWORD", "LOGIN_AUTHENTICATE"}
  BY AsSeen!InfoNoLogin, ClientConstants
<1>2. AsSeen!Range(AsSeen!InfoRequest) = TheClient!Range(TheClient!InfoRequest)
  BY DEF AsSeen!Range, TheClient!Range, AsSeen!InfoRequest, TheClient!InfoRequest,
         AsSeen!InfoText, TheClient!InfoText
<1>3. m.type \in TheClient!Range(TheClient!InfoRequest)
        \/ m.type \in {"LOGIN_SET_USERNAME", "LOGIN_SET_PASSWORD", "LOGIN_AUTHENTICATE"}
  BY DEF TheClient!Message
<1>4. \A t \in TheClient!Range(TheClient!InfoRequest) : t \in TheServer!InfoType
  BY DEF TheClient!Range, TheClient!InfoRequest, TheClient!InfoText, TheServer!InfoType
<1> QED BY <1>1, <1>2, <1>3, <1>4 DEF TheServer!InfoType

\* The answers the client expects to a request, with the server's texts.
LEMMA AnswersExpected ==
  ASSUME NEW m \in TheClient!Message
  PROVE  /\ m.type \in TheServer!InfoType =>
              AsSeen!Outcome(<<TheServer!Display>>, Known, FALSE) \in AsSeen!Answers(m)
         /\ m.type = "LOGIN_SET_USERNAME" /\ Known # "new" =>
              AsSeen!Outcome(<<TheServer!Display>>, Known, FALSE) \in AsSeen!Answers(m)
         /\ m.type = "LOGIN_SET_USERNAME" /\ Known = "new" =>
              /\ AsSeen!Outcome(<<TheServer!Display, TheServer!UsernameResponse(TRUE)>>,
                                "named", FALSE) \in AsSeen!Answers(m)
              /\ AsSeen!Outcome(<<TheServer!UsernameResponse(FALSE)>>, Known, TRUE)
                   \in AsSeen!Answers(m)
         /\ m.type = "LOGIN_AUTHENTICATE" /\ Known # "new" =>
              /\ AsSeen!Outcome(<<TheServer!Display, TheServer!AuthenticateResponse(TRUE)>>,
                                "verified", FALSE) \in AsSeen!Answers(m)
              /\ \A g \in BOOLEAN :
                   AsSeen!Outcome(<<TheServer!Display, TheServer!AuthenticateResponse(FALSE)>>,
                                  Known, g) \in AsSeen!Answers(m)
         /\ m.type = "LOGIN_SET_PASSWORD" /\ Known = "verified" =>
              \A b \in BOOLEAN :
                AsSeen!Outcome(<<TheServer!Display, TheServer!PasswordResponse(b)>>,
                               Known, FALSE) \in AsSeen!Answers(m)
         /\ \/ m.type = "LOGIN_AUTHENTICATE" /\ Known = "new"
            \/ m.type = "LOGIN_SET_PASSWORD" /\ Known # "verified"
            => AsSeen!Outcome(<<TheServer!Display>>, Known, TRUE) \in AsSeen!Answers(m)
<1>1. /\ TheServer!Display = AsSeen!Display
      /\ \A b : /\ TheServer!UsernameResponse(b) = AsSeen!Response("LOGIN_SET_USERNAME_RESPONSE", b)
                /\ TheServer!PasswordResponse(b) = AsSeen!Response("LOGIN_SET_PASSWORD_RESPONSE", b)
                /\ TheServer!AuthenticateResponse(b)
                     = AsSeen!Response("LOGIN_AUTHENTICATE_RESPONSE", b)
  BY DEF TheServer!Display, AsSeen!Display, AsSeen!Response, TheServer!UsernameResponse,
         TheServer!PasswordResponse, TheServer!AuthenticateResponse
<1>2. /\ m.type \in TheServer!InfoType => m.type \in AsSeen!Range(AsSeen!InfoRequest)
      /\ m.type \in {"LOGIN_SET_USERNAME", "LOGIN_SET_PASSWORD", "LOGIN_AUTHENTICATE"}
           => m.type \notin AsSeen!Range(AsSeen!InfoRequest)
  BY RequestKinds
<1>3. CASE m.type \in TheServer!InfoType
  <2>1. AsSeen!Answers(m) = {AsSeen!Outcome(<<AsSeen!Display>>, Known, FALSE)}
    BY <1>2, <1>3 DEF AsSeen!Answers
  <2> QED BY <1>1, <1>3, <2>1 DEF TheServer!InfoType
<1>4. CASE m.type = "LOGIN_SET_USERNAME"
  BY <1>1, <1>2, <1>4 DEF AsSeen!Answers, TheServer!InfoType
<1>5. CASE m.type = "LOGIN_AUTHENTICATE" /\ Known # "new"
  <2>1. AsSeen!Answers(m) =
          {AsSeen!Outcome(<<AsSeen!Display,
             AsSeen!Response("LOGIN_AUTHENTICATE_RESPONSE", TRUE)>>, "verified", FALSE)}
            \cup {AsSeen!Outcome(<<AsSeen!Display,
               AsSeen!Response("LOGIN_AUTHENTICATE_RESPONSE", FALSE)>>, Known, g) :
                 g \in BOOLEAN}
    BY <1>2, <1>5 DEF AsSeen!Answers
  <2> QED BY <1>1, <1>5, <2>1 DEF TheServer!InfoType
<1>6. CASE m.type = "LOGIN_SET_PASSWORD" /\ Known = "verified"
  <2>1. AsSeen!Answers(m) =
          {AsSeen!Outcome(<<AsSeen!Display,
             AsSeen!Response("LOGIN_SET_PASSWORD_RESPONSE", b)>>, Known, FALSE) : b \in BOOLEAN}
    BY <1>2, <1>6 DEF AsSeen!Answers
  <2> QED BY <1>1, <1>6, <2>1 DEF TheServer!InfoType
<1>7. CASE \/ m.type = "LOGIN_AUTHENTICATE" /\ Known = "new"
           \/ m.type = "LOGIN_SET_PASSWORD" /\ Known # "verified"
  <2>1. AsSeen!Answers(m) = {AsSeen!Outcome(<<AsSeen!Display>>, Known, TRUE)}
    BY <1>2, <1>7 DEF AsSeen!Answers
  <2> QED BY <1>1, <1>7, <2>1 DEF TheServer!InfoType
<1> QED BY <1>3, <1>4, <1>5, <1>6, <1>7

\* Every request handler is one.
LEMMA OnReadSeen ==
  ASSUME ClientServerInv, AfterServer, UNCHANGED inbox, TheServer!onRead
  PROVE  KeepsConnection /\ Seen
<1> DEFINE m == Head(sInbuf)
           u == user[Connection]
<1>1. sStatus = "callback" => sCurrent = Connection /\ TheServer!Arg = m.arg
  BY AcceptedOnce DEF TheServer!Arg
<1>2. sInbuf # <<>> => m \in TheClient!Message
  BY ConnectionTyped, HeadTailProperties
<1>3. /\ ~u.usernameVerified <=> Known = "new"
      /\ u.usernameVerified /\ u.passwordVerified <=> Known = "verified"
      /\ user \in [{Connection} -> TheServer!Session]
  BY KnownIs, ConnectionTyped
<1>4. ASSUME NEW types, TheServer!Handles(types)
      PROVE  /\ sStatus = "callback" /\ sInbuf # <<>> /\ sInbuf' = Tail(sInbuf)
             /\ m \in TheClient!Message /\ m.type \in types /\ UNCHANGED <<backlog, recvq>>
  BY <1>2, <1>4 DEF TheServer!Handles, TheServer!environmentVars
<1>5. /\ user' = user => Known' = Known
      /\ u.passwordVerified \in BOOLEAN /\ u.usernameVerified \in BOOLEAN
      /\ u.passwordVerified => u.usernameVerified
  BY <1>3, ConnectionTyped DEF Known, TheServer!Session
<1>6. CASE TheServer!onReadInfoRequest
  <2>1. /\ TheServer!Handles(TheServer!InfoType) /\ user' = user
        /\ TheServer!CallbackWrite(TheServer!HeadFD, <<TheServer!Display>>)
    BY <1>6 DEF TheServer!onReadInfoRequest, TheServer!Answer
  <2>2. AsSeen!Outcome(<<TheServer!Display>>, Known, FALSE) \in AsSeen!Answers(m)
    BY <1>4, <2>1, AnswersExpected
  <2> HIDE DEF m, u
  <2> QED BY <1>4, <1>5, <2>1, <2>2, HandlesSeen DEF m
<1>7. CASE TheServer!onReadUnknown \/ TheServer!onReadDisplayMessage \/ TheServer!PartKept
  <2>1. sInbuf # <<>> /\ m.type \in {"UNKNOWN", "DISPLAY_MESSAGE", "PART"}
    BY <1>7 DEF TheServer!onReadUnknown, TheServer!onReadDisplayMessage, TheServer!PartKept,
                TheServer!Handles
  <2> QED BY <1>2, <2>1, RequestKinds
<1>8. CASE TheServer!onReadLoginSetUsername
  <2>1. TheServer!Handles({"LOGIN_SET_USERNAME"}) /\ sCurrent = Connection
    BY <1>1, <1>8 DEF TheServer!onReadLoginSetUsername, TheServer!Handles
  <2>2. CASE TheServer!AlreadyNamed /\ TheServer!Answer(<<TheServer!Display>>, <<>>) /\ user' = user
    <3>1. AsSeen!Outcome(<<TheServer!Display>>, Known, FALSE) \in AsSeen!Answers(m)
      BY <1>3, <1>4, <2>1, <2>2, AnswersExpected DEF TheServer!AlreadyNamed
    <3> HIDE DEF m, u
    <3> QED BY <1>4, <1>5, <2>1, <2>2, <3>1, HandlesSeen DEF m, TheServer!Answer
  <2>3. CASE /\ ~TheServer!AlreadyNamed
             /\ user' = [user EXCEPT ![sCurrent].username = TheServer!Arg,
                                     ![sCurrent].usernameVerified = TRUE]
             /\ TheServer!Answer(<<TheServer!Display, TheServer!UsernameResponse(TRUE)>>, <<>>)
    <3>1. ~u.usernameVerified /\ ~u.passwordVerified
      BY <1>5, <2>1, <2>3 DEF TheServer!AlreadyNamed
    <3>2. AsSeen!Outcome(<<TheServer!Display, TheServer!UsernameResponse(TRUE)>>, "named", FALSE)
            \in AsSeen!Answers(m)
      BY <1>3, <1>4, <2>1, <3>1, AnswersExpected
    <3>3. /\ user'[Connection].usernameVerified = TRUE
          /\ user'[Connection].passwordVerified = u.passwordVerified
      BY <1>3, <2>1, <2>3 DEF TheServer!Session
    <3>4. Known' = "named"
      BY <3>1, <3>3 DEF Known
    <3> HIDE DEF m, u
    <3> QED BY <1>4, <2>1, <2>3, <3>2, <3>4, HandlesSeen DEF m, TheServer!Answer
  <2>4. CASE /\ ~TheServer!AlreadyNamed /\ user' = user
             /\ \E rows : TheServer!AnswerAndRemove(<<TheServer!UsernameResponse(FALSE)>>, rows)
    <3>1. AsSeen!Outcome(<<TheServer!UsernameResponse(FALSE)>>, Known, TRUE) \in AsSeen!Answers(m)
      BY <1>3, <1>4, <2>1, <2>4, AnswersExpected DEF TheServer!AlreadyNamed
    <3> HIDE DEF m, u
    <3> QED BY <1>4, <1>5, <2>1, <2>4, <3>1, HandlesSeen DEF m, TheServer!AnswerAndRemove
  <2> QED BY <1>8, <2>2, <2>3, <2>4 DEF TheServer!onReadLoginSetUsername
<1>9. CASE TheServer!onReadLoginSetPassword
  <2>1. /\ TheServer!Handles({"LOGIN_SET_PASSWORD"}) /\ sCurrent = Connection /\ user' = user
    BY <1>1, <1>9 DEF TheServer!onReadLoginSetPassword, TheServer!Handles
  <2>2. CASE /\ ~(u.usernameVerified /\ u.passwordVerified)
             /\ TheServer!AnswerAndRemove(<<TheServer!Display>>, <<>>)
    <3>1. AsSeen!Outcome(<<TheServer!Display>>, Known, TRUE) \in AsSeen!Answers(m)
      BY <1>3, <1>4, <2>1, <2>2, AnswersExpected
    <3> HIDE DEF m, u
    <3> QED BY <1>4, <1>5, <2>1, <2>2, <3>1, HandlesSeen DEF m, TheServer!AnswerAndRemove
  <2>3. ASSUME u.usernameVerified /\ u.passwordVerified, NEW b \in BOOLEAN,
               TheServer!Answer(<<TheServer!Display, TheServer!PasswordResponse(b)>>, <<>>)
        PROVE  KeepsConnection /\ Seen
    <3>1. m \in TheClient!Message /\ m.type = "LOGIN_SET_PASSWORD" /\ Known = "verified"
      BY <1>3, <1>4, <2>1, <2>3
    <3>2. \A d \in BOOLEAN :
            AsSeen!Outcome(<<TheServer!Display, TheServer!PasswordResponse(d)>>, Known, FALSE)
              \in AsSeen!Answers(m)
      BY <3>1, AnswersExpected
    <3>3. AsSeen!Outcome(<<TheServer!Display, TheServer!PasswordResponse(b)>>, Known, FALSE)
            \in AsSeen!Answers(m)
      BY <3>2
    <3> HIDE DEF m, u
    <3> QED BY <1>4, <1>5, <2>1, <2>3, <3>3, HandlesSeen DEF m, TheServer!Answer
  <2> QED BY <1>9, <2>1, <2>2, <2>3 DEF TheServer!onReadLoginSetPassword
<1>10. CASE TheServer!onReadLoginAuthenticate
  <2>1. TheServer!Handles({"LOGIN_AUTHENTICATE"}) /\ sCurrent = Connection
    BY <1>1, <1>10 DEF TheServer!onReadLoginAuthenticate, TheServer!Handles
  <2>2. CASE /\ ~u.usernameVerified /\ user' = user
             /\ TheServer!AnswerAndRemove(<<TheServer!Display>>, <<>>)
    <3>1. AsSeen!Outcome(<<TheServer!Display>>, Known, TRUE) \in AsSeen!Answers(m)
      BY <1>3, <1>4, <2>1, <2>2, AnswersExpected
    <3> HIDE DEF m, u
    <3> QED BY <1>4, <1>5, <2>1, <2>2, <3>1, HandlesSeen DEF m, TheServer!AnswerAndRemove
  <2> DEFINE wrong == <<TheServer!Display, TheServer!AuthenticateResponse(FALSE)>>
  <2>3. ASSUME u.usernameVerified, Known' = Known, NEW g \in BOOLEAN,
               IF g THEN \E q : TheServer!CallbackRemove(q)
                    ELSE TheServer!CallbackWrite(TheServer!HeadFD, wrong)
        PROVE  KeepsConnection /\ Seen
    <3>1. m \in TheClient!Message /\ m.type = "LOGIN_AUTHENTICATE" /\ Known # "new"
      BY <1>3, <1>4, <2>1, <2>3
    <3>2. \A d \in BOOLEAN : AsSeen!Outcome(wrong, Known, d) \in AsSeen!Answers(m)
      BY <3>1, AnswersExpected
    <3>3. AsSeen!Outcome(wrong, Known, g) \in AsSeen!Answers(m)
      BY <3>2
    <3> HIDE DEF m, u, wrong
    <3> QED BY <1>4, <2>1, <2>3, <3>3, HandlesSeen DEF m
  <2>4. CASE u.usernameVerified /\ user' = user /\ TheServer!AnswerAndRemove(wrong, <<>>)
    BY <1>5, <2>3, <2>4 DEF TheServer!AnswerAndRemove
  <2>5. CASE u.usernameVerified /\ TheServer!RightPassword
    <3>1. AsSeen!Outcome(<<TheServer!Display, TheServer!AuthenticateResponse(TRUE)>>,
                         "verified", FALSE) \in AsSeen!Answers(m)
      BY <1>3, <1>4, <2>1, <2>5, AnswersExpected
    <3>2. user' = [user EXCEPT ![Connection].passwordAttempts = @ + 1,
                               ![Connection].passwordVerified = TRUE]
      BY <2>1, <2>5 DEF TheServer!RightPassword
    <3>3. user'[Connection].passwordVerified = TRUE
      BY <1>3, <3>2 DEF TheServer!Session
    <3>4. Known' = "verified"
      BY <3>3 DEF Known
    <3> HIDE DEF m, u
    <3> QED BY <1>4, <2>1, <2>5, <3>1, <3>4, HandlesSeen
            DEF m, TheServer!RightPassword, TheServer!Answer
  <2>6. CASE u.usernameVerified /\ TheServer!WrongPassword
    <3>1. PICK n : user' = [user EXCEPT ![Connection].passwordAttempts = n]
      BY <2>1, <2>6 DEF TheServer!WrongPassword
    <3>2. /\ user'[Connection].passwordVerified = u.passwordVerified
          /\ user'[Connection].usernameVerified = u.usernameVerified
      BY <1>3, <3>1 DEF TheServer!Session
    <3>3. Known' = Known
      BY <3>2 DEF Known
    <3>4. \/ \E q : TheServer!CallbackRemove(q)
          \/ TheServer!CallbackWrite(TheServer!HeadFD, wrong)
      BY <2>6 DEF TheServer!WrongPassword, TheServer!AnswerAndRemove, TheServer!Answer
    <3> QED BY <2>3, <2>6, <3>3, <3>4
  <2> QED BY <1>10, <2>1, <2>2, <2>4, <2>5, <2>6 DEF TheServer!onReadLoginAuthenticate
<1> QED BY <1>6, <1>7, <1>8, <1>9, <1>10, ReturnSeen DEF TheServer!onRead

\* What the server does is one of the steps TCPServer describes, and for the
\* client one of those TCPClient describes.
LEMMA ServerActsSeen ==
  ASSUME ClientServerInv, ServerActs, UNCHANGED inbox, AfterServer
  PROVE  TheServer!ServerNext /\ KeepsConnection /\ Seen
<1>1. Connection \in TheServer!Conn
  BY OnlyConnection
<1>2. ASSUME NEW wr, TheServer!ServerPoll(wr, {})
      PROVE  TheServer!ServerNext
  <2>1. wr \subseteq {sNum[d] : d \in {e \in TheServer!Registered : sWbuf[e] # <<>>}}
    BY <1>2 DEF TheServer!ServerPoll, TheServer!Poll
  <2>2. wr \in SUBSET TheServer!RegisteredNumbers
    BY <2>1 DEF TheServer!RegisteredNumbers
  <2> QED BY <1>2, <2>2 DEF TheServer!ServerNext
<1>3. CASE \/ \E wr : TheServer!ServerPoll(wr, {})
           \/ TheServer!ServerSkip
  BY <1>2, <1>3, LoopSeen DEF TheServer!ServerNext, TheServer!Pass
<1>4. CASE TheServer!AcceptConnection(Connection)
  BY <1>1, <1>4, AcceptSeen DEF TheServer!ServerNext, TheServer!Pass
<1>5. CASE TheServer!RefuseConnection(Connection)
  BY <1>1, <1>5, RefuseSeen DEF TheServer!ServerNext, TheServer!Pass
<1>6. CASE \E k \in 1..Len(recvq[Connection]) : TheServer!ReadRequests(Connection, k)
  BY <1>1, <1>6, ReadSeen DEF TheServer!ServerNext, TheServer!Pass
<1>7. CASE \/ TheServer!ConnectionLost(Connection)
           \/ TheServer!FlushFails(Connection)
           \/ TheServer!FlushKills(Connection)
           \/ TheServer!shutdown
  BY <1>1, <1>7, FailureSeen DEF TheServer!ServerNext, TheServer!Pass
<1>8. CASE TheServer!onRead
  BY <1>8, OnReadSeen DEF TheServer!ServerNext
<1> QED BY <1>3, <1>4, <1>5, <1>6, <1>7, <1>8 DEF ServerActs

\* The same of everything the server does, with the connection's part of the
\* invariant.
LEMMA ServerSeen ==
  ASSUME ClientServerInv, ServerRuns \/ ServerInterrupted
  PROVE  TheServer!ServerNext /\ ConnectionInv' /\ Seen
<1>1. CASE ServerActs /\ UNCHANGED inbox /\ AfterServer
  BY <1>1, ServerActsSeen, ConnectionKept
<1>2. CASE ServerFlushes /\ AfterServer
  <2>1. Len(sWbuf[Connection]) \in 1..Len(sWbuf[Connection])
    <3>1. Len(sWbuf[Connection]) \in Nat
      BY ConnectionTyped, LenProperties
    <3> QED BY <1>2, <3>1 DEF ServerFlushes, TheServer!Flush
  <2>2. TheServer!ServerNext
    BY <1>2, <2>1, OnlyConnection DEF ServerFlushes, TheServer!ServerNext, TheServer!Pass
  <2> QED BY <1>2, <2>2, FlushSeen, ConnectionKept
<1>3. CASE ServerInterrupted
  <2>1. TheServer!ServerInterrupt /\ UNCHANGED inbox /\ AfterServer
    BY <1>3 DEF ServerInterrupted
  <2> QED BY <2>1, LoopSeen, ConnectionKept DEF TheServer!ServerNext
<1> QED BY <1>1, <1>2, <1>3 DEF ServerRuns

(***************************************************************************)
(* The network, and the end of the client.                                 *)
(***************************************************************************)

\* A request that arrives is still one the server has not handled.
LEMMA ArrivesSeen ==
  ASSUME ClientServerInv, Arrives
  PROVE  TheServer!ServerNext /\ ConnectionInv' /\ Seen
<1> DEFINE M == TheClient!Message
           r == recvq[Connection]
<1>1. /\ net # <<>> /\ net' = Tail(net) /\ TheServer!Send(Connection, Head(net))
      /\ UNCHANGED <<programVars, conn, inbox>>
  BY DEF Arrives
<1>2. /\ UNCHANGED <<sFds, sNum, sWbuf, sStatus, backlog, sInbuf, user>>
      /\ recvq' = [recvq EXCEPT ![Connection] = Append(@, Head(net))]
  BY <1>1 DEF TheServer!Send, TheServer!selectorVars, TheServer!sessionVars
<1>3. /\ Head(net) \in M /\ Tail(net) \in Seq(M) /\ recvq'[Connection] = Append(r, Head(net))
      /\ sInbuf \in Seq(M) /\ r \in Seq(M) /\ net \in Seq(M)
  BY <1>1, <1>2, ConnectionTyped, HeadTailProperties
<1>4. conn = "open"
  BY <1>1, ConnectionTyped DEF ClientServerInv, ConnectionInv
<1>5. TheServer!ServerNext
  <2>1. Head(net) # TheServer!Part
    BY <1>3, RequestKinds DEF TheServer!Part
  <2> QED BY <1>1, <1>3, <2>1, OnlyConnection DEF TheServer!ServerNext, TheServer!Environment
<1>6. ConnectionInv'
  <2>1. ServerHolds' <=> ServerHolds
    BY <1>2 DEF ServerHolds
  <2>2. TheServer!NewSession' = TheServer!NewSession
    BY DEF TheServer!NewSession
  <2> QED BY <1>1, <1>2, <1>3, <1>4, <2>1, <2>2 DEF ClientServerInv, ConnectionInv
<1>7. Unhandled' = Unhandled
  <2>1. Unhandled = (sInbuf \o r) \o net /\ Unhandled' = (sInbuf \o recvq'[Connection]) \o net'
    BY <1>1, <1>2, <1>4 DEF Unhandled
  <2> HIDE DEF M, r
  <2> DEFINE a == Append(r, Head(net))
             t == Tail(net)
  <2>2. a \o t = r \o net
    BY <1>1, <1>3, HeadMoves
  <2>3. (sInbuf \o r) \o net = sInbuf \o (r \o net)
    BY <1>3, ConcatAssociative, SMTT(30)
  <2>4. a \in Seq(M) /\ t \in Seq(M)
    BY <1>3, AppendProperties
  <2>5. Unhandled' = (sInbuf \o a) \o t
    BY <1>1, <1>3, <2>1
  <2> HIDE DEF a, t
  <2>6. (sInbuf \o a) \o t = sInbuf \o (a \o t)
    BY <1>3, <2>4, ConcatAssociative, SMTT(30)
  <2> QED BY <2>1, <2>2, <2>3, <2>5, <2>6
<1>8. UNCHANGED <<Known, Removed, Queued>>
  BY <1>1, <1>2 DEF Known, Removed, Queued
<1> QED BY <1>1, <1>5, <1>6, <1>7, <1>8
        DEF Seen, programVars, AsSeen!clientVars, AsSeen!selectorVars, AsSeen!terminalVars,
            AsSeen!networkVars, AsSeen!serverEnd, AsSeen!inputVars

\* The end of the stream is nothing the client sees.
LEMMA GoneSeen ==
  ASSUME ClientServerInv, ClientGone
  PROVE  TheServer!ServerNext /\ ConnectionInv' /\ Seen
<1>1. TheServer!Close(Connection) /\ UNCHANGED <<programVars, conn, inbox, net>>
  BY DEF ClientGone
<1>2. UNCHANGED <<sFds, sNum, sWbuf, sStatus, backlog, recvq, sInbuf, user>>
  BY <1>1 DEF TheServer!Close, TheServer!selectorVars, TheServer!sessionVars
<1>3. TheServer!ServerNext
  BY <1>1, OnlyConnection DEF TheServer!ServerNext, TheServer!Environment
<1>4. ConnectionInv'
  BY <1>1, <1>2 DEF ClientServerInv, ConnectionInv, ServerHolds, TheServer!NewSession
<1>5. UNCHANGED <<Known, Removed, Queued, Unhandled>>
  BY <1>1, <1>2 DEF Known, Removed, Queued, Unhandled
<1> QED BY <1>1, <1>3, <1>4, <1>5
        DEF Seen, programVars, AsSeen!clientVars, AsSeen!selectorVars, AsSeen!terminalVars,
            AsSeen!networkVars, AsSeen!serverEnd, AsSeen!inputVars

\* Nothing happens.
LEMMA StutterSeen ==
  ASSUME ClientServerInv, UNCHANGED vars
  PROVE  UNCHANGED TheServer!serverVars /\ ConnectionInv' /\ Seen
<1>1. UNCHANGED <<programVars, conn, inbox, net>> /\ UNCHANGED serverVars
  BY DEF vars
<1>2. UNCHANGED TheServer!serverVars
  BY <1>1 DEF serverVars, TheServer!serverVars, TheServer!selectorVars,
              TheServer!environmentVars, TheServer!sessionVars
<1>3. ConnectionInv'
  BY <1>1 DEF serverVars, ClientServerInv, ConnectionInv, ServerHolds, TheServer!NewSession
<1>4. UNCHANGED <<Known, Removed, Queued, Unhandled>>
  BY <1>1 DEF serverVars, Known, Removed, Queued, Unhandled
<1> QED BY <1>1, <1>2, <1>3, <1>4
        DEF Seen, programVars, AsSeen!clientVars, AsSeen!selectorVars, AsSeen!terminalVars,
            AsSeen!networkVars, AsSeen!serverEnd, AsSeen!inputVars

(***************************************************************************)
(* A step of the client.                                                   *)
(***************************************************************************)

\* The select loop of the client is the same, whatever is at the other end.
LEMMA SameLoop ==
  /\ \A rd, wr, ex : TheClient!Poll(rd, wr, ex) <=> AsSeen!Poll(rd, wr, ex)
  /\ TheClient!Skip <=> AsSeen!Skip
  /\ \A d : TheClient!StartCallback(d) <=> AsSeen!StartCallback(d)
  /\ \A d : TheClient!ReadFails(d) <=> AsSeen!ReadFails(d)
  /\ \A d, k : TheClient!Write(d, k) <=> AsSeen!Write(d, k)
  /\ \A d : TheClient!WriteFails(d) <=> AsSeen!WriteFails(d)
  /\ \A d : TheClient!WriteKills(d) <=> AsSeen!WriteKills(d)
  /\ \A n, ms : TheClient!CallbackWrite(n, ms) <=> AsSeen!CallbackWrite(n, ms)
  /\ TheClient!CallbackStop <=> AsSeen!CallbackStop
  /\ TheClient!EndCallback <=> AsSeen!EndCallback
  /\ TheClient!Interrupt <=> AsSeen!Interrupt
  /\ TheClient!LoopEnds <=> AsSeen!LoopEnds
  /\ TheClient!ClearFDs <=> AsSeen!ClearFDs
<1>1. /\ TheClient!HeadFD = AsSeen!HeadFD /\ TheClient!NoFd = AsSeen!NoFd
      /\ TheClient!Handling <=> AsSeen!Handling
      /\ TheClient!Polling <=> AsSeen!Polling
      /\ TheClient!NextDescriptor <=> AsSeen!NextDescriptor
      /\ \A e : TheClient!HandlingEvent(e) <=> AsSeen!HandlingEvent(e)
  BY DEF TheClient!HeadFD, AsSeen!HeadFD, TheClient!NoFd, AsSeen!NoFd, TheClient!Handling,
         AsSeen!Handling, TheClient!Polling, AsSeen!Polling, TheClient!NextDescriptor,
         AsSeen!NextDescriptor, TheClient!HandlingEvent, AsSeen!HandlingEvent
<1>2. /\ TheClient!Registered = AsSeen!Registered
      /\ TheClient!RegisteredNumbers = AsSeen!RegisteredNumbers
  BY DEF TheClient!RegisteredNumbers, AsSeen!RegisteredNumbers, TheClient!Registered,
         AsSeen!Registered, TheClient!Range, AsSeen!Range
<1>3. /\ \A i, n : TheClient!IsFirst(i, n) <=> AsSeen!IsFirst(i, n)
      /\ \A d, n : TheClient!IsFD(d, n) <=> AsSeen!IsFD(d, n)
      /\ \A n : TheClient!Found(n) <=> AsSeen!Found(n)
  BY DEF TheClient!IsFirst, AsSeen!IsFirst, TheClient!IsFD, AsSeen!IsFD, TheClient!Found,
         AsSeen!Found
<1>4. /\ \A n, rd, wr, ex : TheClient!EventOf(n, rd, wr, ex) = AsSeen!EventOf(n, rd, wr, ex)
      /\ \A n, ms : TheClient!WriteToFD(n, ms) = AsSeen!WriteToFD(n, ms)
  BY <1>3 DEF TheClient!EventOf, AsSeen!EventOf, TheClient!WriteToFD, AsSeen!WriteToFD
<1>5. /\ \A d : TheClient!Destroy(d) <=> AsSeen!Destroy(d)
      /\ \A n, w : TheClient!RemoveFD(n, w) <=> AsSeen!RemoveFD(n, w)
  BY <1>1, <1>3 DEF TheClient!Destroy, AsSeen!Destroy, TheClient!RemoveFD, AsSeen!RemoveFD,
         TheClient!RemoveAt, AsSeen!RemoveAt
<1>6. \A rd, wr, ex : TheClient!Poll(rd, wr, ex) <=> AsSeen!Poll(rd, wr, ex)
  BY <1>1, <1>2, <1>3, <1>4, <1>5 DEF TheClient!Poll, AsSeen!Poll
<1>7. TheClient!Skip <=> AsSeen!Skip
  BY <1>1, <1>2, <1>3, <1>4, <1>5 DEF TheClient!Skip, AsSeen!Skip
<1>8. \A d : TheClient!StartCallback(d) <=> AsSeen!StartCallback(d)
  BY <1>1, <1>2, <1>3, <1>4, <1>5 DEF TheClient!StartCallback, AsSeen!StartCallback
<1>9. \A d : TheClient!ReadFails(d) <=> AsSeen!ReadFails(d)
  BY <1>1, <1>2, <1>3, <1>4, <1>5 DEF TheClient!ReadFails, AsSeen!ReadFails
<1>10. \A d, k : TheClient!Write(d, k) <=> AsSeen!Write(d, k)
  BY <1>1, <1>2, <1>3, <1>4, <1>5 DEF TheClient!Write, AsSeen!Write
<1>11. \A d : TheClient!WriteFails(d) <=> AsSeen!WriteFails(d)
  BY <1>1, <1>2, <1>3, <1>4, <1>5 DEF TheClient!WriteFails, AsSeen!WriteFails
<1>12. \A d : TheClient!WriteKills(d) <=> AsSeen!WriteKills(d)
  BY <1>1, <1>2, <1>3, <1>4, <1>5 DEF TheClient!WriteKills, AsSeen!WriteKills
<1>13. \A n, ms : TheClient!CallbackWrite(n, ms) <=> AsSeen!CallbackWrite(n, ms)
  BY <1>1, <1>2, <1>3, <1>4, <1>5 DEF TheClient!CallbackWrite, AsSeen!CallbackWrite
<1>14. TheClient!CallbackStop <=> AsSeen!CallbackStop
  BY <1>1, <1>2, <1>3, <1>4, <1>5 DEF TheClient!CallbackStop, AsSeen!CallbackStop
<1>15. TheClient!EndCallback <=> AsSeen!EndCallback
  BY <1>1, <1>2, <1>3, <1>4, <1>5 DEF TheClient!EndCallback, AsSeen!EndCallback
<1>16. TheClient!Interrupt <=> AsSeen!Interrupt
  BY <1>1, <1>2, <1>3, <1>4, <1>5 DEF TheClient!Interrupt, AsSeen!Interrupt
<1>17. TheClient!LoopEnds <=> AsSeen!LoopEnds
  BY <1>1, <1>2, <1>3, <1>4, <1>5 DEF TheClient!LoopEnds, AsSeen!LoopEnds
<1>18. TheClient!ClearFDs <=> AsSeen!ClearFDs
  BY <1>1, <1>2, <1>3, <1>4, <1>5 DEF TheClient!ClearFDs, AsSeen!ClearFDs
<1> QED BY <1>6, <1>7, <1>8, <1>9, <1>10, <1>11, <1>12, <1>13, <1>14, <1>15, <1>16, <1>17, <1>18

\* Nothing of the server changes, and if nothing is sent, nothing of what the
\* client can see of it.
LEMMA IdleSeen ==
  ASSUME ClientServerInv, ServerIdle
  PROVE  /\ UNCHANGED TheServer!serverVars /\ UNCHANGED AsSeen!serverEnd
         /\ TheClient!networkVars' = TheClient!networkVars =>
              AsSeen!networkVars' = AsSeen!networkVars /\ net' = net
         /\ net' \in Seq(TheClient!Message) /\ (conn = "closed" => net' = <<>>) => ConnectionInv'
         /\ net' = net => ConnectionInv'
<1>1. UNCHANGED serverVars /\ conn' = conn
  BY DEF ServerIdle
<1>2. UNCHANGED TheServer!serverVars
  BY <1>1 DEF serverVars, TheServer!serverVars, TheServer!selectorVars,
              TheServer!environmentVars, TheServer!sessionVars
<1>3. UNCHANGED <<conn, Known, Removed, Queued>>
  BY <1>1 DEF serverVars, Known, Removed, Queued
<1>4. UNCHANGED AsSeen!serverEnd
  BY <1>3 DEF AsSeen!serverEnd
<1>5. ASSUME TheClient!networkVars' = TheClient!networkVars
      PROVE  AsSeen!networkVars' = AsSeen!networkVars /\ net' = net
  <2>1. net' = net /\ inbox' = inbox
    BY <1>5 DEF TheClient!networkVars
  <2>2. Unhandled' = Unhandled
    BY <1>1, <2>1 DEF serverVars, Unhandled
  <2> QED BY <1>4, <2>1, <2>2 DEF AsSeen!networkVars
<1>6. net' \in Seq(TheClient!Message) /\ (conn = "closed" => net' = <<>>) => ConnectionInv'
  BY <1>1 DEF serverVars, ClientServerInv, ConnectionInv, ServerHolds, TheServer!NewSession
<1>7. net' = net => ConnectionInv'
  BY <1>6 DEF ClientServerInv, ConnectionInv
<1> QED BY <1>2, <1>4, <1>5, <1>6, <1>7

\* What the handlers of the client are made of.
LEMMA SameHandlers ==
  ASSUME ClientServerInv, ServerIdle
  PROVE  /\ \A d : TheClient!Takes(d) => AsSeen!Takes(d) /\ net' = net
         /\ \A t : TheClient!Received(t) => AsSeen!Received(t) /\ net' = net
         /\ \A s : TheClient!Entered(s) => AsSeen!Entered(s) /\ net' = net
         /\ \A b : TheClient!setFDEcho(b) <=> AsSeen!setFDEcho(b)
         /\ \A t, a : TheClient!SendMessage(t, a) <=> AsSeen!SendMessage(t, a)
         /\ \A t : TheClient!SendPassword(t) <=> AsSeen!SendPassword(t)
         /\ TheClient!AskPassword <=> AsSeen!AskPassword
         /\ TheClient!selectorVars = AsSeen!selectorVars
         /\ TheClient!selectorVars' = AsSeen!selectorVars'
         /\ TheClient!inputVars = AsSeen!inputVars /\ TheClient!inputVars' = AsSeen!inputVars'
         /\ TheClient!InfoRequest = AsSeen!InfoRequest /\ TheClient!InfoText = AsSeen!InfoText
         /\ TheClient!Input = AsSeen!Input
         /\ TheClient!NothingStored = AsSeen!NothingStored
<1>1. /\ TheClient!selectorVars = AsSeen!selectorVars
      /\ TheClient!selectorVars' = AsSeen!selectorVars'
      /\ TheClient!inputVars = AsSeen!inputVars /\ TheClient!inputVars' = AsSeen!inputVars'
      /\ TheClient!InfoRequest = AsSeen!InfoRequest /\ TheClient!InfoText = AsSeen!InfoText
      /\ TheClient!Input = AsSeen!Input
      /\ TheClient!NothingStored = AsSeen!NothingStored
  BY DEF TheClient!selectorVars, AsSeen!selectorVars, TheClient!inputVars, AsSeen!inputVars,
         TheClient!InfoRequest, AsSeen!InfoRequest, TheClient!InfoText, AsSeen!InfoText,
         TheClient!Input, AsSeen!Input, TheClient!NothingStored, AsSeen!NothingStored
<1>2. ASSUME NEW d, TheClient!Takes(d) PROVE AsSeen!Takes(d) /\ net' = net
  BY <1>2, IdleSeen DEF TheClient!Takes, AsSeen!Takes
<1>3. ASSUME NEW t, TheClient!Received(t) PROVE AsSeen!Received(t) /\ net' = net
  BY <1>2, <1>3 DEF TheClient!Received, AsSeen!Received
<1>4. ASSUME NEW s, TheClient!Entered(s) PROVE AsSeen!Entered(s) /\ net' = net
  BY <1>2, <1>4 DEF TheClient!Entered, AsSeen!Entered
<1>5. \A b : TheClient!setFDEcho(b) <=> AsSeen!setFDEcho(b)
  BY DEF TheClient!setFDEcho, AsSeen!setFDEcho
<1>6. \A t, a : TheClient!SendMessage(t, a) <=> AsSeen!SendMessage(t, a)
  BY SameLoop DEF TheClient!SendMessage, AsSeen!SendMessage
<1>7. \A t : TheClient!SendPassword(t) <=> AsSeen!SendPassword(t)
  BY <1>1, <1>6 DEF TheClient!SendPassword, AsSeen!SendPassword
<1>8. TheClient!AskPassword <=> AsSeen!AskPassword
  BY <1>1, <1>5 DEF TheClient!AskPassword, AsSeen!AskPassword
<1> QED BY <1>1, <1>2, <1>3, <1>4, <1>5, <1>6, <1>7, <1>8

\* Every handler of the client, and its return.
LEMMA HandlersSame ==
  ASSUME ClientServerInv, ServerIdle, TheClient!onRead
  PROVE  AsSeen!onRead /\ net' = net
<1>1. TheClient!onReadDisplayMessage => AsSeen!onReadDisplayMessage /\ net' = net
  BY SameHandlers DEF TheClient!onReadDisplayMessage, AsSeen!onReadDisplayMessage
<1>2. TheClient!onReadLoginSetUsernameResponse =>
       AsSeen!onReadLoginSetUsernameResponse /\ net' = net
  BY SameHandlers, SameLoop DEF TheClient!onReadLoginSetUsernameResponse,
         AsSeen!onReadLoginSetUsernameResponse
<1>3. TheClient!onReadLoginSetPasswordResponse =>
       AsSeen!onReadLoginSetPasswordResponse /\ net' = net
  BY SameHandlers DEF TheClient!onReadLoginSetPasswordResponse,
         AsSeen!onReadLoginSetPasswordResponse
<1>4. TheClient!onReadLoginAuthenticateResponse =>
       AsSeen!onReadLoginAuthenticateResponse /\ net' = net
  BY SameHandlers DEF TheClient!onReadLoginAuthenticateResponse,
         AsSeen!onReadLoginAuthenticateResponse
<1>5. TheClient!EnterUsername => AsSeen!EnterUsername /\ net' = net
  BY SameHandlers DEF TheClient!EnterUsername, AsSeen!EnterUsername
<1>6. TheClient!EnterPassword => AsSeen!EnterPassword /\ net' = net
  BY SameHandlers DEF TheClient!EnterPassword, AsSeen!EnterPassword
<1>7. TheClient!EnterNewPassword => AsSeen!EnterNewPassword /\ net' = net
  BY SameHandlers DEF TheClient!EnterNewPassword, AsSeen!EnterNewPassword
<1>8. TheClient!RepeatNewPassword => AsSeen!RepeatNewPassword /\ net' = net
  BY SameHandlers DEF TheClient!RepeatNewPassword, AsSeen!RepeatNewPassword
<1>9. TheClient!EnterInfoCommand => AsSeen!EnterInfoCommand /\ net' = net
  BY SameHandlers DEF TheClient!EnterInfoCommand, AsSeen!EnterInfoCommand
<1>10. TheClient!EnterPasswd => AsSeen!EnterPasswd /\ net' = net
  BY SameHandlers DEF TheClient!EnterPasswd, AsSeen!EnterPasswd
<1>11. TheClient!EnterExit => AsSeen!EnterExit /\ net' = net
  BY SameHandlers, SameLoop DEF TheClient!EnterExit, AsSeen!EnterExit
<1>12. TheClient!EnterUnknown => AsSeen!EnterUnknown /\ net' = net
  BY SameHandlers DEF TheClient!EnterUnknown, AsSeen!EnterUnknown
<1>13. TheClient!ReadDone => AsSeen!ReadDone /\ net' = net
  BY SameHandlers, SameLoop, IdleSeen DEF TheClient!ReadDone, AsSeen!ReadDone,
         TheClient!terminalVars, AsSeen!terminalVars
<1> QED BY <1>1, <1>2, <1>3, <1>4, <1>5, <1>6, <1>7, <1>8, <1>9, <1>10, <1>11, <1>12, <1>13 DEF
        TheClient!onRead, AsSeen!onRead, TheClient!handleUserInput, AsSeen!handleUserInput

\* What the client writes is what the server has not handled yet, wherever it is.
LEMMA FlushSame ==
  ASSUME ClientServerInv, ServerIdle, NEW k \in 1..Len(wbuf[Socket]), TheClient!Flush(k)
  PROVE  AsSeen!Flush(k) /\ ConnectionInv'
<1> DEFINE M == TheClient!Message
           q == SubSeq(wbuf[Socket], 1, k)
           u == sInbuf \o recvq[Connection]
<1>1. /\ k >= 1 /\ TheClient!Write(Socket, k)
      /\ net' = IF conn = "open" THEN net \o q ELSE <<>>
      /\ UNCHANGED <<TheClient!terminalVars, inbox, inbuf, TheClient!inputVars>>
  BY DEF TheClient!Flush
<1>2. UNCHANGED serverVars /\ conn' = conn /\ UNCHANGED AsSeen!serverEnd
  BY IdleSeen DEF ServerIdle
<1>3. wbuf[Socket] \in Seq(M) /\ net \in Seq(M) /\ u \in Seq(M)
  <2>1. wbuf \in [{Socket, Stdin} -> Seq(Reply)]
    BY DEF ClientServerInv, AsSeen!TypeInv, AsSeen!SelectorInv, AsSeen!SelectorTypeOK
  <2> QED BY <2>1, ConnectionTyped, ConcatProperties, ClientServerAssumption
<1>4. q \in Seq(M)
  <2>1. Len(wbuf[Socket]) \in Nat
    BY <1>3, LenProperties
  <2>2. 1 \in 1..Len(wbuf[Socket]) + 1 /\ k \in 1 - 1..Len(wbuf[Socket])
    BY <2>1
  <2>3. \A i \in 1..k : wbuf[Socket][i] \in M
    BY <1>3, <2>1, ElementOfSeq
  <2> QED BY <1>3, <2>1, <2>3
<1> HIDE DEF M, q
<1>5. ConnectionInv'
  <2>1. net' \in Seq(M) /\ (conn = "closed" => net' = <<>>)
    BY <1>1, <1>3, <1>4, EmptySeq, ConcatProperties
  <2> QED BY <2>1, IdleSeen DEF M
<1>6. Unhandled' = IF conn = "open" THEN Unhandled \o q ELSE <<>>
  <2>1. CASE conn = "open"
    <3>1. Unhandled = u \o net /\ Unhandled' = u \o net'
      BY <1>2, <2>1 DEF Unhandled, serverVars
    <3> HIDE DEF u
    <3>2. (u \o net) \o q = u \o (net \o q)
      BY <1>3, <1>4, ConcatAssociative, SMTT(30)
    <3> QED BY <1>1, <2>1, <3>1, <3>2
  <2>2. CASE conn # "open"
    BY <1>2, <2>2 DEF Unhandled
  <2> QED BY <2>1, <2>2
<1>7. AsSeen!Write(Socket, k)
  BY <1>1, SameLoop
<1>8. AsSeen!Flush(k)
  BY <1>1, <1>2, <1>6, <1>7
    DEF q, AsSeen!Flush, TheClient!terminalVars, AsSeen!terminalVars, TheClient!inputVars,
        AsSeen!inputVars
<1> QED BY <1>5, <1>8

\* The rest of a pass.
LEMMA PassSame ==
  ASSUME ClientServerInv, ServerIdle, TheClient!Pass
  PROVE  AsSeen!Pass /\ ConnectionInv'
<1>1. UNCHANGED TheClient!networkVars => UNCHANGED AsSeen!networkVars /\ net' = net
  BY IdleSeen
<1>2. UNCHANGED AsSeen!serverEnd
  BY IdleSeen
<1>3. net' = net => UNCHANGED Unhandled
  BY DEF ServerIdle, serverVars, Unhandled
<1>4. TheClient!ClientSkip => AsSeen!ClientSkip /\ net' = net
  BY <1>1, SameLoop DEF TheClient!ClientSkip, AsSeen!ClientSkip, TheClient!terminalVars,
         AsSeen!terminalVars, TheClient!inputVars, AsSeen!inputVars
<1>5. TheClient!ReadLine => AsSeen!ReadLine /\ net' = net
  BY <1>1, SameLoop DEF TheClient!ReadLine, AsSeen!ReadLine, TheClient!inputVars,
         AsSeen!inputVars
<1>6. TheClient!ConnectionLost => AsSeen!ConnectionLost /\ net' = net
  BY <1>1, SameLoop DEF TheClient!ConnectionLost, AsSeen!ConnectionLost, TheClient!terminalVars,
         AsSeen!terminalVars, TheClient!inputVars, AsSeen!inputVars
<1>7. TheClient!InputLost => AsSeen!InputLost /\ net' = net
  BY <1>1, SameLoop DEF TheClient!InputLost, AsSeen!InputLost, TheClient!terminalVars,
         AsSeen!terminalVars, TheClient!inputVars, AsSeen!inputVars
<1>8. TheClient!FlushFails => AsSeen!FlushFails /\ net' = net
  BY <1>1, SameLoop DEF TheClient!FlushFails, AsSeen!FlushFails, TheClient!terminalVars,
         AsSeen!terminalVars, TheClient!inputVars, AsSeen!inputVars
<1>9. TheClient!FlushKills => AsSeen!FlushKills /\ net' = net
  BY <1>1, SameLoop DEF TheClient!FlushKills, AsSeen!FlushKills, TheClient!terminalVars,
         AsSeen!terminalVars, TheClient!inputVars, AsSeen!inputVars
<1>10. ASSUME NEW k \in 1..Len(inbox), TheClient!ReadMessages(k)
      PROVE  AsSeen!ReadMessages(k) /\ net' = net
  BY <1>2, <1>3, <1>10, SameLoop DEF TheClient!ReadMessages, AsSeen!ReadMessages,
         TheClient!terminalVars, AsSeen!terminalVars, TheClient!inputVars, AsSeen!inputVars
<1> QED BY <1>4, <1>5, <1>6, <1>7, <1>8, <1>9, <1>10, IdleSeen, FlushSame DEF TheClient!Pass,
        AsSeen!Pass

\* What the client and its user do is one of the steps TCPClient describes.
LEMMA ClientSeen ==
  ASSUME ClientServerInv, UserTypes \/ ClientRuns \/ ClientInterrupted
  PROVE  UNCHANGED TheServer!serverVars /\ ConnectionInv' /\ AsSeen!ClientNext
<1>1. ServerIdle
  BY DEF UserTypes, ClientRuns, ClientInterrupted
<1>2. UNCHANGED TheServer!serverVars
  BY <1>1, IdleSeen
<1>3. UNCHANGED TheClient!networkVars => UNCHANGED AsSeen!networkVars /\ net' = net
  BY <1>1, IdleSeen
<1>4. net' = net => ConnectionInv'
  BY <1>1, IdleSeen
<1>5. ASSUME NEW line \in Lines, TheClient!TypeLine(line)
      PROVE  AsSeen!TypeLine(line) /\ net' = net
  BY <1>3, <1>5 DEF TheClient!TypeLine, AsSeen!TypeLine, TheClient!Up, AsSeen!Up,
         TheClient!Prompted, AsSeen!Prompted, TheClient!selectorVars, AsSeen!selectorVars,
         TheClient!inputVars, AsSeen!inputVars
<1>6. ASSUME NEW wr, TheClient!ClientPoll(wr)
      PROVE  wr \in SUBSET AsSeen!RegisteredNumbers /\ AsSeen!ClientPoll(wr) /\ net' = net
  <2>1. TheClient!ReadableNow = AsSeen!ReadableNow
    BY DEF TheClient!ReadableNow, AsSeen!ReadableNow, TheClient!Pending, AsSeen!Pending,
           TheClient!Registered, AsSeen!Registered, TheClient!Range, AsSeen!Range
  <2>2. AsSeen!ClientPoll(wr) /\ net' = net
    BY <1>3, <1>6, <2>1, SameLoop DEF TheClient!ClientPoll, AsSeen!ClientPoll,
           TheClient!terminalVars, AsSeen!terminalVars, TheClient!inputVars, AsSeen!inputVars
  <2>3. wr \subseteq {num[d] : d \in {e \in AsSeen!Registered : wbuf[e] # <<>>}}
    BY <2>2 DEF AsSeen!ClientPoll, AsSeen!Poll
  <2>4. wr \in SUBSET AsSeen!RegisteredNumbers
    BY <2>3 DEF AsSeen!RegisteredNumbers
  <2> QED BY <2>2, <2>4
<1>7. TheClient!ClientStops => AsSeen!ClientStops /\ net' = net
  BY <1>3, SameLoop DEF TheClient!ClientStops, AsSeen!ClientStops, TheClient!terminalVars,
         AsSeen!terminalVars, TheClient!inputVars, AsSeen!inputVars
<1>8. TheClient!closeConn => AsSeen!closeConn /\ net' = net
  BY <1>3, SameLoop DEF TheClient!closeConn, AsSeen!closeConn, TheClient!terminalVars,
         AsSeen!terminalVars, TheClient!inputVars, AsSeen!inputVars
<1>9. TheClient!ClientInterrupt => AsSeen!ClientInterrupt /\ net' = net
  BY <1>3, SameLoop DEF TheClient!ClientInterrupt, AsSeen!ClientInterrupt,
         TheClient!terminalVars, AsSeen!terminalVars, TheClient!inputVars, AsSeen!inputVars
<1>10. CASE UserTypes
  BY <1>2, <1>4, <1>5, <1>10 DEF UserTypes, AsSeen!ClientNext, AsSeen!User
<1>11. CASE ClientRuns
  <2>1. \/ \E wr : TheClient!ClientPoll(wr)
        \/ TheClient!Pass
        \/ TheClient!onRead
        \/ TheClient!ClientStops
        \/ TheClient!closeConn
    BY <1>11 DEF ClientRuns
  <2>2. AsSeen!ClientRuns /\ ConnectionInv'
    BY <1>1, <1>4, <1>6, <1>7, <1>8, <2>1, PassSame, HandlersSame DEF AsSeen!ClientRuns
  <2> QED BY <1>2, <2>2 DEF AsSeen!ClientNext
<1>12. CASE ClientInterrupted
  BY <1>2, <1>4, <1>9, <1>12 DEF ClientInterrupted, AsSeen!ClientNext
<1> QED BY <1>10, <1>11, <1>12

(***************************************************************************)
(* The invariant is inductive, and every step one of the client's or of    *)
(* its environment's.                                                      *)
(***************************************************************************)

\* Both programs at their start.
LEMMA ClientServerInit ==
  ASSUME Init
  PROVE  ClientServerInv /\ AsSeen!ClientInit
<1>1. /\ TheServer!SelectorInit /\ TheClient!ClientInit
      /\ backlog = <<Connection>> /\ sInbuf = <<>> /\ passwd = InitialPasswd
      /\ peer = [c \in {Connection} |-> "open"] /\ sent = [c \in {Connection} |-> 0]
      /\ recvq = [c \in {Connection} |-> <<>>] /\ log = [c \in {Connection} |-> <<>>]
      /\ user = [c \in {Connection} |-> TheServer!NewSession]
  BY DEF Init
<1>2. TheServer!SelectorInv
  BY <1>1, ServerConstants, TheServer!InitInv
<1>3. /\ sFds = <<Listener>> /\ sStatus = "loop" /\ sCurrent = NoDesc
      /\ sWbuf = [d \in {Listener, Connection} |-> <<>>]
      /\ Range(sFds) = {Listener} /\ Range(backlog) = {Connection}
  BY <1>1, ShortSequences DEF TheServer!SelectorInit
<1>4. sNum[Connection] = -1
  BY <1>1, <1>3, OnlyConnection, RegisteredHere, ClientServerAssumption
    DEF TheServer!SelectorInit
<1>5. /\ TheServer!NewSession \in TheServer!Session
      /\ ~TheServer!NewSession.passwordVerified /\ ~TheServer!NewSession.usernameVerified
      /\ TheServer!NewSession.passwordAttempts = 0
  BY DEF TheServer!NewSession, TheServer!Session
<1>6. TheServer!ServerTypeOK
  <2>1. MaxLines \in Nat /\ InitialPasswd \in [Lines -> Lines \cup {NoRow}]
    BY ClientServerAssumption
  <2>2. 0 \in 0..MaxLines
    BY <2>1
  <2>3. TheServer!SelectorTypeOK
    BY <1>2 DEF TheServer!SelectorInv
  <2>4. backlog \in Seq({Connection})
    BY <1>1
  <2> HIDE DEF TheServer!ServerTypeOK
  <2>5. /\ peer \in [{Connection} -> {"none", "open", "streaming", "closed"}]
        /\ sent \in [{Connection} -> 0..MaxLines]
        /\ recvq \in [{Connection} -> Seq(TheClient!Message)]
        /\ user \in [{Connection} -> TheServer!Session]
        /\ log \in [{Connection} -> Seq(TheServer!LogRow)]
        /\ sInbuf \in Seq(TheClient!Message)
    BY <1>1, <1>5, <2>2, EmptySeq
  <2> QED BY <1>1, <2>1, <2>3, <2>4, <2>5, OnlyConnection DEF TheServer!ServerTypeOK
<1>7. TheServer!ServerInv
  <2>1. TheServer!VerifiedNamed /\ TheServer!AttemptLimit /\ TheServer!LoginRecorded
    BY <1>1, <1>5, OnlyConnection
      DEF TheServer!VerifiedNamed, TheServer!AttemptLimit, TheServer!LoginRecorded
  <2> QED BY <1>2, <1>6, <2>1 DEF TheServer!ServerInv
<1>8. TheServer!QueuedRegistered /\ TheServer!InbufHandled
  BY <1>1, <1>3 DEF TheServer!QueuedRegistered, TheServer!InbufHandled
<1>9. conn = "open" /\ net = <<>>
  BY <1>1 DEF TheClient!ClientInit
<1>10. ConnectionInv
  BY <1>1, <1>3, <1>4, <1>9, EmptySeq DEF ConnectionInv, ServerHolds
<1>11. Known = "new" /\ Removed = FALSE /\ Queued = <<>> /\ Unhandled = <<>>
  <2>1. user[Connection] = TheServer!NewSession /\ recvq[Connection] = <<>>
        /\ sWbuf[Connection] = <<>>
    BY <1>1, <1>3
  <2>2. <<>> \o <<>> = <<>>
    BY EmptySeq, ConcatEmptySeq
  <2> QED BY <1>1, <1>3, <1>5, <1>9, <2>1, <2>2 DEF Known, Removed, Queued, Unhandled
<1>12. AsSeen!ClientInit
  BY <1>1, <1>9, <1>11
    DEF TheClient!ClientInit, AsSeen!ClientInit, TheClient!SelectorInit, AsSeen!SelectorInit,
        TheClient!Range, AsSeen!Range, TheClient!NoFd, AsSeen!NoFd, TheClient!StdinFd,
        AsSeen!StdinFd, TheClient!NothingStored, AsSeen!NothingStored
<1>13. AsSeen!TypeInv
  BY <1>12, ClientConstants, AsSeen!TypeInit
<1> QED BY <1>7, <1>8, <1>10, <1>12, <1>13 DEF ClientServerInv

\* Every step is one of the server, or nothing to it, and one that the client
\* expects.
LEMMA StepSeen ==
  ASSUME ClientServerInv, [Next]_vars
  PROVE  [TheServer!ServerNext]_(TheServer!serverVars) /\ ConnectionInv' /\ Seen
<1>1. CASE UserTypes \/ ClientRuns \/ ClientInterrupted
  BY <1>1, ClientSeen DEF Seen
<1>2. CASE Arrives
  BY <1>2, ArrivesSeen
<1>3. CASE ClientGone
  BY <1>3, GoneSeen
<1>4. CASE ServerRuns \/ ServerInterrupted
  BY <1>4, ServerSeen
<1>5. CASE BothEnded \/ UNCHANGED vars
  <2>1. UNCHANGED vars
    BY <1>5 DEF BothEnded
  <2> QED BY <2>1, StutterSeen
<1> QED BY <1>1, <1>2, <1>3, <1>4, <1>5 DEF Next

\* The invariant is kept by every step.
LEMMA ClientServerNext ==
  ASSUME ClientServerInv, [Next]_vars
  PROVE  ClientServerInv'
<1>1. [TheServer!ServerNext]_(TheServer!serverVars) /\ ConnectionInv' /\ Seen
  BY StepSeen
<1>2. TheServer!ServerInv /\ TheServer!SelectorInv /\ TheServer!QueuedRegistered
      /\ TheServer!InbufHandled /\ AsSeen!TypeInv
  BY DEF ClientServerInv, TheServer!ServerInv
<1>3. TheServer!ServerInv'
  BY <1>1, <1>2, ServerConstants, TheServer!ServerNextInv
<1>4. TheServer!QueuedRegistered'
  <2>1. [TheServer!SelectorNext]_(TheServer!selectorVars)
    BY <1>1, <1>2, ServerConstants, TheServer!StepSimulation
  <2> QED BY <1>2, <2>1, ServerConstants, TheServer!QueuedRegisteredNext
<1>5. TheServer!InbufHandled'
  BY <1>1, <1>2, ServerConstants, TheServer!InbufHandledNext
<1>6. AsSeen!TypeInv'
  BY <1>1, <1>2, ClientConstants, AsSeen!TypeNext DEF Seen
<1> QED BY <1>1, <1>3, <1>4, <1>5, <1>6 DEF ClientServerInv

(***************************************************************************)
(* The theorems.                                                           *)
(***************************************************************************)

\* What holds of each program alone holds of the two together, and the connection
\* between them is open exactly while the server holds it.
THEOREM ClientServerInvariance == Spec => []ClientServerInv
<1>1. Init => ClientServerInv
  BY ClientServerInit
<1>2. ClientServerInv /\ [Next]_vars => ClientServerInv'
  BY ClientServerNext
<1> QED BY <1>1, <1>2, PTL DEF Spec

\* The server of TCPServer is an environment as TCPClient describes it.
THEOREM ServerIsDescribed == Spec => ServerAsDescribed
<1>1. Init => AsSeen!ClientInit
  BY ClientServerInit
<1>2. ClientServerInv /\ [Next]_vars => [AsSeen!ClientNext]_(AsSeen!clientVars)
  BY StepSeen DEF Seen
<1>3. Spec => AsSeen!ClientSpec
  BY <1>1, <1>2, ClientServerInvariance, PTL DEF Spec, AsSeen!ClientSpec
<1> QED BY <1>3 DEF ServerAsDescribed

\* The prompts of the client agree with what the server knows of the user.
THEOREM PromptsAgreeHolds == Spec => []PromptsAgree
<1>1. AsSeen!ClientSpec => []AsSeen!PromptsFit
  BY ClientConstants, AsSeen!PromptsFitHolds
<1>2. ClientServerInv /\ AsSeen!PromptsFit => PromptsAgree
  BY KnownIs DEF AsSeen!PromptsFit, PromptsAgree
<1> QED BY <1>1, <1>2, ClientServerInvariance, ServerIsDescribed, PTL DEF ServerAsDescribed

\* What TCPClient shows of a patient user's client holds with this server: the
\* echo follows what is asked for, no password is shown, and the terminal stays.
THEOREM ClientPromises ==
  Spec => [](AsSeen!EchoFollowsState /\ AsSeen!PasswordsHidden /\ AsSeen!TerminalKept)
<1>1. AsSeen!ClientSpec => []AsSeen!EchoFollowsState
  BY ClientConstants, AsSeen!EchoFollowsStateHolds
<1>2. AsSeen!ClientSpec => []AsSeen!PasswordsHidden
  BY ClientConstants, AsSeen!PasswordsHiddenHolds
<1>3. AsSeen!ClientSpec => []AsSeen!TerminalKept
  BY ClientConstants, AsSeen!TerminalKeptHolds
<1> QED BY <1>1, <1>2, <1>3, ServerIsDescribed, PTL DEF ServerAsDescribed
=============================================================================
