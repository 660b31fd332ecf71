-------------------------- MODULE TCPServerProofs ---------------------------
(* Proofs about the server, for every set of connections, users, passwords   *)
(* and requests: it implements the select loop, and its login rules hold.    *)
EXTENDS TCPServer, SelectorProofs, FiniteSetTheorems

(***************************************************************************)
(* Every step of the server is a step of the select loop.                  *)
(***************************************************************************)

\* Each handler queues one of the bursts of ServerBurst.
LEMMA BurstsQueued ==
  /\ <<Display>> \in Burst /\ <<Text>> \in Burst
  /\ <<UsernameResponse(FALSE)>> \in Burst
  /\ <<Display, UsernameResponse(TRUE)>> \in Burst
  /\ \A b \in BOOLEAN : <<Display, PasswordResponse(b)>> \in Burst
  /\ \A b \in BOOLEAN : <<Display, AuthenticateResponse(b)>> \in Burst
<1> USE ServerAssumption
<1>1. \A ms \in ServerBurst : ms \in Burst
  OBVIOUS
<1>2. /\ <<Display>> \in ServerBurst /\ <<Text>> \in ServerBurst
      /\ <<UsernameResponse(FALSE)>> \in ServerBurst
      /\ <<Display, UsernameResponse(TRUE)>> \in ServerBurst
  BY DEF ServerBurst
<1>3. \A b \in BOOLEAN : <<Display, PasswordResponse(b)>> \in ServerBurst
  BY DEF ServerBurst
<1>4. \A b \in BOOLEAN : <<Display, AuthenticateResponse(b)>> \in ServerBurst
  BY DEF ServerBurst
<1> QED BY <1>1, <1>2, <1>3, <1>4

\* A request handler is a write or a removal of the select loop's callback.
LEMMA HandlerSimulation ==
  ASSUME \/ onReadInfoRequest \/ onReadUnknown \/ onReadLoginSetUsername
         \/ onReadLoginSetPassword \/ onReadLoginAuthenticate
  PROVE  \/ \E ms \in Burst : CallbackWrite(HeadFD, ms)
         \/ \E ms \in Burst : CallbackRemove(ms)
<1> USE BurstsQueued
<1>1. CASE onReadInfoRequest
  BY <1>1 DEF onReadInfoRequest, Answer
<1>2. CASE onReadUnknown
  BY <1>2 DEF onReadUnknown, Answer
<1>3. CASE onReadLoginSetUsername
  BY <1>3 DEF onReadLoginSetUsername, Answer, AnswerAndRemove
<1>4. CASE onReadLoginSetPassword
  BY <1>4 DEF onReadLoginSetPassword, Answer, AnswerAndRemove
<1>5. CASE onReadLoginAuthenticate
  BY <1>5 DEF onReadLoginAuthenticate, RightPassword, WrongPassword, Answer,
              AnswerAndRemove
<1> QED BY <1>1, <1>2, <1>3, <1>4, <1>5

\* Every step of the server is a step of the select loop or leaves the loop's
\* variables alone.
LEMMA StepSimulation ==
  ASSUME SelectorInv, [ServerNext]_serverVars
  PROVE  [SelectorNext]_selectorVars
<1>1. CASE Environment
  BY <1>1 DEF Environment, Connect, Send, SendPart, Close, AddUser, DropUser
<1>2. CASE \E wr, ex \in SUBSET RegisteredNumbers : ServerPoll(wr, ex)
  <2>1. ReadableNow \in SUBSET RegisteredNumbers
    BY DEF ReadableNow, RegisteredNumbers
  <2> QED BY <1>2, <2>1 DEF ServerPoll, SelectorNext
<1>3. CASE Pass
  <2>1. \A c \in Conn : c \in Desc
    BY DEF Conn
  <2>2. ASSUME NEW c \in Conn, NEW k \in 1..Len(wbuf[c]), Flush(c, k)
        PROVE  Handle
    BY <2>1, <2>2 DEF Flush, Handle, Write
  <2>3. CASE ServerSkip \/ AcceptFails
    BY <2>3 DEF ServerSkip, AcceptFails, Handle, SelectorNext
  <2>4. ASSUME NEW c \in Conn,
               AcceptConnection(c) \/ RefuseConnection(c)
                 \/ (\E k \in 1..Len(recvq[c]) : ReadRequests(c, k))
        PROVE  Handle
    BY <2>1, <2>4 DEF AcceptConnection, RefuseConnection, ReadRequests, Handle
  <2>5. ASSUME NEW c \in Conn,
               ConnectionLost(c) \/ FlushFails(c) \/ FlushKills(c) \/ Urgent(c)
        PROVE  Handle
    BY <2>1, <2>5 DEF ConnectionLost, FlushFails, FlushKills, Urgent, Handle
  <2> QED BY <1>3, <2>2, <2>3, <2>4, <2>5 DEF Pass, SelectorNext
<1>4. CASE onRead
  <2>1. status = "callback" => HeadFD \in FdNum
    <3>1. status = "callback" => Head(possible) \in [fd : FdNum, event : Event]
      BY HeadTailProperties DEF SelectorInv, SelectorTypeOK, CallbackHolds
    <3> QED BY <3>1 DEF HeadFD
  <2>2. CASE ReadDone
    BY <2>2 DEF ReadDone, SelectorNext
  <2>3. CASE onReadDisplayMessage \/ PartKept
    BY <2>3 DEF onReadDisplayMessage, PartKept, serverVars
  <2>4. CASE \/ onReadInfoRequest \/ onReadUnknown \/ onReadLoginSetUsername
             \/ onReadLoginSetPassword \/ onReadLoginAuthenticate
    <3>1. \/ \E ms \in Burst : CallbackWrite(HeadFD, ms)
          \/ \E ms \in Burst : CallbackRemove(ms)
      BY <2>4, HandlerSimulation
    <3>2. CASE \E ms \in Burst : CallbackWrite(HeadFD, ms)
      BY <2>1, <3>2 DEF SelectorNext, CallbackWrite
    <3>3. CASE \E ms \in Burst : CallbackRemove(ms)
      BY <3>3 DEF SelectorNext
    <3> QED BY <3>1, <3>2, <3>3
  <2> QED BY <1>4, <2>2, <2>3, <2>4 DEF onRead
<1>5. CASE ServerInterrupt \/ shutdown \/ ServerTerminated
  BY <1>5 DEF ServerInterrupt, shutdown, ServerTerminated, SelectorNext, serverVars
<1>6. CASE UNCHANGED serverVars
  BY <1>6 DEF serverVars
<1> QED BY <1>1, <1>2, <1>3, <1>4, <1>5, <1>6 DEF ServerNext

\* The select loop's invariant holds in the server.
THEOREM ServerSelectorInv == ServerSpec => []SelectorInv
<1>1. ServerInit => SelectorInv
  BY InitInv DEF ServerInit
<1>2. SelectorInv /\ [ServerNext]_serverVars => SelectorInv'
  BY StepSimulation, NextInv
<1> QED BY <1>1, <1>2, PTL DEF ServerSpec

\* The server implements the select loop: it uses its descriptors, numbers and
\* write buffers only as the loop's contract allows.
THEOREM ServerImplementsSelector == ServerSpec => SelectorSpec
<1>1. ServerInit => SelectorInit
  BY DEF ServerInit
<1>2. SelectorInv /\ [ServerNext]_serverVars => [SelectorNext]_selectorVars
  BY StepSimulation
<1> QED BY <1>1, <1>2, ServerSelectorInv, PTL DEF ServerSpec, SelectorSpec

\* So readiness is never used for a connection accepted later in the pass.
THEOREM ServerNoStaleDispatch == ServerSpec => []NoStaleDispatch
BY ServerImplementsSelector, NoStaleDispatchHolds, PTL

(***************************************************************************)
(* What a step does to the log and to the registered connections.          *)
(***************************************************************************)

\* A callback runs for a connection, under the number of that connection.
LEMMA CallbackCurrent ==
  ASSUME SelectorInv, status = "callback"
  PROVE  /\ current \in Conn /\ num[current] = HeadFD /\ HeadFD # NoFd
         /\ possible # <<>>
<1>1. current \in Desc /\ current # Listener /\ num[current] = HeadFD
      /\ possible # <<>>
  BY ServerAssumption DEF SelectorInv, SelectorTypeOK, CallbackHolds
<1>2. num[current] # NoFd
  BY <1>1 DEF SelectorInv, OpenWhileRegistered
<1> QED BY <1>1, <1>2 DEF Conn

\* removeFD called by a callback for its own descriptor does remove it, and the
\* file stays open until the callback returns.
LEMMA RemovedGone ==
  ASSUME SelectorInv, NEW ms, CallbackRemove(ms)
  PROVE  /\ current \notin Registered' /\ num' = num
         /\ QueuedRegistered => wbuf'[current] = <<>>
<1>1. status = "callback" /\ RemoveFD(HeadFD, WriteToFD(HeadFD, ms))
  BY DEF CallbackRemove
<1>2. current \in Desc /\ num[current] = HeadFD /\ HeadFD # NoFd
  BY <1>1, CallbackCurrent DEF Conn
<1> DEFINE w == WriteToFD(HeadFD, ms)
<1>3. w = IF current \in Registered THEN [wbuf EXCEPT ![current] = @ \o ms] ELSE wbuf
  BY <1>2, WriteToFDQueues
<1>4. wbuf = [d \in Desc |-> wbuf[d]]
  BY DEF SelectorInv, SelectorTypeOK
<1> HIDE DEF w
<1>5. /\ Registered' = Registered \ {current}
      /\ wbuf' = IF current \in Registered THEN [w EXCEPT ![current] = <<>>] ELSE w
      /\ num' = num
  <2>1. RemoveFD(num[current], w)
    BY <1>1, <1>2 DEF w
  <2> QED BY <1>2, <2>1, RemoveFDRemoves
<1>6. CASE current \in Registered
  <2>1. w \in [Desc -> {w[d] : d \in Desc}]
    BY <1>3, <1>4, <1>6
  <2> QED BY <1>2, <1>5, <1>6, <2>1
<1>7. CASE current \notin Registered
  BY <1>2, <1>3, <1>5, <1>7 DEF QueuedRegistered
<1> QED BY <1>6, <1>7

\* What a callback writes, it queues for its connection, if that is still
\* registered.
LEMMA AnswerQueues ==
  ASSUME SelectorInv, NEW ms, CallbackWrite(HeadFD, ms)
  PROVE  wbuf' = IF current \in Registered THEN [wbuf EXCEPT ![current] = @ \o ms] ELSE wbuf
BY CallbackCurrent, WriteToFDQueues DEF CallbackWrite, Conn

\* No callback registers a descriptor.
LEMMA NoneAdded ==
  ASSUME SelectorInv, NEW ms \in Seq(Reply),
         CallbackRemove(ms) \/ CallbackWrite(HeadFD, ms)
  PROVE  Registered' \subseteq Registered
<1>1. CASE CallbackRemove(ms)
  BY <1>1, RemoveFDEffect, WriteToFDType DEF CallbackRemove, SelectorInv
<1>2. CASE CallbackWrite(HeadFD, ms)
  BY <1>2 DEF CallbackWrite, Registered
<1> QED BY <1>1, <1>2

\* What an insert into the log makes of it; with two free numbers the rows are
\* appended to those of the connection.
LEMMA LoggedEffect ==
  ASSUME log \in [Conn -> Seq(LogRow)], NEW c \in Conn, NEW rows \in Seq(LogRow),
         NEW free
  PROVE  /\ Logged(c, rows, free) \in [Conn -> Seq(LogRow)]
         /\ TwoIn(free) => Logged(c, rows, free) = [log EXCEPT ![c] = @ \o rows]
<1>1. CASE TwoIn(free)
  <2>1. log[c] \o rows \in Seq(LogRow)
    BY RangeConcat
  <2> QED BY <1>1, <2>1 DEF Logged
<1>2. CASE ~TwoIn(free) /\ free # {} /\ rows # <<>>
  <2>1. Len(rows) \in DOMAIN rows /\ Last(rows) = rows[Len(rows)]
    BY <1>2, EmptySeq, LenProperties DEF Last
  <2>2. Last(rows) \in LogRow
    BY <2>1, ElementOfSeq, LenProperties
  <2>3. <<Last(rows)>> \in Seq(LogRow) /\ <<>> \in Seq(LogRow)
    BY <2>2, EmptySeq
  <2> QED BY <1>2, <2>3 DEF Logged
<1>3. CASE ~TwoIn(free) /\ ~(free # {} /\ rows # <<>>)
  BY <1>3 DEF Logged
<1> QED BY <1>1, <1>2, <1>3

\* When numbers suffice, two are free for files, even while a connection just
\* accepted holds another.
LEMMA TwoFree ==
  ASSUME NumbersSuffice, SelectorTypeOK
  PROVE  /\ TwoIn(FreeNumbers)
         /\ (\E c \in Desc : num[c] = NoFd) /\ FreeNumbers # {} => TwoIn(AfterAccept)
<1>1. TwoIn(FreeNumbers)
  BY DEF NumbersSuffice, FreeNumbers, SelectorTypeOK
<1>2. ASSUME NEW c \in Desc, num[c] = NoFd, NEW a \in FreeNumbers
      PROVE  TwoIn(AfterAccept)
  <2> DEFINE f == [num EXCEPT ![c] = a]
  <2>1. f \in [Desc -> FdNum \cup {NoFd}]
    BY <1>2 DEF SelectorTypeOK, FreeNumbers
  <2>2. PICK m, n \in FdNum \ {f[d] : d \in Desc} : m # n
    BY <2>1 DEF NumbersSuffice, TwoIn
  <2>3. \A k \in FdNum : k \notin {f[d] : d \in Desc} => k \in FreeNumbers /\ k # a
    <3> SUFFICES ASSUME NEW k \in FdNum, k \notin {f[d] : d \in Desc}
                 PROVE  k \in FreeNumbers /\ k # a
      OBVIOUS
    <3>1. f[c] = a /\ \A d \in Desc : d # c => f[d] = num[d]
      BY DEF SelectorTypeOK
    <3>2. k # a /\ \A d \in Desc : d # c => k # num[d]
      BY <3>1
    <3>3. k # num[c]
      BY <1>2, FdNumAssumption DEF NoFd
    <3> QED BY <3>2, <3>3 DEF FreeNumbers
  <2>4. /\ m \in FreeNumbers /\ n \in FreeNumbers /\ m # a /\ n # a
        /\ m \in Nat /\ n \in Nat /\ a \in Nat
    BY <2>2, <2>3, FdNumAssumption DEF FreeNumbers
  <2>5. \A x, y \in {a, m, n} : x < y => y \in AfterAccept
    BY <2>4 DEF AfterAccept
  <2>6. \/ a \in AfterAccept /\ m \in AfterAccept
        \/ a \in AfterAccept /\ n \in AfterAccept
        \/ m \in AfterAccept /\ n \in AfterAccept
    <3>1. a < m \/ m < a
      BY <2>4
    <3>2. a < n \/ n < a
      BY <2>4
    <3>3. m < n \/ n < m
      BY <2>2, <2>4
    <3> QED BY <2>5, <3>1, <3>2, <3>3
  <2> QED BY <2>2, <2>4, <2>6 DEF TwoIn
<1> QED BY <1>1, <1>2

\* Numbers suffice if there are two more than descriptors.
LEMMA CountSuffices ==
  ASSUME IsFiniteSet(Desc), IsFiniteSet(FdNum),
         Cardinality(FdNum) >= Cardinality(Desc) + 2
  PROVE  NumbersSuffice
<1> SUFFICES ASSUME NEW f \in [Desc -> FdNum \cup {NoFd}]
             PROVE  TwoIn(FdNum \ {f[d] : d \in Desc})
  BY DEF NumbersSuffice
<1> DEFINE used == {f[d] : d \in Desc}
           rest == FdNum \ used
<1>1. IsFiniteSet(used) /\ Cardinality(used) <= Cardinality(Desc)
  <2>1. f \in Surjection(Desc, used)
    BY DEF Surjection
  <2> QED BY <2>1, FS_Surjection
<1>2. /\ IsFiniteSet(rest)
      /\ Cardinality(rest) = Cardinality(FdNum) - Cardinality(FdNum \cap used)
  BY FS_Difference
<1>3. /\ Cardinality(FdNum \cap used) <= Cardinality(used)
      /\ Cardinality(FdNum \cap used) \in Nat
  <2>1. FdNum \cap used \subseteq used
    OBVIOUS
  <2> QED BY <1>1, <2>1, FS_Subset, FS_CardinalityType
<1>4. Cardinality(rest) >= 2 /\ Cardinality(rest) \in Nat
  BY <1>1, <1>2, <1>3, FS_CardinalityType
<1>5. PICK m : m \in rest
  BY <1>4, FS_EmptySet
<1>6. Cardinality(rest \ {m}) >= 1
  <2>1. IsFiniteSet(rest) /\ m \in rest
    BY <1>2, <1>5
  <2> HIDE DEF rest
  <2>2. Cardinality(rest \ {m}) = Cardinality(rest) - 1
    BY <2>1, FS_RemoveElement
  <2> QED BY <1>4, <2>2
<1>7. PICK n : n \in rest \ {m}
  BY <1>6, FS_EmptySet
<1> QED BY <1>5, <1>7 DEF TwoIn

(***************************************************************************)
(* The login rules.                                                        *)
(***************************************************************************)

LoginRules ==
  /\ VerifiedNamed
  /\ AttemptLimit
  /\ NumbersSuffice => LoginRecorded

\* What a handler does to the record of the current session, and the rows it
\* adds to its log while numbers suffice, keep the login rules if the new record
\* v and the new rows respect them.
LEMMA SessionStep ==
  ASSUME ServerInv, status = "callback",
         NEW v \in Session, NEW rows \in Seq(LogRow),
         user' = [user EXCEPT ![current] = v],
         NumbersSuffice => log' = [log EXCEPT ![current] = @ \o rows],
         v.passwordVerified => v.usernameVerified,
         NumbersSuffice /\ v.passwordVerified =>
           Row("loggedIn", v.username) \in Range(log[current]) \cup Range(rows),
         v.passwordAttempts >= 3 => v.passwordVerified \/ current \notin Registered',
         Registered' \subseteq Registered
  PROVE  user' \in [Conn -> Session] /\ LoginRules'
<1>1. current \in Conn
  BY CallbackCurrent DEF ServerInv
<1>2. user \in [Conn -> Session] /\ log \in [Conn -> Seq(LogRow)]
  BY DEF ServerInv, ServerTypeOK
<1>3. /\ user' \in [Conn -> Session] /\ user'[current] = v
      /\ \A c \in Conn : c # current => user'[c] = user[c]
  BY <1>1, <1>2
<1>4. VerifiedNamed'
  BY <1>3 DEF ServerInv, VerifiedNamed
<1>5. AttemptLimit'
  <2> SUFFICES ASSUME NEW c \in Conn, c \in Registered',
                      user'[c].passwordAttempts >= 3
               PROVE  user'[c].passwordVerified
    BY DEF AttemptLimit
  <2>1. CASE c = current
    BY <1>3, <2>1
  <2>2. CASE c # current
    BY <1>3, <2>2 DEF ServerInv, AttemptLimit
  <2> QED BY <2>1, <2>2
<1>6. ASSUME NumbersSuffice PROVE LoginRecorded'
  <2>1. /\ log'[current] = log[current] \o rows
        /\ \A c \in Conn : c # current => log'[c] = log[c]
    BY <1>1, <1>2, <1>6
  <2>2. /\ Range(log[current]) \subseteq Range(log[current] \o rows)
        /\ Range(rows) \subseteq Range(log[current] \o rows)
    BY <1>1, <1>2, RangeConcat
  <2> SUFFICES ASSUME NEW c \in Conn, user'[c].passwordVerified
               PROVE  /\ user'[c].usernameVerified
                      /\ Row("loggedIn", user'[c].username) \in Range(log'[c])
    BY DEF LoginRecorded, Row
  <2>3. CASE c = current
    BY <1>3, <1>6, <2>1, <2>2, <2>3
  <2>4. CASE c # current
    BY <1>3, <1>6, <2>1, <2>4 DEF ServerInv, LoginRecorded
  <2> QED BY <2>3, <2>4
<1> QED BY <1>3, <1>4, <1>5, <1>6 DEF LoginRules

\* Steps that leave every session alone and at most add a row to one log.
LEMMA SessionsKept ==
  ASSUME ServerInv, user' = user, Registered' \subseteq Registered,
         NEW c \in Conn, NEW row \in LogRow, NEW free,
         NumbersSuffice => TwoIn(free),
         log' = Logged(c, <<row>>, free)
  PROVE  log' \in [Conn -> Seq(LogRow)] /\ LoginRules'
<1>1. log \in [Conn -> Seq(LogRow)] /\ <<row>> \in Seq(LogRow)
  BY DEF ServerInv, ServerTypeOK
<1>2. log' \in [Conn -> Seq(LogRow)]
  BY <1>1, LoggedEffect
<1>3. ASSUME NumbersSuffice PROVE LoginRecorded'
  <2>1. log' = [log EXCEPT ![c] = @ \o <<row>>]
    BY <1>1, <1>3, LoggedEffect
  <2>2. \A d \in Conn : Range(log[d]) \subseteq Range(log'[d])
    <3>1. log[c] \in Seq(LogRow)
      BY <1>1
    <3>2. Range(log[c] \o <<row>>) = Range(log[c]) \cup Range(<<row>>)
      BY <1>1, <3>1, RangeConcat, ZenonT(60)
    <3> QED BY <1>1, <2>1, <3>2
  <2> QED BY <1>3, <2>2 DEF ServerInv, LoginRecorded, Row
<1>4. VerifiedNamed' /\ AttemptLimit'
  BY DEF ServerInv, VerifiedNamed, AttemptLimit
<1> QED BY <1>2, <1>3, <1>4 DEF LoginRules

\* Steps that leave every session and every log alone.
LEMMA RulesKept ==
  ASSUME ServerInv, user' = user, log' = log, Registered' \subseteq Registered
  PROVE  LoginRules'
BY DEF ServerInv, LoginRules, VerifiedNamed, AttemptLimit, LoginRecorded, Row

\* The request a handler takes out of the buffer, and what it leaves alone.
LEMMA RequestTaken ==
  ASSUME ServerInv, NEW types, Handles(types)
  PROVE  /\ status = "callback" /\ current \in Conn /\ user[current] \in Session
         /\ inbuf' \in Seq(Request) /\ UNCHANGED environmentVars
         /\ Head(inbuf).type \in types
         /\ Head(inbuf).type = "LOGIN_SET_USERNAME" => Arg \in User
         /\ Head(inbuf).type \in {"LOGIN_SET_PASSWORD", "LOGIN_AUTHENTICATE"}
              => Arg \in Password
<1>1. status = "callback" /\ current \in Conn
  BY CallbackCurrent DEF ServerInv, Handles
<1>2. user[current] \in Session
  BY <1>1 DEF ServerInv, ServerTypeOK
<1>3. Head(inbuf) \in Request /\ inbuf' \in Seq(Request)
  BY HeadTailProperties DEF ServerInv, ServerTypeOK, Handles
<1>4. Head(inbuf) \in AnyRequest
  BY <1>3, ServerAssumption
<1>5. /\ Head(inbuf).type = "LOGIN_SET_USERNAME" => Arg \in User
      /\ Head(inbuf).type \in {"LOGIN_SET_PASSWORD", "LOGIN_AUTHENTICATE"}
           => Arg \in Password
  BY <1>4 DEF AnyRequest, InfoType, Arg
<1> QED BY <1>1, <1>2, <1>3, <1>5 DEF Handles

\* Whatever a handler answers, while numbers suffice it adds at least its rows to
\* the log of its own session, and a session it removes is gone.
LEMMA AnswerEffect ==
  ASSUME ServerInv, NEW ms \in Burst, NEW rows \in Seq(LogRow),
         Answer(ms, rows) \/ AnswerAndRemove(ms, rows)
  PROVE  /\ log' \in [Conn -> Seq(LogRow)]
         /\ \E rs \in Seq(LogRow) :
              /\ NumbersSuffice => log' = [log EXCEPT ![current] = @ \o rs]
              /\ Range(rows) \subseteq Range(rs)
         /\ Registered' \subseteq Registered
         /\ AnswerAndRemove(ms, rows) => current \notin Registered'
<1>1. /\ SelectorInv /\ ms \in Seq(Reply) /\ log \in [Conn -> Seq(LogRow)]
      /\ NumbersSuffice => TwoIn(FreeNumbers)
  BY BurstAssumption, TwoFree DEF ServerInv, ServerTypeOK
<1>2. current \in Conn
  BY <1>1, CallbackCurrent
    DEF Answer, AnswerAndRemove, CallbackRemove, CallbackWrite
<1>3. CASE Answer(ms, rows)
  <2>1. Registered' \subseteq Registered /\ log' = Logged(current, rows, FreeNumbers)
    BY <1>1, <1>3, NoneAdded DEF Answer
  <2>2. AnswerAndRemove(ms, rows) => current \notin Registered'
    BY <1>1, RemovedGone DEF AnswerAndRemove
  <2>3. /\ log' \in [Conn -> Seq(LogRow)]
        /\ NumbersSuffice => log' = [log EXCEPT ![current] = @ \o rows]
    BY <1>1, <1>2, <2>1, LoggedEffect
  <2> QED BY <2>1, <2>2, <2>3
<1>4. CASE AnswerAndRemove(ms, rows)
  <2>1. Registered' \subseteq Registered /\ current \notin Registered'
    BY <1>1, <1>4, NoneAdded, RemovedGone DEF AnswerAndRemove
  <2>2. ClosingRow \in Seq(LogRow)
    <3>1. Username \in User \cup {NoUser}
      BY <1>2 DEF ServerInv, ServerTypeOK, Session, Username
    <3>2. Row("disconnected", Username) \in LogRow
      BY <3>1 DEF Row, LogRow
    <3> QED BY <3>2, EmptySeq DEF ClosingRow
  <2>3. /\ rows \o ClosingRow \in Seq(LogRow)
        /\ Range(rows) \subseteq Range(rows \o ClosingRow)
    BY <2>2, RangeConcat
  <2>4. log' = Logged(current, rows \o ClosingRow, FreeNumbers)
    BY <1>4 DEF AnswerAndRemove
  <2>5. /\ log' \in [Conn -> Seq(LogRow)]
        /\ NumbersSuffice => log' = [log EXCEPT ![current] = @ \o (rows \o ClosingRow)]
    BY <1>1, <1>2, <2>3, <2>4, LoggedEffect
  <2> QED BY <2>1, <2>3, <2>5
<1> QED BY <1>3, <1>4

\* The same for a handler: the login rules hold after it if the session's new
\* record v respects them.
LEMMA HandlerStep ==
  ASSUME ServerInv, status = "callback",
         NEW ms \in Burst, NEW rows \in Seq(LogRow),
         Answer(ms, rows) \/ AnswerAndRemove(ms, rows),
         NEW v \in Session, user' = [user EXCEPT ![current] = v],
         v.passwordVerified => v.usernameVerified,
         NumbersSuffice /\ v.passwordVerified =>
           Row("loggedIn", v.username) \in Range(log[current]) \cup Range(rows),
         v.passwordAttempts >= 3 =>
           \/ v.passwordVerified
           \/ current \notin Registered
           \/ AnswerAndRemove(ms, rows)
  PROVE  /\ user' \in [Conn -> Session] /\ log' \in [Conn -> Seq(LogRow)]
         /\ LoginRules'
<1>1. PICK rs \in Seq(LogRow) :
        /\ NumbersSuffice => log' = [log EXCEPT ![current] = @ \o rs]
        /\ Range(rows) \subseteq Range(rs)
  BY AnswerEffect
<1>2. /\ Registered' \subseteq Registered /\ log' \in [Conn -> Seq(LogRow)]
      /\ AnswerAndRemove(ms, rows) => current \notin Registered'
  BY AnswerEffect
<1>3. v.passwordAttempts >= 3 => v.passwordVerified \/ current \notin Registered'
  BY <1>2
<1>4. NumbersSuffice /\ v.passwordVerified =>
        Row("loggedIn", v.username) \in Range(log[current]) \cup Range(rs)
  BY <1>1
<1> QED BY <1>1, <1>2, <1>3, <1>4, SessionStep

\* A handler that leaves the session's record alone.
LEMMA HandlerKeeps ==
  ASSUME ServerInv, status = "callback",
         NEW ms \in Burst, NEW rows \in Seq(LogRow),
         Answer(ms, rows) \/ AnswerAndRemove(ms, rows), user' = user
  PROVE  /\ user' \in [Conn -> Session] /\ log' \in [Conn -> Seq(LogRow)]
         /\ LoginRules'
<1> DEFINE v == user[current]
<1>1. current \in Conn
  BY CallbackCurrent DEF ServerInv
<1>2. v \in Session /\ user' = [user EXCEPT ![current] = v]
  BY <1>1 DEF ServerInv, ServerTypeOK
<1>3. /\ v.passwordVerified => v.usernameVerified
      /\ NumbersSuffice /\ v.passwordVerified =>
           Row("loggedIn", v.username) \in Range(log[current])
  BY <1>1 DEF ServerInv, VerifiedNamed, LoginRecorded
<1>4. v.passwordAttempts >= 3 => v.passwordVerified \/ current \notin Registered
  BY <1>1 DEF ServerInv, AttemptLimit
<1> HIDE DEF v
<1> QED BY <1>2, <1>3, <1>4, HandlerStep

\* onReadLoginSetUsername: a session that has a name keeps it.
LEMMA UsernameInv ==
  ASSUME ServerInv, onReadLoginSetUsername
  PROVE  /\ user' \in [Conn -> Session] /\ log' \in [Conn -> Seq(LogRow)]
         /\ LoginRules'
<1> USE BurstsQueued
<1>1. /\ status = "callback" /\ current \in Conn /\ user[current] \in Session
      /\ Arg \in User
  BY RequestTaken DEF onReadLoginSetUsername
<1>2. <<>> \in Seq(LogRow)
  BY EmptySeq
<1>3. CASE /\ user[current].usernameVerified
           /\ Answer(<<Display>>, <<>>)
           /\ UNCHANGED user
  BY <1>1, <1>2, <1>3, HandlerKeeps
<1>4. CASE /\ ~user[current].usernameVerified /\ RowOf(Arg) # NoRow
           /\ user' = [user EXCEPT ![current].username = Arg,
                                   ![current].usernameVerified = TRUE]
           /\ Answer(<<Display, UsernameResponse(TRUE)>>, <<>>)
  <2> DEFINE v == [user[current] EXCEPT !.username = Arg, !.usernameVerified = TRUE]
  <2>1. user' = [user EXCEPT ![current] = v] /\ v \in Session
    BY <1>1, <1>4 DEF Session
  <2>2. ~v.passwordVerified
    BY <1>1, <1>4 DEF ServerInv, VerifiedNamed, Session
  <2>3. v.passwordAttempts >= 3 => current \notin Registered
    BY <1>1, <2>2 DEF ServerInv, AttemptLimit, Session
  <2> HIDE DEF v
  <2> QED BY <1>1, <1>2, <1>4, <2>1, <2>2, <2>3, HandlerStep
<1>5. CASE /\ ~user[current].usernameVerified /\ RowOf(Arg) = NoRow
           /\ AnswerAndRemove(<<UsernameResponse(FALSE)>>, <<Row("unknownUser", Arg)>>)
           /\ UNCHANGED user
  <2>1. <<Row("unknownUser", Arg)>> \in Seq(LogRow)
    BY <1>1 DEF Row, LogRow
  <2> QED BY <1>1, <1>5, <2>1, HandlerKeeps
<1> QED BY <1>3, <1>4, <1>5 DEF onReadLoginSetUsername, AlreadyNamed

\* onReadLoginSetPassword: only "passwd" changes, and stays well formed.
LEMMA PasswordInv ==
  ASSUME ServerInv, onReadLoginSetPassword
  PROVE  /\ user' \in [Conn -> Session] /\ log' \in [Conn -> Seq(LogRow)]
         /\ LoginRules'
         /\ passwd' \in [User -> Password \cup {NoRow}]
<1> USE BurstsQueued
<1>1. status = "callback" /\ current \in Conn /\ Arg \in Password
  BY RequestTaken DEF onReadLoginSetPassword
<1>2. <<>> \in Seq(LogRow) /\ user' = user
  BY EmptySeq DEF onReadLoginSetPassword
<1>3. \E ms \in Burst : Answer(ms, <<>>) \/ AnswerAndRemove(ms, <<>>)
  BY DEF onReadLoginSetPassword
<1>4. passwd' \in [User -> Password \cup {NoRow}]
  BY <1>1 DEF onReadLoginSetPassword, UpdatedPasswd, ServerInv, ServerTypeOK
<1> QED BY <1>1, <1>2, <1>3, <1>4, HandlerKeeps

\* onReadLoginAuthenticate: the login is logged before it counts, and the third
\* wrong password takes the session out of the vector.
LEMMA AuthenticateInv ==
  ASSUME ServerInv, onReadLoginAuthenticate
  PROVE  /\ user' \in [Conn -> Session] /\ log' \in [Conn -> Seq(LogRow)]
         /\ LoginRules'
<1> USE BurstsQueued
<1>1. status = "callback" /\ current \in Conn /\ user[current] \in Session
  BY RequestTaken DEF onReadLoginAuthenticate
<1>2. <<>> \in Seq(LogRow) /\ Username \in User \cup {NoUser}
  BY <1>1, EmptySeq DEF Session, Username
<1>3. ASSUME user' = user,
             \/ AnswerAndRemove(<<Display>>, <<>>)
             \/ AnswerAndRemove(<<Display, AuthenticateResponse(FALSE)>>, <<>>)
      PROVE  /\ user' \in [Conn -> Session] /\ log' \in [Conn -> Seq(LogRow)]
             /\ LoginRules'
  <2>1. \E ms \in Burst : AnswerAndRemove(ms, <<>>)
    BY <1>3
  <2> QED BY <1>1, <1>2, <1>3, <2>1, HandlerKeeps
<1>4. CASE user[current].usernameVerified /\ RightPassword
  <2> DEFINE v == [user[current] EXCEPT !.passwordAttempts = @ + 1,
                                        !.passwordVerified = TRUE]
             rows == <<Row("loggedIn", Username)>>
  <2>1. user' = [user EXCEPT ![current] = v] /\ v \in Session
    <3>1. user[current].passwordAttempts + 1 \in Nat
      BY <1>1 DEF Session
    <3>2. v \in Session
      BY <1>1, <3>1 DEF Session
    <3>3. user' = [user EXCEPT ![current] = v]
      BY <1>1, <1>4 DEF RightPassword, ServerInv, ServerTypeOK, Session
    <3> QED BY <3>2, <3>3
  <2>2. /\ v.usernameVerified /\ v.passwordVerified
        /\ v.username = Username
    BY <1>1, <1>4 DEF Session, Username
  <2>3. rows \in Seq(LogRow) /\ Row("loggedIn", v.username) \in Range(rows)
    <3>1. Row("loggedIn", Username) \in LogRow
      BY <1>2 DEF Row, LogRow
    <3> QED BY <2>2, <3>1 DEF Range
  <2>4. PICK ms \in Burst : Answer(ms, rows)
    BY <1>4 DEF RightPassword
  <2> HIDE DEF v, rows
  <2> QED BY <1>1, <2>1, <2>2, <2>3, <2>4, HandlerStep
<1>5. CASE user[current].usernameVerified /\ WrongPassword
  <2> DEFINE attempts == user[current].passwordAttempts + 1
             v == [user[current] EXCEPT !.passwordAttempts = attempts]
             ms == <<Display, AuthenticateResponse(FALSE)>>
  <2>1. user' = [user EXCEPT ![current] = v] /\ v \in Session
    BY <1>1, <1>5 DEF Session, WrongPassword
  <2>2. /\ v.passwordVerified => user[current].passwordVerified
        /\ v.usernameVerified /\ v.username = user[current].username
        /\ v.passwordAttempts = attempts /\ attempts \in Nat
    BY <1>1, <1>5 DEF Session
  <2>3. /\ v.passwordVerified => v.usernameVerified
        /\ NumbersSuffice /\ v.passwordVerified =>
             Row("loggedIn", v.username) \in Range(log[current])
    BY <1>1, <2>2 DEF ServerInv, LoginRecorded
  <2>4. PICK rows \in Seq(LogRow) :
          \/ attempts >= 3 /\ AnswerAndRemove(ms, rows)
          \/ attempts < 3 /\ Answer(ms, rows)
    <3>1. <<Row("twoFailures", Username)>> \in Seq(LogRow)
      BY <1>2 DEF Row, LogRow
    <3>2. CASE attempts >= 3 /\ AnswerAndRemove(ms, <<>>)
      BY <1>2, <3>2
    <3>3. CASE attempts < 3 /\ Answer(ms, <<Row("twoFailures", Username)>>)
      BY <3>1, <3>3
    <3>4. CASE attempts < 2 /\ Answer(ms, <<>>)
      <4>1. attempts < 3
        BY <2>2, <3>4
      <4> QED BY <1>2, <3>4, <4>1
    <3>5. ~Exhausted(attempts) => attempts < 3
      BY <2>2 DEF Exhausted
    <3>6. \/ Exhausted(attempts) /\ AnswerAndRemove(ms, <<>>)
          \/ attempts >= 2 /\ ~Exhausted(attempts)
             /\ Answer(ms, <<Row("twoFailures", Username)>>)
          \/ attempts < 2 /\ Answer(ms, <<>>)
      BY <1>5 DEF WrongPassword
    <3>7. Exhausted(attempts) => attempts >= 3
      BY DEF Exhausted
    <3> QED BY <3>2, <3>3, <3>4, <3>5, <3>6, <3>7
  <2>5. v.passwordAttempts >= 3 => AnswerAndRemove(ms, rows)
    BY <2>2, <2>4
  <2>6. ms \in Burst /\ (Answer(ms, rows) \/ AnswerAndRemove(ms, rows))
    BY <2>4
  <2> HIDE DEF v, ms, attempts
  <2> QED BY <1>1, <2>1, <2>3, <2>5, <2>6, HandlerStep
<1> QED BY <1>3, <1>4, <1>5 DEF onReadLoginAuthenticate

(***************************************************************************)
(* The invariant is inductive.                                             *)
(***************************************************************************)

\* The state the server starts in satisfies the invariant.
LEMMA ServerInitInv == ServerInit => ServerInv
<1> SUFFICES ASSUME ServerInit PROVE ServerInv
  OBVIOUS
<1>1. SelectorInv
  BY InitInv DEF ServerInit
<1>2. NewSession \in Session /\ ~NewSession.passwordVerified
      /\ NewSession.passwordAttempts = 0
  BY DEF NewSession, Session
<1>3. ServerTypeOK
  <2>1. /\ <<>> \in Seq(Conn) /\ <<>> \in Seq(Request) /\ <<>> \in Seq(LogRow)
        /\ 0 \in 0..MaxRequests
    BY EmptySeq, ServerAssumption
  <2>2. /\ peer \in [Conn -> {"none", "open", "streaming", "closed"}]
        /\ sent \in [Conn -> 0..MaxRequests] /\ recvq \in [Conn -> Seq(Request)]
        /\ log \in [Conn -> Seq(LogRow)]
    BY <2>1 DEF ServerInit
  <2>3. user \in [Conn -> Session] /\ passwd \in [User -> Password \cup {NoRow}]
    BY <1>2, ServerAssumption DEF ServerInit
  <2>4. backlog \in Seq(Conn) /\ inbuf \in Seq(Request)
    BY <2>1 DEF ServerInit
  <2>5. SelectorTypeOK
    BY <1>1 DEF SelectorInv
  <2> QED BY <2>2, <2>3, <2>4, <2>5 DEF ServerTypeOK
<1>4. LoginRecorded /\ AttemptLimit /\ VerifiedNamed
  BY <1>2 DEF ServerInit, LoginRecorded, AttemptLimit, VerifiedNamed
<1> QED BY <1>1, <1>3, <1>4 DEF ServerInv

\* The environment touches no session.
LEMMA EnvironmentInv ==
  ASSUME ServerInv, Environment
  PROVE  ServerTypeOK' /\ LoginRules'
<1> USE DEF ServerInv
<1>1. UNCHANGED <<selectorVars, inbuf, user, log>> /\ Registered' = Registered
  BY DEF Environment, Connect, Send, SendPart, Close, AddUser, DropUser, sessionVars,
         selectorVars, Registered
<1>2. LoginRules'
  BY <1>1, RulesKept
<1>3. SelectorTypeOK'
  BY <1>1 DEF SelectorInv, SelectorTypeOK, selectorVars
<1>4. ASSUME NEW c \in Conn, Connect(c)
      PROVE  ServerTypeOK'
  <2>1. Append(backlog, c) \in Seq(Conn)
    BY AppendProperties DEF ServerTypeOK
  <2> QED BY <1>1, <1>3, <1>4, <2>1 DEF Connect, ServerTypeOK, sessionVars
<1>5. ASSUME NEW c \in Conn, NEW r \in Request, Send(c, r)
      PROVE  ServerTypeOK'
  <2>1. Append(recvq[c], r) \in Seq(Request)
    BY AppendProperties DEF ServerTypeOK
  <2>2. sent[c] + 1 \in 0..MaxRequests
    BY <1>5, ServerAssumption DEF Send, ServerTypeOK
  <2> QED BY <1>1, <1>3, <1>5, <2>1, <2>2 DEF Send, ServerTypeOK, sessionVars
<1>6. ASSUME NEW c \in Conn, Close(c)
      PROVE  ServerTypeOK'
  BY <1>1, <1>3, <1>6 DEF Close, ServerTypeOK, sessionVars
<1>8. ASSUME NEW c \in Conn, SendPart(c)
      PROVE  ServerTypeOK'
  <2>1. Append(recvq[c], Part) \in Seq(Request)
    BY <1>8, AppendProperties DEF SendPart, ServerTypeOK
  <2> QED BY <1>1, <1>3, <1>8, <2>1 DEF SendPart, ServerTypeOK, sessionVars
<1>7. ASSUME NEW u \in User, DropUser(u) \/ \E p \in Password : AddUser(u, p)
      PROVE  ServerTypeOK'
  BY <1>1, <1>3, <1>7 DEF DropUser, AddUser, ServerTypeOK, environmentVars
<1> QED BY <1>2, <1>4, <1>5, <1>6, <1>7, <1>8 DEF Environment

\* The handlers of the pass that leave every session registered as it was, or
\* remove one.
LEMMA PassInv ==
  ASSUME ServerInv, SelectorInv',
         Pass \/ (\E wr, ex \in SUBSET RegisteredNumbers : ServerPoll(wr, ex))
         \/ ServerInterrupt \/ shutdown
  PROVE  ServerTypeOK' /\ LoginRules'
<1>0. SelectorTypeOK'
  BY DEF SelectorInv
<1>1. ASSUME UNCHANGED <<environmentVars, inbuf, sessionVars>>,
             Registered' \subseteq Registered
      PROVE  ServerTypeOK' /\ LoginRules'
  BY <1>0, <1>1, RulesKept DEF ServerInv, ServerTypeOK, environmentVars, sessionVars
<1>2. CASE \E wr, ex \in SUBSET RegisteredNumbers : ServerPoll(wr, ex)
  BY <1>1, <1>2 DEF ServerPoll, Poll, Polling, Registered
<1>3. CASE ServerSkip \/ AcceptFails \/ ServerInterrupt
  BY <1>1, <1>3 DEF ServerSkip, Skip, AcceptFails, AcceptNothing, ServerInterrupt,
                    Interrupt, Polling, Registered
<1>4. CASE shutdown
  <2>1. Registered' = {}
    <3>1. DOMAIN fds' = {}
      BY <1>4, EmptySeq, LenProperties DEF shutdown, ClearFDs
    <3> QED BY <3>1 DEF Registered, Range
  <2> QED BY <1>1, <1>4, <2>1 DEF shutdown
<1>5. ASSUME NEW c \in Conn, FlushKills(c) \/ \E k \in 1..Len(wbuf[c]) : Flush(c, k)
      PROVE  ServerTypeOK' /\ LoginRules'
  BY <1>1, <1>5 DEF FlushKills, WriteKills, Flush, Write, Registered
<1>6. ASSUME NEW c \in Conn, ConnectionLost(c) \/ FlushFails(c) \/ Urgent(c)
      PROVE  ServerTypeOK' /\ LoginRules'
  <2> DEFINE row == Row("disconnected", user[c].username)
  <2>1. row \in LogRow
    BY DEF Row, LogRow, ServerInv, ServerTypeOK, Session
  <2>2. log' = Logged(c, <<row>>, FreeNumbers)
    BY <1>6 DEF ConnectionLost, FlushFails, Urgent, LogClose
  <2>3. Registered' \subseteq Registered
    <3>1. RemoveFD(HeadFD, wbuf)
      BY <1>6 DEF ConnectionLost, ReadFails, FlushFails, WriteFails, Urgent, ExceptFD
    <3> QED BY <3>1, RemoveFDEffect DEF ServerInv, SelectorInv, SelectorTypeOK
  <2>4. UNCHANGED <<environmentVars, inbuf, user, passwd>>
    BY <1>6 DEF ConnectionLost, FlushFails, Urgent
  <2> HIDE DEF row
  <2>5. log' \in [Conn -> Seq(LogRow)] /\ LoginRules'
    BY <2>1, <2>2, <2>3, <2>4, TwoFree, SessionsKept DEF ServerInv, ServerTypeOK
  <2> QED BY <1>0, <2>4, <2>5 DEF ServerInv, ServerTypeOK, environmentVars
<1>7. ASSUME NEW c \in Conn, RefuseConnection(c)
      PROVE  ServerTypeOK' /\ LoginRules'
  <2> DEFINE row == Row("refused", NoUser)
  <2>1. row \in LogRow
    BY DEF Row, LogRow
  <2>2. log' = Logged(c, <<row>>, AfterAccept)
    BY <1>7 DEF RefuseConnection
  <2>3. Registered' \subseteq Registered
    BY <1>7 DEF RefuseConnection, AcceptNothing, Registered
  <2>4. backlog' \in Seq(Conn)
    BY <1>7, HeadTailProperties DEF RefuseConnection, Accepted, ServerInv, ServerTypeOK
  <2>5. UNCHANGED <<peer, sent, recvq, inbuf, user, passwd>>
    BY <1>7 DEF RefuseConnection
  <2> HIDE DEF row
  <2>6. NumbersSuffice => TwoIn(AfterAccept)
    BY <1>7, TwoFree
      DEF RefuseConnection, Accepted, Conn, ServerInv, ServerTypeOK
  <2>7. log' \in [Conn -> Seq(LogRow)] /\ LoginRules'
    BY <2>1, <2>2, <2>3, <2>5, <2>6, SessionsKept
  <2> QED BY <1>0, <2>4, <2>5, <2>7 DEF ServerInv, ServerTypeOK
<1>8. ASSUME NEW c \in Conn, AcceptConnection(c)
      PROVE  ServerTypeOK' /\ LoginRules'
  <2> DEFINE rows == <<Row("connected", NoUser)>>
  <2>1. rows \in Seq(LogRow) /\ NewSession \in Session
        /\ ~NewSession.passwordVerified /\ ~(NewSession.passwordAttempts >= 3)
    BY DEF Row, LogRow, NewSession, Session
  <2>2. /\ log' = Logged(c, rows, AfterAccept)
        /\ user' = [user EXCEPT ![c] = NewSession]
        /\ UNCHANGED <<peer, sent, recvq, inbuf, passwd>>
    BY <1>8 DEF AcceptConnection
  <2>3. backlog' \in Seq(Conn)
    BY <1>8, HeadTailProperties DEF AcceptConnection, Accepted, ServerInv, ServerTypeOK
  <2>4. user \in [Conn -> Session] /\ log \in [Conn -> Seq(LogRow)]
    BY DEF ServerInv, ServerTypeOK
  <2>5. NumbersSuffice => TwoIn(AfterAccept)
    BY <1>8, TwoFree
      DEF AcceptConnection, Accepted, Conn, ServerInv, ServerTypeOK
  <2> HIDE DEF rows
  <2>6. /\ user' \in [Conn -> Session] /\ log' \in [Conn -> Seq(LogRow)]
        /\ NumbersSuffice => log' = [log EXCEPT ![c] = @ \o rows]
    BY <2>1, <2>2, <2>4, <2>5, LoggedEffect
  <2>7. /\ user'[c] = NewSession
        /\ \A d \in Conn : d # c => user'[d] = user[d]
    BY <2>2, <2>4
  <2>8. ASSUME NumbersSuffice PROVE LoginRecorded'
    <3>1. \A d \in Conn : d # c => log'[d] = log[d]
      BY <2>4, <2>6, <2>8
    <3> QED BY <2>1, <2>7, <2>8, <3>1 DEF ServerInv, LoginRecorded, Row
  <2>9. \A d \in Registered' : d # c => d \in Registered
    <3>1. fds' = Append(fds, c) /\ fds \in Seq(Desc) /\ c \in Desc
      BY <1>8 DEF AcceptConnection, AcceptFD, ServerInv, SelectorInv, SelectorTypeOK
    <3>2. c \notin Registered
      BY <1>8, <3>1 DEF AcceptConnection, AcceptFD, ServerInv, SelectorInv, OpenWhileRegistered
    <3> QED BY <3>1, <3>2, RangeAppend DEF Registered, ServerInv, SelectorInv, RegisteredOnce
  <2>10. AttemptLimit' /\ VerifiedNamed'
    BY <2>1, <2>7, <2>9 DEF ServerInv, AttemptLimit, VerifiedNamed
  <2> QED BY <1>0, <2>2, <2>3, <2>6, <2>8, <2>10
        DEF ServerInv, ServerTypeOK, LoginRules
<1>9. ASSUME NEW c \in Conn, NEW k \in 1..Len(recvq[c]), ReadRequests(c, k)
      PROVE  ServerTypeOK' /\ LoginRules'
  <2>1. recvq[c] \in Seq(Request) /\ Len(recvq[c]) \in Nat
        /\ \A i \in 1..Len(recvq[c]) : recvq[c][i] \in Request
    BY LenProperties, ElementOfSeq DEF ServerInv, ServerTypeOK
  <2>2. SubSeq(recvq[c], 1, k) \in Seq(Request)
    <3>1. k \in Int /\ \A i \in 1..k : recvq[c][i] \in Request
      BY <2>1
    <3> QED BY <3>1, SubSeqProperties
  <2>3. SubSeq(recvq[c], k + 1, Len(recvq[c])) \in Seq(Request)
    <3>1. /\ k + 1 \in Int /\ Len(recvq[c]) \in Int
          /\ \A i \in (k + 1)..Len(recvq[c]) : recvq[c][i] \in Request
      BY <2>1
    <3> QED BY <3>1, SubSeqProperties
  <2>4. /\ inbuf' \in Seq(Request) /\ recvq' \in [Conn -> Seq(Request)]
        /\ UNCHANGED <<backlog, peer, sent, user, passwd, log>> /\ fds' = fds
    BY <1>9, <2>2, <2>3 DEF ReadRequests, StartCallback, sessionVars, ServerInv, ServerTypeOK
  <2>5. LoginRules'
    BY <2>4, RulesKept DEF Registered
  <2> QED BY <1>0, <2>4, <2>5 DEF ServerInv, ServerTypeOK
<1> QED BY <1>2, <1>3, <1>4, <1>5, <1>6, <1>7, <1>8, <1>9 DEF Pass

\* Every handler of onRead, and its return, keeps the invariant.
LEMMA ReadInv ==
  ASSUME ServerInv, SelectorInv', onRead
  PROVE  ServerTypeOK' /\ LoginRules'
<1>0. SelectorTypeOK'
  BY DEF SelectorInv
<1>1. ASSUME inbuf' \in Seq(Request), UNCHANGED environmentVars,
             passwd' \in [User -> Password \cup {NoRow}],
             user' \in [Conn -> Session], log' \in [Conn -> Seq(LogRow)]
      PROVE  ServerTypeOK'
  BY <1>0, <1>1 DEF ServerInv, ServerTypeOK, environmentVars
<1>2. passwd \in [User -> Password \cup {NoRow}]
  BY DEF ServerInv, ServerTypeOK
<1>3. CASE onReadInfoRequest \/ onReadUnknown
  <2>1. /\ status = "callback" /\ inbuf' \in Seq(Request)
        /\ UNCHANGED <<environmentVars, user, passwd>>
    BY <1>3, RequestTaken DEF onReadInfoRequest, onReadUnknown
  <2>2. \E ms \in Burst : Answer(ms, <<>>)
    BY <1>3, BurstsQueued DEF onReadInfoRequest, onReadUnknown
  <2>3. /\ user' \in [Conn -> Session] /\ log' \in [Conn -> Seq(LogRow)]
        /\ LoginRules'
    BY <2>1, <2>2, EmptySeq, HandlerKeeps
  <2> QED BY <1>1, <1>2, <2>1, <2>3
<1>4. CASE onReadDisplayMessage
  <2>1. UNCHANGED <<selectorVars, environmentVars, inbuf, sessionVars>>
    BY <1>4 DEF onReadDisplayMessage, serverVars
  <2>2. LoginRules'
    BY <2>1, RulesKept DEF selectorVars, sessionVars, Registered
  <2> QED BY <1>0, <2>1, <2>2 DEF ServerInv, ServerTypeOK, environmentVars, sessionVars
<1>5. CASE onReadLoginSetUsername
  <2>1. inbuf' \in Seq(Request) /\ UNCHANGED <<environmentVars, passwd>>
    BY <1>5, RequestTaken DEF onReadLoginSetUsername
  <2> QED BY <1>1, <1>2, <1>5, <2>1, UsernameInv
<1>6. CASE onReadLoginSetPassword
  <2>1. inbuf' \in Seq(Request) /\ UNCHANGED environmentVars
    BY <1>6, RequestTaken DEF onReadLoginSetPassword
  <2> QED BY <1>1, <1>6, <2>1, PasswordInv
<1>7. CASE onReadLoginAuthenticate
  <2>1. inbuf' \in Seq(Request) /\ UNCHANGED <<environmentVars, passwd>>
    BY <1>7, RequestTaken DEF onReadLoginAuthenticate
  <2> QED BY <1>1, <1>2, <1>7, <2>1, AuthenticateInv
<1>8. CASE ReadDone
  <2>1. UNCHANGED <<fds, environmentVars, inbuf, sessionVars>>
    BY <1>8 DEF ReadDone, EndCallback
  <2>2. LoginRules'
    BY <2>1, RulesKept DEF Registered, sessionVars
  <2> QED BY <1>0, <2>1, <2>2 DEF ServerInv, ServerTypeOK, environmentVars, sessionVars
<1>9. CASE PartKept
  <2>1. inbuf' \in Seq(Request) /\ UNCHANGED <<selectorVars, environmentVars, sessionVars>>
    BY <1>9, RequestTaken DEF PartKept
  <2>2. LoginRules'
    BY <2>1, RulesKept DEF selectorVars, sessionVars, Registered
  <2> QED BY <1>0, <2>1, <2>2 DEF ServerInv, ServerTypeOK, environmentVars, sessionVars
<1> QED BY <1>3, <1>4, <1>5, <1>6, <1>7, <1>8, <1>9 DEF onRead

\* Every step of the server, its peers and the password file keeps the invariant.
LEMMA ServerNextInv ==
  ASSUME ServerInv, [ServerNext]_serverVars
  PROVE  ServerInv'
<1>1. SelectorInv'
  BY StepSimulation, NextInv DEF ServerInv
<1>2. CASE Environment
  BY <1>1, <1>2, EnvironmentInv DEF ServerInv, LoginRules
<1>3. CASE Pass \/ (\E wr, ex \in SUBSET RegisteredNumbers : ServerPoll(wr, ex))
           \/ ServerInterrupt \/ shutdown
  BY <1>1, <1>3, PassInv DEF ServerInv, LoginRules
<1>4. CASE onRead
  BY <1>1, <1>4, ReadInv DEF ServerInv, LoginRules
<1>5. CASE ServerTerminated \/ UNCHANGED serverVars
  <2>1. UNCHANGED serverVars
    BY <1>5 DEF ServerTerminated
  <2>2. LoginRules'
    BY <2>1, RulesKept DEF serverVars, selectorVars, sessionVars, Registered
  <2> QED BY <1>1, <2>1, <2>2
        DEF serverVars, environmentVars, sessionVars, ServerInv, ServerTypeOK,
            SelectorInv, LoginRules
<1> QED BY <1>2, <1>3, <1>4, <1>5 DEF ServerNext

(***************************************************************************)
(* Theorems.                                                               *)
(***************************************************************************)

\* The server's inductive invariant: the loop's, the types, and the two login
\* rules, for any connections, users, passwords and requests.
THEOREM ServerInvariance == ServerSpec => []ServerInv
<1>1. ServerInit => ServerInv
  BY ServerInitInv
<1>2. ServerInv /\ [ServerNext]_serverVars => ServerInv'
  BY ServerNextInv
<1> QED BY <1>1, <1>2, PTL DEF ServerSpec

\* Every variable of the server keeps its type.
THEOREM ServerTypeCorrect == ServerSpec => []ServerTypeOK
<1>1. ServerInv => ServerTypeOK
  BY DEF ServerInv
<1> QED BY <1>1, ServerInvariance, PTL

\* No session that spent its three attempts without success stays registered.
THEOREM AttemptLimitHolds == ServerSpec => []AttemptLimit
<1>1. ServerInv => AttemptLimit
  BY DEF ServerInv
<1> QED BY <1>1, ServerInvariance, PTL

\* While numbers suffice, a session is verified only under the name its logged
\* login was for.
THEOREM LoginRecordedHolds == NumbersSuffice => (ServerSpec => []LoginRecorded)
<1> SUFFICES ASSUME NumbersSuffice PROVE ServerSpec => []LoginRecorded
  OBVIOUS
<1>1. ServerInv => LoginRecorded
  BY DEF ServerInv
<1> QED BY <1>1, ServerInvariance, PTL

\* While numbers suffice, a password is changed only by a session whose login
\* under the same name is in the log.
THEOREM PasswordChangeAuthorisedHolds ==
  NumbersSuffice => (ServerSpec => PasswordChangeAuthorised)
<1> SUFFICES ASSUME NumbersSuffice PROVE ServerSpec => PasswordChangeAuthorised
  OBVIOUS
<1>1. ServerInv /\ [ServerNext]_serverVars => [AuthorisedChange]_serverVars
  <2> SUFFICES ASSUME ServerInv, ServerNext, NEW u \in User,
                      passwd[u] # NoRow, passwd'[u] \notin {NoRow, passwd[u]}
               PROVE  status = "callback" /\ Row("loggedIn", u) \in Range(log[current])
    BY DEF AuthorisedChange
  <2>1. CASE Environment
    <3>1. passwd \in [User -> Password \cup {NoRow}]
      BY DEF ServerInv, ServerTypeOK
    <3> QED BY <2>1, <3>1
          DEF Environment, Connect, Send, SendPart, Close, AddUser, DropUser, sessionVars
  <2>2. CASE onRead
    <3>1. onReadLoginSetPassword
      BY <2>2 DEF onRead, onReadInfoRequest, onReadUnknown, onReadDisplayMessage,
                  onReadLoginSetUsername, onReadLoginAuthenticate, PartKept,
                  ReadDone, serverVars, sessionVars
    <3>2. status = "callback" /\ current \in Conn
      BY <3>1, RequestTaken DEF onReadLoginSetPassword
    <3>3. /\ user[current].passwordVerified
          /\ passwd' = [passwd EXCEPT ![Username] = Arg]
      BY <3>1 DEF onReadLoginSetPassword, UpdatedPasswd
    <3>4. u = Username
      BY <3>3 DEF ServerInv, ServerTypeOK
    <3> QED BY <3>2, <3>3, <3>4 DEF ServerInv, LoginRecorded, Username
  <2>3. CASE Pass \/ (\E wr, ex \in SUBSET RegisteredNumbers : ServerPoll(wr, ex))
             \/ ServerInterrupt \/ shutdown \/ ServerTerminated
    BY <2>3 DEF Pass, ServerPoll, ServerInterrupt, shutdown, ServerTerminated,
                ServerSkip, AcceptConnection, RefuseConnection, AcceptFails,
                ReadRequests, ConnectionLost, Flush, FlushFails, FlushKills, Urgent,
                serverVars, sessionVars
  <2> QED BY <2>1, <2>2, <2>3 DEF ServerNext
<1> QED BY <1>1, ServerInvariance, PTL DEF ServerSpec, PasswordChangeAuthorised

(***************************************************************************)
(* The reserve of descriptor numbers.                                      *)
(***************************************************************************)

\* Only an accepted connection takes a number.
LEMMA NumbersFreed ==
  ASSUME SelectorInv, [ServerNext]_serverVars, \A c \in Conn : ~AcceptConnection(c)
  PROVE  \A d \in Desc : num'[d] \in {num[d], NoFd}
<1> USE DEF SelectorInv
<1>0. num \in [Desc -> FdNum \cup {NoFd}]
  BY DEF SelectorTypeOK
<1>1. ASSUME NEW w, RemoveFD(HeadFD, w)
      PROVE  \A d \in Desc : num'[d] \in {num[d], NoFd}
  BY <1>0, <1>1 DEF RemoveFD, Destroy
<1>2. CASE Environment
  BY <1>2 DEF Environment, Connect, Send, SendPart, Close, AddUser, DropUser, selectorVars
<1>3. CASE \E wr, ex \in SUBSET RegisteredNumbers : ServerPoll(wr, ex)
  BY <1>3 DEF ServerPoll, Poll
<1>4. CASE Pass
  <2>1. CASE ServerSkip \/ AcceptFails \/ \E c \in Conn : RefuseConnection(c)
    BY <2>1 DEF ServerSkip, Skip, AcceptFails, RefuseConnection, AcceptNothing
  <2>2. ASSUME NEW c \in Conn, NEW k \in 1..Len(recvq[c]), ReadRequests(c, k)
        PROVE  num' = num
    BY <2>2 DEF ReadRequests, StartCallback
  <2>3. ASSUME NEW c \in Conn,
               FlushKills(c) \/ \E k \in 1..Len(wbuf[c]) : Flush(c, k)
        PROVE  num' = num
    BY <2>3 DEF FlushKills, WriteKills, Flush, Write
  <2>4. ASSUME NEW c \in Conn, ConnectionLost(c) \/ FlushFails(c) \/ Urgent(c)
        PROVE  RemoveFD(HeadFD, wbuf)
    BY <2>4 DEF ConnectionLost, ReadFails, FlushFails, WriteFails, Urgent, ExceptFD
  <2> QED BY <1>1, <1>4, <2>1, <2>2, <2>3, <2>4 DEF Pass
<1>5. CASE onRead
  <2>1. CASE ReadDone
    BY <1>0, <2>1 DEF ReadDone, EndCallback, Destroy
  <2>2. CASE onReadDisplayMessage \/ PartKept
    BY <2>2 DEF onReadDisplayMessage, PartKept, serverVars, selectorVars
  <2>3. CASE \/ onReadInfoRequest \/ onReadUnknown \/ onReadLoginSetUsername
             \/ onReadLoginSetPassword \/ onReadLoginAuthenticate
    BY <1>1, <2>3, HandlerSimulation DEF CallbackWrite, CallbackRemove
  <2> QED BY <1>5, <2>1, <2>2, <2>3 DEF onRead
<1>6. CASE shutdown
  BY <1>6 DEF shutdown, ClearFDs
<1>7. CASE ServerInterrupt \/ ServerTerminated \/ UNCHANGED serverVars
  BY <1>7 DEF ServerInterrupt, Interrupt, ServerTerminated, serverVars, selectorVars
<1> QED BY <1>2, <1>3, <1>4, <1>5, <1>6, <1>7 DEF ServerNext

\* The listening socket and one more number are enough for the server never to
\* use up its numbers: an accepted connection takes the lowest free one, and is
\* kept only if the whitelist could be opened with another.
THEOREM ReserveKeptHolds ==
  (\E m, n \in FdNum : m # n) => (ServerSpec => []ReserveKept)
<1> SUFFICES ASSUME \E m, n \in FdNum : m # n PROVE ServerSpec => []ReserveKept
  OBVIOUS
<1>1. ServerInit => ReserveKept
  <2> SUFFICES ASSUME ServerInit PROVE ReserveKept
    OBVIOUS
  <2>1. Range(Initial) = {Listener}
    BY ServerAssumption DEF Range
  <2>2. \A d \in Desc : d # Listener => num[d] = NoFd
    BY <2>1 DEF ServerInit, SelectorInit
  <2>3. PICK n \in FdNum : n # num[Listener]
    OBVIOUS
  <2>4. n # NoFd
    BY FdNumAssumption DEF NoFd
  <2>5. \A d \in Desc : num[d] # n
    BY <2>2, <2>3, <2>4
  <2> QED BY <2>5 DEF ReserveKept, FreeNumbers
<1>2. ReserveKept /\ SelectorInv /\ [ServerNext]_serverVars => ReserveKept'
  <2> SUFFICES ASSUME ReserveKept, SelectorInv, [ServerNext]_serverVars
               PROVE  ReserveKept'
    OBVIOUS
  <2>0. num \in [Desc -> FdNum \cup {NoFd}]
    BY DEF SelectorInv, SelectorTypeOK
  <2>1. ASSUME NEW c \in Conn, AcceptConnection(c)
        PROVE  ReserveKept'
    <3>1. PICK n \in AfterAccept : TRUE
      BY <2>1 DEF AcceptConnection, Welcome
    <3>2. PICK a \in FreeNumbers : /\ \A m \in FreeNumbers : a <= m
                                  /\ num' = [num EXCEPT ![c] = a]
      BY <2>1 DEF AcceptConnection, AcceptFD
    <3>3. n \in FreeNumbers /\ n # a
      <4>1. PICK m \in FreeNumbers : m < n
        BY <3>1 DEF AfterAccept
      <4>2. a \in Nat /\ m \in Nat /\ n \in Nat /\ n \in FreeNumbers
        BY <3>1, FdNumAssumption DEF AfterAccept, FreeNumbers
      <4> QED BY <3>2, <4>1, <4>2
    <3>4. \A d \in Desc : num'[d] # n
      BY <2>0, <3>2, <3>3 DEF FreeNumbers
    <3> QED BY <3>3, <3>4 DEF ReserveKept, FreeNumbers
  <2>2. CASE \A c \in Conn : ~AcceptConnection(c)
    <3>1. PICK n \in FreeNumbers : TRUE
      BY DEF ReserveKept
    <3>2. n \in FdNum /\ n # NoFd /\ \A d \in Desc : num[d] # n
      BY <3>1, FdNumAssumption DEF FreeNumbers, NoFd
    <3>3. \A d \in Desc : num'[d] # n
      BY <2>2, <3>2, NumbersFreed
    <3> QED BY <3>2, <3>3 DEF ReserveKept, FreeNumbers
  <2> QED BY <2>1, <2>2
<1> QED BY <1>1, <1>2, ServerSelectorInv, PTL DEF ServerSpec

(***************************************************************************)
(* The ends in the log.                                                    *)
(***************************************************************************)

\* How many rows of an event there are in one log after another.
LEMMA CountConcat ==
  ASSUME NEW S, NEW s \in Seq(S), NEW t \in Seq(S), NEW e
  PROVE  /\ EventCount(s, e) \in Nat
         /\ EventCount(s \o t, e) = EventCount(s, e) + EventCount(t, e)
<1> DEFINE n == Len(s)
           P == {k \in DOMAIN s : s[k].event = e}
           Q == {k \in DOMAIN t : t[k].event = e}
           R == {k \in DOMAIN (s \o t) : (s \o t)[k].event = e}
           T == {n + k : k \in Q}
<1>1. /\ n \in Nat /\ DOMAIN s = 1..n /\ Len(t) \in Nat /\ DOMAIN t = 1..Len(t)
      /\ DOMAIN (s \o t) = 1..(n + Len(t))
      /\ \A i \in 1..(n + Len(t)) : (s \o t)[i] = IF i <= n THEN s[i] ELSE t[i - n]
  <2>1. s \o t \in Seq(S) /\ Len(s \o t) = n + Len(t)
    BY ConcatProperties
  <2> QED BY <2>1, LenProperties, ConcatProperties
<1>2. /\ IsFiniteSet(P) /\ IsFiniteSet(Q)
  <2>1. IsFiniteSet(1..n) /\ IsFiniteSet(1..Len(t))
    <3>1. \A b \in Nat : IsFiniteSet(1..b)
      <4> TAKE b \in Nat
      <4>1. PICK a \in Int : a = 1
        OBVIOUS
      <4> QED BY <4>1, FS_Interval
    <3> QED BY <1>1, <3>1
  <2>2. P \in SUBSET (1..n) /\ Q \in SUBSET (1..Len(t))
    BY <1>1
  <2> HIDE DEF P, Q
  <2> QED BY <2>1, <2>2, FS_Subset
<1>3. IsFiniteSet(T) /\ Cardinality(T) = Cardinality(Q)
  <2> DEFINE f == [k \in Q |-> n + k]
  <2>1. f \in Injection(Q, T)
    <3>1. \A j, k \in Q : n + j = n + k => j = k
      BY <1>1
    <3> QED BY <3>1 DEF Injection, IsInjective
  <2>2. f \in Surjection(Q, T)
    BY DEF Surjection
  <2>3. ExistsBijection(Q, T)
    BY <2>1, <2>2 DEF ExistsBijection, Bijection
  <2> HIDE DEF Q, T
  <2> QED BY <1>2, <2>3, FS_Bijection
<1>4. R = P \cup T
  <2>1. \A k \in P : k \in R
    BY <1>1
  <2>2. \A k \in Q : n + k \in R
    <3> TAKE k \in Q
    <3>1. k \in 1..Len(t) /\ t[k].event = e
      BY <1>1
    <3>2. n + k \in 1..(n + Len(t)) /\ ~(n + k <= n) /\ (n + k) - n = k
      BY <1>1, <3>1
    <3> QED BY <1>1, <3>1, <3>2
  <2>3. ASSUME NEW k \in R PROVE k \in P \cup T
    <3>1. k \in 1..(n + Len(t)) /\ (s \o t)[k].event = e
      BY <1>1
    <3>2. CASE k <= n
      BY <1>1, <3>1, <3>2
    <3>3. CASE k > n
      <4>1. k - n \in 1..Len(t) /\ t[k - n].event = e /\ k = n + (k - n)
        BY <1>1, <3>1, <3>3
      <4>2. k - n \in Q
        BY <1>1, <4>1
      <4> QED BY <4>1, <4>2
    <3> QED BY <1>1, <3>1, <3>2, <3>3
  <2> QED BY <2>1, <2>2, <2>3
<1>5. P \cap T = {}
  BY <1>1
<1> HIDE DEF P, Q, R, T
<1>6. Cardinality(R) = Cardinality(P) + Cardinality(T)
  <2>1. Cardinality(P \cup T) = Cardinality(P) + Cardinality(T) - Cardinality(P \cap T)
    BY <1>2, <1>3, FS_Union
  <2>2. Cardinality(P \cap T) = 0
    BY <1>5, FS_EmptySet
  <2>3. Cardinality(P) \in Nat /\ Cardinality(T) \in Nat
    BY <1>2, <1>3, FS_CardinalityType
  <2> QED BY <1>4, <2>1, <2>2, <2>3
<1> QED BY <1>2, <1>3, <1>6, FS_CardinalityType DEF EventCount, P, Q, R

\* The rows of an event in an empty log and in one of one row.
LEMMA CountShort ==
  ASSUME NEW e, NEW row
  PROVE  /\ EventCount(<<>>, e) = 0
         /\ EventCount(<<row>>, e) = IF row.event = e THEN 1 ELSE 0
<1>1. {k \in DOMAIN <<>> : <<>>[k].event = e} = {}
  OBVIOUS
<1>2. {k \in DOMAIN <<row>> : <<row>>[k].event = e} = IF row.event = e THEN {1} ELSE {}
  OBVIOUS
<1> QED BY <1>1, <1>2, FS_EmptySet, FS_Singleton DEF EventCount

\* The descriptor a handler is called for is found exactly if it is registered,
\* and removeFD takes that one out of the vector.
LEMMA OneRemoved ==
  ASSUME SelectorInv, NEW c \in Desc, num[c] = HeadFD, HeadFD # NoFd
  PROVE  /\ Found(HeadFD) <=> c \in Registered
         /\ \A w : RemoveFD(HeadFD, w) => Registered' = Registered \ {c}
<1> USE DEF SelectorInv
<1>1. /\ fds \in Seq(Desc) /\ DOMAIN fds = 1..Len(fds) /\ Len(fds) \in Nat
      /\ \A i \in DOMAIN fds : fds[i] \in Desc
  BY LenProperties, ElementOfSeq DEF SelectorTypeOK
<1>2. \A i \in DOMAIN fds : num[fds[i]] = HeadFD => fds[i] = c
  BY <1>1 DEF NumbersUnique
<1>3. ASSUME c \in Registered PROVE Found(HeadFD)
  <2>1. PICK j \in DOMAIN fds : fds[j] = c
    BY <1>3 DEF Registered, Range
  <2>2. \A k \in 1..(j - 1) : k \in DOMAIN fds /\ k # j
    BY <1>1
  <2>3. \A k \in 1..(j - 1) : num[fds[k]] # HeadFD
    BY <1>2, <2>1, <2>2 DEF RegisteredOnce
  <2> QED BY <2>1, <2>3 DEF Found, IsFirst
<1>4. Found(HeadFD) => c \in Registered
  BY <1>2 DEF Found, IsFirst, Registered, Range
<1>5. ASSUME NEW w, RemoveFD(HeadFD, w)
      PROVE  Registered' = Registered \ {c}
  <2>1. ASSUME NEW i \in DOMAIN fds, IsFirst(i, HeadFD), fds' = RemoveAt(fds, i)
        PROVE  Registered' = Registered \ {c}
    <3>1. Range(fds') = Range(fds) \ {fds[i]}
      BY <1>1, <2>1, RangeRemoveAt DEF RegisteredOnce
    <3> QED BY <1>2, <2>1, <3>1 DEF IsFirst, Registered
  <2>2. ASSUME ~Found(HeadFD), UNCHANGED fds
        PROVE  Registered' = Registered \ {c}
    BY <1>3, <2>2 DEF Registered
  <2> QED BY <1>5, <2>1, <2>2 DEF RemoveFD
<1> QED BY <1>3, <1>4, <1>5

\* A step that adds rows to one log keeps the balance if the ends among the rows
\* are those of the connection.
LEMMA RowsBalanced ==
  ASSUME ServerInv, DisconnectLogged, Up, NEW c \in Conn, NEW rs \in Seq(LogRow),
         log' = [log EXCEPT ![c] = @ \o rs],
         \A d \in Conn \ {c} : d \in Registered' <=> d \in Registered,
         EventCount(rs, "disconnected") + (IF c \in Registered' THEN 1 ELSE 0)
           = EventCount(rs, "connected") + (IF c \in Registered THEN 1 ELSE 0)
  PROVE  DisconnectLogged'
<1>1. log \in [Conn -> Seq(LogRow)]
  BY DEF ServerInv, ServerTypeOK
<1>2. \A d \in Conn :
        EventCount(log[d], "disconnected") =
          EventCount(log[d], "connected") - IF d \in Registered THEN 1 ELSE 0
  BY DEF DisconnectLogged, Count
<1>3. /\ log'[c] = log[c] \o rs
      /\ \A d \in Conn \ {c} : log'[d] = log[d]
  BY <1>1
<1>4. log[c] \in Seq(LogRow)
  BY <1>1
<1>5. \A e : /\ EventCount(log[c], e) \in Nat /\ EventCount(rs, e) \in Nat
             /\ EventCount(log[c] \o rs, e) = EventCount(log[c], e) + EventCount(rs, e)
  BY <1>4, CountConcat
<1>6. EventCount(log'[c], "disconnected") =
        EventCount(log'[c], "connected") - IF c \in Registered' THEN 1 ELSE 0
  <2>1. /\ EventCount(log'[c], "disconnected") =
             EventCount(log[c], "disconnected") + EventCount(rs, "disconnected")
        /\ EventCount(log'[c], "connected") =
             EventCount(log[c], "connected") + EventCount(rs, "connected")
    BY <1>3, <1>5
  <2>2. /\ EventCount(log[c], "connected") \in Nat /\ EventCount(rs, "connected") \in Nat
        /\ EventCount(log[c], "disconnected") \in Nat
        /\ EventCount(rs, "disconnected") \in Nat
    BY <1>5
  <2>3. EventCount(log[c], "disconnected") =
          EventCount(log[c], "connected") - IF c \in Registered THEN 1 ELSE 0
    BY <1>2
  <2> QED BY <2>1, <2>2, <2>3, SMTT(30)
<1>7. \A d \in Conn \ {c} :
        EventCount(log'[d], "disconnected") =
          EventCount(log'[d], "connected") - IF d \in Registered' THEN 1 ELSE 0
  BY <1>2, <1>3
<1> QED BY <1>6, <1>7 DEF DisconnectLogged, Count

\* A step that touches neither the log nor the vector.
LEMMA QuietBalanced ==
  ASSUME DisconnectLogged, Up' => Up, log' = log, Up' => Registered' = Registered
  PROVE  DisconnectLogged'
BY DEF DisconnectLogged, Count, EventCount

\* The rows a handler logs itself are about neither the beginning nor the end of
\* a connection.
Plain(rows) ==
  EventCount(rows, "connected") = 0 /\ EventCount(rows, "disconnected") = 0

\* What a handler does keeps the balance: removeFD logs the end of a session once,
\* and not of one that is gone.
LEMMA AnswerBalanced ==
  ASSUME NumbersSuffice, ServerInv, DisconnectLogged,
         NEW ms \in Burst, NEW rows \in Seq(LogRow), Plain(rows),
         Answer(ms, rows) \/ AnswerAndRemove(ms, rows)
  PROVE  DisconnectLogged'
<1>1. /\ SelectorInv /\ log \in [Conn -> Seq(LogRow)] /\ TwoIn(FreeNumbers)
      /\ user \in [Conn -> Session]
  BY TwoFree DEF ServerInv, ServerTypeOK
<1>2. status = "callback"
  BY DEF Answer, AnswerAndRemove, CallbackRemove, CallbackWrite
<1>3. current \in Conn /\ current \in Desc /\ num[current] = HeadFD /\ HeadFD # NoFd
  BY <1>1, <1>2, CallbackCurrent DEF Conn
<1>4. Up
  BY <1>2 DEF Up
<1>5. CASE Answer(ms, rows)
  <2>1. log' = [log EXCEPT ![current] = @ \o rows] /\ Registered' = Registered
    BY <1>1, <1>3, <1>5, LoggedEffect DEF Answer, CallbackWrite, Registered
  <2> QED BY <1>3, <1>4, <2>1, RowsBalanced DEF Plain
<1>6. CASE AnswerAndRemove(ms, rows)
  <2> DEFINE rs == rows \o ClosingRow
             row == Row("disconnected", Username)
  <2>1. Registered' = Registered \ {current}
    BY <1>1, <1>3, <1>6, OneRemoved DEF AnswerAndRemove, CallbackRemove
  <2>2. ClosingRow = IF current \in Registered THEN <<row>> ELSE <<>>
    BY <1>1, <1>3, OneRemoved DEF ClosingRow
  <2>3. row \in LogRow /\ row.event = "disconnected"
    <3>1. Username \in User \cup {NoUser}
      BY <1>1, <1>3 DEF Session, Username
    <3> QED BY <3>1 DEF Row, LogRow
  <2>4. ClosingRow \in Seq(LogRow)
    BY <2>2, <2>3, EmptySeq
  <2>5. /\ EventCount(ClosingRow, "connected") = 0
        /\ EventCount(ClosingRow, "disconnected") = IF current \in Registered THEN 1 ELSE 0
    <3>1. /\ EventCount(<<row>>, "connected") = 0 /\ EventCount(<<row>>, "disconnected") = 1
          /\ EventCount(<<>>, "connected") = 0 /\ EventCount(<<>>, "disconnected") = 0
      BY <2>3, CountShort
    <3> QED BY <2>2, <3>1
  <2>6. /\ rs \in Seq(LogRow)
        /\ EventCount(rs, "connected") = 0
        /\ EventCount(rs, "disconnected") = IF current \in Registered THEN 1 ELSE 0
    <3>1. rs \in Seq(LogRow)
      BY <2>4, ConcatProperties
    <3>2. \A e : EventCount(rs, e) = EventCount(rows, e) + EventCount(ClosingRow, e)
      BY <2>4, CountConcat
    <3>3. /\ EventCount(rs, "connected") = EventCount(rows, "connected") + 0
          /\ EventCount(rs, "disconnected") =
               EventCount(rows, "disconnected") + EventCount(ClosingRow, "disconnected")
      BY <2>5, <3>2
    <3> HIDE DEF rs
    <3> QED BY <2>5, <3>1, <3>3 DEF Plain
  <2>7. log' = [log EXCEPT ![current] = @ \o rs]
    BY <1>1, <1>3, <1>6, <2>6, LoggedEffect DEF AnswerAndRemove
  <2> HIDE DEF rs
  <2>8. /\ \A d \in Conn \ {current} : d \in Registered' <=> d \in Registered
        /\ EventCount(rs, "disconnected") + (IF current \in Registered' THEN 1 ELSE 0)
             = EventCount(rs, "connected") + (IF current \in Registered THEN 1 ELSE 0)
    BY <2>1, <2>6
  <2> QED BY <1>3, <1>4, <2>6, <2>7, <2>8, RowsBalanced
<1> QED BY <1>5, <1>6

\* Every handler of onRead keeps the balance.
LEMMA ReadBalanced ==
  ASSUME NumbersSuffice, ServerInv, DisconnectLogged, onRead
  PROVE  DisconnectLogged'
<1> USE BurstsQueued
<1>1. ASSUME NEW e, NEW u \in User \cup {NoUser}, e \in {"unknownUser", "twoFailures", "loggedIn"}
      PROVE  <<Row(e, u)>> \in Seq(LogRow) /\ Plain(<<Row(e, u)>>)
  <2>1. Row(e, u) \in LogRow /\ Row(e, u).event \notin {"connected", "disconnected"}
    BY <1>1 DEF Row, LogRow
  <2> QED BY <2>1, CountShort DEF Plain
<1>2. <<>> \in Seq(LogRow) /\ Plain(<<>>)
  BY CountShort, EmptySeq DEF Plain
<1>3. CASE onReadInfoRequest \/ onReadUnknown
  <2>1. \E ms \in Burst : Answer(ms, <<>>)
    BY <1>3 DEF onReadInfoRequest, onReadUnknown
  <2> QED BY <1>2, <2>1, AnswerBalanced
<1>4. CASE onReadDisplayMessage \/ PartKept \/ ReadDone
  <2>1. log' = log /\ fds' = fds /\ status = "callback"
    BY <1>4 DEF onReadDisplayMessage, PartKept, Handles, ReadDone, EndCallback, serverVars,
                selectorVars, sessionVars
  <2> QED BY <2>1, QuietBalanced DEF Registered, Up
<1>5. CASE onReadLoginSetUsername
  <2>1. Arg \in User
    BY <1>5, RequestTaken DEF onReadLoginSetUsername
  <2>2. \E ms \in Burst : \E rows \in {<<>>, <<Row("unknownUser", Arg)>>} :
          Answer(ms, rows) \/ AnswerAndRemove(ms, rows)
    BY <1>5 DEF onReadLoginSetUsername
  <2> QED BY <1>1, <1>2, <2>1, <2>2, AnswerBalanced
<1>6. CASE onReadLoginSetPassword
  <2>1. \E ms \in Burst : Answer(ms, <<>>) \/ AnswerAndRemove(ms, <<>>)
    BY <1>6 DEF onReadLoginSetPassword
  <2> QED BY <1>2, <2>1, AnswerBalanced
<1>7. CASE onReadLoginAuthenticate
  <2>1. Username \in User \cup {NoUser}
    BY <1>7, RequestTaken DEF onReadLoginAuthenticate, Session, Username
  <2>2. \E ms \in Burst :
          \E rows \in {<<>>, <<Row("loggedIn", Username)>>, <<Row("twoFailures", Username)>>} :
            Answer(ms, rows) \/ AnswerAndRemove(ms, rows)
    BY <1>7 DEF onReadLoginAuthenticate, RightPassword, WrongPassword
  <2> QED BY <1>1, <1>2, <2>1, <2>2, AnswerBalanced
<1> QED BY <1>3, <1>4, <1>5, <1>6, <1>7 DEF onRead

\* Every handler of the pass keeps the balance.
LEMMA PassBalanced ==
  ASSUME NumbersSuffice, ServerInv, DisconnectLogged, Pass
  PROVE  DisconnectLogged'
<1>1. /\ SelectorInv /\ SelectorTypeOK /\ log \in [Conn -> Seq(LogRow)]
      /\ user \in [Conn -> Session] /\ TwoIn(FreeNumbers)
  BY TwoFree DEF ServerInv, ServerTypeOK
<1>2. CASE ServerSkip \/ AcceptFails
  BY <1>2, QuietBalanced
    DEF ServerSkip, Skip, AcceptFails, AcceptNothing, NextDescriptor, sessionVars,
        Registered, Up
<1>3. ASSUME NEW c \in Conn,
             \/ FlushKills(c)
             \/ \E k \in 1..Len(wbuf[c]) : Flush(c, k)
             \/ \E k \in 1..Len(recvq[c]) : ReadRequests(c, k)
      PROVE  DisconnectLogged'
  <2>1. Handling /\ fds' = fds /\ log' = log
    BY <1>3 DEF FlushKills, WriteKills, Flush, Write, ReadRequests, StartCallback,
                HandlingEvent, sessionVars
  <2> QED BY <2>1, QuietBalanced DEF Handling, Registered, Up
<1>4. ASSUME NEW c \in Conn, ConnectionLost(c) \/ FlushFails(c) \/ Urgent(c)
      PROVE  DisconnectLogged'
  <2> DEFINE row == Row("disconnected", user[c].username)
  <2>1. /\ \E e \in Event : HandlingEvent(e)
        /\ IsFD(c, HeadFD) /\ RemoveFD(HeadFD, wbuf)
        /\ log' = Logged(c, <<row>>, FreeNumbers)
    BY <1>4 DEF ConnectionLost, FlushFails, ReadFails, WriteFails, Urgent, ExceptFD,
                LogClose, Event
  <2>2. Up /\ possible # <<>>
    BY <2>1 DEF HandlingEvent, Handling, Up
  <2>3. HeadFD \in FdNum /\ HeadFD # NoFd
    <3>1. Head(possible) \in [fd : FdNum, event : Event]
      BY <1>1, <2>2, HeadTailProperties DEF SelectorTypeOK
    <3> QED BY <3>1, FdNumAssumption DEF HeadFD, NoFd
  <2>4. num[c] = HeadFD /\ c \in Registered /\ c \in Desc
    BY <2>1 DEF IsFD, IsFirst, Registered, Range, Conn
  <2>5. Registered' = Registered \ {c}
    BY <1>1, <2>1, <2>3, <2>4, OneRemoved
  <2>6. row \in LogRow /\ row.event = "disconnected"
    BY <1>1 DEF Row, LogRow, Session
  <2>7. /\ EventCount(<<row>>, "connected") = 0 /\ EventCount(<<row>>, "disconnected") = 1
        /\ <<row>> \in Seq(LogRow)
    BY <2>6, CountShort
  <2> HIDE DEF row
  <2>8. log' = [log EXCEPT ![c] = @ \o <<row>>]
    BY <1>1, <2>1, <2>7, LoggedEffect
  <2>9. /\ \A d \in Conn \ {c} : d \in Registered' <=> d \in Registered
        /\ EventCount(<<row>>, "disconnected") + (IF c \in Registered' THEN 1 ELSE 0)
             = EventCount(<<row>>, "connected") + (IF c \in Registered THEN 1 ELSE 0)
    BY <2>4, <2>5, <2>7
  <2> QED BY <2>2, <2>7, <2>8, <2>9, RowsBalanced
<1>5. ASSUME NEW c \in Conn, RefuseConnection(c)
      PROVE  DisconnectLogged'
  <2> DEFINE row == Row("refused", NoUser)
  <2>1. /\ Handling /\ fds' = fds /\ num[c] = NoFd /\ FreeNumbers # {} /\ c \in Desc
        /\ log' = Logged(c, <<row>>, AfterAccept)
    BY <1>5 DEF RefuseConnection, AcceptNothing, HandlingEvent, Accepted, Conn
  <2>2. TwoIn(AfterAccept)
    BY <1>1, <2>1, TwoFree
  <2>3. /\ EventCount(<<row>>, "connected") = 0 /\ EventCount(<<row>>, "disconnected") = 0
        /\ <<row>> \in Seq(LogRow)
    <3>1. row \in LogRow /\ row.event = "refused"
      BY DEF Row, LogRow
    <3> QED BY <3>1, CountShort
  <2> HIDE DEF row
  <2>4. log' = [log EXCEPT ![c] = @ \o <<row>>]
    BY <1>1, <2>1, <2>2, <2>3, LoggedEffect
  <2>5. Up /\ Registered' = Registered
    BY <2>1 DEF Handling, Up, Registered
  <2> QED BY <2>3, <2>4, <2>5, RowsBalanced
<1>6. ASSUME NEW c \in Conn, AcceptConnection(c)
      PROVE  DisconnectLogged'
  <2> DEFINE row == Row("connected", NoUser)
  <2>1. /\ Handling /\ fds' = Append(fds, c) /\ num[c] = NoFd /\ FreeNumbers # {} /\ c \in Desc
        /\ log' = Logged(c, <<row>>, AfterAccept)
    BY <1>6 DEF AcceptConnection, AcceptFD, HandlingEvent, Accepted, Conn
  <2>2. TwoIn(AfterAccept)
    BY <1>1, <2>1, TwoFree
  <2>3. /\ EventCount(<<row>>, "connected") = 1 /\ EventCount(<<row>>, "disconnected") = 0
        /\ <<row>> \in Seq(LogRow)
    <3>1. row \in LogRow /\ row.event = "connected"
      BY DEF Row, LogRow
    <3> QED BY <3>1, CountShort
  <2> HIDE DEF row
  <2>4. log' = [log EXCEPT ![c] = @ \o <<row>>]
    BY <1>1, <2>1, <2>2, <2>3, LoggedEffect
  <2>5. c \notin Registered /\ Up
    BY <1>1, <2>1 DEF SelectorInv, OpenWhileRegistered, Handling, Up
  <2>6. Registered' = Registered \cup {c}
    BY <1>1, <2>1, <2>5, RangeAppend DEF Registered, SelectorInv, SelectorTypeOK, RegisteredOnce
  <2>7. /\ \A d \in Conn \ {c} : d \in Registered' <=> d \in Registered
        /\ EventCount(<<row>>, "disconnected") + (IF c \in Registered' THEN 1 ELSE 0)
             = EventCount(<<row>>, "connected") + (IF c \in Registered THEN 1 ELSE 0)
    BY <2>3, <2>5, <2>6
  <2> QED BY <2>3, <2>4, <2>5, <2>7, RowsBalanced
<1> QED BY <1>2, <1>3, <1>4, <1>5, <1>6 DEF Pass

\* While numbers suffice and until the server shuts down, every accepted
\* connection that is gone has one "disconnected" row, and no other has any: no
\* end is lost and none is logged twice, even when more requests of a session are
\* handled after its removal.
THEOREM DisconnectLoggedHolds ==
  NumbersSuffice => (ServerSpec => []DisconnectLogged)
<1> SUFFICES ASSUME NumbersSuffice PROVE ServerSpec => []DisconnectLogged
  OBVIOUS
<1>1. ServerInit => DisconnectLogged
  <2> SUFFICES ASSUME ServerInit, NEW c \in Conn
               PROVE  Count(c, "disconnected") =
                        Count(c, "connected") - IF c \in Registered THEN 1 ELSE 0
    BY DEF DisconnectLogged
  <2>1. log[c] = <<>>
    BY DEF ServerInit
  <2>2. Count(c, "disconnected") = 0 /\ Count(c, "connected") = 0
    BY <2>1, CountShort DEF Count
  <2>3. Range(Initial) = {Listener}
    BY ServerAssumption DEF Range
  <2>4. c \notin Registered
    BY <2>3 DEF ServerInit, SelectorInit, Registered, Conn
  <2> QED BY <2>2, <2>4
<1>2. ServerInv /\ DisconnectLogged /\ [ServerNext]_serverVars => DisconnectLogged'
  <2> SUFFICES ASSUME ServerInv, DisconnectLogged, [ServerNext]_serverVars
               PROVE  DisconnectLogged'
    OBVIOUS
  <2>1. CASE Environment
    BY <2>1, QuietBalanced DEF Environment, Connect, Send, SendPart, Close, AddUser, DropUser,
                               sessionVars, selectorVars, Registered, Up
  <2>2. CASE \E wr, ex \in SUBSET RegisteredNumbers : ServerPoll(wr, ex)
    BY <2>2, QuietBalanced DEF ServerPoll, Poll, sessionVars, Registered, Up
  <2>3. CASE ServerInterrupt \/ shutdown
    <3>1. log' = log /\ status' \in {"stopped", "done"}
      BY <2>3 DEF ServerInterrupt, Interrupt, shutdown, ClearFDs, sessionVars
    <3> QED BY <3>1 DEF DisconnectLogged, Up
  <2>4. CASE ServerTerminated \/ UNCHANGED serverVars
    BY <2>4, QuietBalanced
      DEF ServerTerminated, serverVars, sessionVars, selectorVars, Registered, Up
  <2> QED BY <2>1, <2>2, <2>3, <2>4, PassBalanced, ReadBalanced DEF ServerNext
<1> QED BY <1>1, <1>2, ServerInvariance, PTL DEF ServerSpec

(***************************************************************************)
(* What the server has read and queued.                                    *)
(***************************************************************************)

\* What a read brought is handled before its callback returns.
LEMMA InbufHandledNext ==
  ASSUME SelectorInv, InbufHandled, [ServerNext]_serverVars
  PROVE  InbufHandled'
<1>1. ASSUME inbuf' = inbuf, status' = "callback" <=> status = "callback" PROVE InbufHandled'
  BY <1>1 DEF InbufHandled
<1>2. CASE Environment \/ (\E wr, ex \in SUBSET RegisteredNumbers : ServerPoll(wr, ex))
  BY <1>1, <1>2 DEF Environment, Connect, Send, SendPart, Close, AddUser, DropUser, selectorVars,
                    ServerPoll, Poll
<1>3. CASE Pass
  <2>1. ASSUME NEW c \in Conn, NEW k \in 1..Len(recvq[c]), ReadRequests(c, k) PROVE InbufHandled'
    BY <2>1 DEF ReadRequests, StartCallback, InbufHandled
  <2>2. CASE ServerSkip \/ AcceptFails
    BY <1>1, <2>2 DEF ServerSkip, Skip, AcceptFails, AcceptNothing, NextDescriptor
  <2>3. CASE \E c \in Conn : AcceptConnection(c) \/ RefuseConnection(c)
    BY <1>1, <2>3 DEF AcceptConnection, AcceptFD, RefuseConnection, AcceptNothing, NextDescriptor
  <2>4. CASE \E c \in Conn : ConnectionLost(c) \/ FlushFails(c) \/ Urgent(c)
    BY <1>1, <2>4 DEF ConnectionLost, ReadFails, FlushFails, WriteFails, Urgent, ExceptFD,
                      NextDescriptor
  <2>5. CASE \E c \in Conn : FlushKills(c) \/ \E k \in 1..Len(wbuf[c]) : Flush(c, k)
    BY <1>1, <2>5 DEF FlushKills, WriteKills, HandlingEvent, Handling, Flush, Write, NextDescriptor
  <2> QED BY <1>3, <2>1, <2>2, <2>3, <2>4, <2>5 DEF Pass
<1>4. CASE onRead
  <2>1. CASE ReadDone
    BY <2>1 DEF ReadDone, InbufHandled
  <2>2. CASE onReadDisplayMessage \/ PartKept
    BY <1>1, <2>2 DEF onReadDisplayMessage, PartKept, Handles, serverVars, selectorVars,
                      InbufHandled
  <2>3. CASE \/ onReadInfoRequest \/ onReadUnknown \/ onReadLoginSetUsername
             \/ onReadLoginSetPassword \/ onReadLoginAuthenticate
    <3>1. \/ \E ms \in Burst : CallbackWrite(HeadFD, ms)
          \/ \E ms \in Burst : CallbackRemove(ms)
      BY <2>3, HandlerSimulation
    <3>2. status' = "callback"
      BY <3>1 DEF CallbackWrite, CallbackRemove
    <3> QED BY <3>2 DEF InbufHandled
  <2> QED BY <1>4, <2>1, <2>2, <2>3 DEF onRead
<1>5. CASE ServerInterrupt \/ shutdown
  BY <1>1, <1>5 DEF ServerInterrupt, Interrupt, Polling, shutdown, ClearFDs
<1>6. CASE ServerTerminated \/ UNCHANGED serverVars
  BY <1>1, <1>6 DEF ServerTerminated, serverVars, selectorVars
<1> QED BY <1>2, <1>3, <1>4, <1>5, <1>6 DEF ServerNext
=============================================================================
