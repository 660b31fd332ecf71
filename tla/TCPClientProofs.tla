-------------------------- MODULE TCPClientProofs ---------------------------
(* Proofs about the client, for every set of lines and any number of them:   *)
(* it implements the select loop, and the echo, the password and the         *)
(* terminal of a user who waits for the prompts are safe.                    *)
EXTENDS TCPClient, SelectorProofs

(***************************************************************************)
(* Messages that move from place to place.                                 *)
(***************************************************************************)
\* Every message in the places v was in the places w.
CarriedFrom(v, w) ==
  \A p \in Place : \A i \in DOMAIN v[p] :
    \E q \in Place : \E j \in DOMAIN w[q] : v[p][i] = w[q][j]

\* Every message in the places v was in the places w or is one of ms.
AddedTo(v, w, ms) ==
  \A p \in Place : \A i \in DOMAIN v[p] :
    \/ \E q \in Place : \E j \in DOMAIN w[q] : v[p][i] = w[q][j]
    \/ \E j \in DOMAIN ms : v[p][i] = ms[j]

NoLogin(w) == \A p \in Place : \A i \in DOMAIN w[p] : ~IsLogin(w[p][i])

\* The first k messages of place q go to the end of place p: they are still the
\* messages that were there, each once.
LEMMA MessagesMove ==
  ASSUME NEW S, NEW v, NEW w, NEW p \in Place, NEW q \in Place, p # q,
         \A r \in Place : w[r] \in Seq(S),
         NEW k \in 0..Len(w[q]),
         v[p] = w[p] \o SubSeq(w[q], 1, k),
         v[q] = SubSeq(w[q], k + 1, Len(w[q])),
         \A r \in Place \ {p, q} : v[r] = w[r],
         OneLogin(w)
  PROVE  OneLogin(v) /\ CarriedFrom(v, w)
<1> DEFINE n == Len(w[p])
           moved(r, i) == r = p /\ i > n
           from(r, i) == IF moved(r, i) THEN q ELSE r
           at(r, i) == IF moved(r, i) THEN i - n ELSE IF r = q THEN k + i ELSE i
<1>1. /\ w[p] \in Seq(S) /\ w[q] \in Seq(S) /\ n \in Nat /\ k \in Nat
      /\ \A i \in DOMAIN w[p] : i \in Nat /\ i <= n
      /\ \A i \in DOMAIN w[q] : i \in Nat
  BY LenProperties
<1>2. /\ SubSeq(w[q], 1, k) \in Seq(S)
      /\ \A i \in DOMAIN SubSeq(w[q], 1, k) :
           i \in DOMAIN w[q] /\ i <= k /\ SubSeq(w[q], 1, k)[i] = w[q][i]
  BY <1>1, SplitPositions
<1>3. \A i \in DOMAIN v[p] :
        /\ i \in Nat
        /\ \/ i \in DOMAIN w[p] /\ v[p][i] = w[p][i]
           \/ i > n /\ i - n \in DOMAIN w[q] /\ i - n <= k /\ v[p][i] = w[q][i - n]
  <2>1. v[p] \in Seq(S) /\ \A i \in DOMAIN v[p] :
           \/ i \in DOMAIN w[p] /\ v[p][i] = w[p][i]
           \/ /\ i > n /\ i - n \in DOMAIN SubSeq(w[q], 1, k)
              /\ v[p][i] = SubSeq(w[q], 1, k)[i - n]
    <3> DEFINE a == SubSeq(w[q], 1, k)
               c == w[p] \o a
    <3>1. a \in Seq(S)
      BY <1>2
    <3> HIDE DEF a
    <3>2. c \in Seq(S) /\ \A i \in DOMAIN c :
             \/ i \in DOMAIN w[p] /\ c[i] = w[p][i]
             \/ i > Len(w[p]) /\ i - Len(w[p]) \in DOMAIN a /\ c[i] = a[i - Len(w[p])]
      BY <1>1, <3>1, ConcatPositions
    <3>3. v[p] = c
      BY DEF a
    <3> HIDE DEF c
    <3> QED BY <3>2, <3>3 DEF a
  <2>2. \A i \in DOMAIN v[p] : i \in Nat
    BY <2>1, LenProperties
  <2> QED BY <1>2, <2>1, <2>2
<1>4. \A i \in DOMAIN v[q] :
        i \in Nat /\ i > 0 /\ k + i \in DOMAIN w[q] /\ v[q][i] = w[q][k + i]
  <2>1. v[q] \in Seq(S) /\ \A i \in DOMAIN v[q] :
          i > 0 /\ k + i \in DOMAIN w[q] /\ v[q][i] = w[q][k + i]
    BY <1>1, SplitPositions
  <2> QED BY <2>1, LenProperties
<1>5. ASSUME NEW r \in Place, NEW i \in DOMAIN v[r]
      PROVE  /\ moved(r, i) => from(r, i) = q /\ at(r, i) = i - n
             /\ ~moved(r, i) /\ r = q => from(r, i) = q /\ at(r, i) = k + i
             /\ ~moved(r, i) /\ r # q => from(r, i) = r /\ at(r, i) = i
             /\ moved(r, i) => r = p /\ i > n
             /\ ~moved(r, i) /\ r = p => ~(i > n)
  OBVIOUS
<1> HIDE DEF n, moved, from, at
<1>6. ASSUME NEW r \in Place, NEW i \in DOMAIN v[r]
      PROVE  /\ from(r, i) \in Place /\ at(r, i) \in DOMAIN w[from(r, i)]
             /\ v[r][i] = w[from(r, i)][at(r, i)]
             /\ moved(r, i) => i \in Nat /\ at(r, i) <= k
             /\ ~moved(r, i) /\ r = q => i \in Nat /\ at(r, i) > k
  <2>1. CASE moved(r, i)
    <3>1. r = p /\ i > n /\ from(r, i) = q /\ at(r, i) = i - n
      BY <1>5, <2>1
    <3>2. i \in Nat /\ i - n \in DOMAIN w[q] /\ i - n <= k /\ v[p][i] = w[q][i - n]
      <4>1. i \in DOMAIN v[p]
        BY <3>1
      <4>2. i \in Nat /\ i \notin DOMAIN w[p]
        BY <1>1, <1>3, <3>1, <4>1
      <4> QED BY <1>3, <4>1, <4>2
    <3> QED BY <2>1, <3>1, <3>2
  <2>2. CASE ~moved(r, i) /\ r = p
    BY <1>1, <1>3, <1>5, <2>2, ZenonT(60)
  <2>3. CASE ~moved(r, i) /\ r = q
    <3>1. i \in Nat /\ i > 0 /\ k + i \in DOMAIN w[q] /\ v[q][i] = w[q][k + i]
      BY <1>4, <2>3
    <3>2. from(r, i) = q /\ at(r, i) = k + i
      BY <1>5, <2>3
    <3>3. k + i > k
      BY <1>1, <3>1
    <3> QED BY <2>3, <3>1, <3>2, <3>3
  <2>4. CASE ~moved(r, i) /\ r \in Place \ {p, q}
    BY <1>5, <2>4
  <2> QED BY <2>1, <2>2, <2>3, <2>4
<1>7. ASSUME NEW r \in Place, NEW i \in DOMAIN v[r],
             NEW s \in Place, NEW j \in DOMAIN v[s],
             from(r, i) = from(s, j), at(r, i) = at(s, j)
      PROVE  r = s /\ i = j
  <2>1. CASE moved(r, i) /\ moved(s, j)
    BY <1>1, <1>5, <1>6, <1>7, <2>1
  <2>2. CASE moved(r, i) /\ ~moved(s, j)
    <3>1. at(r, i) <= k /\ s = q
      BY <1>5, <1>6, <1>7, <2>2
    <3>2. at(s, j) > k
      BY <1>6, <2>2, <3>1
    <3>3. at(s, j) \in Nat
      BY <1>1, <1>5, <1>6, <2>2, <3>1
    <3> QED BY <1>1, <1>7, <3>1, <3>2, <3>3
  <2>3. CASE ~moved(r, i) /\ moved(s, j)
    <3>1. at(s, j) <= k /\ r = q
      BY <1>5, <1>6, <1>7, <2>3
    <3>2. at(r, i) > k
      BY <1>6, <2>3, <3>1
    <3>3. at(r, i) \in Nat
      BY <1>1, <1>5, <1>6, <2>3, <3>1
    <3> QED BY <1>1, <1>7, <3>1, <3>2, <3>3
  <2>4. CASE ~moved(r, i) /\ ~moved(s, j)
    <3>1. from(r, i) = r /\ from(s, j) = s
      BY <1>5, <2>4
    <3>2. r = s
      BY <1>7, <3>1
    <3>3. CASE r = q
      <4>1. at(r, i) = k + i /\ at(s, j) = k + j /\ i \in Nat /\ j \in Nat
        BY <1>5, <1>6, <2>4, <3>2, <3>3
      <4> QED BY <1>1, <1>7, <3>2, <4>1
    <3>4. CASE r # q
      BY <1>5, <1>7, <2>4, <3>2, <3>4
    <3> QED BY <3>3, <3>4
  <2> QED BY <2>1, <2>2, <2>3, <2>4
<1>8. OneLogin(v)
  <2> SUFFICES ASSUME NEW r \in Place, NEW s \in Place,
                      NEW i \in DOMAIN v[r], NEW j \in DOMAIN v[s],
                      IsLogin(v[r][i]), IsLogin(v[s][j])
               PROVE  r = s /\ i = j
    BY DEF OneLogin
  <2>1. from(r, i) = from(s, j) /\ at(r, i) = at(s, j)
    BY <1>6 DEF OneLogin
  <2> QED BY <1>7, <2>1
<1>9. CarriedFrom(v, w)
  BY <1>6 DEF CarriedFrom
<1> QED BY <1>8, <1>9

\* Places may lose their first message or all of them.
LEMMA MessagesLost ==
  ASSUME NEW S, NEW v, NEW w,
         \A r \in Place : w[r] \in Seq(S),
         \A r \in Place : \/ v[r] = w[r]
                          \/ v[r] = <<>>
                          \/ w[r] # <<>> /\ v[r] = Tail(w[r]),
         OneLogin(w)
  PROVE  OneLogin(v) /\ CarriedFrom(v, w)
<1> DEFINE shifted(r) == v[r] # w[r] /\ v[r] # <<>>
           at(r, i) == IF shifted(r) THEN i + 1 ELSE i
<1>1. ASSUME NEW r \in Place, NEW i \in DOMAIN v[r]
      PROVE  i \in Nat /\ at(r, i) \in DOMAIN w[r] /\ v[r][i] = w[r][at(r, i)]
  <2>1. CASE v[r] = w[r]
    <3>1. i \in Nat
      BY <2>1, LenProperties
    <3> QED BY <2>1, <3>1
  <2>2. CASE v[r] = <<>>
    BY <2>2, EmptySeq, LenProperties
  <2>3. CASE shifted(r)
    <3>1. w[r] \in Seq(S) /\ w[r] # <<>> /\ v[r] = Tail(w[r])
      BY <2>3
    <3>2. i \in Nat \ {0} /\ i + 1 \in DOMAIN w[r] /\ v[r][i] = w[r][i + 1]
      BY <3>1, TailShift
    <3>3. at(r, i) = i + 1
      BY <2>3
    <3> QED BY <3>2, <3>3
  <2> QED BY <2>1, <2>2, <2>3
<1>2. \A r, i, j : i \in Nat /\ j \in Nat /\ at(r, i) = at(r, j) => i = j
  OBVIOUS
<1> HIDE DEF at, shifted
<1>3. OneLogin(v)
  <2> SUFFICES ASSUME NEW r \in Place, NEW s \in Place,
                      NEW i \in DOMAIN v[r], NEW j \in DOMAIN v[s],
                      IsLogin(v[r][i]), IsLogin(v[s][j])
               PROVE  r = s /\ i = j
    BY DEF OneLogin
  <2>1. r = s /\ at(r, i) = at(s, j)
    BY <1>1 DEF OneLogin
  <2> QED BY <1>1, <1>2, <2>1
<1>4. CarriedFrom(v, w)
  BY <1>1 DEF CarriedFrom
<1> QED BY <1>3, <1>4

\* Once the one login message is handled, none is left.
LEMMA LoginTaken ==
  ASSUME NEW S, NEW v, NEW w, NEW p \in Place,
         w[p] \in Seq(S), w[p] # <<>>, IsLogin(Head(w[p])),
         v[p] = Tail(w[p]),
         \A r \in Place \ {p} : v[r] = w[r],
         OneLogin(w)
  PROVE  NoLogin(v)
<1>1. /\ 1 \in DOMAIN w[p] /\ Head(w[p]) = w[p][1]
      /\ \A i \in DOMAIN v[p] :
           i + 1 # 1 /\ i + 1 \in DOMAIN w[p] /\ v[p][i] = w[p][i + 1]
  <2>1. /\ 1 \in DOMAIN w[p] /\ Head(w[p]) = w[p][1]
        /\ \A i \in DOMAIN v[p] :
             i \in Nat \ {0} /\ i + 1 \in DOMAIN w[p] /\ v[p][i] = w[p][i + 1]
    BY TailShift
  <2> QED BY <2>1
<1>2. ASSUME NEW i \in DOMAIN v[p] PROVE ~IsLogin(v[p][i])
  BY <1>1 DEF OneLogin
<1>3. ASSUME NEW r \in Place \ {p}, NEW i \in DOMAIN v[r] PROVE ~IsLogin(v[r][i])
  BY <1>1 DEF OneLogin
<1> QED BY <1>2, <1>3 DEF NoLogin

\* Messages that go to the end of place p keep the login message the only one,
\* when it is none of them, or one of them and there was none.
LEMMA MessagesAdded ==
  ASSUME NEW S, NEW v, NEW w, NEW p \in Place, NEW ms \in Seq(S),
         w[p] \in Seq(S),
         v[p] = w[p] \o ms,
         \A r \in Place \ {p} : v[r] = w[r],
         OneLogin(w),
         \A i, j \in DOMAIN ms : IsLogin(ms[i]) /\ IsLogin(ms[j]) => i = j,
         NoLogin(w) \/ \A i \in DOMAIN ms : ~IsLogin(ms[i])
  PROVE  OneLogin(v) /\ AddedTo(v, w, ms)
<1> DEFINE n == Len(w[p])
<1>1. n \in Nat
  BY LenProperties
<1>2. ASSUME NEW r \in Place, NEW i \in DOMAIN v[r]
      PROVE  /\ i \in DOMAIN w[r] => v[r][i] = w[r][i]
             /\ i \notin DOMAIN w[r] =>
                  r = p /\ i \in Nat /\ i - n \in DOMAIN ms /\ v[r][i] = ms[i - n]
  <2>1. CASE r = p
    <3> DEFINE c == w[p] \o ms
    <3>1. /\ c \in Seq(S)
          /\ \A x \in DOMAIN w[p] : c[x] = w[p][x]
          /\ \A x \in DOMAIN c :
               \/ x \in DOMAIN w[p] /\ c[x] = w[p][x]
               \/ x > n /\ x - n \in DOMAIN ms /\ c[x] = ms[x - n]
      BY ConcatPositions
    <3>2. DOMAIN c = 1..Len(c) /\ Len(c) \in Nat
      BY <3>1, LenProperties
    <3>3. v[p] = c
      OBVIOUS
    <3> HIDE DEF c, n
    <3>4. i \in DOMAIN c /\ i \in Nat /\ v[r][i] = c[i] /\ w[r] = w[p]
      BY <2>1, <3>2, <3>3
    <3> QED BY <2>1, <3>1, <3>4
  <2>2. CASE r # p
    BY <2>2
  <2> QED BY <2>1, <2>2
<1> HIDE DEF n
<1>3. OneLogin(v)
  <2> SUFFICES ASSUME NEW r \in Place, NEW s \in Place,
                      NEW i \in DOMAIN v[r], NEW j \in DOMAIN v[s],
                      IsLogin(v[r][i]), IsLogin(v[s][j])
               PROVE  r = s /\ i = j
    BY DEF OneLogin
  <2>1. CASE i \in DOMAIN w[r] /\ j \in DOMAIN w[s]
    BY <1>2, <2>1 DEF OneLogin
  <2>2. CASE i \notin DOMAIN w[r] /\ j \notin DOMAIN w[s]
    <3>1. r = p /\ s = p /\ i - n = j - n /\ i \in Nat /\ j \in Nat
      BY <1>2, <2>2
    <3> QED BY <1>1, <3>1
  <2>3. CASE i \in DOMAIN w[r] /\ j \notin DOMAIN w[s]
    BY <1>2, <2>3 DEF NoLogin
  <2>4. CASE i \notin DOMAIN w[r] /\ j \in DOMAIN w[s]
    BY <1>2, <2>4 DEF NoLogin
  <2> QED BY <2>1, <2>2, <2>3, <2>4
<1>4. AddedTo(v, w, ms)
  BY <1>2 DEF AddedTo
<1> QED BY <1>3, <1>4

(***************************************************************************)
(* Every step of the client is a step of the select loop.                  *)
(***************************************************************************)

\* The client's request is one burst of the callback.
LEMMA RequestQueued == \A m \in Message : <<m>> \in Burst
BY ClientAssumption DEF ClientBurst

\* What a callback for stdin handles is a line the user typed.
LEMMA InputLine ==
  ASSUME InbufKind, current = Stdin, inbuf # <<>>
  PROVE  /\ inbuf = <<Input>> /\ Tail(inbuf) = <<>>
         /\ Input \in Line /\ Input.text \in Text /\ Sent[Input.text] \in Arg
<1>1. PICK l \in Line : inbuf = <<l>>
  BY DEF InbufKind
<1>2. Input = l /\ Tail(inbuf) = <<>>
  BY <1>1 DEF Input
<1>3. Sent[l.text] \in Arg /\ l.text \in Text
  BY <1>1, ClientAssumption DEF Line
<1> QED BY <1>1, <1>2, <1>3

\* A handler queues one request, stops the loop, or leaves the loop alone.
LEMMA HandlerSimulation ==
  ASSUME InbufKind, onRead
  PROVE  \/ \E m \in Message : CallbackWrite(SocketFd, <<m>>)
         \/ CallbackStop
         \/ EndCallback
         \/ UNCHANGED selectorVars
<1>1. ASSUME NEW state, Entered(state)
      PROVE  Input.text \in Text /\ Sent[Input.text] \in Arg
  BY <1>1, InputLine DEF Entered, Takes
<1>2. CASE EnterUsername
  <2>1. [type |-> "LOGIN_SET_USERNAME", arg |-> Sent[Input.text]] \in Message
    BY <1>1, <1>2 DEF EnterUsername, Message
  <2> QED BY <1>2, <2>1 DEF EnterUsername, SendMessage
<1>3. CASE EnterPassword
  <2>1. [type |-> "LOGIN_AUTHENTICATE", arg |-> Sent[Input.text]] \in Message
    BY <1>1, <1>3 DEF EnterPassword, Message
  <2> QED BY <1>3, <2>1 DEF EnterPassword, SendPassword, SendMessage
<1>4. CASE RepeatNewPassword
  <2>1. [type |-> "LOGIN_SET_PASSWORD", arg |-> Sent[Input.text]] \in Message
    BY <1>1, <1>4 DEF RepeatNewPassword, Message
  <2> QED BY <1>4, <2>1 DEF RepeatNewPassword, SendPassword, SendMessage
<1>5. CASE EnterInfoCommand
  <2>1. InfoRequest[Input.text] \in Range(InfoRequest)
    BY <1>5 DEF EnterInfoCommand, InfoRequest, Range
  <2>2. [type |-> InfoRequest[Input.text], arg |-> NoArg] \in Message
    BY <2>1 DEF Message
  <2> QED BY <1>5, <2>2 DEF EnterInfoCommand, SendMessage
<1>6. CASE EnterNewPassword \/ EnterPasswd \/ EnterExit \/ EnterUnknown
  BY <1>6 DEF EnterNewPassword, EnterPasswd, EnterExit, EnterUnknown
<1>7. CASE onReadDisplayMessage \/ onReadLoginSetPasswordResponse
  BY <1>7 DEF onReadDisplayMessage, onReadLoginSetPasswordResponse
<1>8. CASE onReadLoginSetUsernameResponse \/ onReadLoginAuthenticateResponse
  BY <1>8 DEF onReadLoginSetUsernameResponse, onReadLoginAuthenticateResponse, AskPassword
<1>9. CASE ReadDone
  BY <1>9 DEF ReadDone
<1> QED BY <1>2, <1>3, <1>4, <1>5, <1>6, <1>7, <1>8, <1>9 DEF onRead, handleUserInput

\* Every step of the client is a step of the select loop or leaves the loop's
\* variables alone.
LEMMA StepSimulation ==
  ASSUME SelectorInv, InbufKind, [ClientNext]_clientVars
  PROVE  [SelectorNext]_selectorVars
<1>1. SocketFd \in FdNum /\ Socket \in Desc /\ Stdin \in Desc
  BY ClientAssumption
<1>2. CASE User
  BY <1>2 DEF User, TypeLine, EndInput
<1>3. CASE Server
  BY <1>3 DEF Server, ServerHandles, ServerSends, ServerCloses
<1>4. CASE \E wr \in SUBSET RegisteredNumbers : ClientPoll(wr)
  <2>1. ReadableNow \in SUBSET RegisteredNumbers
    BY DEF ReadableNow, RegisteredNumbers
  <2> QED BY <1>4, <2>1 DEF ClientPoll, SelectorNext
<1>5. CASE Pass
  <2>1. CASE ClientSkip \/ ConnectionLost \/ InputLost \/ FlushFails \/ FlushKills
    BY <1>1, <2>1
       DEF ClientSkip, ConnectionLost, InputLost, FlushFails, FlushKills, Handle, SelectorNext
  <2>2. CASE ReadLine \/ \E k \in 1..Len(inbox) : ReadMessages(k)
    BY <1>1, <2>2 DEF ReadLine, ReadMessages, Handle, SelectorNext
  <2>3. ASSUME NEW k \in 1..Len(wbuf[Socket]), Flush(k) PROVE Handle
    BY <1>1, <2>3 DEF Flush, Handle, Write
  <2> QED BY <1>5, <2>1, <2>2, <2>3 DEF Pass, SelectorNext
<1>6. CASE onRead
  <2>1. \/ \E m \in Message : CallbackWrite(SocketFd, <<m>>)
        \/ CallbackStop
        \/ EndCallback
        \/ UNCHANGED selectorVars
    BY <1>6, HandlerSimulation
  <2> QED BY <1>1, <2>1, RequestQueued DEF SelectorNext
<1>7. CASE ClientStops \/ closeConn \/ ClientInterrupt \/ ClientTerminated
  BY <1>7 DEF ClientStops, closeConn, ClientInterrupt, ClientTerminated, SelectorNext, clientVars
<1>8. CASE UNCHANGED clientVars
  BY <1>8 DEF clientVars
<1> QED BY <1>2, <1>3, <1>4, <1>5, <1>6, <1>7, <1>8 DEF ClientNext, ClientRuns

(***************************************************************************)
(* Types.                                                                  *)
(***************************************************************************)

\* What the loop does by itself: it reads nothing and writes nothing.
LoopOnly ==
  \/ \E wr \in SUBSET RegisteredNumbers : ClientPoll(wr)
  \/ ClientSkip \/ ConnectionLost \/ InputLost \/ FlushFails \/ FlushKills
  \/ ReadDone \/ ClientInterrupt \/ ClientStops \/ closeConn \/ ClientTerminated
  \/ UNCHANGED clientVars

\* What is done with a message.
MessageHandler ==
  \/ onReadDisplayMessage \/ onReadLoginSetPasswordResponse
  \/ onReadLoginSetUsernameResponse \/ onReadLoginAuthenticateResponse

\* The steps of the client, one by one.
LEMMA StepCases ==
  ASSUME [ClientNext]_clientVars
  PROVE  \/ LoopOnly \/ EndInput \/ ServerHandles \/ ServerCloses \/ ReadLine
         \/ (\E t \in Text : TypeLine(t))
         \/ (\E k \in 1..Len(answers) : ServerSends(k))
         \/ (\E k \in 1..Len(inbox) : ReadMessages(k))
         \/ (\E k \in 1..Len(wbuf[Socket]) : Flush(k))
         \/ MessageHandler \/ handleUserInput
BY DEF ClientNext, User, Server, ClientRuns, Pass, onRead, LoopOnly, MessageHandler

\* The steps that only the loop takes leave the user's, the server's and the
\* client's own state alone.
LEMMA LoopOnlyEffect ==
  ASSUME SelectorInv, LoopOnly
  PROVE  /\ UNCHANGED <<terminalVars, networkVars, inbuf, inputVars>>
         /\ \/ current' = current
            \/ current' = NoDesc /\ inbuf = <<>>
         /\ wbuf'[Socket] = wbuf[Socket] \/ wbuf'[Socket] = <<>>
<1> USE DEF SelectorInv
<1>1. Socket \in Desc /\ Stdin \in Desc /\ wbuf \in [Desc -> Seq(Reply)]
  BY ClientAssumption DEF SelectorTypeOK
<1>2. UNCHANGED <<terminalVars, networkVars, inbuf, inputVars>>
  BY DEF LoopOnly, ClientPoll, ClientSkip, ConnectionLost, InputLost, FlushFails, FlushKills,
         ReadDone, ClientInterrupt, ClientStops, closeConn, ClientTerminated, clientVars
<1>3. ASSUME NEW n, RemoveFD(n, wbuf)
      PROVE  wbuf'[Socket] = wbuf[Socket] \/ wbuf'[Socket] = <<>>
  BY <1>1, <1>3 DEF RemoveFD
<1>4. CASE ReadDone
  BY <1>2, <1>4 DEF ReadDone, EndCallback
<1>5. CASE ConnectionLost \/ InputLost \/ FlushFails
  BY <1>2, <1>3, <1>5
     DEF ConnectionLost, InputLost, FlushFails, ReadFails, WriteFails, NextDescriptor
<1>6. CASE closeConn
  BY <1>1, <1>2, <1>6 DEF closeConn, ClearFDs
<1>7. CASE \/ \E wr \in SUBSET RegisteredNumbers : ClientPoll(wr)
           \/ ClientSkip \/ FlushKills \/ ClientInterrupt \/ ClientStops
           \/ ClientTerminated \/ UNCHANGED clientVars
  BY <1>2, <1>7
     DEF ClientPoll, Poll, ClientSkip, Skip, NextDescriptor, FlushKills, WriteKills,
         ClientInterrupt, Interrupt, ClientStops, LoopEnds, ClientTerminated, clientVars,
         selectorVars
<1> QED BY <1>4, <1>5, <1>6, <1>7 DEF LoopOnly

\* Outside a callback no descriptor is being read.
LEMMA NotReading ==
  ASSUME SelectorInv, status # "callback"
  PROVE  current = NoDesc
BY DEF SelectorInv, CallbackHolds

\* The two descriptors are none of them the missing one.
LEMMA Distinct == Socket # Stdin /\ Socket # NoDesc /\ Stdin # NoDesc
BY ClientAssumption, DescAssumption

\* A handler leaves the vector and the pass alone.
LEMMA HandlersKeep ==
  ASSUME MessageHandler \/ handleUserInput
  PROVE  UNCHANGED <<fds, num, possible, polled, current, status>>
<1>1. CASE MessageHandler
  BY <1>1 DEF MessageHandler, onReadDisplayMessage, onReadLoginSetPasswordResponse,
              onReadLoginSetUsernameResponse, onReadLoginAuthenticateResponse, CallbackStop,
              AskPassword, selectorVars
<1>2. CASE handleUserInput
  BY <1>2 DEF handleUserInput, EnterUsername, EnterPassword, EnterNewPassword,
              RepeatNewPassword, EnterInfoCommand, EnterPasswd, EnterExit, EnterUnknown,
              SendPassword, SendMessage, CallbackWrite, CallbackStop, selectorVars
<1> QED BY <1>1, <1>2

\* Handling a line leaves nothing of it.
LEMMA LineTaken ==
  ASSUME InbufKind, handleUserInput
  PROVE  /\ current = Stdin /\ inbuf # <<>> /\ inbuf' = <<>> /\ current' = Stdin
         /\ status = "callback" /\ status' = "callback"
         /\ UNCHANGED <<eof, typed, patient, networkVars, possible, polled>>
         /\ inbuf = <<Input>> /\ Input \in Line
<1>1. /\ \E state : Entered(state)
      /\ UNCHANGED <<current, status, possible, polled>>
  BY DEF handleUserInput, EnterUsername, EnterPassword, EnterNewPassword, RepeatNewPassword,
         EnterInfoCommand, EnterPasswd, EnterExit, EnterUnknown, SendPassword, SendMessage,
         CallbackWrite, CallbackStop, selectorVars
<1> QED BY <1>1, InputLine DEF Entered, Takes

\* Handling a message takes it from those read.
LEMMA MessageTaken ==
  ASSUME InbufKind, NEW type, Received(type)
  PROVE  /\ current = Socket /\ inbuf # <<>> /\ inbuf' = Tail(inbuf)
         /\ status = "callback"
         /\ inbuf \in Seq(ServerMessage) /\ inbuf' \in Seq(ServerMessage)
         /\ UNCHANGED <<eof, typed, patient, networkVars>>
<1>1. current = Socket /\ inbuf # <<>> /\ inbuf' = Tail(inbuf) /\ status = "callback"
  BY DEF Received, Takes
<1>2. inbuf \in Seq(ServerMessage)
  BY <1>1 DEF InbufKind
<1> QED BY <1>1, <1>2, HeadTailProperties DEF Received, Takes

\* A request for a text is none of the others.
LEMMA InfoNoLogin ==
  \A t \in Range(InfoRequest) :
    t \notin {"LOGIN_SET_USERNAME", "LOGIN_SET_PASSWORD", "LOGIN_AUTHENTICATE"} \cup LoginResponse
<1>1. ASSUME NEW c \in InfoText
      PROVE  InfoRequest[c] \in {"HELLO", "GENERIC_1", "GENERIC_2", "GENERIC_3", "GENERIC_4",
                                 "GENERIC_5", "MENU"}
  BY DEF InfoRequest, InfoText
<1>2. DOMAIN InfoRequest = InfoText
  BY DEF InfoRequest
<1> QED BY <1>1, <1>2 DEF Range, LoginResponse

\* What the server queues for a request m has a login response at most once, and
\* only if m is the login request it answers.
AnswerFits(q, m) ==
  /\ q \in Seq(ServerMessage)
  /\ \A i, j \in DOMAIN q : IsLogin(q[i]) /\ IsLogin(q[j]) => i = j
  /\ \A i \in DOMAIN q : IsLogin(q[i]) => IsLogin(m) /\ AwaitedIn(q[i]) = AwaitedIn(m)

\* What the server queues for a request are messages to the client, and a login
\* answer only for a login request of its kind.
LEMMA AnswerQueued ==
  ASSUME NEW m \in Message, NEW a \in Answers(m), srv \in {"new", "named", "verified"}
  PROVE  /\ AnswerFits(a.queued, m)
         /\ a.srv \in {"new", "named", "verified"} /\ a.gone \in BOOLEAN
<1>1. /\ Display \in ServerMessage /\ ~IsLogin(Display)
      /\ \A b \in BOOLEAN : \A t \in LoginResponse \cup {"LOGIN_SET_PASSWORD_RESPONSE"} :
           Response(t, b) \in ServerMessage /\ Response(t, b).type = t
  BY DEF Display, Response, ServerMessage, IsLogin, LoginRequest, LoginResponse
<1>2. AnswerFits(<<Display>>, m)
  <2>1. DOMAIN <<Display>> = {1} /\ <<Display>>[1] = Display
    OBVIOUS
  <2> QED BY <1>1, <2>1 DEF AnswerFits
<1>3. ASSUME NEW r \in ServerMessage, IsLogin(r) => IsLogin(m) /\ AwaitedIn(r) = AwaitedIn(m)
      PROVE  AnswerFits(<<r>>, m) /\ AnswerFits(<<Display, r>>, m)
  <2>1. DOMAIN <<r>> = {1} /\ <<r>>[1] = r
    OBVIOUS
  <2>2. /\ DOMAIN <<Display, r>> = {1, 2}
        /\ <<Display, r>>[1] = Display /\ <<Display, r>>[2] = r
    OBVIOUS
  <2>3. AnswerFits(<<r>>, m)
    BY <1>1, <1>3, <2>1 DEF AnswerFits
  <2>4. AnswerFits(<<Display, r>>, m)
    BY <1>1, <1>3, <2>2 DEF AnswerFits
  <2> QED BY <2>3, <2>4
<1>4. ASSUME NEW b \in BOOLEAN, m.type = "LOGIN_SET_USERNAME"
      PROVE  /\ AnswerFits(<<Response("LOGIN_SET_USERNAME_RESPONSE", b)>>, m)
             /\ AnswerFits(<<Display, Response("LOGIN_SET_USERNAME_RESPONSE", b)>>, m)
  BY <1>1, <1>3, <1>4 DEF IsLogin, LoginRequest, LoginResponse, AwaitedIn
<1>5. ASSUME NEW b \in BOOLEAN, m.type = "LOGIN_AUTHENTICATE"
      PROVE  AnswerFits(<<Display, Response("LOGIN_AUTHENTICATE_RESPONSE", b)>>, m)
  BY <1>1, <1>3, <1>5 DEF IsLogin, LoginRequest, LoginResponse, AwaitedIn
<1>6. ASSUME NEW b \in BOOLEAN
      PROVE  AnswerFits(<<Display, Response("LOGIN_SET_PASSWORD_RESPONSE", b)>>, m)
  BY <1>1, <1>3 DEF IsLogin, LoginRequest, LoginResponse
<1>7. ASSUME NEW q, NEW t, NEW g \in BOOLEAN, a = Outcome(q, t, g), AnswerFits(q, m),
             t \in {"new", "named", "verified"}
      PROVE  /\ AnswerFits(a.queued, m)
             /\ a.srv \in {"new", "named", "verified"} /\ a.gone \in BOOLEAN
  <2>1. a.queued = q /\ a.srv = t /\ a.gone = g
    BY <1>7 DEF Outcome
  <2> QED BY <1>7, <2>1
<1>8. /\ AnswerFits(a.queued, m)
      /\ a.srv \in {"new", "named", "verified"} /\ a.gone \in BOOLEAN
  <2>1. ASSUME a = Outcome(<<Display>>, srv, FALSE) \/ a = Outcome(<<Display>>, srv, TRUE)
        PROVE  /\ AnswerFits(a.queued, m)
               /\ a.srv \in {"new", "named", "verified"} /\ a.gone \in BOOLEAN
    BY <1>2, <1>7, <2>1
  <2>2. CASE m.type \in Range(InfoRequest)
    <3>1. Answers(m) = {Outcome(<<Display>>, srv, FALSE)}
      BY <2>2, InfoNoLogin DEF Answers
    <3> QED BY <2>1, <3>1
  <2>3. CASE m.type \notin Range(InfoRequest) /\ m.type = "LOGIN_SET_USERNAME" /\ srv # "new"
    <3>1. Answers(m) = {Outcome(<<Display>>, srv, FALSE)}
      BY <2>3 DEF Answers
    <3> QED BY <2>1, <3>1
  <2>4. CASE m.type \notin Range(InfoRequest) /\ m.type = "LOGIN_SET_USERNAME" /\ srv = "new"
    <3>1. Answers(m) =
            {Outcome(<<Display, Response("LOGIN_SET_USERNAME_RESPONSE", TRUE)>>, "named", FALSE),
             Outcome(<<Response("LOGIN_SET_USERNAME_RESPONSE", FALSE)>>, srv, TRUE)}
      BY <2>4 DEF Answers
    <3> QED BY <1>4, <1>7, <2>4, <3>1
  <2>5. CASE /\ m.type \notin Range(InfoRequest) /\ m.type = "LOGIN_AUTHENTICATE"
             /\ srv # "new"
    <3>1. \/ a = Outcome(<<Display, Response("LOGIN_AUTHENTICATE_RESPONSE", TRUE)>>,
                         "verified", FALSE)
          \/ \E g \in BOOLEAN :
               a = Outcome(<<Display, Response("LOGIN_AUTHENTICATE_RESPONSE", FALSE)>>, srv, g)
      BY <2>5 DEF Answers
    <3> QED BY <1>5, <1>7, <2>5, <3>1
  <2>6. CASE /\ m.type \notin Range(InfoRequest) /\ m.type = "LOGIN_SET_PASSWORD"
             /\ srv = "verified"
    <3>1. \E b \in BOOLEAN :
            a = Outcome(<<Display, Response("LOGIN_SET_PASSWORD_RESPONSE", b)>>, srv, FALSE)
      BY <2>6 DEF Answers
    <3> QED BY <1>6, <1>7, <3>1
  <2>7. CASE /\ m.type \notin Range(InfoRequest)
             /\ \/ m.type = "LOGIN_AUTHENTICATE" /\ srv = "new"
                \/ m.type = "LOGIN_SET_PASSWORD" /\ srv # "verified"
    <3>1. Answers(m) = {Outcome(<<Display>>, srv, TRUE)}
      BY <2>7 DEF Answers
    <3> QED BY <2>1, <3>1
  <2> QED BY <2>2, <2>3, <2>4, <2>5, <2>6, <2>7 DEF Message
<1> QED BY <1>8

\* A step keeps what a callback has read of the kind its descriptor brings.
LEMMA InbufStep ==
  ASSUME SelectorInv, ClientTypeOK, InbufKind, [ClientNext]_clientVars
  PROVE  InbufKind'
<1>1. CASE LoopOnly
  BY <1>1, LoopOnlyEffect, Distinct DEF InbufKind, networkVars, serverEnd
<1>2. CASE \/ EndInput \/ ServerHandles \/ ServerCloses \/ \E t \in Text : TypeLine(t)
           \/ \E k \in 1..Len(answers) : ServerSends(k)
  BY <1>2 DEF EndInput, ServerHandles, ServerCloses, TypeLine, ServerSends, selectorVars,
              InbufKind
<1>3. CASE ReadLine
  <2>1. Head(tty) \in Line
    BY <1>3, HeadTailProperties DEF ReadLine, ClientTypeOK
  <2> QED BY <1>3, <2>1, Distinct DEF ReadLine, StartCallback, InbufKind
<1>4. ASSUME NEW k \in 1..Len(inbox), ReadMessages(k) PROVE InbufKind'
  <2>1. inbox \in Seq(ServerMessage) /\ k \in 0..Len(inbox)
    BY LenProperties DEF ClientTypeOK
  <2>2. SubSeq(inbox, 1, k) \in Seq(ServerMessage)
    BY <2>1, SplitPositions
  <2> QED BY <1>4, <2>2, Distinct DEF ReadMessages, StartCallback, InbufKind
<1>5. ASSUME NEW k \in 1..Len(wbuf[Socket]), Flush(k) PROVE InbufKind'
  BY <1>5 DEF Flush, Write, NextDescriptor, InbufKind
<1>6. CASE MessageHandler
  <2>1. (\E t : Received(t)) /\ current' = current
    BY <1>6, HandlersKeep
       DEF MessageHandler, onReadDisplayMessage, onReadLoginSetPasswordResponse,
           onReadLoginSetUsernameResponse, onReadLoginAuthenticateResponse
  <2> QED BY <2>1, MessageTaken, Distinct DEF InbufKind
<1>7. CASE handleUserInput
  BY <1>7, LineTaken, Distinct DEF InbufKind
<1> QED BY <1>1, <1>2, <1>3, <1>4, <1>5, <1>6, <1>7, StepCases

\* The kernel's numbers stay those of the socket and of stdin.
LEMMA NumbersStep ==
  ASSUME SelectorInv, InbufKind, NumbersKept, [ClientNext]_clientVars
  PROVE  NumbersKept'
<1> USE DEF SelectorInv
<1>1. fds \in Seq(Desc) /\ num \in [Desc -> FdNum \cup {NoFd}]
  BY DEF SelectorTypeOK
<1>2. ASSUME UNCHANGED <<fds, num>> PROVE NumbersKept'
  BY <1>2 DEF NumbersKept, Registered
<1>3. ASSUME NEW n, RemoveFD(n, wbuf), current = NoDesc PROVE NumbersKept'
  <2>1. /\ Registered' \subseteq Registered
        /\ \A d \in Desc :
             num'[d] = IF d \in Registered \ Registered' /\ d # current THEN NoFd ELSE num[d]
    BY <1>3, RemoveFDEffect DEF SelectorTypeOK
  <2>2. Registered \subseteq Desc
    BY <1>1, LenProperties, ElementOfSeq DEF Registered, Range
  <2> QED BY <2>1, <2>2 DEF NumbersKept
<1>4. CASE ConnectionLost \/ InputLost \/ FlushFails
  <2>1. status # "callback"
    BY <1>4 DEF ConnectionLost, InputLost, FlushFails, ReadFails, WriteFails, HandlingEvent,
                Handling
  <2> QED BY <1>3, <1>4, <2>1, NotReading
             DEF ConnectionLost, InputLost, FlushFails, ReadFails, WriteFails
<1>5. CASE ReadDone
  <2>1. current \in Desc
    BY <1>5 DEF ReadDone, EndCallback, CallbackHolds, SelectorTypeOK
  <2>2. fds' = fds /\ Registered' = Registered
    BY <1>5 DEF ReadDone, EndCallback, Registered
  <2>3. CASE current \in Registered
    BY <1>5, <2>2, <2>3 DEF ReadDone, EndCallback, NumbersKept
  <2>4. CASE current \notin Registered
    <3>1. num' = [num EXCEPT ![current] = NoFd]
      BY <1>5, <2>4 DEF ReadDone, EndCallback, Destroy
    <3>2. \A d \in Registered : d # current /\ num'[d] = num[d]
      BY <2>4, <3>1
    <3> QED BY <2>2, <3>2 DEF NumbersKept
  <2> QED BY <2>3, <2>4
<1>6. CASE closeConn
  <2>1. Registered' = {}
    BY <1>6 DEF closeConn, ClearFDs, Registered, Range
  <2> QED BY <2>1 DEF NumbersKept
<1>7. CASE MessageHandler \/ handleUserInput
  BY <1>2, <1>7, HandlersKeep
<1>8. CASE \/ EndInput \/ ServerHandles \/ ServerCloses \/ ReadLine
           \/ (\E t \in Text : TypeLine(t))
           \/ (\E k \in 1..Len(answers) : ServerSends(k))
           \/ (\E k \in 1..Len(inbox) : ReadMessages(k))
           \/ (\E k \in 1..Len(wbuf[Socket]) : Flush(k))
  <2>1. UNCHANGED <<fds, num>>
    BY <1>8 DEF EndInput, ServerHandles, ServerCloses, ReadLine, TypeLine, ServerSends,
                ReadMessages, Flush, StartCallback, Write, selectorVars
  <2> QED BY <1>2, <2>1
<1>9. CASE \/ \E wr \in SUBSET RegisteredNumbers : ClientPoll(wr)
           \/ ClientSkip \/ FlushKills \/ ClientInterrupt \/ ClientStops
           \/ ClientTerminated \/ UNCHANGED clientVars
  <2>1. UNCHANGED <<fds, num>>
    BY <1>9 DEF ClientPoll, Poll, ClientSkip, Skip, FlushKills, WriteKills, ClientInterrupt,
                Interrupt, ClientStops, LoopEnds, ClientTerminated, clientVars, selectorVars
  <2> QED BY <1>2, <2>1
<1> QED BY <1>4, <1>5, <1>6, <1>7, <1>8, <1>9, StepCases DEF LoopOnly

\* Every variable keeps its type.
LEMMA TypeStep ==
  ASSUME SelectorInv, ClientTypeOK, InbufKind, SelectorInv', InbufKind',
         [ClientNext]_clientVars
  PROVE  ClientTypeOK'
<1> USE DEF ClientTypeOK
<1>1. SelectorTypeOK'
  BY DEF SelectorInv
<1>2. Socket \in Desc /\ wbuf[Socket] \in Seq(Message)
  BY ClientAssumption DEF SelectorTypeOK
<1>3. inbuf' \in Seq(ServerMessage) \cup Seq(Line)
  <2>1. /\ <<>> \in Seq(Line)
        /\ \A l \in Line : <<l>> \in Seq(Line)
    OBVIOUS
  <2>2. current' \in {Socket, Stdin, NoDesc}
    BY <1>1, ClientAssumption DEF SelectorTypeOK
  <2> QED BY <2>1, <2>2 DEF InbufKind
<1>4. ASSUME UNCHANGED <<terminalVars, networkVars, inputVars>> PROVE ClientTypeOK'
  BY <1>1, <1>3, <1>4 DEF terminalVars, networkVars, serverEnd, inputVars
<1>5. CASE LoopOnly
  BY <1>4, <1>5, LoopOnlyEffect
<1>6. ASSUME NEW t \in Text, TypeLine(t) PROVE ClientTypeOK'
  <2>1. [text |-> t, hidden |-> ~echo] \in Line
    BY DEF Line
  <2>2. tty' \in Seq(Line)
    BY <1>6, <2>1, AppendProperties DEF TypeLine
  <2>3. typed' \in 0..MaxLines
    <3>1. MaxLines \in Nat /\ typed \in 0..MaxLines
      BY ClientAssumption
    <3>2. typed < MaxLines /\ typed' = typed + 1
      BY <1>6 DEF TypeLine
    <3> HIDE DEF ClientTypeOK
    <3> QED BY <3>1, <3>2
  <2>4. patient' \in BOOLEAN
    BY <1>6 DEF TypeLine
  <2> QED BY <1>1, <1>3, <1>6, <2>2, <2>3, <2>4
             DEF TypeLine, networkVars, serverEnd, inputVars
<1>7. CASE EndInput
  BY <1>1, <1>3, <1>7 DEF EndInput, networkVars, serverEnd, inputVars
<1>8. CASE ServerHandles
  <2>1. Head(toServer) \in Message /\ Tail(toServer) \in Seq(Message)
    BY <1>8, HeadTailProperties DEF ServerHandles
  <2>2. PICK a \in Answers(Head(toServer)) :
          /\ srv' = a.srv
          /\ gone' = (gone \/ a.gone)
          /\ answers' = IF gone' THEN <<>> ELSE answers \o a.queued
    BY <1>8 DEF ServerHandles
  <2>3. /\ a.queued \in Seq(ServerMessage)
        /\ a.srv \in {"new", "named", "verified"} /\ a.gone \in BOOLEAN
    BY <2>1, AnswerQueued DEF AnswerFits
  <2>4. answers' \in Seq(ServerMessage)
    BY <2>2, <2>3, ConcatProperties, EmptySeq
  <2> QED BY <1>1, <1>3, <1>8, <2>1, <2>2, <2>3, <2>4
             DEF ServerHandles, terminalVars, inputVars
<1>9. ASSUME NEW k \in 1..Len(answers), ServerSends(k) PROVE ClientTypeOK'
  <2>1. k \in 0..Len(answers)
    BY LenProperties
  <2>2. /\ SubSeq(answers, 1, k) \in Seq(ServerMessage)
        /\ SubSeq(answers, k + 1, Len(answers)) \in Seq(ServerMessage)
    BY <2>1, SplitPositions
  <2>3. inbox' \in Seq(ServerMessage) /\ answers' \in Seq(ServerMessage)
    BY <1>9, <2>2, ConcatProperties DEF ServerSends
  <2> QED BY <1>1, <1>3, <1>9, <2>3 DEF ServerSends, terminalVars, inputVars
<1>10. CASE ServerCloses
  BY <1>1, <1>3, <1>10, EmptySeq DEF ServerCloses, terminalVars, inputVars
<1>11. CASE ReadLine
  <2>1. tty' \in Seq(Line)
    BY <1>11, HeadTailProperties DEF ReadLine
  <2> QED BY <1>1, <1>3, <1>11, <2>1 DEF ReadLine, networkVars, serverEnd, inputVars
<1>12. ASSUME NEW k \in 1..Len(inbox), ReadMessages(k) PROVE ClientTypeOK'
  <2>1. k \in 0..Len(inbox)
    BY LenProperties
  <2>2. inbox' \in Seq(ServerMessage)
    BY <1>12, <2>1, SplitPositions DEF ReadMessages
  <2> QED BY <1>1, <1>3, <1>12, <2>2 DEF ReadMessages, terminalVars, serverEnd, inputVars
<1>13. ASSUME NEW k \in 1..Len(wbuf[Socket]), Flush(k) PROVE ClientTypeOK'
  <2>1. k \in 0..Len(wbuf[Socket])
    BY <1>2, LenProperties
  <2>2. SubSeq(wbuf[Socket], 1, k) \in Seq(Message)
    BY <1>2, <2>1, SplitPositions
  <2>3. toServer' \in Seq(Message)
    BY <1>13, <2>2, ConcatProperties, EmptySeq DEF Flush
  <2> QED BY <1>1, <1>3, <1>13, <2>3 DEF Flush, terminalVars, serverEnd, inputVars
<1>14. CASE MessageHandler
  <2>1. /\ UNCHANGED <<eof, typed, patient, networkVars>>
        /\ tty' = tty \/ tty' = <<>>
        /\ echo' \in BOOLEAN /\ clientInputState' \in InputState
        /\ UNCHANGED <<passwordTemporaryStorage, exposed>>
        /\ awaiting' \in BOOLEAN
    BY <1>14 DEF MessageHandler, onReadDisplayMessage, onReadLoginSetPasswordResponse,
                 onReadLoginSetUsernameResponse, onReadLoginAuthenticateResponse, Received,
                 Takes, AskPassword, setFDEcho, inputVars, InputState
  <2> QED BY <1>1, <1>3, <2>1, EmptySeq DEF networkVars, serverEnd
<1>15. CASE handleUserInput
  <2>1. /\ UNCHANGED <<eof, typed, patient, networkVars>> /\ Input \in Line
    BY <1>15, LineTaken
  <2>2. /\ tty' = tty \/ tty' = <<>>
        /\ echo' \in BOOLEAN /\ clientInputState' \in InputState
        /\ passwordTemporaryStorage' \in Line \cup {NothingStored}
        /\ awaiting' \in BOOLEAN /\ exposed' \in BOOLEAN
    BY <1>15, <2>1
       DEF handleUserInput, EnterUsername, EnterPassword, EnterNewPassword, RepeatNewPassword,
           EnterInfoCommand, EnterPasswd, EnterExit, EnterUnknown, SendPassword, setFDEcho,
           inputVars, InputState, Line
  <2> QED BY <1>1, <1>3, <2>1, <2>2, EmptySeq DEF networkVars, serverEnd
<1> QED BY <1>5, <1>6, <1>7, <1>8, <1>9, <1>10, <1>11, <1>12, <1>13, <1>14, <1>15, StepCases

(***************************************************************************)
(* The client implements the select loop.                                  *)
(***************************************************************************)

\* The part of the invariant that does not depend on the user.
TypeInv == SelectorInv /\ ClientTypeOK /\ InbufKind /\ NumbersKept

\* The types and the kernel's numbers hold initially.
LEMMA TypeInit == ClientInit => TypeInv
<1> SUFFICES ASSUME ClientInit PROVE TypeInv
  OBVIOUS
<1>1. SelectorInv
  BY InitInv DEF ClientInit
<1>2. ClientTypeOK
  <2>1. /\ <<>> \in Seq(Line) /\ <<>> \in Seq(ServerMessage) /\ <<>> \in Seq(Message)
    BY EmptySeq
  <2>2. 0 \in 0..MaxLines
    <3>1. MaxLines \in Nat
      BY ClientAssumption
    <3> QED BY <3>1
  <2>3. SelectorTypeOK
    BY <1>1 DEF SelectorInv
  <2> QED BY <2>1, <2>2, <2>3 DEF ClientInit, ClientTypeOK, InputState
<1>3. InbufKind /\ NumbersKept
  <2>1. Registered \subseteq Desc
    BY <1>1, LenProperties, ElementOfSeq DEF SelectorInv, SelectorTypeOK, Registered, Range
  <2> QED BY <2>1, Distinct DEF ClientInit, SelectorInit, InbufKind, NumbersKept
<1> QED BY <1>1, <1>2, <1>3 DEF TypeInv

\* They are kept by every step.
LEMMA TypeNext ==
  ASSUME TypeInv, [ClientNext]_clientVars
  PROVE  TypeInv' /\ [SelectorNext]_selectorVars
<1>1. [SelectorNext]_selectorVars
  BY StepSimulation DEF TypeInv
<1>2. SelectorInv'
  BY <1>1, NextInv DEF TypeInv
<1>3. InbufKind' /\ NumbersKept'
  BY InbufStep, NumbersStep DEF TypeInv
<1> QED BY <1>1, <1>2, <1>3, TypeStep DEF TypeInv

\* The part of the invariant that holds whatever the user types.
THEOREM TypeInvariance == ClientSpec => []TypeInv
<1>1. TypeInv /\ [ClientNext]_clientVars => TypeInv'
  BY TypeNext
<1> QED BY <1>1, TypeInit, PTL DEF ClientSpec

\* Every variable of the client keeps its type, for any lines and any number of
\* them.
THEOREM ClientTypeCorrect == ClientSpec => []ClientTypeOK
<1>1. TypeInv => ClientTypeOK
  BY DEF TypeInv
<1> QED BY <1>1, TypeInvariance, PTL

\* The client is a select loop: what src/TCPClient.cpp does in its callbacks is
\* what include/Selector.h lets a callback do, so that what is proved of the loop
\* holds of the client.
THEOREM ClientImplementsSelector == ClientSpec => SelectorSpec
<1>1. ClientInit => SelectorInit
  BY DEF ClientInit
<1>2. TypeInv /\ [ClientNext]_clientVars => [SelectorNext]_selectorVars
  BY TypeNext
<1> QED BY <1>1, <1>2, TypeInvariance, PTL DEF ClientSpec, SelectorSpec

(***************************************************************************)
(* The user who waits for the prompts.                                     *)
(***************************************************************************)

\* The five places, by name.
LEMMA UnderWayPlaces ==
  /\ UnderWay[1] = IF current = Socket THEN inbuf ELSE <<>>
  /\ UnderWay[2] = inbox /\ UnderWay[3] = answers /\ UnderWay[4] = toServer
  /\ UnderWay[5] = wbuf[Socket]
BY DEF UnderWay

\* Every message under way is a request or an answer.
LEMMA UnderWayTyped ==
  ASSUME ClientTypeOK, InbufKind
  PROVE  \A r \in Place : UnderWay[r] \in Seq(Message \cup ServerMessage)
<1> DEFINE M == Message \cup ServerMessage
<1>1. \A q : (q \in Seq(Message) => q \in Seq(M)) /\ (q \in Seq(ServerMessage) => q \in Seq(M))
  <2>1. Message \subseteq M /\ ServerMessage \subseteq M
    OBVIOUS
  <2> HIDE DEF M
  <2> QED BY <2>1, SeqMonotonic
<1>2. Socket \in Desc /\ wbuf[Socket] \in Seq(Message)
  BY ClientAssumption DEF ClientTypeOK, SelectorTypeOK
<1>3. (IF current = Socket THEN inbuf ELSE <<>>) \in Seq(M)
  BY <1>1, EmptySeq DEF InbufKind
<1> HIDE DEF M
<1>4. /\ UnderWay[1] \in Seq(M) /\ UnderWay[2] \in Seq(M) /\ UnderWay[3] \in Seq(M)
      /\ UnderWay[4] \in Seq(M) /\ UnderWay[5] \in Seq(M)
  BY <1>1, <1>2, <1>3, UnderWayPlaces DEF ClientTypeOK
<1>5. Place = {1, 2, 3, 4, 5}
  BY DEF Place
<1> QED BY <1>4, <1>5 DEF M

\* A login response that a patient user's client handles is one it waits for.
LEMMA ResponseExpected ==
  ASSUME InbufKind, OneLoginUnderWay, LineAlone, patient,
         NEW type, Received(type), IsLogin(Head(inbuf))
  PROVE  /\ awaiting /\ clientInputState = AwaitedIn(Head(inbuf))
         /\ tty = <<>>
<1>1. current = Socket /\ inbuf # <<>> /\ inbuf \in Seq(ServerMessage)
  BY MessageTaken
<1>2. 1 \in DOMAIN inbuf /\ Head(inbuf) = inbuf[1]
  BY <1>1, TailShift
<1>3. UnderWay[1] = inbuf /\ 1 \in Place
  BY <1>1, UnderWayPlaces DEF Place
<1> QED BY <1>2, <1>3 DEF OneLoginUnderWay, LoginFits, LineAlone

\* A line that a patient user's client handles is handled with no answer awaited.
LEMMA LineExpected ==
  ASSUME InbufKind, OneLoginUnderWay, LineAlone, patient, handleUserInput
  PROVE  /\ ~awaiting /\ tty = <<>> /\ (Input.hidden <=> ~echo)
         /\ NoLogin(UnderWay)
<1>1. current = Stdin /\ inbuf # <<>>
  BY LineTaken
<1>2. ~awaiting /\ tty = <<>> /\ (Head(inbuf).hidden <=> ~echo)
  BY <1>1 DEF LineAlone
<1> QED BY <1>2 DEF OneLoginUnderWay, LoginFits, NoLogin, Input

\* Patience is lost but never regained.
LEMMA PatientBefore ==
  ASSUME TypeInv, [ClientNext]_clientVars
  PROVE  UNCHANGED patient \/ \E t \in Text : TypeLine(t)
BY StepCases, LoopOnlyEffect, LineTaken
   DEF TypeInv, terminalVars, EndInput, ServerHandles, ServerCloses, ReadLine, ServerSends,
       ReadMessages, Flush, MessageHandler, onReadDisplayMessage,
       onReadLoginSetPasswordResponse, onReadLoginSetUsernameResponse,
       onReadLoginAuthenticateResponse, Received, Takes

\* A patient user's line stays alone: a next one is typed only when it is handled
\* and its answer with it.
LEMMA LineStep ==
  ASSUME TypeInv, TypeInv', OneLoginUnderWay, LineAlone, [ClientNext]_clientVars
  PROVE  LineAlone'
<1> USE DEF TypeInv
<1>1. patient' => patient
  BY PatientBefore DEF TypeLine
<1> SUFFICES ASSUME patient, patient' PROVE LineAlone'
  BY <1>1 DEF LineAlone
<1>2. CASE LoopOnly
  <2>1. UNCHANGED <<tty, echo, patient, inbuf, awaiting>>
    BY <1>2, LoopOnlyEffect DEF terminalVars, inputVars
  <2> QED BY <1>2, <2>1, LoopOnlyEffect, Distinct DEF LineAlone
<1>3. CASE \/ EndInput \/ ServerHandles \/ ServerCloses
           \/ (\E k \in 1..Len(answers) : ServerSends(k))
           \/ (\E k \in 1..Len(wbuf[Socket]) : Flush(k))
  <2>1. UNCHANGED <<tty, echo, patient, inbuf, awaiting, current>>
    BY <1>3 DEF EndInput, ServerHandles, ServerCloses, ServerSends, Flush, Write,
                NextDescriptor, terminalVars, inputVars, selectorVars
  <2> QED BY <2>1 DEF LineAlone
<1>4. ASSUME NEW k \in 1..Len(inbox), ReadMessages(k) PROVE LineAlone'
  BY <1>4, Distinct DEF ReadMessages, StartCallback, terminalVars, inputVars, LineAlone
<1>5. ASSUME NEW t \in Text, TypeLine(t) PROVE LineAlone'
  <2>1. tty = <<>> /\ current # Stdin /\ ~awaiting
    BY <1>5 DEF TypeLine, Prompted
  <2>2. PICK l : l = [text |-> t, hidden |-> ~echo]
    OBVIOUS
  <2>3. l \in Line /\ (l.hidden <=> ~echo)
    BY <2>2 DEF Line
  <2>4. tty' = <<l>>
    BY <1>5, <2>1, <2>2 DEF TypeLine
  <2>5. UNCHANGED <<echo, inbuf, awaiting, current>>
    BY <1>5 DEF TypeLine, inputVars, selectorVars
  <2> QED BY <2>1, <2>3, <2>4, <2>5 DEF LineAlone
<1>6. CASE ReadLine
  <2>1. PICK l \in Line : tty = <<l>> /\ (l.hidden <=> ~echo)
    BY <1>6 DEF ReadLine, LineAlone
  <2>2. tty' = <<>> /\ inbuf' = <<l>> /\ current' = Stdin
    BY <1>6, <2>1 DEF ReadLine, StartCallback
  <2>3. UNCHANGED <<echo, awaiting>> /\ ~awaiting
    BY <1>6, <2>1 DEF ReadLine, inputVars, LineAlone
  <2> QED BY <2>1, <2>2, <2>3 DEF LineAlone
<1>7. CASE MessageHandler
  <2>1. current = Socket /\ current' = Socket
    BY <1>7, HandlersKeep, MessageTaken
       DEF MessageHandler, onReadDisplayMessage, onReadLoginSetPasswordResponse,
           onReadLoginSetUsernameResponse, onReadLoginAuthenticateResponse
  <2>2. \/ UNCHANGED <<tty, echo>> /\ (awaiting' => awaiting)
        \/ tty' = <<>>
    BY <1>7 DEF MessageHandler, onReadDisplayMessage, onReadLoginSetPasswordResponse,
                onReadLoginSetUsernameResponse, onReadLoginAuthenticateResponse, AskPassword,
                setFDEcho, inputVars
  <2> QED BY <2>1, <2>2, Distinct DEF LineAlone
<1>8. CASE handleUserInput
  <2>1. tty' = tty \/ tty' = <<>>
    BY <1>8 DEF handleUserInput, EnterUsername, EnterPassword, EnterNewPassword,
                RepeatNewPassword, EnterInfoCommand, EnterPasswd, EnterExit, EnterUnknown,
                setFDEcho
  <2>2. tty' = <<>>
    BY <1>8, <2>1, LineExpected
  <2> QED BY <1>8, <2>2, LineTaken DEF LineAlone
<1> QED BY <1>2, <1>3, <1>4, <1>5, <1>6, <1>7, <1>8, StepCases

\* The login messages stay where the client waits for them when they only move.
LEMMA CarriedFits ==
  ASSUME CarriedFrom(UnderWay', UnderWay), LoginFits(UnderWay),
         UNCHANGED <<awaiting, clientInputState>>
  PROVE  LoginFits(UnderWay)'
BY DEF CarriedFrom, LoginFits, AwaitedIn

\* No login message: none is left either.
LEMMA CarriedNone ==
  ASSUME NEW v, NEW w, CarriedFrom(v, w), NoLogin(w)
  PROVE  NoLogin(v)
BY DEF CarriedFrom, NoLogin

\* Where no login message is, every condition on one holds.
LEMMA NoLoginFits ==
  ASSUME NoLogin(UnderWay)'
  PROVE  OneLogin(UnderWay)' /\ LoginFits(UnderWay)'
BY DEF NoLogin, OneLogin, LoginFits

\* A request of the client is queued for the socket or, when the descriptor is
\* gone, dropped.
LEMMA RequestAdded ==
  ASSUME NEW m \in Message, CallbackWrite(SocketFd, <<m>>), TypeInv
  PROVE  wbuf'[Socket] = wbuf[Socket] \/ wbuf'[Socket] = wbuf[Socket] \o <<m>>
<1>1. Socket \in Desc
  BY ClientAssumption
<1> QED BY <1>1 DEF CallbackWrite, WriteToFD

\* Where the messages are after a step that takes a line.
LEMMA LineMoves ==
  ASSUME TypeInv, TypeInv', handleUserInput
  PROVE  /\ \A r \in Place \ {5} : UnderWay'[r] = UnderWay[r]
         /\ UnderWay'[5] = wbuf'[Socket]
<1>1. /\ current = Stdin /\ current' = Stdin
      /\ UNCHANGED <<inbox, answers, toServer>>
  BY LineTaken DEF TypeInv, networkVars, serverEnd
<1>2. \A r \in Place \ {5} : r \in {1, 2, 3, 4}
  BY DEF Place
<1> QED BY <1>1, <1>2, Distinct DEF UnderWay

\* A request that joins messages without a login is the only login at most.
LEMMA RequestAlone ==
  ASSUME NEW v, NEW w, NEW m \in Message,
         \A r \in Place : w[r] \in Seq(Message \cup ServerMessage),
         \A r \in Place \ {5} : v[r] = w[r],
         v[5] = w[5] \/ v[5] = w[5] \o <<m>>,
         NoLogin(w)
  PROVE  /\ OneLogin(v)
         /\ \A r \in Place : \A i \in DOMAIN v[r] : IsLogin(v[r][i]) => v[r][i] = m
<1>1. CASE v[5] = w[5]
  <2>1. \A r \in Place : v[r] = w[r]
    BY <1>1
  <2> QED BY <2>1 DEF NoLogin, OneLogin
<1>2. CASE v[5] = w[5] \o <<m>>
  <2>1. PICK ms : ms = <<m>>
    OBVIOUS
  <2>2. /\ 5 \in Place /\ ms \in Seq(Message \cup ServerMessage)
        /\ \A i, j \in DOMAIN ms : i = j /\ ms[i] = m
    BY <2>1 DEF Place
  <2>3. OneLogin(w) /\ v[5] = w[5] \o ms
    BY <1>2, <2>1 DEF NoLogin, OneLogin
  <2>4. OneLogin(v) /\ AddedTo(v, w, ms)
    BY <2>2, <2>3, MessagesAdded
  <2> QED BY <2>2, <2>4 DEF NoLogin, AddedTo
<1> QED BY <1>1, <1>2

\* A client that waits for nothing sends one request at most.
LEMMA LineSends ==
  ASSUME TypeInv, TypeInv', handleUserInput, NoLogin(UnderWay),
         NEW m \in Message, wbuf' = wbuf \/ CallbackWrite(SocketFd, <<m>>)
  PROVE  /\ OneLogin(UnderWay')
         /\ \A r \in Place : \A i \in DOMAIN UnderWay'[r] :
              IsLogin(UnderWay'[r][i]) => UnderWay'[r][i] = m
<1>1. \A r \in Place : UnderWay[r] \in Seq(Message \cup ServerMessage)
  BY UnderWayTyped DEF TypeInv
<1>2. UnderWay[5] = wbuf[Socket] /\ UnderWay'[5] = wbuf'[Socket]
  BY UnderWayPlaces, LineMoves
<1>3. UnderWay'[5] = UnderWay[5] \/ UnderWay'[5] = UnderWay[5] \o <<m>>
  BY <1>2, RequestAdded
<1> QED BY <1>1, <1>3, LineMoves, RequestAlone

\* A line that is no login request puts none under way.
LEMMA NoLoginQueued ==
  ASSUME TypeInv, TypeInv', handleUserInput, NoLogin(UnderWay),
         NEW m \in Message, ~IsLogin(m), wbuf' = wbuf \/ CallbackWrite(SocketFd, <<m>>)
  PROVE  OneLogin(UnderWay)' /\ LoginFits(UnderWay)'
<1>1. NoLogin(UnderWay')
  BY LineSends DEF NoLogin
<1> QED BY <1>1, NoLoginFits

\* The login request of a client that waits for no answer is the only one.
LEMMA LoginQueued ==
  ASSUME TypeInv, TypeInv', handleUserInput, NoLogin(UnderWay),
         NEW m \in Message, CallbackWrite(SocketFd, <<m>>),
         awaiting', clientInputState' = AwaitedIn(m)
  PROVE  OneLogin(UnderWay)' /\ LoginFits(UnderWay)'
<1>1. /\ OneLogin(UnderWay')
      /\ \A r \in Place : \A i \in DOMAIN UnderWay'[r] :
           IsLogin(UnderWay'[r][i]) => UnderWay'[r][i] = m
  BY LineSends
<1> QED BY <1>1 DEF OneLogin, LoginFits, AwaitedIn

\* Messages carried twice are carried.
LEMMA CarriedTwice ==
  ASSUME NEW u, NEW v, NEW w, CarriedFrom(u, v), CarriedFrom(v, w)
  PROVE  CarriedFrom(u, w)
BY DEF CarriedFrom

\* The request the server takes makes room for its answer.
LEMMA AnswerAlone ==
  ASSUME NEW v, NEW w, NEW ms,
         \A r \in Place : w[r] \in Seq(Message \cup ServerMessage),
         w[4] # <<>>, AnswerFits(ms, Head(w[4])),
         ms \in Seq(Message \cup ServerMessage),
         v[4] = Tail(w[4]), v[3] = w[3] \o ms, \A r \in {1, 2, 5} : v[r] = w[r],
         OneLogin(w), LoginFits(w)
  PROVE  OneLogin(v) /\ LoginFits(v)
<1> DEFINE M == Message \cup ServerMessage
<1>1. PICK u : u = [r \in Place |-> IF r = 4 THEN Tail(w[4]) ELSE w[r]]
  OBVIOUS
<1>2. /\ u[4] = Tail(w[4]) /\ \A r \in Place \ {4} : u[r] = w[r]
      /\ 3 \in Place /\ 4 \in Place
      /\ \A r \in Place \ {3} : v[r] = u[r]
      /\ v[3] = u[3] \o ms
  <2>1. Place = {1, 2, 3, 4, 5}
    BY DEF Place
  <2> QED BY <1>1, <2>1
<1>3. OneLogin(u) /\ CarriedFrom(u, w)
  BY <1>2, MessagesLost
<1>4. u[3] \in Seq(M)
  BY <1>2
<1>5. 4 \in Place /\ 1 \in DOMAIN w[4] /\ Head(w[4]) = w[4][1]
  BY <1>2, TailShift
<1>6. NoLogin(u) \/ \A i \in DOMAIN ms : ~IsLogin(ms[i])
  <2>1. CASE IsLogin(Head(w[4]))
    BY <1>2, <2>1, LoginTaken
  <2>2. CASE ~IsLogin(Head(w[4]))
    BY <2>2 DEF AnswerFits
  <2> QED BY <2>1, <2>2
<1>7. \A i, j \in DOMAIN ms : IsLogin(ms[i]) /\ IsLogin(ms[j]) => i = j
  BY DEF AnswerFits
<1>8. OneLogin(v) /\ AddedTo(v, u, ms)
  <2> HIDE DEF M
  <2>1. ms \in Seq(M)
    BY DEF M
  <2> QED BY <1>2, <1>3, <1>4, <1>6, <1>7, <2>1, MessagesAdded
<1>9. LoginFits(v)
  <2> SUFFICES ASSUME NEW r \in Place, NEW i \in DOMAIN v[r], IsLogin(v[r][i])
               PROVE  awaiting /\ clientInputState = AwaitedIn(v[r][i])
    BY DEF LoginFits
  <2>1. CASE \E q \in Place : \E j \in DOMAIN u[q] : v[r][i] = u[q][j]
    <3>1. PICK q \in Place : \E j \in DOMAIN u[q] : v[r][i] = u[q][j]
      BY <2>1
    <3>2. PICK p \in Place : \E k \in DOMAIN w[p] : v[r][i] = w[p][k]
      BY <1>3, <3>1, SMTT(30) DEF CarriedFrom
    <3>3. PICK k \in DOMAIN w[p] : v[r][i] = w[p][k]
      BY <3>2
    <3> QED BY <3>3 DEF LoginFits
  <2>2. CASE \E j \in DOMAIN ms : v[r][i] = ms[j]
    BY <1>5, <2>2 DEF AnswerFits, LoginFits
  <2> QED BY <1>8, <2>1, <2>2 DEF AddedTo
<1> QED BY <1>8, <1>9

\* There is one login message at most, and the client waits for it: it moves, it
\* is replaced by its answer, or it is handled.
LEMMA LoginStep ==
  ASSUME TypeInv, TypeInv', OneLoginUnderWay, LineAlone, patient, [ClientNext]_clientVars
  PROVE  OneLogin(UnderWay)' /\ LoginFits(UnderWay)'
<1> USE DEF TypeInv
<1>1. /\ OneLogin(UnderWay) /\ LoginFits(UnderWay)
      /\ \A r \in Place : UnderWay[r] \in Seq(Message \cup ServerMessage)
      /\ 1 \in Place /\ 2 \in Place /\ 3 \in Place /\ 4 \in Place /\ 5 \in Place
  BY UnderWayTyped DEF OneLoginUnderWay, Place
<1>2. /\ UnderWay'[1] = IF current' = Socket THEN inbuf' ELSE <<>>
      /\ UnderWay'[2] = inbox' /\ UnderWay'[3] = answers' /\ UnderWay'[4] = toServer'
      /\ UnderWay'[5] = wbuf'[Socket]
  BY DEF UnderWay
<1>3. Place = {1, 2, 3, 4, 5}
  BY DEF Place
<1>4. ASSUME UNCHANGED <<awaiting, clientInputState>>,
             OneLogin(UnderWay'), CarriedFrom(UnderWay', UnderWay)
      PROVE  OneLogin(UnderWay)' /\ LoginFits(UnderWay)'
  BY <1>1, <1>4, CarriedFits DEF OneLogin
<1>5. ASSUME UNCHANGED <<awaiting, clientInputState>>,
             \A r \in Place : \/ UnderWay'[r] = UnderWay[r]
                              \/ UnderWay'[r] = <<>>
                              \/ UnderWay[r] # <<>> /\ UnderWay'[r] = Tail(UnderWay[r])
      PROVE  OneLogin(UnderWay)' /\ LoginFits(UnderWay)'
  <2>1. OneLogin(UnderWay') /\ CarriedFrom(UnderWay', UnderWay)
    BY <1>1, <1>5, MessagesLost
  <2> QED BY <1>4, <1>5, <2>1
<1>6. CASE LoopOnly
  <2>1. /\ UNCHANGED <<inbuf, inbox, answers, toServer, awaiting, clientInputState>>
        /\ current' = current \/ (current' = NoDesc /\ inbuf = <<>>)
        /\ wbuf'[Socket] = wbuf[Socket] \/ wbuf'[Socket] = <<>>
    BY <1>6, LoopOnlyEffect DEF networkVars, serverEnd, inputVars
  <2>2. UnderWay'[1] = UnderWay[1]
    BY <1>2, <2>1, UnderWayPlaces, Distinct
  <2> QED BY <1>2, <1>3, <1>5, <2>1, <2>2, UnderWayPlaces
<1>7. CASE EndInput \/ \E t \in Text : TypeLine(t)
  <2>1. UNCHANGED <<inbuf, inbox, answers, toServer, awaiting, clientInputState, current, wbuf>>
    BY <1>7 DEF EndInput, TypeLine, networkVars, serverEnd, inputVars, selectorVars
  <2> QED BY <1>2, <1>3, <1>5, <2>1, UnderWayPlaces
<1>8. CASE ServerHandles
  <2>1. UNCHANGED <<inbuf, inbox, awaiting, clientInputState, current, wbuf>>
    BY <1>8 DEF ServerHandles, inputVars, selectorVars
  <2>2. toServer # <<>> /\ toServer' = Tail(toServer) /\ toServer \in Seq(Message)
    BY <1>8 DEF ServerHandles, ClientTypeOK
  <2>3. PICK a \in Answers(Head(toServer)) : answers' = IF gone' THEN <<>> ELSE answers \o a.queued
    BY <1>8 DEF ServerHandles
  <2>4. CASE gone'
    BY <1>2, <1>3, <1>5, <2>1, <2>2, <2>3, <2>4, UnderWayPlaces
  <2>5. CASE ~gone'
    <3>1. AnswerFits(a.queued, Head(toServer))
      <4>1. Head(toServer) \in Message
        BY <2>2, HeadTailProperties
      <4> QED BY <4>1, AnswerQueued DEF ClientTypeOK
    <3>2. a.queued \in Seq(Message \cup ServerMessage)
      <4>1. a.queued \in Seq(ServerMessage) /\ ServerMessage \subseteq Message \cup ServerMessage
        BY <3>1 DEF AnswerFits
      <4> QED BY <4>1, SeqMonotonic
    <3>3. /\ UnderWay[4] # <<>> /\ AnswerFits(a.queued, Head(UnderWay[4]))
          /\ UnderWay'[4] = Tail(UnderWay[4]) /\ UnderWay'[3] = UnderWay[3] \o a.queued
          /\ \A r \in {1, 2, 5} : UnderWay'[r] = UnderWay[r]
      BY <1>2, <2>1, <2>2, <2>3, <2>5, <3>1, UnderWayPlaces
    <3>4. OneLogin(UnderWay') /\ LoginFits(UnderWay')
      BY <1>1, <3>2, <3>3, AnswerAlone
    <3> QED BY <2>1, <3>4 DEF OneLogin, LoginFits, AwaitedIn
  <2> QED BY <2>4, <2>5
<1>9. ASSUME NEW k \in 1..Len(answers), ServerSends(k)
      PROVE  OneLogin(UnderWay)' /\ LoginFits(UnderWay)'
  <2>1. /\ UNCHANGED <<inbuf, toServer, awaiting, clientInputState, current, wbuf>>
        /\ inbox' = inbox \o SubSeq(answers, 1, k)
        /\ answers' = SubSeq(answers, k + 1, Len(answers))
    BY <1>9 DEF ServerSends, inputVars, selectorVars
  <2>2. k \in 0..Len(UnderWay[3])
    BY UnderWayPlaces, LenProperties DEF ClientTypeOK
  <2>3. /\ UnderWay'[2] = UnderWay[2] \o SubSeq(UnderWay[3], 1, k)
        /\ UnderWay'[3] = SubSeq(UnderWay[3], k + 1, Len(UnderWay[3]))
        /\ \A r \in Place \ {2, 3} : UnderWay'[r] = UnderWay[r]
    BY <1>2, <1>3, <2>1, UnderWayPlaces
  <2>4. PICK p \in Place, q \in Place : p = 2 /\ q = 3
    BY <1>1
  <2>5. /\ p # q /\ k \in 0..Len(UnderWay[q])
        /\ UnderWay'[p] = UnderWay[p] \o SubSeq(UnderWay[q], 1, k)
        /\ UnderWay'[q] = SubSeq(UnderWay[q], k + 1, Len(UnderWay[q]))
        /\ \A r \in Place \ {p, q} : UnderWay'[r] = UnderWay[r]
    <3>1. p # q /\ k \in 0..Len(UnderWay[q])
      BY <2>2, <2>4
    <3>2. /\ UnderWay'[p] = UnderWay[p] \o SubSeq(UnderWay[q], 1, k)
          /\ UnderWay'[q] = SubSeq(UnderWay[q], k + 1, Len(UnderWay[q]))
      BY <2>3, <2>4
    <3>3. \A r \in Place \ {p, q} : UnderWay'[r] = UnderWay[r]
      BY <2>3, <2>4
    <3> QED BY <3>1, <3>2, <3>3
  <2>6. OneLogin(UnderWay') /\ CarriedFrom(UnderWay', UnderWay)
    BY <1>1, <2>5, MessagesMove
  <2> QED BY <1>4, <2>1, <2>6
<1>10. CASE ServerCloses
  <2>1. /\ UNCHANGED <<inbuf, inbox, awaiting, clientInputState, current, wbuf>>
        /\ toServer' = <<>> /\ answers' = <<>>
    BY <1>10 DEF ServerCloses, inputVars, selectorVars
  <2> QED BY <1>2, <1>3, <1>5, <2>1, UnderWayPlaces
<1>11. CASE ReadLine
  <2>1. /\ UNCHANGED <<inbox, answers, toServer, awaiting, clientInputState, wbuf>>
        /\ current' = Stdin /\ status # "callback"
    BY <1>11 DEF ReadLine, StartCallback, HandlingEvent, Handling, networkVars, serverEnd,
                 inputVars
  <2>2. UnderWay'[1] = UnderWay[1]
    BY <1>2, <2>1, NotReading, UnderWayPlaces, Distinct
  <2> QED BY <1>2, <1>3, <1>5, <2>1, <2>2, UnderWayPlaces
<1>12. ASSUME NEW k \in 1..Len(inbox), ReadMessages(k)
       PROVE  OneLogin(UnderWay)' /\ LoginFits(UnderWay)'
  <2>1. /\ UNCHANGED <<answers, toServer, awaiting, clientInputState, wbuf>>
        /\ current' = Socket /\ status # "callback"
        /\ inbuf' = SubSeq(inbox, 1, k) /\ inbox' = SubSeq(inbox, k + 1, Len(inbox))
    BY <1>12 DEF ReadMessages, StartCallback, HandlingEvent, Handling, serverEnd, inputVars
  <2>2. k \in 0..Len(UnderWay[2]) /\ SubSeq(inbox, 1, k) \in Seq(ServerMessage)
    <3>1. inbox \in Seq(ServerMessage) /\ k \in 0..Len(inbox)
      BY LenProperties DEF ClientTypeOK
    <3> QED BY <3>1, SplitPositions, UnderWayPlaces
  <2>3. UnderWay[1] = <<>> /\ UnderWay'[1] = UnderWay[1] \o SubSeq(UnderWay[2], 1, k)
    BY <1>2, <2>1, <2>2, NotReading, UnderWayPlaces, Distinct, ConcatEmptySeq
  <2>4. /\ UnderWay'[2] = SubSeq(UnderWay[2], k + 1, Len(UnderWay[2]))
        /\ \A r \in Place \ {1, 2} : UnderWay'[r] = UnderWay[r]
    BY <1>2, <1>3, <2>1, UnderWayPlaces
  <2>5. PICK p \in Place, q \in Place : p = 1 /\ q = 2
    BY <1>1
  <2>6. /\ p # q /\ k \in 0..Len(UnderWay[q])
        /\ UnderWay'[p] = UnderWay[p] \o SubSeq(UnderWay[q], 1, k)
        /\ UnderWay'[q] = SubSeq(UnderWay[q], k + 1, Len(UnderWay[q]))
        /\ \A r \in Place \ {p, q} : UnderWay'[r] = UnderWay[r]
    <3>1. p # q /\ k \in 0..Len(UnderWay[q])
      BY <2>2, <2>5
    <3>2. /\ UnderWay'[p] = UnderWay[p] \o SubSeq(UnderWay[q], 1, k)
          /\ UnderWay'[q] = SubSeq(UnderWay[q], k + 1, Len(UnderWay[q]))
      BY <2>3, <2>4, <2>5
    <3>3. \A r \in Place \ {p, q} : UnderWay'[r] = UnderWay[r]
      BY <2>4, <2>5
    <3> QED BY <3>1, <3>2, <3>3
  <2>7. OneLogin(UnderWay') /\ CarriedFrom(UnderWay', UnderWay)
    BY <1>1, <2>6, MessagesMove
  <2> QED BY <1>4, <2>1, <2>7
<1>13. ASSUME NEW k \in 1..Len(wbuf[Socket]), Flush(k)
       PROVE  OneLogin(UnderWay)' /\ LoginFits(UnderWay)'
  <2>1. Socket \in Desc /\ wbuf \in [Desc -> Seq(Reply)] /\ wbuf[Socket] \in Seq(Message)
    BY ClientAssumption DEF SelectorTypeOK, ClientTypeOK
  <2>2. /\ UNCHANGED <<inbuf, inbox, answers, awaiting, clientInputState, current>>
        /\ wbuf'[Socket] = SubSeq(wbuf[Socket], k + 1, Len(wbuf[Socket]))
        /\ toServer' = toServer \o SubSeq(wbuf[Socket], 1, k) \/ toServer' = <<>>
    BY <1>13, <2>1 DEF Flush, Write, NextDescriptor, serverEnd, inputVars
  <2>3. k \in 0..Len(UnderWay[5])
    BY <2>1, UnderWayPlaces, LenProperties
  <2>4. PICK u : u = [r \in Place |->
                        IF r = 4 THEN UnderWay[4] \o SubSeq(UnderWay[5], 1, k)
                        ELSE IF r = 5 THEN SubSeq(UnderWay[5], k + 1, Len(UnderWay[5]))
                        ELSE UnderWay[r]]
    OBVIOUS
  <2>5. /\ u[4] = UnderWay[4] \o SubSeq(UnderWay[5], 1, k)
        /\ u[5] = SubSeq(UnderWay[5], k + 1, Len(UnderWay[5]))
        /\ \A r \in Place \ {4, 5} : u[r] = UnderWay[r]
    BY <1>3, <2>4
  <2>6. OneLogin(u) /\ CarriedFrom(u, UnderWay)
    <3>1. PICK p \in Place, q \in Place : p = 4 /\ q = 5
      BY <1>1
    <3>2. /\ p # q /\ k \in 0..Len(UnderWay[q])
          /\ u[p] = UnderWay[p] \o SubSeq(UnderWay[q], 1, k)
          /\ u[q] = SubSeq(UnderWay[q], k + 1, Len(UnderWay[q]))
          /\ \A r \in Place \ {p, q} : u[r] = UnderWay[r]
      <4>1. p # q /\ k \in 0..Len(UnderWay[q])
        BY <2>3, <3>1
      <4>2. /\ u[p] = UnderWay[p] \o SubSeq(UnderWay[q], 1, k)
            /\ u[q] = SubSeq(UnderWay[q], k + 1, Len(UnderWay[q]))
        BY <2>5, <3>1
      <4>3. \A r \in Place \ {p, q} : u[r] = UnderWay[r]
        BY <2>5, <3>1
      <4> QED BY <4>1, <4>2, <4>3
    <3> QED BY <1>1, <3>2, MessagesMove
  <2>7. \A r \in Place : UnderWay'[r] = u[r] \/ UnderWay'[r] = <<>>
    BY <1>2, <1>3, <2>2, <2>5, UnderWayPlaces
  <2>8. \A r \in Place : u[r] \in Seq(Message \cup ServerMessage)
    <3>1. /\ SubSeq(UnderWay[5], 1, k) \in Seq(Message \cup ServerMessage)
          /\ SubSeq(UnderWay[5], k + 1, Len(UnderWay[5])) \in Seq(Message \cup ServerMessage)
      BY <1>1, <2>3, SplitPositions
    <3>2. u[4] \in Seq(Message \cup ServerMessage)
      BY <1>1, <2>5, <3>1, ConcatProperties
    <3> QED BY <1>1, <1>3, <2>5, <3>1, <3>2
  <2>9. OneLogin(UnderWay') /\ CarriedFrom(UnderWay', u)
    BY <2>6, <2>7, <2>8, MessagesLost
  <2> QED BY <1>4, <2>2, <2>6, <2>9, CarriedTwice
<1>14. CASE MessageHandler
  <2>1. PICK type : Received(type)
    BY <1>14 DEF MessageHandler, onReadDisplayMessage, onReadLoginSetPasswordResponse,
                 onReadLoginSetUsernameResponse, onReadLoginAuthenticateResponse
  <2>2. /\ current = Socket /\ current' = Socket /\ inbuf # <<>> /\ inbuf' = Tail(inbuf)
        /\ UNCHANGED <<inbox, answers, toServer>>
    BY <1>14, <2>1, HandlersKeep, MessageTaken DEF networkVars, serverEnd
  <2>3. UNCHANGED wbuf
    BY <1>14 DEF MessageHandler, onReadDisplayMessage, onReadLoginSetPasswordResponse,
                 onReadLoginSetUsernameResponse, onReadLoginAuthenticateResponse,
                 CallbackStop, AskPassword, selectorVars
  <2>4. /\ UnderWay[1] = inbuf /\ UnderWay'[1] = Tail(UnderWay[1])
        /\ \A r \in Place \ {1} : UnderWay'[r] = UnderWay[r]
    BY <1>2, <1>3, <2>2, <2>3, UnderWayPlaces
  <2>5. CASE IsLogin(Head(inbuf))
    <3>1. NoLogin(UnderWay')
      BY <1>1, <2>2, <2>4, <2>5, LoginTaken
    <3> QED BY <3>1, NoLoginFits DEF NoLogin
  <2>6. CASE ~IsLogin(Head(inbuf))
    <3>1. UNCHANGED <<awaiting, clientInputState>>
      BY <1>14, <2>6
         DEF MessageHandler, onReadDisplayMessage, onReadLoginSetPasswordResponse,
             onReadLoginSetUsernameResponse, onReadLoginAuthenticateResponse, Received,
             IsLogin, LoginResponse, inputVars
    <3> QED BY <1>5, <2>2, <2>4, <3>1
  <2> QED BY <2>5, <2>6
<1>15. CASE handleUserInput
  <2>1. NoLogin(UnderWay) /\ Sent[Input.text] \in Arg
    BY <1>15, LineExpected, LineTaken, InputLine
  <2>2. CASE EnterUsername
    <3>1. PICK m : m = [type |-> "LOGIN_SET_USERNAME", arg |-> Sent[Input.text]]
      OBVIOUS
    <3>2. m \in Message /\ CallbackWrite(SocketFd, <<m>>)
      BY <2>1, <2>2, <3>1 DEF EnterUsername, SendMessage, Message
    <3>3. awaiting' /\ clientInputState' = AwaitedIn(m)
      BY <2>2, <3>1 DEF EnterUsername, Entered, AwaitedIn
    <3> QED BY <1>15, <2>1, <3>2, <3>3, LoginQueued
  <2>3. CASE EnterPassword
    <3>1. PICK m : m = [type |-> "LOGIN_AUTHENTICATE", arg |-> Sent[Input.text]]
      OBVIOUS
    <3>2. m \in Message /\ CallbackWrite(SocketFd, <<m>>)
      BY <2>1, <2>3, <3>1 DEF EnterPassword, SendPassword, SendMessage, Message
    <3>3. awaiting' /\ clientInputState' = AwaitedIn(m)
      BY <2>3, <3>1 DEF EnterPassword, Entered, AwaitedIn
    <3> QED BY <1>15, <2>1, <3>2, <3>3, LoginQueued
  <2>4. CASE wbuf' = wbuf
    <3>1. \A r \in Place : UnderWay'[r] = UnderWay[r]
      BY <1>2, <1>15, <2>4, LineMoves, UnderWayPlaces
    <3>2. NoLogin(UnderWay)'
      BY <2>1, <3>1 DEF NoLogin
    <3> QED BY <3>2, NoLoginFits
  <2>5. CASE \E m \in Message : ~IsLogin(m) /\ CallbackWrite(SocketFd, <<m>>)
    BY <1>15, <2>1, <2>5, NoLoginQueued
  <2>6. CASE RepeatNewPassword
    <3>1. PICK m : m = [type |-> "LOGIN_SET_PASSWORD", arg |-> Sent[Input.text]]
      OBVIOUS
    <3>2. m \in Message /\ ~IsLogin(m)
      BY <2>1, <3>1 DEF Message, IsLogin, LoginRequest, LoginResponse
    <3>3. wbuf' = wbuf \/ CallbackWrite(SocketFd, <<m>>)
      BY <2>6, <3>1 DEF RepeatNewPassword, SendPassword, SendMessage, selectorVars
    <3> QED BY <2>4, <2>5, <3>2, <3>3
  <2>7. CASE EnterInfoCommand
    <3>1. PICK m : m = [type |-> InfoRequest[Input.text], arg |-> NoArg]
      OBVIOUS
    <3>2. InfoRequest[Input.text] \in Range(InfoRequest)
      BY <2>7 DEF EnterInfoCommand, InfoRequest, Range
    <3>3. m \in Message /\ ~IsLogin(m)
      BY <3>1, <3>2, InfoNoLogin DEF Message, IsLogin, LoginRequest
    <3>4. CallbackWrite(SocketFd, <<m>>)
      BY <2>7, <3>1 DEF EnterInfoCommand, SendMessage
    <3> QED BY <2>5, <3>3, <3>4
  <2>8. CASE EnterNewPassword \/ EnterPasswd \/ EnterExit \/ EnterUnknown
    <3>1. wbuf' = wbuf
      BY <2>8 DEF EnterNewPassword, EnterPasswd, EnterExit, EnterUnknown, CallbackStop,
                  selectorVars
    <3> QED BY <2>4, <3>1
  <2> QED BY <1>15, <2>2, <2>3, <2>6, <2>7, <2>8 DEF handleUserInput
<1> QED BY <1>6, <1>7, <1>8, <1>9, <1>10, <1>11, <1>12, <1>13, <1>14, <1>15, StepCases

\* Only the handlers change what the client knows of the user, and the echo.
LEMMA OutsideHandlers ==
  ASSUME TypeInv, [ClientNext]_clientVars, ~MessageHandler, ~handleUserInput
  PROVE  UNCHANGED <<echo, inputVars>>
BY StepCases, LoopOnlyEffect
   DEF TypeInv, terminalVars, EndInput, ServerHandles, ServerCloses, ReadLine, TypeLine,
       ServerSends, ReadMessages, Flush

\* The handlers switch the echo together with the state that asks for a password.
LEMMA EchoStep ==
  ASSUME TypeInv, OneLoginUnderWay, LineAlone, EchoFollowsState, patient,
         [ClientNext]_clientVars
  PROVE  EchoFollowsState'
<1> USE DEF TypeInv
<1>1. CASE ~MessageHandler /\ ~handleUserInput
  BY <1>1, OutsideHandlers DEF inputVars, EchoFollowsState
<1>2. CASE onReadDisplayMessage \/ onReadLoginSetPasswordResponse
  BY <1>2 DEF onReadDisplayMessage, onReadLoginSetPasswordResponse, inputVars,
              EchoFollowsState
<1>3. CASE onReadLoginSetUsernameResponse
  <2>1. IsLogin(Head(inbuf)) /\ AwaitedIn(Head(inbuf)) = "LOGIN_USERNAME"
    BY <1>3 DEF onReadLoginSetUsernameResponse, Received, IsLogin, LoginResponse, AwaitedIn
  <2>2. clientInputState = "LOGIN_USERNAME"
    BY <1>3, <2>1, ResponseExpected DEF onReadLoginSetUsernameResponse
  <2>3. echo /\ ~awaiting'
    BY <1>3, <2>2 DEF EchoFollowsState, onReadLoginSetUsernameResponse
  <2>4. CASE AskPassword
    <3>1. ~echo' /\ clientInputState' = "LOGIN_PASSWORD"
      BY <2>4 DEF AskPassword, setFDEcho
    <3> QED BY <2>3, <3>1 DEF EchoFollowsState
  <2>5. CASE UNCHANGED <<echo, clientInputState>>
    BY <2>2, <2>3, <2>5 DEF EchoFollowsState
  <2> QED BY <1>3, <2>4, <2>5 DEF onReadLoginSetUsernameResponse
<1>4. CASE onReadLoginAuthenticateResponse
  <2>1. /\ IsLogin(Head(inbuf)) /\ AwaitedIn(Head(inbuf)) = "LOGIN_PASSWORD"
    BY <1>4 DEF onReadLoginAuthenticateResponse, Received, IsLogin, LoginResponse, AwaitedIn
  <2>2. clientInputState = "LOGIN_PASSWORD" /\ awaiting
    BY <1>4, <2>1, ResponseExpected DEF onReadLoginAuthenticateResponse
  <2>3. echo /\ ~awaiting'
    BY <1>4, <2>2 DEF EchoFollowsState, onReadLoginAuthenticateResponse
  <2>4. CASE AskPassword
    <3>1. ~echo' /\ clientInputState' = "LOGIN_PASSWORD"
      BY <2>4 DEF AskPassword, setFDEcho
    <3> QED BY <2>3, <3>1 DEF EchoFollowsState
  <2>5. CASE UNCHANGED echo /\ clientInputState' = "NONE"
    BY <2>3, <2>5 DEF EchoFollowsState
  <2> QED BY <1>4, <2>4, <2>5 DEF onReadLoginAuthenticateResponse
<1>5. CASE handleUserInput
  <2>1. ~awaiting
    BY <1>5, LineExpected
  <2>2. CASE EnterUsername
    BY <2>1, <2>2 DEF EnterUsername, Entered, EchoFollowsState
  <2>3. CASE EnterPassword
    BY <2>3 DEF EnterPassword, Entered, setFDEcho, EchoFollowsState
  <2>4. CASE EnterNewPassword
    BY <2>1, <2>4 DEF EnterNewPassword, Entered, EchoFollowsState
  <2>5. CASE RepeatNewPassword
    BY <2>5 DEF RepeatNewPassword, setFDEcho, EchoFollowsState
  <2>6. CASE EnterPasswd
    BY <2>6 DEF EnterPasswd, setFDEcho, EchoFollowsState
  <2>7. CASE EnterInfoCommand \/ EnterExit \/ EnterUnknown
    BY <2>7 DEF EnterInfoCommand, EnterExit, EnterUnknown, inputVars, EchoFollowsState
  <2> QED BY <1>5, <2>2, <2>3, <2>4, <2>5, <2>6, <2>7 DEF handleUserInput
<1> QED BY <1>1, <1>2, <1>3, <1>4, <1>5 DEF MessageHandler

\* A password that is stored or sent was typed with the echo off.
LEMMA HiddenStep ==
  ASSUME TypeInv, OneLoginUnderWay, LineAlone, EchoFollowsState, PasswordsHidden, patient,
         [ClientNext]_clientVars
  PROVE  PasswordsHidden'
<1> USE DEF TypeInv
<1>1. CASE ~handleUserInput
  <2>1. UNCHANGED <<passwordTemporaryStorage, exposed>>
    BY <1>1, OutsideHandlers
       DEF MessageHandler, onReadDisplayMessage, onReadLoginSetPasswordResponse,
           onReadLoginSetUsernameResponse, onReadLoginAuthenticateResponse, AskPassword,
           inputVars
  <2> QED BY <2>1 DEF PasswordsHidden
<1>2. CASE handleUserInput
  <2>1. ~awaiting /\ (Input.hidden <=> ~echo)
    BY <1>2, LineExpected
  <2>2. CASE EnterUsername \/ EnterInfoCommand \/ EnterExit \/ EnterUnknown
    BY <2>2 DEF EnterUsername, EnterInfoCommand, EnterExit, EnterUnknown, inputVars,
                PasswordsHidden
  <2>3. CASE EnterPassword
    <3>1. Input.hidden
      BY <2>1, <2>3 DEF EnterPassword, Entered, EchoFollowsState
    <3> QED BY <2>3, <3>1 DEF EnterPassword, SendPassword, PasswordsHidden
  <2>4. CASE EnterNewPassword
    <3>1. Input.hidden
      BY <2>1, <2>4 DEF EnterNewPassword, Entered, EchoFollowsState
    <3> QED BY <2>4, <3>1 DEF EnterNewPassword, PasswordsHidden
  <2>5. CASE RepeatNewPassword
    <3>1. Input.hidden
      BY <2>1, <2>5 DEF RepeatNewPassword, Entered, EchoFollowsState
    <3> QED BY <2>5, <3>1 DEF RepeatNewPassword, SendPassword, PasswordsHidden, NothingStored
  <2>6. CASE EnterPasswd
    BY <2>6 DEF EnterPasswd, PasswordsHidden, NothingStored
  <2> QED BY <1>2, <2>2, <2>3, <2>4, <2>5, <2>6 DEF handleUserInput
<1> QED BY <1>1, <1>2

\* The end of the loop is final.
LEMMA UpBefore ==
  ASSUME TypeInv, [ClientNext]_clientVars
  PROVE  (Up' => Up) /\ (~eof' => ~eof)
<1>1. Up' => Up
  <2>1. [SelectorNext]_selectorVars
    BY TypeNext
  <2> QED BY <2>1 DEF Up, SelectorNext, selectorVars, Poll, Polling, Handle, Skip, AcceptFD,
              AcceptNothing, StartCallback, ReadFails, Write, WriteFails, WriteKills, ExceptFD,
              HandlingEvent, Handling, NextDescriptor, CallbackWrite, CallbackRemove,
              CallbackStop, EndCallback, Interrupt, LoopEnds, ClearFDs, Terminated
<1>2. ~eof' => ~eof
  BY StepCases, LoopOnlyEffect, LineTaken
     DEF TypeInv, terminalVars, EndInput, ServerHandles, ServerCloses, ReadLine, TypeLine,
         ServerSends, ReadMessages, Flush, MessageHandler, onReadDisplayMessage,
         onReadLoginSetPasswordResponse, onReadLoginSetUsernameResponse,
         onReadLoginAuthenticateResponse, Received, Takes
<1> QED BY <1>1, <1>2

\* The descriptors that are found have the kernel's numbers.
LEMMA FoundNumber ==
  ASSUME TypeInv, NEW d \in Desc, IsFD(d, HeadFD), possible # <<>>
  PROVE  /\ d \in Registered
         /\ num[d] = HeadFD /\ possible[1].fd = num[d] /\ 1 \in DOMAIN possible
         /\ num[d] = IF d = Stdin THEN StdinFd ELSE SocketFd
<1>1. d \in Registered /\ num[d] = HeadFD
  BY DEF IsFD, IsFirst, Registered, Range
<1>2. Head(possible) = possible[1] /\ 1 \in DOMAIN possible
  BY TailShift DEF TypeInv, SelectorInv, SelectorTypeOK
<1> QED BY <1>1, <1>2 DEF HeadFD, TypeInv, NumbersKept

\* pselect reports stdin readable when a line is there or the input has ended.
LEMMA PollReports ==
  ASSUME TypeInv, NEW wr, ClientPoll(wr), ~eof,
         NEW k \in DOMAIN possible', possible'[k].fd = StdinFd, possible'[k].event = "read"
  PROVE  tty # <<>>
<1>1. /\ k \in DOMAIN fds
      /\ num[fds[k]] = StdinFd /\ EventOf(num[fds[k]], ReadableNow, wr, {}) = "read"
  BY DEF ClientPoll, Poll
<1>2. StdinFd \in ReadableNow
  BY <1>1 DEF EventOf
<1>3. PICK d \in Registered : Pending(d) /\ num[d] = StdinFd
  BY <1>2 DEF ReadableNow
<1>4. d = Stdin
  BY <1>3, ClientAssumption DEF TypeInv, NumbersKept
<1> QED BY <1>3, <1>4 DEF Pending

\* What pselect reported on stdin is flushed by no handler that comes before the
\* read.
LEMMA ReportedStep ==
  ASSUME TypeInv, TypeInv', OneLoginUnderWay, LineAlone, ReportedInput, patient,
         [ClientNext]_clientVars
  PROVE  ReportedInput'
<1> USE DEF TypeInv
<1> SUFFICES ASSUME Up, Up', ~eof, ~eof', NEW k \in DOMAIN possible',
                    possible'[k].fd = StdinFd, possible'[k].event = "read",
                    ~(k = 1 /\ status' = "callback")
             PROVE  tty' # <<>>
  BY UpBefore DEF ReportedInput
<1>1. \A j \in DOMAIN possible :
        /\ possible[j].fd = StdinFd /\ possible[j].event = "read"
        /\ ~(j = 1 /\ status = "callback")
        => tty # <<>>
  BY DEF ReportedInput
<1>2. ASSUME possible # <<>>, possible' = Tail(possible), tty' = tty PROVE tty' # <<>>
  <2>1. k + 1 \in DOMAIN possible /\ k + 1 # 1 /\ possible'[k] = possible[k + 1]
    BY <1>2, TailPossible DEF SelectorInv
  <2> QED BY <1>1, <1>2, <2>1
<1>3. ASSUME UNCHANGED <<possible, status, tty>> PROVE tty' # <<>>
  BY <1>1, <1>3
<1>4. CASE LoopOnly
  <2>1. tty' = tty
    BY <1>4, LoopOnlyEffect DEF terminalVars
  <2>2. CASE \E wr \in SUBSET RegisteredNumbers : ClientPoll(wr)
    BY <2>1, <2>2, PollReports
  <2>3. CASE ClientSkip \/ ConnectionLost \/ InputLost \/ FlushFails
    <3>1. possible # <<>> /\ possible' = Tail(possible)
      BY <2>3 DEF ClientSkip, ConnectionLost, InputLost, FlushFails, Skip, ReadFails, WriteFails,
                  HandlingEvent, Handling, NextDescriptor
    <3> QED BY <1>2, <2>1, <3>1
  <2>4. CASE ReadDone
    <3>1. possible # <<>> /\ possible' = Tail(possible)
      BY <2>4 DEF ReadDone, EndCallback, SelectorInv, CallbackHolds
    <3> QED BY <1>2, <2>1, <3>1
  <2>5. CASE ClientTerminated \/ UNCHANGED clientVars
    BY <1>3, <2>5 DEF ClientTerminated, clientVars, selectorVars, terminalVars
  <2>6. CASE FlushKills \/ ClientInterrupt \/ ClientStops \/ closeConn
    BY <2>6 DEF FlushKills, WriteKills, ClientInterrupt, Interrupt, ClientStops, LoopEnds,
                closeConn, ClearFDs, Up
  <2> QED BY <1>4, <2>2, <2>3, <2>4, <2>5, <2>6 DEF LoopOnly
<1>5. CASE EndInput \/ ServerHandles \/ ServerCloses \/ \E j \in 1..Len(answers) : ServerSends(j)
  BY <1>3, <1>5 DEF EndInput, ServerHandles, ServerCloses, ServerSends, selectorVars,
                    terminalVars
<1>6. ASSUME NEW t \in Text, TypeLine(t) PROVE tty' # <<>>
  <2>1. [text |-> t, hidden |-> ~echo] \in Line /\ tty \in Seq(Line)
    BY DEF Line, ClientTypeOK
  <2> QED BY <1>6, <2>1, AppendProperties DEF TypeLine
<1>7. ASSUME NEW j \in 1..Len(wbuf[Socket]), Flush(j) PROVE tty' # <<>>
  <2>1. possible # <<>> /\ possible' = Tail(possible) /\ tty' = tty
    BY <1>7 DEF Flush, Write, HandlingEvent, Handling, NextDescriptor, terminalVars
  <2> QED BY <1>2, <2>1
<1>8. ASSUME NEW j \in 1..Len(inbox), ReadMessages(j) PROVE tty' # <<>>
  BY <1>1, <1>8 DEF ReadMessages, StartCallback, HandlingEvent, Handling, terminalVars
<1>9. CASE ReadLine
  <2>1. /\ IsFD(Stdin, HeadFD) /\ possible # <<>> /\ status' = "callback"
        /\ possible' = possible
    BY <1>9 DEF ReadLine, StartCallback, HandlingEvent, Handling
  <2>2. possible[1].fd = StdinFd /\ 1 \in DOMAIN possible
    BY <2>1, FoundNumber, ClientAssumption
  <2>3. k = 1
    BY <2>1, <2>2 DEF SelectorInv, HandledOnce
  <2> QED BY <2>1, <2>3
<1>10. CASE handleUserInput
  <2>1. tty = <<>> /\ UNCHANGED <<possible, status>>
    BY <1>10, LineExpected, HandlersKeep
  <2> QED BY <1>1, <2>1
<1>11. CASE MessageHandler
  <2>1. UNCHANGED <<possible, status>>
    BY <1>11, HandlersKeep
  <2>2. tty # <<>>
    BY <1>1, <2>1
  <2>3. ASSUME NEW type \in LoginResponse, Received(type) PROVE FALSE
    <3>1. IsLogin(Head(inbuf))
      BY <2>3 DEF Received, IsLogin
    <3> QED BY <2>2, <2>3, <3>1, ResponseExpected
  <2>4. tty' = tty
    BY <1>11, <2>3
       DEF MessageHandler, onReadDisplayMessage, onReadLoginSetPasswordResponse,
           onReadLoginSetUsernameResponse, onReadLoginAuthenticateResponse, LoginResponse
  <2> QED BY <2>2, <2>4
<1> QED BY <1>4, <1>5, <1>6, <1>7, <1>8, <1>9, <1>10, <1>11, StepCases

\* Stdin leaves the vector only by a read that fails, and then the input has ended.
LEMMA KeptStep ==
  ASSUME TypeInv, TypeInv', ReportedInput, TerminalKept, patient, [ClientNext]_clientVars
  PROVE  TerminalKept'
<1> USE DEF TypeInv
<1> SUFFICES ASSUME Up, Up', ~eof, ~eof' PROVE Stdin \in Registered'
  BY UpBefore DEF TerminalKept
<1>1. Stdin \in Registered /\ Stdin \in Desc /\ Socket \in Desc
  BY ClientAssumption DEF TerminalKept
<1>2. ASSUME UNCHANGED fds PROVE Stdin \in Registered'
  BY <1>1, <1>2 DEF Registered
<1>3. ASSUME NEW n, RemoveFD(n, wbuf), n # StdinFd PROVE Stdin \in Registered'
  <2>1. \A d \in Registered : num[d] # n => d \in Registered'
    BY <1>3, RemoveFDEffect DEF SelectorInv, SelectorTypeOK
  <2> QED BY <1>1, <1>3, <2>1 DEF NumbersKept
<1>4. CASE ConnectionLost \/ FlushFails
  <2>1. /\ IsFD(Socket, HeadFD) /\ possible # <<>> /\ RemoveFD(HeadFD, wbuf)
    BY <1>4 DEF ConnectionLost, FlushFails, ReadFails, WriteFails, HandlingEvent, Handling
  <2>2. HeadFD # StdinFd
    BY <1>1, <2>1, FoundNumber, ClientAssumption
  <2> QED BY <1>3, <2>1, <2>2
<1>5. CASE InputLost
  <2>1. /\ IsFD(Stdin, HeadFD) /\ possible # <<>> /\ status = "loop"
        /\ Head(possible).event = "read" /\ tty = <<>>
    BY <1>5 DEF InputLost, ReadFails, HandlingEvent, Handling
  <2>2. possible[1].fd = StdinFd /\ 1 \in DOMAIN possible
    BY <1>1, <2>1, FoundNumber
  <2>3. Head(possible) = possible[1]
    BY <2>1, TailShift DEF SelectorInv, SelectorTypeOK
  <2> QED BY <2>1, <2>2, <2>3 DEF ReportedInput
<1>6. CASE \/ EndInput \/ ServerHandles \/ ServerCloses \/ ReadLine
           \/ (\E t \in Text : TypeLine(t))
           \/ (\E k \in 1..Len(answers) : ServerSends(k))
           \/ (\E k \in 1..Len(inbox) : ReadMessages(k))
           \/ (\E k \in 1..Len(wbuf[Socket]) : Flush(k))
  <2>1. UNCHANGED fds
    BY <1>6 DEF EndInput, ServerHandles, ServerCloses, ReadLine, TypeLine, ServerSends,
                ReadMessages, Flush, StartCallback, Write, selectorVars
  <2> QED BY <1>2, <2>1
<1>7. CASE MessageHandler \/ handleUserInput
  BY <1>2, <1>7, HandlersKeep
<1>8. CASE \/ \E wr \in SUBSET RegisteredNumbers : ClientPoll(wr)
           \/ ClientSkip \/ FlushKills \/ ClientInterrupt \/ ClientStops \/ ReadDone
           \/ ClientTerminated \/ UNCHANGED clientVars
  <2>1. UNCHANGED fds
    BY <1>8 DEF ClientPoll, Poll, ClientSkip, Skip, FlushKills, WriteKills, ClientInterrupt,
                Interrupt, ClientStops, LoopEnds, ReadDone, EndCallback, ClientTerminated,
                clientVars, selectorVars
  <2> QED BY <1>2, <2>1
<1>9. CASE closeConn
  BY <1>9 DEF closeConn, ClearFDs, Up
<1> QED BY <1>4, <1>5, <1>6, <1>7, <1>8, <1>9, StepCases DEF LoopOnly

(***************************************************************************)
(* Theorems.                                                               *)
(***************************************************************************)

\* What is true for a user who waits for the prompts.
PatientInv ==
  OneLoginUnderWay /\ LineAlone /\ EchoFollowsState /\ PasswordsHidden /\ ReportedInput
  /\ TerminalKept

\* The part of the invariant about a patient user holds initially.
LEMMA PatientInit == ClientInit => PatientInv
<1> SUFFICES ASSUME ClientInit PROVE PatientInv
  OBVIOUS
<1>1. \A p \in Place : UnderWay[p] = <<>>
  <2>1. Socket \in Desc
    BY ClientAssumption
  <2>2. /\ UnderWay[1] = <<>> /\ UnderWay[2] = <<>> /\ UnderWay[3] = <<>>
        /\ UnderWay[4] = <<>> /\ UnderWay[5] = <<>>
    BY <2>1, UnderWayPlaces DEF ClientInit, SelectorInit
  <2> QED BY <2>2 DEF Place
<1>2. OneLoginUnderWay
  <2>1. \A p \in Place : DOMAIN UnderWay[p] = {}
    BY <1>1
  <2> QED BY <2>1 DEF OneLoginUnderWay, OneLogin, LoginFits
<1>3. LineAlone /\ EchoFollowsState /\ PasswordsHidden
  BY Distinct DEF ClientInit, SelectorInit, LineAlone, EchoFollowsState, PasswordsHidden,
                  NothingStored
<1>4. ReportedInput
  BY DEF ClientInit, SelectorInit, ReportedInput
<1>5. TerminalKept
  <2>1. Initial = <<Socket, Stdin>>
    BY ClientAssumption, Zenon
  <2>2. Stdin = Initial[2] /\ 2 \in DOMAIN Initial
    BY <2>1
  <2> QED BY <2>2 DEF ClientInit, SelectorInit, TerminalKept, Registered, Range
<1> QED BY <1>2, <1>3, <1>4, <1>5 DEF PatientInv

\* It is kept by every step.
LEMMA PatientNext ==
  ASSUME TypeInv, PatientInv, [ClientNext]_clientVars
  PROVE  PatientInv'
<1> USE DEF PatientInv
<1>1. TypeInv'
  BY TypeNext
<1>2. CASE patient
  <2>1. OneLoginUnderWay'
    BY <1>1, <1>2, LoginStep DEF OneLoginUnderWay
  <2> QED BY <1>1, <1>2, <2>1, LineStep, EchoStep, HiddenStep, ReportedStep, KeptStep
<1>3. CASE ~patient
  <2>1. ~patient'
    BY <1>3, PatientBefore DEF TypeLine
  <2> QED BY <2>1 DEF OneLoginUnderWay, LineAlone, EchoFollowsState, PasswordsHidden,
                      ReportedInput, TerminalKept
<1> QED BY <1>2, <1>3

\* The invariant of the client, for any lines and any number of them.
THEOREM ClientInvariance == ClientSpec => []ClientInv
<1>1. TypeInv /\ PatientInv /\ [ClientNext]_clientVars => PatientInv'
  BY PatientNext
<1>2. TypeInv /\ PatientInv => ClientInv
  BY DEF TypeInv, PatientInv, ClientInv
<1> QED BY <1>1, <1>2, PatientInit, TypeInvariance, PTL DEF ClientSpec

\* For a user who answers the prompts the echo is off exactly while a password
\* is asked for, however lines and answers interleave.
THEOREM EchoFollowsStateHolds == ClientSpec => []EchoFollowsState
<1>1. ClientInv => EchoFollowsState
  BY DEF ClientInv
<1> QED BY <1>1, ClientInvariance, PTL

\* No password of such a user is shown on the terminal.
THEOREM PasswordsHiddenHolds == ClientSpec => []PasswordsHidden
<1>1. ClientInv => PasswordsHidden
  BY DEF ClientInv
<1> QED BY <1>1, ClientInvariance, PTL

\* Switching the echo never makes the read on stdin fail and end the terminal of
\* such a user.
THEOREM TerminalKeptHolds == ClientSpec => []TerminalKept
<1>1. ClientInv => TerminalKept
  BY DEF ClientInv
<1> QED BY <1>1, ClientInvariance, PTL

(***************************************************************************)
(* The client prompts for what the server knows it is ready for, whoever   *)
(* the user is.                                                            *)
(***************************************************************************)

\* The part of the invariant about what the server knows.
PromptsInv == AnswersTrue /\ PromptsFit

\* The server never takes back what it knows, and its answers say it.
LEMMA AnswersSay ==
  ASSUME NEW m \in Message, NEW a \in Answers(m), srv \in {"new", "named", "verified"}
  PROVE  /\ srv # "new" => a.srv # "new"
         /\ srv = "verified" => a.srv = "verified"
         /\ \A r \in Range(a.queued) : SaysTrue(r, a.srv)
<1> DEFINE Fine(q, s) == /\ srv # "new" => s # "new"
                         /\ srv = "verified" => s = "verified"
                         /\ \A r \in Range(q) : SaysTrue(r, s)
<1>1. \A s : SaysTrue(Display, s)
  BY DEF SaysTrue, Display
<1>2. ASSUME NEW r, NEW s, SaysTrue(r, s)
      PROVE  /\ \A e \in Range(<<r>>) : SaysTrue(e, s)
             /\ \A e \in Range(<<Display, r>>) : SaysTrue(e, s)
  <2>1. DOMAIN <<r>> = {1} /\ <<r>>[1] = r
    OBVIOUS
  <2>2. /\ DOMAIN <<Display, r>> = {1, 2}
        /\ <<Display, r>>[1] = Display /\ <<Display, r>>[2] = r
    OBVIOUS
  <2>3. \A e \in Range(<<r>>) : e = r
    BY <2>1 DEF Range
  <2>4. \A e \in Range(<<Display, r>>) : e = Display \/ e = r
    BY <2>2 DEF Range
  <2> QED BY <1>1, <1>2, <2>3, <2>4
<1>3. ASSUME NEW q, NEW s, NEW g, a = Outcome(q, s, g), Fine(q, s)
      PROVE  Fine(a.queued, a.srv)
  <2>1. a.queued = q /\ a.srv = s
    BY <1>3 DEF Outcome
  <2> QED BY <1>3, <2>1
<1>4. Fine(<<Display>>, srv)
  BY <1>1, <1>2
<1>5. ASSUME NEW b \in BOOLEAN
      PROVE  Fine(<<Display, Response("LOGIN_SET_PASSWORD_RESPONSE", b)>>, srv)
  <2>1. SaysTrue(Response("LOGIN_SET_PASSWORD_RESPONSE", b), srv)
    BY DEF SaysTrue, Response
  <2> QED BY <1>2, <2>1
<1>6. CASE m.type \in Range(InfoRequest)
  <2>1. Answers(m) = {Outcome(<<Display>>, srv, FALSE)}
    BY <1>6, InfoNoLogin DEF Answers
  <2> QED BY <1>3, <1>4, <2>1
<1>7. CASE m.type \notin Range(InfoRequest) /\ m.type = "LOGIN_SET_USERNAME" /\ srv # "new"
  <2>1. Answers(m) = {Outcome(<<Display>>, srv, FALSE)}
    BY <1>7 DEF Answers
  <2> QED BY <1>3, <1>4, <2>1
<1>8. CASE m.type \notin Range(InfoRequest) /\ m.type = "LOGIN_SET_USERNAME" /\ srv = "new"
  <2>1. Answers(m) =
          {Outcome(<<Display, Response("LOGIN_SET_USERNAME_RESPONSE", TRUE)>>, "named", FALSE),
           Outcome(<<Response("LOGIN_SET_USERNAME_RESPONSE", FALSE)>>, srv, TRUE)}
    BY <1>8 DEF Answers
  <2>2. /\ SaysTrue(Response("LOGIN_SET_USERNAME_RESPONSE", TRUE), "named")
        /\ SaysTrue(Response("LOGIN_SET_USERNAME_RESPONSE", FALSE), srv)
    BY DEF SaysTrue, Response
  <2>3. Fine(<<Display, Response("LOGIN_SET_USERNAME_RESPONSE", TRUE)>>, "named")
    BY <1>2, <1>8, <2>2
  <2>4. Fine(<<Response("LOGIN_SET_USERNAME_RESPONSE", FALSE)>>, srv)
    BY <1>2, <2>2
  <2> QED BY <1>3, <2>1, <2>3, <2>4
<1>9. CASE /\ m.type \notin Range(InfoRequest) /\ m.type = "LOGIN_AUTHENTICATE"
           /\ srv # "new"
  <2>1. \/ a = Outcome(<<Display, Response("LOGIN_AUTHENTICATE_RESPONSE", TRUE)>>,
                       "verified", FALSE)
        \/ \E g \in BOOLEAN :
             a = Outcome(<<Display, Response("LOGIN_AUTHENTICATE_RESPONSE", FALSE)>>, srv, g)
    BY <1>9 DEF Answers
  <2>2. /\ SaysTrue(Response("LOGIN_AUTHENTICATE_RESPONSE", TRUE), "verified")
        /\ SaysTrue(Response("LOGIN_AUTHENTICATE_RESPONSE", FALSE), srv)
    BY <1>9 DEF SaysTrue, Response
  <2>3. Fine(<<Display, Response("LOGIN_AUTHENTICATE_RESPONSE", TRUE)>>, "verified")
    BY <1>2, <2>2
  <2>4. Fine(<<Display, Response("LOGIN_AUTHENTICATE_RESPONSE", FALSE)>>, srv)
    BY <1>2, <2>2
  <2> QED BY <1>3, <2>1, <2>3, <2>4
<1>10. CASE /\ m.type \notin Range(InfoRequest) /\ m.type = "LOGIN_SET_PASSWORD"
            /\ srv = "verified"
  <2>1. \E b \in BOOLEAN :
          a = Outcome(<<Display, Response("LOGIN_SET_PASSWORD_RESPONSE", b)>>, srv, FALSE)
    BY <1>10 DEF Answers
  <2> QED BY <1>3, <1>5, <2>1
<1>11. CASE /\ m.type \notin Range(InfoRequest)
            /\ \/ m.type = "LOGIN_AUTHENTICATE" /\ srv = "new"
               \/ m.type = "LOGIN_SET_PASSWORD" /\ srv # "verified"
  <2>1. Answers(m) = {Outcome(<<Display>>, srv, TRUE)}
    BY <1>11 DEF Answers
  <2> QED BY <1>3, <1>4, <2>1
<1> QED BY <1>6, <1>7, <1>8, <1>9, <1>10, <1>11 DEF Message

\* Answers that only move or are lost stay true.
LEMMA AnswersMove ==
  ASSUME AnswersTrue, srv' = srv, ToClient' \subseteq ToClient
  PROVE  AnswersTrue'
BY DEF AnswersTrue

\* Outside the handlers of the client and of the server, nothing is learned.
LEMMA AnswersStep ==
  ASSUME TypeInv, PromptsInv, [ClientNext]_clientVars
  PROVE  AnswersTrue'
<1> USE DEF TypeInv, PromptsInv
<1>0. Range(<<>>) = {}
  BY DEF Range
<1>1. CASE LoopOnly
  <2>1. UNCHANGED <<inbox, answers, srv, inbuf>>
    BY <1>1, LoopOnlyEffect DEF networkVars, serverEnd
  <2>2. current' = current \/ current' = NoDesc
    BY <1>1, LoopOnlyEffect
  <2> QED BY <1>0, <2>1, <2>2, Distinct, AnswersMove DEF ToClient
<1>2. CASE EndInput \/ (\E t \in Text : TypeLine(t))
            \/ (\E k \in 1..Len(wbuf[Socket]) : Flush(k))
  <2>1. UNCHANGED <<inbox, answers, srv, inbuf, current>>
    BY <1>2 DEF EndInput, TypeLine, Flush, Write, NextDescriptor, networkVars, serverEnd,
                selectorVars
  <2> QED BY <2>1, AnswersMove DEF ToClient
<1>3. CASE ServerHandles
  <2>1. Head(toServer) \in Message
    BY <1>3, HeadTailProperties DEF ServerHandles, ClientTypeOK
  <2>2. PICK a \in Answers(Head(toServer)) :
          /\ srv' = a.srv
          /\ answers' = IF gone' THEN <<>> ELSE answers \o a.queued
    BY <1>3 DEF ServerHandles
  <2>3. /\ srv # "new" => srv' # "new"
        /\ srv = "verified" => srv' = "verified"
        /\ \A r \in Range(a.queued) : SaysTrue(r, srv')
    BY <2>1, <2>2, AnswersSay DEF ClientTypeOK
  <2>4. a.queued \in Seq(ServerMessage) /\ answers \in Seq(ServerMessage)
    BY <2>1, AnswerQueued DEF AnswerFits, ClientTypeOK
  <2>5. Range(answers') \subseteq Range(answers) \cup Range(a.queued)
    BY <1>0, <2>2, <2>4, RangeConcat
  <2>6. UNCHANGED <<inbox, inbuf, current>>
    BY <1>3 DEF ServerHandles, selectorVars
  <2>7. \A m \in ToClient' : m \in ToClient \/ m \in Range(a.queued)
    BY <2>5, <2>6 DEF ToClient
  <2>8. \A m : SaysTrue(m, srv) => SaysTrue(m, srv')
    BY <2>3 DEF SaysTrue
  <2> QED BY <2>3, <2>7, <2>8 DEF AnswersTrue
<1>4. ASSUME NEW k \in 1..Len(answers), ServerSends(k) PROVE AnswersTrue'
  <2>1. k \in 0..Len(answers) /\ answers \in Seq(ServerMessage) /\ inbox \in Seq(ServerMessage)
    BY LenProperties DEF ClientTypeOK
  <2>2. PICK p : p = SubSeq(answers, 1, k)
    OBVIOUS
  <2>3. p \in Seq(ServerMessage) /\ Range(p) \subseteq Range(answers)
    BY <2>1, <2>2, SplitPositions, RangeParts
  <2>4. Range(inbox') \subseteq Range(inbox) \cup Range(answers)
    <3>1. Range(inbox \o p) = Range(inbox) \cup Range(p)
      BY <2>1, <2>3, RangeConcat
    <3> QED BY <1>4, <2>2, <2>3, <3>1 DEF ServerSends
  <2>5. Range(answers') \subseteq Range(answers)
    BY <1>4, <2>1, RangeParts DEF ServerSends
  <2>6. UNCHANGED <<srv, inbuf, current>>
    BY <1>4 DEF ServerSends, selectorVars
  <2> QED BY <2>4, <2>5, <2>6, AnswersMove DEF ToClient
<1>5. CASE ServerCloses
  <2>1. UNCHANGED <<srv, inbox, inbuf, current>> /\ answers' = <<>>
    BY <1>5 DEF ServerCloses, selectorVars
  <2> QED BY <1>0, <2>1, AnswersMove DEF ToClient
<1>6. CASE ReadLine
  <2>1. UNCHANGED <<srv, inbox, answers>> /\ current' = Stdin
    BY <1>6 DEF ReadLine, StartCallback, networkVars, serverEnd
  <2> QED BY <1>0, <2>1, Distinct, AnswersMove DEF ToClient
<1>7. ASSUME NEW k \in 1..Len(inbox), ReadMessages(k) PROVE AnswersTrue'
  <2>1. k \in 0..Len(inbox) /\ inbox \in Seq(ServerMessage)
    BY LenProperties DEF ClientTypeOK
  <2>2. Range(inbuf') \subseteq Range(inbox) /\ Range(inbox') \subseteq Range(inbox)
    BY <1>7, <2>1, RangeParts DEF ReadMessages
  <2>3. UNCHANGED <<srv, answers>>
    BY <1>7 DEF ReadMessages, serverEnd
  <2> QED BY <1>0, <2>2, <2>3, AnswersMove DEF ToClient
<1>8. CASE MessageHandler
  <2>1. /\ current = Socket /\ current' = Socket /\ inbuf' = Tail(inbuf) /\ inbuf # <<>>
        /\ inbuf \in Seq(ServerMessage) /\ UNCHANGED networkVars
    BY <1>8, HandlersKeep, MessageTaken
       DEF MessageHandler, onReadDisplayMessage, onReadLoginSetPasswordResponse,
           onReadLoginSetUsernameResponse, onReadLoginAuthenticateResponse
  <2>2. Range(inbuf') \subseteq Range(inbuf)
    BY <2>1, RangeHeadTail
  <2> QED BY <2>1, <2>2, AnswersMove DEF ToClient, networkVars, serverEnd
<1>9. CASE handleUserInput
  <2>1. current = Stdin /\ current' = Stdin /\ UNCHANGED networkVars
    BY <1>9, LineTaken
  <2> QED BY <2>1, Distinct, AnswersMove DEF ToClient, networkVars, serverEnd
<1> QED BY <1>1, <1>2, <1>3, <1>4, <1>5, <1>6, <1>7, <1>8, <1>9, StepCases

\* The state of the input follows an answer, or another state with the same rule.
LEMMA PromptsStep ==
  ASSUME TypeInv, PromptsInv, [ClientNext]_clientVars
  PROVE  PromptsFit'
<1> USE DEF TypeInv, PromptsInv
<1>1. ASSUME UNCHANGED <<srv, clientInputState>> PROVE PromptsFit'
  BY <1>1 DEF PromptsFit
<1>2. CASE LoopOnly
  BY <1>1, <1>2, LoopOnlyEffect DEF networkVars, serverEnd, inputVars
<1>3. CASE \/ EndInput \/ ServerCloses \/ ReadLine
           \/ (\E t \in Text : TypeLine(t))
           \/ (\E k \in 1..Len(answers) : ServerSends(k))
           \/ (\E k \in 1..Len(inbox) : ReadMessages(k))
           \/ (\E k \in 1..Len(wbuf[Socket]) : Flush(k))
  BY <1>1, <1>3 DEF EndInput, ServerCloses, ReadLine, TypeLine, ServerSends, ReadMessages, Flush,
                    networkVars, serverEnd, inputVars
<1>4. CASE ServerHandles
  <2>1. Head(toServer) \in Message
    BY <1>4, HeadTailProperties DEF ServerHandles, ClientTypeOK
  <2>2. PICK a \in Answers(Head(toServer)) : srv' = a.srv
    BY <1>4 DEF ServerHandles
  <2>3. /\ srv # "new" => srv' # "new"
        /\ srv = "verified" => srv' = "verified"
    BY <2>1, <2>2, AnswersSay DEF ClientTypeOK
  <2>4. UNCHANGED clientInputState
    BY <1>4 DEF ServerHandles, inputVars
  <2> QED BY <2>3, <2>4 DEF PromptsFit
<1>5. CASE MessageHandler
  <2>1. /\ current = Socket /\ inbuf # <<>> /\ inbuf \in Seq(ServerMessage)
        /\ UNCHANGED networkVars
    BY <1>5, MessageTaken
       DEF MessageHandler, onReadDisplayMessage, onReadLoginSetPasswordResponse,
           onReadLoginSetUsernameResponse, onReadLoginAuthenticateResponse
  <2>2. SaysTrue(Head(inbuf), srv)
    BY <2>1, RangeHeadTail DEF AnswersTrue, ToClient
  <2>3. srv' = srv
    BY <2>1 DEF networkVars, serverEnd
  <2> QED BY <1>1, <1>5, <2>2, <2>3
          DEF MessageHandler, onReadDisplayMessage, onReadLoginSetPasswordResponse,
              onReadLoginSetUsernameResponse, onReadLoginAuthenticateResponse, Received,
              AskPassword, inputVars, SaysTrue, PromptsFit
<1>6. CASE handleUserInput
  <2>1. srv' = srv
    BY <1>6, LineTaken DEF networkVars, serverEnd
  <2> QED BY <1>6, <2>1
          DEF handleUserInput, EnterUsername, EnterPassword, EnterNewPassword,
              RepeatNewPassword, EnterInfoCommand, EnterPasswd, EnterExit, EnterUnknown,
              Entered, inputVars, PromptsFit
<1> QED BY <1>2, <1>3, <1>4, <1>5, <1>6, StepCases

\* What the client prompts for fits what the server knows, whatever is typed and
\* whenever, and whatever the server answers of what it may.
THEOREM PromptsFitHolds == ClientSpec => []PromptsFit
<1>1. ClientInit => PromptsInv
  <2>1. Range(<<>>) = {}
    BY DEF Range
  <2> QED BY <2>1 DEF ClientInit, PromptsInv, AnswersTrue, ToClient, PromptsFit
<1>2. TypeInv /\ PromptsInv /\ [ClientNext]_clientVars => PromptsInv'
  BY AnswersStep, PromptsStep DEF PromptsInv
<1>3. PromptsInv => PromptsFit
  BY DEF PromptsInv
<1> QED BY <1>1, <1>2, <1>3, TypeInvariance, PTL DEF ClientSpec
=============================================================================
