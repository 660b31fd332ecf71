--------------------------- MODULE SelectorProofs ---------------------------
(* Proofs about the select loop, for every set of descriptors and numbers.  *)
EXTENDS Selector, SequenceLemmas, TLAPS

(***************************************************************************)
(* What the helpers do to the invariant's parts.                           *)
(***************************************************************************)

\* writeToFD keeps every write buffer a sequence of buffers.
LEMMA WriteToFDType ==
  ASSUME SelectorTypeOK, NEW n, NEW ms \in Seq(Reply)
  PROVE  WriteToFD(n, ms) \in [Desc -> Seq(Reply)]
<1>1. \A d \in Desc : wbuf[d] \in Seq(Reply) /\ wbuf[d] \o ms \in Seq(Reply)
  BY ConcatProperties DEF SelectorTypeOK
<1> QED BY <1>1 DEF WriteToFD

\* removeFD takes at most the object with that number out of the vector, and
\* closes its file unless its own callback holds it.
LEMMA RemoveFDEffect ==
  ASSUME SelectorTypeOK, RegisteredOnce,
         NEW n, NEW w \in [Desc -> Seq(Reply)], RemoveFD(n, w)
  PROVE  /\ fds' \in Seq(Desc)
         /\ num' \in [Desc -> FdNum \cup {NoFd}]
         /\ wbuf' \in [Desc -> Seq(Reply)]
         /\ RegisteredOnce'
         /\ Registered' \subseteq Registered
         /\ \A d \in Registered : num[d] # n => d \in Registered'
         /\ \A d \in Desc :
              num'[d] = IF d \in Registered \ Registered' /\ d # current
                          THEN NoFd ELSE num[d]
         /\ running' \in BOOLEAN
<1>1. CASE ~Found(n) /\ wbuf' = w /\ UNCHANGED <<fds, num, running>>
  BY <1>1 DEF SelectorTypeOK, RegisteredOnce, Registered
<1>2. ASSUME NEW i \in DOMAIN fds, IsFirst(i, n),
             fds' = RemoveAt(fds, i), wbuf' = [w EXCEPT ![fds[i]] = <<>>],
             IF fds[i] = current THEN UNCHANGED <<num, running>> ELSE Destroy(fds[i])
      PROVE  /\ fds' \in Seq(Desc)
             /\ num' \in [Desc -> FdNum \cup {NoFd}]
             /\ wbuf' \in [Desc -> Seq(Reply)]
             /\ RegisteredOnce'
             /\ Registered' = Registered \ {fds[i]}
             /\ fds[i] \in Registered /\ fds[i] \in Desc /\ num[fds[i]] = n
             /\ running' \in BOOLEAN
  <2>1. fds \in Seq(Desc) /\ i \in 1..Len(fds) /\ fds[i] \in Desc
    BY LenProperties, ElementOfSeq DEF SelectorTypeOK
  <2>2. fds' \in Seq(Desc)
    BY <1>2, <2>1, RemoveAtProperties
  <2>3. Range(fds') = Range(fds) \ {fds[i]} /\ RegisteredOnce'
    BY <1>2, <2>1, RangeRemoveAt, SMTT(30) DEF RegisteredOnce
  <2>4. <<>> \in Seq(Reply)
    BY EmptySeq
  <2>5. wbuf' \in [Desc -> Seq(Reply)]
    BY <1>2, <2>1, <2>4
  <2>6. num' \in [Desc -> FdNum \cup {NoFd}]
    BY <1>2, <2>1 DEF SelectorTypeOK, Destroy
  <2>7. running' \in BOOLEAN
    BY <1>2 DEF SelectorTypeOK, Destroy
  <2>8. fds[i] \in Registered /\ num[fds[i]] = n
    BY <1>2 DEF Registered, IsFirst, Range
  <2> QED BY <2>1, <2>2, <2>3, <2>5, <2>6, <2>7, <2>8 DEF Registered
<1>3. CASE \E i \in DOMAIN fds :
             /\ IsFirst(i, n)
             /\ fds' = RemoveAt(fds, i)
             /\ wbuf' = [w EXCEPT ![fds[i]] = <<>>]
             /\ IF fds[i] = current THEN UNCHANGED <<num, running>> ELSE Destroy(fds[i])
  <2>1. PICK i \in DOMAIN fds :
             /\ IsFirst(i, n)
             /\ fds' = RemoveAt(fds, i)
             /\ wbuf' = [w EXCEPT ![fds[i]] = <<>>]
             /\ IF fds[i] = current THEN UNCHANGED <<num, running>> ELSE Destroy(fds[i])
    BY <1>3
  <2> DEFINE d0 == fds[i]
  <2>2. /\ fds' \in Seq(Desc)
        /\ num' \in [Desc -> FdNum \cup {NoFd}]
        /\ wbuf' \in [Desc -> Seq(Reply)]
        /\ RegisteredOnce'
        /\ Registered' = Registered \ {d0}
        /\ d0 \in Registered /\ d0 \in Desc /\ num[d0] = n
        /\ running' \in BOOLEAN
    BY <1>2, <2>1
  <2>3. num' = IF d0 = current THEN num ELSE [num EXCEPT ![d0] = NoFd]
    BY <2>1 DEF Destroy
  <2> HIDE DEF d0
  <2>4. \A d \in Registered : num[d] # n => d \in Registered'
    BY <2>2
  <2>5. \A d \in Desc :
          num'[d] = IF d \in Registered \ Registered' /\ d # current
                      THEN NoFd ELSE num[d]
    BY <2>2, <2>3 DEF SelectorTypeOK
  <2> QED BY <2>2, <2>4, <2>5
<1> QED BY <1>1, <1>3 DEF RemoveFD

\* Going on to the next number keeps the rest of the snapshot as it was.
LEMMA TailPossible ==
  ASSUME SelectorTypeOK, HandledOnce, possible # <<>>, possible' = Tail(possible)
  PROVE  /\ possible' \in Seq([fd : FdNum, event : Event])
         /\ HandledOnce'
         /\ HeadFD \in FdNum
         /\ \A k \in DOMAIN possible' :
              /\ k + 1 \in DOMAIN possible /\ k + 1 # 1
              /\ possible'[k] = possible[k + 1]
              /\ possible[k + 1].fd # HeadFD
<1>1. /\ possible' \in Seq([fd : FdNum, event : Event])
      /\ Head(possible) = possible[1] /\ 1 \in DOMAIN possible
      /\ \A k \in DOMAIN possible' :
            /\ k \in Nat \ {0} /\ k + 1 \in DOMAIN possible
            /\ possible'[k] = possible[k + 1]
  BY TailShift DEF SelectorTypeOK
<1>2. HeadFD = possible[1].fd /\ HeadFD \in FdNum
  <2>1. Head(possible) \in [fd : FdNum, event : Event]
    BY HeadTailProperties DEF SelectorTypeOK
  <2> QED BY <1>1, <2>1 DEF HeadFD
<1>3. \A k \in DOMAIN possible' : k + 1 # 1 /\ possible[k + 1].fd # HeadFD
  BY <1>1, <1>2 DEF HandledOnce
<1>4. HandledOnce'
  BY <1>1 DEF HandledOnce
<1> QED BY <1>1, <1>2, <1>3, <1>4

(***************************************************************************)
(* The invariant is inductive.                                             *)
(***************************************************************************)

\* The state the loop starts in satisfies the invariant.
LEMMA InitInv == SelectorInit => SelectorInv
<1> SUFFICES ASSUME SelectorInit PROVE SelectorInv
  OBVIOUS
<1>1. fds \in Seq(Desc) /\ Registered \subseteq Desc
  <2>1. \A i \in DOMAIN fds : fds[i] \in Desc
    BY DescAssumption, LenProperties, ElementOfSeq DEF SelectorInit
  <2> QED BY <2>1, DescAssumption DEF SelectorInit, Registered, Range
<1>2. /\ <<>> \in Seq(Reply) /\ <<>> \in Seq([fd : FdNum, event : Event])
      /\ DOMAIN possible = {}
  BY EmptySeq, LenProperties DEF SelectorInit
<1>3. SelectorTypeOK
  BY <1>1, <1>2 DEF SelectorInit, SelectorTypeOK
<1>4. RegisteredOnce
  BY DescAssumption DEF SelectorInit, RegisteredOnce
<1>5. OpenWhileRegistered
  BY DescAssumption DEF SelectorInit, OpenWhileRegistered, Registered
<1>6. NumbersUnique
  BY DEF SelectorInit, NumbersUnique
<1>7. HandledOnce /\ SnapshotRegistered /\ CallbackHolds /\ PassOver
  BY <1>2 DEF SelectorInit, HandledOnce, SnapshotRegistered, CallbackHolds, PassOver
<1> QED BY <1>3, <1>4, <1>5, <1>6, <1>7 DEF SelectorInv

\* pselect: the snapshot holds each registered number once.
LEMMA PollInv ==
  ASSUME SelectorInv, NEW rd, NEW wr, NEW ex, Poll(rd, wr, ex)
  PROVE  SelectorInv'
<1> USE DEF SelectorInv
<1>1. /\ DOMAIN fds = 1..Len(fds) /\ Len(fds) \in Nat
      /\ \A i \in DOMAIN fds : fds[i] \in Desc /\ fds[i] \in Registered
  BY LenProperties, ElementOfSeq DEF SelectorTypeOK, Registered, Range
<1>2. \A i \in DOMAIN fds : num[fds[i]] \in FdNum
  BY <1>1 DEF SelectorTypeOK, OpenWhileRegistered
<1>3. \A n : EventOf(n, rd, wr, ex) \in Event
  BY DEF EventOf, Event
<1>4. /\ DOMAIN possible' = DOMAIN fds
      /\ \A i \in DOMAIN fds : possible'[i].fd = num[fds[i]]
      /\ \A i \in DOMAIN fds : possible'[i] \in [fd : FdNum, event : Event]
  BY <1>2, <1>3 DEF Poll, Polling
<1>5. possible' \in Seq([fd : FdNum, event : Event])
  <2>1. possible' \in [1..Len(fds) -> [fd : FdNum, event : Event]]
    BY <1>1, <1>2, <1>3 DEF Poll, Polling
  <2> QED BY <1>1, <2>1, SeqDef, ZenonT(60)
<1>6. SelectorTypeOK'
  <2>1. Registered \subseteq Desc
    BY <1>1 DEF Registered, Range
  <2> QED BY <1>5, <2>1 DEF SelectorTypeOK, Poll, Polling
<1>7. HandledOnce'
  BY <1>1, <1>2, <1>4
    DEF HandledOnce, RegisteredOnce, NumbersUnique, NoFd, SelectorTypeOK, OpenWhileRegistered
<1>8. SnapshotRegistered'
  BY <1>1, <1>4 DEF SnapshotRegistered, Poll, Polling, Registered
<1>9. /\ RegisteredOnce' /\ NumbersUnique' /\ OpenWhileRegistered'
      /\ CallbackHolds' /\ PassOver'
  BY DEF Poll, Polling, RegisteredOnce, NumbersUnique, OpenWhileRegistered, CallbackHolds,
         PassOver, Registered
<1> QED BY <1>6, <1>7, <1>8, <1>9

\* A handler that changes no descriptor.
LEMMA SkipInv ==
  ASSUME SelectorInv, Handling, NextDescriptor, UNCHANGED <<fds, num, running, polled>>,
         wbuf' \in [Desc -> Seq(Reply)]
  PROVE  SelectorInv'
<1> USE DEF SelectorInv
<1>1. /\ possible' \in Seq([fd : FdNum, event : Event])
      /\ HandledOnce'
      /\ \A k \in DOMAIN possible' :
            /\ k + 1 \in DOMAIN possible /\ k + 1 # 1
            /\ possible'[k] = possible[k + 1]
  BY TailPossible DEF NextDescriptor, Handling
<1>2. SelectorTypeOK'
  BY <1>1 DEF SelectorTypeOK, NextDescriptor
<1>3. SnapshotRegistered'
  BY <1>1 DEF SnapshotRegistered, Registered
<1>4. /\ RegisteredOnce' /\ NumbersUnique' /\ OpenWhileRegistered'
      /\ CallbackHolds' /\ PassOver'
  BY DEF NextDescriptor, Handling, RegisteredOnce, NumbersUnique,
         OpenWhileRegistered, CallbackHolds, PassOver, Registered
<1> QED BY <1>1, <1>2, <1>3, <1>4

\* A handler that removes the descriptor it handles.
LEMMA RemoveInv ==
  ASSUME SelectorInv, Handling, NextDescriptor, RemoveFD(HeadFD, wbuf),
         UNCHANGED polled
  PROVE  SelectorInv'
<1> USE DEF SelectorInv
<1>1. /\ possible' \in Seq([fd : FdNum, event : Event])
      /\ HandledOnce'
      /\ \A k \in DOMAIN possible' :
            /\ k + 1 \in DOMAIN possible /\ k + 1 # 1
            /\ possible'[k] = possible[k + 1]
            /\ possible[k + 1].fd # HeadFD
  BY TailPossible DEF NextDescriptor, Handling
<1>2. /\ fds' \in Seq(Desc)
      /\ num' \in [Desc -> FdNum \cup {NoFd}]
      /\ wbuf' \in [Desc -> Seq(Reply)]
      /\ RegisteredOnce'
      /\ Registered' \subseteq Registered
      /\ \A d \in Registered : num[d] # HeadFD => d \in Registered'
      /\ \A d \in Desc :
           num'[d] = IF d \in Registered \ Registered' /\ d # current
                       THEN NoFd ELSE num[d]
      /\ running' \in BOOLEAN
  BY RemoveFDEffect DEF SelectorTypeOK
<1>3. /\ current = NoDesc /\ current \notin Desc /\ current' = current
      /\ status = "loop" /\ status' = "loop"
  BY DescAssumption DEF CallbackHolds, Handling, NextDescriptor
<1>4. SelectorTypeOK'
  BY <1>1, <1>2 DEF SelectorTypeOK, NextDescriptor
<1>5. NumbersUnique'
  BY <1>2, <1>3 DEF NumbersUnique
<1>6. OpenWhileRegistered'
  BY <1>2, <1>3 DEF OpenWhileRegistered
<1>7. SnapshotRegistered'
  <2> SUFFICES ASSUME NEW k \in DOMAIN possible'
               PROVE  \E d \in Registered' \cap polled' : num'[d] = possible'[k].fd
    BY DEF SnapshotRegistered
  <2>1. PICK d \in Registered \cap polled : num[d] = possible[k + 1].fd
    BY <1>1, <1>3 DEF SnapshotRegistered
  <2>2. d \in Registered' /\ d \in Desc
    BY <1>1, <1>2, <2>1 DEF SelectorTypeOK
  <2> QED BY <1>1, <1>2, <2>1, <2>2
<1>8. CallbackHolds' /\ PassOver'
  BY <1>3 DEF CallbackHolds, PassOver
<1> QED BY <1>1, <1>2, <1>4, <1>5, <1>6, <1>7, <1>8

\* accept4 and addFD.
LEMMA AcceptInv ==
  ASSUME SelectorInv, NEW d \in Desc, AcceptFD(d)
  PROVE  SelectorInv'
<1> USE DEF SelectorInv
<1>1. /\ possible' \in Seq([fd : FdNum, event : Event])
      /\ HandledOnce'
      /\ \A k \in DOMAIN possible' :
            /\ k + 1 \in DOMAIN possible /\ k + 1 # 1
            /\ possible'[k] = possible[k + 1]
  BY TailPossible DEF AcceptFD, NextDescriptor, Handling, HandlingEvent
<1>2. /\ status = "loop" /\ status' = "loop" /\ current = NoDesc
      /\ current' = NoDesc /\ num[d] = NoFd /\ d \notin Registered
  BY DEF AcceptFD, NextDescriptor, Handling, HandlingEvent, CallbackHolds,
         OpenWhileRegistered
<1>3. PICK n \in FdNum : num' = [num EXCEPT ![d] = n] /\ \A e \in Desc : num[e] # n
  BY DEF AcceptFD, FreeNumbers
<1>4. /\ fds' \in Seq(Desc) /\ RegisteredOnce'
      /\ Registered' = Registered \cup {d}
  <2>1. fds' = Append(fds, d) /\ fds \in Seq(Desc) /\ fds' \in Seq(Desc)
    BY AppendProperties DEF AcceptFD, SelectorTypeOK
  <2> QED BY <1>2, <2>1, RangeAppend DEF RegisteredOnce, Registered
<1>5. SelectorTypeOK'
  BY <1>1, <1>3, <1>4 DEF SelectorTypeOK, AcceptFD, NextDescriptor
<1>6. n # NoFd
  BY FdNumAssumption DEF NoFd
<1>7. NumbersUnique'
  BY <1>3 DEF NumbersUnique, SelectorTypeOK
<1>8. OpenWhileRegistered'
  BY <1>2, <1>3, <1>4, <1>6 DEF OpenWhileRegistered, SelectorTypeOK
<1>9. SnapshotRegistered'
  <2> SUFFICES ASSUME NEW k \in DOMAIN possible'
               PROVE  \E e \in Registered' \cap polled' : num'[e] = possible'[k].fd
    BY DEF SnapshotRegistered
  <2>1. PICK e \in Registered \cap polled : num[e] = possible[k + 1].fd
    BY <1>1, <1>2 DEF SnapshotRegistered
  <2>2. e # d /\ e \in Registered' /\ e \in polled'
    BY <1>2, <1>4, <2>1 DEF AcceptFD
  <2>3. num'[e] = num[e]
    BY <1>3, <2>1, <2>2 DEF SelectorTypeOK
  <2> QED BY <1>1, <2>1, <2>2, <2>3
<1>10. CallbackHolds' /\ PassOver'
  BY <1>2 DEF CallbackHolds, PassOver
<1> QED BY <1>1, <1>4, <1>5, <1>7, <1>8, <1>9, <1>10

\* The read callback starts: fdIt holds the object.
LEMMA StartCallbackInv ==
  ASSUME SelectorInv, NEW d \in Desc, StartCallback(d)
  PROVE  SelectorInv'
<1> USE DEF SelectorInv
<1>1. d \in Registered /\ num[d] = HeadFD
  BY DEF StartCallback, IsFD, IsFirst, Registered, Range
<1>2. possible # <<>> /\ 1 \in DOMAIN possible /\ Head(possible) = possible[1]
  BY TailShift DEF StartCallback, HandlingEvent, Handling, SelectorTypeOK
<1>3. d \in polled
  <2>1. PICK e \in Registered \cap polled : num[e] = possible[1].fd
    BY <1>2 DEF SnapshotRegistered, StartCallback, HandlingEvent, Handling
  <2>2. num[e] = num[d] /\ num[d] # NoFd /\ e \in Desc
    BY <1>1, <1>2, <2>1 DEF HeadFD, OpenWhileRegistered, SelectorTypeOK
  <2> QED BY <2>1, <2>2 DEF NumbersUnique
<1>4. CallbackHolds'
  BY <1>1, <1>2, <1>3 DEF CallbackHolds, StartCallback, HeadFD
<1>5. OpenWhileRegistered'
  <2>1. current = NoDesc
    BY DEF CallbackHolds, StartCallback, HandlingEvent, Handling
  <2> QED BY <1>1, <2>1, DescAssumption DEF OpenWhileRegistered, StartCallback, Registered
<1>6. SnapshotRegistered'
  BY DEF SnapshotRegistered, StartCallback, HandlingEvent, Handling, Registered
<1>7. SelectorTypeOK' /\ PassOver'
  BY DEF SelectorTypeOK, PassOver, StartCallback
<1>8. RegisteredOnce' /\ NumbersUnique' /\ HandledOnce'
  BY DEF RegisteredOnce, NumbersUnique, HandledOnce, StartCallback
<1> QED BY <1>4, <1>5, <1>6, <1>7, <1>8

\* A callback removes its own descriptor: the file stays open until it returns.
LEMMA CallbackRemoveInv ==
  ASSUME SelectorInv, NEW ms \in Seq(Reply), CallbackRemove(ms)
  PROVE  SelectorInv'
<1> USE DEF SelectorInv
<1>1. /\ fds' \in Seq(Desc)
      /\ num' \in [Desc -> FdNum \cup {NoFd}]
      /\ wbuf' \in [Desc -> Seq(Reply)]
      /\ RegisteredOnce'
      /\ Registered' \subseteq Registered
      /\ \A d \in Registered : num[d] # HeadFD => d \in Registered'
      /\ \A d \in Desc :
           num'[d] = IF d \in Registered \ Registered' /\ d # current
                       THEN NoFd ELSE num[d]
      /\ running' \in BOOLEAN
  BY RemoveFDEffect, WriteToFDType DEF CallbackRemove, SelectorTypeOK
<1>2. /\ status = "callback" /\ num[current] = HeadFD /\ current \in Desc
      /\ current \in polled /\ possible # <<>>
      /\ UNCHANGED <<possible, current, status, polled>>
  BY DEF CallbackHolds, CallbackRemove, SelectorTypeOK
<1>3. 1 \in DOMAIN possible /\ HeadFD = possible[1].fd /\ HeadFD \in FdNum
  <2>1. 1 \in DOMAIN possible /\ Head(possible) = possible[1]
    BY <1>2, TailShift DEF SelectorTypeOK
  <2>2. Head(possible) \in [fd : FdNum, event : Event]
    BY <1>2, HeadTailProperties DEF SelectorTypeOK
  <2> QED BY <2>1, <2>2 DEF HeadFD
<1>4. \A d \in Desc : d \in Registered \ Registered' => d = current
  <2> SUFFICES ASSUME NEW d \in Desc, d \in Registered \ Registered'
               PROVE  d = current
    OBVIOUS
  <2>1. num[d] = num[current]
    BY <1>1, <1>2
  <2>2. num[d] # NoFd
    BY DEF OpenWhileRegistered
  <2> QED BY <1>2, <2>1, <2>2 DEF NumbersUnique
<1>5. num' = num
  BY <1>1, <1>4 DEF SelectorTypeOK
<1>6. SelectorTypeOK' /\ NumbersUnique' /\ HandledOnce' /\ PassOver'
  BY <1>1, <1>2, <1>5 DEF SelectorTypeOK, NumbersUnique, HandledOnce, PassOver
<1>7. OpenWhileRegistered'
  BY <1>1, <1>2, <1>4, <1>5 DEF OpenWhileRegistered
<1>8. SnapshotRegistered'
  <2> SUFFICES ASSUME NEW k \in DOMAIN possible, k # 1
               PROVE  \E d \in Registered' \cap polled : num[d] = possible[k].fd
    BY <1>2, <1>5 DEF SnapshotRegistered
  <2>1. PICK d \in Registered \cap polled : num[d] = possible[k].fd
    BY DEF SnapshotRegistered
  <2>2. possible[k].fd # HeadFD
    BY <1>3 DEF HandledOnce
  <2> QED BY <1>1, <2>1, <2>2
<1>9. CallbackHolds'
  BY <1>2, <1>5 DEF CallbackHolds, HeadFD
<1> QED BY <1>1, <1>6, <1>7, <1>8, <1>9

\* The handler returns and closes the file of an object removed meanwhile.
LEMMA EndCallbackInv ==
  ASSUME SelectorInv, EndCallback
  PROVE  SelectorInv'
<1> USE DEF SelectorInv
<1>1. /\ possible' \in Seq([fd : FdNum, event : Event])
      /\ HandledOnce'
      /\ \A k \in DOMAIN possible' :
            /\ k + 1 \in DOMAIN possible /\ k + 1 # 1
            /\ possible'[k] = possible[k + 1]
            /\ possible[k + 1].fd # HeadFD
  BY TailPossible DEF EndCallback, CallbackHolds
<1>2. /\ status = "callback" /\ num[current] = HeadFD /\ current \in Desc
      /\ current' = NoDesc /\ status' = "loop" /\ Registered' = Registered
      /\ UNCHANGED <<fds, wbuf, polled>>
  BY DEF CallbackHolds, EndCallback, SelectorTypeOK, Registered
<1>3. \A d \in Desc : num'[d] = IF d = current /\ d \notin Registered
                                  THEN NoFd ELSE num[d]
  BY <1>2 DEF EndCallback, SelectorTypeOK, Destroy
<1>4. num' \in [Desc -> FdNum \cup {NoFd}] /\ running' \in BOOLEAN
  BY <1>2 DEF EndCallback, SelectorTypeOK, Destroy
<1>5. SelectorTypeOK'
  BY <1>1, <1>2, <1>4 DEF SelectorTypeOK
<1>6. NumbersUnique'
  BY <1>3 DEF NumbersUnique
<1>7. OpenWhileRegistered'
  BY <1>2, <1>3, DescAssumption DEF OpenWhileRegistered
<1>8. SnapshotRegistered'
  <2> SUFFICES ASSUME NEW k \in DOMAIN possible'
               PROVE  \E d \in Registered \cap polled : num'[d] = possible'[k].fd
    BY <1>2 DEF SnapshotRegistered
  <2>1. PICK d \in Registered \cap polled : num[d] = possible[k + 1].fd
    BY <1>1 DEF SnapshotRegistered
  <2> QED BY <1>1, <1>3, <2>1 DEF SelectorTypeOK
<1>9. RegisteredOnce' /\ CallbackHolds' /\ PassOver'
  BY <1>2 DEF RegisteredOnce, CallbackHolds, PassOver
<1> QED BY <1>1, <1>5, <1>6, <1>7, <1>8, <1>9

\* The steps that touch neither the registered objects nor the snapshot.
LEMMA QuietInv ==
  ASSUME SelectorInv, UNCHANGED <<fds, num, possible, current, polled>>,
         wbuf' \in [Desc -> Seq(Reply)], running' \in BOOLEAN,
         \/ status' = status
         \/ status = "loop" /\ status' = "killed"
         \/ status = "loop" /\ status' = "stopped" /\ possible = <<>>
  PROVE  SelectorInv'
<1>1. SelectorTypeOK' /\ RegisteredOnce' /\ NumbersUnique' /\ HandledOnce'
  BY DEF SelectorInv, SelectorTypeOK, RegisteredOnce, NumbersUnique, HandledOnce
<1>2. OpenWhileRegistered' /\ SnapshotRegistered'
  BY DEF SelectorInv, OpenWhileRegistered, SnapshotRegistered, Registered
<1>3. CallbackHolds' /\ PassOver'
  BY DEF SelectorInv, CallbackHolds, PassOver, HeadFD
<1> QED BY <1>1, <1>2, <1>3 DEF SelectorInv

\* clearFDs closes every file and empties the vector.
LEMMA ClearInv ==
  ASSUME SelectorInv, ClearFDs
  PROVE  SelectorInv'
<1> USE DEF SelectorInv
<1>1. /\ <<>> \in Seq(Reply) /\ <<>> \in Seq(Desc) /\ DOMAIN fds' = {}
      /\ Registered' = {} /\ DOMAIN possible' = {}
  BY EmptySeq, LenProperties DEF ClearFDs, PassOver, Registered, Range
<1>2. SelectorTypeOK'
  BY <1>1 DEF SelectorTypeOK, ClearFDs
<1>3. RegisteredOnce' /\ NumbersUnique' /\ HandledOnce' /\ SnapshotRegistered'
  BY <1>1 DEF RegisteredOnce, NumbersUnique, HandledOnce, SnapshotRegistered, ClearFDs
<1>4. OpenWhileRegistered'
  BY <1>1, DescAssumption DEF OpenWhileRegistered, CallbackHolds, ClearFDs
<1>5. CallbackHolds' /\ PassOver'
  BY DEF CallbackHolds, PassOver, ClearFDs
<1> QED BY <1>2, <1>3, <1>4, <1>5

\* Every step of the loop, whatever the callbacks decide, keeps the invariant.
LEMMA NextInv ==
  ASSUME SelectorInv, [SelectorNext]_selectorVars
  PROVE  SelectorInv'
<1>1. /\ wbuf \in [Desc -> Seq(Reply)] /\ running \in BOOLEAN
  BY DEF SelectorInv, SelectorTypeOK
<1>2. ASSUME NEW rd, NEW wr, NEW ex, Poll(rd, wr, ex) PROVE SelectorInv'
  BY <1>2, PollInv
<1>3. ASSUME Skip \/ AcceptNothing PROVE SelectorInv'
  BY <1>1, <1>3, SkipInv DEF Skip, AcceptNothing, HandlingEvent
<1>4. ASSUME NEW d \in Desc, AcceptFD(d) PROVE SelectorInv'
  BY <1>4, AcceptInv
<1>5. ASSUME NEW d \in Desc, StartCallback(d) PROVE SelectorInv'
  BY <1>5, StartCallbackInv
<1>6. ASSUME NEW d \in Desc, ReadFails(d) \/ WriteFails(d) \/ ExceptFD
      PROVE  SelectorInv'
  BY <1>6, RemoveInv DEF ReadFails, WriteFails, ExceptFD, HandlingEvent
<1>7. ASSUME NEW d \in Desc, NEW k \in 0..Len(wbuf[d]), Write(d, k)
      PROVE  SelectorInv'
  <2>1. wbuf[d] \in Seq(Reply) /\ Len(wbuf[d]) \in Nat
    BY <1>1, LenProperties
  <2>2. \A i \in (k + 1)..Len(wbuf[d]) : wbuf[d][i] \in Reply
    BY <2>1, ElementOfSeq
  <2>3. SubSeq(wbuf[d], k + 1, Len(wbuf[d])) \in Seq(Reply)
    <3>1. k + 1 \in Int /\ Len(wbuf[d]) \in Int
      BY <2>1
    <3> QED BY <2>2, <3>1, SubSeqProperties
  <2>4. wbuf' \in [Desc -> Seq(Reply)]
    BY <1>1, <1>7, <2>3 DEF Write
  <2> QED BY <1>7, <2>4, SkipInv DEF Write, HandlingEvent
<1>8. ASSUME NEW d \in Desc, WriteKills(d) PROVE SelectorInv'
  BY <1>1, <1>8, QuietInv DEF WriteKills, HandlingEvent, Handling
<1>9. ASSUME NEW n, NEW ms \in Burst, CallbackWrite(n, ms) PROVE SelectorInv'
  <2>1. wbuf' \in [Desc -> Seq(Reply)]
    BY <1>9, WriteToFDType, BurstAssumption DEF CallbackWrite, SelectorInv
  <2> QED BY <1>1, <1>9, <2>1, QuietInv DEF CallbackWrite
<1>10. ASSUME NEW ms \in Burst, CallbackRemove(ms) PROVE SelectorInv'
  BY <1>10, CallbackRemoveInv, BurstAssumption
<1>11. ASSUME CallbackStop \/ Interrupt \/ LoopEnds \/ Terminated
              \/ UNCHANGED selectorVars
       PROVE  SelectorInv'
  BY <1>1, <1>11, QuietInv
     DEF CallbackStop, Interrupt, Polling, LoopEnds, Terminated, selectorVars
<1>12. ASSUME EndCallback PROVE SelectorInv'
  BY <1>12, EndCallbackInv
<1>13. ASSUME ClearFDs PROVE SelectorInv'
  BY <1>13, ClearInv
<1>14. ASSUME Handle PROVE SelectorInv'
  <2>1. CASE ExceptFD
    BY <2>1, RemoveInv DEF ExceptFD, HandlingEvent
  <2> QED BY <1>3, <1>4, <1>5, <1>6, <1>7, <1>8, <1>14, <2>1 DEF Handle
<1> QED BY <1>2, <1>9, <1>10, <1>11, <1>12, <1>13, <1>14 DEF SelectorNext

(***************************************************************************)
(* Theorems.                                                               *)
(***************************************************************************)

\* The invariant holds for every set of descriptors, numbers and answers.
THEOREM SelectorInvariance == SelectorSpec => []SelectorInv
<1>1. SelectorInit => SelectorInv
  BY InitInv
<1>2. SelectorInv /\ [SelectorNext]_selectorVars => SelectorInv'
  BY NextInv
<1> QED BY <1>1, <1>2, PTL DEF SelectorSpec

\* Every variable of the loop keeps its type.
THEOREM SelectorTypeCorrect == SelectorSpec => []SelectorTypeOK
<1>1. SelectorInv => SelectorTypeOK
  BY DEF SelectorInv
<1> QED BY <1>1, SelectorInvariance, PTL

\* Readiness reported for a number is never used for an object registered
\* later under the same number.
THEOREM NoStaleDispatchHolds == SelectorSpec => []NoStaleDispatch
<1>1. SelectorInv => NoStaleDispatch
  <2> SUFFICES ASSUME SelectorInv, NEW d \in Registered,
                      NEW k \in DOMAIN possible, possible[k].fd = num[d]
               PROVE  d \in polled
    BY DEF NoStaleDispatch, Range
  <2>1. d \in Desc /\ num[d] # NoFd
    <3>1. Registered \subseteq Desc
      BY LenProperties, ElementOfSeq DEF SelectorInv, SelectorTypeOK, Registered, Range
    <3> QED BY <3>1 DEF SelectorInv, OpenWhileRegistered
  <2>2. CASE \E e \in Registered \cap polled : num[e] = possible[k].fd
    BY <2>1, <2>2 DEF SelectorInv, NumbersUnique, SelectorTypeOK
  <2>3. CASE k = 1 /\ status = "callback"
    <3>1. /\ current \in polled /\ current \in Desc
          /\ num[current] = Head(possible).fd /\ possible # <<>>
      BY <2>3 DEF SelectorInv, CallbackHolds, SelectorTypeOK, HeadFD
    <3>2. Head(possible) = possible[1]
      BY <3>1, TailShift DEF SelectorInv, SelectorTypeOK
    <3> QED BY <2>1, <2>3, <3>1, <3>2 DEF SelectorInv, NumbersUnique
  <2> QED BY <2>2, <2>3 DEF SelectorInv, SnapshotRegistered
<1> QED BY <1>1, SelectorInvariance, PTL

\* No file is leaked or closed twice.
THEOREM OpenWhileRegisteredHolds == SelectorSpec => []OpenWhileRegistered
<1>1. SelectorInv => OpenWhileRegistered
  BY DEF SelectorInv
<1> QED BY <1>1, SelectorInvariance, PTL

\* The pass never looks up a number in vain, and lookups are unambiguous.
THEOREM LookupsFind == SelectorSpec => [](SnapshotRegistered /\ NumbersUnique)
<1>1. SelectorInv => SnapshotRegistered /\ NumbersUnique
  BY DEF SelectorInv
<1> QED BY <1>1, SelectorInvariance, PTL

(***************************************************************************)
(* What the helpers do to the descriptor they are meant for.               *)
(***************************************************************************)

\* A lookup by the number of an open descriptor finds that one, while it is
\* registered.
LEMMA Lookup ==
  ASSUME SelectorInv, NEW d \in Desc, num[d] # NoFd
  PROVE  /\ \A i \in DOMAIN fds : IsFirst(i, num[d]) <=> fds[i] = d
         /\ Found(num[d]) <=> d \in Registered
         /\ \A e \in Desc : IsFD(e, num[d]) <=> e = d /\ d \in Registered
<1> USE DEF SelectorInv
<1>1. /\ fds \in Seq(Desc) /\ DOMAIN fds = 1..Len(fds) /\ Len(fds) \in Nat
      /\ \A i \in DOMAIN fds : fds[i] \in Desc
  BY LenProperties, ElementOfSeq DEF SelectorTypeOK
<1>2. \A i \in DOMAIN fds : num[fds[i]] = num[d] <=> fds[i] = d
  BY <1>1 DEF NumbersUnique
<1>3. ASSUME NEW i \in DOMAIN fds, fds[i] = d PROVE IsFirst(i, num[d])
  <2>1. \A k \in 1..(i - 1) : k \in DOMAIN fds /\ k # i
    BY <1>1
  <2>2. \A k \in 1..(i - 1) : fds[k] # d
    BY <1>3, <2>1 DEF RegisteredOnce
  <2> QED BY <1>2, <1>3, <2>1, <2>2 DEF IsFirst
<1>4. \A i \in DOMAIN fds : IsFirst(i, num[d]) <=> fds[i] = d
  BY <1>2, <1>3 DEF IsFirst
<1>5. Found(num[d]) <=> d \in Registered
  BY <1>4 DEF Found, Registered, Range
<1>6. \A e \in Desc : IsFD(e, num[d]) <=> e = d /\ d \in Registered
  BY <1>4 DEF IsFD, Registered, Range
<1> QED BY <1>4, <1>5, <1>6

\* What writeToFD queues, it queues for that one.
LEMMA WriteToFDQueues ==
  ASSUME SelectorInv, NEW d \in Desc, num[d] # NoFd, NEW ms
  PROVE  WriteToFD(num[d], ms) =
           IF d \in Registered THEN [wbuf EXCEPT ![d] = @ \o ms] ELSE wbuf
<1>1. \A e \in Desc : IsFD(e, num[d]) <=> e = d /\ d \in Registered
  BY Lookup
<1>2. wbuf = [e \in Desc |-> wbuf[e]]
  BY DEF SelectorInv, SelectorTypeOK
<1>3. CASE d \in Registered
  BY <1>1, <1>2, <1>3 DEF WriteToFD
<1>4. CASE d \notin Registered
  BY <1>1, <1>2, <1>4 DEF WriteToFD
<1> QED BY <1>3, <1>4

\* removeFD takes that one out with its buffers, and closes it unless its own
\* callback runs.
LEMMA RemoveFDRemoves ==
  ASSUME SelectorInv, NEW d \in Desc, num[d] # NoFd, NEW w, RemoveFD(num[d], w)
  PROVE  /\ Registered' = Registered \ {d}
         /\ wbuf' = IF d \in Registered THEN [w EXCEPT ![d] = <<>>] ELSE w
         /\ num' = IF d \in Registered /\ d # current
                     THEN [num EXCEPT ![d] = NoFd] ELSE num
<1>1. /\ \A i \in DOMAIN fds : IsFirst(i, num[d]) <=> fds[i] = d
      /\ Found(num[d]) <=> d \in Registered
  BY Lookup
<1>2. CASE d \notin Registered
  <2>1. wbuf' = w /\ UNCHANGED <<fds, num>>
    BY <1>1, <1>2 DEF RemoveFD, Found
  <2> QED BY <1>2, <2>1 DEF Registered
<1>3. CASE d \in Registered
  <2>1. PICK i \in DOMAIN fds :
          /\ IsFirst(i, num[d])
          /\ fds' = RemoveAt(fds, i)
          /\ wbuf' = [w EXCEPT ![fds[i]] = <<>>]
          /\ IF fds[i] = current THEN UNCHANGED <<num, running>> ELSE Destroy(fds[i])
    BY <1>1, <1>3 DEF RemoveFD
  <2>2. fds[i] = d
    BY <1>1, <2>1
  <2>3. Range(fds') = Range(fds) \ {d}
    <3>1. fds \in Seq(Desc) /\ i \in 1..Len(fds)
      BY LenProperties DEF SelectorInv, SelectorTypeOK
    <3> QED BY <2>1, <2>2, <3>1, RangeRemoveAt DEF SelectorInv, RegisteredOnce
  <2> QED BY <1>3, <2>1, <2>2, <2>3 DEF Registered, Destroy
<1> QED BY <1>2, <1>3

\* The number looked up is that of the descriptor found.
LEMMA FoundRegistered ==
  ASSUME SelectorInv, NEW d \in Desc, NEW n, IsFD(d, n)
  PROVE  d \in Registered /\ num[d] = n /\ n # NoFd
<1>1. d \in Registered /\ num[d] = n
  BY DEF IsFD, IsFirst, Registered, Range
<1> QED BY <1>1 DEF SelectorInv, OpenWhileRegistered

\* A descriptor whose handler fails is closed at once.
LEMMA FailureCloses ==
  ASSUME SelectorInv, NEW d \in Desc, ReadFails(d) \/ WriteFails(d)
  PROVE  d \in Registered /\ num[d] # NoFd /\ num'[d] = NoFd
<1>1. IsFD(d, HeadFD) /\ RemoveFD(HeadFD, wbuf) /\ status = "loop"
  BY DEF ReadFails, WriteFails, HandlingEvent, Handling
<1>2. d \in Registered /\ num[d] = HeadFD /\ num[d] # NoFd
  BY <1>1, FoundRegistered
<1>3. d # current
  BY <1>1, DescAssumption DEF SelectorInv, CallbackHolds
<1>4. num' = IF d \in Registered /\ d # current THEN [num EXCEPT ![d] = NoFd] ELSE num
  BY <1>1, <1>2, RemoveFDRemoves
<1>5. num \in [Desc -> FdNum \cup {NoFd}]
  BY DEF SelectorInv, SelectorTypeOK
<1> QED BY <1>2, <1>3, <1>4, <1>5

\* Nothing is queued for a descriptor that is gone: a callback that writes after
\* it has removed itself writes nowhere.
LEMMA QueuedRegisteredNext ==
  ASSUME SelectorInv, QueuedRegistered, [SelectorNext]_selectorVars
  PROVE  QueuedRegistered'
<1> USE DEF QueuedRegistered
<1>0. wbuf \in [Desc -> Seq(Reply)]
  BY DEF SelectorInv, SelectorTypeOK
<1>1. ASSUME UNCHANGED <<fds, wbuf>> PROVE QueuedRegistered'
  BY <1>1 DEF Registered
<1>2. ASSUME NEW n, NEW w,
             \A d \in Desc \ Registered : w[d] = <<>>,
             w \in [Desc -> Seq(Reply)], RemoveFD(n, w)
      PROVE  QueuedRegistered'
  <2>1. CASE ~Found(n)
    BY <1>2, <2>1 DEF RemoveFD, Found, Registered
  <2>2. CASE Found(n)
    <3>1. PICK i \in DOMAIN fds :
            fds' = RemoveAt(fds, i) /\ wbuf' = [w EXCEPT ![fds[i]] = <<>>]
      BY <1>2, <2>2 DEF RemoveFD
    <3>2. fds \in Seq(Desc) /\ i \in 1..Len(fds)
      BY LenProperties DEF SelectorInv, SelectorTypeOK
    <3>3. Registered' = Registered \ {fds[i]}
      BY <3>1, <3>2, RangeRemoveAt DEF SelectorInv, RegisteredOnce, Registered
    <3> QED BY <1>2, <3>1, <3>3
  <2> QED BY <2>1, <2>2
<1>3. ASSUME NEW n, NEW ms PROVE \A d \in Desc \ Registered : WriteToFD(n, ms)[d] = <<>>
  BY DEF WriteToFD, IsFD, Registered, Range
<1>4. CASE \E rd, wr, ex \in SUBSET RegisteredNumbers : Poll(rd, wr, ex)
  BY <1>1, <1>4 DEF Poll
<1>5. CASE Handle
  <2>1. CASE Skip \/ AcceptNothing \/ \E d \in Desc : StartCallback(d) \/ WriteKills(d)
    BY <1>1, <2>1 DEF Skip, AcceptNothing, StartCallback, WriteKills
  <2>2. ASSUME NEW d \in Desc, AcceptFD(d) PROVE QueuedRegistered'
    <3>1. fds \in Seq(Desc) /\ fds' = Append(fds, d) /\ wbuf' = wbuf
      BY <2>2 DEF AcceptFD, SelectorInv, SelectorTypeOK
    <3>2. d \notin Registered
      BY <2>2 DEF AcceptFD, SelectorInv, OpenWhileRegistered
    <3>3. Registered' = Registered \cup {d}
      BY <3>1, <3>2, RangeAppend DEF Registered, SelectorInv, RegisteredOnce
    <3> QED BY <3>1, <3>3
  <2>3. CASE ExceptFD \/ \E d \in Desc : ReadFails(d) \/ WriteFails(d)
    BY <1>0, <1>2, <2>3 DEF ExceptFD, ReadFails, WriteFails
  <2>4. ASSUME NEW d \in Desc, NEW k \in 0..Len(wbuf[d]), Write(d, k) PROVE QueuedRegistered'
    <3>1. /\ d \in Registered /\ fds' = fds
          /\ wbuf' = [wbuf EXCEPT ![d] = SubSeq(@, k + 1, Len(@))]
      BY <2>4 DEF Write, IsFD, Registered, Range
    <3> QED BY <3>1, <1>0 DEF Registered
  <2> QED BY <1>5, <2>1, <2>2, <2>3, <2>4 DEF Handle
<1>6. ASSUME NEW n \in FdNum, NEW ms \in Burst, CallbackWrite(n, ms) PROVE QueuedRegistered'
  BY <1>3, <1>6 DEF CallbackWrite, Registered
<1>7. ASSUME NEW ms \in Burst, CallbackRemove(ms) PROVE QueuedRegistered'
  <2>1. WriteToFD(HeadFD, ms) \in [Desc -> Seq(Reply)]
    BY BurstAssumption, WriteToFDType DEF SelectorInv
  <2> QED BY <1>2, <1>3, <1>7, <2>1 DEF CallbackRemove
<1>8. CASE CallbackStop \/ EndCallback \/ Interrupt \/ LoopEnds \/ Terminated
  BY <1>1, <1>8 DEF CallbackStop, EndCallback, Interrupt, LoopEnds, Terminated, selectorVars
<1>9. CASE ClearFDs
  BY <1>9 DEF ClearFDs
<1>10. CASE UNCHANGED selectorVars
  BY <1>1, <1>10 DEF selectorVars
<1> QED BY <1>4, <1>5, <1>6, <1>7, <1>8, <1>9, <1>10 DEF SelectorNext
=============================================================================
