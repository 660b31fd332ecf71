------------------------------ MODULE Selector ------------------------------
(***************************************************************************)
(* The single-threaded select loop of include/Selector.h, shared by the    *)
(* server and the client: a vector of registered file descriptors, a pass  *)
(* over a snapshot of their numbers after every pselect, the read callback *)
(* that queues answers and removes descriptors, and the shared_ptr that    *)
(* keeps a descriptor removed by its own callback open until the handler   *)
(* returns.                                                                *)
(*                                                                         *)
(* A Desc is one FD<T> object, that is one open file; its number is what   *)
(* the kernel gave it.  Bytes are abstracted to the buffers the callbacks  *)
(* queue (Reply).  What makes a descriptor ready is left open here: a      *)
(* module that extends this one says it.                                   *)
(***************************************************************************)
EXTENDS Integers, Sequences, SequencesExt

CONSTANTS
  Desc,      \* the FD objects
  NoDesc,    \* no FD object
  Acceptor,  \* those whose readHandler accepts a connection (TCPServer::bindSvr)
  Initial,   \* the vector the loop starts with
  Stopping,  \* those whose closeHandler stops the loop (TCPClient::connectTo)
  FdNum,     \* the descriptor numbers the process may use (RLIMIT_NOFILE)
  Reply,     \* the buffers a callback may queue for writing
  Burst      \* what one call of a callback may queue

NoFd == -1   \* FD::fd of an object that holds no file

ASSUME DescAssumption ==
  /\ NoDesc \notin Desc
  /\ Acceptor \subseteq Desc /\ Stopping \subseteq Desc
  /\ Initial \in Seq(Desc)
  /\ \A i, j \in DOMAIN Initial : Initial[i] = Initial[j] => i = j
ASSUME FdNumAssumption == FdNum \subseteq Nat
ASSUME BurstAssumption == Burst \subseteq Seq(Reply)

VARIABLES
  fds,       \* Selector::fds, the registered objects in vector order
  num,       \* FD::fd of every object; the file is open iff it is not NoFd
  wbuf,      \* FD::writeBuffer, as the sequence of queued buffers
  running,   \* Selector::running
  possible,  \* the part of possibleFDs the pass has not handled yet, each
             \* number with what the returned fd_sets make the pass do with it
  current,   \* fdIt: the object whose read callback runs
  status,    \* where the program is
  polled     \* history: the objects registered at the last pselect

selectorVars ==
  <<fds, num, wbuf, running, possible, current, status, polled>>

Registered == Range(fds)

RegisteredNumbers == {num[d] : d \in Registered}

Event == {"read", "write", "except", "none"}

\* Mutant: a pass never writes.
EventNeverWrite(n, rd, wr, ex) ==
  CASE n \in rd -> "read"
    [] n \in ex \ rd -> "except"
    [] OTHER -> "none"

\* The order of the tests in handleFileDescriptorReady: a descriptor that is
\* readable is not written to in the same pass.
EventOf(n, rd, wr, ex) ==
  CASE n \in rd -> "read"
    [] n \in wr \ rd -> "write"
    [] n \in ex \ (rd \cup wr) -> "except"
    [] OTHER -> "none"

(***************************************************************************)
(* Initial state: the descriptors registered before the loop starts.       *)
(***************************************************************************)
SelectorInit ==
  /\ fds = Initial
  /\ num \in [Desc -> FdNum \cup {NoFd}]
  /\ \A d \in Desc : num[d] = NoFd <=> d \notin Range(Initial)
  /\ \A d, e \in Range(Initial) : num[d] = num[e] => d = e
  /\ wbuf = [d \in Desc |-> <<>>]
  /\ running = TRUE
  /\ possible = <<>>
  /\ current = NoDesc
  /\ status = "loop"
  /\ polled = {}

(***************************************************************************)
(* Lookup by number: std::find_if returns the first match.                 *)
(***************************************************************************)
IsFirst(i, n) ==
  /\ i \in DOMAIN fds
  /\ num[fds[i]] = n
  /\ \A j \in 1..(i - 1) : num[fds[j]] # n

Found(n) == \E i \in DOMAIN fds : IsFirst(i, n)

IsFD(d, n) == \E i \in DOMAIN fds : IsFirst(i, n) /\ fds[i] = d

\* writeToFD: the write buffers after queueing ms for descriptor n, if it is
\* still registered.
WriteToFD(n, ms) ==
  [d \in Desc |-> IF IsFD(d, n) THEN wbuf[d] \o ms ELSE wbuf[d]]

\* Mutant: the closeHandler is not called for what the loop itself removes.
DestroyQuiet(d) ==
  /\ num' = [num EXCEPT ![d] = NoFd]
  /\ UNCHANGED running

\* The destructor of an object that is not held any more calls its closeHandler.
\* The number is free with the object; where the handler closes no file (the
\* client's two), the kernel frees it with the process, and nobody asks for a
\* number in between.
Destroy(d) ==
  /\ num' = [num EXCEPT ![d] = NoFd]
  /\ running' = (running /\ d \notin Stopping)

\* Mutant: the object is destroyed but stays in the vector.
RemoveFDStays(n, w) ==
  \/ \E i \in DOMAIN fds :
       /\ IsFirst(i, n)
       /\ wbuf' = [w EXCEPT ![fds[i]] = <<>>]
       /\ Destroy(fds[i])
       /\ UNCHANGED fds
  \/ /\ ~Found(n)
     /\ wbuf' = w
     /\ UNCHANGED <<fds, num, running>>

\* removeFD when the write buffers are w: the object leaves the vector, its
\* queued buffers are lost, and it is destroyed unless fdIt still holds it.
RemoveFD(n, w) ==
  \/ \E i \in DOMAIN fds :
       /\ IsFirst(i, n)
       /\ fds' = RemoveAt(fds, i)
       /\ wbuf' = [w EXCEPT ![fds[i]] = <<>>]
       /\ IF fds[i] = current THEN UNCHANGED <<num, running>> ELSE Destroy(fds[i])
  \/ /\ ~Found(n)
     /\ wbuf' = w
     /\ UNCHANGED <<fds, num, running>>

(***************************************************************************)
(* The loop: pselect and the pass over the snapshot.                       *)
(***************************************************************************)

\* Mutant: the loop does not look at running.
PollingForEver == status = "loop" /\ possible = <<>>

\* The loop is in pselect.
Polling == status = "loop" /\ possible = <<>> /\ running

\* pselect returns with some descriptor ready; writability is asked only for
\* those with queued buffers.
Poll(rd, wr, ex) ==
  /\ Polling
  /\ rd \cup wr \cup ex # {}
  /\ rd \cup ex \subseteq RegisteredNumbers
  /\ wr \subseteq {num[d] : d \in {e \in Registered : wbuf[e] # <<>>}}
  /\ possible' = [i \in DOMAIN fds |->
                    [fd |-> num[fds[i]], event |-> EventOf(num[fds[i]], rd, wr, ex)]]
  /\ polled' = Registered
  /\ UNCHANGED <<fds, num, wbuf, running, current, status>>

Handling == status = "loop" /\ possible # <<>>

HeadFD == Head(possible).fd

HandlingEvent(e) == Handling /\ Head(possible).event = e

\* Mutant: the pass does not go on to the next number.
NextDescriptorStays == UNCHANGED <<possible, current, status>>

NextDescriptor ==
  /\ possible' = Tail(possible)
  /\ UNCHANGED <<current, status>>

\* The number is in no set, or no registered object has it any more.
Skip ==
  /\ Handling
  /\ HandlingEvent("none") \/ ~Found(HeadFD)
  /\ NextDescriptor
  /\ UNCHANGED <<fds, num, wbuf, running, polled>>

FreeNumbers == FdNum \ {num[d] : d \in Desc}

\* Mutant: the result of accept4 is used unchecked, -1 when no number is free.
AcceptFDUnchecked(d) ==
  /\ HandlingEvent("read")
  /\ \E a \in Acceptor : IsFD(a, HeadFD)
  /\ d \in Desc \ (Acceptor \cup Registered) /\ num[d] = NoFd
  /\ \E n \in IF FreeNumbers = {} THEN {NoFd} ELSE FreeNumbers :
       num' = [num EXCEPT ![d] = n]
  /\ fds' = Append(fds, d)
  /\ polled' = polled \ {d}
  /\ NextDescriptor
  /\ UNCHANGED <<wbuf, running>>

\* Mutant: the pass walks the live vector, so it comes to the new object too.
AcceptFDInPass(d) ==
  /\ HandlingEvent("read")
  /\ \E a \in Acceptor : IsFD(a, HeadFD)
  /\ d \in Desc \ Acceptor /\ num[d] = NoFd
  /\ \E n \in FreeNumbers :
       /\ num' = [num EXCEPT ![d] = n]
       /\ possible' = Append(Tail(possible), [fd |-> n, event |-> "read"])
  /\ fds' = Append(fds, d)
  /\ polled' = polled \ {d}
  /\ UNCHANGED <<wbuf, running, current, status>>

\* The readHandler of a listening socket: accept4 takes the lowest free number
\* and addFD appends the new object.
AcceptFD(d) ==
  /\ HandlingEvent("read")
  /\ \E a \in Acceptor : IsFD(a, HeadFD)
  /\ d \in Desc \ Acceptor /\ num[d] = NoFd
  /\ \E n \in FreeNumbers :
       /\ \A m \in FreeNumbers : n <= m
       /\ num' = [num EXCEPT ![d] = n]
  /\ fds' = Append(fds, d)
  /\ polled' = polled \ {d}
  /\ NextDescriptor
  /\ UNCHANGED <<wbuf, running>>

\* The same handler when it keeps no descriptor: accept4 fails, or the
\* connection is closed at once.
AcceptNothing ==
  /\ HandlingEvent("read")
  /\ \E a \in Acceptor : IsFD(a, HeadFD)
  /\ NextDescriptor
  /\ UNCHANGED <<fds, num, wbuf, running, polled>>

\* defaultRead returns bytes: the read callback starts.
StartCallback(d) ==
  /\ HandlingEvent("read")
  /\ d \notin Acceptor /\ IsFD(d, HeadFD)
  /\ status' = "callback"
  /\ current' = d
  /\ UNCHANGED <<fds, num, wbuf, running, possible, polled>>

\* defaultRead finds the end of the stream or an error and throws.
ReadFails(d) ==
  /\ HandlingEvent("read")
  /\ d \notin Acceptor /\ IsFD(d, HeadFD)
  /\ RemoveFD(HeadFD, wbuf)
  /\ NextDescriptor
  /\ UNCHANGED polled

\* doWrite: the kernel takes the first k buffers, then would block.
Write(d, k) ==
  /\ HandlingEvent("write")
  /\ IsFD(d, HeadFD)
  /\ k \in 0..Len(wbuf[d])
  /\ wbuf' = [wbuf EXCEPT ![d] = SubSeq(@, k + 1, Len(@))]
  /\ NextDescriptor
  /\ UNCHANGED <<fds, num, running, polled>>

\* doWrite gets any other error and throws socket_error.
WriteFails(d) ==
  /\ HandlingEvent("write")
  /\ IsFD(d, HeadFD)
  /\ wbuf[d] # <<>>
  /\ RemoveFD(HeadFD, wbuf)
  /\ NextDescriptor
  /\ UNCHANGED polled

\* write(2) on a connection the peer has reset: SIGPIPE is neither blocked nor
\* handled, so the process ends.
WriteKills(d) ==
  /\ HandlingEvent("write")
  /\ IsFD(d, HeadFD)
  /\ wbuf[d] # <<>>
  /\ status' = "killed"
  /\ UNCHANGED <<fds, num, wbuf, running, possible, current, polled>>

ExceptFD ==
  /\ HandlingEvent("except")
  /\ Found(HeadFD)
  /\ RemoveFD(HeadFD, wbuf)
  /\ NextDescriptor
  /\ UNCHANGED polled

(***************************************************************************)
(* What a read callback may do: queue buffers for a descriptor, remove its *)
(* own descriptor after queueing a last burst, stop the loop, return.      *)
(***************************************************************************)
CallbackWrite(n, ms) ==
  /\ status = "callback"
  /\ wbuf' = WriteToFD(n, ms)
  /\ UNCHANGED <<fds, num, running, possible, current, status, polled>>

CallbackRemove(ms) ==
  /\ status = "callback"
  /\ RemoveFD(HeadFD, WriteToFD(HeadFD, ms))
  /\ UNCHANGED <<possible, current, status, polled>>

CallbackStop ==
  /\ status = "callback"
  /\ running' = FALSE
  /\ UNCHANGED <<fds, num, wbuf, possible, current, status, polled>>

\* Mutant: nobody closes the file of an object its own callback removed.
EndCallbackLeaks ==
  /\ status = "callback"
  /\ current' = NoDesc
  /\ status' = "loop"
  /\ possible' = Tail(possible)
  /\ UNCHANGED <<fds, num, wbuf, running, polled>>

\* The handler returns: fdIt goes, and with it an object no longer registered.
EndCallback ==
  /\ status = "callback"
  /\ IF current \in Registered THEN UNCHANGED <<num, running>> ELSE Destroy(current)
  /\ current' = NoDesc
  /\ status' = "loop"
  /\ possible' = Tail(possible)
  /\ UNCHANGED <<fds, wbuf, polled>>

(***************************************************************************)
(* The end of the loop.                                                    *)
(***************************************************************************)

\* SIGINT and SIGTERM are delivered inside pselect only: it returns EINTR.
Interrupt ==
  /\ Polling
  /\ status' = "stopped"
  /\ UNCHANGED <<fds, num, wbuf, running, possible, current, polled>>

LoopEnds ==
  /\ status = "loop" /\ possible = <<>> /\ ~running
  /\ status' = "stopped"
  /\ UNCHANGED <<fds, num, wbuf, running, possible, current, polled>>

\* clearFDs destroys every object; closeCallback is not called, and the loop is
\* over, so that a closeHandler that stops it changes nothing.
ClearFDs ==
  /\ status = "stopped"
  /\ status' = "done"
  /\ fds' = <<>>
  /\ num' = [d \in Desc |-> NoFd]
  /\ wbuf' = [d \in Desc |-> <<>>]
  /\ UNCHANGED <<running, possible, current, polled>>

Terminated == status \in {"done", "killed"} /\ UNCHANGED selectorVars

(***************************************************************************)
(* The specification.                                                      *)
(***************************************************************************)
Handle ==
  \/ Skip
  \/ \E d \in Desc : AcceptFD(d)
  \/ AcceptNothing
  \/ \E d \in Desc : StartCallback(d)
  \/ \E d \in Desc : ReadFails(d)
  \/ \E d \in Desc : \E k \in 0..Len(wbuf[d]) : Write(d, k)
  \/ \E d \in Desc : WriteFails(d)
  \/ \E d \in Desc : WriteKills(d)
  \/ ExceptFD

SelectorNext ==
  \/ \E rd, wr, ex \in SUBSET RegisteredNumbers : Poll(rd, wr, ex)
  \/ Handle
  \/ \E n \in FdNum : \E ms \in Burst : CallbackWrite(n, ms)
  \/ \E ms \in Burst : CallbackRemove(ms)
  \/ CallbackStop
  \/ EndCallback
  \/ Interrupt
  \/ LoopEnds
  \/ ClearFDs
  \/ Terminated

SelectorSpec == SelectorInit /\ [][SelectorNext]_selectorVars

\* One thread runs the loop: handlers return, and it goes on to the next step.
\* Nothing is assumed of pselect, of signals or of what a callback decides.
SelectorFairness ==
  /\ WF_selectorVars(Handle)
  /\ WF_selectorVars(EndCallback)
  /\ WF_selectorVars(LoopEnds)
  /\ WF_selectorVars(ClearFDs)

(***************************************************************************)
(* Properties.                                                             *)
(***************************************************************************)
SelectorTypeOK ==
  /\ fds \in Seq(Desc)
  /\ num \in [Desc -> FdNum \cup {NoFd}]
  /\ wbuf \in [Desc -> Seq(Reply)]
  /\ running \in BOOLEAN
  /\ possible \in Seq([fd : FdNum, event : Event])
  /\ current \in Desc \cup {NoDesc}
  /\ status \in {"loop", "callback", "stopped", "done", "killed"}
  /\ polled \subseteq Desc

\* A pass acts on readiness by descriptor number alone.  No number still to be
\* handled belongs to an object that was registered after the pselect whose
\* answer is being used: a number freed and given out again inside a pass is
\* never mistaken for the descriptor that was polled.
NoStaleDispatch ==
  \A d \in Registered : \A p \in Range(possible) : p.fd = num[d] => d \in polled

\* An object that is to close its file (a connection of the server's) has it open
\* exactly while it is registered or its own read callback is running: nothing is
\* closed twice and nothing is leaked, whatever the callback removes.
OpenWhileRegistered ==
  \A d \in Desc : num[d] # NoFd <=> d \in Registered \/ d = current

\* Every lookup by number finds at most one open object, so removeFD and
\* writeToFD cannot reach the wrong connection.
NumbersUnique ==
  \A d, e \in Desc : num[d] = num[e] /\ num[d] # NoFd => d = e

\* The numbers still to be handled are those of registered, polled objects, but
\* for the one whose callback runs: the pass never looks up a number in vain.
SnapshotRegistered ==
  \A k \in DOMAIN possible :
    \/ k = 1 /\ status = "callback"
    \/ \E d \in Registered \cap polled : num[d] = possible[k].fd

\* The inductive invariant behind these properties.
RegisteredOnce ==
  \A i, j \in DOMAIN fds : fds[i] = fds[j] => i = j

HandledOnce ==
  \A j, k \in DOMAIN possible : possible[j].fd = possible[k].fd => j = k

CallbackHolds ==
  IF status = "callback"
    THEN /\ current \in polled \ Acceptor
         /\ possible # <<>>
         /\ num[current] = HeadFD
    ELSE current = NoDesc

PassOver == status \in {"stopped", "done"} => possible = <<>>

SelectorInv ==
  /\ SelectorTypeOK
  /\ RegisteredOnce
  /\ NumbersUnique
  /\ OpenWhileRegistered
  /\ HandledOnce
  /\ SnapshotRegistered
  /\ CallbackHolds
  /\ PassOver

\* Beside it: the buffers queued for a descriptor go with it.
QueuedRegistered == \A d \in Desc \ Registered : wbuf[d] = <<>>

\* stop() called from a callback is heard: the rest of the pass is handled,
\* whatever its callbacks do, and the loop then ends and every file is closed.
StopIsHeard == ~running ~> status \in {"done", "killed"}
=============================================================================
