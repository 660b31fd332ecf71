# A login server, its select loop and its password table in TLA+

The repository holds a small TCP server with logins, the client for it, and
`adduser`, which writes the server's password file. These modules model the
parts of it whose correctness depends on order: what a select loop does while
its own handlers add and remove descriptors, what a session may do in which
order, what the two programs make of messages that cross, how bytes are cut by
streams, files and encodings, and how several programs rewrite one file. `PROJECT.json` maps every definition to the lines it stands for.

## The system

| component | code | state | operations | interacts with |
|---|---|---|---|---|
| select loop | `Selector.h` (`Selector<T>`, `FD<T>`) | the vector `fds` of shared FD objects, their read and write buffers, the set of numbers built at each `pselect`, `running` | `addFD`, `removeFD`, `writeToFD`, `stop`, `clearFDs`, `selectLoop` | calls `readHandler`, `readCallback`, `closeCallback`; the kernel hands out the lowest free number |
| dynamic buffer | `Selector.h`, `Selector.cpp` (`DynamicBuffer`, `Buffer`) | a list of chunks with offsets | `addBuffer`, `advanceBuffer`, `operator[]`, `length`, `getNext`, `peekNext` | one in every FD for reading, one for writing |
| message framing | `NetworkMessage.h` | none | `encode`, `peek`, `get`, per type | reads a dynamic buffer, in `onRead` of server and client |
| server | `TCPServer.cpp`, `TCPServer.h`, `server_main.cpp` | a `User` per connection (name, attempts, two flags), the files `passwd`, `whitelist`, `server.log` | accept handler, `onRead` with one handler per request, `onClose`, `log`, `shutdown` | runs on the select loop, uses three database files |
| flat-file database | `Database.h` | the file, its `.tmp` file; while it reads, the row collected so far | `find`, `update`, `insert`; the parser and the writer of rows under them | server and `adduser` |
| adduser | `adduser_main.cpp` | the name asked for | look, prompt, insert | the same `passwd` file, with nothing locked |
| client | `TCPClient.cpp`, `TCPClient.h`, `client_main.cpp`, `Security::setFDEcho` | input state, stored password, terminal echo | `handleUserInput`, four response handlers, `closeConn` | runs on the select loop, with the socket and stdin |
| hashing, base64 | `Security.cpp` | none | `hash`, `generateSalt`, `base64Encode`, `base64Decode` | server, adduser |
| interfaces | `Server.h`, `Client.h`, `exceptions.h` | none | none | |
| earlier blocking classes | `FileDesc`, `TCPConn`, `PasswdMgr`, `strfuncts` | | | in no target of the build, see below |

What is hard about it, and what makes each part correct:

- **Select loop.** A pass works through numbers taken before `pselect` while
  handlers close files and `accept4` gives their numbers out again; a callback
  may remove the very object it runs on, which `fdIt` keeps alive until it
  returns; `stop` may come in the middle of a pass. Correct means: readiness is
  never used for another object than the one polled, a file is open exactly
  while its object is needed, and a stop is heard.
- **Server.** A read may bring several requests. The loop of `onRead` goes on
  after a handler has removed the connection, rows of the password file change
  between requests, and descriptor numbers run out while files have to be
  opened. Correct means: attempts are limited, a session is verified only under
  the name it logged in with, passwords change only on behalf of such a session,
  and the log says what happened.
- **Client.** Lines may be typed ahead of the answers that decide what they mean,
  and switching the echo discards what was typed. Correct means: a user who waits
  for the prompts never sees a password on the screen and never loses the
  terminal, a login always comes to an outcome, and the client ends with its
  connection.
- **Client and server together.** Requests and answers cross, a refusal queued
  just before `removeFD` is never sent, requests that came with a refused one are
  handled all the same, and either program may be stopped at any time. Correct
  means: what the client takes its user for is what the server knows.
- **Framing.** The stream cuts bytes anywhere; `peek` looks at the front chunk
  and `get` at all of them. Correct means: whole messages, in order.
- **Database.** Three programs may be at any step of a rewrite, or be stopped
  there. Correct means: the table changes by one whole operation at a time. A
  read of a fixed size ends anywhere in a row, an escape or a newline. Correct
  means: the rows that are read do not depend on it.
- **Base64.** One or two bytes are left over at the end. Correct means: what is
  encoded is decoded again.

The hazards are listed, each at its line and with the properties that are about
it, in `PROJECT.json`.

## Modules

| module | models | extends / instances |
|---|---|---|
| `Selector` | the select loop; the contract its users keep | |
| `TCPServer` | every handler of the server, with peers and other programs as environment | extends `Selector` |
| `TCPClient` | every handler of the client, with user, terminal and server as environment | extends `Selector` |
| `ClientServer` | one client, the server, and the connection between them | instances `TCPClient` twice (once as `TCPClientProofs`) and `TCPServer` (as `TCPServerProofs`) |
| `DynamicBuffer` | the buffer's operations as operators | |
| `ByteQueue` | abstract: one queue of bytes | |
| `ReadBuffer` | a buffer under any order of operations | extends `DynamicBuffer`, instances `ByteQueue` |
| `MessageChannel` | abstract: messages are handled in the order sent | |
| `MessageFraming` | one direction of a connection: encode, stream, buffer, loop of `onRead` | extends `DynamicBuffer`, instances `MessageChannel` |
| `PasswordTable` | abstract: a table that changes by whole operations | |
| `Database` | server and adduser on one file, by system call | instances `PasswordTable` |
| `Cutting` | pieces of one length, of which the last may be shorter: reads of a file, groups of base64 | |
| `RowFormat` | the parser and the writer of rows, by character, as operators | extends `Cutting` |
| `Base64` | `base64Encode` and `base64Decode` as operators | extends `Cutting` |
| `StoredText` | what both promise, of any table, name, size of a read and bytes | extends `RowFormat`, `Base64` |
| `SelectorProofs`, `TCPServerProofs`, `TCPClientProofs`, `ClientServerProofs`, `DatabaseProofs`, `BytesProofs` (`ReadBuffer` and `MessageFraming`), `StoredTextProofs` | proofs | extend the modules they are about |
| `SequenceLemmas` | lemmas about sequences, and about induction and recursion over their lengths | |
| `MCSelector`, `MCTCPServer`, `MCTCPClient`, `MCClientServer`, `MCDatabase` | small instances | |
| `MCBytes` | a small instance of each place where bytes are cut and joined | extends `MessageFraming`, `ReadBuffer`, `StoredText` |

How state and actions correspond to the code:

- `Selector`. A `Desc` is one `FD<T>` object, `num[d]` its number (`NoFd`: no
  open file). `possible` is the part of the snapshot the pass has still to
  handle, each number with the branch of `handleFileDescriptorReady` the fd_sets
  select. `Poll` is `pselect`; `AcceptFD`, `StartCallback`, `ReadFails`,
  `Write`, `WriteFails`, `WriteKills`, `ExceptFD` and `Skip` are what one call of
  `handleFileDescriptorReady` may do; `CallbackWrite`, `CallbackRemove` and
  `CallbackStop` are what a read callback may do, any number of times, before
  `EndCallback`. Bytes are abstracted to queued buffers. `polled` is a history
  variable. A write to a connection that was reset raises SIGPIPE, which nothing
  handles: `WriteKills`. `Stopping` is the set of objects whose closeHandler calls
  `stop` (the client's socket): `Destroy` is the destructor, run when the vector
  or the returning callback drops the last reference.
- `TCPServer`. Each of its actions is one of `Selector` together with what the
  handler does to the sessions, `passwd` and the log. `backlog`, `peer`, `sent`,
  `recvq` are the kernel's and the peers'. `ReadRequests` starts `onRead` with
  what has arrived (`inbuf`), each handler takes one request, `ReadDone` returns.
  `find`, `update` and `insert` need one or two descriptor numbers; `RowOf`,
  `PasswdUpdated` and `Logged` say what becomes of them when there are none.
  Hashes are abstracted to passwords, and the log to one sequence of rows per
  connection. Reads deliver whole messages here (framing has its own module), but
  for one case: `Part` stands for bytes of a message that a read has cut, and
  whatever follows them. A peer may send such parts for ever (`SendPart`), each makes
  the connection readable, and nothing comes of them (`PartKept`). What `pselect`
  reports as exceptional (urgent data of a peer) removes the connection (`Urgent`).
- `TCPClient`. `tty` holds the lines the terminal has for `read`, each with
  whether the echo was off when it was typed; `toServer`, `answers` and `inbox`
  are the requests on the way, what the server has queued, and what has arrived.
  There is one action per state of `handleUserInput` (one per kind of command in
  state `NONE`) and one per response. `setFDEcho` sets the echo and empties `tty`
  (TCSAFLUSH). `InputLost` is a read of stdin that brings nothing: the end of the
  input, or EAGAIN after a flush, which `defaultRead` does not tell apart. The
  server is any that answers as `src/TCPServer.cpp` may: `Answers` says what it
  queues for a request (a `DISPLAY_MESSAGE` before each response), what it knows
  of the user then (`srv`), and whether it removes the connection (`gone`), with
  which everything queued is lost. Three history variables: `awaiting`, a login
  request is under way; `patient`, every line so far was typed with nothing
  unread and no prompt to come; `exposed`, a password was sent that was typed
  with the echo on. Stdin is a terminal in its line mode: one line to a read.
- `ClientServer`. `TheClient` and `TheServer` are the two programs, `net` the
  requests between the client's `write` and the server's kernel. The steps of the
  two are those of their own modules; the rest is the connection: `Arrives`, and
  what each side sees when the other lets go of it (`ClientGone`, `AfterServer`).
  `AsSeen` is the client once more, with the server's session, write buffer and
  unhandled requests in the place of its environment: the refinement mapping of
  `ServerAsDescribed`. It and `TheServer` instance the modules with the proofs, which
  add theorems and no behaviour. A write takes all that is queued, there is always room for
  it, the user does not end the input, and `accept4` finds what it needs; the
  models of each program have these cases. Both programs may be interrupted.
- `MessageFraming`. A byte is the number of its message and its place in it.
  `Read(n)` cuts the stream at any place; `HandleMessage`, `Return` and
  `HeaderTorn` (the failed assertion of `Buffer::get`) are the outcomes of
  `peek` in the loop of `onRead`. `split` records that a read ended inside a
  message.
- `Database`. Files are inodes; `table` and `tmp` are what the names `passwd` and
  `passwd.tmp` refer to, `sealed` the files of mode 0444. One step is one system
  call, or the read of one chunk with the writes of its rows. Rows have one
  length. `Stopped` ends a process anywhere. The programs do not run as root, so
  the modes mean what they say. `overlapped` and `sameName` record that two
  rewrites, or two runs of adduser for one name, have overlapped.
- `RowFormat`. The state of `readFromFile` between two characters is a record,
  and `readFromFile` takes it through the characters of a piece and through the
  pieces of the file (`after[k]`: the reader after `k` of them). A row of more columns
  than the template has overruns the array in the code; the reader records that
  (`overrun`), and the property says that it does not happen to a table written as
  the reader wants it, with escapes. `writeToFile` writes none: what the programs
  write is such a table only while no column holds a backslash, a delimiter or a
  newline. (`server.log` may hold a user name from the network, tab included.)
  Characters without a meaning of their own are two letters.
- `Base64`. Characters are their indices in the alphabet; shifts and masks are
  divisions and remainders.
- `StoredText`. The variables are inputs (the size of a read, a table and its
  number of columns, bytes to encode) and never change. `EscapedRows` is the table
  as the reader wants it written, an encoder that the code does not have: of what
  the programs write, `RowsReadBack` and `FindsRow` speak for plain columns only.

## What is checked

| run | shows | bounds |
|---|---|---|
| `selector` | type, `NoStaleDispatch`, `OpenWhileRegistered`, `SnapshotRegistered`, and `StopIsHeard` | three connections for two numbers, so that numbers are reused within and between passes; one queued buffer each |
| `server_login` | `AttemptLimit`, `LoginRecorded`, `PasswordChangeAuthorised`, `DisconnectLogged` | one session, two users, two passwords, up to four pipelined requests of a login (three failures and one more), a `DISPLAY_MESSAGE` that nothing takes among them, in reads of any size, rows added and dropped at any time |
| `server_live` | `ReserveKept`; the server implements `SelectorSpec`; what was sent is read; the answers to a peer leave once it stops sending, whatever the other peer does; every closed connection gives its number back | two connections, numbers for one of them and one file; one whole request each and any number of parts, for ever |
| `client` | `EchoFollowsState`, `PasswordsHidden`, `TerminalKept` for a patient user; the client implements `SelectorSpec` | five lines of four kinds (a login and a whole change of password), typed at any time; the server may accept, refuse or close |
| `client_server` | `PromptsAgree`; the server is the environment the client's model assumes (`ServerAsDescribed`); `LoginProgresses`, `ClientEnds` | four lines of two kinds, one of them the only name and its password: a name and three wrong passwords |
| `bytes` | whole messages in order, and all handled unless a read ends inside one; the chunks are one queue of bytes (`BytesInOrder`), no empty chunk, right indices; rows of plain or escaped columns are read back (`RowsReadBack`) and the row of a name is found, or none if there is none (`FindsRow`), whatever the size of a read; `EncodedDecodes` | three messages, of a bare header and of a header and text, cut everywhere; six bytes in chunks of up to three; two rows of one or two columns, or one of three, in reads of one to five characters, and four names, the empty one among them and one the start of another; up to four of five bytes |
| `database` | `TableAtomic`, `SealedStays`, `AccountKept`, `OneAccount` | server and two runs of adduser, three operations, a row per read; four files (the model reaches the same states with six) |
| `server_stuck`, `server_starved`, `client_input`, `framing_stall`, `database_lost` | what the code does against what it says, see below | |

Why small bounds are enough: the loop's hazards need one number to be freed and
given out again between the snapshot and its use, so three connections on two
numbers; the attempt limit is three, so four requests; five lines
are a name, a password, `passwd` and its two answers; a cut of the stream
matters relative to the three bytes of a header and to the next message; a
rewrite has a partner to overlap with and a third operation to see the result; a
read of a file matters relative to an escape, a delimiter and a newline, which a
read of one to five characters meets in every order; base64 works on groups of
three bytes, so four bytes have a whole group and each remainder.

Deadlock is not checked for `bytes`, `framing_stall`, `database` and
`database_lost`: these stop when their bounded work is done.

**Fairness.** One thread runs the loop and its handlers never block, so
`SelectorFairness` asks weak fairness of each step that the thread itself takes:
handling the next number, returning from a callback, leaving the loop.
`ServerFairness` adds that the thread goes on handling a read's requests and that
`pselect` returns while something is readable, which is what it is for, that it goes
on reporting room for what is queued (the peer reads), and that `accept4` does not
fail for ever. Nothing is assumed of what peers send, of signals or of other
programs. `RepliesLeave` itself has a condition, that the peer of the connection
stops sending at some time; without it the property fails (`DataSent`, in
`server_starved`), because a connection is written to only in a pass in which it is
not readable.
`ClientFairness` is the same for the client, and adds that the server reads,
answers and closes what it has removed, and, strongly, that `pselect` reports
room for what is queued. `UserInputRead` fails even so. The liveness of the client
is checked where the server is the real one: `ClientServer` asks weak fairness of
the two programs and of the network, and nothing of the user or of signals.
`FairFramingSpec` asks that bytes that arrived are read and `onRead` goes on.
`Database` has safety properties only: a program may be stopped anywhere.

**What the code does against what it says** (findings):

- `server_stuck`: a client's `DISPLAY_MESSAGE` is not taken out of the buffer;
  `onRead` peeks at it for ever.
- `server_starved`: in `handleFileDescriptorReady` the write set is looked at in the
  `else` branch of the read set; a peer that is readable in every pass never gets the
  answers queued for it, though there is room for them.
- `client_input`: an answer that switches the echo flushes a line the same
  `pselect` has reported; the read of stdin then fails with EAGAIN, which counts
  as a closed connection, and stdin is removed. Nothing typed is read again.
- `framing_stall`: `Message::peek` compares the size with the front chunk only;
  a message that two reads bring in is never handled, nor anything after it.
  (A header that two reads bring in is worse: `peekHeader` reads the type beyond the
  front chunk, and the assertion of `Buffer::get` fails: `HeaderTorn`.)
- `database_lost`: a password change that overlaps `adduser` loses the row
  reported as added.

Three more things the models show, of which the repository promises nothing that
could be quoted against them: attempts that come in one read are still checked
after the third wrong password has removed the connection (the fourth is answered
with "-1 attempts remaining", and logged as a login if it is right), a write to a
connection whose peer has closed it and answered an earlier write with a reset ends
the process with SIGPIPE (`FlushKills`); and two runs of `adduser` for one name, which
both look before either has inserted its row, give the name two rows (`sameName`, which
`OneAccount` and its theorem leave out).

## What is proved

TLAPS proves, for all sets of descriptors, numbers, users, passwords, requests,
processes, files, chunks, sizes of messages and of reads, tables and bytes to encode, from the named assumptions on the constants
(`DescAssumption`, `FdNumAssumption`, `BurstAssumption`, `ServerAssumption`,
`ClientAssumption`, `ClientServerAssumption`, `DatabaseAssumption`,
`InitialAssumption`, `BoundAssumption`, `FramingAssumption`,
`CharacterAssumption`):

- `SelectorProofs`: `SelectorInv` is inductive, and with it
  `SelectorTypeCorrect`, `NoStaleDispatchHolds`, `OpenWhileRegisteredHolds` and
  `LookupsFind`. `NoStaleDispatch` alone is not inductive. That a number freed in
  a pass can be given out again without harm rests on four facts: an object is in
  the vector once (`RegisteredOnce`), open objects have different numbers
  (`NumbersUnique`), a number is in the snapshot once (`HandledOnce`), and each
  number left in it belongs to an object polled and still registered, or to the
  one whose callback runs (`SnapshotRegistered`, `CallbackHolds`). So a number is
  out of the snapshot before it can be free.
- `TCPServerProofs`: `ServerImplementsSelector` maps every step of the server to
  a step of the loop or a stutter, which carries the loop's invariant over.
  `ServerInv` adds the sessions: `AttemptLimitHolds` without any assumption on
  resources, `LoginRecordedHolds` and `PasswordChangeAuthorisedHolds` as long as
  descriptor numbers suffice for the files (`NumbersSuffice`, which two more numbers
  than descriptors are enough for: the lemma `CountSuffices`). `ReserveKeptHolds`: with
  two numbers or more the server never uses up the last one.
  `DisconnectLoggedHolds`, under `NumbersSuffice` too: appending rows adds up their
  events (`CountConcat`), and a handler may log a "disconnected" row exactly when it
  takes the connection out of the vector, where it is once (`RegisteredOnce`), so
  the balance of rows and registration survives requests that are handled after
  the removal (`AnswerBalanced`).
- `TCPClientProofs`, for any lines, any number of them, and any server that
  answers as described: `ClientImplementsSelector` carries the loop's invariant
  over, and `ClientInv` is inductive, in two parts. The first holds whatever the
  user types: types, the kernel's numbers, and what a callback may have read
  (`ClientTypeCorrect`). The second is about a patient user
  (`EchoFollowsStateHolds`, `PasswordsHiddenHolds`, `TerminalKeptHolds`). None of
  the three is inductive alone: an answer may arrive in any state the client
  could be in, unless it is known that there is one login message under way at
  most, a request or its answer, in any of the five places it may be, and that
  the client waits for it in the state it is an answer for (`OneLoginUnderWay`);
  that the line of a patient user is the only one, no answer is awaited beside it,
  and the echo is as it was when it was typed (`LineAlone`); and that what
  `pselect` reported on stdin is still there when its turn comes
  (`ReportedInput`). `PromptsFitHolds` is about any user: what the client prompts
  for fits what the server knows, because every answer under way says something
  that is so (`AnswersTrue`), and nothing the server does later makes it untrue.
- `ClientServerProofs`, for any lines, any number of them and any descriptor
  numbers: `ServerIsDescribed` is the refinement. Under the mapping of `AsSeen`
  the initial states map to the client's, and each step of the server, of the
  network, of the client and of its user maps to a step of `TCPClient` or to none
  (`StepSeen`): a request that arrives or is read was unhandled before and still is
  (`ArrivesSeen`, `ReadSeen`); a handler is the server's answer to the oldest
  request, and leaves or removes the connection as `Answers` has it
  (`HandlesSeen`, `OnReadSeen`); shutdown, a failure or the return from a callback
  that removed the connection is what the client sees as the server closing it
  (`ClosingSeen`). It needs an invariant (`ClientServerInv`): that of each program,
  and of the connection, that it is open exactly while the server's process is
  there and has it in the backlog or under a number, that one not accepted yet has
  a new session, that buffers are queued for registered connections only
  (`QueuedRegistered`) and that what was read is handled before the callback
  returns (`InbufHandled`). `PromptsAgreeHolds` and `ClientPromises` follow from
  what is proved of the client with any such server; the theorems of
  `TCPClientProofs` and `TCPServerProofs` are cited through the instances, and
  `ClientConstants` and `ServerConstants` show that their assumptions hold there.
- `DatabaseProofs`, for any table, any number of runs of adduser, any files and any
  size of a read. Types and what a process has open hold whatever overlaps
  (`FileInv`, `DatabaseTypeCorrect`). The rest is about updates that do not overlap
  (`UpdatesApart`): one process is inside `updateFile` then, the file with the
  temporary name is not the table, cannot be opened for reading before the rename
  and has no reader left, and it holds a copy of the rows read so far (`TmpHolds`).
  So what `rename` makes the table is the old one after one whole operation
  (`TableAtomicHolds`), and a file once readable is not written again
  (`SealedStaysHolds`). `AccountKeptHolds` adds that operations keep the names of
  rows. `OneAccountHolds` needs to know what a look that is long over still means:
  a name looked for in vain, in the part of a file that was read, is not in the
  table of now, although other programs have replaced the table since (`NameFree`),
  because the names of two runs of adduser differ (`NamesApart`).
- `BytesProofs`, for bytes in chunks of any size, and for messages and reads of any
  size: the chunks of a buffer are one queue of bytes (`BytesInOrderHolds`: each
  operation of `ReadBuffer` is one of `ByteQueue`), none of them is empty
  (`CleanedUpHolds`) and indices go through them (`IndexInOrderHolds`); the framing
  implements `MessageChannel` (`WholeMessagesInOrderHolds`), with
  `FramingTypeOKHolds` and `InFrameHolds`. All three rest on `FramingInv`, which is
  inductive: the bytes in the buffer and under way are the encodings of the messages
  sent and not handled, and what was handled is what was sent. So the front chunk
  starts with the header of the oldest of them (`FirstPending`), whatever the reads
  cut, and a message that the front chunk holds whole is that one (`HandleFrames`).
  What the loops over the chunks do to the run of bytes they stand for is in
  `AdvanceDrops`, `TransferredTakes` and `AtFinds`.
- `StoredTextProofs`, for any table, name, size of a read and bytes that satisfy
  `InputOK`. `RowsReadBackHolds` and `FindsRowHolds` have two parts. First, cutting
  does not matter (`StopsSomewhere`): `readFromFile` ends in the state that the
  characters of the whole text lead to at some place (`Reads`), which is the end of
  the text unless `op` has asked to stop. Second, at every place the state of the
  reader and what is left of the text determine each other (`InTable`, `InRow`,
  `InField`): some rows have been given to `op`, some columns of the next and some
  characters of its next field are collected, and a pending escape stands for the
  character after it; what is left is the rest of that field, of its row and of the
  table. `FieldStep`, `RowStep` and `TableStep` show that a character keeps this
  (`ReadsTable`). For `find` this leaves the row that `op` asked to stop at and a
  piece of a later one, which `LastRow` may take for a row: it has another name
  or, in a table of one column, is the row itself (`StoppedEarly`, `Enough`,
  `EnoughFinds`). A text without its last newline is the table one character short
  (`EnoughAtFront`). `EncodedDecodesHolds` goes group by group: `Pieces` cuts
  the bytes into groups of three and the text into the fours that were written
  (`PiecesProperties`, `GroupsOfText`, `TextInFours`), and each four is decoded to its
  group and zeros (`GroupDecodes`), by the arithmetic of the parts that a byte is
  divided into (`Parts`, `FirstByte`, `SecondByte`, `ThirdByte`).
- `SequenceLemmas`: what removing an element, appending, taking the tail, joining,
  cutting and splitting do to the range of a sequence and to its positions. The
  loops over chunks, pieces and characters are functions defined by recursion on a
  number. The library's theorems on induction and recursion take operators as
  parameters, which the provers cannot treat; the module states them with sets and
  functions in their place (`NatSetInduction`, `FunctionByRecursion`,
  `SameRecursion`), from the well-foundedness of `<`, and characterises
  `FlattenSeq` by what the first chunks join to (`FlattenIsPrefix`).

Only model-checked: liveness (`StopIsHeard`, `RequestsRead`, `RepliesLeave`,
`ClosedReleased`, `AllHandled`, `ClientEnds`, `LoginProgresses`), which the prover
cannot treat under fairness. Every invariant and action property that a run checks
is proved. `InputsAssumption` of `MCBytes` says that the inputs of the run `bytes`
are among those the theorems of `StoredTextProofs` are about.

## What is not modelled, and the plan

Not modelled: argon2 and the random salt (a library and a random device; hashes
are abstracted to passwords); a client whose stdin is not a terminal;
`singleSelectLoop`, `peekString`, `assertValid` (no caller); the error paths of
`bindSvr`, `connectTo` and of the mains, which end the program before there is
any state; write errors and full disks; message sizes beyond 16 bits, and headers that
give a size below three, which `encode` writes neither; urgent data to the client,
which the server never sends; descriptor numbers of `FD_SETSIZE` and more, which no
default limit allows. The client's closeHandlers close no file, so that its numbers
are in use until the process ends; `Selector` frees a number with its object, which
nobody can tell from that, since the client opens no descriptor in between
(`ClientGone` has the server see the end of the stream when the process ends).

`FileDesc`, `TCPConn` and `PasswdMgr` are in no target of `CMakeLists.txt` or
`Makefile.am`. The bodies of `PasswdMgr` and of the handlers of `TCPConn` are empty
placeholders, so there is no behaviour to translate; `Security` and `Database`
took their place. `strfuncts` is built, and none of its functions is called.

Next: the server composed with framing, so that a request's bytes may arrive in two
reads, and the log shared by all connections.
