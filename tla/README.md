# Verification of the cpe464 network programs

TLA+ specifications of the programs in this repository, checked with TLC and
proved about with TLAPS.  The repository holds three programs of a networking
course: a packet trace (`program1`), a TCP chat (`program2`) and a UDP file copy
(`program3`) that sends through an error injection library of the course.  All of
them are modelled: the processes and messages of chat and file copy, the framing of
the chat on byte streams, the bytes of every packet, the library, and the parsers
of the trace.

## 1. The system

| component | source | state | operations |
|---|---|---|---|
| handle table | `program2/handle.c` | array of (socket, name), `entry_count`, `table_size` | `create_table`, `add_entry`, `get_socket`, `get_handle` |
| poll set | `pollLib.c` (the same file in `program2` and `program3`) | array of `struct pollfd` indexed by descriptor, `maxFileDescriptor`, `currentPollSetSize` | `setupPollSet`, `addToPollSet`, `growPollSet`, `removeFromPollSet`, `pollCall` |
| chat server | `program2/server.c` | the two above, its open descriptors | accept, register, forward, broadcast, list, close |
| chat client | `program2/cclient.c` | its handle, its connection, what stdio has read ahead, the part of a text being filled | connect, register, read a line, cut it into PDUs, process what arrives |
| PDU framing, safe calls | `program2/PDU.c`, `safeUtil.c` | none of its own: the bytes in the connections, and what `recv` has of a PDU | `sendPDU`, `recvPDU`, `safeSend`, `safeRecv` |
| TCP and UDP set-up | `networks.c`, `gethostbyname.c` | none | listen, accept, connect, bind |
| rcopy client | `program3/rcopy.c` | arguments, last sequence number | connect, receive, acknowledge |
| rcopy server | `program3/server.c` | number of children; per child a window, a file, a poll set | receive, fork, send blocks, reap |
| rcopy packets | `program3/sendData.c` | none | build with checksum, verify |
| error injection | `program3/docs/libcpe464_2_21b` (course library) | per process: settings, seeds, lists of events, packet counters | load the environment, initialise, fork, drop or flip a packet, check what is received |
| checksum | `program1/src/checksum.c`, the library's `checksum.c` | none | `in_cksum` |
| packet trace | `program1/src/*.c` | the packet number | parse Ethernet, IP, TCP, UDP, ICMP, ARP |

How they interact in the chat:

- The server is a single thread around `pollCall(-1)`.  The answer decides between
  accepting (`addNewSocket`) and reading one PDU of one client (`processClient`).
  What it reads may add to the handle table, and may make it send any number of
  PDUs, each with a blocking `send`.
- A client is a single thread around the same `pollCall`, over standard input and
  its connection.  While it sends it does not receive.
- The handle table and the poll set are never told of each other: closing a client
  clears its poll set element and its descriptor, and leaves its table entry.
- Every failed system call ends the process (`exit` or SIGPIPE).

And in the file copy:

- The server's parent reads its UDP socket and forks a child per connect packet, up
  to eleven.  The children inherit the socket and read it too: whoever calls
  `recvfrom` next takes the first datagram, whoever it is from.
- A child answers, waits for a packet, and then sends every block of the file.  Its
  client answers each block with an RR and waits a second for the next.
- The end of a child raises SIGCHLD in the parent.  All sends go through the course
  library, which may drop a packet or invert a byte of it: at a client's as its argument
  says, at a child's, which asks for a rate of 0, when the environment says so.

What is hard in it, and what would be correct (the list with lines is under
`hazards` in `PROJECT.json`):

- *stale state*: descriptors are reused, table entries are not removed.  A message
  should reach only the client with that handle, and may go astray only once that
  client is gone;
- *partial failure*: one bad send of many ends the server in the middle of a
  handler; clients must at least learn of it;
- *interleaving and order*: PDUs of several clients meet in one server; the parts of
  a text must stay in order, a list must arrive whole;
- *boundaries*: the growth of two arrays and a 16-bit size;
- *liveness*: starvation in `pollCall`, blocking sends in both directions, clients
  that die before they are accepted, a child that waits for a packet somebody else
  took;
- *bytes apart from messages*: a PDU arrives in pieces, a line waits in a buffer that
  `poll` does not see, a text is cut at 199 bytes; nothing may be lost, doubled or
  put out of order on the way;
- *two machines, one packet*: lengths, numbers and checksums pass through `htons`,
  `ntohs`, bit fields and one byte positions, and the two ends must agree;
- *settings from two sides*: what a program asks of the library, what the environment
  overrides, and what a forked child inherits;
- *one socket, many readers*: a client of the file copy must get its own file, every
  block once and in order, although children take each other's packets.

## 2. The modules

    the chat
      Directory <- HandleTable <- Chat <- ChatProperties <- MCChat
                                          ChatProperties <- ChatProofs
                   HandleTable <- MCHandleTable, HandleTableProofs
      WatchSet  <- PollLoop    <- MCPollLoop, PollLoopProofs
                   PollSet     <- PollLoop, Chat
      PduQueue  <- Framing      <- MCFraming, FramingProofs
                   Segmentation <- Console <- MCConsole, ConsoleProofs
    the file copy
      Rcopy          <- MCRcopy, FileCopyProofs
      ErrorInjection <- MCErrorInjection, FileCopyProofs
      Checksum <- Packet <- MCPacket, ChecksumProofs
    the trace
      Checksum <- Frame <- Trace <- MCTrace, ChecksumProofs
    all
      CommonLemmas <- every module of proofs

(`A <- B`: B extends A, or, for `Directory`, `WatchSet` and `PduQueue`, implements
it.)  Two modules of proofs extend two specifications each, and so the names of
`ErrorInjection` and `Trace` that would clash are `LibrarySpec`, `LibraryInit` and
`LibraryNext`, and `TraceSpec` and `TraceInit`.  The modules divide each program by the question asked of it: which process does what
with which message (`Chat`, `Rcopy`), how messages travel as bytes (`Framing`,
`Segmentation`, `Packet`), and what surrounds a process (`Console`,
`ErrorInjection`).  The layers rest on each other: `Chat` has connections that carry
whole PDUs in order, which is what `Framing` shows; `Rcopy` has packets that are
dropped or have a byte flipped, which are the outcomes `ErrorInjection` has; that
nobody tells a flipped packet from another is because both programs drop the verdict
that `Packet` shows to be right.

### The handle table and the poll set

`HandleTable` is `handle.c`.  `create_table` is its initial state; `add_entry` is
two actions, `add_refused` (a name is found, the answer is 2) and `add_stored`
(grow if full, write, answer 0); the lookups are the operators `get_socket` and
`get_handle`, "first hit in index order".  Handles are strings in an abstract set.
`add_entry` compares up to a NUL and then copies a given number of bytes into
memory that was not cleared, so the string it compares and the string it stores may
differ: an operation takes the pair, and the constant `Readings` says which pairs
callers can pass.  `CleanNames` are the names that are stored only by pairs whose two
parts agree; properties about names are about those.  `table_size` has the width of the code (`Modulus`).  After a write
outside the allocation (`overrun`) nothing is defined and the model stops.

`Directory` is what the table promises: a partial function from handles to sockets
in which a bound handle keeps its socket.  `ImplementsDirectory` maps a table to
the function its `get_socket` computes.

`PollSet` is `pollLib.c`, element for element.  An unused element holds descriptor
0 and asks for no event; poll(2) reports errors and hang-ups of it all the same.
`PollLoop` is the loop of the server around it, with input arriving at any time and
standard input hanging up at most once.  `WatchSet` is the promise: `pollCall`
answers with a descriptor that is watched at that moment, or with none.

### The chat

`Chat` is server, clients and connections together, with one instance each of
`HandleTable` and `PollSet`.  Correspondence:

| action | code |
|---|---|
| `ServerStart`, `addNewSocket`, `AcceptFails` | `server.c` `main`, `serverControl`, `addNewSocket`; `networks.c` `tcpAccept` and its `exit` |
| `Register` | `processClient`, flag 1: `add_entry`, whose answer is dropped |
| `processClient` | flags 4, 5, 6, 10: `messageBroadcast` (falling through into `messageSend`), `messageSend`, `listSend` compute the sends of the handler |
| `ServerSend`, `SendFails` | one `sendPDU`/`safeSend` of that handler: it blocks while the connection is full; it fails on descriptor 0, on a closed descriptor, and on a connection that was reset, and the process ends |
| `ClientClosed` | `recvPDU` returned 0: `removeFromPollSet`, `close` |
| `tcpClientSetup`, `setHandle` | `cclient.c` `main` up to its loop; a connect before the server listens, or after its end, is refused |
| `StdinStaysReady` | `clientControl`, with descriptor 0 ready whenever it polls |
| `processStdin`, `ClientSend` | one line typed, and the PDUs it becomes, sent one by one |
| `processMsgFromServer`, `ServerTerminated` | a PDU arrived; `recvPDU` returned 0 |
| `Quit`, `Reset` | a client is killed; its kernel answers later data with a reset |

A handler's sends are computed when the handler starts and sent step by step
(`todo`).  That is exact: they depend on the PDU and on the handle table, and no
other thread changes the table.  The same holds for a client's line (`outgoing`).
`setHandle` sends a length it never assigned: `Registrations` lists the outcomes
(nothing arrives, the handle arrives clean, leftover bytes arrive).  `received`,
`registrant` and `refused` are history variables that properties read and no guard
does.

A broadcast is forwarded as `Shortened` leaves it, without its last two bytes
(`server.c:127`), which its field `lost` counts; a client does with it what it does with
any other, and what its user reads of it is `Segmentation`'s question.  A client in
`MayGoDeaf` may at any time find descriptor 0 ready for good (`StdinStaysReady`): its
input is a file or a pipe at its end, or is fed without pause, and `pollCall` answers
with the lowest ready descriptor.  From then on it has no step but to send what it has
begun.

`Framing` is `PDU.c` and `safeUtil.c` on byte streams: any number of senders, one
receiver that polls them, connections with a capacity in bytes.

| action | code |
|---|---|
| `sendPDU`, `Transmit` | `sendPDU`: a length in two bytes, then the payload, in one `send` that blocks until all is copied |
| `Killed`, `Reset`, `CutOff` | the sender ends at any byte; with a reset the end of what it sent is lost too; the other end is gone |
| `pollCall`, `recv` | the receiver picks the lowest connection with input; `recv` with `MSG_WAITALL` goes on until it has all or the sender is gone |
| `AfterHeader` | `recvPDU` after its first `recv`: end, length too long, or on to the payload |
| `AfterPayload` | its result is returned, and handed on although it may be short |

Of a header of which one byte came, the other is what the stack held: `Headers` has
every outcome.  `PduQueue` is the promise: from each sender, PDU by PDU and in
order, with at most one torn at its end.  `UInt8` is the number of values of a byte,
so that the high byte of a length is in use with short payloads.

`Segmentation` is a line on its way into PDUs: `messageSend` and `sendBroadcast` of
the client as `messageSend(l)`, `CopyHandle`, `EndOfHeader`, `CopyByte` (one byte of text;
a full buffer is sent and only its header kept) and `SendRest`; and, as operators,
what the server forwards of a broadcast (`messageBroadcast`), and how the server
(`RecipientsOf`) and the receiving client (`TextOf`) find their way in one part, with
positions of one byte.  Both copy handles into arrays of 100 bytes: what longer ones do is
undefined, and the properties are about handles that fit (`HandlesFit`).  A line is the result of the parsing:
flag, handles and text.  A handle is followed by a space and a line fits
`inputBuffer`.

`Console` puts a client around it, between its user and its server.

| action | code |
|---|---|
| `Type`, `EndInput` | lines reach the kernel; the end of file |
| `FromKernel`, `FromBuffer` | `readFromStdin` through `getchar`: one `read`, which takes a line of a terminal and all there is of a pipe; or what stdio has left from the last one |
| `AtEnd` | `getchar` returns EOF, 1023 times a line; the end of file of a stdio stream is sticky |
| `Process` | `processStdin`: a command, or a warning |
| `processMsgFromServer`, `ServerTerminated` | the socket is served, if descriptor 0 is not readable, which is lower |

### The file copy

`Rcopy` is clients, parent, children, and a queue per socket.

| action | code |
|---|---|
| `connectBuf`, `Timeout`, `talkToServer` | `rcopy.c`: the connect packet; a second of silence ends the loop; one round of the loop |
| `CrashOnFirst` | the first round reads the checksum through `udpHeader`, which is set only later |
| `processClient` | `server.c`, the parent: take a datagram, fork on flag 8 while `pidCount <= 10` |
| `handleZombies`, `gracefulClosing` | SIGCHLD, SIGINT |
| `handleSend` | a child up to its loop: the window, the file, the answer |
| `PollReady`, `PollTimeout`, `Recv` | `pollCall(1000)` and the `recvfrom` after it, two steps with other processes between them |
| `SendBlock`, `EndOfFile` | the inner loop around `fread` |
| `Crash` | every point of `handleSend` where memory it does not own is read or written |

`SentByLibrary` and `errorFlipBits` are what the course library does to a send: of a
client in `Faulty`, and of every child if `ServerFaulty`.  A flipped byte may be the flag
(the packet then has a flag nobody knows), one that the receiver acts on (`garbled`), or
one nobody looks at.  Neither program heeds `verifyData`.  A garbled connect names no file,
another client's or one that nobody asked for, or has another window or block size
(`NewChild`); a garbled block is acknowledged under the number that arrived, so the RR is
garbled too.  A child that is to be forked may not be, when fork fails or the limit is
passed.  `misread`, `firstTaken` and `received` are history.  The block size is left out:
blocks are counted.

`Packet` is one transfer byte by byte, between machines of any two byte orders.

| action | code |
|---|---|
| `connectBuf`, `processClient` | the request is built, and taken apart by the server's parent |
| `handleSend_open` | the child's answer, GOOD FILE or BAD FILE with flag 9 |
| `handleSend` | a block, sent with `sendData` |
| `talkToServer` | rcopy receives an answer or a block, and acknowledges a block.  It verifies the first packet through a pointer that is not set yet (`udpHeader`) |
| `Arrive` | an RR waits in the server's socket |
| `handleSend_RR`, `handleSend_other` | a round of the child's loop, which receives an RR or a packet of another rcopy |
| `processClient_RR` | another process of the server takes the RR |
| `Flip` | a byte of what is under way is inverted |

The child reads flag and number before `recvfrom`, and the flag through a pointer that is
never set (`server.c:232-247`).  So `NextRound` says that the number is taken or not,
whatever the packet is, and that it is the one in `held`, which is what the round before
has received, and the request in the first.  Every receive records what `verifyData`
returns, where it is called, and what the library would report.  One packet is under way
at a time, behind those in the server's socket, and none is lost.  A transfer under a
request that a flip has changed is not followed beyond the child's answer, nor one past
the window, where the child writes outside its table.  The library runs one event on a
packet, so a packet is flipped once at most.

`Checksum` holds `in_cksum`, with the accumulator and the two folds of the code, and the
definition of RFC 1071 beside it, which shares nothing with it but how two bytes make a
word: one's complement additions (`OnesSum`) over the packet, padded to an even length.
`in_cksum` depends on the byte order of the machine, which is a parameter.

`ErrorInjection` is the library.

| definition | code |
|---|---|
| `Loaded`, `loadEnvData_...` | the constructors of `PacketManager` and `SettingsManager`: each variable is parsed and turned into standard events (always run) or random ones |
| `setUserMode_...`, `addMsgEvent_Standard` | what `sendErr_init` asks for, unless the environment says otherwise |
| `sendErr_init`, `forkMod` | `network-hooks.c`; a forked process gets a copy of everything |
| `sendtoErr` | `sendtoErr`, `runMsgEvents`, `processEvents`: the fate of a packet |

A rate matters by whether `drand48()` can be, must be or cannot be at most it; the
value 0 exactly, once in 2^48 calls, is left out.

### The trace

`Trace` is `program1`: a parser per header, as an operator that gives the record of
what it prints, each at the offsets of its struct and handing on what is behind its
header.  A checksum that runs past the packet may come out either way, so
`get_eth_info` gives a set of reports.  The program is the one built for a
little-endian machine, which is how its bit fields lie in a byte.  The names of ports are
the program's own (it has FTP at 20, which IANA has for its data).  `Frame` is
the reference: frames as the RFCs lay them out, from a description (`IsFrame` says which
descriptions there are: fields of the widths the RFCs give them, a total length that
fits two bytes).  No definition of `Frame` is taken from the program.

## 3. The runs

| run | question | bounds | states |
|---|---|---|---|
| `HandleTable` | does the table stay in its memory, is it a directory, do clean names stay unique and route back | growths of the array from 2 to 5 and 11 | 8 400 |
| `PollLoop` | is the array consistent and the loop correct under reuse and growth; who starves | descriptors 3 to 6 in an array that starts with 4 | 400 |
| `ChatReuse` | reuse of descriptors under a killed client; who is found under the handle in the table, with leftover bytes in registrations | 3 clients, 2 of one handle, 2 descriptors, a message each, to one or to both | 387 000 |
| `ChatOrder` | order and wholeness of what arrives; what ends the server | 2 clients, 2 lines each, a text in two parts, a broadcast that spells a handle, list | 1 510 000 |
| `ChatLive` | liveness, with connections that hold one PDU; a registration may not arrive | 2 clients, a line each, up to four parts long, one may be killed, one go deaf | 51 000 |
| `Framing` | do PDUs survive bytes, ends and resets; who waits for whom | 2 senders, 2 PDUs each of 2 to 4 bytes, connections of 3 bytes | 96 000 |
| `Console` | what becomes of lines at a terminal and in a pipe; what reaches the readers | 3 lines of 6 kinds, parts of 9 bytes, handles of 2 bytes fit and of 3 do not, a PDU from the server | 418 000 |
| `Rcopy` | who gets which packet of the shared socket; who ends | 2 clients and 2 children, all with errors, files of 2 and 1 blocks, a window of 1 | 147 000 |
| `Packet` | do packets mean the same at both ends; which checks notice a flip | every pair of byte orders, 14 requests, 2 files, one flip, 2 packets of others | 829 000 |
| `ErrorInjection` | which packets are hit under which settings | 270 environments, a root and 2 children, 3 packets each | 64 000 |
| `Trace` | is what is printed what was sent | captures of 2 packets, some 230 reports for each | 54 000 |
| `RcopyZombies` | does the service outlive a transfer (it does not) | one client, no errors | stops at the violation |

Why these are enough:

- The chat's state is per client and per descriptor, and every property relates at most
  two clients and one descriptor that changes hands; three clients on two descriptors
  are the smallest case in which a reuse happens, a descriptor runs out, and a third
  party watches.  A text in two parts is the smallest that can be torn, one in four is
  longer than two connections that hold one PDU each, which is what a standoff takes.
- The table passes through both a first and a second growth, after which the same step
  repeats.
- In `Framing` the connection is shorter than the longest PDU and longer than a header,
  so a PDU may be cut in the header, behind it and in the payload; the second PDU shows
  what happens after a cut; the second sender waits for the first.  Bytes have four
  values, so the length of the longest PDU has a high byte that is not 0, and behind a
  header cut in two a stale byte makes it anything from 0 to too long.
- In `Console` a buffer of 10 with parts of 9 stands for 200 and 199: a text takes two
  parts, ends exactly with a part, or is cut at every byte; the headers leave room for
  some bytes or for one, or do not fit the buffer themselves; a handle does not fit its
  readers' arrays; a broadcast ends in a part of which the server forwards only the header,
  or has no text.  With three lines the stdio buffer holds two while one is worked on.
- In `Rcopy` two children are the fewest that can take each other's packets, with the
  parent as a third reader, and each can open the other's file when its connect is
  flipped; a fork that fails leaves a client without a child, as the limit would.  One file
  is longer than the window and one fits it; a flipped connect may also ask for a file of
  no block or find none.  Three clients and more are left to the proofs, which are for any
  number of clients, children and blocks; what a child does past the window, or without a
  file, is to go on or to crash.
- In `Packet` blocks are of odd and even length and shorter and longer than what rcopy
  has room for, a file ends inside a block, a block's sum carries twice, and a window
  has a high byte that is not 0.  Two packets of others are one before the first RR, which
  sets the child going, and one between two RRs.
- In `ErrorInjection` message numbers are taken modulo 3, so that they wrap in three
  packets; lists are empty, plain, switched off with -1, broken off, and beyond the
  width of a message number.
- In `Trace` IP and TCP headers have options and none, segments have odd and even
  length, Ethernet has padded them or not, and every checksum is met intact and damaged.

What is independent of such bounds is proved where section 4 says so; that includes
the types of `HandleTable`, `PollLoop`, `Rcopy` and `Framing`, which no run repeats.

Several properties are conjunctions of named parts that answer one question:
`PartsCarryTheText`, `OnlyStoppedOrBusyHoldUp`, `ChecksTell`, `EndsAgree`,
`ListIsHonoured`, `ChecksumsRight` and `OnlyClientsHoldUp`.

### What the runs show of the code

Most of the properties say that the code does what it should.  Some give the exact
extent of a defect, so that a change of the code in either direction is noticed:

- `ServerExitHasCause`: with everybody present, the server ends only when a
  message names nobody.  A broadcast with a text does: it falls through into
  `messageSend`, which reads handles out of the text; `get_socket` answers 0 and the send
  on descriptor 0 ends the process.  `%M` to an unknown handle does the same.
- `MisdeliveredOnlyAfterDeparture`: a client that gets the descriptor of a departed one
  receives its messages; nothing else goes astray.  For the same reason a list counts
  departed clients as online and repeats the departed name in place of the present one.
- `TerminatedOnlyUnregistered`: a registration that arrives with length 0 reads as an end
  of file; the client is told that the server has terminated.  Nobody else is told so
  wrongly.
- `RegisteredIsReachable`: a client whose own registration ran into leftover bytes may
  have the name of an entry before it, and is then never found.  A client whose handle is
  taken is not in the table and never told of it.
- `OnlyClientsHoldUp`: a handler is left unfinished only by `Standoff`, server and client
  blocked in sends to each other for good, or `WaitsForDeaf`, a send to a client that
  does not look at the server any more; a departure or a message besides only while
  clients of lower descriptors keep the server busy (`Starved`, whose extent is
  `StarvedOnlyByLower`).
- `ClientsLearnOfExit`: a deaf client never learns that the server has gone.
- `SpinsAfterHangUp`: after a hang-up of the server's standard input every `pollCall`
  answers 0, for which the loop has no branch.
- `OnlyStoppedOrBusyHoldUp` (`ReceiveEnds`, `SentIsDelivered`): a client stopped in the middle of a PDU stops the
  service for all, and one of a lower descriptor that does not pause stops it for those
  above (`Overtaken`).  `ImplementsPduQueue`: a PDU cut off by the end of its sender is
  handed on as if it were whole.  `AliveIsNotClosed`: one stale byte of a header is the
  only thing that makes the receiver exit.
- `DeafAfterEnd`: a client whose input is a pipe at its end hears nothing of the server
  any more.  `TypedIsProcessed`: lines of a burst in a pipe may wait in stdio for more.
- In `PartsCarryTheText`, `StaysInBuffer`: handles of a hundred bytes leave no room for the text, which is then
  written behind the buffer.  `PartsStandAlone`, `TerminatedOnlyAtEnd`:
  all parts of a message but the last, and all of a broadcast, are printed with what the
  receiver's buffer holds behind them; those of a broadcast lack their last two bytes.
- `KeepsToItsClient`, `AcksFollowData`: a client gets another's file when its connect was
  flipped, and an RR may acknowledge what was never sent when the block's number was; in
  no other way.
- `FirstPacketIsForeign`: a child waits for a packet before its first block and its
  client waits for a block, so a client that is alone never gets data; what starts a
  transfer is a packet taken from somebody else.  `ChildrenEndOrHang` names the one way a
  child does not end, a `recvfrom` whose packet was taken.
- `ChecksTell`: `VerdictTellsFlips`, between machines of one byte order `verifyData` is exact; between
  different ones it rejects nearly everything, which goes unnoticed as both programs drop
  its result.  `LibraryMisreports`: the library calls every packet of a little-endian
  sender corrupted unless the two bytes of its checksum are equal.
- In `EndsAgree`, `RequestArrives`: the name in a request ends at the high byte of the window, so the
  request arrives if and only if the window is below 2^24.  `BlocksArrive`: the last block
  of a file goes out at full length, with whatever memory held.  `NumbersComeBack`: an RR
  has the right number, and the child has at best the number of the RR before; the last
  one is never looked at.  It acts on none of them.
- In `ListIsHonoured`, `ReportLeavesOutListed`: the library's final count leaves out the packets it dropped by
  list.  Lists in `CPE464_OVERRIDE_ERR_FLIP`, which `SettingsManager.h` describes, are
  read and have no effect except that nothing is flipped.
- In `ChecksumsRight`, `CoversTheSegment`: a packet captured before the card filled in its length gives a TCP
  length near 2^16, and the checksum runs that far past the packet.
- Not a run, but a fact of the model: with its 16-bit size the table grows 2, 5, 11,
  ..., 49151 and then to 32767.  `DoublingFits`, the assumption of `NeverOverrun`, is
  where that shows.

One run shows the code at odds with its comment: in `RcopyZombies` the signal handler
that "cleans up terminated processes" ends the server with the first of them; the
finding is in `PROJECT.json`.  Two more disagreements need no run of their own:

- `cclient.c:16-18` promises that a broadcast is sent, and `server.c:127` takes two bytes
  off its end, as `PartsCarryTheText` states;
- the comment in the library's `checksum.c` (lines 37-41) says that the length must be
  even, and that with an odd one the function goes "off the end of your data by one byte"
  unless the byte behind is zeroed.  The function, there as in `program1`, leaves its loop
  with the odd byte to go and adds that byte alone.  `ChecksumRight` holds of odd lengths,
  whatever follows the packet.

### Fairness

`FairSpec` of `Chat` assumes that the server process is scheduled (weak fairness of
`Server`), that each client process is (`ClientStep`), and that a dead client's kernel
answers data (`Reset`).  The server's steps are one thread's, and one is enabled
whenever it is not blocked, so weak fairness of their disjunction is what a scheduler
gives; the same holds for a client.  That a client gets to its connection takes more, that
its user pauses: `ClientStep` of one whose input is always ready, "deaf", is only to send
what it has begun.  Nothing is assumed of users: they need not
type, quit or reconnect.  `PollLoop` assumes the server is scheduled, and nothing of its
clients.

`FairSpec` of `Framing` assumes that the receiver runs and that a `send` under way goes
on in every sender that is not in `Stopped`; nobody has to send, and a sender that may be
stopped (SIGSTOP, or a machine gone without a word) is owed nothing.  That of `Console`
assumes that the client is scheduled, and nothing of user and server.

`FairSpec` of `Rcopy` assumes that the parent runs (`processClient`) and gets its
signal (`handleZombies`), that every child is scheduled, and that every client is.
Nothing is assumed of the network, of users or of SIGINT.  A timeout happens only on
an empty queue; a client that keeps getting packets must therefore use them up, and
does, because children send finitely many.

Deadlock is checked where the system may only wait: in `ChatReuse`, `ChatOrder`,
`Rcopy`, `HandleTable` and `PollLoop`.  The one state of `Chat` and `Rcopy` in which
nothing may happen is `Waiting`, when every live process is blocked for input and
none has any.  It is not checked in `ChatLive`, where a standoff, or a send to a deaf client, is a real
deadlock that the liveness properties name; in `Framing`, which may stop with a stopped sender, or when the receiver
has exited; in `Console`, after the client's exit; and in
`Packet`, `ErrorInjection` and `Trace`, which end with their bounds.

## 4. The proofs

All theorems hold for every value of the constants that meets the named assumptions,
which TLC evaluates in every run:

- `HandleTableAssumption`, `PollSetAssumption`, `LoopAssumption`: sockets and descriptors
  are natural numbers, 0 is not one of them (it is standard input, which both programs
  keep open), the listening socket, the first to be opened, is the lowest;
- `ChatAssumption`: the same, and that there are finitely many clients and descriptors (a
  process has 1024); that the size of the handle table does not wrap for the clients
  there are (twice their number fits its 16 bits); and that a line is a list request, or a
  message with a flag the client sends, its recipients and its parts;
- `FramingAssumption`: payloads are bytes, the buffer is shorter than the largest length
  two bytes hold, and a payload with its header fits it, as no program calls `sendPDU`
  with more than its own buffer holds;
- `SegmentationAssumption`: the client's own handle fits its array and leaves room in the
  buffer (100 characters of 200 at most), lengths fit their byte, a broadcast has no recipients, a
  message has at least its text's terminator, and no other byte of a text is 0 (a
  broadcast of nothing has not even that);
- `ConsoleAssumption`: input is a terminal or a pipe, and the end of file and the line that is
  no command are not commands;
- `EnvironmentAssumption`: what `EnvironmentType` allows in the environment, and that the
  markers for "unset" and "not a number" are neither numbers nor lists;
- `RcopyAssumption`: file sizes and windows are natural numbers;
- `PacketAssumption`: a name is shorter than `NameSize`, which is at most 256 as the server
  counts a name's length in a byte, and holds no byte 0; the window is an `int`; a block
  with its header fits a datagram, 65527 bytes, or `sendto` would refuse it; a file and
  the memory behind it hold bytes;
- `FramesAssumption`: frames are what `IsFrame` allows.

`HandleTableProofs`

- `TypeCorrect`.
- `UniqueNames`: a name in `CleanNames` never repeats, whatever else is registered.
  Inductive by itself with types: `add_stored` requires that `get_socket` finds
  nothing, and a name in the table is always found (`SocketOfName`, for which
  sockets must not be 0).
- `NeverOverrun`: if twice `MaxEntries` fits the size type, no write leaves the
  allocation.  "The count is within the size" is not inductive: the size might wrap.
  The invariant adds that the size stays within a bound in terms of the number of
  entries that made it grow.
- `TableImplementsDirectory`: without any assumption on the bytes.  A new entry with
  an old name binds nothing, as the scan stops earlier (`AppendKeepsFirst`); one with a
  new name binds it (`LookupStable`).
- `HandleStable`, `ListedRoutesBack`: the name listed for a socket never changes
  and, if it is in `CleanNames`, leads back to it.

`PollLoopProofs`

- The inductive invariant `IInv` is types, the consistency of the array, that
  handled descriptors are watched, and that watched descriptors are the caller's.  The
  second needs the third: a removal must hit an element that exists.
- `TypeCorrect`, `ArrayStaysConsistent`, `HandledIsOpen`.
- `LoopImplementsWatchSet`: every step of the loop is a step of `WatchSet`.
- `SpinsForGood`, which is `SpinsAfterHangUp`: element 0 holds descriptor 0 and is below
  `maxFileDescriptor` as soon as anything is watched, so it is the least one reported
  (`HungUpResult`), and the loop's answer to 0 changes nothing.

`FileCopyProofs`, first half: `Rcopy`, for every set of clients, files, windows and faulty
clients

- `IInv` adds to the types: `OneChild` (no two children serve one client, and each reads
  the file of its own unless the connect was flipped), `OneWord` (until a child of its own
  has sent a block, a client has put at most its connect packet on the wire), `FirstTaken`
  (`FirstPacketIsForeign`, for children that have taken a packet), `BoxInOrder` and
  `ReceivedInOrder` (what is queued for a client, and what it has got, is in order and below
  what its child has sent, by the numbers the child gave, whatever became of them on the
  way).
- `TypeCorrect` needs no more than types.
- `LoneClientGetsNothing`: by `OneWord`, the connect packet was taken by the parent
  when it forked, and so a child can only find packets of others.
- `ClientsKeptApart`: a child only ever sends to the client it was forked for, and by
  `OneChild` nobody else does, so the order of its sends is that of the queue.
- `AcksAreEarned`: an RR repeats a number the client took off its queue, and is intact only
  if that was.
- The steps that move packets are lemmas of their own (`ConnectStep`, `ForkStep`,
  `RecvStep`, `SendStep`, `DataStep`); `Quiet` covers the rest.

`FramingProofs`

- `IInv` adds to the types what the bytes of each connection are (`Carried`: what the
  receiver has of the PDU it is in, what is on the wire and what `send` has not copied make
  up the PDUs sent and not delivered, cut only at the end of a sender that is gone), that
  nothing follows a torn PDU, and why a connection may be closed or the receiver have
  exited.  The header is taken apart and put together again by `div` and `%`, for every
  `UInt8`.
- `TypeCorrect`; `AliveStaysOpen`, which is `AliveIsNotClosed`.
- `FramingImplementsPduQueue`: a step that hands a PDU on is a step of `PduQueue`, every
  other one a stutter.

`ChatProofs`

- The inductive invariant `IInv` is four parts.  `Types`: every PDU on its way, in both
  directions, in a handler and in a line, is one that the programs send.  `Connections`:
  what is watched is what is open; a client's connection waits in the backlog once, then
  has one descriptor, then is closed for good.  `Introductions`: a client
  sends one registration, before anything else, so it is in its queue or the server has
  answered it.  `Registrants`: a registrant is behind its entry's descriptor until that
  descriptor is closed.  None is inductive without the others: that an accepted client is
  new needs the queue to be its own, and an entry that it is made once needs the
  registration to be sent once.
- `TypeCorrect`, `WatchesOpen`, `AnsweredIsNotTerminated` are parts of it or follow at once.
- `RegisteredReachable` is for all `Registrations`.  With leftover bytes two entries may
  get one name, and the first takes the messages of the second.  `CleanNamesOnly`, which
  follows how each registration travels, says that no two entries share a name but one
  that leftover bytes can make.

The second half of the module is about what reaches a client.

- `NotMisdelivered`: `Delivered` says of every message on its way or received that it was
  due to the client or that client's entry is of one that has gone.  It is stable because a
  registrant, once gone, does not come back, and entries are never removed.
- `ExitHasCause`: the server exits when accept or a send fails, and `Addressed` says where a
  pending send goes: to an open descriptor, to a client that has gone, or to nobody.
- `WholeLists`: `ListsWhole` says that a header in a client's stream, or in the handler's
  sends, is followed by what belongs to it.  A list is computed at once and all of it goes
  to one descriptor, so nothing can be put between; a descriptor is not reused before the
  handler is done.
- `OrderKept`: along `Places(c, d)`, five queues from the receiving client back to the
  sending one (what `c` has received, what is on its way to it, the handler's sends, what
  is on its way from `d`, the rest of `d`'s line), the messages of `d` are in the order they
  were typed (`Ordered`), and all have numbers below the next (`Numbers`).  The proof has one
  lemma per kind of change: a PDU moves from one queue to the next (`MoveKeepsOrder`), is
  taken and becomes many (`ForwardKeepsOrder`), is lost (`LossKeepsOrder`), or is new
  (`NewKeepsOrder`, `PutKeepsOrder`).  That a reused descriptor brings no old PDU to a new
  client is in `Connections`.

`ConsoleProofs`

- `SegmentationIInv` says what a header is (`Headed`: there are places for the handles, each
  behind the one before, its length first), that what is written behind it is the text from
  where the parts so far have reached (`Carries`, `Reached`), and the same of each part
  (`Sound`).  It is not about `HeaderFits`: lines whose handles overflow the buffer
  keep it too, only their parts do not lie in the buffer.
- `TextIsCarried` takes the four conjuncts of `PartsCarryTheText` one by one; a part of a
  broadcast is read without its last two bytes, and as the terminator is the last of a text
  and there is none before it, without a terminator.  For
  `PartsStandAlone` the recursion of `readerLocation` is shown to have one solution
  (`ReaderIsUnique`, by the least place where two would differ), and the places of the header,
  two bytes on, to be one; no position wraps, as a header that fits ends below `UInt8`.
- `ConsoleImplementsSegmentation`: what the loop does is, for the sender of lines, a line it
  is given, a step of its own or a stutter.  That a line taken from a queue is one that was
  typed needs the console's types.  `ClientTextIsCarried` follows from the two.
- `LinesKeepOrder`: the end of file is in the kernel's queue once at most (`OneEndOfFile`), so
  `LinesIn` of a queue that grows or loses its head is what it was with a line more or less
  (`LinesOfTyped`, `LinesOfEnd`, `LinesOfTail`), and one read splits it (`ReadKeeps`).
- `DeafFromThen`, which is `DeafAfterEnd`: at the end getchar has nothing left and
  no line is being sent (`NothingAfterEnd`), so the loop can only meet the end again.

`FileCopyProofs`, second half: the library, for every environment

- `LibraryInv` adds to the types: `Roles` (a program that forks never initialises its root, one
  that does not is one process; nothing is sent before `sendErr_init`), `Settings` (what each
  process has is what the environment asks for, until it is initialised, and what
  `setUserMode_...` makes of that afterwards), `Seeds` (the root's next seed counts the
  processes, a child's is its place), `Numbered` (a packet's number is its place modulo the
  width) and `Reported`.
- `SeedsKeptApart` follows from `Seeds`: a child's seed is `RANDOM_SEED` and its place,
  whenever it initialises the library.
- `EnvironmentWon` follows from `Settings`; that no error is twice in the list is a case
  for each of the two lists (`AskedOnce`).
- `ListHonoured`: the list's event is before the count in the standard events
  (`ListDecides`), and a packet more adds one to the unlisted ones or none
  (`OneMoreUnlisted`).

`ChecksumProofs`, first part: `in_cksum`

- The sum after each word of a packet is shown to exist and to be the one before and a
  word more (`SumAfterIs`, `SumIs`); all that is said of sums goes by `UpTo`, induction over
  the set of the numbers for which something holds.  A sum is bounded by the length
  (`SumRange`), so it stays below 2^31 in a datagram (`DatagramSum`) and the accumulator does
  not overflow; changing a byte changes it by that byte's share of its word (`SumChange`);
  exchanging the bytes of every word multiplies it by 256 modulo 65535 (`SumTurned`).
- `CksumIs`: the two folds leave the residue of the sum modulo 65535.  `ResidueIs` and
  `ResidueOnly` say that a number from 1 to 65535 that differs from the sum by a multiple of
  65535 is that residue, and is the only one.  The one's complement sum of RFC 1071 is
  shown to be that residue too (`OnesSumIs`, `OnesSumAfterIs`), for odd lengths with the
  byte 0 that the definition adds (`PaddedSum`): `InternetIs`.
- `CksumTurned`: a machine of the other byte order gets the number with its bytes exchanged.
  `CksumOfInverted`: no byte can be inverted without changing the checksum, as its share
  changes by less than 65535 and not by 0.  `FullWithChecksum`: a packet whose sum is not 0
  has checksum 0 once its own is put in.

Second part: the packets of program3

- `ChecksInv` adds to the types that what is on its way is a packet `sendData` built for the
  machine it is from, or one with a byte inverted (`WireInv`), and that what arrived was
  judged as the two checks judge it (`ArrivalInv`).  `WireChecksumRight` and `WireChecksTell`
  follow with the lemmas on `in_cksum`; for a byte of the checksum itself `InvertedFails` has
  a case of its own, as `verifyData` puts it to 0 before it takes the sum again.
- `ConnectInv` and `DataInv` keep request and blocks apart; `Arrived` says what the server
  has read (`ParsedIs`: the name up to the first byte 0, which is the window's first byte
  or lies behind it).  `BlocksInv` says, as long as nothing was flipped, how many blocks and
  RRs there are for the child's count and what is on its way, and that each is in place with
  its own number, those in the server's socket included.  `TrailsInv` says of `rrBuf` and
  `held` that they have the numbers of RRs that have arrived, or ones that have nothing to
  do with them, and that `rrBuf` is behind `held`.  `TransferEndsAgree` needs all of them.

Third part: the trace

- A layout is said by `Holds(p, at, part)`: the bytes of "part" are found in "p" from "at"
  on.  `HoldsJoined`, `HoldsWithin`, `HoldsAfter` and `HoldsChanged` carry it through
  concatenation, through the parsers' `After`, and through a byte that is changed elsewhere.
- `ArpIs`, `IpHeaderIs`, `TcpSegmentIs`, `UdpSegmentIs`, `IcmpSegmentIs` and `BytesOfFrame` say
  where `Frame` puts each field; `HeaderRead`, `SegmentRead` and `FlagsRead` what the parsers
  find there.
- `ChecksumFilled` and `DamageShows`: the checksum over a packet with its checksum in it is
  0, and is not with a byte inverted behind that.  The reference takes it in the big-endian
  order and the program in the little-endian one; `CksumTurned` joins them.  `TcpVerdict` is
  the same over pseudo header and segment, of any length, with the padding behind left out.
- `FrameReported` puts the layers together for any frame and any of the reports
  `get_eth_info` may give.  `ReportsInv`, each report is one of its own frame's, in order, is
  inductive without anything else; `TraceReports` and `TraceVerdicts` follow.

`CommonLemmas` holds what these rest on: `UpTo`; a scan that stops at its first hit returns
the least hit; where the elements of concatenated, cut and appended sequences are.

Every safety invariant and every safety action property that a passing run checks is proved, and
so are the three refinements.  Only model-checked are liveness and what is stated with it
(`StarvedOnlyByLower`, `ClientsLearnOfExit`, `OnlyClientsHoldUp`, `OnlyStoppedOrBusyHoldUp`,
`TypedIsProcessed`, `ClientsEnd`, `ChildrenEndOrHang`), which is out of the prover's reach.

## 5. What is not modelled

- What is printed, by the chat, by rcopy and in the layout of the trace.  The parsing of
  a command line character by character; a handle that is not followed by a space, where
  the scan runs into what lies behind `inputBuffer`; lines longer than it.
- What handles of a hundred bytes or more destroy: they overflow the arrays of
  `server.c:192-210` and `cclient.c:260-265`.  Handles are not empty: an empty broadcast of
  a client without a name would be cut to an empty PDU, which its readers take for the
  server's end.
- That a busy low client starves another is `PollLoop`'s and, by the form of the
  properties, `Chat`'s and `Framing`'s; the number of lines and PDUs is bounded in the runs
  of the latter two, so that only `PollLoop` has it happen for ever.
- Flags 2, 3 and 7, which the chat server never sends (a client's reaction to 3 is there).
- Failure of `poll`, `malloc` and `realloc`, and errors of `recv` other than a reset,
  which end the process.
- Name resolution (`gethostbyname.c`) and the set-up of sockets in `networks.c` beyond
  listen, accept and connect: I/O without decisions of their own.
- In `Packet`: blocks that are lost (they are in `Rcopy`); a transfer past the window.
- In `Rcopy`: datagrams that overtake each other or arrive twice, for which the programs
  have no code; the hang-up of the client's standard input; what a write past the window
  destroys, beyond "it goes on or it crashes"; SIGINT sent to one process rather than to
  all from the terminal.  The parent's answer to flag 16 is left out, as no client sends
  it.  `readFromStdin` of `rcopy.c` is called by nothing.
- Of the library: `send_Err` and `recv_Mod`, for connected sockets, which no program here
  uses; `bindMod`, `selectMod` and `socketMod`; debug levels.  `Rcopy` lets a random event happen or not and does
  not track rates and seeds.
- In `Trace`: what is printed for later fragments, which have no transport header; the
  length in the title line; the capture file.
- The samples under `program3/docs/tcpUdpCode_v2`, and `program2/test.c`, which no
  longer compiles.

## 6. Plan

1. `Chat` over connections of bytes, with `PduQueue` in the place of its queues, so that
   a torn PDU reaches the handlers.
2. Not of use: `Packet`'s bytes in `Rcopy`.  The programs decide on flags, numbers and
   names only, which `Rcopy` has.
