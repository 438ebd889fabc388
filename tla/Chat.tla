-------------------------------- MODULE Chat --------------------------------
(***************************************************************************)
(* The TCP chat of program2: the server (server.c), its handle table and   *)
(* poll set, and the clients (cclient.c), joined by TCP connections.       *)
(*                                                                         *)
(* The server is one thread.  A handler that sends several PDUs computes   *)
(* them from the handle table, which only the server changes, and then     *)
(* sends them one by one; send(2) blocks while the receiver's buffers are  *)
(* full and ends the process when it fails (safeSend).  "todo" is what the *)
(* running handler has still to send.  "outgoing" is the same for the      *)
(* line a client is working on.                                            *)
(*                                                                         *)
(* A PDU is a record.  Handles are strings in the sense of HandleTable.    *)
(***************************************************************************)
EXTENDS Integers, Sequences, FiniteSets

CONSTANTS
    Clients, HandleOf,  \* the client processes and their argv[1]
    Strings,            \* what handle bytes can read as
    StaleStrings,       \* what bytes left over on a stack can read as
    Registrations,      \* outcomes of setHandle: see RegistrationPDUs
    Lines,              \* what users type, as [flag, to, parts]
    MaxLines,           \* bound: lines typed per client
    MayQuit,            \* the clients that may be killed
    MayGoDeaf,          \* the clients whose standard input is a pipe or a file
    ClientFds,          \* descriptors the server has for clients
    mainServerSocket,   \* below every one of them
    Capacity,           \* PDUs a connection buffers in one direction
    POLL_SET_SIZE, Modulus, NULL, NoClient

\* Descriptor 0 is standard input, accept hands out others than the listening one,
\* and the server does not live to see half of 2^16 clients.
ASSUME ChatAssumption ==
    /\ IsFiniteSet(Clients) /\ NoClient \notin Clients
    /\ Modulus \in Nat /\ Modulus > 2 /\ 2 * Cardinality(Clients) <= Modulus
    /\ HandleOf \in [Clients -> Strings] /\ StaleStrings \subseteq Strings
    /\ NULL \notin Strings
    /\ IsFiniteSet(ClientFds) /\ ClientFds \subseteq Nat
    /\ mainServerSocket \in Nat \ {0} /\ \A fd \in ClientFds : mainServerSocket < fd
    /\ \A line \in Lines :
         \/ line.flag = 10
         \/ line.flag \in {4, 5, 6} /\ line.to \in Seq(Strings) /\ line.parts \in Nat
    /\ POLL_SET_SIZE \in Nat \ {0} /\ Capacity \in Nat /\ MaxLines \in Nat

VARIABLES
    handle_table_entries, table_size, overrun,
    pollFileDescriptors, maxFileDescriptor, currentPollSetSize,
    server,     \* "starting", "up" or "exited"
    backlog,    \* connections the server has not accepted
    connOf,     \* the server's descriptor table: fd -> client
    closed,     \* clients whose connection the server closed
    todo,       \* the sends left to the server's running handler: [fd, pdu]
    client,     \* "start", "connected", "loop", "deaf", "exited", "terminated"
    typed,      \* number of lines each client has read
    outgoing,   \* the PDUs left to a client's running handler
    toServer, toClient,  \* the two directions of each connection
    reset,      \* clients whose death reached the server as a TCP reset
    received,   \* history: the PDUs each client has processed
    registrant, \* history: the client behind each table entry
    refused     \* history: clients whose add_entry returned 2

tableVars  == <<handle_table_entries, table_size, overrun, registrant, refused>>
pollVars   == <<pollFileDescriptors, maxFileDescriptor, currentPollSetSize>>
acceptVars == <<backlog, connOf, closed>>
serverVars == <<tableVars, pollVars, acceptVars, server, todo>>
clientVars == <<client, typed, outgoing, received>>
vars == <<serverVars, clientVars, toServer, toClient, reset>>

HT == INSTANCE HandleTable WITH
        Sockets <- ClientFds, Readings <- Strings \X Strings, MaxEntries <- Modulus

PS == INSTANCE PollSet WITH Fds <- {mainServerSocket} \cup ClientFds

-----------------------------------------------------------------------------
(* PDUs *)

\* setHandle sends a payload whose length is an uninitialised uint8_t:
\*   "empty"  length 0: the server sees a PDU without payload;
\*   "clean"  the handle arrives, and a NUL happens to follow it;
\*   "stale"  the handle is cut short or runs on into leftover bytes, which
\*            the server's comparison and its copy need not read alike.
\* Which outcomes occur depends on the build.
RegistrationPDUs(c) ==
    UNION {
      {[flag |-> 0] : r \in Registrations \cap {"empty"}},
      {[flag |-> 1, compared |-> HandleOf[c], stored |-> HandleOf[c]] :
          r \in Registrations \cap {"clean"}},
      {[flag |-> 1, compared |-> s[1], stored |-> s[2]] :
          s \in IF "stale" \in Registrations
                THEN StaleStrings \X StaleStrings ELSE {}}}

\* Fault: the parts of a long text are numbered from the end.
LinePDUs_reversed(c, line) ==
    IF line.flag = 10 THEN << [flag |-> 10] >>
    ELSE [p \in 1..line.parts |->
            [flag |-> line.flag, from |-> c, id |-> typed[c] + 1,
             part |-> line.parts + 1 - p, to |-> line.to, lost |-> 0]]

\* %M (5) and %C (6) carry the handles they are for.  For %B (4), "to" is what
\* messageSend reads as recipients out of the broadcast's text: nothing when the
\* text is empty, otherwise bytes that are nobody's handle.  Text that does not
\* fit 200 bytes goes out in several PDUs; "lost" is how many bytes of its end a
\* PDU is without.  %L is 10.
LinePDUs(c, line) ==
    IF line.flag = 10 THEN << [flag |-> 10] >>
    ELSE [p \in 1..line.parts |->
            [flag |-> line.flag, from |-> c, id |-> typed[c] + 1,
             part |-> p, to |-> line.to, lost |-> 0]]

IsMessage(pdu) == pdu.flag \in {4, 5, 6}

-----------------------------------------------------------------------------
(* The server *)

Open(fd) == connOf[fd] # NoClient
Gone(c)  == client[c] \in {"exited", "terminated"}

\* Descriptors with input waiting: a connection to accept, bytes, or an end of
\* file.
Readable ==
    {fd \in {mainServerSocket} : backlog # << >>}
      \cup {fd \in ClientFds : /\ Open(fd)
                               /\ toServer[connOf[fd]] # << >> \/ Gone(connOf[fd])}

\* Between two handlers the server is in pollCall(-1).
Polled == IF server = "up" /\ todo = << >> THEN PS!pollCall(Readable, {}) ELSE -1

ServerStart ==
    /\ server = "starting"
    /\ server' = "up"
    /\ PS!addToPollSet(mainServerSocket)
    /\ UNCHANGED <<tableVars, acceptVars, todo, clientVars, toServer, toClient, reset>>

FreeFds == {fd \in ClientFds : ~Open(fd)}

\* exit(-1): the kernel closes every descriptor, and what was not read is lost.
ServerExit ==
    /\ server' = "exited"
    /\ todo' = << >>
    /\ backlog' = << >>
    /\ connOf' = [fd \in ClientFds |-> NoClient]
    /\ toServer' = [c \in Clients |-> << >>]
    /\ UNCHANGED <<tableVars, pollVars, closed, clientVars, toClient, reset>>

addNewSocket ==
    /\ Polled = mainServerSocket
    /\ FreeFds # {}
    /\ LET fd == HT!First(FreeFds) IN
         /\ PS!addToPollSet(fd)
         /\ connOf' = [connOf EXCEPT ![fd] = Head(backlog)]
    /\ backlog' = Tail(backlog)
    /\ UNCHANGED <<tableVars, closed, server, todo, clientVars, toServer, toClient, reset>>

\* tcpAccept exits when no descriptor is left.
AcceptFails ==
    /\ Polled = mainServerSocket
    /\ FreeFds = {}
    /\ ServerExit

\* Fault: of the payload's length one byte too many is taken off, so that a %L, a
\* flag and nothing else, reads as an end of file.
recvPDU_oneShort(c) ==
    IF toServer[c] = << >> \/ Head(toServer[c]).flag = 10 THEN 0 ELSE Head(toServer[c]).flag

\* The flag of the PDU that recvPDU reads.  It returns 0 at an end of file and
\* for a PDU without payload: the caller cannot tell them apart.
recvPDU(c) == IF toServer[c] = << >> THEN 0 ELSE Head(toServer[c]).flag

\* Faults: the closed descriptor stays in the poll set; it is not closed.
ClientClosed_watched(fd) ==
    LET c == connOf[fd] IN
    /\ Polled = fd
    /\ recvPDU(c) = 0
    /\ connOf' = [connOf EXCEPT ![fd] = NoClient]
    /\ closed' = closed \cup {c}
    /\ toServer' = [toServer EXCEPT ![c] = << >>]
    /\ UNCHANGED <<tableVars, pollVars, backlog, server, todo, clientVars, toClient, reset>>

ClientClosed(fd) ==
    LET c == connOf[fd] IN
    /\ Polled = fd
    /\ recvPDU(c) = 0
    /\ PS!removeFromPollSet(fd)
    /\ connOf' = [connOf EXCEPT ![fd] = NoClient]
    /\ closed' = closed \cup {c}
    /\ toServer' = [toServer EXCEPT ![c] = << >>]
    /\ UNCHANGED <<tableVars, backlog, server, todo, clientVars, toClient, reset>>

SendTo(fd, pdu) == [fd |-> fd, pdu |-> pdu]

\* messageSend: one PDU per recipient, get_socket's 0 included.
messageSend(pdu) == [i \in 1..Len(pdu.to) |-> SendTo(HT!get_socket(pdu.to[i]), pdu)]

\* The payload without its last two bytes: processClient takes off the two bytes
\* of the PDU's header, which recvPDU's length does not count.
Shortened(pdu) == [flag |-> pdu.flag, from |-> pdu.from, id |-> pdu.id,
                   part |-> pdu.part, to |-> pdu.to, lost |-> 2]

\* messageBroadcast: one PDU per table entry with another socket, cut short.
messageBroadcast(fd, pdu) ==
    LET socket(i) == handle_table_entries[i].socket_number
        sends[i \in 0..HT!entry_count] ==
          IF i = 0 THEN << >>
          ELSE IF socket(i) = fd THEN sends[i - 1]
          ELSE Append(sends[i - 1], SendTo(socket(i), Shortened(pdu)))
    IN  sends[HT!entry_count]

\* Fault: the loop stops one entry early.
listSend_oneShort(fd) ==
    << SendTo(fd, [flag |-> 11, count |-> HT!entry_count]) >>
    \o [i \in 1..(HT!entry_count - 1) |->
          SendTo(fd, [flag |-> 12,
                      name |-> HT!get_handle(handle_table_entries[i].socket_number)])]
    \o << SendTo(fd, [flag |-> 13]) >>

\* listSend: the count, the name get_handle finds for each entry's socket, the end.
listSend(fd) ==
    << SendTo(fd, [flag |-> 11, count |-> HT!entry_count]) >>
    \o [i \in 1..HT!entry_count |->
          SendTo(fd, [flag |-> 12,
                      name |-> HT!get_handle(handle_table_entries[i].socket_number)])]
    \o << SendTo(fd, [flag |-> 13]) >>

\* The switch of processClient; case 4 falls through into case 5.
Handler(fd, pdu) ==
    CASE pdu.flag = 4  -> messageBroadcast(fd, pdu) \o messageSend(pdu)
      [] pdu.flag \in {5, 6} -> messageSend(pdu)
      [] pdu.flag = 10 -> listSend(fd)

\* Case 1: add_entry's answer is not sent to the client.
Register(fd) ==
    LET c == connOf[fd]  pdu == Head(toServer[c]) IN
    /\ Polled = fd
    /\ recvPDU(c) = 1
    /\ \/ /\ HT!add_refused(pdu.compared)
          /\ refused' = refused \cup {c}
          /\ UNCHANGED registrant
       \/ /\ HT!add_stored(fd, pdu.compared, pdu.stored)
          /\ registrant' = Append(registrant, c)
          /\ UNCHANGED refused
    /\ toServer' = [toServer EXCEPT ![c] = Tail(@)]
    /\ UNCHANGED <<pollVars, acceptVars, server, todo, clientVars, toClient, reset>>

processClient(fd) ==
    LET c == connOf[fd]  pdu == Head(toServer[c]) IN
    /\ Polled = fd
    /\ recvPDU(c) \notin {0, 1}
    /\ todo' = Handler(fd, pdu)
    /\ toServer' = [toServer EXCEPT ![c] = Tail(@)]
    /\ UNCHANGED <<tableVars, pollVars, acceptVars, server, clientVars, toClient, reset>>

\* Fault: a failed send is put off and tried again.
SendFails_retried ==
    LET fd == Head(todo).fd IN
    /\ todo # << >>
    /\ \/ fd \notin ClientFds
       \/ fd \in ClientFds /\ ~Open(fd)
       \/ fd \in ClientFds /\ Open(fd) /\ connOf[fd] \in reset
    /\ todo' = Append(Tail(todo), Head(todo))
    /\ UNCHANGED <<tableVars, pollVars, acceptVars, server,
                   clientVars, toServer, toClient, reset>>

\* send(2) fails: descriptor 0 is no socket, a closed descriptor is EBADF, and
\* a connection its peer has reset raises SIGPIPE.  Each ends the process.
SendFails ==
    LET fd == Head(todo).fd IN
    /\ todo # << >>
    /\ \/ fd \notin ClientFds
       \/ fd \in ClientFds /\ ~Open(fd)
       \/ fd \in ClientFds /\ Open(fd) /\ connOf[fd] \in reset
    /\ ServerExit

\* send(2) completes once the connection has room.
ServerSend ==
    LET fd == Head(todo).fd  c == connOf[fd] IN
    /\ todo # << >>
    /\ fd \in ClientFds /\ Open(fd) /\ c \notin reset
    /\ Len(toClient[c]) < Capacity
    /\ toClient' = [toClient EXCEPT ![c] = Append(@, Head(todo).pdu)]
    /\ todo' = Tail(todo)
    /\ UNCHANGED <<tableVars, pollVars, acceptVars, server, clientVars, toServer, reset>>

Server == \/ ServerStart \/ addNewSocket \/ AcceptFails \/ SendFails \/ ServerSend
          \/ \E fd \in ClientFds : ClientClosed(fd) \/ Register(fd) \/ processClient(fd)

-----------------------------------------------------------------------------
(* The clients *)

\* The connection's other end is closed.
CutOff(c) == server = "exited" \/ c \in closed

Exit(c, how) == /\ client' = [client EXCEPT ![c] = how]
                /\ outgoing' = [outgoing EXCEPT ![c] = << >>]

\* connect(2) is refused, and the client exits, before the server listens and after
\* it is gone.
tcpClientSetup(c) ==
    /\ client[c] = "start"
    /\ \/ /\ server # "up"
          /\ client' = [client EXCEPT ![c] = "exited"]
          /\ UNCHANGED backlog
       \/ /\ server # "exited"
          /\ client' = [client EXCEPT ![c] = "connected"]
          /\ backlog' = Append(backlog, c)
    /\ UNCHANGED <<tableVars, pollVars, connOf, closed, server, todo,
                   typed, outgoing, received, toServer, toClient, reset>>

setHandle(c) ==
    /\ client[c] = "connected"
    /\ client' = [client EXCEPT ![c] = "loop"]
    /\ \E pdu \in RegistrationPDUs(c) : outgoing' = [outgoing EXCEPT ![c] = <<pdu>>]
    /\ UNCHANGED <<serverVars, typed, received, toServer, toClient, reset>>

\* From now on descriptor 0 is ready whenever the client polls: a pipe whose other
\* end is closed, a file read to its end, or a pipe that is fed without pause.
\* pollCall returns the lowest ready descriptor, so that the client does not look
\* at the server's any more; what it reads on 0 at the end is no command.
StdinStaysReady(c) ==
    /\ c \in MayGoDeaf /\ client[c] = "loop" /\ outgoing[c] = << >>
    /\ client' = [client EXCEPT ![c] = "deaf"]
    /\ UNCHANGED <<serverVars, typed, outgoing, received, toServer, toClient, reset>>

processStdin(c) ==
    /\ client[c] \in {"loop", "deaf"} /\ outgoing[c] = << >>
    /\ typed[c] < MaxLines
    /\ typed' = [typed EXCEPT ![c] = @ + 1]
    /\ \E line \in Lines : outgoing' = [outgoing EXCEPT ![c] = LinePDUs(c, line)]
    /\ UNCHANGED <<serverVars, client, received, toServer, toClient, reset>>

\* A send on a connection whose other end is closed is lost, or kills the client.
ClientSend(c) ==
    /\ outgoing[c] # << >>
    /\ \/ /\ ~CutOff(c)
          /\ Len(toServer[c]) < Capacity
          /\ toServer' = [toServer EXCEPT ![c] = Append(@, Head(outgoing[c]))]
          /\ outgoing' = [outgoing EXCEPT ![c] = Tail(@)]
          /\ UNCHANGED client
       \/ /\ CutOff(c)
          /\ outgoing' = [outgoing EXCEPT ![c] = Tail(@)]
          /\ UNCHANGED <<client, toServer>>
       \/ /\ CutOff(c)
          /\ Exit(c, "exited")
          /\ UNCHANGED toServer
    /\ UNCHANGED <<serverVars, typed, received, toClient, reset>>

\* Flag 3, which the server never sends, would end the client.
processMsgFromServer(c) ==
    /\ client[c] = "loop" /\ outgoing[c] = << >>
    /\ toClient[c] # << >>
    /\ IF Head(toClient[c]).flag = 3 THEN Exit(c, "exited")
                                     ELSE UNCHANGED <<client, outgoing>>
    /\ received' = [received EXCEPT ![c] = Append(@, Head(toClient[c]))]
    /\ toClient' = [toClient EXCEPT ![c] = Tail(@)]
    /\ UNCHANGED <<serverVars, typed, toServer, reset>>

\* Fault: the client goes on after the end of file.
ServerTerminated_ignored(c) ==
    /\ client[c] = "loop" /\ outgoing[c] = << >>
    /\ toClient[c] = << >> /\ CutOff(c)
    /\ UNCHANGED vars

\* "Server has terminated": recvPDU returned 0.
ServerTerminated(c) ==
    /\ client[c] = "loop" /\ outgoing[c] = << >>
    /\ toClient[c] = << >> /\ CutOff(c)
    /\ Exit(c, "terminated")
    /\ UNCHANGED <<serverVars, typed, received, toServer, toClient, reset>>

Quit(c) ==
    /\ c \in MayQuit /\ client[c] \in {"connected", "loop", "deaf"}
    /\ Exit(c, "exited")
    /\ UNCHANGED <<serverVars, typed, received, toServer, toClient, reset>>

\* Data that a dead client's kernel holds or receives is answered with a reset.
Reset(c) ==
    /\ Gone(c) /\ ~CutOff(c)
    /\ toClient[c] # << >> /\ c \notin reset
    /\ reset' = reset \cup {c}
    /\ UNCHANGED <<serverVars, clientVars, toServer, toClient>>

\* What a client does without being typed at.
ClientStep(c) == \/ tcpClientSetup(c) \/ setHandle(c) \/ ClientSend(c)
                 \/ processMsgFromServer(c) \/ ServerTerminated(c)

\* Every process waits for input: the one way in which the system may stop.  That
\* the server then has nothing to read is what the liveness properties say.
Waiting ==
    /\ server = "exited" \/ (server = "up" /\ todo = << >> /\ Polled = -1)
    /\ \A c \in Clients :
         \/ Gone(c)
         \/ client[c] = "deaf" /\ outgoing[c] = << >>
         \/ /\ client[c] = "loop" /\ outgoing[c] = << >>
            /\ toClient[c] = << >> /\ ~CutOff(c)
    /\ UNCHANGED vars

Init ==
    /\ HT!create_table /\ PS!setupPollSet
    /\ server = "starting"
    /\ backlog = << >> /\ todo = << >>
    /\ connOf = [fd \in ClientFds |-> NoClient]
    /\ closed = {} /\ reset = {} /\ refused = {}
    /\ client = [c \in Clients |-> "start"]
    /\ typed = [c \in Clients |-> 0]
    /\ outgoing = [c \in Clients |-> << >>]
    /\ toServer = [c \in Clients |-> << >>]
    /\ toClient = [c \in Clients |-> << >>]
    /\ received = [c \in Clients |-> << >>]
    /\ registrant = << >>

Next == \/ Server
        \/ \E c \in Clients : \/ ClientStep(c) \/ processStdin(c) \/ StdinStaysReady(c)
                            \/ Quit(c) \/ Reset(c)
        \/ Waiting

Spec == Init /\ [][Next]_vars

\* The processes are scheduled and TCP delivers; users type or quit as they like.
\* A client gets to its connection because its user pauses; one whose input does
\* not is "deaf", and has no step but to send what it has begun.
FairSpec == /\ Spec
            /\ WF_vars(Server)
            /\ \A c \in Clients : WF_vars(ClientStep(c)) /\ WF_vars(Reset(c))
=============================================================================
