--------------------------- MODULE ChatProperties ---------------------------
(* What holds of the chat. *)
EXTENDS Chat

\* Types of the server's and the clients' state.
TypeOK ==
    /\ HT!TypeOK
    /\ PS!PollTypeOK
    /\ server \in {"starting", "up", "exited"}
    /\ connOf \in [ClientFds -> Clients \cup {NoClient}]
    /\ closed \subseteq Clients /\ reset \subseteq Clients /\ refused \subseteq Clients
    /\ client \in [Clients -> {"start", "connected", "loop", "deaf", "exited", "terminated"}]
    /\ typed \in [Clients -> 0..MaxLines]
    /\ \A i \in DOMAIN backlog : backlog[i] \in Clients
    /\ \A i \in DOMAIN todo : todo[i].fd \in ClientFds \cup {0}
    /\ Len(registrant) = Len(handle_table_entries)

-----------------------------------------------------------------------------
(* Safety *)

\* server.c:103-108, 143-146.  Through every accept, close and reuse of a
\* descriptor the poll set watches exactly the open ones, and no two descriptors
\* serve one client: pollCall never reports a closed socket (POLLNVAL) and no
\* connection is forgotten.
WatchedAreOpen ==
    server = "up" =>
      /\ PS!Watched = {mainServerSocket} \cup {fd \in ClientFds : Open(fd)}
      /\ \A f, g \in ClientFds : Open(f) /\ connOf[f] = connOf[g] => f = g

\* Everything that has reached a client or is on its way to it, each PDU with its
\* place in the order: first what was sent, then what the server has still to send.
Stream(c) ==
    LET arrived == received[c] \o toClient[c] IN
    {[at |-> i, pdu |-> arrived[i]] : i \in DOMAIN arrived} \cup
    {[at |-> Len(arrived) + k, pdu |-> todo[k].pdu] :
        k \in {j \in DOMAIN todo : todo[j].fd \in ClientFds /\ connOf[todo[j].fd] = c}}

\* A client sees what another client sent in the order it was sent, part by
\* part, whatever else the server interleaves: nothing overtakes.
SenderOrder ==
    \A c \in Clients : \A x, y \in Stream(c) :
      (x.at < y.at /\ IsMessage(x.pdu) /\ IsMessage(y.pdu) /\ x.pdu.from = y.pdu.from)
        => \/ x.pdu.id < y.pdu.id
           \/ x.pdu.id = y.pdu.id /\ x.pdu.part <= y.pdu.part

\* server.c:165-189.  A handle list reaches its client whole and uninterrupted:
\* the count, exactly that many names, the end marker.
ListsAreWhole ==
    server = "up" =>
      \A c \in Clients : \A x \in Stream(c) :
        x.pdu.flag = 11 =>
          \A k \in 1 .. x.pdu.count + 1 :
            \E y \in Stream(c) :
              /\ y.at = x.at + k
              /\ IF k <= x.pdu.count THEN y.pdu.flag = 12 /\ y.pdu.name # NULL
                                     ELSE y.pdu.flag = 13

\* A message for a handle goes to the client that registered the handle, or
\* to somebody else only after that client's connection has ended.
MisdeliveredOnlyAfterDeparture ==
    \A c \in Clients : \A x \in Stream(c) :
      x.pdu.flag \in {5, 6} =>
        \E i \in DOMAIN handle_table_entries :
          /\ \E r \in DOMAIN x.pdu.to : x.pdu.to[r] = handle_table_entries[i].handle_name
          /\ \/ registrant[i] = c
             \/ Gone(registrant[i]) \/ CutOff(registrant[i])

\* What the copy of a registration can have read in leftover bytes.
StaleNames == IF "stale" \in Registrations THEN StaleStrings ELSE {}

\* cclient.c:246-253, handle.c:75-86.  A client that is in the table is reachable under
\* the name stored there for as long as it stays connected, whoever registers, leaves
\* or reconnects in between and however garbled: only one whose own registration
\* ran into leftover bytes, which add_entry compares as one name and stores as
\* another, can have the name of an entry before it, and is never found.
RegisteredIsReachable ==
    server = "up" =>
      \A i \in DOMAIN registrant :
        LET name(k) == handle_table_entries[k].handle_name IN
        \A fd \in ClientFds :
          connOf[fd] = registrant[i] =>
            \/ HT!get_socket(name(i)) = fd
            \/ name(i) \in StaleNames /\ \E k \in 1 .. i - 1 : name(k) = name(i)

\* cclient.c:189-192, server.c:143.  A client to which the server has answered a
\* registration, even by silently refusing it, is told "Server has terminated" only
\* when it has; one whose registration came without a byte of payload is told so by
\* a server that is up.
TerminatedOnlyUnregistered ==
    server = "up" =>
      \A c \in Clients :
        client[c] = "terminated" =>
          /\ c \in closed
          /\ c \notin refused /\ \A i \in DOMAIN registrant : registrant[i] # c

\* Somebody is named who is not in the table: in %M and %C, or by the text of a
\* broadcast, which case 4 goes on to read as a list of handles.
NamesNobody(pdu) ==
    IsMessage(pdu) /\ \E r \in DOMAIN pdu.to :
        \A i \in DOMAIN handle_table_entries : handle_table_entries[i].handle_name # pdu.to[r]

\* server.c:126-136, 154-223, networks.c:82.  While every client stays and there
\* are descriptors for all, only a message that names nobody ends the server:
\* lists, empty broadcasts and messages to those registered never do, whatever
\* they are interleaved with.
ServerExitHasCause ==
    [][server = "up" /\ server' = "exited" =>
         \/ \E c \in Clients : Gone(c) \/ c \in closed
         \/ Cardinality(Clients) > Cardinality(ClientFds)
         \/ todo # << >> /\ NamesNobody(Head(todo).pdu)]_vars

-----------------------------------------------------------------------------
(* Liveness *)

\* server.c:214, cclient.c:334: the server, in the middle of a handler, waits for
\* room in a client's connection, and the client, in the middle of a line, for room
\* in the server's; neither reads.
Standoff ==
    /\ todo # << >> /\ Head(todo).fd \in ClientFds
    /\ LET c == connOf[Head(todo).fd] IN
        /\ c \in Clients
        /\ Len(toClient[c]) >= Capacity /\ Len(toServer[c]) >= Capacity
        /\ ~Gone(c) /\ outgoing[c] # << >>

\* server.c:214, cclient.c:168, pollLib.c:89: the server waits for room in the
\* connection of a client that does not look at it any more.
WaitsForDeaf ==
    /\ todo # << >> /\ Head(todo).fd \in ClientFds
    /\ LET c == connOf[Head(todo).fd] IN
        c \in Clients /\ client[c] = "deaf" /\ Len(toClient[c]) >= Capacity

\* The server is stuck in a send for good.
Stuck == [](Standoff \/ WaitsForDeaf)

\* pollLib.c:9-11, 89: again and again the server hands out a descriptor below the
\* one of client c.
Starved(c) == []<>(\E fd \in ClientFds : connOf[fd] = c /\ Polled # -1 /\ Polled < fd)

\* A forwarding or listing that was begun is finished, or the server exits, or it
\* is stuck: in no other way does it hang.
ForwardingCompletes == (todo # << >>) ~> (todo = << >> \/ Stuck)

\* The descriptor of a client that left is given back for good, even when the client
\* left before it was accepted, or the server exits, is stuck, or is kept busy by
\* the clients of lower descriptors.
DepartedIsClosed ==
    \A c \in Clients :
      Gone(c) ~> ([](\A fd \in ClientFds : connOf[fd] # c) \/ Stuck \/ Starved(c))

\* cclient.c:189-192.  Every client learns that the server exited, and none waits
\* for it forever, except one that does not look at the connection any more because
\* its standard input is always ready.
ClientsLearnOfExit ==
    (server = "exited") ~> (\A c \in Clients : client[c] \in {"exited", "terminated", "deaf"})

\* The server gets to everything a client has sent, or exits, or is stuck, or is
\* kept busy by the clients of lower descriptors.
SentIsProcessed ==
    \A c \in Clients : (toServer[c] # << >>) ~> (toServer[c] = << >> \/ Stuck \/ Starved(c))

\* server.c:83-152.  No handler, departure or message is left unfinished for good
\* except through what clients do: one that the server and it block each other, one
\* that does not read, or those of lower descriptors that do not stop sending.
\* (PDUs arrive whole here; one that is begun and not finished is Framing's.)
OnlyClientsHoldUp == ForwardingCompletes /\ DepartedIsClosed /\ SentIsProcessed
=============================================================================
