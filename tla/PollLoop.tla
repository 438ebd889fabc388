------------------------------ MODULE PollLoop ------------------------------
(***************************************************************************)
(* The poll set under the chat server's loop (program2/server.c:83-152):   *)
(* the loop asks pollCall for a descriptor, then accepts on the listening  *)
(* socket, or reads from or closes a client, while input keeps arriving.   *)
(***************************************************************************)
EXTENDS PollSet

CONSTANT mainServerSocket   \* the listening socket: below every client socket

ASSUME LoopAssumption ==
    /\ mainServerSocket \in Fds \ {0}
    /\ \A fd \in Fds : fd >= mainServerSocket

VARIABLES
    ready,         \* descriptors with input waiting
    stdinHungUp,   \* descriptor 0 reports POLLHUP from here on
    socketNumber   \* what pollCall returned; -1 outside a handler

vars == <<pollFileDescriptors, maxFileDescriptor, currentPollSetSize,
          ready, stdinHungUp, socketNumber>>

hungup == IF stdinHungUp THEN {0} ELSE {}

\* accept() uses the lowest free descriptor.
FreeFds == Fds \ Watched
LowestFree == CHOOSE fd \in FreeFds : \A g \in FreeFds : fd <= g

Init == /\ setupPollSet
        /\ ready = {}
        /\ stdinHungUp = FALSE
        /\ socketNumber = -1

Begin ==
    /\ mainServerSocket \notin Watched /\ socketNumber = -1
    /\ addToPollSet(mainServerSocket)
    /\ UNCHANGED <<ready, stdinHungUp, socketNumber>>

Poll ==
    /\ mainServerSocket \in Watched
    /\ socketNumber = -1
    /\ pollCall(ready, hungup) # -1       \* timeout -1: poll(2) blocks
    /\ socketNumber' = pollCall(ready, hungup)
    /\ UNCHANGED <<pollVars, ready, stdinHungUp>>

addNewSocket ==
    /\ socketNumber = mainServerSocket
    /\ FreeFds # {}
    /\ addToPollSet(LowestFree)
    /\ \/ ready' = ready \ {mainServerSocket}
       \/ ready' = ready /\ FreeFds # {LowestFree}
    /\ socketNumber' = -1
    /\ UNCHANGED stdinHungUp

\* A PDU is read; the socket stays ready when more has arrived behind it.
ReadPDU ==
    /\ socketNumber > mainServerSocket
    /\ ready' \in {ready, ready \ {socketNumber}}
    /\ socketNumber' = -1
    /\ UNCHANGED <<pollVars, stdinHungUp>>

ClientClosed ==
    /\ socketNumber > mainServerSocket
    /\ removeFromPollSet(socketNumber)
    /\ ready' = ready \ {socketNumber}
    /\ socketNumber' = -1
    /\ UNCHANGED stdinHungUp

\* serverControl has no branch for a descriptor below the listening socket.
Ignored ==
    /\ socketNumber \in 0..(mainServerSocket - 1)
    /\ socketNumber' = -1
    /\ UNCHANGED <<pollVars, ready, stdinHungUp>>

\* Connections are only attempted while a descriptor is free: accept's own
\* failure ends the server (networks.c:84-88) and is an action of module Chat.
InputArrives ==
    /\ \E fd \in Watched \ ready :
          /\ fd = mainServerSocket => FreeFds # {}
          /\ ready' = ready \cup {fd}
    /\ UNCHANGED <<pollVars, stdinHungUp, socketNumber>>

HangUp ==
    /\ ~stdinHungUp
    /\ stdinHungUp' = TRUE
    /\ UNCHANGED <<pollVars, ready, socketNumber>>

Server == Begin \/ Poll \/ addNewSocket \/ ReadPDU \/ ClientClosed \/ Ignored

Next == Server \/ InputArrives \/ HangUp

Spec == Init /\ [][Next]_vars

\* The server process is scheduled; nothing is assumed of its clients.
FairSpec == Spec /\ WF_vars(Server)

-----------------------------------------------------------------------------
\* Types of the whole state.
TypeOK == /\ PollTypeOK
          /\ ready \subseteq Fds
          /\ stdinHungUp \in BOOLEAN
          /\ socketNumber \in Fds \cup -1..mainServerSocket

\* No descriptor is reported ready, and none is handled, after it was closed; 0,
\* which is never added, is reported only after its hang-up.
OnlyOpenHandled ==
    /\ ready \subseteq Watched
    /\ socketNumber > mainServerSocket => socketNumber \in Watched
    /\ socketNumber = 0 => stdinHungUp

\* The 0 that a hang-up of standard input produces counts as no answer.
answer == IF socketNumber = 0 THEN -1 ELSE socketNumber

W == INSTANCE WatchSet WITH watched <- Watched

\* pollLib.c:65-66: through every add, growth, removal and reuse, pollCall names
\* a descriptor that is watched at that moment, or reports none.
ImplementsWatchSet == W!Spec

\* server.c:91-98.  Descriptor 0 stands in every unused element of the array, so
\* once it hangs up every pollCall names element 0, which the loop has no branch
\* for: beyond the handler that was running, no client is ever served again.
SpinsAfterHangUp ==
    [](stdinHungUp /\ socketNumber = -1 => [](socketNumber <= 0))

\* pollLib.c:9-11: a descriptor waits forever only if lower ones keep coming
\* in.  Once no lower descriptor becomes ready, every input on it is handled.
StarvedOnlyByLower ==
    \A fd \in Fds :
        (<>[](\A g \in ready \cup hungup : g >= fd)) => [](fd \in ready => <>(socketNumber = fd))
=============================================================================
