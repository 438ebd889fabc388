------------------------------ MODULE PollSet ------------------------------
(***************************************************************************)
(* The poll set of pollLib.c (one copy for the chat, one for rcopy).       *)
(*                                                                         *)
(* The set is an array of struct pollfd indexed by descriptor: entry i     *)
(* holds fd = i when i is watched.  A removed entry, and an entry that was *)
(* never used, holds fd = 0, which poll(2) reads as "watch descriptor 0    *)
(* for errors only", not as "skip".                                        *)
(***************************************************************************)
EXTENDS Integers, FiniteSets

CONSTANTS
    Fds,            \* the descriptors callers hand over
    POLL_SET_SIZE   \* pollLib.h: 10

ASSUME PollSetAssumption == Fds \subseteq Nat /\ POLL_SET_SIZE \in Nat \ {0}

VARIABLES pollFileDescriptors, maxFileDescriptor, currentPollSetSize

pollVars == <<pollFileDescriptors, maxFileDescriptor, currentPollSetSize>>

POLLIN == "POLLIN"
Unused == [fd |-> 0, events |-> {}]
Watching(fd) == [fd |-> fd, events |-> {POLLIN}]

setupPollSet ==
    /\ currentPollSetSize = POLL_SET_SIZE
    /\ pollFileDescriptors = [i \in 0..(POLL_SET_SIZE - 1) |-> Unused]
    /\ maxFileDescriptor = 0

\* Fault: the old elements are lost.
Grown_cleared(newSetSize) == [i \in 0..(newSetSize - 1) |-> Unused]

\* The array after growPollSet: the new elements are zeroed.
Grown(newSetSize) ==
    [i \in 0..(newSetSize - 1) |->
        IF i < currentPollSetSize THEN pollFileDescriptors[i] ELSE Unused]

\* growPollSet's own test, after which it exits.
GrowRefused(newSetSize) == newSetSize <= currentPollSetSize

\* Fault: no growth for the descriptor just past the end.
SizeFor_late(fd) == IF fd > currentPollSetSize THEN fd + POLL_SET_SIZE
                    ELSE currentPollSetSize

SizeFor(fd) == IF fd >= currentPollSetSize THEN fd + POLL_SET_SIZE
               ELSE currentPollSetSize

addToPollSet(fd) ==
    /\ fd >= currentPollSetSize => ~GrowRefused(fd + POLL_SET_SIZE)
    /\ currentPollSetSize' = SizeFor(fd)
    /\ maxFileDescriptor' =
         IF fd + 1 >= maxFileDescriptor THEN fd + 1 ELSE maxFileDescriptor
    /\ pollFileDescriptors' = [Grown(SizeFor(fd)) EXCEPT ![fd] = Watching(fd)]

\* Fault: the element below is zeroed.
removeFromPollSet_below(fd) ==
    /\ pollFileDescriptors' = [pollFileDescriptors EXCEPT ![fd - 1] = Unused]
    /\ UNCHANGED <<maxFileDescriptor, currentPollSetSize>>

removeFromPollSet(fd) ==
    /\ pollFileDescriptors' = [pollFileDescriptors EXCEPT ![fd] = Unused]
    /\ UNCHANGED <<maxFileDescriptor, currentPollSetSize>>

\* The report of a poll set whose unused elements are skipped.
Reported_askedOnly(ready, hungup) ==
    {i \in 0..(maxFileDescriptor - 1) :
        LET p == pollFileDescriptors[i] IN
        POLLIN \in p.events /\ p.fd \in ready \cup hungup}

\* The indexes poll(2) reports: POLLIN is asked for, POLLHUP and POLLNVAL are
\* reported whether or not they are.
Reported(ready, hungup) ==
    {i \in 0..(maxFileDescriptor - 1) :
        LET p == pollFileDescriptors[i] IN
        \/ p.fd \in ready /\ POLLIN \in p.events
        \/ p.fd \in hungup}

\* Fault: the scan runs down from the top.
pollCall_highest(ready, hungup) ==
    LET hits == Reported(ready, hungup) IN
    IF hits = {} THEN -1 ELSE CHOOSE i \in hits : \A j \in hits : i >= j

\* pollCall: the lowest reported index, -1 on timeout.
pollCall(ready, hungup) ==
    LET hits == Reported(ready, hungup) IN
    IF hits = {} THEN -1 ELSE CHOOSE i \in hits : \A j \in hits : i <= j

Watched == {fd \in DOMAIN pollFileDescriptors :
                pollFileDescriptors[fd] = Watching(fd)}

PollTypeOK ==
    /\ currentPollSetSize \in Nat
    /\ maxFileDescriptor \in Nat
    /\ pollFileDescriptors \in
         [0..(currentPollSetSize - 1) ->
             [fd : Fds \cup {0}, events : SUBSET {POLLIN}]]

\* poll(2) is handed maxFileDescriptor elements: all of them are allocated, they
\* include every watched entry, and an entry watches no descriptor but its own.
ArrayConsistent ==
    /\ POLL_SET_SIZE <= currentPollSetSize
    /\ maxFileDescriptor <= currentPollSetSize
    /\ \A i \in 0..(currentPollSetSize - 1) :
          \/ pollFileDescriptors[i] = Unused
          \/ pollFileDescriptors[i] = Watching(i) /\ i < maxFileDescriptor
=============================================================================
