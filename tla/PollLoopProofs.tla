--------------------------- MODULE PollLoopProofs ---------------------------
(* Proofs about the poll set under the server's loop. *)
EXTENDS PollLoop, CommonLemmas, TLAPS

\* The inductive invariant: an open descriptor is one the array watches, so a
\* handler only ever removes an element that exists.
IInv == TypeOK /\ ArrayConsistent /\ OnlyOpenHandled /\ Watched \subseteq Fds

\* An array whose elements are unused or watch their own index, and whose watched
\* elements are below maxFileDescriptor, stays one when a descriptor is added.
LEMMA AddKeeps ==
    ASSUME PollTypeOK, ArrayConsistent, NEW fd \in Fds, addToPollSet(fd)
    PROVE  /\ PollTypeOK' /\ ArrayConsistent'
           /\ Watched' = Watched \cup {fd}
<1>1. fd \in Nat /\ POLL_SET_SIZE \in Nat \ {0} /\ currentPollSetSize \in Nat
  BY PollSetAssumption DEF PollTypeOK
<1> DEFINE size == SizeFor(fd)
<1>2. /\ size \in Nat /\ fd < size /\ currentPollSetSize <= size
      /\ currentPollSetSize' = size
  BY <1>1 DEF SizeFor, addToPollSet
<1>3. /\ maxFileDescriptor' \in Nat
      /\ maxFileDescriptor <= maxFileDescriptor'
      /\ fd < maxFileDescriptor'
      /\ maxFileDescriptor' <= size
  BY <1>1, <1>2 DEF addToPollSet, PollTypeOK, ArrayConsistent
<1>4. pollFileDescriptors' =
        [i \in 0..(size - 1) |->
           IF i = fd THEN Watching(fd)
           ELSE IF i < currentPollSetSize THEN pollFileDescriptors[i] ELSE Unused]
  BY <1>1, <1>2 DEF addToPollSet, Grown
<1> HIDE DEF size
<1>5. \A i \in 0..(size - 1) :
        (i < currentPollSetSize) => i \in 0..(currentPollSetSize - 1)
  BY <1>1, <1>2
<1>6. PollTypeOK'
  <2>1. \A i \in 0..(currentPollSetSize - 1) :
          pollFileDescriptors[i] \in [fd : Fds \cup {0}, events : SUBSET {POLLIN}]
    BY DEF PollTypeOK
  <2>2. /\ Watching(fd) \in [fd : Fds \cup {0}, events : SUBSET {POLLIN}]
        /\ Unused \in [fd : Fds \cup {0}, events : SUBSET {POLLIN}]
    BY DEF Watching, Unused
  <2> QED
    BY <1>2, <1>3, <1>4, <1>5, <2>1, <2>2 DEF PollTypeOK
<1>7. ArrayConsistent'
  <2>1. \A i \in 0..(size - 1) :
          \/ pollFileDescriptors'[i] = Unused
          \/ pollFileDescriptors'[i] = Watching(i) /\ i < maxFileDescriptor'
    <3> SUFFICES ASSUME NEW i \in 0..(size - 1)
                 PROVE  \/ pollFileDescriptors'[i] = Unused
                        \/ pollFileDescriptors'[i] = Watching(i) /\ i < maxFileDescriptor'
      OBVIOUS
    <3>1. CASE i = fd
      BY <1>3, <1>4, <3>1
    <3>2. CASE i # fd /\ i < currentPollSetSize
      <4>1. pollFileDescriptors'[i] = pollFileDescriptors[i]
        BY <1>4, <3>2
      <4>2. \/ pollFileDescriptors[i] = Unused
            \/ pollFileDescriptors[i] = Watching(i) /\ i < maxFileDescriptor
        BY <1>5, <3>2 DEF ArrayConsistent
      <4>3. i < maxFileDescriptor => i < maxFileDescriptor'
        BY <1>2, <1>3 DEF PollTypeOK
      <4> QED
        BY <4>1, <4>2, <4>3
    <3>3. CASE i # fd /\ ~(i < currentPollSetSize)
      BY <1>4, <3>3
    <3> QED
      BY <3>1, <3>2, <3>3
  <2>2. POLL_SET_SIZE <= size
    BY <1>1, <1>2 DEF ArrayConsistent
  <2> QED
    BY <1>2, <1>3, <2>1, <2>2 DEF ArrayConsistent
<1>8. Watched' = Watched \cup {fd}
  <2>1. DOMAIN pollFileDescriptors' = 0..(size - 1)
    BY <1>4
  <2>2. DOMAIN pollFileDescriptors = 0..(currentPollSetSize - 1)
    BY DEF PollTypeOK
  <2>3. \A i : i \in Watched' <=> i \in Watched \/ i = fd
    <3> SUFFICES ASSUME NEW i PROVE i \in Watched' <=> i \in Watched \/ i = fd
      OBVIOUS
    <3>1. CASE i = fd
      <4>1. fd \in 0..(size - 1)
        BY <1>1, <1>2
      <4>2. pollFileDescriptors'[fd] = Watching(fd)
        BY <1>4, <4>1
      <4> QED
        BY <2>1, <3>1, <4>1, <4>2 DEF Watched
    <3>2. CASE i # fd
      <4>1. ASSUME i \in Watched PROVE i \in Watched'
        <5>1. i \in 0..(currentPollSetSize - 1) /\ pollFileDescriptors[i] = Watching(i)
          BY <2>2, <4>1 DEF Watched
        <5>2. i \in 0..(size - 1) /\ i < currentPollSetSize
          BY <1>1, <1>2, <5>1
        <5>3. pollFileDescriptors'[i] = Watching(i)
          BY <1>4, <3>2, <5>1, <5>2
        <5> QED
          BY <2>1, <5>2, <5>3 DEF Watched
      <4>2. ASSUME i \in Watched' PROVE i \in Watched
        <5>1. i \in 0..(size - 1) /\ pollFileDescriptors'[i] = Watching(i)
          BY <2>1, <4>2 DEF Watched
        <5>2. CASE i < currentPollSetSize
          <6>1. pollFileDescriptors[i] = Watching(i)
            BY <1>4, <3>2, <5>1, <5>2
          <6> QED
            BY <1>5, <2>2, <5>1, <5>2, <6>1 DEF Watched
        <5>3. CASE ~(i < currentPollSetSize)
          <6>1. pollFileDescriptors'[i] = Unused
            BY <1>4, <3>2, <5>1, <5>3
          <6> QED
            BY <5>1, <6>1 DEF Unused, Watching
        <5> QED
          BY <5>2, <5>3
      <4> QED
        BY <3>2, <4>1, <4>2
    <3> QED
      BY <3>1, <3>2
  <2> QED
    BY <2>3
<1> QED
  BY <1>6, <1>7, <1>8

\* Removing a descriptor zeroes its element and no other.
LEMMA RemoveKeeps ==
    ASSUME PollTypeOK, ArrayConsistent, NEW fd \in Watched, removeFromPollSet(fd)
    PROVE  /\ PollTypeOK' /\ ArrayConsistent'
           /\ Watched' = Watched \ {fd}
<1>1. /\ fd \in DOMAIN pollFileDescriptors
      /\ DOMAIN pollFileDescriptors = 0..(currentPollSetSize - 1)
  BY DEF Watched, PollTypeOK
<1>2. pollFileDescriptors' =
        [i \in 0..(currentPollSetSize - 1) |->
           IF i = fd THEN Unused ELSE pollFileDescriptors[i]]
  BY <1>1 DEF removeFromPollSet, PollTypeOK
<1>3. maxFileDescriptor' = maxFileDescriptor /\ currentPollSetSize' = currentPollSetSize
  BY DEF removeFromPollSet
<1>4. PollTypeOK'
  <2>1. Unused \in [fd : Fds \cup {0}, events : SUBSET {POLLIN}]
    BY DEF Unused
  <2> QED
    BY <1>2, <1>3, <2>1 DEF PollTypeOK
<1>5. ArrayConsistent'
  BY <1>2, <1>3 DEF ArrayConsistent
<1>6. Unused # Watching(fd)
  BY DEF Unused, Watching
<1>7. Watched' = Watched \ {fd}
  BY <1>1, <1>2, <1>6 DEF Watched
<1> QED
  BY <1>4, <1>5, <1>7

-----------------------------------------------------------------------------
\* pollCall names an element that poll(2) reported, or none.
LEMMA PollCallReported ==
    ASSUME PollTypeOK, NEW R, NEW H
    PROVE  pollCall(R, H) \in Reported(R, H) \cup {-1}
<1>1. Reported(R, H) \in SUBSET Nat
  BY DEF Reported
<1>2. Reported(R, H) # {} => pollCall(R, H) \in Reported(R, H)
  BY <1>1, LeastExists DEF pollCall
<1> QED
  BY <1>2 DEF pollCall

\* Without a hang-up on descriptor 0, what is reported is watched and ready.
LEMMA ReportedWatched ==
    ASSUME PollTypeOK, ArrayConsistent, NEW R
    PROVE  Reported(R, {}) \subseteq Watched \cap R
<1> SUFFICES ASSUME NEW i \in Reported(R, {}) PROVE i \in Watched /\ i \in R
  OBVIOUS
<1>1. /\ i \in 0..(maxFileDescriptor - 1)
      /\ pollFileDescriptors[i].fd \in R
      /\ POLLIN \in pollFileDescriptors[i].events
  BY DEF Reported
<1>2. i \in 0..(currentPollSetSize - 1)
  BY <1>1 DEF PollTypeOK, ArrayConsistent
<1>3. pollFileDescriptors[i] # Unused
  BY <1>1 DEF Unused
<1>4. pollFileDescriptors[i] = Watching(i)
  BY <1>2, <1>3 DEF ArrayConsistent
<1> QED
  BY <1>1, <1>2, <1>4 DEF Watched, Watching, PollTypeOK

\* With a hang-up on descriptor 0, an element below maxFileDescriptor is reported:
\* a watched and ready one, or one that holds descriptor 0.
LEMMA ReportedRange ==
    ASSUME TypeOK, ArrayConsistent, NEW i \in Reported(ready, hungup)
    PROVE  \/ i \in Watched \cap ready
           \/ i \in 0..(currentPollSetSize - 1) /\ pollFileDescriptors[i].fd = 0
<1>1. /\ i \in 0..(maxFileDescriptor - 1)
      /\ \/ pollFileDescriptors[i].fd \in ready /\ POLLIN \in pollFileDescriptors[i].events
         \/ pollFileDescriptors[i].fd \in hungup
  BY DEF Reported
<1>2. i \in 0..(currentPollSetSize - 1)
  BY <1>1 DEF TypeOK, PollTypeOK, ArrayConsistent
<1>3. CASE pollFileDescriptors[i].fd \in ready /\ POLLIN \in pollFileDescriptors[i].events
  <2>1. pollFileDescriptors[i] = Watching(i)
    BY <1>2, <1>3 DEF ArrayConsistent, Unused
  <2> QED
    BY <1>2, <1>3, <2>1 DEF Watched, Watching, TypeOK, PollTypeOK
<1>4. CASE pollFileDescriptors[i].fd \in hungup
  BY <1>2, <1>4 DEF hungup
<1> QED
  BY <1>1, <1>3, <1>4

\* Element 0 holds descriptor 0 whatever happens, so after a hang-up of standard
\* input it is the least reported one.
LEMMA HungUpResult ==
    ASSUME IInv, Poll, stdinHungUp
    PROVE  socketNumber' = 0
<1> DEFINE hits == Reported(ready, hungup)
<1>0. PollTypeOK /\ ArrayConsistent
  BY DEF IInv, TypeOK
<1>1. mainServerSocket \in 0..(currentPollSetSize - 1)
  BY <1>0 DEF Poll, Watched, PollTypeOK
<1>2. pollFileDescriptors[mainServerSocket] # Unused
  BY DEF Poll, Watched, Watching, Unused
<1>3. mainServerSocket < maxFileDescriptor
  BY <1>0, <1>1, <1>2 DEF ArrayConsistent
<1>4. 0 \in 0..(maxFileDescriptor - 1) /\ 0 \in 0..(currentPollSetSize - 1)
  BY <1>0, <1>1, <1>3 DEF PollTypeOK, ArrayConsistent
<1>5. pollFileDescriptors[0].fd = 0
  <2>1. pollFileDescriptors[0] = Unused \/ pollFileDescriptors[0] = Watching(0)
    BY <1>0, <1>4 DEF ArrayConsistent
  <2>2. Unused.fd = 0 /\ Watching(0).fd = 0
    BY DEF Unused, Watching
  <2> QED
    BY <2>1, <2>2
<1>6. 0 \in hits
  BY <1>4, <1>5 DEF Reported, hungup
<1>7. hits \in SUBSET Nat
  BY DEF Reported
<1>8. (CHOOSE i \in hits : \A j \in hits : i <= j) = 0
  BY <1>6, <1>7, LeastChosen
<1> QED
  BY <1>6, <1>8 DEF Poll, pollCall

\* What the loop is handed: a watched and ready descriptor, or 0 after a hang-up.
LEMMA PollResult ==
    ASSUME IInv, Poll
    PROVE  \/ socketNumber' \in Watched \cap ready
           \/ stdinHungUp /\ socketNumber' = 0
<1>1. PollTypeOK /\ ArrayConsistent
  BY DEF IInv, TypeOK
<1>2. CASE ~stdinHungUp
  <2>1. socketNumber' \in Reported(ready, hungup)
    BY <1>1, PollCallReported DEF Poll
  <2> QED
    BY <1>1, <1>2, <2>1, ReportedWatched DEF hungup
<1>3. CASE stdinHungUp
  BY <1>3, HungUpResult
<1> QED
  BY <1>2, <1>3

\* No descriptor of the loop is descriptor 0 or lies below the listening socket.
LEMMA FdRange == \A fd \in Fds : fd \in Nat /\ fd >= mainServerSocket /\ fd > 0
  BY PollSetAssumption, LoopAssumption

\* A step that leaves the poll set alone leaves its properties alone.
LEMMA UnchangedPoll ==
    ASSUME UNCHANGED pollVars
    PROVE  /\ Watched' = Watched
           /\ PollTypeOK => PollTypeOK'
           /\ ArrayConsistent => ArrayConsistent'
BY DEF pollVars, Watched, PollTypeOK, ArrayConsistent

\* setupPollSet establishes the invariant.
LEMMA InitIInv == Init => IInv
<1> SUFFICES ASSUME Init PROVE IInv
  OBVIOUS
<1>1. POLL_SET_SIZE \in Nat /\ POLL_SET_SIZE > 0
  BY PollSetAssumption
<1>2. PollTypeOK
  BY <1>1 DEF Init, setupPollSet, PollTypeOK, Unused
<1>3. ArrayConsistent
  BY <1>1 DEF Init, setupPollSet, ArrayConsistent
<1>4. Watched = {}
  BY DEF Init, setupPollSet, Watched, Watching, Unused
<1>5. -1 \in Fds \cup -1..mainServerSocket /\ ~(-1 > mainServerSocket) /\ -1 # 0
  BY FdRange, LoopAssumption
<1> QED
  BY <1>2, <1>3, <1>4, <1>5 DEF Init, IInv, TypeOK, OnlyOpenHandled

\* Every step of the loop and of its environment keeps the invariant.
LEMMA NextIInv == IInv /\ [Next]_vars => IInv'
<1> SUFFICES ASSUME IInv, [Next]_vars PROVE IInv'
  OBVIOUS
<1>0. /\ PollTypeOK /\ ArrayConsistent
      /\ ready \subseteq Watched /\ Watched \subseteq Fds
      /\ stdinHungUp \in BOOLEAN /\ (socketNumber = 0 => stdinHungUp)
      /\ socketNumber \in Fds \cup -1..mainServerSocket
      /\ mainServerSocket \in Nat /\ mainServerSocket \in Fds
  BY FdRange, LoopAssumption DEF IInv, TypeOK, OnlyOpenHandled
<1>1. /\ -1 \in Fds \cup -1..mainServerSocket /\ ~(-1 > mainServerSocket)
      /\ 0 \in Fds \cup -1..mainServerSocket /\ ~(0 > mainServerSocket)
  BY <1>0
<1>2. CASE UNCHANGED vars
  <2>1. UNCHANGED pollVars
    BY <1>2 DEF vars, pollVars
  <2> QED
    BY <1>0, <1>2, <2>1, UnchangedPoll DEF vars, IInv, TypeOK, OnlyOpenHandled
<1>3. CASE Begin
  <2>1. PollTypeOK' /\ ArrayConsistent' /\ Watched' = Watched \cup {mainServerSocket}
    BY <1>0, <1>3, AddKeeps DEF Begin
  <2> QED
    BY <1>0, <1>3, <2>1 DEF Begin, IInv, TypeOK, OnlyOpenHandled
<1>4. CASE Poll
  <2>1. UNCHANGED <<pollVars, ready, stdinHungUp>>
    BY <1>4 DEF Poll
  <2>2. \/ socketNumber' \in Watched \cap ready
        \/ stdinHungUp /\ socketNumber' = 0
    BY <1>4, PollResult
  <2>3. socketNumber' \in Fds \cup -1..mainServerSocket
    BY <1>0, <1>1, <2>2
  <2>4. /\ socketNumber' > mainServerSocket => socketNumber' \in Watched
        /\ socketNumber' = 0 => stdinHungUp
    <3>1. \A fd \in Watched : fd # 0
      BY <1>0, FdRange
    <3> QED
      BY <1>0, <1>1, <2>2, <3>1
  <2> QED
    BY <1>0, <2>1, <2>3, <2>4, UnchangedPoll DEF IInv, TypeOK, OnlyOpenHandled
<1>5. CASE addNewSocket
  <2>1. FreeFds \in SUBSET Nat /\ FreeFds # {}
    BY <1>5, FdRange DEF addNewSocket, FreeFds
  <2>2. LowestFree \in FreeFds
    BY <2>1, LeastExists DEF LowestFree
  <2>3. LowestFree \in Fds
    BY <2>2 DEF FreeFds
  <2>4. PollTypeOK' /\ ArrayConsistent' /\ Watched' = Watched \cup {LowestFree}
    BY <1>0, <1>5, <2>3, AddKeeps DEF addNewSocket
  <2>5. ready' \subseteq ready /\ socketNumber' = -1 /\ stdinHungUp' = stdinHungUp
    BY <1>5 DEF addNewSocket
  <2> QED
    BY <1>0, <1>1, <2>3, <2>4, <2>5 DEF IInv, TypeOK, OnlyOpenHandled
<1>6. CASE ReadPDU
  <2>1. UNCHANGED <<pollVars, stdinHungUp>> /\ ready' \subseteq ready /\ socketNumber' = -1
    BY <1>6 DEF ReadPDU
  <2>2. -1 # 0
    OBVIOUS
  <2> QED
    BY <1>0, <1>1, <2>1, <2>2, UnchangedPoll DEF IInv, TypeOK, OnlyOpenHandled
<1>7. CASE ClientClosed
  <2>1. socketNumber \in Watched
    BY <1>7 DEF ClientClosed, IInv, OnlyOpenHandled
  <2>2. PollTypeOK' /\ ArrayConsistent' /\ Watched' = Watched \ {socketNumber}
    BY <1>0, <1>7, <2>1, RemoveKeeps DEF ClientClosed
  <2>3. ready' = ready \ {socketNumber} /\ socketNumber' = -1 /\ stdinHungUp' = stdinHungUp
    BY <1>7 DEF ClientClosed
  <2> QED
    BY <1>0, <1>1, <2>2, <2>3 DEF IInv, TypeOK, OnlyOpenHandled
<1>8. CASE Ignored
  <2>1. UNCHANGED <<pollVars, ready, stdinHungUp>> /\ socketNumber' = -1
    BY <1>8 DEF Ignored
  <2>2. -1 # 0
    OBVIOUS
  <2> QED
    BY <1>0, <1>1, <2>1, <2>2, UnchangedPoll DEF IInv, TypeOK, OnlyOpenHandled
<1>9. CASE InputArrives
  <2>1. UNCHANGED <<pollVars, stdinHungUp, socketNumber>>
    BY <1>9 DEF InputArrives
  <2>2. ready' \subseteq Watched
    BY <1>0, <1>9 DEF InputArrives
  <2> QED
    BY <1>0, <2>1, <2>2, UnchangedPoll DEF IInv, TypeOK, OnlyOpenHandled
<1>10. CASE HangUp
  <2>1. UNCHANGED <<pollVars, ready, socketNumber>> /\ stdinHungUp' = TRUE
    BY <1>10 DEF HangUp
  <2> QED
    BY <1>0, <2>1, UnchangedPoll DEF IInv, TypeOK, OnlyOpenHandled
<1> QED
  BY <1>2, <1>3, <1>4, <1>5, <1>6, <1>7, <1>8, <1>9, <1>10 DEF Next, Server

\* The array, the readiness and the handled descriptor agree in every state.
THEOREM Inductive == Spec => []IInv
BY InitIInv, NextIInv, PTL DEF Spec

\* Types of the poll set of pollLib.c and of the loop of server.c.
THEOREM TypeCorrect == Spec => []TypeOK
<1>1. IInv => TypeOK
  BY DEF IInv
<1> QED
  BY <1>1, Inductive, PTL

\* poll(2) reads allocated elements only, and every watched one.
THEOREM ArrayStaysConsistent == Spec => []ArrayConsistent
<1>1. IInv => ArrayConsistent
  BY DEF IInv
<1> QED
  BY <1>1, Inductive, PTL

\* The loop never handles a descriptor it has closed.
THEOREM HandledIsOpen == Spec => []OnlyOpenHandled
<1>1. IInv => OnlyOpenHandled
  BY DEF IInv
<1> QED
  BY <1>1, Inductive, PTL

\* server.c:91-98.  Once standard input has hung up and the handler that was running
\* has ended, no client is ever handled again: every pollCall answers 0, which the
\* loop has no branch for.
THEOREM SpinsForGood == Spec => SpinsAfterHangUp
<1> DEFINE Spinning == stdinHungUp /\ socketNumber <= 0
<1>1. stdinHungUp /\ socketNumber = -1 => Spinning
  OBVIOUS
<1>2. ASSUME IInv, [Next]_vars, Spinning PROVE Spinning'
  <2>2. CASE Poll
    BY <1>2, <2>2, HungUpResult DEF Poll
  <2>3. CASE Ignored
    BY <1>2, <2>3 DEF Ignored
  <2>4. CASE Begin \/ InputArrives \/ HangUp \/ UNCHANGED vars
    BY <1>2, <2>4 DEF Begin, InputArrives, HangUp, vars
  <2>5. ~addNewSocket /\ ~ReadPDU /\ ~ClientClosed
    <3>1. socketNumber \in Int /\ mainServerSocket \in Nat /\ mainServerSocket > 0
      BY <1>2, FdRange, LoopAssumption DEF IInv, TypeOK
    <3>2. ~(socketNumber = mainServerSocket) /\ ~(socketNumber > mainServerSocket)
      BY <1>2, <3>1
    <3> QED
      BY <3>2 DEF addNewSocket, ReadPDU, ClientClosed
  <2> QED
    BY <1>2, <2>2, <2>3, <2>4, <2>5 DEF Next, Server
<1>3. Spinning => socketNumber <= 0
  OBVIOUS
<1> QED
  BY <1>1, <1>2, <1>3, Inductive, PTL DEF Spec, SpinsAfterHangUp

-----------------------------------------------------------------------------
\* A step of the loop is a step of the watch set: an operation of server.c adds or
\* removes one descriptor, and pollCall answers with one of them.
LEMMA WatchSetStep ==
    ASSUME IInv, [Next]_vars PROVE [W!Next]_<<Watched, answer>>
<1>0. PollTypeOK /\ ArrayConsistent /\ mainServerSocket \in Fds
  BY LoopAssumption DEF IInv, TypeOK
<1>2. CASE UNCHANGED vars
  BY <1>2, UnchangedPoll DEF vars, pollVars, answer
<1>3. CASE Begin
  <2>1. /\ Watched' = Watched \cup {mainServerSocket}
        /\ answer' = -1
    BY <1>0, <1>3, AddKeeps DEF Begin, answer
  <2> QED
    BY <1>0, <2>1 DEF W!Next, W!Watch
<1>4. CASE Poll
  <2>1. Watched' = Watched
    BY <1>4, UnchangedPoll DEF Poll
  <2>2. answer' \in Watched \cup {-1}
    BY <1>4, PollResult DEF answer
  <2> QED
    BY <2>1, <2>2 DEF W!Next, W!Answer
<1>5. CASE addNewSocket
  <2>1. FreeFds \in SUBSET Nat /\ FreeFds # {}
    BY <1>5, FdRange DEF addNewSocket, FreeFds
  <2>2. LowestFree \in Fds
    BY <2>1, LeastExists DEF LowestFree, FreeFds
  <2>3. /\ Watched' = Watched \cup {LowestFree}
        /\ answer' = -1
    BY <1>0, <1>5, <2>2, AddKeeps DEF addNewSocket, answer
  <2> QED
    BY <2>2, <2>3 DEF W!Next, W!Watch
<1>6. CASE ReadPDU \/ Ignored
  <2>1. Watched' = Watched /\ answer' = -1
    BY <1>6, UnchangedPoll DEF ReadPDU, Ignored, answer
  <2> QED
    BY <2>1 DEF W!Next, W!Answer
<1>7. CASE ClientClosed
  <2>1. socketNumber \in Watched
    BY <1>7 DEF ClientClosed, IInv, OnlyOpenHandled
  <2>2. socketNumber \in Fds
    BY <2>1 DEF IInv
  <2>3. /\ Watched' = Watched \ {socketNumber}
        /\ answer' = -1
    BY <1>0, <1>7, <2>1, RemoveKeeps DEF ClientClosed, answer
  <2> QED
    BY <2>2, <2>3 DEF W!Next, W!Forget
<1>8. CASE InputArrives
  BY <1>8, UnchangedPoll DEF InputArrives, answer
<1>9. CASE HangUp
  BY <1>9, UnchangedPoll DEF HangUp, answer
<1> QED
  BY <1>2, <1>3, <1>4, <1>5, <1>6, <1>7, <1>8, <1>9 DEF Next, Server

\* pollCall answers with a watched descriptor or with none, through every add,
\* removal, reuse and growth; after a hang-up of standard input, with 0 or none.
THEOREM LoopImplementsWatchSet == Spec => ImplementsWatchSet
<1>1. Init => W!Init
  <2>1. Init => Watched = {}
    BY DEF Init, setupPollSet, Watched, Watching, Unused
  <2> QED
    BY <2>1 DEF Init, W!Init, answer
<1>2. IInv /\ [Next]_vars => [W!Next]_<<Watched, answer>>
  BY WatchSetStep
<1> QED
  BY <1>1, <1>2, Inductive, PTL DEF Spec, ImplementsWatchSet, W!Spec
=============================================================================
