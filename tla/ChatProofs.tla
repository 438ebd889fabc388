------------------------------ MODULE ChatProofs ------------------------------
(***************************************************************************)
(* Proofs about the chat: its types, descriptors and registrations, then   *)
(* what it delivers, to whom, in which order and how whole.                *)
(*                                                                         *)
(* The server's poll set and handle table are those of PollLoop and        *)
(* HandleTable, whose lemmas are used here for the server's loop: nothing  *)
(* hangs up descriptor 0, and there are no more entries than clients.      *)
(***************************************************************************)
EXTENDS ChatProperties, CommonLemmas, FiniteSetTheorems, TLAPS

PL == INSTANCE PollLoopProofs WITH
        Fds <- {mainServerSocket} \cup ClientFds,
        ready <- Readable, stdinHungUp <- FALSE, socketNumber <- Polled

HTP == INSTANCE HandleTableProofs WITH
        Sockets <- ClientFds, Readings <- Strings \X Strings,
        MaxEntries <- Cardinality(Clients)

-----------------------------------------------------------------------------
(* The poll set *)

\* What the lemmas of the poll set and of the handle table assume of descriptors.
LEMMA FdsOfServer ==
    /\ PL!PollSetAssumption /\ PL!LoopAssumption
    /\ ClientFds \subseteq Nat \ {0} /\ mainServerSocket \notin ClientFds
    /\ mainServerSocket \in Nat \ {0}
<1>1. ASSUME NEW fd \in ClientFds PROVE fd \in Nat \ {0} /\ fd # mainServerSocket /\ fd >= mainServerSocket
  BY ChatAssumption
<1>2. mainServerSocket \in Nat \ {0} /\ mainServerSocket >= mainServerSocket
  BY ChatAssumption
<1>3. PL!PollSetAssumption
  BY <1>1, <1>2, ChatAssumption DEF PL!PollSetAssumption
<1>4. PL!LoopAssumption
  BY <1>1, <1>2 DEF PL!LoopAssumption
<1> QED
  BY <1>1, <1>2, <1>3, <1>4

\* A descriptor that is added is watched, and what was watched before.
LEMMA AddWatches ==
    ASSUME PS!PollTypeOK, PS!ArrayConsistent,
           NEW fd \in {mainServerSocket} \cup ClientFds, PS!addToPollSet(fd)
    PROVE  PS!PollTypeOK' /\ PS!ArrayConsistent' /\ PS!Watched' = PS!Watched \cup {fd}
<1>1. PL!PollTypeOK /\ PL!ArrayConsistent /\ PL!addToPollSet(fd)
  BY DEF PL!PollTypeOK, PL!ArrayConsistent, PL!addToPollSet, PS!PollTypeOK,
         PS!ArrayConsistent, PS!addToPollSet, PL!POLLIN, PS!POLLIN, PL!Unused, PS!Unused,
         PL!Watching, PS!Watching, PL!Grown, PS!Grown, PL!SizeFor, PS!SizeFor,
         PL!GrowRefused, PS!GrowRefused
<1>2. PL!PollTypeOK' /\ PL!ArrayConsistent' /\ PL!Watched' = PL!Watched \cup {fd}
  BY <1>1, FdsOfServer, PL!AddKeeps
<1> QED
  BY <1>2 DEF PL!PollTypeOK, PL!ArrayConsistent, PS!PollTypeOK, PS!ArrayConsistent,
              PL!POLLIN, PS!POLLIN, PL!Unused, PS!Unused, PL!Watching, PS!Watching,
              PL!Watched, PS!Watched

\* A descriptor that is removed is not watched any more; the others are.
LEMMA RemoveWatches ==
    ASSUME PS!PollTypeOK, PS!ArrayConsistent, NEW fd \in PS!Watched, PS!removeFromPollSet(fd)
    PROVE  PS!PollTypeOK' /\ PS!ArrayConsistent' /\ PS!Watched' = PS!Watched \ {fd}
<1>1. PL!PollTypeOK /\ PL!ArrayConsistent /\ PL!removeFromPollSet(fd) /\ fd \in PL!Watched
  BY DEF PL!PollTypeOK, PL!ArrayConsistent, PL!removeFromPollSet, PS!PollTypeOK,
         PS!ArrayConsistent, PS!removeFromPollSet, PL!POLLIN, PS!POLLIN, PL!Unused,
         PS!Unused, PL!Watching, PS!Watching, PL!Watched, PS!Watched
<1>2. PL!PollTypeOK' /\ PL!ArrayConsistent' /\ PL!Watched' = PL!Watched \ {fd}
  BY <1>1, FdsOfServer, PL!RemoveKeeps
<1> QED
  BY <1>2 DEF PL!PollTypeOK, PL!ArrayConsistent, PS!PollTypeOK, PS!ArrayConsistent,
              PL!POLLIN, PS!POLLIN, PL!Unused, PS!Unused, PL!Watching, PS!Watching,
              PL!Watched, PS!Watched

\* setupPollSet makes a well formed set that watches nothing.
LEMMA SetupWatches ==
    ASSUME PS!setupPollSet
    PROVE  PS!PollTypeOK /\ PS!ArrayConsistent /\ PS!Watched = {}
<1>1. POLL_SET_SIZE \in Nat /\ POLL_SET_SIZE > 0
  BY ChatAssumption
<1>2. PS!PollTypeOK
  BY <1>1 DEF PS!setupPollSet, PS!PollTypeOK, PS!Unused
<1>3. PS!ArrayConsistent
  BY <1>1 DEF PS!setupPollSet, PS!ArrayConsistent
<1>4. PS!Watched = {}
  BY DEF PS!setupPollSet, PS!Watched, PS!Watching, PS!Unused
<1> QED
  BY <1>2, <1>3, <1>4

\* Whoever pollCall returns has something to read, and the server waits for nothing
\* else: its last handler is done.
LEMMA PolledIs ==
    ASSUME PS!PollTypeOK, PS!ArrayConsistent, Polled # -1
    PROVE  server = "up" /\ todo = << >> /\ Polled \in PS!Watched /\ Polled \in Readable
<1>1. server = "up" /\ todo = << >> /\ Polled = PS!pollCall(Readable, {})
  BY DEF Polled
<1>2. PL!PollTypeOK /\ PL!ArrayConsistent
  BY DEF PL!PollTypeOK, PL!ArrayConsistent, PS!PollTypeOK, PS!ArrayConsistent,
         PL!POLLIN, PS!POLLIN, PL!Unused, PS!Unused, PL!Watching, PS!Watching
<1>3. /\ PL!pollCall(Readable, {}) \in PL!Reported(Readable, {}) \cup {-1}
      /\ PL!Reported(Readable, {}) \subseteq PL!Watched \cap Readable
  BY <1>2, FdsOfServer, PL!PollCallReported, PL!ReportedWatched
<1>4. PL!pollCall(Readable, {}) = Polled /\ PL!Watched = PS!Watched
  BY <1>1 DEF PL!pollCall, PS!pollCall, PL!Reported, PS!Reported, PL!POLLIN, PS!POLLIN,
              PL!Watched, PS!Watched, PL!Watching, PS!Watching
<1> QED
  BY <1>1, <1>3, <1>4

-----------------------------------------------------------------------------
(* The handle table *)

\* The server's table is one for which HandleTable's lemmas hold.
LEMMA TableOfServer ==
    /\ HTP!HandleTableAssumption /\ HTP!DoublingFits
    /\ Cardinality(Clients) \in Nat
<1>1. Cardinality(Clients) \in Nat
  BY ChatAssumption, FS_CardinalityType
<1> QED
  BY <1>1, FdsOfServer, ChatAssumption DEF HTP!HandleTableAssumption, HTP!DoublingFits

\* No more entries than clients, and room for them.
TableFits ==
    /\ Len(handle_table_entries) <= table_size /\ ~overrun
    /\ Len(handle_table_entries) <= Cardinality(Clients)

\* While there are more clients than entries add_entry has room, and what it stores
\* goes behind the entries that are there.
LEMMA EntryStored ==
    ASSUME HT!TypeOK, TableFits, Len(handle_table_entries) < Cardinality(Clients),
           NEW fd \in ClientFds, NEW compared \in Strings, NEW stored \in Strings,
           HT!add_stored(fd, compared, stored)
    PROVE  /\ HT!TypeOK' /\ TableFits' /\ HT!get_socket(compared) = 0
           /\ handle_table_entries' =
                Append(handle_table_entries, [socket_number |-> fd, handle_name |-> stored])
<1>1. HTP!TypeOK /\ HTP!add_stored(fd, compared, stored)
  BY DEF HTP!TypeOK, HT!TypeOK, HTP!Entry, HT!Entry, HTP!add_stored, HT!add_stored,
         HTP!get_socket, HT!get_socket, HTP!SizeForNext, HT!SizeForNext, HTP!entry_count,
         HT!entry_count, HTP!WithName, HT!WithName, HTP!First, HT!First
<1>2. Len(handle_table_entries) \in Nat
  BY DEF HT!TypeOK
<1>3. HTP!BoundInv
  BY <1>2 DEF TableFits, HTP!BoundInv, HTP!entry_count
<1>4. HTP!Next
  <2>1. PICK r \in Strings \X Strings : r[1] = compared /\ r[2] = stored
    <3>1. <<compared, stored>> \in Strings \X Strings
      OBVIOUS
    <3> QED
      BY <3>1
  <2>2. HTP!entry_count < Cardinality(Clients)
    BY DEF HTP!entry_count
  <2> QED
    BY <1>1, <2>1, <2>2 DEF HTP!Next
<1>5. HTP!TypeOK'
  BY <1>1, <1>4, TableOfServer, HTP!NextTypeOK
<1>6. HTP!BoundInv'
  BY <1>1, <1>3, <1>4, TableOfServer, HTP!NextBound
<1>7. ~overrun'
  BY <1>6 DEF HTP!BoundInv
<1>8. HT!get_socket(compared) = 0 /\ handle_table_entries' =
                Append(handle_table_entries, [socket_number |-> fd, handle_name |-> stored])
  BY <1>7 DEF HT!add_stored
<1> QED
  BY <1>5, <1>6, <1>8 DEF HTP!TypeOK, HT!TypeOK, HTP!Entry, HT!Entry, HTP!BoundInv,
                          HTP!entry_count, TableFits

\* get_socket answers 0 for a name that nobody has, and otherwise the socket of an
\* entry with the name.
LEMMA SocketFound ==
    ASSUME HT!TypeOK, NEW h \in Strings
    PROVE  \/ /\ HT!get_socket(h) = 0
              /\ \A i \in DOMAIN handle_table_entries : handle_table_entries[i].handle_name # h
           \/ \E i \in DOMAIN handle_table_entries :
                /\ handle_table_entries[i].handle_name = h
                /\ HT!get_socket(h) = handle_table_entries[i].socket_number
                /\ HT!get_socket(h) \in ClientFds
<1>1. CASE HT!WithName(h) = {}
  BY <1>1 DEF HT!get_socket, HT!WithName
<1>2. CASE HT!WithName(h) # {}
  <2>1. HTP!TypeOK /\ HTP!WithName(h) # {}
    BY <1>2 DEF HTP!TypeOK, HT!TypeOK, HTP!Entry, HT!Entry, HTP!WithName, HT!WithName
  <2>2. HTP!First(HTP!WithName(h)) \in HTP!WithName(h) /\ HTP!get_socket(h) \in ClientFds
    BY <2>1, TableOfServer, HTP!SocketOfName
  <2>3. PICK i : i = HTP!First(HTP!WithName(h))
    OBVIOUS
  <2>4. /\ i \in DOMAIN handle_table_entries /\ handle_table_entries[i].handle_name = h
        /\ HT!get_socket(h) = handle_table_entries[i].socket_number
        /\ HT!get_socket(h) = HTP!get_socket(h)
    BY <1>2, <2>1, <2>2, <2>3 DEF HT!get_socket, HTP!get_socket, HTP!WithName, HT!WithName,
                            HTP!First, HT!First
  <2> QED
    BY <2>2, <2>4
<1> QED
  BY <1>1, <1>2

\* get_socket answers with the first entry that has the name.
LEMMA FirstSocketFound ==
    ASSUME HT!TypeOK, NEW h \in Strings, NEW i \in DOMAIN handle_table_entries,
           handle_table_entries[i].handle_name = h
    PROVE  \E k \in DOMAIN handle_table_entries :
             /\ handle_table_entries[k].handle_name = h /\ k <= i
             /\ HT!get_socket(h) = handle_table_entries[k].socket_number
<1>1. i \in HT!WithName(h) /\ HT!WithName(h) \in SUBSET Nat
  BY DEF HT!WithName, HT!TypeOK
<1>2. PICK k \in HT!WithName(h) : k = HT!First(HT!WithName(h)) /\ \A j \in HT!WithName(h) : k <= j
  BY <1>1, LeastExists DEF HT!First
<1>3. HT!get_socket(h) = handle_table_entries[k].socket_number
  BY <1>1, <1>2 DEF HT!get_socket
<1>4. k \in DOMAIN handle_table_entries /\ handle_table_entries[k].handle_name = h /\ k <= i
  BY <1>1, <1>2 DEF HT!WithName
<1> QED
  BY <1>3, <1>4

\* A name that is sent in a list is one of the table.
LEMMA HandleFound ==
    ASSUME HT!TypeOK, NEW i \in DOMAIN handle_table_entries
    PROVE  HT!get_handle(handle_table_entries[i].socket_number) \in Strings
<1>1. PICK s : s = handle_table_entries[i].socket_number
  OBVIOUS
<1>2. i \in HT!WithSocket(s) /\ HT!WithSocket(s) \in SUBSET Nat
  BY <1>1 DEF HT!WithSocket, HT!TypeOK
<1>3. PICK j \in HT!WithSocket(s) : j = HT!First(HT!WithSocket(s))
  BY <1>2, LeastExists DEF HT!First
<1>4. HT!get_handle(s) = handle_table_entries[j].handle_name
  BY <1>2, <1>3 DEF HT!get_handle
<1>5. j \in DOMAIN handle_table_entries
  BY <1>3 DEF HT!WithSocket
<1>6. handle_table_entries[j] \in HT!Entry
  BY <1>5 DEF HT!TypeOK
<1> QED
  BY <1>1, <1>4, <1>6 DEF HT!Entry

-----------------------------------------------------------------------------
(* The handlers *)

\* A recipient of a broadcast is an entry of the table.
LEMMA BroadcastSends ==
    ASSUME HT!TypeOK, NEW fd, NEW pdu
    PROVE  messageBroadcast(fd, pdu) \in
             Seq({SendTo(handle_table_entries[i].socket_number, Shortened(pdu)) :
                    i \in DOMAIN handle_table_entries})
<1> DEFINE N == Len(handle_table_entries)
           socket(i) == handle_table_entries[i].socket_number
           x == Shortened(pdu)
           T == {SendTo(socket(i), x) : i \in DOMAIN handle_table_entries}
           Step(f, i) == IF i = 0 THEN << >>
                         ELSE IF socket(i) = fd THEN f[i - 1]
                         ELSE Append(f[i - 1], SendTo(socket(i), x))
           Sends(f, n) == f \in [0..n -> Seq(T)] /\ \A i \in 0..n : f[i] = Step(f, i)
           Bad == {n \in 0..N : ~\E f : Sends(f, n)}
<1>1. N \in Nat /\ DOMAIN handle_table_entries = 1..N
  BY DEF HT!TypeOK
<1>2. \A i \in 1..N : SendTo(socket(i), x) \in T
  BY <1>1
<1>3. messageBroadcast(fd, pdu) = (CHOOSE f : f = [i \in 0..N |-> Step(f, i)])[N]
  BY DEF messageBroadcast, HT!entry_count
<1> HIDE DEF T, socket, x
<1>4. Bad = {}
  <2> SUFFICES ASSUME Bad # {} PROVE FALSE
    OBVIOUS
  <2>1. Bad \in SUBSET Nat
    BY <1>1
  <2>2. PICK n \in Bad : \A m \in Bad : n <= m
    BY <2>1, LeastExists
  <2>3. n \in 0..N /\ ~\E f : Sends(f, n)
    BY <2>2
  <2>4. CASE n = 0
    <3>1. PICK f : f = [i \in 0..0 |-> << >>]
      OBVIOUS
    <3>2. Sends(f, 0)
      BY <3>1
    <3> QED
      BY <2>3, <2>4, <3>2
  <2>5. CASE n # 0
    <3>1. n - 1 \in 0..N /\ ~(n <= n - 1) /\ n \in 1..N
      BY <1>1, <2>3, <2>5
    <3>2. PICK f : Sends(f, n - 1)
      <4>1. n - 1 \notin Bad
        BY <2>2, <3>1
      <4> QED
        BY <3>1, <4>1
    <3>3. PICK g : g = [i \in 0..n |-> IF i < n THEN f[i] ELSE Step(f, n)]
      OBVIOUS
    <3>4. \A i \in 0..n - 1 : f[i] \in Seq(T) /\ f[i] = Step(f, i)
      BY <3>2
    <3>5. /\ \A i \in 0..n - 1 : g[i] = f[i] /\ i < n
          /\ g[n] = Step(f, n)
      BY <3>1, <3>3
    <3>6. Step(f, n) \in Seq(T)
      <4>1. n - 1 \in 0..n - 1
        BY <3>1
      <4>2. f[n - 1] \in Seq(T) /\ SendTo(socket(n), x) \in T
        BY <1>2, <3>1, <3>4, <4>1
      <4> QED
        BY <2>5, <4>2
    <3>7. g \in [0..n -> Seq(T)]
      <4>1. ASSUME NEW i \in 0..n PROVE (IF i < n THEN f[i] ELSE Step(f, n)) \in Seq(T)
        <5>1. i < n => i \in 0..n - 1
          BY <3>1
        <5> QED
          BY <3>4, <3>6, <5>1
      <4> QED
        BY <3>3, <4>1
    <3>8. ASSUME NEW i \in 0..n PROVE g[i] = Step(g, i)
      <4>1. i \in 0..n - 1 \/ i = n
        BY <3>1
      <4>2. i # 0 => i - 1 \in 0..n - 1
        BY <3>1
      <4>3. i # 0 => g[i - 1] = f[i - 1]
        BY <3>5, <4>2
      <4> QED
        BY <3>4, <3>5, <4>1, <4>3
    <3> QED
      BY <2>3, <3>7, <3>8
  <2> QED
    BY <2>4, <2>5
<1>5. PICK f : Sends(f, N)
  <2>1. N \in 0..N
    BY <1>1
  <2> QED
    BY <1>4, <2>1
<1>6. f = [i \in 0..N |-> Step(f, i)]
  BY <1>5
<1>7. PICK g : g = [i \in 0..N |-> Step(g, i)] /\ messageBroadcast(fd, pdu) = g[N]
  BY <1>3, <1>6
<1>8. \A i \in 0..N : g[i] = f[i]
  <2> DEFINE Apart == {i \in 0..N : g[i] # f[i]}
  <2> SUFFICES ASSUME Apart # {} PROVE FALSE
    OBVIOUS
  <2>1. Apart \in SUBSET Nat
    BY <1>1
  <2>2. PICK n \in Apart : \A m \in Apart : n <= m
    BY <2>1, LeastExists
  <2>3. n \in 0..N /\ g[n] = Step(g, n) /\ f[n] = Step(f, n)
    BY <1>5, <1>7, <2>2
  <2>4. n # 0 => n - 1 \in 0..N /\ n - 1 \notin Apart
    BY <1>1, <2>2, <2>3
  <2>5. n # 0 => g[n - 1] = f[n - 1]
    BY <2>4
  <2> QED
    BY <2>2, <2>3, <2>5
<1>9. N \in 0..N
  BY <1>1
<1>10. messageBroadcast(fd, pdu) \in Seq(T)
  BY <1>5, <1>7, <1>8, <1>9
<1> QED
  BY <1>10 DEF T, socket, x

\* What PDUs can be: what clients send, and what the server sends.
Messages == [flag : {4, 5, 6}, from : Clients, id : Nat, part : Nat, to : Seq(Strings),
             lost : Nat]

ClientPDUs ==
    {[flag |-> 0], [flag |-> 10]} \cup [flag : {1}, compared : Strings, stored : Strings]
      \cup Messages

ServerPDUs ==
    {[flag |-> 13]} \cup [flag : {11}, count : Nat] \cup [flag : {12}, name : Strings]
      \cup Messages

Sendings == [fd : ClientFds \cup {0}, pdu : ServerPDUs]

\* The names by which messageSend sends are strings; 0 is what it sends to nobody.
LEMMA MessageSends ==
    ASSUME HT!TypeOK, NEW pdu \in Messages
    PROVE  messageSend(pdu) \in Seq(Sendings) /\ Len(messageSend(pdu)) = Len(pdu.to)
<1>1. pdu.to \in Seq(Strings)
  BY DEF Messages
<1>2. ASSUME NEW i \in 1 .. Len(pdu.to)
      PROVE  SendTo(HT!get_socket(pdu.to[i]), pdu) \in Sendings
  <2>1. pdu.to[i] \in Strings
    BY <1>1
  <2>2. HT!get_socket(pdu.to[i]) \in ClientFds \cup {0}
    BY <2>1, SocketFound
  <2> QED
    BY <2>2 DEF SendTo, Sendings, ServerPDUs
<1>3. Len(pdu.to) \in Nat
  BY <1>1
<1> QED
  BY <1>2, <1>3 DEF messageSend

\* The same message, cut short or not.
SameMessage(x, pdu) ==
    x.flag = pdu.flag /\ x.from = pdu.from /\ x.id = pdu.id /\ x.part = pdu.part /\ x.to = pdu.to

LEMMA ShortenedIs ==
    ASSUME NEW pdu \in Messages
    PROVE  Shortened(pdu) \in Messages /\ SameMessage(Shortened(pdu), pdu) /\ SameMessage(pdu, pdu)
BY DEF Shortened, SameMessage, Messages

\* A broadcast goes to entries of the table.
LEMMA BroadcastTypes ==
    ASSUME HT!TypeOK, NEW fd, NEW pdu \in Messages
    PROVE  /\ messageBroadcast(fd, pdu) \in Seq(Sendings)
           /\ \A k \in DOMAIN messageBroadcast(fd, pdu) :
                \E i \in DOMAIN handle_table_entries :
                  messageBroadcast(fd, pdu)[k] = SendTo(handle_table_entries[i].socket_number, Shortened(pdu))
<1> DEFINE b == messageBroadcast(fd, pdu)
           T == {SendTo(handle_table_entries[i].socket_number, Shortened(pdu)) :
                    i \in DOMAIN handle_table_entries}
<1>1. b \in Seq(T)
  BY BroadcastSends
<1>2. T \subseteq Sendings
  <2> SUFFICES ASSUME NEW i \in DOMAIN handle_table_entries
               PROVE  SendTo(handle_table_entries[i].socket_number, Shortened(pdu)) \in Sendings
    OBVIOUS
  <2>1. handle_table_entries[i] \in HT!Entry
    BY DEF HT!TypeOK
  <2> QED
    BY <2>1, ShortenedIs DEF HT!Entry, SendTo, Sendings, ServerPDUs
<1> HIDE DEF b
<1>3. \A k \in DOMAIN b : b[k] \in T
  BY <1>1
<1>4. b \in Seq(Sendings)
  <2>1. Len(b) \in Nat /\ b \in [1 .. Len(b) -> T]
    BY <1>1
  <2> HIDE DEF T
  <2>2. b \in [1 .. Len(b) -> Sendings]
    BY <1>2, <2>1
  <2> QED
    BY <2>1, <2>2
<1> QED
  BY <1>3, <1>4 DEF b

\* A list is the count, then a name for each entry, then the end, all to the one
\* who asked.
LEMMA ListSends ==
    ASSUME HT!TypeOK, NEW fd \in ClientFds
    PROVE  LET n == Len(handle_table_entries) IN
           /\ listSend(fd) \in Seq(Sendings) /\ Len(listSend(fd)) = n + 2 /\ n \in Nat
           /\ listSend(fd)[1] = SendTo(fd, [flag |-> 11, count |-> n])
           /\ \A k \in 1 .. n : \E name \in Strings :
                listSend(fd)[k + 1] = SendTo(fd, [flag |-> 12, name |-> name])
           /\ listSend(fd)[n + 2] = SendTo(fd, [flag |-> 13])
<1> DEFINE n == Len(handle_table_entries)
           name(k) == HT!get_handle(handle_table_entries[k].socket_number)
           a == << SendTo(fd, [flag |-> 11, count |-> n]) >>
           b == [k \in 1 .. n |-> SendTo(fd, [flag |-> 12, name |-> name(k)])]
           c == << SendTo(fd, [flag |-> 13]) >>
<1>1. n \in Nat /\ DOMAIN handle_table_entries = 1 .. n
  BY DEF HT!TypeOK
<1>2. listSend(fd) = a \o b \o c
  BY DEF listSend, HT!entry_count
<1>3. \A k \in 1 .. n : name(k) \in Strings
  BY <1>1, HandleFound
<1> HIDE DEF n, name
<1>4. /\ \A k \in 1 .. n : SendTo(fd, [flag |-> 12, name |-> name(k)]) \in Sendings
      /\ SendTo(fd, [flag |-> 11, count |-> n]) \in Sendings
      /\ SendTo(fd, [flag |-> 13]) \in Sendings
  BY <1>1, <1>3 DEF SendTo, Sendings, ServerPDUs
<1>5. /\ a \in Seq(Sendings) /\ Len(a) = 1 /\ a[1] = SendTo(fd, [flag |-> 11, count |-> n])
      /\ b \in Seq(Sendings) /\ Len(b) = n
      /\ \A k \in 1 .. n : b[k] = SendTo(fd, [flag |-> 12, name |-> name(k)])
      /\ c \in Seq(Sendings) /\ Len(c) = 1 /\ c[1] = SendTo(fd, [flag |-> 13])
  BY <1>1, <1>4
<1> HIDE DEF a, b, c
<1> DEFINE ab == a \o b
<1>6. /\ ab \in Seq(Sendings) /\ Len(ab) = Len(a) + Len(b)
      /\ \A i \in 1 .. Len(a) : ab[i] = a[i]
      /\ \A k \in 1 .. Len(b) : ab[Len(a) + k] = b[k]
  <2>1. a \in Seq(Sendings) /\ b \in Seq(Sendings)
    BY <1>5
  <2>2. ab \in Seq(Sendings) /\ Len(ab) = Len(a) + Len(b)
    BY <2>1, ConcatAt
  <2>3. \A i \in 1 .. Len(a) : ab[i] = a[i]
    BY <2>1, ConcatAt
  <2>4. \A k \in 1 .. Len(b) : ab[Len(a) + k] = b[k]
    BY <2>1, ConcatAt
  <2> QED
    BY <2>2, <2>3, <2>4
<1> HIDE DEF ab
<1>7. /\ ab \o c \in Seq(Sendings) /\ Len(ab \o c) = Len(ab) + 1
      /\ \A i \in 1 .. Len(ab) : (ab \o c)[i] = ab[i]
      /\ \A i \in 1 .. Len(c) : (ab \o c)[Len(ab) + i] = c[i]
  <2>1. ab \in Seq(Sendings) /\ c \in Seq(Sendings)
    BY <1>5, <1>6
  <2>0. ab \o c \in Seq(Sendings) /\ Len(ab \o c) = Len(ab) + Len(c)
    BY <2>1, ConcatAt
  <2>2. Len(ab \o c) = Len(ab) + 1
    BY <1>5, <2>0
  <2>3. \A i \in 1 .. Len(ab) : (ab \o c)[i] = ab[i]
    BY <2>1, ConcatAt
  <2>4. \A i \in 1 .. Len(c) : (ab \o c)[Len(ab) + i] = c[i]
    BY <2>1, ConcatAt
  <2> QED
    BY <2>0, <2>2, <2>3, <2>4
<1>8. Len(ab) = 1 + n /\ ab[1] = a[1] /\ \A k \in 1 .. n : ab[1 + k] = b[k]
  BY <1>1, <1>5, <1>6
<1> DEFINE l == ab \o c
<1>9. listSend(fd) = l
  BY <1>2 DEF ab
<1> HIDE DEF l
<1>10. l \in Seq(Sendings) /\ Len(l) = n + 2
  BY <1>1, <1>7, <1>8 DEF l
<1>11. l[1] = SendTo(fd, [flag |-> 11, count |-> n])
  <2>1. 1 \in 1 .. Len(ab)
    BY <1>1, <1>8
  <2> QED
    BY <1>5, <1>7, <1>8, <2>1 DEF l
<1>12. ASSUME NEW k \in 1 .. n PROVE l[k + 1] = SendTo(fd, [flag |-> 12, name |-> name(k)])
  <2>1. k + 1 = 1 + k /\ 1 + k \in 1 .. Len(ab)
    BY <1>1, <1>8
  <2> QED
    BY <1>5, <1>7, <1>8, <2>1 DEF l
<1>13. l[n + 2] = SendTo(fd, [flag |-> 13])
  <2>1. n + 2 = Len(ab) + 1 /\ 1 \in 1 .. Len(c)
    BY <1>1, <1>5, <1>8
  <2> QED
    BY <1>5, <1>7, <2>1 DEF l
<1> QED
  BY <1>1, <1>3, <1>9, <1>10, <1>11, <1>12, <1>13 DEF n

-----------------------------------------------------------------------------
(* The inductive invariant *)

\* Types of everything, the PDUs on their way included.
Types ==
    /\ HT!TypeOK /\ PS!PollTypeOK /\ PS!ArrayConsistent
    /\ server \in {"starting", "up", "exited"}
    /\ connOf \in [ClientFds -> Clients \cup {NoClient}]
    /\ closed \subseteq Clients /\ reset \subseteq Clients /\ refused \subseteq Clients
    /\ client \in [Clients -> {"start", "connected", "loop", "deaf", "exited", "terminated"}]
    /\ typed \in [Clients -> 0..MaxLines]
    /\ backlog \in Seq(Clients) /\ registrant \in Seq(Clients) /\ todo \in Seq(Sendings)
    /\ Len(registrant) = Len(handle_table_entries)
    /\ outgoing \in [Clients -> Seq(ClientPDUs)] /\ toServer \in [Clients -> Seq(ClientPDUs)]
    /\ toClient \in [Clients -> Seq(ServerPDUs)] /\ received \in [Clients -> Seq(ServerPDUs)]

\* A client's connection waits in the backlog once, then has one descriptor, then is
\* closed; the descriptors that are open are those that the poll set watches.
Connections ==
    /\ server = "starting" => PS!Watched = {} /\ todo = << >> /\ \A fd \in ClientFds : ~Open(fd)
    /\ server = "up" =>
         PS!Watched = {mainServerSocket} \cup {fd \in ClientFds : Open(fd)}
    /\ server = "exited" =>
         /\ backlog = << >> /\ todo = << >> /\ \A fd \in ClientFds : ~Open(fd)
         /\ \A c \in Clients : toServer[c] = << >>
    /\ \A f, g \in ClientFds : Open(f) /\ connOf[f] = connOf[g] => f = g
    /\ \A i, j \in DOMAIN backlog : backlog[i] = backlog[j] => i = j
    /\ \A i \in DOMAIN backlog :
         /\ client[backlog[i]] # "start" /\ backlog[i] \notin closed
         /\ \A fd \in ClientFds : connOf[fd] # backlog[i]
    /\ \A fd \in ClientFds :
         Open(fd) => client[connOf[fd]] # "start" /\ connOf[fd] \notin closed
    /\ \A c \in closed : client[c] # "start" /\ toServer[c] = << >>

Registered(c) == \E i \in DOMAIN registrant : registrant[i] = c
Answered(c) == c \in refused \/ Registered(c)
Introduces(pdu) == pdu.flag \in {0, 1}

\* A client introduces itself once, before anything else, and the server has not
\* answered while that PDU is on its way.
Introductions ==
    /\ \A c \in Clients :
         client[c] \in {"start", "connected"} =>
           /\ outgoing[c] = << >> /\ toServer[c] = << >> /\ ~Answered(c)
    /\ \A c \in Clients : \A k \in DOMAIN toServer[c] :
         Introduces(toServer[c][k]) => k = 1 /\ ~Answered(c)
    /\ \A c \in Clients : \A k \in DOMAIN outgoing[c] :
         Introduces(outgoing[c][k]) => k = 1 /\ toServer[c] = << >> /\ ~Answered(c)

\* A client is registered once, under the descriptor of its connection, and that is
\* not closed before the client exits.
Registrants ==
    /\ TableFits
    /\ \A i, j \in DOMAIN registrant : registrant[i] = registrant[j] => i = j
    /\ \A i \in DOMAIN registrant :
         \/ connOf[handle_table_entries[i].socket_number] = registrant[i]
         \/ registrant[i] \in closed \/ server = "exited"
    /\ \A c \in closed : client[c] = "exited" \/ ~Answered(c)
    /\ \A c \in Clients : client[c] = "terminated" => CutOff(c)
    /\ \A c \in reset : Gone(c)

IInv == Types /\ Connections /\ Introductions /\ Registrants

Clean(pdu) == pdu.flag = 1 => pdu.stored \in StaleNames \/ pdu.compared = pdu.stored
AllClean(s) == \A k \in DOMAIN s : Clean(s[k])

NameAt(i) == handle_table_entries[i].handle_name

\* add_entry's comparison keeps the name of an entry apart from those before it, unless
\* the handle arrived without its terminator.
CleanNamesOnly ==
    /\ \A c \in Clients : AllClean(toServer[c]) /\ AllClean(outgoing[c])
    /\ \A i, j \in DOMAIN handle_table_entries :
         NameAt(i) = NameAt(j) => i = j \/ NameAt(i) \in StaleNames

-----------------------------------------------------------------------------
(* What the types say of PDUs, and what pollCall's answer says of a client *)

LEMMA ClientPDUKinds ==
    ASSUME NEW pdu \in ClientPDUs
    PROVE  /\ pdu.flag \in {0, 1, 4, 5, 6, 10}
           /\ pdu.flag = 1 => pdu.compared \in Strings /\ pdu.stored \in Strings
           /\ IsMessage(pdu) => pdu \in Messages
BY DEF ClientPDUs, Messages, IsMessage

LEMMA RegistrationKinds ==
    ASSUME NEW c \in Clients, NEW pdu \in RegistrationPDUs(c)
    PROVE  /\ pdu \in ClientPDUs /\ Introduces(pdu)
           /\ Clean(pdu)
<1>1. HandleOf[c] \in Strings /\ StaleStrings \subseteq Strings
  BY ChatAssumption
<1>2. CASE pdu = [flag |-> 0]
  BY <1>2 DEF ClientPDUs, Introduces, Clean
<1>3. CASE pdu = [flag |-> 1, compared |-> HandleOf[c], stored |-> HandleOf[c]]
  BY <1>1, <1>3 DEF ClientPDUs, Introduces, Clean
<1>4. ASSUME "stale" \in Registrations, NEW s \in StaleStrings \X StaleStrings,
             pdu = [flag |-> 1, compared |-> s[1], stored |-> s[2]]
      PROVE  pdu \in ClientPDUs /\ Introduces(pdu) /\ Clean(pdu)
  BY <1>1, <1>4 DEF ClientPDUs, Introduces, Clean, StaleNames
<1> QED
  BY <1>2, <1>3, <1>4 DEF RegistrationPDUs

LEMMA LineKinds ==
    ASSUME typed \in [Clients -> 0..MaxLines], NEW c \in Clients, NEW line \in Lines
    PROVE  /\ LinePDUs(c, line) \in Seq(ClientPDUs)
           /\ \A k \in DOMAIN LinePDUs(c, line) : ~Introduces(LinePDUs(c, line)[k])
<1>1. CASE line.flag = 10
  BY <1>1 DEF LinePDUs, ClientPDUs, Introduces
<1>2. CASE line.flag # 10
  <2>1. line.flag \in {4, 5, 6} /\ line.to \in Seq(Strings) /\ line.parts \in Nat
    BY <1>2, ChatAssumption
  <2>2. typed[c] + 1 \in Nat
    BY ChatAssumption
  <2> DEFINE part(p) == [flag |-> line.flag, from |-> c, id |-> typed[c] + 1,
                         part |-> p, to |-> line.to, lost |-> 0]
  <2>3. LinePDUs(c, line) = [p \in 1..line.parts |-> part(p)]
    BY <1>2 DEF LinePDUs
  <2>4. ASSUME NEW p \in 1..line.parts PROVE part(p) \in ClientPDUs /\ ~Introduces(part(p))
    BY <2>1, <2>2 DEF ClientPDUs, Messages, Introduces
  <2> HIDE DEF part
  <2>5. PICK n \in Nat : n = line.parts
    BY <2>1
  <2>6. PICK q : q = [p \in 1..n |-> part(p)]
    OBVIOUS
  <2>7. q \in Seq(ClientPDUs) /\ DOMAIN q = 1..n
    BY <2>4, <2>5, <2>6
  <2>8. \A k \in DOMAIN q : ~Introduces(q[k])
    BY <2>4, <2>5, <2>6, <2>7
  <2> QED
    BY <2>3, <2>5, <2>6, <2>7, <2>8
<1> QED
  BY <1>1, <1>2

\* A handler sends what a server can send.
LEMMA HandlerTypes ==
    ASSUME HT!TypeOK, NEW fd \in ClientFds, NEW pdu \in ClientPDUs, ~Introduces(pdu)
    PROVE  Handler(fd, pdu) \in Seq(Sendings)
<1>1. pdu.flag \in {4, 5, 6, 10} /\ (IsMessage(pdu) => pdu \in Messages)
  BY ClientPDUKinds DEF Introduces
<1>2. CASE pdu.flag = 10
  BY <1>2, ListSends DEF Handler
<1>3. CASE pdu.flag \in {5, 6}
  BY <1>1, <1>3, MessageSends DEF Handler, IsMessage
<1>4. CASE pdu.flag = 4
  <2>1. messageBroadcast(fd, pdu) \in Seq(Sendings) /\ messageSend(pdu) \in Seq(Sendings)
    BY <1>1, <1>4, MessageSends, BroadcastTypes DEF IsMessage
  <2>2. Handler(fd, pdu) = messageBroadcast(fd, pdu) \o messageSend(pdu)
    BY <1>4 DEF Handler
  <2> QED
    BY <2>1, <2>2
<1> QED
  BY <1>1, <1>2, <1>3, <1>4

\* A descriptor that pollCall returns has a client behind it that has sent something
\* or is gone, and no handler is running.
LEMMA PolledClient ==
    ASSUME Types, Connections, NEW fd \in ClientFds, Polled = fd
    PROVE  /\ server = "up" /\ todo = << >> /\ fd \in PS!Watched /\ Open(fd)
           /\ connOf[fd] \in Clients /\ connOf[fd] \notin closed
           /\ toServer[connOf[fd]] # << >> \/ Gone(connOf[fd])
           /\ toServer[connOf[fd]] \in Seq(ClientPDUs)
<1>1. fd # -1 /\ fd # mainServerSocket
  BY FdsOfServer
<1>2. server = "up" /\ todo = << >> /\ fd \in PS!Watched /\ fd \in Readable
  BY <1>1, PolledIs DEF Types
<1>3. Open(fd) /\ (toServer[connOf[fd]] # << >> \/ Gone(connOf[fd]))
  BY <1>1, <1>2 DEF Readable
<1>4. connOf[fd] \in Clients
  BY <1>3 DEF Types, Open
<1>5. connOf[fd] \notin closed
  BY <1>3 DEF Connections
<1>6. toServer[connOf[fd]] \in Seq(ClientPDUs)
  BY <1>4 DEF Types
<1> QED
  BY <1>2, <1>3, <1>4, <1>5, <1>6

\* When the listening descriptor is returned, a connection waits to be accepted.
LEMMA PolledListener ==
    ASSUME Types, Polled = mainServerSocket
    PROVE  /\ server = "up" /\ todo = << >>
           /\ backlog # << >> /\ Head(backlog) \in Clients /\ Tail(backlog) \in Seq(Clients)
           /\ 1 \in DOMAIN backlog /\ Head(backlog) = backlog[1]
<1>1. mainServerSocket # -1 /\ mainServerSocket \notin ClientFds
  BY FdsOfServer
<1>2. server = "up" /\ todo = << >> /\ mainServerSocket \in Readable
  BY <1>1, PolledIs DEF Types
<1>3. backlog # << >>
  BY <1>1, <1>2 DEF Readable
<1>4. backlog \in Seq(Clients)
  BY DEF Types
<1> QED
  BY <1>2, <1>3, <1>4

\* The descriptor that accept hands out is free.
LEMMA FirstFree ==
    ASSUME FreeFds # {}
    PROVE  HT!First(FreeFds) \in ClientFds /\ ~Open(HT!First(FreeFds))
<1>1. FreeFds \in SUBSET Nat
  BY FdsOfServer DEF FreeFds
<1>2. HT!First(FreeFds) \in FreeFds
  BY <1>1, LeastExists DEF HT!First
<1> QED
  BY <1>2 DEF FreeFds

-----------------------------------------------------------------------------
(* Types *)

\* The client whose registration is read is not among the registrants yet.
LEMMA ReadsRegistration ==
    ASSUME IInv, NEW fd \in ClientFds, Polled = fd, Introduces(Head(toServer[connOf[fd]])),
           toServer[connOf[fd]] # << >>
    PROVE  ~Answered(connOf[fd])
<1>1. PICK c : c = connOf[fd]
  OBVIOUS
<1>2. c \in Clients /\ toServer[c] \in Seq(ClientPDUs)
  BY <1>1, PolledClient DEF IInv
<1>3. 1 \in DOMAIN toServer[c] /\ Head(toServer[c]) = toServer[c][1]
  BY <1>1, <1>2
<1> QED
  BY <1>1, <1>2, <1>3 DEF IInv, Introductions

\* There is room for its entry.
LEMMA RegisterRoom ==
    ASSUME IInv, NEW fd \in ClientFds, Register(fd)
    PROVE  Len(handle_table_entries) < Cardinality(Clients)
<1>1. PICK c : c = connOf[fd]
  OBVIOUS
<1>2. c \in Clients /\ ~Answered(c)
  <2>1. Polled = fd /\ recvPDU(c) = 1
    BY <1>1 DEF Register
  <2>2. toServer[c] # << >> /\ Introduces(Head(toServer[c]))
    BY <2>1 DEF recvPDU, Introduces
  <2> QED
    BY <1>1, <2>1, <2>2, ReadsRegistration, PolledClient DEF IInv
<1>3. PICK n \in Nat : n = Len(handle_table_entries)
  BY DEF IInv, Types, HT!TypeOK
<1>4. PICK m \in Nat : m = Cardinality(Clients)
  BY TableOfServer
<1>5. registrant \in [1..n -> Clients \ {c}]
  <2>1. registrant \in Seq(Clients) /\ Len(registrant) = n
    BY <1>3 DEF IInv, Types
  <2>2. \A i \in DOMAIN registrant : registrant[i] # c
    BY <1>2 DEF Answered, Registered
  <2> QED
    BY <2>1, <2>2
<1>6. IsFiniteSet(Clients \ {c}) /\ Cardinality(Clients \ {c}) = m - 1
  BY <1>2, <1>4, FS_RemoveElement, ChatAssumption
<1>7. IsFiniteSet(1..n) /\ Cardinality(1..n) = n
  <2>1. IsFiniteSet(1..n) /\ Cardinality(1..n) = IF 1 > n THEN 0 ELSE n - 1 + 1
    BY FS_Interval
  <2> QED
    BY <2>1
<1>8. CASE m <= n
  <2>1. Cardinality(Clients \ {c}) < Cardinality(1..n)
    BY <1>6, <1>7, <1>8
  <2>2. \E x, y \in 1..n : x # y /\ registrant[x] = registrant[y]
    BY <1>5, <1>6, <1>7, <2>1, FS_PigeonHole
  <2>3. DOMAIN registrant = 1..n
    BY <1>5
  <2> QED
    BY <2>2, <2>3 DEF IInv, Registrants
<1> QED
  BY <1>3, <1>4, <1>8

\* Only Register changes the table; its types are those of the three variables.
LEMMA TableTypes ==
    ASSUME HT!TypeOK, UNCHANGED tableVars
    PROVE  HT!TypeOK'
BY DEF HT!TypeOK, tableVars

LEMMA PollTypes ==
    ASSUME PS!PollTypeOK, PS!ArrayConsistent, UNCHANGED pollVars
    PROVE  PS!PollTypeOK' /\ PS!ArrayConsistent' /\ PS!Watched' = PS!Watched
BY DEF PS!PollTypeOK, PS!ArrayConsistent, PS!Watched, pollVars

LEMMA InitTypes ==
    ASSUME Init
    PROVE  Types
<1>1. HT!TypeOK
  <2>1. handle_table_entries = << >> /\ table_size = 2 /\ overrun = FALSE
    BY DEF Init, HT!create_table
  <2>2. 2 \in 0..(Modulus - 1)
    BY ChatAssumption
  <2> QED
    <3>1. << >> \in Seq(HT!Entry) /\ FALSE \in BOOLEAN
      OBVIOUS
    <3> QED
      BY <2>1, <2>2, <3>1 DEF HT!TypeOK
<1>2. PS!PollTypeOK /\ PS!ArrayConsistent
  BY SetupWatches DEF Init
<1> QED
  BY <1>1, <1>2, ChatAssumption DEF Init, Types, HT!create_table

LEMMA ServerTypes ==
    ASSUME IInv, Server
    PROVE  Types'
<1> USE DEF IInv
<1>1. CASE ServerStart
  <2>1. HT!TypeOK'
    BY <1>1, TableTypes DEF Types, ServerStart
  <2>2. PS!PollTypeOK' /\ PS!ArrayConsistent'
    BY <1>1, AddWatches DEF Types, ServerStart
  <2> QED
    BY <1>1, <2>1, <2>2 DEF Types, ServerStart, tableVars, acceptVars, clientVars
<1>2. CASE addNewSocket
  <2>1. HT!TypeOK'
    BY <1>2, TableTypes DEF Types, addNewSocket
  <2>2. PICK fd \in ClientFds : fd = HT!First(FreeFds)
    BY <1>2, FirstFree DEF addNewSocket
  <2>3. PS!PollTypeOK' /\ PS!ArrayConsistent'
    BY <1>2, <2>2, AddWatches DEF Types, addNewSocket
  <2>4. Head(backlog) \in Clients /\ Tail(backlog) \in Seq(Clients)
    BY <1>2, PolledListener DEF addNewSocket
  <2>5. connOf' \in [ClientFds -> Clients \cup {NoClient}]
    BY <1>2, <2>2, <2>4 DEF Types, addNewSocket
  <2> QED
    BY <1>2, <2>1, <2>3, <2>4, <2>5 DEF Types, addNewSocket, tableVars, clientVars
<1>3. CASE ServerExit
  <2>1. HT!TypeOK' /\ PS!PollTypeOK' /\ PS!ArrayConsistent'
    BY <1>3, TableTypes, PollTypes DEF Types, ServerExit
  <2> QED
    BY <1>3, <2>1 DEF Types, ServerExit, tableVars, clientVars
<1>4. CASE ServerSend
  <2>1. HT!TypeOK' /\ PS!PollTypeOK' /\ PS!ArrayConsistent'
    BY <1>4, TableTypes, PollTypes DEF Types, ServerSend
  <2>2. todo \in Seq(Sendings) /\ todo # << >>
    BY <1>4 DEF Types, ServerSend
  <2>3. Head(todo) \in Sendings /\ todo' \in Seq(Sendings)
    BY <1>4, <2>2 DEF ServerSend
  <2>4. Head(todo).pdu \in ServerPDUs
    BY <2>3 DEF Sendings
  <2>5. toClient' \in [Clients -> Seq(ServerPDUs)]
    <3>1. PICK c : c = connOf[Head(todo).fd]
      OBVIOUS
    <3>2. toClient' = [toClient EXCEPT ![c] = Append(toClient[c], Head(todo).pdu)] /\ c \in Clients
      BY <1>4, <3>1 DEF ServerSend, Types, Open
    <3>3. Append(toClient[c], Head(todo).pdu) \in Seq(ServerPDUs)
      BY <2>4, <3>2 DEF Types
    <3> QED
      BY <3>2, <3>3 DEF Types
  <2> QED
    BY <1>4, <2>1, <2>3, <2>5 DEF Types, ServerSend, tableVars, acceptVars, clientVars
<1>5. ASSUME NEW fd \in ClientFds, ClientClosed(fd) PROVE Types'
  <2>1. HT!TypeOK'
    BY <1>5, TableTypes DEF Types, ClientClosed
  <2>2. fd \in PS!Watched /\ connOf[fd] \in Clients
    BY <1>5, PolledClient DEF ClientClosed
  <2>3. PS!PollTypeOK' /\ PS!ArrayConsistent'
    BY <1>5, <2>2, RemoveWatches DEF Types, ClientClosed
  <2>4. connOf' \in [ClientFds -> Clients \cup {NoClient}]
    BY <1>5 DEF Types, ClientClosed
  <2>5. closed' \subseteq Clients
    BY <1>5, <2>2 DEF Types, ClientClosed
  <2>6. toServer' \in [Clients -> Seq(ClientPDUs)]
    <3>1. << >> \in Seq(ClientPDUs)
      OBVIOUS
    <3> QED
      BY <1>5, <2>2, <3>1 DEF Types, ClientClosed
  <2>7. Len(registrant)' = Len(handle_table_entries)'
    BY <1>5 DEF Types, ClientClosed, tableVars
  <2> QED
    BY <1>5, <2>1, <2>3, <2>4, <2>5, <2>6, <2>7 DEF Types, ClientClosed, tableVars, clientVars
<1>6. ASSUME NEW fd \in ClientFds, Register(fd) PROVE Types'
  <2>1. PS!PollTypeOK' /\ PS!ArrayConsistent'
    BY <1>6, PollTypes DEF Types, Register
  <2>2. PICK c \in Clients : c = connOf[fd]
    BY <1>6, PolledClient DEF Register
  <2>3. toServer[c] # << >> /\ Head(toServer[c]).flag = 1 /\ toServer[c] \in Seq(ClientPDUs)
    BY <1>6, <2>2 DEF Register, recvPDU, Types
  <2>4. PICK pdu : pdu = Head(toServer[c])
    OBVIOUS
  <2>5. pdu \in ClientPDUs /\ Tail(toServer[c]) \in Seq(ClientPDUs)
    BY <2>3, <2>4
  <2>6. pdu.compared \in Strings /\ pdu.stored \in Strings
    BY <2>3, <2>4, <2>5, ClientPDUKinds
  <2>7. toServer' \in [Clients -> Seq(ClientPDUs)]
    BY <1>6, <2>2, <2>5 DEF Register, Types
  <2>8. /\ HT!TypeOK' /\ registrant' \in Seq(Clients) /\ refused' \subseteq Clients
        /\ Len(registrant') = Len(handle_table_entries')
    <3>1. CASE HT!add_refused(pdu.compared) /\ refused' = refused \cup {c} /\ UNCHANGED registrant
      BY <3>1 DEF Types, HT!add_refused, HT!vars, HT!TypeOK
    <3>2. CASE HT!add_stored(fd, pdu.compared, pdu.stored)
               /\ registrant' = Append(registrant, c) /\ UNCHANGED refused
      <4>1. Len(handle_table_entries) < Cardinality(Clients)
        BY <1>6, RegisterRoom
      <4>2. HT!TypeOK /\ TableFits
        BY DEF Types, Registrants
      <4>3. /\ HT!TypeOK'
            /\ handle_table_entries' =
                 Append(handle_table_entries, [socket_number |-> fd, handle_name |-> pdu.stored])
        BY <2>6, <3>2, <4>1, <4>2, EntryStored
      <4>4. Len(handle_table_entries') = Len(handle_table_entries) + 1
        BY <4>2, <4>3 DEF HT!TypeOK
      <4>5. registrant' \in Seq(Clients) /\ Len(registrant') = Len(registrant) + 1
        BY <3>2 DEF Types
      <4> QED
        BY <3>2, <4>3, <4>4, <4>5 DEF Types
    <3> QED
      BY <1>6, <2>2, <2>4, <3>1, <3>2 DEF Register
  <2> QED
    BY <1>6, <2>1, <2>7, <2>8 DEF Types, Register, acceptVars, clientVars
<1>7. ASSUME NEW fd \in ClientFds, processClient(fd) PROVE Types'
  <2>1. HT!TypeOK' /\ PS!PollTypeOK' /\ PS!ArrayConsistent'
    BY <1>7, TableTypes, PollTypes DEF Types, processClient
  <2>2. PICK c \in Clients : c = connOf[fd]
    BY <1>7, PolledClient DEF processClient
  <2>3. /\ toServer[c] # << >> /\ ~Introduces(Head(toServer[c]))
        /\ toServer[c] \in Seq(ClientPDUs)
    BY <1>7, <2>2 DEF processClient, recvPDU, Types, Introduces
  <2>4. Head(toServer[c]) \in ClientPDUs /\ Tail(toServer[c]) \in Seq(ClientPDUs)
    BY <2>3
  <2>5. todo' \in Seq(Sendings)
    <3>1. todo' = Handler(fd, Head(toServer[c])) /\ HT!TypeOK
      BY <1>7, <2>2 DEF processClient, Types
    <3> QED
      BY <2>3, <2>4, <3>1, HandlerTypes
  <2>6. toServer' \in [Clients -> Seq(ClientPDUs)]
    BY <1>7, <2>2, <2>4 DEF processClient, Types
  <2> QED
    BY <1>7, <2>1, <2>5, <2>6 DEF Types, processClient, tableVars, acceptVars, clientVars
<1> QED
  BY <1>1, <1>2, <1>3, <1>4, <1>5, <1>6, <1>7 DEF Server, AcceptFails, SendFails

\* Clients leave the server's variables alone, its backlog apart.
LEMMA ClientTypes ==
    ASSUME Types, NEW c \in Clients,
           ClientStep(c) \/ processStdin(c) \/ StdinStaysReady(c) \/ Quit(c) \/ Reset(c) \/ UNCHANGED vars
    PROVE  Types'
<1>0. UNCHANGED <<tableVars, pollVars>>
  BY DEF ClientStep, tcpClientSetup, setHandle, ClientSend, processMsgFromServer,
         ServerTerminated, processStdin, StdinStaysReady, Quit, Reset, vars, serverVars
<1>00. HT!TypeOK' /\ PS!PollTypeOK' /\ PS!ArrayConsistent'
  BY <1>0, TableTypes, PollTypes DEF Types
<1>1. CASE tcpClientSetup(c)
  <2>1. backlog' \in Seq(Clients)
    <3>1. backlog \in Seq(Clients)
      BY DEF Types
    <3>2. Append(backlog, c) \in Seq(Clients)
      BY <3>1
    <3> QED
      BY <1>1, <3>1, <3>2 DEF tcpClientSetup
  <2> QED
    BY <1>00, <1>1, <2>1 DEF tcpClientSetup, Types, tableVars
<1>2. CASE setHandle(c)
  <2>1. outgoing' \in [Clients -> Seq(ClientPDUs)]
    <3>1. PICK pdu \in RegistrationPDUs(c) : outgoing' = [outgoing EXCEPT ![c] = <<pdu>>]
      BY <1>2 DEF setHandle
    <3>2. pdu \in ClientPDUs
      BY <3>1, RegistrationKinds
    <3>3. <<pdu>> \in Seq(ClientPDUs)
      BY <3>2
    <3> QED
      BY <3>1, <3>3 DEF Types
  <2> QED
    BY <1>00, <1>2, <2>1 DEF setHandle, Types, serverVars, tableVars, acceptVars
<1>3. CASE processStdin(c)
  <2>1. outgoing' \in [Clients -> Seq(ClientPDUs)]
    <3>1. PICK line \in Lines : outgoing' = [outgoing EXCEPT ![c] = LinePDUs(c, line)]
      BY <1>3 DEF processStdin
    <3>2. LinePDUs(c, line) \in Seq(ClientPDUs)
      BY LineKinds DEF Types
    <3> QED
      BY <3>1, <3>2 DEF Types
  <2>2. typed' \in [Clients -> 0..MaxLines]
    <3>1. typed[c] \in 0..MaxLines /\ typed[c] < MaxLines /\ MaxLines \in Nat
      BY <1>3, ChatAssumption DEF processStdin, Types
    <3>2. typed[c] + 1 \in 0..MaxLines
      BY <3>1
    <3> QED
      BY <1>3, <3>2 DEF processStdin, Types
  <2> QED
    BY <1>00, <1>3, <2>1, <2>2 DEF processStdin, Types, serverVars, tableVars, acceptVars
<1>4. CASE ClientSend(c)
  <2>1. outgoing[c] \in Seq(ClientPDUs) /\ outgoing[c] # << >> /\ toServer[c] \in Seq(ClientPDUs)
    BY <1>4 DEF ClientSend, Types
  <2>2. Head(outgoing[c]) \in ClientPDUs /\ Tail(outgoing[c]) \in Seq(ClientPDUs)
    BY <2>1
  <2>3. Append(toServer[c], Head(outgoing[c])) \in Seq(ClientPDUs)
    BY <2>1, <2>2
  <2>4. toServer' \in [Clients -> Seq(ClientPDUs)]
    BY <1>4, <2>3 DEF ClientSend, Types
  <2>5. outgoing' \in [Clients -> Seq(ClientPDUs)]
    <3>1. << >> \in Seq(ClientPDUs)
      OBVIOUS
    <3>2. \/ outgoing' = [outgoing EXCEPT ![c] = Tail(outgoing[c])]
          \/ outgoing' = [outgoing EXCEPT ![c] = << >>]
      BY <1>4 DEF ClientSend, Exit
    <3> QED
      BY <2>2, <3>1, <3>2 DEF Types
  <2>6. client' \in [Clients -> {"start", "connected", "loop", "deaf", "exited", "terminated"}]
    BY <1>4 DEF ClientSend, Exit, Types
  <2> QED
    BY <1>00, <1>4, <2>4, <2>5, <2>6 DEF ClientSend, Types, serverVars, tableVars, acceptVars
<1>5. CASE processMsgFromServer(c)
  <2>1. toClient[c] \in Seq(ServerPDUs) /\ toClient[c] # << >> /\ received[c] \in Seq(ServerPDUs)
    BY <1>5 DEF processMsgFromServer, Types
  <2>2. Head(toClient[c]) \in ServerPDUs /\ Tail(toClient[c]) \in Seq(ServerPDUs)
    BY <2>1
  <2>3. Append(received[c], Head(toClient[c])) \in Seq(ServerPDUs)
    BY <2>1, <2>2
  <2>4. toClient' \in [Clients -> Seq(ServerPDUs)]
    BY <1>5, <2>2 DEF processMsgFromServer, Types
  <2>5. received' \in [Clients -> Seq(ServerPDUs)]
    BY <1>5, <2>3 DEF processMsgFromServer, Types
  <2>6. /\ client' \in [Clients -> {"start", "connected", "loop", "deaf", "exited", "terminated"}]
        /\ outgoing' \in [Clients -> Seq(ClientPDUs)]
    BY <1>5 DEF processMsgFromServer, Exit, Types
  <2> QED
    BY <1>00, <1>5, <2>4, <2>5, <2>6 DEF processMsgFromServer, Types, serverVars, tableVars, acceptVars
<1>9. CASE StdinStaysReady(c)
  <2>1. client' \in [Clients -> {"start", "connected", "loop", "deaf", "exited", "terminated"}]
    BY <1>9 DEF StdinStaysReady, Types
  <2> QED
    BY <1>00, <1>9, <2>1 DEF StdinStaysReady, Types, serverVars, tableVars, acceptVars
<1>6. CASE ServerTerminated(c) \/ Quit(c)
  <2>1. /\ client' \in [Clients -> {"start", "connected", "loop", "deaf", "exited", "terminated"}]
        /\ outgoing' \in [Clients -> Seq(ClientPDUs)]
    <3>1. << >> \in Seq(ClientPDUs)
      OBVIOUS
    <3>2. /\ outgoing' = [outgoing EXCEPT ![c] = << >>]
          /\ client' = [client EXCEPT ![c] = "terminated"] \/ client' = [client EXCEPT ![c] = "exited"]
      BY <1>6 DEF ServerTerminated, Quit, Exit
    <3> QED
      BY <3>1, <3>2 DEF Types
  <2> QED
    BY <1>00, <1>6, <2>1 DEF ServerTerminated, Quit, Types, serverVars, tableVars, acceptVars
<1>7. CASE Reset(c)
  BY <1>00, <1>7 DEF Reset, Types, serverVars, tableVars, acceptVars, clientVars
<1>8. CASE UNCHANGED vars
  BY <1>00, <1>8 DEF Types, vars, serverVars, tableVars, acceptVars, clientVars
<1> QED
  BY <1>1, <1>2, <1>3, <1>4, <1>5, <1>6, <1>7, <1>8, <1>9 DEF ClientStep

-----------------------------------------------------------------------------
(* Connections *)

\* What ServerExit leaves holds of any connections.
LEMMA ExitConnections ==
    ASSUME IInv, ServerExit
    PROVE  Connections'
<1>1. /\ server' = "exited" /\ todo' = << >> /\ backlog' = << >>
      /\ connOf' = [fd \in ClientFds |-> NoClient]
      /\ toServer' = [c \in Clients |-> << >>] /\ closed' = closed /\ client' = client
  BY DEF ServerExit, clientVars
<1>2. ASSUME NEW c \in closed' PROVE client'[c] # "start" /\ toServer'[c] = << >>
  BY <1>1, <1>2 DEF IInv, Connections, Types
<1> QED
  BY <1>1, <1>2 DEF Connections, Open

\* A handler and the answer to a registration change no connection.
LEMMA ReadConnections ==
    ASSUME IInv, NEW fd \in ClientFds, Register(fd) \/ processClient(fd)
    PROVE  Connections'
<1>1. UNCHANGED <<pollVars, acceptVars, server, client>> /\ Polled = fd
  BY DEF Register, processClient, clientVars
<1>2. PICK c \in Clients : c = connOf[fd] /\ c \notin closed /\ server = "up"
  BY <1>1, PolledClient DEF IInv
<1>3. toServer' = [toServer EXCEPT ![c] = Tail(toServer[c])]
  BY <1>2 DEF Register, processClient
<1>4. \A d \in closed : toServer'[d] = << >>
  BY <1>2, <1>3 DEF IInv, Connections, Types
<1>5. PS!Watched' = PS!Watched
  BY <1>1, PollTypes DEF IInv, Types
<1> QED
  BY <1>1, <1>2, <1>4, <1>5 DEF IInv, Connections, Open, acceptVars

LEMMA ServerConnections ==
    ASSUME IInv, Server
    PROVE  Connections'
<1> USE DEF IInv
<1>1. CASE ServerStart
  <2>1. PS!Watched' = PS!Watched \cup {mainServerSocket}
    BY <1>1, AddWatches DEF Types, ServerStart
  <2> QED
    BY <1>1, <2>1 DEF ServerStart, Connections, Open, acceptVars, clientVars
<1>2. CASE addNewSocket
  <2>1. PICK fd \in ClientFds : fd = HT!First(FreeFds) /\ ~Open(fd)
    BY <1>2, FirstFree DEF addNewSocket
  <2>2. PS!Watched' = PS!Watched \cup {fd}
    BY <1>2, <2>1, AddWatches DEF Types, addNewSocket
  <2>3. PICK c \in Clients : /\ c = Head(backlog) /\ c = backlog[1] /\ 1 \in DOMAIN backlog
                             /\ server = "up" /\ backlog # << >>
    BY <1>2, PolledListener DEF addNewSocket
  <2>4. connOf' = [connOf EXCEPT ![fd] = c] /\ c # NoClient /\ connOf' \in [ClientFds -> Clients \cup {NoClient}]
    BY <1>2, <2>1, <2>3, ChatAssumption DEF addNewSocket, Types
  <2>5. /\ client[c] # "start" /\ c \notin closed
        /\ \A g \in ClientFds : connOf[g] # c
    BY <2>3 DEF Connections
  <2>6. /\ backlog' = Tail(backlog) /\ backlog \in Seq(Clients)
        /\ UNCHANGED <<closed, server, todo, client, toServer>>
    BY <1>2 DEF addNewSocket, clientVars, Types
  <2>7. \A k \in DOMAIN backlog' : k + 1 \in DOMAIN backlog /\ backlog'[k] = backlog[k + 1] /\ k \in Nat \ {0}
    BY <2>3, <2>6, HeadOf
  <2>8. /\ \A i, j \in DOMAIN backlog' : backlog'[i] = backlog'[j] => i = j
        /\ \A i \in DOMAIN backlog' : client[backlog'[i]] # "start" /\ backlog'[i] \notin closed /\ backlog'[i] # c
    <3>1. ASSUME NEW i \in DOMAIN backlog', NEW j \in DOMAIN backlog', backlog'[i] = backlog'[j] PROVE i = j
      <4>1. i + 1 = j + 1
        BY <2>7, <3>1 DEF Connections
      <4> QED
        BY <2>7, <4>1
    <3>2. ASSUME NEW i \in DOMAIN backlog'
          PROVE  client[backlog'[i]] # "start" /\ backlog'[i] \notin closed /\ backlog'[i] # c
      <4>1. i + 1 # 1
        BY <2>7
      <4> QED
        BY <2>3, <2>7, <4>1 DEF Connections
    <3> QED
      BY <3>1, <3>2
  <2>9. \A i \in DOMAIN backlog' : \A g \in ClientFds : connOf'[g] # backlog'[i]
    BY <2>1, <2>4, <2>7, <2>8 DEF Connections
  <2>10. \A f, g \in ClientFds : connOf'[f] # NoClient /\ connOf'[f] = connOf'[g] => f = g
    BY <2>1, <2>4, <2>5 DEF Connections, Open, Types
  <2>11. \A g \in ClientFds : connOf'[g] # NoClient => client[connOf'[g]] # "start" /\ connOf'[g] \notin closed
    BY <2>1, <2>4, <2>5 DEF Connections, Open, Types
  <2>12. PS!Watched' = {mainServerSocket} \cup {g \in ClientFds : connOf'[g] # NoClient}
    BY <2>1, <2>2, <2>3, <2>4 DEF Connections, Open, Types
  <2> QED
    BY <2>3, <2>6, <2>8, <2>9, <2>10, <2>11, <2>12 DEF Connections, Open
<1>3. CASE ServerExit
  BY <1>3, ExitConnections
<1>4. CASE ServerSend
  <2>1. PS!Watched' = PS!Watched
    BY <1>4, PollTypes DEF Types, ServerSend
  <2> QED
    BY <1>4, <2>1 DEF ServerSend, Connections, Open, acceptVars, clientVars
<1>5. ASSUME NEW fd \in ClientFds, ClientClosed(fd) PROVE Connections'
  <2>1. /\ fd \in PS!Watched /\ Open(fd) /\ server = "up" /\ todo = << >> /\ Polled = fd
        /\ fd # mainServerSocket
    BY <1>5, PolledClient, FdsOfServer DEF ClientClosed
  <2>2. PS!Watched' = PS!Watched \ {fd}
    BY <1>5, <2>1, RemoveWatches DEF Types, ClientClosed
  <2>3. PICK c \in Clients : c = connOf[fd] /\ c \notin closed
    BY <2>1, PolledClient
  <2>4. /\ connOf' = [connOf EXCEPT ![fd] = NoClient]
        /\ closed' = closed \cup {c}
        /\ toServer' = [toServer EXCEPT ![c] = << >>]
        /\ UNCHANGED <<backlog, server, todo, client>>
    BY <1>5, <2>3 DEF ClientClosed, clientVars
  <2>5. \A g \in ClientFds : connOf'[g] = IF g = fd THEN NoClient ELSE connOf[g]
    BY <2>4 DEF Types
  <2>6. NoClient \notin Clients /\ \A i \in DOMAIN backlog : backlog[i] \in Clients
    BY ChatAssumption DEF Types
  <2>7. \A i \in DOMAIN backlog : backlog[i] # c
    BY <2>3 DEF Connections
  <2>8. \A g \in ClientFds : g # fd => connOf[g] # c
    BY <2>1, <2>3 DEF Connections
  <2>9. \A d \in closed' : client[d] # "start" /\ toServer'[d] = << >>
    BY <2>1, <2>3, <2>4 DEF Connections, Types
  <2>10. PS!Watched' = {mainServerSocket} \cup {g \in ClientFds : connOf'[g] # NoClient}
    BY <2>1, <2>2, <2>5 DEF Connections, Open
  <2>11. \A i \in DOMAIN backlog : /\ backlog[i] \notin closed'
                                   /\ \A g \in ClientFds : connOf'[g] # backlog[i]
    BY <2>4, <2>5, <2>6, <2>7 DEF Connections
  <2>12. \A g \in ClientFds : connOf'[g] # NoClient => client[connOf'[g]] # "start" /\ connOf'[g] \notin closed'
    BY <2>4, <2>5, <2>8 DEF Connections, Open
  <2>13. \A f, g \in ClientFds : connOf'[f] # NoClient /\ connOf'[f] = connOf'[g] => f = g
    BY <2>5 DEF Connections, Open
  <2> QED
    BY <2>1, <2>4, <2>9, <2>10, <2>11, <2>12, <2>13 DEF Connections, Open
<1> QED
  BY <1>1, <1>2, <1>3, <1>4, <1>5, ReadConnections DEF Server, AcceptFails, SendFails

LEMMA ClientConnections ==
    ASSUME IInv, NEW c \in Clients,
           ClientStep(c) \/ processStdin(c) \/ StdinStaysReady(c) \/ Quit(c) \/ Reset(c) \/ UNCHANGED vars
    PROVE  Connections'
<1> USE DEF IInv
<1>0. UNCHANGED <<tableVars, pollVars, connOf, closed, server, todo>>
  BY DEF ClientStep, tcpClientSetup, setHandle, ClientSend, processMsgFromServer,
         ServerTerminated, processStdin, StdinStaysReady, Quit, Reset, vars, serverVars, acceptVars
<1>00. PS!Watched' = PS!Watched
  BY <1>0, PollTypes DEF Types
<1>1. CASE tcpClientSetup(c)
  <2>1. /\ client[c] = "start" /\ UNCHANGED toServer /\ client \in [Clients -> {"start", "connected", "loop", "deaf", "exited", "terminated"}]
        /\ connOf \in [ClientFds -> Clients \cup {NoClient}] /\ NoClient \notin Clients
    BY <1>1, ChatAssumption DEF tcpClientSetup, Types
  <2>2. \A d \in Clients : client[d] # "start" => client'[d] # "start"
    BY <1>1, <2>1 DEF tcpClientSetup
  <2>3. backlog \in Seq(Clients) /\ closed \subseteq Clients
    BY DEF Types
  <2>4. \A i \in DOMAIN backlog : backlog[i] \in Clients
    BY <2>3
  <2>5. \A g \in ClientFds : Open(g) => connOf[g] \in Clients /\ client'[connOf[g]] # "start"
    BY <2>1, <2>2 DEF Open, Connections
  <2>6. CASE UNCHANGED backlog
    BY <1>0, <1>00, <1>1, <2>1, <2>2, <2>3, <2>4, <2>5, <2>6 DEF tcpClientSetup, Connections, Open
  <2>7. CASE /\ server # "exited" /\ backlog' = Append(backlog, c)
             /\ client' = [client EXCEPT ![c] = "connected"]
    <3>1. backlog' = Append(backlog, c) /\ client' = [client EXCEPT ![c] = "connected"]
      BY <2>7
    <3>2. PICK n \in Nat : n = Len(backlog)
      BY <2>3
    <3>3. /\ DOMAIN backlog' = 1 .. n + 1 /\ DOMAIN backlog = 1 .. n
          /\ \A k \in 1 .. n : backlog'[k] = backlog[k]
          /\ backlog'[n + 1] = c
      BY <2>3, <3>1, <3>2, LastOf
    <3>4. \A k \in DOMAIN backlog' : k \in DOMAIN backlog \/ k = n + 1
      BY <3>3
    <3>5. \A k \in DOMAIN backlog : backlog[k] # c
      BY <2>1 DEF Connections
    <3>6. c \notin closed /\ \A g \in ClientFds : connOf[g] # c
      BY <2>1, <2>3 DEF Connections, Open
    <3>7. client'[c] # "start"
      BY <2>1, <3>1
    <3>8. \A i, j \in DOMAIN backlog' : backlog'[i] = backlog'[j] => i = j
      BY <3>3, <3>4, <3>5 DEF Connections
    <3>9. \A i \in DOMAIN backlog' :
            /\ client'[backlog'[i]] # "start" /\ backlog'[i] \notin closed
            /\ \A fd \in ClientFds : connOf[fd] # backlog'[i]
      BY <2>2, <2>4, <3>3, <3>4, <3>6, <3>7 DEF Connections
    <3> QED
      BY <1>0, <1>00, <2>1, <2>2, <2>3, <2>5, <2>7, <3>8, <3>9 DEF Connections, Open
  <2> QED
    BY <1>1, <2>6, <2>7 DEF tcpClientSetup
<1>2. CASE ClientSend(c)
  <2>1. UNCHANGED backlog /\ \A d \in Clients : client'[d] = client[d] \/ client'[d] = "exited"
    BY <1>2 DEF ClientSend, Exit, serverVars, acceptVars, Types
  <2>2. \A d \in closed : toServer'[d] = toServer[d]
    BY <1>2 DEF ClientSend, CutOff, Types
  <2>3. server = "exited" => UNCHANGED toServer
    BY <1>2 DEF ClientSend, CutOff
  <2>4. /\ \A d \in closed : d \in Clients
        /\ \A i \in DOMAIN backlog : backlog[i] \in Clients
        /\ \A g \in ClientFds : Open(g) => connOf[g] \in Clients
    BY DEF Types, Open
  <2> QED
    BY <1>0, <1>00, <2>1, <2>2, <2>3, <2>4 DEF Connections, Open
<1>3. CASE setHandle(c) \/ processStdin(c) \/ StdinStaysReady(c) \/ processMsgFromServer(c) \/ ServerTerminated(c)
           \/ Quit(c) \/ Reset(c) \/ UNCHANGED vars
  <2>1. UNCHANGED <<backlog, toServer>>
    BY <1>3 DEF setHandle, processStdin, processMsgFromServer, ServerTerminated,
                StdinStaysReady, Quit, Reset, vars, serverVars, acceptVars, clientVars
  <2>2. \A d \in Clients : client[d] # "start" => client'[d] # "start"
    BY <1>3 DEF setHandle, processStdin, processMsgFromServer, ServerTerminated,
                StdinStaysReady, Quit, Reset, vars, clientVars, Exit, Types
  <2>4. /\ \A d \in closed : d \in Clients
        /\ \A i \in DOMAIN backlog : backlog[i] \in Clients
        /\ \A g \in ClientFds : Open(g) => connOf[g] \in Clients
    BY DEF Types, Open
  <2> QED
    BY <1>0, <1>00, <2>1, <2>2, <2>4 DEF Connections, Open
<1> QED
  BY <1>1, <1>2, <1>3 DEF ClientStep

-----------------------------------------------------------------------------
(* Introductions and registrants *)

LEMMA ServerIntroductions ==
    ASSUME IInv, Server
    PROVE  Introductions'
<1> USE DEF IInv
<1>1. CASE ServerStart \/ addNewSocket \/ ServerSend
  BY <1>1 DEF ServerStart, addNewSocket, ServerSend, tableVars, clientVars, Introductions,
              Answered, Registered
<1>2. CASE ServerExit
  BY <1>2 DEF ServerExit, tableVars, clientVars, Introductions, Answered, Registered
<1>3. ASSUME NEW fd \in ClientFds, ClientClosed(fd) PROVE Introductions'
  <2>1. PICK c \in Clients : c = connOf[fd]
    BY <1>3, PolledClient DEF ClientClosed
  <2>2. toServer' = [toServer EXCEPT ![c] = << >>] /\ UNCHANGED <<client, outgoing, refused, registrant>>
    BY <1>3, <2>1 DEF ClientClosed, clientVars, tableVars
  <2>3. \A d \in Clients : toServer'[d] = toServer[d] \/ toServer'[d] = << >>
    BY <2>2 DEF Types
  <2> QED
    BY <2>2, <2>3 DEF Introductions, Answered, Registered
<1>4. ASSUME NEW fd \in ClientFds, Register(fd) \/ processClient(fd) PROVE Introductions'
  <2>1. PICK c \in Clients : c = connOf[fd]
    BY <1>4, PolledClient DEF Register, processClient
  <2>2. /\ toServer' = [toServer EXCEPT ![c] = Tail(toServer[c])] /\ UNCHANGED <<client, outgoing>>
        /\ toServer[c] # << >> /\ toServer[c] \in Seq(ClientPDUs)
    BY <1>4, <2>1 DEF Register, processClient, clientVars, recvPDU, Types
  <2>3. /\ \A d \in Clients : d # c => toServer'[d] = toServer[d]
        /\ toServer'[c] = Tail(toServer[c])
    BY <2>2 DEF Types
  <2>4. client[c] \notin {"start", "connected"}
    BY <2>2 DEF Introductions
  <2>5. \A k \in DOMAIN toServer'[c] : ~Introduces(toServer[c][k + 1]) /\ toServer'[c][k] = toServer[c][k + 1]
    <3>1. \A k \in DOMAIN Tail(toServer[c]) : /\ k + 1 \in DOMAIN toServer[c] /\ k \in Nat \ {0}
                                              /\ Tail(toServer[c])[k] = toServer[c][k + 1]
      BY <2>2, HeadOf
    <3> QED
      BY <2>3, <3>1 DEF Introductions
  <2>6. \A k \in DOMAIN outgoing[c] : ~Introduces(outgoing[c][k])
    BY <2>2 DEF Introductions
  <2>7. \A d \in Clients : d # c /\ ~Answered(d) => ~Answered(d)'
    <3>1. CASE UNCHANGED <<refused, registrant>>
      BY <3>1 DEF Answered, Registered
    <3>2. CASE refused' = refused \cup {c} /\ UNCHANGED registrant
      BY <3>2 DEF Answered, Registered
    <3>3. CASE registrant' = Append(registrant, c) /\ UNCHANGED refused
      <4>1. registrant \in Seq(Clients)
        BY DEF Types
      <4>2. /\ DOMAIN registrant' = 1 .. Len(registrant) + 1 /\ DOMAIN registrant = 1 .. Len(registrant)
            /\ \A k \in DOMAIN registrant : registrant'[k] = registrant[k]
            /\ registrant'[Len(registrant) + 1] = c /\ Len(registrant) \in Nat
        BY <3>3, <4>1, LastOf
      <4>3. \A k \in DOMAIN registrant' : k \in DOMAIN registrant \/ registrant'[k] = c
        BY <4>2
      <4> QED
        BY <3>3, <4>2, <4>3 DEF Answered, Registered
    <3> QED
      BY <1>4, <2>1, <3>1, <3>2, <3>3 DEF Register, processClient, tableVars
  <2>8. ASSUME NEW d \in Clients, client'[d] \in {"start", "connected"}
        PROVE  outgoing'[d] = << >> /\ toServer'[d] = << >> /\ ~Answered(d)'
    BY <2>2, <2>3, <2>4, <2>7, <2>8 DEF Introductions
  <2>9. ASSUME NEW d \in Clients, NEW k \in DOMAIN toServer'[d], Introduces(toServer'[d][k])
        PROVE  k = 1 /\ ~Answered(d)'
    BY <2>3, <2>5, <2>7, <2>9 DEF Introductions
  <2>10. ASSUME NEW d \in Clients, NEW k \in DOMAIN outgoing'[d], Introduces(outgoing'[d][k])
        PROVE  k = 1 /\ toServer'[d] = << >> /\ ~Answered(d)'
    BY <2>2, <2>3, <2>6, <2>7, <2>10 DEF Introductions
  <2> QED
    BY <2>8, <2>9, <2>10 DEF Introductions, Introduces
<1> QED
  BY <1>1, <1>2, <1>3, <1>4 DEF Server, AcceptFails, SendFails

LEMMA ClientIntroductions ==
    ASSUME IInv, NEW c \in Clients,
           ClientStep(c) \/ processStdin(c) \/ StdinStaysReady(c) \/ Quit(c) \/ Reset(c) \/ UNCHANGED vars
    PROVE  Introductions'
<1> USE DEF IInv
<1>0. UNCHANGED <<refused, registrant>>
  BY DEF ClientStep, tcpClientSetup, setHandle, ClientSend, processMsgFromServer,
         ServerTerminated, processStdin, StdinStaysReady, Quit, Reset, vars, serverVars, tableVars
<1>00. \A d \in Clients : Answered(d)' = Answered(d)
  BY <1>0 DEF Answered, Registered
<1>1. CASE tcpClientSetup(c)
  <2>1. UNCHANGED <<outgoing, toServer>> /\ client[c] = "start"
    BY <1>1 DEF tcpClientSetup
  <2>2. \A d \in Clients : client'[d] = client[d] \/ d = c
    BY <1>1 DEF tcpClientSetup, Types
  <2> QED
    BY <1>00, <2>1, <2>2 DEF Introductions
<1>2. CASE setHandle(c)
  <2>1. PICK pdu \in RegistrationPDUs(c) : outgoing' = [outgoing EXCEPT ![c] = <<pdu>>]
    BY <1>2 DEF setHandle
  <2>2. client[c] = "connected" /\ client' = [client EXCEPT ![c] = "loop"] /\ UNCHANGED toServer
    BY <1>2 DEF setHandle
  <2>3. /\ outgoing'[c] = <<pdu>> /\ client'[c] = "loop"
        /\ \A d \in Clients : d # c => outgoing'[d] = outgoing[d] /\ client'[d] = client[d]
    BY <2>1, <2>2 DEF Types
  <2>4. toServer[c] = << >> /\ ~Answered(c)
    BY <2>2 DEF Introductions
  <2> QED
    BY <1>00, <2>2, <2>3, <2>4 DEF Introductions
<1>3. CASE processStdin(c)
  <2>1. PICK line \in Lines : outgoing' = [outgoing EXCEPT ![c] = LinePDUs(c, line)]
    BY <1>3 DEF processStdin
  <2>2. \A k \in DOMAIN LinePDUs(c, line) : ~Introduces(LinePDUs(c, line)[k])
    BY LineKinds DEF Types
  <2>3. client[c] \in {"loop", "deaf"} /\ UNCHANGED <<client, toServer>>
    BY <1>3 DEF processStdin
  <2>4. /\ outgoing'[c] = LinePDUs(c, line)
        /\ \A d \in Clients : d # c => outgoing'[d] = outgoing[d]
    BY <2>1 DEF Types
  <2> QED
    BY <1>00, <2>2, <2>3, <2>4 DEF Introductions
<1>4. CASE ClientSend(c)
  <2>1. outgoing[c] \in Seq(ClientPDUs) /\ outgoing[c] # << >> /\ toServer[c] \in Seq(ClientPDUs)
    BY <1>4 DEF ClientSend, Types
  <2>2. client[c] \notin {"start", "connected"}
    BY <2>1 DEF Introductions
  <2>3. \A d \in Clients : d # c => outgoing'[d] = outgoing[d] /\ toServer'[d] = toServer[d] /\ client'[d] = client[d]
    BY <1>4 DEF ClientSend, Exit, Types
  <2>4. client'[c] \notin {"start", "connected"}
    BY <1>4, <2>2 DEF ClientSend, Exit, Types
  <2>5. \A k \in DOMAIN outgoing'[c] : ~Introduces(outgoing'[c][k])
    <3>1. outgoing'[c] = Tail(outgoing[c]) \/ outgoing'[c] = << >>
      BY <1>4 DEF ClientSend, Exit, Types
    <3>2. \A k \in DOMAIN Tail(outgoing[c]) : /\ k + 1 \in DOMAIN outgoing[c] /\ k \in Nat \ {0}
                                              /\ Tail(outgoing[c])[k] = outgoing[c][k + 1]
      BY <2>1, HeadOf
    <3>3. \A k \in DOMAIN Tail(outgoing[c]) : ~Introduces(Tail(outgoing[c])[k])
      BY <3>2 DEF Introductions
    <3>4. outgoing'[c] = << >> => DOMAIN outgoing'[c] = {}
      OBVIOUS
    <3>5. CASE outgoing'[c] = Tail(outgoing[c])
      BY <3>3, <3>5
    <3> QED
      BY <3>1, <3>4, <3>5
  <2>6. \A k \in DOMAIN toServer'[c] : Introduces(toServer'[c][k]) => k = 1 /\ ~Answered(c)
    <3>1. CASE toServer'[c] = toServer[c]
      BY <3>1 DEF Introductions
    <3>2. CASE toServer'[c] = Append(toServer[c], Head(outgoing[c]))
      <4>1. PICK q \in Seq(ClientPDUs) : q = toServer[c]
        BY <2>1
      <4>2. PICK x \in ClientPDUs : x = Head(outgoing[c]) /\ x = outgoing[c][1] /\ 1 \in DOMAIN outgoing[c]
        BY <2>1, HeadOf
      <4>3. /\ DOMAIN Append(q, x) = 1 .. Len(q) + 1 /\ DOMAIN q = 1 .. Len(q) /\ Len(q) \in Nat
            /\ \A k \in DOMAIN q : Append(q, x)[k] = q[k]
            /\ Append(q, x)[Len(q) + 1] = x
        BY LastOf
      <4>4. Introduces(x) => q = << >> /\ ~Answered(c)
        BY <4>1, <4>2 DEF Introductions
      <4>5. q = << >> => Len(q) = 0
        OBVIOUS
      <4>6. \A k \in DOMAIN Append(q, x) : k \in DOMAIN q \/ k = Len(q) + 1
        BY <4>3
      <4>7. \A k \in DOMAIN q : Introduces(q[k]) => k = 1 /\ ~Answered(c)
        BY <4>1 DEF Introductions
      <4>8. \A k \in DOMAIN Append(q, x) : Introduces(Append(q, x)[k]) => k = 1 /\ ~Answered(c)
        BY <4>3, <4>4, <4>5, <4>6, <4>7
      <4> QED
        BY <3>2, <4>1, <4>2, <4>8
    <3> QED
      BY <1>4, <3>1, <3>2 DEF ClientSend, Types
  <2>7. ASSUME NEW d \in Clients, client'[d] \in {"start", "connected"}
        PROVE  outgoing'[d] = << >> /\ toServer'[d] = << >> /\ ~Answered(d)'
    BY <1>00, <2>3, <2>4, <2>7 DEF Introductions
  <2>8. ASSUME NEW d \in Clients, NEW k \in DOMAIN toServer'[d], Introduces(toServer'[d][k])
        PROVE  k = 1 /\ ~Answered(d)'
    BY <1>00, <2>3, <2>6, <2>8 DEF Introductions
  <2>9. ASSUME NEW d \in Clients, NEW k \in DOMAIN outgoing'[d], Introduces(outgoing'[d][k])
        PROVE  k = 1 /\ toServer'[d] = << >> /\ ~Answered(d)'
    BY <1>00, <2>3, <2>5, <2>9 DEF Introductions
  <2> QED
    BY <2>7, <2>8, <2>9 DEF Introductions, Introduces
<1>5. CASE \/ processMsgFromServer(c) \/ ServerTerminated(c) \/ StdinStaysReady(c) \/ Quit(c)
           \/ Reset(c) \/ UNCHANGED vars
  <2>1. UNCHANGED toServer
    BY <1>5 DEF processMsgFromServer, ServerTerminated, StdinStaysReady, Quit, Reset, vars
  <2>2. \A d \in Clients : /\ outgoing'[d] \in {outgoing[d], << >>}
                           /\ client'[d] \in {client[d], "deaf", "exited", "terminated"}
    BY <1>5 DEF processMsgFromServer, ServerTerminated, StdinStaysReady, Quit, Reset, vars,
                clientVars, Exit, Types
  <2> QED
    BY <1>00, <2>1, <2>2 DEF Introductions
<1> QED
  BY <1>1, <1>2, <1>3, <1>4, <1>5 DEF ClientStep

\* Steps that leave the table and its registrants alone, and that close connections
\* without opening them anew, keep registrants reachable.
LEMMA RegistrantsStay ==
    ASSUME IInv, UNCHANGED <<tableVars, reset>>, closed \subseteq closed',
           server = "exited" => server' = "exited",
           \A fd \in ClientFds : Open(fd) => \/ connOf'[fd] = connOf[fd]
                                             \/ connOf[fd] \in closed' \/ server' = "exited",
           \A c \in Clients :
             /\ Gone(c) => client'[c] \in {"exited", "terminated"}
             /\ client[c] = "exited" => client'[c] = "exited"
             /\ client'[c] = "terminated" => client[c] = "terminated" \/ CutOff(c),
           \A c \in closed' : c \in closed \/ client'[c] = "exited" \/ ~Answered(c)
    PROVE  Registrants'
<1> USE DEF IInv
<1>1. UNCHANGED <<handle_table_entries, table_size, overrun, registrant, refused, reset>>
  BY DEF tableVars
<1>2. \A c : Answered(c)' = Answered(c)
  BY <1>1 DEF Answered, Registered
<1>3. TableFits'
  BY <1>1 DEF TableFits, Registrants
<1>4. ASSUME NEW i \in DOMAIN registrant'
      PROVE  \/ connOf'[handle_table_entries'[i].socket_number] = registrant'[i]
             \/ registrant'[i] \in closed' \/ server' = "exited"
  <2>1. /\ handle_table_entries[i].socket_number \in ClientFds
        /\ registrant[i] \in Clients /\ NoClient \notin Clients
    <3>1. i \in DOMAIN handle_table_entries /\ registrant[i] \in Clients
      <4>1. PICK q \in Seq(HT!Entry), r \in Seq(Clients) :
              q = handle_table_entries /\ r = registrant /\ Len(q) = Len(r)
        BY DEF Types, HT!TypeOK
      <4>2. i \in DOMAIN r
        BY <1>1, <4>1
      <4>3. DOMAIN q = DOMAIN r
        BY <4>1
      <4> QED
        BY <4>1, <4>2, <4>3
    <3>2. handle_table_entries[i] \in HT!Entry
      <4>1. PICK q \in Seq(HT!Entry) : q = handle_table_entries
        BY DEF Types, HT!TypeOK
      <4>2. i \in DOMAIN q
        BY <3>1, <4>1
      <4> QED
        BY <4>1, <4>2
    <3> QED
      BY <3>1, <3>2, ChatAssumption DEF HT!Entry
  <2>2. \/ connOf[handle_table_entries[i].socket_number] = registrant[i]
        \/ registrant[i] \in closed \/ server = "exited"
    BY <1>1 DEF Registrants
  <2> QED
    BY <1>1, <2>1, <2>2 DEF Open
<1>5. ASSUME NEW c \in closed' PROVE client'[c] = "exited" \/ ~Answered(c)'
  BY <1>2 DEF Registrants, Types
<1>6. ASSUME NEW c \in Clients, client'[c] = "terminated" PROVE CutOff(c)'
  BY <1>6 DEF Registrants, CutOff
<1>7. ASSUME NEW c \in reset' PROVE Gone(c)'
  BY <1>1 DEF Registrants, Types, Gone
<1> QED
  BY <1>1, <1>3, <1>4, <1>5, <1>6, <1>7 DEF Registrants

\* The client whose registration is stored is not a registrant yet; its entry gets its
\* connection's descriptor.
LEMMA RegisterRegistrants ==
    ASSUME IInv, NEW fd \in ClientFds, Register(fd)
    PROVE  Registrants'
<1> USE DEF IInv
<1>1. PICK c \in Clients : c = connOf[fd] /\ c \notin closed /\ server = "up"
  BY PolledClient DEF Register
<1>2. /\ toServer[c] # << >> /\ Head(toServer[c]).flag = 1 /\ toServer[c] \in Seq(ClientPDUs)
  BY <1>1 DEF Register, recvPDU, Types
<1>3. ~Answered(c)
  BY <1>1, <1>2, ReadsRegistration DEF Register, Introduces
<1>4. PICK pdu : pdu = Head(toServer[c])
  OBVIOUS
<1>5. pdu.compared \in Strings /\ pdu.stored \in Strings
  <2>1. pdu \in ClientPDUs
    BY <1>2, <1>4
  <2> QED
    BY <1>2, <1>4, <2>1, ClientPDUKinds
<1>6. UNCHANGED <<acceptVars, server, client, reset>>
  BY DEF Register, clientVars
<1>7. CASE HT!add_refused(pdu.compared) /\ refused' = refused \cup {c} /\ UNCHANGED registrant
  <2>1. UNCHANGED <<handle_table_entries, table_size, overrun>>
    BY <1>7 DEF HT!add_refused, HT!vars
  <2>2. \A d : d # c => Answered(d)' = Answered(d)
    BY <1>7 DEF Answered, Registered
  <2> QED
    BY <1>1, <1>6, <1>7, <2>1, <2>2 DEF Registrants, TableFits, CutOff, Gone, acceptVars
<1>8. CASE HT!add_stored(fd, pdu.compared, pdu.stored)
           /\ registrant' = Append(registrant, c) /\ UNCHANGED refused
  <2>1. Len(handle_table_entries) < Cardinality(Clients)
    BY RegisterRoom
  <2>2. HT!TypeOK /\ TableFits
    BY DEF Types, Registrants
  <2>3. PICK e : e = [socket_number |-> fd, handle_name |-> pdu.stored]
    OBVIOUS
  <2>4. TableFits' /\ handle_table_entries' = Append(handle_table_entries, e)
    BY <1>5, <1>8, <2>1, <2>2, <2>3, EntryStored
  <2>5. PICK n \in Nat : n = Len(registrant) /\ n = Len(handle_table_entries)
    BY <2>2 DEF Types, HT!TypeOK
  <2>6. /\ DOMAIN registrant' = 1 .. n + 1 /\ DOMAIN registrant = 1 .. n
        /\ \A k \in 1 .. n : registrant'[k] = registrant[k] /\ registrant[k] \in Clients
        /\ registrant'[n + 1] = c
    <3>1. registrant \in Seq(Clients)
      BY DEF Types
    <3>2. PICK q \in Seq(Clients) : q = registrant
      BY <3>1
    <3>3. /\ DOMAIN Append(q, c) = 1 .. Len(q) + 1 /\ DOMAIN q = 1 .. Len(q)
          /\ \A k \in DOMAIN q : Append(q, c)[k] = q[k]
          /\ Append(q, c)[Len(q) + 1] = c
      BY LastOf
    <3>4. registrant' = Append(q, c) /\ Len(q) = n
      BY <1>8, <2>5, <3>2
    <3>5. /\ DOMAIN registrant' = 1 .. n + 1 /\ DOMAIN registrant = 1 .. n
          /\ \A k \in 1 .. n : registrant'[k] = registrant[k]
          /\ registrant'[n + 1] = c
      BY <3>2, <3>3, <3>4
    <3>6. \A k \in 1 .. n : registrant[k] \in Clients
      BY <3>1, <3>5
    <3> QED
      BY <3>5, <3>6
  <2>7. /\ \A k \in 1 .. n : handle_table_entries'[k] = handle_table_entries[k]
        /\ handle_table_entries'[n + 1].socket_number = fd
    <3>1. handle_table_entries \in Seq(HT!Entry) /\ e \in HT!Entry
      BY <1>5, <2>2, <2>3 DEF HT!TypeOK, HT!Entry
    <3>2. /\ \A k \in 1 .. n : handle_table_entries'[k] = handle_table_entries[k]
          /\ handle_table_entries'[n + 1] = e
      BY <2>4, <2>5, <3>1, LastOf
    <3> QED
      BY <2>3, <3>2
  <2>8. \A k \in 1 .. n : registrant[k] # c
    BY <1>3, <2>6 DEF Answered, Registered
  <2>9. \A k \in 1 .. n + 1 : k \in 1 .. n \/ k = n + 1
    BY <2>5
  <2>10. \A i, j \in DOMAIN registrant' : registrant'[i] = registrant'[j] => i = j
    BY <2>6, <2>8, <2>9 DEF Registrants
  <2>11. \A i \in DOMAIN registrant' :
           \/ connOf[handle_table_entries'[i].socket_number] = registrant'[i]
           \/ registrant'[i] \in closed \/ server = "exited"
    <3>1. \A i \in 1 .. n :
           \/ connOf[handle_table_entries[i].socket_number] = registrant[i]
           \/ registrant[i] \in closed \/ server = "exited"
      BY <2>6 DEF Registrants
    <3> QED
      BY <1>1, <2>6, <2>7, <2>9, <3>1
  <2>12. \A d : d # c => (Answered(d)' = Answered(d))
    <3>1. ASSUME NEW d, d # c PROVE Registered(d)' <=> Registered(d)
      BY <2>6, <2>9, <3>1 DEF Registered
    <3> QED
      BY <1>8, <3>1 DEF Answered
  <2> QED
    BY <1>1, <1>6, <2>4, <2>10, <2>11, <2>12 DEF Registrants, CutOff, Gone, acceptVars
<1> QED
  BY <1>1, <1>4, <1>7, <1>8 DEF Register

LEMMA NextRegistrants ==
    ASSUME IInv, [Next]_vars
    PROVE  Registrants'
<1> USE DEF IInv
<1>1. CASE ServerStart
  BY <1>1, RegistrantsStay DEF ServerStart, acceptVars, clientVars, Gone
<1>2. CASE addNewSocket
  <2>1. PICK fd \in ClientFds : fd = HT!First(FreeFds) /\ ~Open(fd)
    BY <1>2, FirstFree DEF addNewSocket
  <2>2. /\ connOf' = [connOf EXCEPT ![fd] = Head(backlog)]
        /\ UNCHANGED <<tableVars, reset, closed, server, client>>
    BY <1>2, <2>1 DEF addNewSocket, clientVars
  <2>3. \A g \in ClientFds : Open(g) => connOf'[g] = connOf[g]
    BY <2>1, <2>2 DEF Types
  <2> QED
    BY <2>2, <2>3, RegistrantsStay DEF Gone
<1>3. CASE ServerExit
  BY <1>3, RegistrantsStay DEF ServerExit, clientVars, Gone
<1>4. CASE ServerSend
  BY <1>4, RegistrantsStay DEF ServerSend, acceptVars, clientVars, Gone
<1>5. ASSUME NEW fd \in ClientFds, ClientClosed(fd) PROVE Registrants'
  <2>1. PICK c \in Clients : c = connOf[fd] /\ c \notin closed /\ server = "up"
    BY <1>5, PolledClient DEF ClientClosed
  <2>2. /\ connOf' = [connOf EXCEPT ![fd] = NoClient] /\ closed' = closed \cup {c}
        /\ UNCHANGED <<tableVars, reset, server, client>>
    BY <1>5, <2>1 DEF ClientClosed, clientVars
  <2>3. \A g \in ClientFds : connOf'[g] = connOf[g] \/ connOf[g] \in closed'
    BY <2>1, <2>2 DEF Types
  <2>4. client[c] = "exited" \/ ~Answered(c)
    <3>1. Polled = fd /\ recvPDU(c) = 0
      BY <1>5, <2>1 DEF ClientClosed
    <3>2. CASE toServer[c] = << >>
      <4>1. Gone(c)
        BY <2>1, <3>1, <3>2, PolledClient
      <4>2. ~CutOff(c)
        BY <2>1 DEF CutOff
      <4> QED
        BY <4>1, <4>2 DEF Gone, Registrants
    <3>3. CASE toServer[c] # << >>
      <4>1. Introduces(Head(toServer[c]))
        BY <3>1, <3>3 DEF recvPDU, Introduces
      <4> QED
        BY <2>1, <3>1, <3>3, <4>1, ReadsRegistration
    <3> QED
      BY <3>2, <3>3
  <2> QED
    BY <2>2, <2>3, <2>4, RegistrantsStay DEF Gone
<1>6. ASSUME NEW fd \in ClientFds, Register(fd) PROVE Registrants'
  BY <1>6, RegisterRegistrants
<1>7. ASSUME NEW fd \in ClientFds, processClient(fd) PROVE Registrants'
  BY <1>7, RegistrantsStay DEF processClient, acceptVars, clientVars, Gone
<1>8. ASSUME NEW c \in Clients,
             ClientStep(c) \/ processStdin(c) \/ StdinStaysReady(c) \/ Quit(c) \/ UNCHANGED vars
      PROVE  Registrants'
  <2>1. UNCHANGED <<tableVars, reset, closed, connOf, server>>
    BY <1>8 DEF ClientStep, tcpClientSetup, setHandle, ClientSend, processMsgFromServer,
         ServerTerminated, processStdin, StdinStaysReady, Quit, vars, serverVars, acceptVars
  <2>2. ASSUME NEW d \in Clients
        PROVE /\ client[d] \in {"exited", "terminated"} => client'[d] \in {"exited", "terminated"}
              /\ client[d] = "exited" => client'[d] = "exited"
              /\ client'[d] = "terminated" => client[d] = "terminated" \/ CutOff(d)
    <3>1. CASE tcpClientSetup(c) \/ setHandle(c) \/ StdinStaysReady(c) \/ Quit(c)
      BY <3>1 DEF tcpClientSetup, setHandle, StdinStaysReady, Quit, Exit, Types
    <3>2. CASE ClientSend(c)
      BY <3>2 DEF ClientSend, Exit, Types
    <3>3. CASE processMsgFromServer(c)
      BY <3>3 DEF processMsgFromServer, Exit, Types
    <3>4. CASE ServerTerminated(c)
      BY <3>4 DEF ServerTerminated, Exit, Types
    <3>5. CASE processStdin(c) \/ UNCHANGED vars
      BY <3>5 DEF processStdin, vars, clientVars
    <3> QED
      BY <1>8, <3>1, <3>2, <3>3, <3>4, <3>5 DEF ClientStep
  <2> QED
    BY <2>1, <2>2, RegistrantsStay DEF Gone
<1>9. ASSUME NEW c \in Clients, Reset(c) PROVE Registrants'
  <2>1. UNCHANGED <<serverVars, client>> /\ reset' = reset \cup {c} /\ Gone(c)
    BY <1>9 DEF Reset, clientVars
  <2> QED
    BY <2>1 DEF Registrants, TableFits, CutOff, Gone, Answered, Registered, serverVars,
                tableVars, acceptVars
<1>10. CASE UNCHANGED vars
  BY <1>10, RegistrantsStay DEF vars, serverVars, acceptVars, clientVars, Gone
<1> QED
  BY <1>1, <1>2, <1>3, <1>4, <1>5, <1>6, <1>7, <1>8, <1>9, <1>10
     DEF Next, Server, AcceptFails, SendFails, Waiting

LEMMA InitIInv ==
    ASSUME Init
    PROVE  IInv
<1>1. Types
  BY InitTypes
<1>2. PS!Watched = {}
  BY SetupWatches DEF Init
<1>3. \A fd \in ClientFds : ~Open(fd)
  BY DEF Init, Open
<1>4. Connections
  BY <1>2, <1>3 DEF Init, Connections, Open
<1>5. Introductions
  BY DEF Init, Introductions, Answered, Registered
<1>6. Registrants
  <2>1. TableFits
    <3>1. handle_table_entries = << >> /\ table_size = 2 /\ overrun = FALSE
      BY DEF Init, HT!create_table
    <3>2. Len(handle_table_entries) = 0
      BY <3>1
    <3> QED
      BY <3>1, <3>2, TableOfServer DEF TableFits
  <2> QED
    BY <2>1 DEF Init, Registrants, CutOff, Gone
<1> QED
  BY <1>1, <1>4, <1>5, <1>6 DEF IInv

LEMMA NextIInv ==
    ASSUME IInv, [Next]_vars
    PROVE  IInv'
<1>1. CASE Server
  BY <1>1, ServerTypes, ServerConnections, ServerIntroductions, NextRegistrants DEF IInv
<1>2. ASSUME NEW c \in Clients,
             ClientStep(c) \/ processStdin(c) \/ StdinStaysReady(c) \/ Quit(c) \/ Reset(c)
      PROVE  IInv'
  BY <1>2, ClientTypes, ClientConnections, ClientIntroductions, NextRegistrants DEF IInv
<1>3. CASE UNCHANGED vars
  <2>1. Types' /\ Connections' /\ Introductions'
    <3>1. HT!TypeOK' /\ PS!PollTypeOK' /\ PS!ArrayConsistent' /\ PS!Watched' = PS!Watched
      BY <1>3, TableTypes, PollTypes DEF IInv, Types, vars, serverVars
    <3>2. UNCHANGED <<server, connOf, closed, reset, refused, client, typed, backlog,
                      registrant, todo, handle_table_entries, outgoing, toServer,
                      toClient, received>>
      BY <1>3 DEF vars, serverVars, tableVars, acceptVars, clientVars
    <3> QED
      BY <3>1, <3>2 DEF IInv, Types, Connections, Introductions, Open, Answered, Registered
  <2> QED
    BY <1>3, <2>1, NextRegistrants DEF IInv
<1> QED
  BY <1>1, <1>2, <1>3 DEF Next, Waiting

-----------------------------------------------------------------------------
(* Theorems *)

\* The inductive invariant of the chat: what is on its way is typed, every client has
\* one connection and introduces itself once, and a registrant is behind its entry's
\* descriptor until that is closed.
THEOREM Invariant == Spec => []IInv
<1>1. Init => IInv
  BY InitIInv
<1>2. IInv /\ [Next]_vars => IInv'
  BY NextIInv
<1> QED
  BY <1>1, <1>2, PTL DEF Spec

\* The server's and the clients' state is typed.
THEOREM TypeCorrect == Spec => []TypeOK
<1>1. IInv => TypeOK
  <2> SUFFICES ASSUME IInv PROVE TypeOK
    OBVIOUS
  <2>1. \A i \in DOMAIN backlog : backlog[i] \in Clients
    BY DEF IInv, Types
  <2>2. ASSUME NEW i \in DOMAIN todo PROVE todo[i].fd \in ClientFds \cup {0}
    <3>1. todo[i] \in Sendings
      BY DEF IInv, Types
    <3> QED
      BY <3>1 DEF Sendings
  <2> QED
    BY <2>1, <2>2 DEF IInv, Types, TypeOK
<1> QED
  BY <1>1, Invariant, PTL

\* The poll set watches the listening descriptor and exactly the open connections, each
\* client's one, for any number of clients and descriptors.
THEOREM WatchesOpen == Spec => []WatchedAreOpen
<1>1. IInv => WatchedAreOpen
  BY DEF IInv, Connections, WatchedAreOpen
<1> QED
  BY <1>1, Invariant, PTL

\* A client that the server has answered is told that the server terminated only by a
\* server that did.
THEOREM AnsweredIsNotTerminated == Spec => []TerminatedOnlyUnregistered
<1>1. IInv => TerminatedOnlyUnregistered
  <2> SUFFICES ASSUME IInv, server = "up", NEW c \in Clients, client[c] = "terminated"
               PROVE  c \in closed /\ ~Answered(c)
    BY DEF TerminatedOnlyUnregistered, Answered, Registered
  <2>1. c \in closed
    BY DEF IInv, Registrants, CutOff
  <2> QED
    BY <2>1 DEF IInv, Registrants
<1> QED
  BY <1>1, Invariant, PTL

-----------------------------------------------------------------------------
(* Names that are kept apart *)

\* What a step can do to the PDUs between a client and the server.
LEMMA SentFlow ==
    ASSUME IInv, [Next]_vars, NEW d \in Clients
    PROVE  /\ \/ toServer'[d] \in {toServer[d], << >>}
              \/ toServer[d] # << >> /\ toServer'[d] = Tail(toServer[d])
              \/ outgoing[d] # << >> /\ toServer'[d] = Append(toServer[d], Head(outgoing[d]))
           /\ \/ outgoing'[d] \in {outgoing[d], << >>}
              \/ outgoing[d] # << >> /\ outgoing'[d] = Tail(outgoing[d])
              \/ \E pdu \in RegistrationPDUs(d) : outgoing'[d] = <<pdu>>
              \/ typed'[d] = typed[d] + 1 /\ \E line \in Lines : outgoing'[d] = LinePDUs(d, line)
<1> USE DEF IInv
<1>1. CASE Server
  <2>1. outgoing'[d] = outgoing[d]
    BY <1>1 DEF Server, ServerStart, addNewSocket, AcceptFails, SendFails, ServerExit,
                ServerSend, ClientClosed, Register, processClient, clientVars
  <2>2. CASE ServerStart \/ addNewSocket \/ ServerSend \/ ServerExit
    BY <2>1, <2>2 DEF ServerStart, addNewSocket, ServerSend, ServerExit
  <2>3. ASSUME NEW fd \in ClientFds, ClientClosed(fd) PROVE toServer'[d] \in {toServer[d], << >>}
    BY <2>3 DEF ClientClosed, Types
  <2>4. ASSUME NEW fd \in ClientFds, Register(fd) \/ processClient(fd)
        PROVE  \/ toServer'[d] = toServer[d]
               \/ toServer[d] # << >> /\ toServer'[d] = Tail(toServer[d])
    <3>1. toServer[connOf[fd]] # << >> /\
          toServer' = [toServer EXCEPT ![connOf[fd]] = Tail(toServer[connOf[fd]])]
      BY <2>4 DEF Register, processClient, recvPDU
    <3> QED
      BY <3>1 DEF Types
  <2> QED
    BY <1>1, <2>1, <2>2, <2>3, <2>4 DEF Server, AcceptFails, SendFails
<1>2. ASSUME NEW c \in Clients, tcpClientSetup(c) \/ processMsgFromServer(c)
                                \/ ServerTerminated(c) \/ StdinStaysReady(c) \/ Quit(c)
                                \/ Reset(c)
      PROVE  toServer'[d] = toServer[d] /\ outgoing'[d] \in {outgoing[d], << >>}
  BY <1>2 DEF tcpClientSetup, processMsgFromServer, ServerTerminated, StdinStaysReady, Quit,
              Reset, Exit, clientVars, Types
<1>3. ASSUME NEW c \in Clients, setHandle(c)
      PROVE  /\ toServer'[d] = toServer[d]
             /\ \/ outgoing'[d] = outgoing[d]
                \/ \E pdu \in RegistrationPDUs(d) : outgoing'[d] = <<pdu>>
  <2>1. PICK pdu \in RegistrationPDUs(c) : outgoing' = [outgoing EXCEPT ![c] = <<pdu>>]
    BY <1>3 DEF setHandle
  <2> QED
    BY <1>3, <2>1 DEF setHandle, Types
<1>4. ASSUME NEW c \in Clients, processStdin(c)
      PROVE  /\ toServer'[d] = toServer[d]
             /\ \/ outgoing'[d] = outgoing[d]
                \/ typed'[d] = typed[d] + 1 /\ \E line \in Lines : outgoing'[d] = LinePDUs(d, line)
  <2>1. PICK line \in Lines : outgoing' = [outgoing EXCEPT ![c] = LinePDUs(c, line)]
    BY <1>4 DEF processStdin
  <2> QED
    BY <1>4, <2>1 DEF processStdin, Types
<1>5. ASSUME NEW c \in Clients, ClientSend(c)
      PROVE  /\ \/ toServer'[d] = toServer[d]
                \/ outgoing[d] # << >> /\ toServer'[d] = Append(toServer[d], Head(outgoing[d]))
             /\ \/ outgoing'[d] \in {outgoing[d], << >>}
                \/ outgoing[d] # << >> /\ outgoing'[d] = Tail(outgoing[d])
  BY <1>5 DEF ClientSend, Exit, Types
<1>6. CASE UNCHANGED vars
  BY <1>6 DEF vars, clientVars
<1> QED
  BY <1>1, <1>2, <1>3, <1>4, <1>5, <1>6 DEF Next, ClientStep, Waiting

LEMMA CleanTail ==
    ASSUME NEW s \in Seq(ClientPDUs), s # << >>, AllClean(s)
    PROVE  AllClean(Tail(s)) /\ Clean(Head(s))
<1>1. \A k \in DOMAIN Tail(s) : k + 1 \in DOMAIN s /\ Tail(s)[k] = s[k + 1]
  BY HeadOf
<1>2. Head(s) = s[1] /\ 1 \in DOMAIN s
  BY HeadOf
<1> QED
  BY <1>1, <1>2 DEF AllClean

LEMMA CleanAppend ==
    ASSUME NEW s \in Seq(ClientPDUs), AllClean(s), NEW x \in ClientPDUs, Clean(x)
    PROVE  AllClean(Append(s, x))
<1>1. /\ DOMAIN Append(s, x) = 1 .. Len(s) + 1 /\ DOMAIN s = 1 .. Len(s) /\ Len(s) \in Nat
      /\ \A k \in DOMAIN s : Append(s, x)[k] = s[k]
      /\ Append(s, x)[Len(s) + 1] = x
  BY LastOf
<1>2. \A k \in DOMAIN Append(s, x) : k \in DOMAIN s \/ k = Len(s) + 1
  BY <1>1
<1> QED
  BY <1>1, <1>2 DEF AllClean

\* The table and its registrants change when an entry is stored, and only then.
LEMMA OnlyRegisterStores ==
    ASSUME [Next]_vars
    PROVE  \/ UNCHANGED <<handle_table_entries, registrant>>
           \/ \E fd \in ClientFds :
                /\ Register(fd) /\ registrant' = Append(registrant, connOf[fd])
                /\ HT!add_stored(fd, Head(toServer[connOf[fd]]).compared,
                                 Head(toServer[connOf[fd]]).stored)
<1>1. CASE ServerStart \/ addNewSocket \/ ServerExit \/ ServerSend
  BY <1>1 DEF ServerStart, addNewSocket, ServerExit, ServerSend, tableVars
<1>2. ASSUME NEW fd \in ClientFds, ClientClosed(fd) \/ processClient(fd)
      PROVE  UNCHANGED <<handle_table_entries, registrant>>
  BY <1>2 DEF ClientClosed, processClient, tableVars
<1>3. ASSUME NEW fd \in ClientFds, Register(fd)
      PROVE  \/ UNCHANGED <<handle_table_entries, registrant>>
             \/ /\ registrant' = Append(registrant, connOf[fd])
                /\ HT!add_stored(fd, Head(toServer[connOf[fd]]).compared,
                                 Head(toServer[connOf[fd]]).stored)
  BY <1>3 DEF Register, HT!add_refused, HT!vars
<1>4. ASSUME NEW c \in Clients, tcpClientSetup(c) \/ processMsgFromServer(c) \/ setHandle(c)
                 \/ ClientSend(c) \/ ServerTerminated(c) \/ processStdin(c) \/ StdinStaysReady(c) \/ Quit(c) \/ Reset(c)
      PROVE  UNCHANGED <<handle_table_entries, registrant>>
  BY <1>4 DEF tcpClientSetup, setHandle, ClientSend, processMsgFromServer,
              ServerTerminated, processStdin, StdinStaysReady, Quit, Reset, serverVars, tableVars
<1>5. CASE UNCHANGED vars
  BY <1>5 DEF vars, serverVars, tableVars
<1> QED
  BY <1>1, <1>2, <1>3, <1>4, <1>5
     DEF Next, Server, AcceptFails, SendFails, ClientStep, Waiting

LEMMA NextCleanNames ==
    ASSUME IInv, CleanNamesOnly, [Next]_vars
    PROVE  CleanNamesOnly'
<1>1. ASSUME NEW c \in Clients PROVE AllClean(toServer'[c]) /\ AllClean(outgoing'[c])
  <2>1. /\ AllClean(toServer[c]) /\ AllClean(outgoing[c])
        /\ toServer[c] \in Seq(ClientPDUs) /\ outgoing[c] \in Seq(ClientPDUs)
    BY DEF CleanNamesOnly, IInv, Types
  <2>2. AllClean(<< >>)
    BY DEF AllClean
  <2>3. toServer[c] # << >> => AllClean(Tail(toServer[c]))
    BY <2>1, CleanTail
  <2>4. outgoing[c] # << >> => AllClean(Tail(outgoing[c])) /\ AllClean(Append(toServer[c], Head(outgoing[c])))
    <3>1. SUFFICES ASSUME outgoing[c] # << >>
                   PROVE AllClean(Tail(outgoing[c])) /\ AllClean(Append(toServer[c], Head(outgoing[c])))
      OBVIOUS
    <3>2. AllClean(Tail(outgoing[c])) /\ Clean(Head(outgoing[c])) /\ Head(outgoing[c]) \in ClientPDUs
      BY <2>1, <3>1, CleanTail, HeadOf
    <3> QED
      BY <2>1, <3>2, CleanAppend
  <2>5. \A pdu \in RegistrationPDUs(c) : AllClean(<<pdu>>)
    BY RegistrationKinds DEF AllClean, Clean
  <2>6. \A line \in Lines : AllClean(LinePDUs(c, line))
    BY LineKinds DEF AllClean, Clean, Introduces, IInv, Types
  <2>7. /\ \/ toServer'[c] \in {toServer[c], << >>}
           \/ toServer[c] # << >> /\ toServer'[c] = Tail(toServer[c])
           \/ outgoing[c] # << >> /\ toServer'[c] = Append(toServer[c], Head(outgoing[c]))
        /\ \/ outgoing'[c] \in {outgoing[c], << >>}
           \/ outgoing[c] # << >> /\ outgoing'[c] = Tail(outgoing[c])
           \/ \E pdu \in RegistrationPDUs(c) : outgoing'[c] = <<pdu>>
           \/ \E line \in Lines : outgoing'[c] = LinePDUs(c, line)
    BY SentFlow
  <2>8. AllClean(toServer'[c])
    BY <2>1, <2>2, <2>3, <2>4, <2>7
  <2>9. AllClean(outgoing'[c])
    BY <2>1, <2>2, <2>4, <2>5, <2>6, <2>7
  <2> QED
    BY <2>8, <2>9
<1> DEFINE Apart(q) == \A i, j \in DOMAIN q :
                          q[i].handle_name = q[j].handle_name
                            => i = j \/ q[i].handle_name \in StaleNames
<1>2. Apart(handle_table_entries')
  <2>1. CASE UNCHANGED handle_table_entries
    BY <2>1 DEF CleanNamesOnly, NameAt
  <2>2. ASSUME NEW fd \in ClientFds, Register(fd), NEW pdu, pdu = Head(toServer[connOf[fd]]),
               HT!add_stored(fd, pdu.compared, pdu.stored)
        PROVE  Apart(handle_table_entries')
    <3>1. PICK c \in Clients : c = connOf[fd]
      BY <2>2, PolledClient DEF Register, IInv
    <3>2. /\ toServer[c] # << >> /\ Head(toServer[c]).flag = 1
          /\ toServer[c] \in Seq(ClientPDUs) /\ AllClean(toServer[c])
      BY <2>2, <3>1 DEF Register, recvPDU, IInv, Types, CleanNamesOnly
    <3>3. pdu \in ClientPDUs /\ Clean(pdu) /\ pdu.flag = 1
      BY <2>2, <3>1, <3>2, CleanTail, HeadOf
    <3>4. PICK h \in Strings, a \in Strings :
            h = pdu.stored /\ a = pdu.compared /\ (h \in StaleNames \/ a = h)
      BY <3>3, ClientPDUKinds DEF Clean
    <3>5. Len(handle_table_entries) < Cardinality(Clients) /\ HT!TypeOK /\ TableFits
      BY <2>2, RegisterRoom DEF IInv, Types, Registrants
    <3>6. HT!add_stored(fd, a, h)
      BY <2>2, <3>4
    <3>7. PICK e : e = [socket_number |-> fd, handle_name |-> h]
      OBVIOUS
    <3>8. handle_table_entries' = Append(handle_table_entries, e) /\ HT!get_socket(a) = 0
      BY <3>5, <3>6, <3>7, EntryStored
    <3>9. \A i \in DOMAIN handle_table_entries : handle_table_entries[i].handle_name # a
      <4>1. 0 \notin ClientFds
        BY FdsOfServer
      <4> QED
        BY <3>5, <3>8, <4>1, SocketFound
    <3>10. PICK q \in Seq(HT!Entry) : q = handle_table_entries
      BY <3>5 DEF HT!TypeOK
    <3>11. e \in HT!Entry
      BY <3>7 DEF HT!Entry
    <3>12. /\ DOMAIN Append(q, e) = 1 .. Len(q) + 1 /\ DOMAIN q = 1 .. Len(q) /\ Len(q) \in Nat
           /\ \A k \in DOMAIN q : Append(q, e)[k] = q[k]
           /\ Append(q, e)[Len(q) + 1] = e
      BY <3>11, LastOf
    <3>13. \A k \in DOMAIN Append(q, e) : k \in DOMAIN q \/ k = Len(q) + 1
      BY <3>12
    <3>14. Apart(q)
      BY <3>10 DEF CleanNamesOnly, NameAt
    <3>15. /\ e.handle_name = h
           /\ h \in StaleNames \/ \A i \in DOMAIN q : q[i].handle_name # h
      BY <3>4, <3>7, <3>9, <3>10
    <3>16. Apart(Append(q, e))
      BY <3>12, <3>13, <3>14, <3>15
    <3> QED
      BY <3>8, <3>10, <3>16
  <2>3. \/ UNCHANGED handle_table_entries
        \/ \E fd \in ClientFds :
             Register(fd) /\ HT!add_stored(fd, Head(toServer[connOf[fd]]).compared,
                                           Head(toServer[connOf[fd]]).stored)
    BY OnlyRegisterStores
  <2> QED
    BY <2>1, <2>2, <2>3
<1> QED
  BY <1>1, <1>2 DEF CleanNamesOnly, AllClean, Clean, NameAt

\* A client whose handle was stored is reachable under the stored name while it is
\* connected, whatever else is registered: only one whose own handle ran into leftover
\* bytes can have the name of an entry before it, which get_socket finds instead.
THEOREM RegisteredReachable == Spec => []RegisteredIsReachable
<1>1. Init => CleanNamesOnly
  <2> SUFFICES ASSUME Init PROVE CleanNamesOnly
    OBVIOUS
  <2>1. handle_table_entries = << >> /\ \A c \in Clients : toServer[c] = << >> /\ outgoing[c] = << >>
    BY DEF Init, HT!create_table
  <2> QED
    BY <2>1 DEF CleanNamesOnly, AllClean
<1>2. IInv /\ CleanNamesOnly /\ [Next]_vars => CleanNamesOnly'
  BY NextCleanNames
<1>3. IInv /\ CleanNamesOnly => RegisteredIsReachable
  <2> SUFFICES ASSUME IInv, CleanNamesOnly, server = "up",
                      NEW i \in DOMAIN registrant, NEW fd \in ClientFds,
                      connOf[fd] = registrant[i]
               PROVE  \/ HT!get_socket(NameAt(i)) = fd
                      \/ NameAt(i) \in StaleNames /\ \E k \in 1 .. i - 1 : NameAt(k) = NameAt(i)
    BY DEF RegisteredIsReachable, NameAt
  <2>1. i \in DOMAIN handle_table_entries /\ registrant[i] \in Clients
    <3>1. registrant \in Seq(Clients) /\ Len(registrant) = Len(handle_table_entries)
      BY DEF IInv, Types
    <3>2. handle_table_entries \in Seq(HT!Entry)
      BY DEF IInv, Types, HT!TypeOK
    <3> QED
      BY <3>1, <3>2
  <2>2. handle_table_entries[i] \in HT!Entry
    BY <2>1 DEF IInv, Types, HT!TypeOK
  <2>3. PICK s \in ClientFds : s = handle_table_entries[i].socket_number
    BY <2>2 DEF HT!Entry
  <2>4. registrant[i] # NoClient /\ registrant[i] \notin closed
    BY <2>1, ChatAssumption DEF IInv, Connections, Open
  <2>5. connOf[s] = registrant[i]
    BY <2>3, <2>4 DEF IInv, Registrants
  <2>6. s = fd
    BY <2>4, <2>5 DEF IInv, Connections, Open
  <2>7. HT!TypeOK /\ NameAt(i) \in Strings
    BY <2>2 DEF IInv, Types, HT!Entry, NameAt
  <2>8. PICK k \in DOMAIN handle_table_entries :
          /\ NameAt(k) = NameAt(i) /\ k <= i
          /\ HT!get_socket(NameAt(i)) = handle_table_entries[k].socket_number
    BY <2>1, <2>7, FirstSocketFound DEF NameAt
  <2>9. CASE k = i
    BY <2>3, <2>6, <2>8, <2>9
  <2>10. CASE k # i
    <3>1. NameAt(i) \in StaleNames
      BY <2>1, <2>8, <2>10 DEF CleanNamesOnly
    <3>2. k \in 1 .. i - 1
      <4>1. DOMAIN handle_table_entries = 1 .. Len(handle_table_entries) /\ Len(handle_table_entries) \in Nat
        BY <2>7 DEF HT!TypeOK
      <4> QED
        BY <2>1, <2>8, <2>10, <4>1
    <3> QED
      BY <2>8, <3>1, <3>2
  <2> QED
    BY <2>9, <2>10
<1> QED
  BY <1>1, <1>2, <1>3, Invariant, PTL DEF Spec

-----------------------------------------------------------------------------
(* Whom a message reaches *)

\* The PDUs and clients such that the client may be sent the PDU: it is no message for
\* handles, or the client registered one of them, or the one who did is cut off.
Due ==
    {d \in ServerPDUs \X Clients :
       d[1].flag \in {5, 6} =>
         \E i \in DOMAIN handle_table_entries :
           /\ \E r \in DOMAIN d[1].to : d[1].to[r] = handle_table_entries[i].handle_name
           /\ \/ registrant[i] = d[2]
              \/ Gone(registrant[i]) \/ CutOff(registrant[i])}

Delivered ==
    /\ \A c \in Clients : \A k \in DOMAIN received[c] : <<received[c][k], c>> \in Due
    /\ \A c \in Clients : \A k \in DOMAIN toClient[c] : <<toClient[c][k], c>> \in Due
    /\ \A k \in DOMAIN todo :
         todo[k].fd \in ClientFds /\ Open(todo[k].fd) =>
           <<todo[k].pdu, connOf[todo[k].fd]>> \in Due

\* What the server has still to send goes to an entry's descriptor, or to an open one,
\* unless the message names nobody.
Addressed ==
    \A k \in DOMAIN todo :
      \/ todo[k].fd \in ClientFds /\ Open(todo[k].fd)
      \/ \E i \in DOMAIN handle_table_entries :
           todo[k].fd = handle_table_entries[i].socket_number
      \/ NamesNobody(todo[k].pdu)

-----------------------------------------------------------------------------
(* Order *)

PDUs == ClientPDUs \cup ServerPDUs

Before(x, y) ==
    IsMessage(x) /\ IsMessage(y) /\ x.from = y.from =>
      x.id < y.id \/ (x.id = y.id /\ x.part <= y.part)

\* What is to be sent, without the descriptors.
Underway == [k \in DOMAIN todo |-> todo[k].pdu]

\* Where a message of d for c is, the end of its way first.
Places(c, d) == <<received[c], toClient[c], Underway, toServer[d], outgoing[d]>>

\* What is further on its way, or in front of it in the same place, comes before.
Earlier(i, k, j, l) == i < j \/ (i = j /\ k < l)

InOrder(q) ==
    \A i, j \in 1 .. 5 : \A k \in DOMAIN q[i] : \A l \in DOMAIN q[j] :
      Earlier(i, k, j, l) => Before(q[i][k], q[j][l])

Ordered == \A c, d \in Clients : InOrder(Places(c, d))

\* A line's number is at most what its sender has counted up to, and what a client has
\* sent is still on its way as its own.
CountedPDUs == {x \in PDUs : IsMessage(x) => x.id <= typed[x.from]}
SentBy(c) == {x \in PDUs : IsMessage(x) => x.from = c}
AllIn(s, S) == \A k \in DOMAIN s : s[k] \in S

Numbers ==
    /\ AllIn(Underway, CountedPDUs)
    /\ \A c \in Clients :
         /\ AllIn(received[c], CountedPDUs) /\ AllIn(toClient[c], CountedPDUs)
         /\ AllIn(toServer[c], CountedPDUs) /\ AllIn(toServer[c], SentBy(c))
         /\ AllIn(outgoing[c], CountedPDUs) /\ AllIn(outgoing[c], SentBy(c))

-----------------------------------------------------------------------------
(* What a handler sends *)

\* A message goes, whole or cut short, to entries of the table and, for a name it has
\* that no entry has, to descriptor 0.
MessageTo(pdu, x) ==
    /\ IsMessage(pdu) /\ x.pdu \in Messages /\ SameMessage(x.pdu, pdu)
    /\ \/ \E i \in DOMAIN handle_table_entries :
            /\ x.fd = handle_table_entries[i].socket_number
            /\ x.pdu.flag \in {5, 6} =>
                 \E r \in DOMAIN x.pdu.to : x.pdu.to[r] = handle_table_entries[i].handle_name
       \/ x.fd = 0 /\ NamesNobody(x.pdu)

\* A list goes to the one who asked.
ListTo(fd, pdu, x) == pdu.flag = 10 /\ x.fd = fd /\ x.pdu.flag \in {11, 12, 13}

LEMMA MessageTargets ==
    ASSUME HT!TypeOK, NEW pdu \in Messages, NEW k \in DOMAIN messageSend(pdu)
    PROVE  MessageTo(pdu, messageSend(pdu)[k])
<1>1. pdu.to \in Seq(Strings) /\ IsMessage(pdu)
  BY DEF Messages, IsMessage
<1>2. k \in 1 .. Len(pdu.to) /\ messageSend(pdu)[k] = SendTo(HT!get_socket(pdu.to[k]), pdu)
  BY DEF messageSend
<1>3. PICK h \in Strings : h = pdu.to[k] /\ k \in DOMAIN pdu.to
  BY <1>1, <1>2
<1>4. /\ messageSend(pdu)[k].fd = HT!get_socket(h) /\ messageSend(pdu)[k].pdu = pdu
      /\ SameMessage(pdu, pdu)
  BY <1>2, <1>3, ShortenedIs DEF SendTo
<1>5. CASE /\ HT!get_socket(h) = 0
           /\ \A i \in DOMAIN handle_table_entries : handle_table_entries[i].handle_name # h
  BY <1>1, <1>3, <1>4, <1>5 DEF MessageTo, NamesNobody
<1>6. CASE \E i \in DOMAIN handle_table_entries :
             /\ handle_table_entries[i].handle_name = h
             /\ HT!get_socket(h) = handle_table_entries[i].socket_number
  BY <1>1, <1>3, <1>4, <1>6 DEF MessageTo
<1> QED
  BY <1>5, <1>6, SocketFound

LEMMA BroadcastTargets ==
    ASSUME HT!TypeOK, NEW fd, NEW pdu \in Messages, pdu.flag = 4,
           NEW k \in DOMAIN messageBroadcast(fd, pdu)
    PROVE  MessageTo(pdu, messageBroadcast(fd, pdu)[k])
<1>1. PICK i \in DOMAIN handle_table_entries :
        messageBroadcast(fd, pdu)[k] = SendTo(handle_table_entries[i].socket_number, Shortened(pdu))
  BY BroadcastTypes
<1>2. Shortened(pdu) \in Messages /\ SameMessage(Shortened(pdu), pdu) /\ Shortened(pdu).flag = 4
  BY ShortenedIs DEF SameMessage
<1> QED
  BY <1>1, <1>2 DEF MessageTo, SendTo, IsMessage

LEMMA ListTargets ==
    ASSUME HT!TypeOK, NEW fd \in ClientFds, NEW pdu, pdu.flag = 10, NEW k \in DOMAIN listSend(fd)
    PROVE  ListTo(fd, pdu, listSend(fd)[k])
<1> DEFINE n == Len(handle_table_entries)
<1>1. /\ listSend(fd) \in Seq(Sendings) /\ Len(listSend(fd)) = n + 2 /\ n \in Nat
      /\ listSend(fd)[1] = SendTo(fd, [flag |-> 11, count |-> n])
      /\ \A j \in 1 .. n : \E name \in Strings :
           listSend(fd)[j + 1] = SendTo(fd, [flag |-> 12, name |-> name])
      /\ listSend(fd)[n + 2] = SendTo(fd, [flag |-> 13])
  BY ListSends
<1> HIDE DEF n
<1>2. k = 1 \/ k = n + 2 \/ (k - 1 \in 1 .. n /\ (k - 1) + 1 = k)
  BY <1>1
<1>3. PICK x : x = listSend(fd)[k]
  OBVIOUS
<1>4. \E sent \in {11, 12, 13} : \E body : x = SendTo(fd, body) /\ body.flag = sent
  <2>1. CASE k = 1
    BY <1>1, <1>3, <2>1
  <2>2. CASE k = n + 2
    BY <1>1, <1>3, <2>2
  <2>3. CASE k - 1 \in 1 .. n /\ (k - 1) + 1 = k
    <3>1. PICK j \in 1 .. n : j + 1 = k
      BY <2>3
    <3>2. PICK name \in Strings : listSend(fd)[j + 1] = SendTo(fd, [flag |-> 12, name |-> name])
      BY <1>1, <3>1
    <3> QED
      BY <1>3, <3>1, <3>2
  <2> QED
    BY <1>2, <2>1, <2>2, <2>3
<1> QED
  BY <1>3, <1>4 DEF ListTo, SendTo

LEMMA HandlerTargets ==
    ASSUME HT!TypeOK, NEW fd \in ClientFds, NEW pdu \in ClientPDUs, ~Introduces(pdu),
           NEW k \in DOMAIN Handler(fd, pdu)
    PROVE  MessageTo(pdu, Handler(fd, pdu)[k]) \/ ListTo(fd, pdu, Handler(fd, pdu)[k])
<1>1. pdu.flag \in {4, 5, 6, 10} /\ (IsMessage(pdu) => pdu \in Messages)
  BY ClientPDUKinds DEF Introduces
<1>2. CASE pdu.flag = 10
  <2>1. Handler(fd, pdu) = listSend(fd)
    BY <1>2 DEF Handler
  <2> QED
    BY <1>2, <2>1, ListTargets
<1>3. CASE pdu.flag \in {5, 6}
  <2>1. Handler(fd, pdu) = messageSend(pdu)
    BY <1>3 DEF Handler
  <2> QED
    BY <1>1, <1>3, <2>1, MessageTargets DEF IsMessage
<1>4. CASE pdu.flag = 4
  <2>1. pdu \in Messages
    BY <1>1, <1>4 DEF IsMessage
  <2>2. PICK b \in Seq(Sendings) : b = messageBroadcast(fd, pdu)
    BY <2>1, BroadcastTypes
  <2>3. PICK m \in Seq(Sendings) : m = messageSend(pdu)
    BY <2>1, MessageSends
  <2>4. PICK h : h = Handler(fd, pdu)
    OBVIOUS
  <2>5. h = b \o m
    BY <1>4, <2>2, <2>3, <2>4 DEF Handler
  <2>6. (k \in DOMAIN b /\ h[k] = b[k]) \/ \E j \in DOMAIN m : h[k] = m[j]
    <3>1. k \in 1 .. Len(b) + Len(m) /\ Len(b) \in Nat /\ Len(m) \in Nat
      BY <2>4, <2>5
    <3>2. CASE k \in 1 .. Len(b)
      <4>1. (b \o m)[k] = b[k]
        BY <3>2, ConcatAt
      <4> QED
        BY <2>5, <3>2, <4>1
    <3>3. CASE k \notin 1 .. Len(b)
      <4>1. PICK j : j = k - Len(b)
        OBVIOUS
      <4>2. j \in 1 .. Len(m) /\ k = Len(b) + j
        BY <3>1, <3>3, <4>1
      <4>3. (b \o m)[Len(b) + j] = m[j]
        BY <4>2, ConcatAt
      <4> QED
        BY <2>5, <4>2, <4>3
    <3> QED
      BY <3>2, <3>3
  <2>7. CASE k \in DOMAIN b /\ h[k] = b[k]
    BY <1>4, <2>1, <2>2, <2>4, <2>7, BroadcastTargets
  <2>8. ASSUME NEW j \in DOMAIN m, h[k] = m[j] PROVE MessageTo(pdu, h[k])
    BY <2>1, <2>3, <2>8, MessageTargets
  <2> QED
    BY <2>4, <2>6, <2>7, <2>8
<1> QED
  BY <1>1, <1>2, <1>3, <1>4

-----------------------------------------------------------------------------
(* What a step does to what is on its way *)

\* The handler that runs is replaced by no other before its sends are done, and no
\* descriptor changes hands while it runs.
LEMMA TodoFlow ==
    ASSUME IInv, [Next]_vars
    PROVE  \/ UNCHANGED todo /\ (todo = << >> \/ UNCHANGED connOf)
           \/ todo' = << >> /\ server' = "exited"
           \/ ServerSend
           \/ \E fd \in ClientFds, c \in Clients :
                /\ processClient(fd) /\ connOf[fd] = c /\ todo = << >> /\ UNCHANGED connOf
                /\ toServer[c] # << >> /\ ~Introduces(Head(toServer[c]))
                /\ todo' = Handler(fd, Head(toServer[c]))
<1> USE DEF IInv
<1>1. CASE ServerStart
  BY <1>1 DEF ServerStart, acceptVars
<1>2. CASE addNewSocket
  BY <1>2, PolledListener DEF addNewSocket
<1>3. CASE ServerExit
  BY <1>3 DEF ServerExit
<1>4. ASSUME NEW fd \in ClientFds, ClientClosed(fd) PROVE todo = << >> /\ todo' = todo
  BY <1>4, PolledClient DEF ClientClosed
<1>5. ASSUME NEW fd \in ClientFds, Register(fd) PROVE todo = << >> /\ todo' = todo
  BY <1>5, PolledClient DEF Register
<1>6. ASSUME NEW fd \in ClientFds, processClient(fd)
      PROVE  \E c \in Clients :
                /\ processClient(fd) /\ connOf[fd] = c /\ todo = << >> /\ UNCHANGED connOf
                /\ toServer[c] # << >> /\ ~Introduces(Head(toServer[c]))
                /\ todo' = Handler(fd, Head(toServer[c]))
  <2>1. PICK c \in Clients : c = connOf[fd] /\ todo = << >>
    BY <1>6, PolledClient DEF processClient
  <2> QED
    BY <1>6, <2>1 DEF processClient, acceptVars, recvPDU, Introduces
<1>7. ASSUME NEW c \in Clients, tcpClientSetup(c) \/ processMsgFromServer(c) \/ setHandle(c)
                 \/ ClientSend(c) \/ ServerTerminated(c) \/ processStdin(c) \/ StdinStaysReady(c) \/ Quit(c) \/ Reset(c)
      PROVE  UNCHANGED <<todo, connOf>>
  BY <1>7 DEF tcpClientSetup, setHandle, ClientSend, processMsgFromServer,
              ServerTerminated, processStdin, StdinStaysReady, Quit, Reset, serverVars, acceptVars
<1>8. CASE UNCHANGED vars
  BY <1>8 DEF vars, serverVars, acceptVars
<1> QED
  BY <1>1, <1>2, <1>3, <1>4, <1>5, <1>6, <1>7, <1>8
     DEF Next, Server, AcceptFails, SendFails, ClientStep, Waiting

\* A PDU that reaches a client is the next of the running handler and is for that
\* client's descriptor; what a client receives is next on its connection.
LEMMA ReceivedFlow ==
    ASSUME IInv, [Next]_vars, NEW c \in Clients
    PROVE  \/ received'[c] = received[c] /\ toClient'[c] = toClient[c]
           \/ /\ ServerSend /\ connOf[Head(todo).fd] = c
              /\ received'[c] = received[c]
              /\ toClient'[c] = Append(toClient[c], Head(todo).pdu)
           \/ /\ toClient[c] # << >> /\ UNCHANGED <<todo, connOf>>
              /\ received'[c] = Append(received[c], Head(toClient[c]))
              /\ toClient'[c] = Tail(toClient[c])
<1> USE DEF IInv
<1>1. CASE ServerStart \/ addNewSocket \/ ServerExit
  BY <1>1 DEF ServerStart, addNewSocket, ServerExit, clientVars
<1>2. ASSUME NEW fd \in ClientFds, ClientClosed(fd) \/ Register(fd) \/ processClient(fd)
      PROVE  UNCHANGED <<received, toClient>>
  BY <1>2 DEF ClientClosed, Register, processClient, clientVars
<1>3. CASE ServerSend
  BY <1>3 DEF ServerSend, clientVars, Types
<1>4. ASSUME NEW d \in Clients, processMsgFromServer(d)
      PROVE  \/ received'[c] = received[c] /\ toClient'[c] = toClient[c]
             \/ /\ toClient[c] # << >> /\ UNCHANGED <<todo, connOf>>
                /\ received'[c] = Append(received[c], Head(toClient[c]))
                /\ toClient'[c] = Tail(toClient[c])
  BY <1>4 DEF processMsgFromServer, Types, serverVars, acceptVars
<1>5. ASSUME NEW d \in Clients, tcpClientSetup(d) \/ setHandle(d) \/ ClientSend(d)
                 \/ ServerTerminated(d) \/ processStdin(d) \/ StdinStaysReady(d) \/ Quit(d) \/ Reset(d)
      PROVE  UNCHANGED <<received, toClient>>
  BY <1>5 DEF tcpClientSetup, setHandle, ClientSend, ServerTerminated, processStdin, StdinStaysReady, Quit,
              Reset, clientVars
<1>6. CASE UNCHANGED vars
  BY <1>6 DEF vars, clientVars
<1> QED
  BY <1>1, <1>2, <1>3, <1>4, <1>5, <1>6
     DEF Next, Server, AcceptFails, SendFails, ClientStep, Waiting

\* What ServerSend does.
LEMMA SendFlow ==
    ASSUME IInv, ServerSend
    PROVE  /\ todo # << >> /\ todo \in Seq(Sendings) /\ todo' = Tail(todo) /\ UNCHANGED connOf
           /\ Head(todo).fd \in ClientFds /\ Open(Head(todo).fd)
           /\ connOf[Head(todo).fd] \in Clients /\ Head(todo).pdu \in ServerPDUs
           /\ Head(todo) = todo[1] /\ 1 \in DOMAIN todo
<1>1. todo # << >> /\ todo \in Seq(Sendings) /\ todo' = Tail(todo) /\ UNCHANGED connOf
  BY DEF ServerSend, IInv, Types, acceptVars
<1>2. Head(todo).fd \in ClientFds /\ Open(Head(todo).fd) /\ connOf[Head(todo).fd] \in Clients
  BY DEF ServerSend, Open, IInv, Types
<1>3. Head(todo) \in Sendings /\ Head(todo) = todo[1] /\ 1 \in DOMAIN todo
  BY <1>1, HeadOf
<1>4. Head(todo).pdu \in ServerPDUs
  BY <1>3 DEF Sendings
<1> QED
  BY <1>1, <1>2, <1>3, <1>4

LEMMA TableGrows ==
    ASSUME IInv, [Next]_vars, NEW i \in DOMAIN handle_table_entries
    PROVE  /\ i \in DOMAIN handle_table_entries' /\ handle_table_entries'[i] = handle_table_entries[i]
           /\ registrant'[i] = registrant[i]
<1>1. CASE UNCHANGED <<handle_table_entries, registrant>>
  BY <1>1
<1>2. ASSUME NEW fd \in ClientFds, Register(fd), registrant' = Append(registrant, connOf[fd]),
             HT!add_stored(fd, Head(toServer[connOf[fd]]).compared,
                           Head(toServer[connOf[fd]]).stored)
      PROVE  /\ i \in DOMAIN handle_table_entries' /\ handle_table_entries'[i] = handle_table_entries[i]
             /\ registrant'[i] = registrant[i]
  <2>1. PICK c \in Clients : c = connOf[fd] /\ toServer[c] \in Seq(ClientPDUs)
    BY <1>2, PolledClient DEF Register, IInv
  <2>2. toServer[c] # << >> /\ Head(toServer[c]).flag = 1
    BY <1>2, <2>1 DEF Register, recvPDU
  <2>3. PICK pdu \in ClientPDUs : pdu = Head(toServer[c])
    BY <2>1, <2>2, HeadOf
  <2>4. pdu.compared \in Strings /\ pdu.stored \in Strings
    BY <2>2, <2>3, ClientPDUKinds
  <2>5. PICK e : e = [socket_number |-> fd, handle_name |-> pdu.stored]
    OBVIOUS
  <2>6. HT!TypeOK /\ TableFits /\ Len(handle_table_entries) < Cardinality(Clients)
    BY <1>2, RegisterRoom DEF IInv, Types, Registrants
  <2>7. handle_table_entries' = Append(handle_table_entries, e)
    BY <1>2, <2>1, <2>3, <2>4, <2>5, <2>6, EntryStored
  <2>8. e \in HT!Entry
    BY <2>4, <2>5 DEF HT!Entry
  <2>9. PICK q \in Seq(HT!Entry) : q = handle_table_entries
    BY <2>6 DEF HT!TypeOK
  <2>10. i \in DOMAIN Append(q, e) /\ Append(q, e)[i] = q[i]
    BY <2>8, <2>9, LastOf
  <2>11. PICK r \in Seq(Clients) : r = registrant /\ Len(r) = Len(q)
    BY <2>9 DEF IInv, Types
  <2>12. i \in DOMAIN r
    BY <2>9, <2>11
  <2>13. Append(r, c)[i] = r[i]
    BY <2>12, LastOf
  <2> QED
    BY <1>2, <2>1, <2>7, <2>9, <2>10, <2>11, <2>13
<1> QED
  BY <1>1, <1>2, OnlyRegisterStores

\* Departures and closed connections are for good.
LEMMA DepartedForGood ==
    ASSUME IInv, [Next]_vars, NEW c \in Clients
    PROVE  (Gone(c) => Gone(c)') /\ (CutOff(c) => CutOff(c)')
<1> USE DEF IInv
<1>1. CASE Server
  <2>1. client' = client
    BY <1>1 DEF Server, ServerStart, addNewSocket, AcceptFails, SendFails, ServerExit,
                ServerSend, ClientClosed, Register, processClient, clientVars
  <2>2. CutOff(c) => CutOff(c)'
    <3>1. CASE ServerStart \/ addNewSocket \/ ServerExit \/ ServerSend
      BY <3>1 DEF ServerStart, addNewSocket, ServerExit, ServerSend, acceptVars, CutOff
    <3>2. ASSUME NEW fd \in ClientFds, ClientClosed(fd) \/ Register(fd) \/ processClient(fd)
          PROVE  CutOff(c) => CutOff(c)'
      BY <3>2 DEF ClientClosed, Register, processClient, acceptVars, CutOff
    <3> QED
      BY <1>1, <3>1, <3>2 DEF Server, AcceptFails, SendFails
  <2> QED
    BY <2>1, <2>2 DEF Gone
<1>2. ASSUME NEW d \in Clients, tcpClientSetup(d) \/ processMsgFromServer(d) \/ setHandle(d)
                 \/ ClientSend(d) \/ ServerTerminated(d) \/ processStdin(d) \/ StdinStaysReady(d) \/ Quit(d) \/ Reset(d)
      PROVE  (Gone(c) => Gone(c)') /\ (CutOff(c) => CutOff(c)')
  <2>1. UNCHANGED <<server, closed>>
    BY <1>2 DEF tcpClientSetup, setHandle, ClientSend, processMsgFromServer,
              ServerTerminated, processStdin, StdinStaysReady, Quit, Reset, serverVars, acceptVars
  <2>2. CASE tcpClientSetup(d) \/ setHandle(d) \/ ServerTerminated(d) \/ StdinStaysReady(d) \/ Quit(d)
    BY <2>1, <2>2 DEF tcpClientSetup, setHandle, ServerTerminated, StdinStaysReady, Quit, Exit, Gone, CutOff, Types
  <2>3. CASE ClientSend(d) \/ processMsgFromServer(d)
    BY <2>1, <2>3 DEF ClientSend, processMsgFromServer, Exit, Gone, CutOff, Types
  <2>4. CASE processStdin(d) \/ Reset(d)
    BY <2>1, <2>4 DEF processStdin, Reset, Gone, CutOff, clientVars
  <2> QED
    BY <1>2, <2>2, <2>3, <2>4
<1>3. CASE UNCHANGED vars
  BY <1>3 DEF vars, serverVars, acceptVars, clientVars, Gone, CutOff
<1> QED
  BY <1>1, <1>2, <1>3 DEF Next, ClientStep, Waiting

-----------------------------------------------------------------------------
(* Whom messages reach *)

LEMMA DueStays ==
    ASSUME IInv, [Next]_vars
    PROVE  Due \subseteq Due'
<1> SUFFICES ASSUME NEW pdu \in ServerPDUs, NEW c \in Clients, <<pdu, c>> \in Due
             PROVE  <<pdu, c>> \in Due'
  BY DEF Due
<1>1. CASE pdu.flag \notin {5, 6}
  BY <1>1 DEF Due
<1>2. CASE pdu.flag \in {5, 6}
  <2>1. PICK i \in DOMAIN handle_table_entries :
          /\ \E r \in DOMAIN pdu.to : pdu.to[r] = handle_table_entries[i].handle_name
          /\ registrant[i] = c \/ Gone(registrant[i]) \/ CutOff(registrant[i])
    BY <1>2 DEF Due
  <2>2. /\ i \in DOMAIN handle_table_entries' /\ handle_table_entries'[i] = handle_table_entries[i]
        /\ registrant'[i] = registrant[i]
    BY TableGrows
  <2>3. PICK d \in Clients : d = registrant[i]
    <3>1. DOMAIN registrant = DOMAIN handle_table_entries /\ registrant \in Seq(Clients)
      BY DEF IInv, Types, HT!TypeOK
    <3> QED
      BY <3>1
  <2>4. (Gone(d) => Gone(d)') /\ (CutOff(d) => CutOff(d)')
    BY DepartedForGood
  <2>5. d = c \/ Gone(d)' \/ CutOff(d)'
    BY <2>1, <2>3, <2>4
  <2>6. \E r \in DOMAIN pdu.to : pdu.to[r] = handle_table_entries'[i].handle_name
    BY <2>1, <2>2
  <2> QED
    BY <2>2, <2>3, <2>5, <2>6 DEF Due, Gone, CutOff
<1> QED
  BY <1>1, <1>2

\* When a handler begins, an entry's open descriptor is that of its registrant, or of a
\* later client of the descriptor, when the registrant's connection is closed.
LEMMA HandlerDue ==
    ASSUME IInv, NEW fd \in ClientFds, NEW pdu \in ClientPDUs, ~Introduces(pdu),
           NEW k \in DOMAIN Handler(fd, pdu), NEW x, x = Handler(fd, pdu)[k],
           x.fd \in ClientFds, Open(x.fd)
    PROVE  <<x.pdu, connOf[x.fd]>> \in Due
<1>1. MessageTo(pdu, x) \/ ListTo(fd, pdu, x)
  BY HandlerTargets DEF IInv, Types
<1>2. x.pdu \in ServerPDUs /\ connOf[x.fd] \in Clients
  <2>1. Handler(fd, pdu) \in Seq(Sendings)
    BY HandlerTypes DEF IInv, Types
  <2>2. x \in Sendings
    BY <2>1
  <2> QED
    BY <2>2 DEF Sendings, IInv, Types, Open
<1>3. CASE ListTo(fd, pdu, x)
  BY <1>2, <1>3 DEF ListTo, Due
<1>4. CASE MessageTo(pdu, x)
  <2>1. x.fd # 0
    BY FdsOfServer
  <2>2. PICK i \in DOMAIN handle_table_entries :
          /\ x.fd = handle_table_entries[i].socket_number
          /\ x.pdu.flag \in {5, 6} =>
               \E r \in DOMAIN x.pdu.to : x.pdu.to[r] = handle_table_entries[i].handle_name
    BY <1>4, <2>1 DEF MessageTo
  <2>3. i \in DOMAIN registrant
    BY DEF IInv, Types, HT!TypeOK
  <2>4. connOf[x.fd] = registrant[i] \/ CutOff(registrant[i])
    BY <2>2, <2>3 DEF IInv, Registrants, CutOff
  <2> QED
    BY <1>2, <2>2, <2>4 DEF Due
<1> QED
  BY <1>1, <1>3, <1>4

LEMMA NextDelivered ==
    ASSUME IInv, Delivered, [Next]_vars
    PROVE  Delivered'
<1>1. Due \subseteq Due'
  BY DueStays
<1>2. ASSUME NEW c \in Clients
      PROVE  /\ \A k \in DOMAIN received'[c] : <<received'[c][k], c>> \in Due'
             /\ \A k \in DOMAIN toClient'[c] : <<toClient'[c][k], c>> \in Due'
  <2>1. PICK r \in Seq(ServerPDUs) : r = received[c] /\ \A k \in DOMAIN r : <<r[k], c>> \in Due
    BY DEF IInv, Types, Delivered
  <2>2. PICK t \in Seq(ServerPDUs) : t = toClient[c] /\ \A k \in DOMAIN t : <<t[k], c>> \in Due
    BY DEF IInv, Types, Delivered
  <2>3. ASSUME NEW s \in Seq(ServerPDUs), \A k \in DOMAIN s : <<s[k], c>> \in Due,
               NEW x \in ServerPDUs, <<x, c>> \in Due
        PROVE  \A k \in DOMAIN Append(s, x) : <<Append(s, x)[k], c>> \in Due
    <3>1. /\ DOMAIN Append(s, x) = 1 .. Len(s) + 1 /\ DOMAIN s = 1 .. Len(s) /\ Len(s) \in Nat
          /\ \A k \in DOMAIN s : Append(s, x)[k] = s[k]
          /\ Append(s, x)[Len(s) + 1] = x
      BY LastOf
    <3>2. \A k \in DOMAIN Append(s, x) : k \in DOMAIN s \/ k = Len(s) + 1
      BY <3>1
    <3> QED
      BY <2>3, <3>1, <3>2
  <2>4. CASE received'[c] = received[c] /\ toClient'[c] = toClient[c]
    BY <1>1, <2>1, <2>2, <2>4
  <2>5. CASE /\ ServerSend /\ connOf[Head(todo).fd] = c
             /\ received'[c] = received[c]
             /\ toClient'[c] = Append(toClient[c], Head(todo).pdu)
    <3>1. PICK x \in ServerPDUs : x = Head(todo).pdu /\ <<x, c>> \in Due
      BY <2>5, SendFlow DEF Delivered
    <3>2. \A k \in DOMAIN Append(t, x) : <<Append(t, x)[k], c>> \in Due
      BY <2>2, <2>3, <3>1
    <3>3. toClient'[c] = Append(t, x)
      BY <2>2, <2>5, <3>1
    <3> QED
      BY <1>1, <2>1, <2>5, <3>2, <3>3
  <2>6. CASE /\ toClient[c] # << >>
             /\ received'[c] = Append(received[c], Head(toClient[c]))
             /\ toClient'[c] = Tail(toClient[c])
    <3>1. /\ Head(t) \in ServerPDUs /\ Head(t) = t[1] /\ 1 \in DOMAIN t
          /\ \A k \in DOMAIN Tail(t) : k + 1 \in DOMAIN t /\ Tail(t)[k] = t[k + 1]
      BY <2>2, <2>6, HeadOf
    <3>2. PICK x \in ServerPDUs : x = Head(t) /\ <<x, c>> \in Due
      BY <2>2, <3>1
    <3>3. \A k \in DOMAIN Append(r, x) : <<Append(r, x)[k], c>> \in Due
      BY <2>1, <2>3, <3>2
    <3>4. \A k \in DOMAIN Tail(t) : <<Tail(t)[k], c>> \in Due
      BY <2>2, <3>1
    <3>5. received'[c] = Append(r, x) /\ toClient'[c] = Tail(t)
      BY <2>1, <2>2, <2>6, <3>2
    <3> QED
      BY <1>1, <3>3, <3>4, <3>5
  <2> QED
    BY <2>4, <2>5, <2>6, ReceivedFlow
<1>3. ASSUME NEW k \in DOMAIN todo', todo'[k].fd \in ClientFds, connOf'[todo'[k].fd] # NoClient
      PROVE  <<todo'[k].pdu, connOf'[todo'[k].fd]>> \in Due'
  <2>1. CASE UNCHANGED todo /\ (todo = << >> \/ UNCHANGED connOf)
    <3>1. todo # << >> /\ UNCHANGED <<todo, connOf>>
      BY <1>3, <2>1
    <3> QED
      BY <1>1, <1>3, <3>1 DEF Delivered, Open
  <2>2. CASE todo' = << >>
    BY <1>3, <2>2
  <2>3. CASE ServerSend
    <3>1. todo' = Tail(todo) /\ UNCHANGED connOf /\ todo # << >> /\ todo \in Seq(Sendings)
      BY <2>3, SendFlow
    <3>2. k + 1 \in DOMAIN todo /\ todo'[k] = todo[k + 1]
      BY <1>3, <3>1, HeadOf
    <3> QED
      BY <1>1, <1>3, <3>1, <3>2 DEF Delivered, Open
  <2>4. ASSUME NEW fd \in ClientFds, NEW d \in Clients, UNCHANGED connOf,
               toServer[d] # << >>, ~Introduces(Head(toServer[d])),
               todo' = Handler(fd, Head(toServer[d]))
        PROVE  <<todo'[k].pdu, connOf'[todo'[k].fd]>> \in Due'
    <3>1. PICK pdu \in ClientPDUs : pdu = Head(toServer[d]) /\ ~Introduces(pdu)
      BY <2>4, HeadOf DEF IInv, Types
    <3>2. PICK h : h = Handler(fd, pdu)
      OBVIOUS
    <3>3. todo' = h /\ k \in DOMAIN h
      BY <1>3, <2>4, <3>1, <3>2
    <3>4. PICK x : x = h[k] /\ x.fd \in ClientFds /\ Open(x.fd)
      BY <1>3, <2>4, <3>3 DEF Open
    <3>5. <<x.pdu, connOf[x.fd]>> \in Due
      BY <3>1, <3>2, <3>3, <3>4, HandlerDue
    <3> QED
      BY <1>1, <2>4, <3>3, <3>4, <3>5
  <2> QED
    BY <2>1, <2>2, <2>3, <2>4, TodoFlow
<1> QED
  BY <1>2, <1>3 DEF Delivered, Open

\* A message for a handle reaches the client that registered the handle; somebody else
\* only after that client's connection has ended.
THEOREM NotMisdelivered == Spec => []MisdeliveredOnlyAfterDeparture
<1>1. Init => Delivered
  BY DEF Init, Delivered
<1>2. IInv /\ Delivered /\ [Next]_vars => Delivered'
  BY NextDelivered
<1>3. IInv /\ Delivered => MisdeliveredOnlyAfterDeparture
  <2> SUFFICES ASSUME IInv, Delivered, NEW c \in Clients, NEW x \in Stream(c)
               PROVE  <<x.pdu, c>> \in Due
    BY DEF MisdeliveredOnlyAfterDeparture, Due
  <2>1. PICK r \in Seq(ServerPDUs) : r = received[c] /\ \A k \in DOMAIN r : <<r[k], c>> \in Due
    BY DEF IInv, Types, Delivered
  <2>2. PICK t \in Seq(ServerPDUs) : t = toClient[c] /\ \A k \in DOMAIN t : <<t[k], c>> \in Due
    BY DEF IInv, Types, Delivered
  <2>3. CASE \E i \in DOMAIN (r \o t) : x = [at |-> i, pdu |-> (r \o t)[i]]
    <3>1. PICK i \in DOMAIN (r \o t) : x.pdu = (r \o t)[i]
      BY <2>3
    <3>2. i \in 1 .. Len(r) \/ \E j \in 1 .. Len(t) : i = Len(r) + j
      <4>1. Len(r) \in Nat /\ Len(t) \in Nat /\ i \in 1 .. Len(r) + Len(t)
        OBVIOUS
      <4>2. PICK j : j = i - Len(r)
        OBVIOUS
      <4>3. i \in 1 .. Len(r) \/ (j \in 1 .. Len(t) /\ i = Len(r) + j)
        BY <4>1, <4>2
      <4> QED
        BY <4>3
    <3>3. \A j \in 1 .. Len(r) : (r \o t)[j] = r[j]
      BY ConcatAt
    <3>4. \A j \in 1 .. Len(t) : (r \o t)[Len(r) + j] = t[j]
      BY ConcatAt
    <3>5. (\E j \in DOMAIN r : x.pdu = r[j]) \/ (\E j \in DOMAIN t : x.pdu = t[j])
      BY <3>1, <3>2, <3>3, <3>4
    <3> QED
      BY <2>1, <2>2, <3>5
  <2>4. CASE \E k \in DOMAIN todo : /\ todo[k].fd \in ClientFds /\ connOf[todo[k].fd] = c
                                    /\ x.pdu = todo[k].pdu
    <3>1. c # NoClient
      BY ChatAssumption
    <3> QED
      BY <2>4, <3>1 DEF Delivered, Open
  <2>5. x \in {[at |-> i, pdu |-> (r \o t)[i]] : i \in DOMAIN (r \o t)} \cup
             {[at |-> Len(r \o t) + k, pdu |-> todo[k].pdu] :
                 k \in {j \in DOMAIN todo : todo[j].fd \in ClientFds /\ connOf[todo[j].fd] = c}}
    BY <2>1, <2>2 DEF Stream
  <2> QED
    BY <2>3, <2>4, <2>5
<1> QED
  BY <1>1, <1>2, <1>3, Invariant, PTL DEF Spec

-----------------------------------------------------------------------------
(* What ends the server *)

LEMMA TableStays ==
    ASSUME IInv, [Next]_vars
    PROVE  UNCHANGED handle_table_entries \/ todo' = << >>
<1>1. ASSUME NEW fd \in ClientFds, Register(fd) PROVE todo' = << >>
  BY <1>1, PolledClient DEF Register, IInv
<1> QED
  BY <1>1, OnlyRegisterStores

LEMMA NextAddressed ==
    ASSUME IInv, Addressed, [Next]_vars
    PROVE  Addressed'
<1> SUFFICES ASSUME NEW k \in DOMAIN todo'
             PROVE  \/ todo'[k].fd \in ClientFds /\ connOf'[todo'[k].fd] # NoClient
                    \/ \E i \in DOMAIN handle_table_entries' :
                         todo'[k].fd = handle_table_entries'[i].socket_number
                    \/ /\ IsMessage(todo'[k].pdu)
                       /\ \E r \in DOMAIN todo'[k].pdu.to : \A i \in DOMAIN handle_table_entries' :
                            handle_table_entries'[i].handle_name # todo'[k].pdu.to[r]
  BY DEF Addressed, Open, NamesNobody, IsMessage
<1>1. todo' # << >>
  OBVIOUS
<1>2. UNCHANGED handle_table_entries
  BY <1>1, TableStays
<1>3. CASE UNCHANGED todo /\ (todo = << >> \/ UNCHANGED connOf)
  BY <1>1, <1>2, <1>3 DEF Addressed, Open, NamesNobody
<1>4. CASE ServerSend
  <2>1. todo' = Tail(todo) /\ UNCHANGED connOf /\ todo # << >> /\ todo \in Seq(Sendings)
    BY <1>4, SendFlow
  <2>2. k + 1 \in DOMAIN todo /\ todo'[k] = todo[k + 1]
    BY <2>1, HeadOf
  <2> QED
    BY <1>2, <2>1, <2>2 DEF Addressed, Open, NamesNobody
<1>5. ASSUME NEW fd \in ClientFds, NEW d \in Clients, processClient(fd), UNCHANGED connOf,
             connOf[fd] = d, toServer[d] # << >>, ~Introduces(Head(toServer[d])),
             todo' = Handler(fd, Head(toServer[d]))
      PROVE  \/ todo'[k].fd \in ClientFds /\ connOf[todo'[k].fd] # NoClient
             \/ \E i \in DOMAIN handle_table_entries :
                  todo'[k].fd = handle_table_entries[i].socket_number
             \/ NamesNobody(todo'[k].pdu)
  <2>1. PICK pdu \in ClientPDUs : pdu = Head(toServer[d]) /\ ~Introduces(pdu)
    BY <1>5, HeadOf DEF IInv, Types
  <2>2. PICK h : h = Handler(fd, pdu)
    OBVIOUS
  <2>3. PICK x : x = h[k] /\ x = todo'[k] /\ k \in DOMAIN h
    BY <1>5, <2>1, <2>2
  <2>4. MessageTo(pdu, x) \/ ListTo(fd, pdu, x)
    BY <2>1, <2>2, <2>3, HandlerTargets DEF IInv, Types
  <2>5. connOf[fd] # NoClient
    BY <1>5, ChatAssumption
  <2>6. CASE ListTo(fd, pdu, x)
    BY <2>3, <2>5, <2>6 DEF ListTo
  <2>7. CASE MessageTo(pdu, x)
    BY <2>3, <2>7 DEF MessageTo
  <2> QED
    BY <2>4, <2>6, <2>7
<1> QED
  BY <1>1, <1>2, <1>3, <1>4, <1>5, TodoFlow DEF NamesNobody

\* The server finds no descriptor for a connection only when there are more clients than
\* descriptors.
LEMMA NoFreeDescriptor ==
    ASSUME IInv, AcceptFails
    PROVE  Cardinality(Clients) > Cardinality(ClientFds)
<1>1. PICK b \in Clients : b = Head(backlog) /\ b = backlog[1] /\ 1 \in DOMAIN backlog
  BY PolledListener DEF AcceptFails, IInv
<1>2. \A fd \in ClientFds : connOf[fd] \in Clients \ {b} /\ Open(fd)
  <2>1. \A fd \in ClientFds : Open(fd)
    BY DEF AcceptFails, FreeFds
  <2> QED
    BY <1>1, <2>1 DEF IInv, Types, Connections, Open
<1>3. PICK n \in Nat : n = Cardinality(Clients)
  BY TableOfServer
<1>4. PICK m \in Nat : m = Cardinality(ClientFds)
  BY ChatAssumption, FS_CardinalityType
<1>5. IsFiniteSet(Clients \ {b}) /\ Cardinality(Clients \ {b}) = n - 1
  BY <1>1, <1>3, FS_RemoveElement, ChatAssumption
<1>6. CASE n <= m
  <2>1. connOf \in [ClientFds -> Clients \ {b}]
    BY <1>2 DEF IInv, Types
  <2>2. Cardinality(Clients \ {b}) < Cardinality(ClientFds)
    BY <1>3, <1>4, <1>5, <1>6
  <2>3. IsFiniteSet(ClientFds)
    BY ChatAssumption
  <2>4. \E f, g \in ClientFds : f # g /\ connOf[f] = connOf[g]
    BY <1>5, <2>1, <2>2, <2>3, FS_PigeonHole
  <2> QED
    BY <1>2, <2>4 DEF IInv, Connections
<1> QED
  BY <1>3, <1>4, <1>6

\* A send fails only when somebody left, or when it is to descriptor 0.
LEMMA SendFailsWhen ==
    ASSUME IInv, Addressed, SendFails, server = "up"
    PROVE  \/ \E c \in Clients : Gone(c) \/ c \in closed
           \/ NamesNobody(Head(todo).pdu)
<1>1. todo # << >> /\ todo \in Seq(Sendings)
  BY DEF SendFails, IInv, Types
<1>2. PICK x : x = Head(todo) /\ x = todo[1] /\ 1 \in DOMAIN todo
  BY <1>1, HeadOf
<1>3. x.fd \notin ClientFds \/ ~Open(x.fd) \/ connOf[x.fd] \in reset
  BY <1>2 DEF SendFails
<1>4. \A fd \in ClientFds : Open(fd) /\ connOf[fd] \in reset => connOf[fd] \in Clients /\ Gone(connOf[fd])
  BY DEF IInv, Types, Registrants, Open
<1>5. CASE x.fd \in ClientFds /\ Open(x.fd)
  BY <1>3, <1>4, <1>5
<1>6. ASSUME NEW i \in DOMAIN handle_table_entries, x.fd = handle_table_entries[i].socket_number,
             ~(x.fd \in ClientFds /\ Open(x.fd))
      PROVE  \E c \in Clients : c \in closed
  <2>1. handle_table_entries[i] \in HT!Entry /\ i \in DOMAIN registrant
    <3>1. DOMAIN registrant = DOMAIN handle_table_entries
      BY DEF IInv, Types, HT!TypeOK
    <3> QED
      BY <3>1 DEF IInv, Types, HT!TypeOK
  <2>2. x.fd \in ClientFds /\ registrant[i] \in Clients
    BY <1>6, <2>1 DEF HT!Entry, IInv, Types
  <2>3. connOf[x.fd] # registrant[i]
    BY <1>6, <2>2, ChatAssumption DEF Open
  <2> QED
    BY <1>6, <2>1, <2>2, <2>3 DEF IInv, Registrants
<1> QED
  BY <1>2, <1>5, <1>6 DEF Addressed

\* While every client stays and there are descriptors for all, only a message that names
\* nobody ends the server.
THEOREM ExitHasCause == Spec => ServerExitHasCause
<1>1. Init => Addressed
  BY DEF Init, Addressed
<1>2. IInv /\ Addressed /\ [Next]_vars => Addressed'
  BY NextAddressed
<1>3. ASSUME IInv, Addressed, [Next]_vars
      PROVE  [server = "up" /\ server' = "exited" =>
                \/ \E c \in Clients : Gone(c) \/ c \in closed
                \/ Cardinality(Clients) > Cardinality(ClientFds)
                \/ todo # << >> /\ NamesNobody(Head(todo).pdu)]_vars
  <2> SUFFICES ASSUME server = "up", server' = "exited"
               PROVE  \/ \E c \in Clients : Gone(c) \/ c \in closed
                      \/ Cardinality(Clients) > Cardinality(ClientFds)
                      \/ todo # << >> /\ NamesNobody(Head(todo).pdu)
    OBVIOUS
  <2>1. AcceptFails \/ SendFails
    <3>1. ~(ServerStart \/ addNewSocket \/ ServerSend)
      BY DEF ServerStart, addNewSocket, ServerSend
    <3>2. \A fd \in ClientFds : ~(ClientClosed(fd) \/ Register(fd) \/ processClient(fd))
      BY DEF ClientClosed, Register, processClient
    <3>3. ASSUME NEW c \in Clients
          PROVE  ~(tcpClientSetup(c) \/ processMsgFromServer(c) \/ setHandle(c)
                     \/ ClientSend(c) \/ ServerTerminated(c) \/ processStdin(c) \/ StdinStaysReady(c) \/ Quit(c) \/ Reset(c))
      BY DEF tcpClientSetup, setHandle, ClientSend, processMsgFromServer,
              ServerTerminated, processStdin, StdinStaysReady, Quit, Reset, serverVars
    <3>4. ~UNCHANGED vars
      BY DEF vars, serverVars
    <3> QED
      BY <1>3, <3>1, <3>2, <3>3, <3>4 DEF Next, Server, ClientStep, Waiting
  <2>2. CASE AcceptFails
    BY <1>3, <2>2, NoFreeDescriptor
  <2>3. CASE SendFails
    <3>1. todo # << >>
      BY <2>3 DEF SendFails
    <3> QED
      BY <1>3, <2>3, <3>1, SendFailsWhen
  <2> QED
    BY <2>1, <2>2, <2>3
<1> QED
  BY <1>1, <1>2, <1>3, Invariant, PTL DEF Spec, ServerExitHasCause

-----------------------------------------------------------------------------
(* Whole lists *)

Arrived(c) == received[c] \o toClient[c]
Own(c) == {fd \in ClientFds : connOf[fd] = c}

\* Stream, of what has arrived, what is to be sent, and the client's descriptors.
Placed(arrived, sends, own) ==
    {[at |-> i, pdu |-> arrived[i]] : i \in DOMAIN arrived} \cup
    {[at |-> Len(arrived) + k, pdu |-> sends[k].pdu] :
        k \in {j \in DOMAIN sends : sends[j].fd \in own}}

Whole(S) ==
    \A x \in S :
      x.pdu.flag = 11 =>
        \A k \in 1 .. x.pdu.count + 1 :
          \E y \in S :
            /\ y.at = x.at + k
            /\ IF k <= x.pdu.count THEN y.pdu.flag = 12 /\ y.pdu.name # NULL
                                   ELSE y.pdu.flag = 13

\* A handler sends messages only, or sends everything to one descriptor.
Uniform(sends) ==
    \/ \A k \in DOMAIN sends : IsMessage(sends[k].pdu)
    \/ \A j, k \in DOMAIN sends : sends[j].fd = sends[k].fd

ListsWhole ==
    /\ Uniform(todo)
    /\ server # "exited" => \A c \in Clients : Whole(Stream(c))

LEMMA StreamPlaced ==
    ASSUME NEW c
    PROVE  Stream(c) = Placed(Arrived(c), todo, Own(c))
BY DEF Stream, Placed, Arrived, Own

\* What has arrived grows by what is sent, and not by what is received.
LEMMA ArrivedFlow ==
    ASSUME IInv, [Next]_vars, NEW c \in Clients
    PROVE  /\ Arrived(c) \in Seq(ServerPDUs)
           /\ \/ Arrived(c)' = Arrived(c) /\ (ServerSend => connOf[Head(todo).fd] # c)
              \/ ServerSend /\ connOf[Head(todo).fd] = c
                 /\ Arrived(c)' = Append(Arrived(c), Head(todo).pdu)
<1>1. PICK r \in Seq(ServerPDUs) : r = received[c]
  BY DEF IInv, Types
<1>2. PICK t \in Seq(ServerPDUs) : t = toClient[c]
  BY DEF IInv, Types
<1>3. Arrived(c) = r \o t /\ r \o t \in Seq(ServerPDUs)
  BY <1>1, <1>2 DEF Arrived
<1>4. Arrived(c)' = received'[c] \o toClient'[c]
  BY DEF Arrived
<1>5. CASE ServerSend
  <2>1. PICK x \in ServerPDUs : x = Head(todo).pdu
    BY <1>5, SendFlow
  <2>2. /\ received'[c] = r
        /\ toClient'[c] = IF connOf[Head(todo).fd] = c THEN Append(t, x) ELSE t
    BY <1>1, <1>2, <1>5, <2>1 DEF ServerSend, clientVars, IInv, Types
  <2>3. Append(t, x) = t \o <<x>> /\ Append(r \o t, x) = (r \o t) \o <<x>>
    BY <1>3, AppendIsConcat
  <2>4. <<x>> \in Seq(ServerPDUs)
    OBVIOUS
  <2>5. (r \o t) \o <<x>> = r \o (t \o <<x>>)
    BY <2>4, ConcatAssociative
  <2> QED
    BY <1>3, <1>4, <1>5, <2>1, <2>2, <2>3, <2>5
<1>6. CASE ~ServerSend /\ received'[c] = received[c] /\ toClient'[c] = toClient[c]
  BY <1>1, <1>2, <1>3, <1>4, <1>6
<1>7. CASE /\ ~ServerSend /\ toClient[c] # << >>
           /\ received'[c] = Append(received[c], Head(toClient[c]))
           /\ toClient'[c] = Tail(toClient[c])
  <2>1. Append(r, Head(t)) \o Tail(t) = r \o t
    BY <1>2, <1>7, HeadMoves
  <2> QED
    BY <1>1, <1>2, <1>3, <1>4, <1>7, <2>1
<1> QED
  BY <1>5, <1>6, <1>7, ReceivedFlow

\* Sending the first to its client puts it where it was.
LEMMA SentIsPlaced ==
    ASSUME NEW a \in Seq(ServerPDUs), NEW s \in Seq(Sendings), s # << >>, NEW own,
           Head(s).fd \in own, NEW x \in ServerPDUs, x = Head(s).pdu
    PROVE  Placed(Append(a, x), Tail(s), own) = Placed(a, s, own)
<1>1. PICK b \in Seq(ServerPDUs) : b = Append(a, x)
  BY LastOf
<1>2. /\ Len(b) = Len(a) + 1 /\ Len(a) \in Nat /\ DOMAIN b = 1 .. Len(a) + 1 /\ DOMAIN a = 1 .. Len(a)
      /\ \A k \in DOMAIN a : b[k] = a[k]
      /\ b[Len(a) + 1] = x
  BY <1>1, LastOf
<1>3. PICK u \in Seq(Sendings) : u = Tail(s)
  BY HeadOf
<1>4. /\ Head(s) = s[1] /\ 1 \in DOMAIN s /\ Len(s) \in Nat \ {0} /\ DOMAIN u = 1 .. Len(s) - 1
      /\ DOMAIN s = 1 .. Len(s) /\ \A k \in DOMAIN u : u[k] = s[k + 1]
  BY <1>3, HeadOf
<1>5. ASSUME NEW p \in Placed(b, u, own) PROVE p \in Placed(a, s, own)
  <2>1. CASE \E i \in DOMAIN a : p = [at |-> i, pdu |-> b[i]]
    BY <1>2, <2>1 DEF Placed
  <2>2. CASE p = [at |-> Len(a) + 1, pdu |-> x]
    BY <1>4, <2>2 DEF Placed
  <2>3. ASSUME NEW k \in DOMAIN u, u[k].fd \in own, p = [at |-> Len(b) + k, pdu |-> u[k].pdu]
        PROVE  p \in Placed(a, s, own)
    <3>1. PICK j : j = k + 1
      OBVIOUS
    <3>2. PICK n \in Nat : n = Len(s)
      BY <1>4
    <3>3. PICK m \in Nat : m = Len(a)
      BY <1>2
    <3>4. k \in 1 .. n - 1 /\ Len(b) = m + 1
      BY <1>2, <1>4, <3>2, <3>3
    <3>5. j \in 1 .. n /\ (m + 1) + k = m + j
      <4>1. k \in 1 .. n - 1 /\ n \in Nat /\ m \in Nat
        BY <3>2, <3>3, <3>4
      <4>2. k + 1 \in 1 .. n
        BY <4>1
      <4>3. (m + 1) + k = m + (k + 1)
        BY <4>1
      <4> QED
        BY <3>1, <4>2, <4>3
    <3>6. j \in 1 .. Len(s) /\ Len(b) + k = Len(a) + j
      BY <3>2, <3>3, <3>4, <3>5
    <3>7. u[k] = s[j]
      BY <1>4, <3>1
    <3> QED
      BY <1>4, <2>3, <3>6, <3>7 DEF Placed
  <2>4. \A i \in DOMAIN b : i \in DOMAIN a \/ i = Len(a) + 1
    BY <1>2
  <2> QED
    BY <1>2, <2>1, <2>2, <2>3, <2>4 DEF Placed
<1>6. ASSUME NEW p \in Placed(a, s, own) PROVE p \in Placed(b, u, own)
  <2>1. CASE \E i \in DOMAIN a : p = [at |-> i, pdu |-> a[i]]
    <3>1. \A i \in DOMAIN a : i \in DOMAIN b
      BY <1>2
    <3> QED
      BY <1>2, <2>1, <3>1 DEF Placed
  <2>2. CASE p = [at |-> Len(a) + 1, pdu |-> s[1].pdu]
    <3>1. Len(a) + 1 \in DOMAIN b /\ b[Len(a) + 1] = s[1].pdu
      BY <1>2, <1>4
    <3> QED
      BY <2>2, <3>1 DEF Placed
  <2>3. ASSUME NEW k \in DOMAIN s, k # 1, s[k].fd \in own, p = [at |-> Len(a) + k, pdu |-> s[k].pdu]
        PROVE  p \in Placed(b, u, own)
    <3>1. PICK j : j = k - 1
      OBVIOUS
    <3>2. PICK n \in Nat : n = Len(s)
      BY <1>4
    <3>3. PICK m \in Nat : m = Len(a)
      BY <1>2
    <3>4. k \in 1 .. n /\ Len(b) = m + 1
      BY <1>2, <1>4, <3>2, <3>3
    <3>5. j \in 1 .. n - 1 /\ (m + 1) + j = m + k /\ j + 1 = k
      <4>1. k \in 1 .. n /\ k # 1 /\ n \in Nat /\ m \in Nat
        BY <2>3, <3>2, <3>3, <3>4
      <4>2. k - 1 \in 1 .. n - 1 /\ (k - 1) + 1 = k
        BY <4>1
      <4>3. (m + 1) + (k - 1) = m + k
        BY <4>1
      <4> QED
        BY <3>1, <4>2, <4>3
    <3>6. j \in 1 .. Len(s) - 1 /\ Len(b) + j = Len(a) + k /\ j + 1 = k
      BY <3>2, <3>3, <3>4, <3>5
    <3>7. j \in DOMAIN u /\ u[j] = s[k]
      BY <1>4, <3>6
    <3> QED
      BY <2>3, <3>6, <3>7 DEF Placed
  <2> QED
    BY <2>1, <2>2, <2>3 DEF Placed
<1> QED
  BY <1>1, <1>3, <1>5, <1>6

\* Sending the first to somebody else moves no list that is whole.
LEMMA OthersStayWhole ==
    ASSUME NEW a \in Seq(ServerPDUs), NEW s \in Seq(Sendings), s # << >>, NEW own,
           Head(s).fd \notin own, Uniform(s), Whole(Placed(a, s, own))
    PROVE  Whole(Placed(a, Tail(s), own))
<1>1. PICK u \in Seq(Sendings) : u = Tail(s)
  BY HeadOf
<1>2. /\ Head(s) = s[1] /\ 1 \in DOMAIN s
      /\ \A k \in DOMAIN u : k + 1 \in DOMAIN s /\ u[k] = s[k + 1]
  BY <1>1, HeadOf
<1>3. CASE \A k \in DOMAIN s : IsMessage(s[k].pdu)
  <2>1. \A k \in DOMAIN u : IsMessage(u[k].pdu)
    BY <1>2, <1>3
  <2>2. ASSUME NEW p \in Placed(a, u, own), p.pdu.flag \in {11, 12, 13}
        PROVE  \E i \in DOMAIN a : p = [at |-> i, pdu |-> a[i]]
    <3>1. \A k \in DOMAIN u : u[k].pdu.flag \in {4, 5, 6}
      BY <2>1 DEF IsMessage
    <3>2. ASSUME NEW k \in DOMAIN u, p = [at |-> Len(a) + k, pdu |-> u[k].pdu] PROVE FALSE
      <4>1. p.pdu = u[k].pdu
        BY <3>2
      <4>2. p.pdu.flag = 4 \/ p.pdu.flag = 5 \/ p.pdu.flag = 6
        BY <3>1, <4>1
      <4> QED
        BY <2>2, <4>2
    <3> QED
      BY <3>2 DEF Placed
  <2>3. ASSUME NEW p \in Placed(a, s, own), p.pdu.flag \in {11, 12, 13}
        PROVE  \E i \in DOMAIN a : p = [at |-> i, pdu |-> a[i]]
    <3>1. \A k \in DOMAIN s : s[k].pdu.flag \in {4, 5, 6}
      BY <1>3 DEF IsMessage
    <3>2. ASSUME NEW k \in DOMAIN s, p = [at |-> Len(a) + k, pdu |-> s[k].pdu] PROVE FALSE
      <4>1. p.pdu = s[k].pdu
        BY <3>2
      <4>2. p.pdu.flag = 4 \/ p.pdu.flag = 5 \/ p.pdu.flag = 6
        BY <3>1, <4>1
      <4> QED
        BY <2>3, <4>2
    <3> QED
      BY <3>2 DEF Placed
  <2>4. \A i \in DOMAIN a : /\ [at |-> i, pdu |-> a[i]] \in Placed(a, s, own)
                            /\ [at |-> i, pdu |-> a[i]] \in Placed(a, u, own)
    BY DEF Placed
  <2>5. ASSUME NEW p \in Placed(a, u, own), p.pdu.flag = 11, NEW k \in 1 .. p.pdu.count + 1
        PROVE  \E y \in Placed(a, u, own) :
                 /\ y.at = p.at + k
                 /\ IF k <= p.pdu.count THEN y.pdu.flag = 12 /\ y.pdu.name # NULL
                                        ELSE y.pdu.flag = 13
    <3>1. p \in Placed(a, s, own)
      BY <2>2, <2>4, <2>5
    <3>2. PICK y \in Placed(a, s, own) :
                 /\ y.at = p.at + k
                 /\ IF k <= p.pdu.count THEN y.pdu.flag = 12 /\ y.pdu.name # NULL
                                        ELSE y.pdu.flag = 13
      BY <2>5, <3>1 DEF Whole
    <3>3. y \in Placed(a, u, own)
      BY <2>3, <2>4, <3>2
    <3> QED
      BY <3>2, <3>3
  <2> QED
    BY <1>1, <2>5 DEF Whole
<1>4. CASE \A j, k \in DOMAIN s : s[j].fd = s[k].fd
  <2>1. (\A k \in DOMAIN s : s[k].fd \notin own) /\ \A k \in DOMAIN u : u[k].fd \notin own
    BY <1>2, <1>4
  <2>2. Placed(a, s, own) = Placed(a, u, own)
    BY <2>1 DEF Placed
  <2> QED
    BY <1>1, <2>2
<1> QED
  BY <1>3, <1>4 DEF Uniform

LEMMA HandlerUniform ==
    ASSUME HT!TypeOK, NEW fd \in ClientFds, NEW pdu \in ClientPDUs, ~Introduces(pdu),
           NEW h, h = Handler(fd, pdu)
    PROVE  Uniform(h)
<1>1. \A k \in DOMAIN h : MessageTo(pdu, h[k]) \/ ListTo(fd, pdu, h[k])
  BY HandlerTargets
<1>2. CASE IsMessage(pdu)
  <2>1. \A k \in DOMAIN h : IsMessage(h[k].pdu)
    BY <1>1, <1>2 DEF MessageTo, ListTo, IsMessage, SameMessage
  <2> QED
    BY <2>1 DEF Uniform
<1>3. CASE ~IsMessage(pdu)
  <2>1. \A k \in DOMAIN h : h[k].fd = fd
    BY <1>1, <1>3 DEF MessageTo, ListTo
  <2> QED
    BY <2>1 DEF Uniform
<1> QED
  BY <1>2, <1>3

\* The list that a handler sends is whole.
LEMMA NewListWhole ==
    ASSUME HT!TypeOK, NEW fd \in ClientFds, NEW pdu \in ClientPDUs, ~Introduces(pdu),
           NEW h, h = Handler(fd, pdu), NEW a \in Seq(ServerPDUs), NEW own,
           Whole(Placed(a, << >>, own))
    PROVE  Whole(Placed(a, h, own))
<1>1. Placed(a, << >>, own) = {[at |-> i, pdu |-> a[i]] : i \in DOMAIN a}
  BY DEF Placed
<1>2. {[at |-> i, pdu |-> a[i]] : i \in DOMAIN a} \subseteq Placed(a, h, own)
  BY DEF Placed
<1>3. SUFFICES ASSUME NEW x \in Placed(a, h, own), x.pdu.flag = 11,
                      NEW j \in 1 .. x.pdu.count + 1
               PROVE  \E y \in Placed(a, h, own) :
                        /\ y.at = x.at + j
                        /\ IF j <= x.pdu.count THEN y.pdu.flag = 12 /\ y.pdu.name # NULL
                                               ELSE y.pdu.flag = 13
  BY DEF Whole
<1>4. CASE x \in Placed(a, << >>, own)
  <2>1. \E y \in Placed(a, << >>, own) :
          /\ y.at = x.at + j
          /\ IF j <= x.pdu.count THEN y.pdu.flag = 12 /\ y.pdu.name # NULL
                                 ELSE y.pdu.flag = 13
    BY <1>3, <1>4 DEF Whole
  <2> QED
    BY <1>1, <1>2, <2>1
<1>5. ASSUME NEW k \in DOMAIN h, h[k].fd \in own, x = [at |-> Len(a) + k, pdu |-> h[k].pdu]
      PROVE  \E y \in Placed(a, h, own) :
               /\ y.at = x.at + j
               /\ IF j <= x.pdu.count THEN y.pdu.flag = 12 /\ y.pdu.name # NULL
                                      ELSE y.pdu.flag = 13
  <2>1. h[k].pdu.flag = 11
    BY <1>3, <1>5
  <2>2. pdu.flag = 10 /\ h[k].fd = fd
    <3>1. MessageTo(pdu, h[k]) \/ ListTo(fd, pdu, h[k])
      BY HandlerTargets
    <3> QED
      BY <2>1, <3>1 DEF MessageTo, ListTo, IsMessage, SameMessage
  <2>3. h = listSend(fd)
    BY <2>2 DEF Handler
  <2>4. PICK n \in Nat : n = Len(handle_table_entries)
    BY DEF HT!TypeOK
  <2>5. /\ h \in Seq(Sendings) /\ Len(h) = n + 2
        /\ h[1] = SendTo(fd, [flag |-> 11, count |-> n])
        /\ \A i \in 1 .. n : \E name \in Strings :
             h[i + 1] = SendTo(fd, [flag |-> 12, name |-> name])
        /\ h[n + 2] = SendTo(fd, [flag |-> 13])
    BY <2>3, <2>4, ListSends
  <2>6. h[n + 2].fd = fd /\ h[n + 2].pdu.flag = 13
    BY <2>5 DEF SendTo
  <2>7. ASSUME NEW i \in 1 .. n
        PROVE  h[i + 1].fd = fd /\ h[i + 1].pdu.flag = 12 /\ h[i + 1].pdu.name # NULL
    <3>1. PICK name \in Strings : h[i + 1] = SendTo(fd, [flag |-> 12, name |-> name])
      BY <2>5
    <3> QED
      BY <3>1, ChatAssumption DEF SendTo
  <2>8. k = 1
    <3>1. k \in 1 .. n + 2
      BY <2>5
    <3>2. k # n + 2
      BY <2>1, <2>6
    <3>3. ~(k - 1 \in 1 .. n /\ (k - 1) + 1 = k)
      BY <2>1, <2>7
    <3> QED
      BY <2>4, <3>1, <3>2, <3>3
  <2>9. x.at = Len(a) + 1 /\ x.pdu.count = n
    BY <1>5, <2>5, <2>8 DEF SendTo
  <2>10. j \in 1 .. n + 1
    BY <2>9
  <2>11. PICK i : i = j + 1
    OBVIOUS
  <2>12. PICK m \in Nat : m = Len(a)
    OBVIOUS
  <2>13. i \in 1 .. n + 2 /\ m + i = (m + 1) + j /\ (j <= n => j \in 1 .. n) /\ (~(j <= n) => i = n + 2)
    BY <2>4, <2>10, <2>11, <2>12
  <2>14. i \in DOMAIN h
    BY <2>5, <2>13
  <2>15. h[i].fd = fd /\ IF j <= n THEN h[i].pdu.flag = 12 /\ h[i].pdu.name # NULL
                                   ELSE h[i].pdu.flag = 13
    <3>1. CASE j <= n
      <4>1. j \in 1 .. n
        BY <2>13, <3>1
      <4> QED
        BY <2>7, <2>11, <3>1, <4>1
    <3>2. CASE ~(j <= n)
      BY <2>6, <2>13, <3>2
    <3> QED
      BY <3>1, <3>2
  <2>16. PICK y : y = [at |-> m + i, pdu |-> h[i].pdu]
    OBVIOUS
  <2>17. y \in Placed(a, h, own)
    BY <1>5, <2>2, <2>12, <2>14, <2>15, <2>16 DEF Placed
  <2>18. y.at = x.at + j
    BY <2>9, <2>12, <2>13, <2>16
  <2>19. y.pdu = h[i].pdu
    BY <2>16
  <2> QED
    BY <2>9, <2>15, <2>17, <2>18, <2>19
<1>6. x \in Placed(a, << >>, own) \/
      \E k \in DOMAIN h : h[k].fd \in own /\ x = [at |-> Len(a) + k, pdu |-> h[k].pdu]
  BY <1>1 DEF Placed
<1> QED
  BY <1>4, <1>5, <1>6

LEMMA UniformTail ==
    ASSUME NEW s \in Seq(Sendings), s # << >>, Uniform(s)
    PROVE  Uniform(Tail(s))
<1>1. \A k \in DOMAIN Tail(s) : k + 1 \in DOMAIN s /\ Tail(s)[k] = s[k + 1]
  BY HeadOf
<1> QED
  BY <1>1 DEF Uniform

LEMMA NextListsWhole ==
    ASSUME IInv, ListsWhole, [Next]_vars
    PROVE  ListsWhole'
<1>1. PICK s \in Seq(Sendings) : s = todo /\ Uniform(s)
  BY DEF IInv, Types, ListsWhole
<1>2. Uniform(todo)'
  <2>1. CASE UNCHANGED todo
    BY <1>1, <2>1 DEF Uniform
  <2>2. CASE todo' = << >>
    BY <2>2 DEF Uniform
  <2>3. CASE ServerSend
    <3>1. s # << >> /\ todo' = Tail(s)
      BY <1>1, <2>3, SendFlow
    <3>2. PICK u : u = Tail(s) /\ Uniform(u)
      BY <1>1, <3>1, UniformTail
    <3> QED
      BY <3>1, <3>2 DEF Uniform
  <2>4. ASSUME NEW fd \in ClientFds, NEW d \in Clients,
               toServer[d] # << >>, ~Introduces(Head(toServer[d])),
               todo' = Handler(fd, Head(toServer[d]))
        PROVE  Uniform(todo)'
    <3>1. PICK pdu \in ClientPDUs : pdu = Head(toServer[d]) /\ ~Introduces(pdu)
      BY <2>4, HeadOf DEF IInv, Types
    <3>2. PICK h : h = Handler(fd, pdu)
      OBVIOUS
    <3>3. Uniform(h) /\ todo' = h
      BY <2>4, <3>1, <3>2, HandlerUniform DEF IInv, Types
    <3> QED
      BY <3>3 DEF Uniform
  <2> QED
    BY <2>1, <2>2, <2>3, <2>4, TodoFlow
<1>3. ASSUME server' # "exited", NEW c \in Clients
      PROVE  Whole(Stream(c)')
  <2>1. server # "exited"
    <3>1. CASE Server
      BY <1>3, <3>1, PolledClient, PolledListener, SendFlow
         DEF Server, ServerStart, addNewSocket, AcceptFails, SendFails, ServerExit,
             ServerSend, ClientClosed, Register, processClient
    <3>2. CASE ~Server
      BY <1>3, <3>2 DEF Next, ClientStep, tcpClientSetup, setHandle, ClientSend,
             processMsgFromServer, ServerTerminated, processStdin, StdinStaysReady, Quit, Reset, Waiting,
             vars, serverVars
    <3> QED
      BY <3>1, <3>2
  <2>2. PICK a \in Seq(ServerPDUs) : a = Arrived(c)
    BY ArrivedFlow
  <2>3. PICK own : own = Own(c)
    OBVIOUS
  <2>4. Whole(Placed(a, s, own))
    BY <1>1, <2>1, <2>2, <2>3, StreamPlaced DEF ListsWhole
  <2>5. Stream(c)' = Placed(Arrived(c)', todo', Own(c)')
    BY DEF Stream, Placed, Arrived, Own
  <2>6. CASE UNCHANGED todo /\ (todo = << >> \/ UNCHANGED connOf)
    <3>1. Placed(a, s, Own(c)') = Placed(a, s, own)
      BY <1>1, <2>3, <2>6 DEF Placed, Own
    <3>2. Arrived(c)' = a
      <4>1. ~ServerSend
        <5>1. ServerSend => todo' = Tail(s) /\ s # << >>
          BY <1>1, SendFlow
        <5>2. s # << >> => Tail(s) # s
          BY HeadOf
        <5> QED
          BY <1>1, <2>6, <5>1, <5>2
      <4> QED
        BY <2>2, <4>1, ArrivedFlow
    <3> QED
      BY <1>1, <2>4, <2>5, <2>6, <3>1, <3>2
  <2>7. CASE ServerSend
    <3>1. /\ s # << >> /\ todo' = Tail(s) /\ Own(c)' = own
          /\ Head(s).fd \in ClientFds /\ Head(s).pdu \in ServerPDUs
      BY <1>1, <2>3, <2>7, SendFlow DEF Own
    <3>2. CASE connOf[Head(s).fd] = c
      <4>1. PICK x \in ServerPDUs : x = Head(s).pdu
        BY <3>1
      <4>2. Head(s).fd \in own
        BY <2>3, <3>1, <3>2 DEF Own
      <4>3. Arrived(c)' = Append(a, x)
        BY <1>1, <2>2, <2>7, <3>2, <4>1, ArrivedFlow
      <4>4. Placed(Append(a, x), Tail(s), own) = Placed(a, s, own)
        BY <3>1, <4>1, <4>2, SentIsPlaced
      <4> QED
        BY <2>4, <2>5, <3>1, <4>3, <4>4
    <3>3. CASE connOf[Head(s).fd] # c
      <4>1. Head(s).fd \notin own
        BY <2>3, <3>3 DEF Own
      <4>2. Arrived(c)' = a
        BY <1>1, <2>2, <3>3, ArrivedFlow
      <4>3. Whole(Placed(a, Tail(s), own))
        BY <1>1, <2>4, <3>1, <4>1, OthersStayWhole
      <4> QED
        BY <2>5, <3>1, <4>2, <4>3
    <3> QED
      BY <3>2, <3>3
  <2>8. ASSUME NEW fd \in ClientFds, NEW d \in Clients, processClient(fd), todo = << >>, UNCHANGED connOf,
               toServer[d] # << >>, ~Introduces(Head(toServer[d])),
               todo' = Handler(fd, Head(toServer[d]))
        PROVE  Whole(Stream(c)')
    <3>1. PICK pdu \in ClientPDUs : pdu = Head(toServer[d]) /\ ~Introduces(pdu)
      BY <2>8, HeadOf DEF IInv, Types
    <3>2. PICK h : h = Handler(fd, pdu)
      OBVIOUS
    <3>3. Whole(Placed(a, h, own))
      BY <1>1, <2>4, <2>8, <3>1, <3>2, NewListWhole DEF IInv, Types
    <3>4. Arrived(c)' = a /\ Own(c)' = own
      <4>1. ~ServerSend
        BY <2>8, SendFlow
      <4> QED
        BY <2>2, <2>3, <2>8, <4>1, ArrivedFlow DEF Own
    <3> QED
      BY <2>5, <2>8, <3>1, <3>2, <3>3, <3>4
  <2> QED
    BY <1>3, <2>6, <2>7, <2>8, TodoFlow
<1>4. ListsWhole' <=> /\ Uniform(todo)'
                      /\ server' # "exited" => \A c \in Clients : Whole(Stream(c))'
  BY DEF ListsWhole
<1>5. ASSUME NEW c \in Clients PROVE Whole(Stream(c))' <=> Whole(Stream(c)')
  BY DEF Whole
<1> QED
  BY <1>2, <1>3, <1>4, <1>5

\* A handle list reaches its client whole and uninterrupted, whatever else the server
\* sends to that client or to others.
THEOREM WholeLists == Spec => []ListsAreWhole
<1>1. Init => ListsWhole
  <2> SUFFICES ASSUME Init PROVE ListsWhole
    OBVIOUS
  <2>1. Uniform(todo)
    BY DEF Init, Uniform
  <2>2. ASSUME NEW c \in Clients PROVE Stream(c) = {}
    <3>1. received[c] = << >> /\ toClient[c] = << >> /\ todo = << >>
      BY DEF Init
    <3>2. << >> \o << >> = << >>
      OBVIOUS
    <3> QED
      BY <3>1, <3>2 DEF Stream
  <2> QED
    BY <2>1, <2>2 DEF ListsWhole, Whole
<1>2. IInv /\ ListsWhole /\ [Next]_vars => ListsWhole'
  BY NextListsWhole
<1>3. ListsWhole => ListsAreWhole
  BY DEF ListsWhole, ListsAreWhole, Whole
<1> QED
  BY <1>1, <1>2, <1>3, Invariant, PTL DEF Spec

-----------------------------------------------------------------------------
(* In which order messages arrive *)

LEMMA BeforeItself ==
    ASSUME NEW x \in PDUs
    PROVE  Before(x, x)
<1>1. IsMessage(x) => x \in Messages
  BY DEF PDUs, ClientPDUs, ServerPDUs, IsMessage
<1>2. IsMessage(x) => x.part \in Nat
  BY <1>1 DEF Messages
<1> QED
  BY <1>2 DEF Before

LEMMA Positions ==
    ASSUME NEW s \in Seq(PDUs)
    PROVE  /\ Len(s) \in Nat /\ DOMAIN s = 1 .. Len(s)
           /\ \A k \in DOMAIN s : k \in Nat \ {0} /\ s[k] \in PDUs
OBVIOUS

\* Whatever is lost from the front of its place, or altogether, leaves the rest in order.
LEMMA LossKeepsOrder ==
    ASSUME NEW q \in [1..5 -> Seq(PDUs)], NEW r \in [1..5 -> Seq(PDUs)], InOrder(q),
           \A i \in 1..5 : \/ r[i] \in {q[i], << >>}
                           \/ q[i] # << >> /\ r[i] = Tail(q[i])
    PROVE  InOrder(r)
<1>1. ASSUME NEW i \in 1..5
      PROVE  \/ \A k \in DOMAIN r[i] : k \in Nat /\ k \in DOMAIN q[i] /\ r[i][k] = q[i][k]
             \/ \A k \in DOMAIN r[i] : k \in Nat /\ k + 1 \in DOMAIN q[i] /\ r[i][k] = q[i][k + 1]
  <2>1. PICK s \in Seq(PDUs) : s = q[i]
    OBVIOUS
  <2>2. CASE r[i] = s
    BY <2>1, <2>2, Positions
  <2>3. CASE r[i] = << >>
    <3>1. DOMAIN << >> = {}
      OBVIOUS
    <3> QED
      BY <2>3, <3>1
  <2>4. CASE s # << >> /\ r[i] = Tail(s)
    <3>1. PICK u \in Seq(PDUs) : u = Tail(s)
      BY <2>4, HeadOf
    <3>2. \A k \in DOMAIN u : k + 1 \in DOMAIN s /\ u[k] = s[k + 1]
      BY <2>4, <3>1, HeadOf
    <3>3. \A k \in DOMAIN u : k \in Nat
      BY Positions
    <3> QED
      BY <2>1, <2>4, <3>1, <3>2, <3>3
  <2> QED
    BY <2>1, <2>2, <2>3, <2>4
<1> SUFFICES ASSUME NEW i \in 1..5, NEW j \in 1..5, NEW k \in DOMAIN r[i], NEW l \in DOMAIN r[j],
                    Earlier(i, k, j, l)
             PROVE  Before(r[i][k], r[j][l])
  BY DEF InOrder
<1>2. CASE i < j
  <2>1. PICK b \in DOMAIN q[i] : r[i][k] = q[i][b]
    BY <1>1
  <2>2. PICK d \in DOMAIN q[j] : r[j][l] = q[j][d]
    BY <1>1
  <2> QED
    BY <1>2, <2>1, <2>2 DEF InOrder, Earlier
<1>3. CASE i = j /\ k < l
  <2>1. l \in DOMAIN r[i] /\ k \in Nat /\ l \in Nat
    BY <1>1, <1>3
  <2>2. CASE /\ k \in DOMAIN q[i] /\ r[i][k] = q[i][k]
             /\ l \in DOMAIN q[i] /\ r[i][l] = q[i][l]
    BY <1>3, <2>2 DEF InOrder, Earlier
  <2>3. CASE /\ k + 1 \in DOMAIN q[i] /\ r[i][k] = q[i][k + 1]
             /\ l + 1 \in DOMAIN q[i] /\ r[i][l] = q[i][l + 1]
    <3>1. k + 1 < l + 1
      BY <1>3, <2>1
    <3> QED
      BY <1>3, <2>3, <3>1 DEF InOrder, Earlier
  <2> QED
    BY <1>1, <2>1, <2>2, <2>3
<1> QED
  BY <1>2, <1>3 DEF Earlier

LEMMA PlacesAreNumbers ==
    ASSUME NEW i \in 1..5
    PROVE  i \in Nat
OBVIOUS

LEMMA AppendedPDU ==
    ASSUME NEW s \in Seq(PDUs), NEW x \in PDUs
    PROVE  /\ DOMAIN Append(s, x) = 1 .. Len(s) + 1 /\ DOMAIN s = 1 .. Len(s)
           /\ \A k \in DOMAIN s : Append(s, x)[k] = s[k]
           /\ Append(s, x)[Len(s) + 1] = x
BY LastOf

LEMMA LastOfRange ==
    ASSUME NEW n \in Nat, NEW k \in 1 .. n + 1
    PROVE  k \in 1 .. n \/ k = n + 1
OBVIOUS

LEMMA NextPlace ==
    ASSUME NEW m \in 1..4
    PROVE  m + 1 \in 1..5 /\ m \in 1..5 /\ m # m + 1 /\ m \in Nat
OBVIOUS

\* When the head of place m + 1 moves to the end of place m, where there were n, what
\* is then k-th in place i was b-th in place a.
Origin(i, k, a, b, m, n) ==
    /\ i \in Nat /\ k \in Nat /\ a \in Nat /\ b \in Nat /\ m \in Nat /\ n \in Nat
    /\ i = m => k <= n + 1
    /\ \/ a = i /\ i # m + 1 /\ b = k /\ ~(i = m /\ k = n + 1)
       \/ a = m + 1 /\ i = m /\ k = n + 1 /\ b = 1
       \/ a = m + 1 /\ i = m + 1 /\ b = k + 1 /\ b > 1

LEMMA OriginsInOrder ==
    \A i, k, a, b, j, l, c, d, m, n :
      Origin(i, k, a, b, m, n) /\ Origin(j, l, c, d, m, n) /\ Earlier(i, k, j, l) =>
        Earlier(a, b, c, d) \/ (a = c /\ b = d)
<1> SUFFICES ASSUME NEW i, NEW k, NEW a, NEW b, NEW j, NEW l, NEW c, NEW d, NEW m, NEW n,
                    Origin(i, k, a, b, m, n), Origin(j, l, c, d, m, n), Earlier(i, k, j, l)
             PROVE  Earlier(a, b, c, d) \/ (a = c /\ b = d)
  OBVIOUS
<1>1. /\ i \in Nat /\ k \in Nat /\ a \in Nat /\ b \in Nat /\ m \in Nat /\ n \in Nat
      /\ j \in Nat /\ l \in Nat /\ c \in Nat /\ d \in Nat
  BY DEF Origin
<1>2. i < j \/ (i = j /\ k < l)
  BY DEF Earlier
<1>3. (i = m => k <= n + 1) /\ (j = m => l <= n + 1)
  BY DEF Origin
<1>4. CASE a = i /\ i # m + 1 /\ b = k /\ ~(i = m /\ k = n + 1)
  BY <1>1, <1>2, <1>3, <1>4 DEF Origin, Earlier
<1>5. CASE a = m + 1 /\ i = m /\ k = n + 1 /\ b = 1
  BY <1>1, <1>2, <1>3, <1>5 DEF Origin, Earlier
<1>6. CASE a = m + 1 /\ i = m + 1 /\ b = k + 1 /\ b > 1
  BY <1>1, <1>2, <1>3, <1>6 DEF Origin, Earlier
<1> QED
  BY <1>4, <1>5, <1>6 DEF Origin

\* The head of place m + 1 goes to the end of place m.
Moved(q, r, m) ==
    /\ q[m + 1] # << >>
    /\ r[m] = Append(q[m], Head(q[m + 1])) /\ r[m + 1] = Tail(q[m + 1])
    /\ \A i \in 1..5 : i \notin {m, m + 1} => r[i] = q[i]

\* A PDU that goes on to the next place goes behind what was there before.
LEMMA MoveKeepsOrder ==
    ASSUME NEW q \in [1..5 -> Seq(PDUs)], NEW r \in [1..5 -> Seq(PDUs)], InOrder(q),
           NEW m \in 1..4, Moved(q, r, m)
    PROVE  InOrder(r)
<1>1. m + 1 \in 1..5 /\ m \in 1..5 /\ m # m + 1 /\ m \in Nat
  BY NextPlace
<1>2. PICK s \in Seq(PDUs) : s = q[m]
  BY <1>1
<1>3. PICK t \in Seq(PDUs) : t = q[m + 1] /\ t # << >>
  BY <1>1 DEF Moved
<1>4. PICK x \in PDUs : x = Head(t) /\ x = t[1] /\ 1 \in DOMAIN t
  BY <1>3, HeadOf
<1>5. PICK n \in Nat : n = Len(s)
  BY Positions
<1>6. PICK u \in Seq(PDUs) : u = Append(s, x)
  BY LastOf
<1>7. PICK v \in Seq(PDUs) : v = Tail(t)
  BY <1>3, HeadOf
<1>8. r[m] = u /\ r[m + 1] = v
  BY <1>2, <1>3, <1>4, <1>6, <1>7 DEF Moved
<1>9. /\ DOMAIN u = 1 .. n + 1 /\ DOMAIN s = 1 .. n
      /\ \A k \in DOMAIN s : u[k] = s[k]
      /\ u[n + 1] = x
  <2>1. /\ DOMAIN Append(s, x) = 1 .. Len(s) + 1 /\ DOMAIN s = 1 .. Len(s)
        /\ \A k \in DOMAIN s : Append(s, x)[k] = s[k]
        /\ Append(s, x)[Len(s) + 1] = x
    BY AppendedPDU
  <2> QED
    BY <1>5, <1>6, <2>1
<1>10. \A k \in DOMAIN v : k \in Nat \ {0} /\ k + 1 \in DOMAIN t /\ v[k] = t[k + 1]
  <2>1. \A k \in DOMAIN v : k + 1 \in DOMAIN t /\ v[k] = t[k + 1]
    BY <1>3, <1>7, HeadOf
  <2> QED
    BY <2>1, Positions
<1> DEFINE Was(i, k, a, b) ==
      /\ a \in 1..5 /\ b \in DOMAIN q[a] /\ r[i][k] = q[a][b]
      /\ Origin(i, k, a, b, m, n)
<1> HIDE DEF Was
<1>11. ASSUME NEW i \in 1..5, NEW k \in DOMAIN r[i]
       PROVE  \E a, b : Was(i, k, a, b)
  <2>1. i \in Nat /\ m + 1 \in Nat /\ n + 1 \in Nat /\ k \in Nat \ {0}
    <3>1. PICK w \in Seq(PDUs) : w = r[i]
      OBVIOUS
    <3>2. k \in Nat \ {0}
      BY <3>1, Positions
    <3>3. m + 1 \in Nat /\ n + 1 \in Nat
      BY <1>1, <1>5
    <3> QED
      BY <3>2, <3>3, PlacesAreNumbers
  <2>2. CASE i \notin {m, m + 1}
    <3>1. r[i] = q[i]
      BY <2>2 DEF Moved
    <3>2. Origin(i, k, i, k, m, n)
      BY <1>1, <1>5, <2>1, <2>2 DEF Origin
    <3> QED
      BY <3>1, <3>2 DEF Was
  <2>3. CASE i = m /\ k \in DOMAIN s
    <3>1. k \in 1 .. n /\ n \in Nat
      BY <1>5, <1>9, <2>3
    <3>2. k # n + 1 /\ k <= n + 1
      BY <3>1
    <3>3. r[i][k] = s[k]
      BY <1>8, <1>9, <2>3
    <3>4. Origin(i, k, i, k, m, n)
      BY <1>1, <1>5, <2>1, <2>3, <3>2 DEF Origin
    <3> QED
      BY <1>2, <2>3, <3>3, <3>4 DEF Was
  <2>4. CASE i = m /\ k = n + 1
    <3>1. r[i][k] = t[1]
      BY <1>4, <1>8, <1>9, <2>4
    <3>2. Origin(i, k, m + 1, 1, m, n)
      BY <1>1, <1>5, <2>1, <2>4 DEF Origin
    <3> QED
      BY <1>1, <1>3, <1>4, <3>1, <3>2 DEF Was
  <2>5. CASE i = m + 1
    <3>1. k + 1 \in DOMAIN t /\ r[m + 1][k] = t[k + 1]
      BY <1>8, <1>10, <2>5
    <3>2. k + 1 > 1 /\ k + 1 \in Nat
      BY <2>1
    <3>3. Origin(i, k, m + 1, k + 1, m, n)
      BY <1>1, <1>5, <2>1, <2>5, <3>2 DEF Origin
    <3> QED
      BY <1>1, <1>3, <2>5, <3>1, <3>3 DEF Was
  <2>6. i = m => k \in DOMAIN s \/ k = n + 1
    <3>1. i = m => k \in 1 .. n + 1
      BY <1>8, <1>9
    <3>2. n \in Nat
      BY <1>5
    <3>3. k \in 1 .. n + 1 => k \in 1 .. n \/ k = n + 1
      BY <3>2, LastOfRange
    <3> QED
      BY <1>9, <3>1, <3>3
  <2> QED
    BY <2>2, <2>3, <2>4, <2>5, <2>6
<1> SUFFICES ASSUME NEW i \in 1..5, NEW j \in 1..5, NEW k \in DOMAIN r[i], NEW l \in DOMAIN r[j],
                    Earlier(i, k, j, l)
             PROVE  Before(r[i][k], r[j][l])
  BY DEF InOrder
<1>12. PICK a, b : Was(i, k, a, b)
  BY <1>11
<1>13. PICK c, d : Was(j, l, c, d)
  BY <1>11
<1>14. Earlier(a, b, c, d) \/ (a = c /\ b = d)
  BY <1>12, <1>13, OriginsInOrder DEF Was
<1>15. CASE a = c /\ b = d
  <2>1. q[a] \in Seq(PDUs) /\ b \in DOMAIN q[a]
    BY <1>12 DEF Was
  <2>2. q[a][b] \in PDUs
    BY <2>1, Positions
  <2> QED
    BY <1>12, <1>13, <1>15, <2>2, BeforeItself DEF Was
<1>16. CASE Earlier(a, b, c, d)
  BY <1>12, <1>13, <1>16 DEF InOrder, Was
<1> QED
  BY <1>14, <1>15, <1>16

\* What is put into one place is in order there and with the other places.
LEMMA PutKeepsOrder ==
    ASSUME NEW q \in [1..5 -> Seq(PDUs)], NEW r \in [1..5 -> Seq(PDUs)], InOrder(q),
           NEW m \in 1..5, \A i \in 1..5 : i # m => r[i] = q[i],
           \A k, l \in DOMAIN r[m] : k < l => Before(r[m][k], r[m][l]),
           \A i \in 1..5 : \A k \in DOMAIN r[i] : \A l \in DOMAIN r[m] :
             /\ i < m => Before(r[i][k], r[m][l])
             /\ m < i => Before(r[m][l], r[i][k])
    PROVE  InOrder(r)
<1> SUFFICES ASSUME NEW i \in 1..5, NEW j \in 1..5, NEW k \in DOMAIN r[i], NEW l \in DOMAIN r[j],
                    Earlier(i, k, j, l)
             PROVE  Before(r[i][k], r[j][l])
  BY DEF InOrder
<1>1. CASE i # m /\ j # m
  <2>1. r[i] = q[i] /\ r[j] = q[j]
    BY <1>1
  <2> QED
    BY <2>1 DEF InOrder
<1>2. CASE i = m /\ j = m
  <2>1. k < l
    BY <1>2, PlacesAreNumbers DEF Earlier
  <2> QED
    BY <1>2, <2>1
<1>3. CASE i # m /\ j = m
  <2>1. i < m
    BY <1>3 DEF Earlier
  <2> QED
    BY <1>3, <2>1
<1>4. CASE i = m /\ j # m
  <2>1. m < j
    BY <1>4 DEF Earlier
  <2> QED
    BY <1>4, <2>1
<1> QED
  BY <1>1, <1>2, <1>3, <1>4

LEMMA AllInLoss ==
    ASSUME NEW S, NEW s \in Seq(PDUs), s # << >>, AllIn(s, S)
    PROVE  Head(s) \in S /\ AllIn(Tail(s), S)
<1>1. Head(s) = s[1] /\ 1 \in DOMAIN s
  BY HeadOf
<1>2. \A k \in DOMAIN Tail(s) : k + 1 \in DOMAIN s /\ Tail(s)[k] = s[k + 1]
  BY HeadOf
<1> QED
  BY <1>1, <1>2 DEF AllIn

LEMMA AllInAppend ==
    ASSUME NEW S, NEW s \in Seq(PDUs), AllIn(s, S), NEW x \in PDUs, x \in S
    PROVE  AllIn(Append(s, x), S)
<1>1. /\ DOMAIN Append(s, x) = 1 .. Len(s) + 1 /\ DOMAIN s = 1 .. Len(s) /\ Len(s) \in Nat
      /\ \A k \in DOMAIN s : Append(s, x)[k] = s[k]
      /\ Append(s, x)[Len(s) + 1] = x
  BY LastOf
<1>2. \A k \in DOMAIN Append(s, x) : k \in DOMAIN s \/ k = Len(s) + 1
  BY <1>1
<1> QED
  BY <1>1, <1>2 DEF AllIn

\* The PDUs that are underway are those of the running handler.
LEMMA UnderwayIs ==
    ASSUME todo \in Seq(Sendings)
    PROVE  /\ Underway \in Seq(PDUs) /\ DOMAIN Underway = DOMAIN todo
           /\ todo = << >> => Underway = << >>
           /\ todo # << >> => /\ Underway # << >> /\ Head(Underway) = Head(todo).pdu
                              /\ [k \in DOMAIN Tail(todo) |-> Tail(todo)[k].pdu] = Tail(Underway)
<1>1. PICK n \in Nat : n = Len(todo) /\ DOMAIN todo = 1 .. n
  OBVIOUS
<1>2. PICK s \in Seq(Sendings) : s = todo
  OBVIOUS
<1>3. ASSUME NEW k \in 1 .. n PROVE s[k].pdu \in PDUs
  <2>1. s[k] \in Sendings
    BY <1>1, <1>2
  <2> QED
    BY <2>1 DEF Sendings, PDUs
<1>4. PICK u : u = [k \in 1 .. n |-> s[k].pdu]
  OBVIOUS
<1>5. u \in Seq(PDUs) /\ Len(u) = n /\ DOMAIN u = 1 .. n /\ \A k \in 1 .. n : u[k] = s[k].pdu
  BY <1>3, <1>4
<1>6. Underway = u
  BY <1>1, <1>2, <1>4 DEF Underway
<1>7. todo = << >> => u = << >>
  BY <1>1, <1>5
<1>8. ASSUME todo # << >>
      PROVE  /\ u # << >> /\ Head(u) = Head(todo).pdu
             /\ [k \in DOMAIN Tail(todo) |-> Tail(todo)[k].pdu] = Tail(u)
  <2>1. /\ Head(s) = s[1] /\ 1 \in DOMAIN s /\ n \in Nat \ {0}
        /\ DOMAIN Tail(s) = 1 .. n - 1
        /\ \A k \in DOMAIN Tail(s) : k + 1 \in DOMAIN s /\ Tail(s)[k] = s[k + 1]
    BY <1>1, <1>2, <1>8, HeadOf
  <2>2. u # << >>
    BY <1>5, <2>1
  <2>3. Head(u) = u[1] /\ Tail(u) \in Seq(PDUs)
    BY <1>5, <2>2, HeadOf
  <2>4. DOMAIN Tail(u) = 1 .. n - 1
    BY <1>5, <2>2, HeadOf
  <2>5. \A k \in DOMAIN Tail(u) : Tail(u)[k] = u[k + 1]
    BY <1>5, <2>2, HeadOf
  <2>6. Head(u) = s[1].pdu
    BY <1>1, <1>2, <1>5, <2>1, <2>3
  <2>7. ASSUME NEW k \in 1 .. n - 1 PROVE Tail(s)[k].pdu = Tail(u)[k]
    <3>1. k + 1 \in 1 .. n /\ k \in DOMAIN Tail(s)
      BY <1>1, <2>1
    <3>2. Tail(s)[k] = s[k + 1] /\ Tail(u)[k] = u[k + 1]
      BY <2>1, <2>4, <2>5, <3>1
    <3> QED
      BY <1>5, <3>1, <3>2
  <2>8. PICK v \in Seq(PDUs) : v = Tail(u)
    BY <2>3
  <2>9. PICK w : w = [k \in 1 .. n - 1 |-> Tail(s)[k].pdu]
    OBVIOUS
  <2>10. \A k \in 1 .. n - 1 : Tail(s)[k].pdu \in PDUs /\ Tail(s)[k].pdu = v[k]
    <3>1. \A k \in 1 .. n - 1 : v[k] \in PDUs
      BY <2>4, <2>8, Positions
    <3> QED
      BY <2>7, <2>8, <3>1
  <2>11. w \in Seq(PDUs) /\ Len(w) = n - 1 /\ \A k \in 1 .. n - 1 : w[k] = v[k]
    <3>1. PICK m \in Nat : m = n - 1
      BY <2>1
    <3>2. \A k \in 1 .. m : w[k] \in PDUs /\ w[k] = v[k]
      BY <2>9, <2>10, <3>1
    <3>3. w = [k \in 1 .. m |-> w[k]]
      BY <2>9, <3>1
    <3>4. w \in [1 .. m -> PDUs]
      BY <3>2, <3>3
    <3>5. w \in Seq(PDUs) /\ Len(w) = m
      BY <3>1, <3>4
    <3> QED
      BY <3>1, <3>2, <3>5
  <2>12. Len(v) = n - 1
    BY <1>5, <2>2, <2>8, HeadOf
  <2>13. w = v
    BY <2>8, <2>11, <2>12, SeqEqual
  <2> QED
    BY <1>2, <2>1, <2>2, <2>6, <2>8, <2>9, <2>13
<1> QED
  BY <1>1, <1>5, <1>6, <1>7, <1>8

\* Of the PDUs of a line, the messages are numbered alike, part by part.
LEMMA LineNumbers ==
    ASSUME NEW c \in Clients, NEW line \in Lines, NEW k \in DOMAIN LinePDUs(c, line),
           IsMessage(LinePDUs(c, line)[k])
    PROVE  LET x == LinePDUs(c, line)[k]
           IN  x.from = c /\ x.id = typed[c] + 1 /\ x.part = k
<1>1. CASE line.flag = 10
  BY <1>1 DEF LinePDUs, IsMessage
<1>2. CASE line.flag # 10
  BY <1>2 DEF LinePDUs
<1> QED
  BY <1>1, <1>2

\* What a step does to the PDUs of the running handler.
LEMMA UnderwayFlow ==
    ASSUME IInv, [Next]_vars
    PROVE  \/ Underway' \in {Underway, << >>} /\ ~ServerSend
           \/ /\ ServerSend /\ Underway # << >> /\ Underway' = Tail(Underway)
              /\ Head(Underway) = Head(todo).pdu
           \/ \E fd \in ClientFds, c \in Clients :
                /\ processClient(fd) /\ Underway = << >>
                /\ toServer[c] # << >> /\ ~Introduces(Head(toServer[c]))
                /\ toServer' = [toServer EXCEPT ![c] = Tail(toServer[c])]
                /\ \A k \in DOMAIN Underway' :
                     IsMessage(Underway'[k]) => SameMessage(Underway'[k], Head(toServer[c]))
<1>1. todo \in Seq(Sendings)
  BY DEF IInv, Types
<1>2. CASE ServerSend
  <2>1. todo # << >> /\ todo' = Tail(todo)
    BY <1>2, SendFlow
  <2>2. Underway' = [k \in DOMAIN Tail(todo) |-> Tail(todo)[k].pdu]
    BY <2>1 DEF Underway
  <2> QED
    BY <1>1, <1>2, <2>1, <2>2, UnderwayIs
<1>3. CASE ~ServerSend /\ todo' = todo
  BY <1>3 DEF Underway
<1>4. CASE ~ServerSend /\ todo' = << >>
  <2>1. << >> = [k \in DOMAIN << >> |-> << >>[k].pdu]
    OBVIOUS
  <2> QED
    BY <1>4, <2>1 DEF Underway
<1>5. ASSUME NEW fd \in ClientFds, NEW c \in Clients,
             processClient(fd), connOf[fd] = c, todo = << >>,
             toServer[c] # << >>, ~Introduces(Head(toServer[c])),
             todo' = Handler(fd, Head(toServer[c]))
      PROVE  /\ Underway = << >>
             /\ toServer' = [toServer EXCEPT ![c] = Tail(toServer[c])]
             /\ \A k \in DOMAIN Underway' :
                  IsMessage(Underway'[k]) => SameMessage(Underway'[k], Head(toServer[c]))
  <2>1. PICK x \in ClientPDUs : x = Head(toServer[c])
    BY <1>5, HeadOf DEF IInv, Types
  <2>2. PICK h : h = Handler(fd, x) /\ todo' = h
    BY <1>5, <2>1
  <2>3. ASSUME NEW k \in DOMAIN h, IsMessage(h[k].pdu) PROVE SameMessage(h[k].pdu, x)
    <3>1. MessageTo(x, h[k]) \/ ListTo(fd, x, h[k])
      BY <1>5, <2>1, <2>2, HandlerTargets DEF IInv, Types
    <3> QED
      BY <2>3, <3>1 DEF MessageTo, ListTo, IsMessage
  <2>4. Underway' = [k \in DOMAIN h |-> h[k].pdu]
    BY <2>2 DEF Underway
  <2>5. \A k \in DOMAIN Underway' : IsMessage(Underway'[k]) => SameMessage(Underway'[k], x)
    BY <2>3, <2>4
  <2>6. toServer' = [toServer EXCEPT ![c] = Tail(toServer[c])]
    BY <1>5 DEF processClient
  <2> QED
    BY <1>1, <1>5, <2>1, <2>5, <2>6, UnderwayIs
<1>6. \A fd \in ClientFds : processClient(fd) => ~ServerSend
  BY PolledClient DEF processClient, ServerSend, IInv
<1> QED
  BY <1>2, <1>3, <1>4, <1>5, TodoFlow

\* Line numbers only go up.
LEMMA CountedGrows ==
    ASSUME IInv, [Next]_vars
    PROVE  CountedPDUs \subseteq CountedPDUs'
<1>1. ASSUME NEW c \in Clients PROVE typed'[c] \in Nat /\ typed[c] \in Nat /\ typed[c] <= typed'[c]
  <2>1. MaxLines \in Nat /\ typed \in [Clients -> 0 .. MaxLines]
    BY ChatAssumption DEF IInv, Types
  <2>2. typed[c] \in Nat
    BY <2>1
  <2>3. CASE UNCHANGED typed
    BY <2>2, <2>3
  <2>4. ASSUME NEW d \in Clients, processStdin(d) PROVE typed' = [typed EXCEPT ![d] = typed[d] + 1]
    BY <2>4 DEF processStdin
  <2>5. CASE \E d \in Clients : typed' = [typed EXCEPT ![d] = typed[d] + 1]
    BY <2>1, <2>2, <2>5
  <2>6. UNCHANGED typed \/ \E d \in Clients : processStdin(d)
    BY DEF Next, vars, Server, ServerStart, addNewSocket, AcceptFails, SendFails, ServerExit,
           ServerSend, ClientClosed, Register, processClient, ClientStep, tcpClientSetup,
           setHandle, ClientSend, processMsgFromServer, ServerTerminated, StdinStaysReady, Quit, Reset,
           Waiting, clientVars
  <2> QED
    BY <2>3, <2>4, <2>5, <2>6
<1>2. ASSUME NEW x \in CountedPDUs PROVE x \in CountedPDUs'
  <2>1. CASE ~IsMessage(x)
    BY <1>2, <2>1 DEF CountedPDUs
  <2>2. CASE IsMessage(x)
    <3>1. x \in Messages
      BY <2>2 DEF CountedPDUs, PDUs, ClientPDUs, ServerPDUs, IsMessage
    <3>2. x.from \in Clients /\ x.id \in Nat /\ x.id <= typed[x.from]
      BY <2>2, <3>1 DEF Messages, CountedPDUs
    <3>3. x.id <= typed'[x.from]
      BY <1>1, <3>2
    <3> QED
      BY <3>3 DEF CountedPDUs
  <2> QED
    BY <2>1, <2>2
<1> QED
  BY <1>2

LEMMA ClientQueueTypes ==
    ASSUME NEW c \in Clients, Types
    PROVE  /\ received[c] \in Seq(PDUs) /\ toClient[c] \in Seq(PDUs)
           /\ toServer[c] \in Seq(PDUs) /\ outgoing[c] \in Seq(PDUs)
<1>1. Seq(ServerPDUs) \subseteq Seq(PDUs) /\ Seq(ClientPDUs) \subseteq Seq(PDUs)
  <2>1. ServerPDUs \subseteq PDUs /\ ClientPDUs \subseteq PDUs
    BY DEF PDUs
  <2> QED
    BY <2>1
<1> QED
  BY <1>1 DEF Types

\* The types hold after a step, too.
LEMMA NextQueueTypes ==
    ASSUME IInv, [Next]_vars
    PROVE  /\ Underway' \in Seq(PDUs)
           /\ \A c \in Clients :
                /\ received'[c] \in Seq(PDUs) /\ toClient'[c] \in Seq(PDUs)
                /\ toServer'[c] \in Seq(PDUs) /\ outgoing'[c] \in Seq(PDUs)
<1>1. Types'
  BY NextIInv DEF IInv
<1>2. Seq(ServerPDUs) \subseteq Seq(PDUs) /\ Seq(ClientPDUs) \subseteq Seq(PDUs)
  <2>1. ServerPDUs \subseteq PDUs /\ ClientPDUs \subseteq PDUs
    BY DEF PDUs
  <2> QED
    BY <2>1
<1>3. PICK s \in Seq(Sendings) : s = todo'
  BY <1>1 DEF Types
<1>4. ASSUME NEW k \in DOMAIN s PROVE s[k].pdu \in PDUs
  <2>1. s[k] \in Sendings
    OBVIOUS
  <2> QED
    BY <2>1 DEF Sendings, PDUs
<1>5. [k \in DOMAIN s |-> s[k].pdu] \in Seq(PDUs)
  <2>1. PICK n \in Nat : n = Len(s) /\ DOMAIN s = 1 .. n
    OBVIOUS
  <2>2. [k \in 1 .. n |-> s[k].pdu] \in [1 .. n -> PDUs]
    BY <1>4, <2>1
  <2> QED
    BY <2>1, <2>2
<1> QED
  BY <1>1, <1>2, <1>3, <1>5 DEF Types, Underway

LEMMA NextNumbers ==
    ASSUME IInv, Numbers, [Next]_vars
    PROVE  Numbers'
<1>1. CountedPDUs \subseteq CountedPDUs'
  BY CountedGrows
<1>2. PICK K : K = CountedPDUs' /\ CountedPDUs \subseteq K
  BY <1>1
<1>3. ASSUME NEW s, NEW S, NEW T, AllIn(s, S), S \subseteq T
      PROVE  AllIn(s, T)
  BY <1>3 DEF AllIn
<1>4. ASSUME NEW S PROVE AllIn(<< >>, S)
  BY DEF AllIn
<1>5. ASSUME NEW c \in Clients
      PROVE  /\ received[c] \in Seq(PDUs) /\ toClient[c] \in Seq(PDUs)
             /\ toServer[c] \in Seq(PDUs) /\ outgoing[c] \in Seq(PDUs)
             /\ AllIn(received[c], K) /\ AllIn(toClient[c], K)
             /\ AllIn(toServer[c], K) /\ AllIn(outgoing[c], K)
  <2>1. received[c] \in Seq(PDUs) /\ toClient[c] \in Seq(PDUs)
    BY ClientQueueTypes DEF IInv, Types
  <2>2. toServer[c] \in Seq(PDUs) /\ outgoing[c] \in Seq(PDUs)
    BY ClientQueueTypes DEF IInv, Types
  <2> QED
    BY <1>2, <1>3, <2>1, <2>2 DEF Numbers
<1>6. Underway \in Seq(PDUs) /\ AllIn(Underway, K)
  BY <1>2, <1>3, UnderwayIs DEF Numbers, IInv, Types
<1>7. AllIn(Underway', K)
  <2>1. CASE Underway' \in {Underway, << >>}
    BY <1>4, <1>6, <2>1
  <2>2. CASE Underway # << >> /\ Underway' = Tail(Underway)
    <3>1. PICK u \in Seq(PDUs) : u = Underway
      BY <1>6
    <3>2. AllIn(Tail(u), K)
      BY <1>6, <2>2, <3>1, AllInLoss
    <3> QED
      BY <2>2, <3>1, <3>2
  <2>3. ASSUME NEW c \in Clients, toServer[c] # << >>,
               \A k \in DOMAIN Underway' :
                 IsMessage(Underway'[k]) => SameMessage(Underway'[k], Head(toServer[c]))
        PROVE  AllIn(Underway', K)
    <3>1. PICK x \in K : x = Head(toServer[c])
      BY <1>5, <2>3, AllInLoss
    <3>2. \A k \in DOMAIN Underway' : Underway'[k] \in PDUs
      <4>1. Underway' \in Seq(PDUs)
        BY NextQueueTypes
      <4>2. PICK u \in Seq(PDUs) : u = Underway'
        BY <4>1
      <4> QED
        BY <4>2, Positions
    <3>3. \A y \in PDUs : ~IsMessage(y) \/ SameMessage(y, x) => y \in K
      BY <1>2, <3>1 DEF CountedPDUs, SameMessage, IsMessage
    <3> QED
      BY <2>3, <3>1, <3>2, <3>3 DEF AllIn
  <2> QED
    BY <2>1, <2>2, <2>3, UnderwayFlow
<1>8. ASSUME NEW c \in Clients
      PROVE  AllIn(received'[c], K) /\ AllIn(toClient'[c], K)
  <2>1. PICK r \in Seq(PDUs) : r = received[c] /\ AllIn(r, K)
    BY <1>5
  <2>2. PICK t \in Seq(PDUs) : t = toClient[c] /\ AllIn(t, K)
    BY <1>5
  <2>3. CASE received'[c] = received[c] /\ toClient'[c] = toClient[c]
    BY <2>1, <2>2, <2>3
  <2>4. CASE /\ ServerSend /\ received'[c] = received[c]
             /\ toClient'[c] = Append(toClient[c], Head(todo).pdu)
    <3>1. Underway # << >> /\ Head(todo).pdu = Head(Underway)
      BY <2>4, SendFlow, UnderwayIs
    <3>2. PICK u \in Seq(PDUs) : u = Underway
      BY <1>6
    <3>3. PICK x \in PDUs : x = Head(u) /\ x \in K
      BY <1>6, <3>1, <3>2, AllInLoss, HeadOf
    <3>4. AllIn(Append(t, x), K)
      BY <2>2, <3>3, AllInAppend
    <3> QED
      BY <2>1, <2>2, <2>4, <3>1, <3>2, <3>3, <3>4
  <2>5. CASE /\ toClient[c] # << >>
             /\ received'[c] = Append(received[c], Head(toClient[c]))
             /\ toClient'[c] = Tail(toClient[c])
    <3>1. PICK x \in PDUs : x = Head(t) /\ x \in K
      BY <2>2, <2>5, AllInLoss, HeadOf
    <3>2. AllIn(Append(r, x), K)
      BY <2>1, <3>1, AllInAppend
    <3>3. AllIn(Tail(t), K)
      BY <2>2, <2>5, AllInLoss
    <3> QED
      BY <2>1, <2>2, <2>5, <3>1, <3>2, <3>3
  <2> QED
    BY <2>3, <2>4, <2>5, ReceivedFlow
<1>9. ASSUME NEW c \in Clients, NEW S, S \subseteq PDUs,
             AllIn(toServer[c], S), AllIn(outgoing[c], S),
             \A x \in PDUs : ~IsMessage(x) => x \in S,
             \A x \in PDUs : /\ typed'[c] = typed[c] + 1 /\ x.from = c /\ x.id = typed[c] + 1
                             => x \in S
      PROVE  AllIn(toServer'[c], S) /\ AllIn(outgoing'[c], S)
  <2>1. PICK t \in Seq(PDUs) : t = toServer[c] /\ AllIn(t, S)
    BY <1>5, <1>9
  <2>2. PICK o \in Seq(PDUs) : o = outgoing[c] /\ AllIn(o, S)
    BY <1>5, <1>9
  <2>3. AllIn(toServer'[c], S)
    <3>1. CASE toServer'[c] \in {toServer[c], << >>}
      BY <1>4, <2>1, <3>1
    <3>2. CASE toServer[c] # << >> /\ toServer'[c] = Tail(toServer[c])
      <4>1. AllIn(Tail(t), S)
        BY <2>1, <3>2, AllInLoss
      <4> QED
        BY <2>1, <3>2, <4>1
    <3>3. CASE outgoing[c] # << >> /\ toServer'[c] = Append(toServer[c], Head(outgoing[c]))
      <4>1. PICK x \in PDUs : x = Head(o) /\ x \in S
        BY <2>2, <3>3, AllInLoss, HeadOf
      <4>2. AllIn(Append(t, x), S)
        BY <2>1, <4>1, AllInAppend
      <4> QED
        BY <2>1, <2>2, <3>3, <4>1, <4>2
    <3> QED
      BY <3>1, <3>2, <3>3, SentFlow
  <2>4. AllIn(outgoing'[c], S)
    <3>1. CASE outgoing'[c] \in {outgoing[c], << >>}
      BY <1>4, <2>2, <3>1
    <3>2. CASE outgoing[c] # << >> /\ outgoing'[c] = Tail(outgoing[c])
      <4>1. AllIn(Tail(o), S)
        BY <2>2, <3>2, AllInLoss
      <4> QED
        BY <2>2, <3>2, <4>1
    <3>3. ASSUME NEW pdu \in RegistrationPDUs(c), outgoing'[c] = <<pdu>>
          PROVE  AllIn(outgoing'[c], S)
      <4>1. pdu \in PDUs /\ ~IsMessage(pdu)
        BY RegistrationKinds DEF PDUs, Introduces, IsMessage
      <4>2. pdu \in S
        BY <1>9, <4>1
      <4> QED
        BY <3>3, <4>2 DEF AllIn
    <3>4. ASSUME NEW line \in Lines, outgoing'[c] = LinePDUs(c, line), typed'[c] = typed[c] + 1
          PROVE  AllIn(outgoing'[c], S)
      <4>1. LinePDUs(c, line) \in Seq(ClientPDUs)
        BY LineKinds DEF IInv, Types
      <4>2. PICK l \in Seq(ClientPDUs) : l = LinePDUs(c, line)
        BY <4>1
      <4>3. ASSUME NEW k \in DOMAIN l PROVE l[k] \in S
        <5>1. l[k] \in PDUs
          BY DEF PDUs
        <5>2. IsMessage(l[k]) => l[k].from = c /\ l[k].id = typed[c] + 1
          BY <4>2, LineNumbers
        <5> QED
          BY <1>9, <3>4, <5>1, <5>2
      <4> QED
        BY <3>4, <4>2, <4>3 DEF AllIn
    <3> QED
      BY <3>1, <3>2, <3>3, <3>4, SentFlow
  <2> QED
    BY <2>3, <2>4
<1>10. ASSUME NEW c \in Clients PROVE AllIn(toServer'[c], K) /\ AllIn(outgoing'[c], K)
  <2>1. \A x \in PDUs : typed'[c] = typed[c] + 1 /\ x.from = c /\ x.id = typed[c] + 1 => x \in K
    <3>1. typed[c] + 1 \in Nat
      <4>1. MaxLines \in Nat /\ typed[c] \in 0 .. MaxLines
        BY ChatAssumption DEF IInv, Types
      <4> QED
        BY <4>1
    <3> QED
      BY <1>2, <3>1 DEF CountedPDUs
  <2>2. K \subseteq PDUs /\ \A x \in PDUs : ~IsMessage(x) => x \in K
    BY <1>2 DEF CountedPDUs
  <2>3. AllIn(toServer[c], K) /\ AllIn(outgoing[c], K)
    BY <1>5
  <2> QED
    BY <1>9, <2>1, <2>2, <2>3
<1>11. ASSUME NEW c \in Clients
       PROVE  AllIn(toServer'[c], SentBy(c)) /\ AllIn(outgoing'[c], SentBy(c))
  <2>1. PICK S : S = SentBy(c)
    OBVIOUS
  <2>2. /\ S \subseteq PDUs /\ \A x \in PDUs : ~IsMessage(x) => x \in S
        /\ \A x \in PDUs : x.from = c => x \in S
    BY <2>1 DEF SentBy
  <2>3. AllIn(toServer[c], S) /\ AllIn(outgoing[c], S)
    BY <2>1 DEF Numbers
  <2> QED
    BY <1>9, <2>1, <2>2, <2>3
<1> QED
  BY <1>2, <1>7, <1>8, <1>10, <1>11 DEF Numbers

LEMMA PlacesAre ==
    ASSUME NEW a \in Seq(PDUs), NEW b \in Seq(PDUs), NEW c \in Seq(PDUs),
           NEW d \in Seq(PDUs), NEW e \in Seq(PDUs)
    PROVE  LET q == <<a, b, c, d, e>> IN
           /\ q \in [1..5 -> Seq(PDUs)]
           /\ q[1] = a /\ q[2] = b /\ q[3] = c /\ q[4] = d /\ q[5] = e
OBVIOUS

LEMMA FivePlaces ==
    ASSUME NEW i \in 1..5
    PROVE  i = 1 \/ i = 2 \/ i = 3 \/ i = 4 \/ i = 5
OBVIOUS

\* Of two places that change nothing else, the earlier takes over the later one's head.
LEMMA MovedBetween ==
    ASSUME NEW q \in [1..5 -> Seq(PDUs)], NEW r \in [1..5 -> Seq(PDUs)],
           NEW m \in {1, 2, 4}, q[m + 1] # << >>,
           r[m] = Append(q[m], Head(q[m + 1])), r[m + 1] = Tail(q[m + 1]),
           m # 1 => r[1] = q[1], m \notin {1, 2} => r[2] = q[2], m # 2 => r[3] = q[3],
           m # 4 => r[4] = q[4] /\ r[5] = q[5], InOrder(q)
    PROVE  InOrder(r)
<1>1. m \in 1..4 /\ m \in 1..5
  OBVIOUS
<1>2. ASSUME NEW i \in 1..5, i \notin {m, m + 1} PROVE r[i] = q[i]
  <2>1. CASE m = 1
    BY <1>2, <2>1, FivePlaces
  <2>2. CASE m = 2
    BY <1>2, <2>2, FivePlaces
  <2>3. CASE m = 4
    BY <1>2, <2>3, FivePlaces
  <2> QED
    BY <2>1, <2>2, <2>3
<1>3. Moved(q, r, m)
  BY <1>2 DEF Moved
<1> QED
  BY <1>1, <1>3, MoveKeepsOrder

\* Of two copies of one message, neither is behind the other.
LEMMA SameIsBefore ==
    ASSUME NEW x \in PDUs, NEW y, NEW z
    PROVE  /\ ~IsMessage(y) \/ ~IsMessage(z) => Before(y, z)
           /\ SameMessage(y, x) /\ Before(z, x) => Before(z, y)
           /\ SameMessage(y, x) /\ Before(x, z) => Before(y, z)
           /\ SameMessage(y, x) /\ SameMessage(z, x) => Before(y, z)
<1>1. IsMessage(x) => x.part \in Nat
  <2>1. IsMessage(x) => x \in Messages
    BY DEF PDUs, ClientPDUs, ServerPDUs, IsMessage
  <2> QED
    BY <2>1 DEF Messages
<1>2. ~IsMessage(y) \/ ~IsMessage(z) => Before(y, z)
  BY DEF Before
<1>3. SameMessage(y, x) /\ Before(z, x) => Before(z, y)
  BY DEF Before, SameMessage, IsMessage
<1>4. SameMessage(y, x) /\ Before(x, z) => Before(y, z)
  BY DEF Before, SameMessage, IsMessage
<1>5. SameMessage(y, x) /\ SameMessage(z, x) => Before(y, z)
  BY <1>1 DEF Before, SameMessage, IsMessage
<1> QED
  BY <1>2, <1>3, <1>4, <1>5

\* A handler sends on the message it read, x, from e: behind what has arrived, and
\* before what e sends next.
LEMMA ForwardKeepsOrder ==
    ASSUME NEW q \in [1..5 -> Seq(PDUs)], NEW r \in [1..5 -> Seq(PDUs)], InOrder(q),
           NEW x \in PDUs, q[3] = << >>, r[1] = q[1], r[2] = q[2], r[5] = q[5],
           r[4] = q[4] \/ (q[4] # << >> /\ r[4] = Tail(q[4])),
           \A k \in DOMAIN r[3] : IsMessage(r[3][k]) => SameMessage(r[3][k], x),
           \A i \in 1..2 : \A k \in DOMAIN q[i] : Before(q[i][k], x),
           \A i \in 4..5 : \A k \in DOMAIN r[i] : Before(x, r[i][k])
    PROVE  InOrder(r)
<1>1. PICK w : w = [r EXCEPT ![3] = << >>]
  OBVIOUS
<1>2. << >> \in Seq(PDUs)
  OBVIOUS
<1>3. w \in [1..5 -> Seq(PDUs)] /\ w[3] = << >> /\ \A i \in 1..5 : i # 3 => w[i] = r[i]
  BY <1>1, <1>2
<1>4. ASSUME NEW i \in 1..5
      PROVE  w[i] \in {q[i], << >>} \/ (q[i] # << >> /\ w[i] = Tail(q[i]))
  <2>1. i = 1 \/ i = 2 \/ i = 3 \/ i = 4 \/ i = 5
    BY FivePlaces
  <2>2. w[1] = r[1] /\ w[2] = r[2] /\ w[4] = r[4] /\ w[5] = r[5]
    BY <1>3
  <2> QED
    BY <1>3, <2>1, <2>2
<1>5. InOrder(w)
  BY <1>3, <1>4, LossKeepsOrder
<1>6. \A k \in DOMAIN r[3] : SameMessage(r[3][k], x) \/ ~IsMessage(r[3][k])
  OBVIOUS
<1>8. \A k, l \in DOMAIN r[3] : k < l => Before(r[3][k], r[3][l])
  <2> SUFFICES ASSUME NEW k \in DOMAIN r[3], NEW l \in DOMAIN r[3]
               PROVE  Before(r[3][k], r[3][l])
    OBVIOUS
  <2>1. PICK y, z : y = r[3][k] /\ z = r[3][l]
    OBVIOUS
  <2>2. SameMessage(y, x) \/ ~IsMessage(y)
    BY <1>6, <2>1
  <2>3. SameMessage(z, x) \/ ~IsMessage(z)
    BY <1>6, <2>1
  <2>4. Before(y, z)
    BY <2>2, <2>3, SameIsBefore
  <2> QED
    BY <2>1, <2>4
<1>9. ASSUME NEW i \in 1..5, NEW k \in DOMAIN r[i], NEW l \in DOMAIN r[3]
      PROVE  (i < 3 => Before(r[i][k], r[3][l])) /\ (3 < i => Before(r[3][l], r[i][k]))
  <2>1. i < 3 => i \in 1..2 /\ r[i] = q[i]
    <3>1. i < 3 => i = 1 \/ i = 2
      BY FivePlaces
    <3> QED
      BY <3>1
  <2>2. 3 < i => i \in 4..5
    OBVIOUS
  <2>3. i < 3 => Before(r[i][k], x)
    BY <2>1
  <2>4. 3 < i => Before(x, r[i][k])
    BY <2>2
  <2>5. PICK y, z : y = r[3][l] /\ z = r[i][k]
    OBVIOUS
  <2>6. SameMessage(y, x) \/ ~IsMessage(y)
    BY <1>6, <2>5
  <2>7. (Before(z, x) => Before(z, y)) /\ (Before(x, z) => Before(y, z))
    BY <2>6, SameIsBefore
  <2> QED
    BY <2>3, <2>4, <2>5, <2>7
<1>10. 3 \in 1..5
  OBVIOUS
<1>11. \A i \in 1..5 : i # 3 => r[i] = w[i]
  BY <1>3
<1> QED
  BY <1>3, <1>5, <1>8, <1>9, <1>10, <1>11, PutKeepsOrder

\* A client puts out PDUs that come behind all that it has sent.
LEMMA NewKeepsOrder ==
    ASSUME NEW q \in [1..5 -> Seq(PDUs)], NEW r \in [1..5 -> Seq(PDUs)], InOrder(q),
           r[1] = q[1], r[2] = q[2], r[3] = q[3], r[4] = q[4],
           \A k, l \in DOMAIN r[5] : k < l => Before(r[5][k], r[5][l]),
           \A i \in 1..4 : \A k \in DOMAIN q[i] : \A l \in DOMAIN r[5] :
             Before(q[i][k], r[5][l])
    PROVE  InOrder(r)
<1>1. 5 \in 1..5
  OBVIOUS
<1>2. ASSUME NEW i \in 1..5, i # 5 PROVE r[i] = q[i] /\ i \in 1..4
  BY <1>2, FivePlaces
<1>3. ASSUME NEW i \in 1..5, NEW k \in DOMAIN r[i], NEW l \in DOMAIN r[5]
      PROVE  (i < 5 => Before(r[i][k], r[5][l])) /\ (5 < i => Before(r[5][l], r[i][k]))
  <2>1. ~(5 < i) /\ (i < 5 => i # 5)
    BY FivePlaces
  <2> QED
    BY <1>2, <2>1
<1> QED
  BY <1>1, <1>2, <1>3, PutKeepsOrder

\* What the queues are after a step that loses some of what is in them, or nothing.
Loses(c, d) ==
    /\ received'[c] = received[c] /\ toClient'[c] = toClient[c]
    /\ Underway' \in {Underway, << >>}
    /\ \/ toServer'[d] \in {toServer[d], << >>}
       \/ toServer[d] # << >> /\ toServer'[d] = Tail(toServer[d])
    /\ \/ outgoing'[d] \in {outgoing[d], << >>}
       \/ outgoing[d] # << >> /\ outgoing'[d] = Tail(outgoing[d])

\* What the actions of the server and of the clients do to the queues between d and c.
LEMMA PlacesFlow ==
    ASSUME IInv, [Next]_vars, NEW c \in Clients, NEW d \in Clients
    PROVE  \/ Loses(c, d)
           \/ /\ ServerSend
              /\ received'[c] = received[c] /\ toServer'[d] = toServer[d] /\ outgoing'[d] = outgoing[d]
           \/ \E fd \in ClientFds :
                /\ processClient(fd)
                /\ received'[c] = received[c] /\ toClient'[c] = toClient[c]
                /\ outgoing'[d] = outgoing[d]
           \/ /\ toClient[c] # << >> /\ received'[c] = Append(received[c], Head(toClient[c]))
              /\ toClient'[c] = Tail(toClient[c])
              /\ Underway' = Underway /\ toServer'[d] = toServer[d] /\ outgoing'[d] = outgoing[d]
           \/ /\ received'[c] = received[c] /\ toClient'[c] = toClient[c] /\ Underway' = Underway
              /\ outgoing[d] # << >> /\ toServer'[d] = Append(toServer[d], Head(outgoing[d]))
              /\ outgoing'[d] = Tail(outgoing[d])
           \/ /\ received'[c] = received[c] /\ toClient'[c] = toClient[c] /\ Underway' = Underway
              /\ toServer'[d] = toServer[d] /\ outgoing[d] = << >>
              /\ \/ \E pdu \in RegistrationPDUs(d) : outgoing'[d] = <<pdu>>
                 \/ \E line \in Lines : outgoing'[d] = LinePDUs(d, line)
<1> USE DEF IInv, Types
<1>0. /\ todo' = todo => Underway' = Underway
      /\ todo' = << >> => Underway' = << >>
  <2>1. << >> = [k \in DOMAIN << >> |-> << >>[k].pdu]
    OBVIOUS
  <2> QED
    BY <2>1 DEF Underway
<1>1. CASE ServerStart \/ addNewSocket
  BY <1>0, <1>1 DEF ServerStart, addNewSocket, clientVars, Loses
<1>2. CASE ServerExit
  BY <1>0, <1>2 DEF ServerExit, clientVars, Loses
<1>3. CASE ServerSend
  BY <1>3 DEF ServerSend, clientVars
<1>4. ASSUME NEW fd \in ClientFds, ClientClosed(fd) PROVE Loses(c, d)
  BY <1>0, <1>4 DEF ClientClosed, clientVars, Loses
<1>5. ASSUME NEW fd \in ClientFds, Register(fd) PROVE Loses(c, d)
  <2>1. /\ toServer' = [toServer EXCEPT ![connOf[fd]] = Tail(toServer[connOf[fd]])]
        /\ toServer[connOf[fd]] # << >>
    BY <1>5 DEF Register, recvPDU
  <2>2. \/ toServer'[d] = toServer[d]
        \/ toServer[d] # << >> /\ toServer'[d] = Tail(toServer[d])
    BY <2>1
  <2>3. UNCHANGED <<received, toClient, outgoing, todo>>
    BY <1>5 DEF Register, clientVars
  <2> QED
    BY <1>0, <2>2, <2>3 DEF Loses
<1>6. ASSUME NEW fd \in ClientFds, processClient(fd)
      PROVE  UNCHANGED <<received, toClient, outgoing>>
  BY <1>6 DEF processClient, clientVars
<1>7. ASSUME NEW e \in Clients, tcpClientSetup(e) \/ ServerTerminated(e) \/ StdinStaysReady(e) \/ Quit(e) \/ Reset(e)
      PROVE  Loses(c, d)
  BY <1>0, <1>7 DEF tcpClientSetup, ServerTerminated, StdinStaysReady, Quit, Reset, Exit, clientVars, serverVars, Loses
<1>8. ASSUME NEW e \in Clients, setHandle(e)
      PROVE  \/ Loses(c, d)
             \/ /\ received'[c] = received[c] /\ toClient'[c] = toClient[c] /\ Underway' = Underway
                /\ toServer'[d] = toServer[d] /\ outgoing[d] = << >>
                /\ \E pdu \in RegistrationPDUs(d) : outgoing'[d] = <<pdu>>
  <2>1. PICK pdu \in RegistrationPDUs(e) : outgoing' = [outgoing EXCEPT ![e] = <<pdu>>]
    BY <1>8 DEF setHandle
  <2>2. UNCHANGED <<received, toClient, toServer, todo>> /\ client[e] = "connected"
    BY <1>8 DEF setHandle, serverVars
  <2>3. CASE e = d
    BY <1>0, <2>1, <2>2, <2>3 DEF Introductions
  <2>4. CASE e # d
    BY <1>0, <2>1, <2>2, <2>4 DEF Loses
  <2> QED
    BY <2>3, <2>4
<1>9. ASSUME NEW e \in Clients, processStdin(e)
      PROVE  \/ Loses(c, d)
             \/ /\ received'[c] = received[c] /\ toClient'[c] = toClient[c] /\ Underway' = Underway
                /\ toServer'[d] = toServer[d] /\ outgoing[d] = << >>
                /\ \E line \in Lines : outgoing'[d] = LinePDUs(d, line)
  <2>1. PICK line \in Lines : outgoing' = [outgoing EXCEPT ![e] = LinePDUs(e, line)]
    BY <1>9 DEF processStdin
  <2>2. UNCHANGED <<received, toClient, toServer, todo>> /\ outgoing[e] = << >>
    BY <1>9 DEF processStdin, serverVars
  <2>3. CASE e = d
    BY <1>0, <2>1, <2>2, <2>3
  <2>4. CASE e # d
    BY <1>0, <2>1, <2>2, <2>4 DEF Loses
  <2> QED
    BY <2>3, <2>4
<1>10. ASSUME NEW e \in Clients, ClientSend(e)
       PROVE  \/ Loses(c, d)
              \/ /\ received'[c] = received[c] /\ toClient'[c] = toClient[c] /\ Underway' = Underway
                 /\ outgoing[d] # << >> /\ toServer'[d] = Append(toServer[d], Head(outgoing[d]))
                 /\ outgoing'[d] = Tail(outgoing[d])
  <2>1. UNCHANGED <<received, toClient, todo>> /\ outgoing[e] # << >>
    BY <1>10 DEF ClientSend, serverVars
  <2>2. CASE e # d
    BY <1>0, <1>10, <2>1, <2>2 DEF ClientSend, Exit, Loses
  <2>3. CASE e = d
    BY <1>0, <1>10, <2>1, <2>3 DEF ClientSend, Exit, Loses
  <2> QED
    BY <2>2, <2>3
<1>11. ASSUME NEW e \in Clients, processMsgFromServer(e)
       PROVE  \/ Loses(c, d)
              \/ /\ toClient[c] # << >> /\ received'[c] = Append(received[c], Head(toClient[c]))
                 /\ toClient'[c] = Tail(toClient[c])
                 /\ Underway' = Underway /\ toServer'[d] = toServer[d] /\ outgoing'[d] = outgoing[d]
  <2>1. UNCHANGED <<toServer, todo>> /\ toClient[e] # << >> /\ outgoing'[d] = outgoing[d]
    BY <1>11 DEF processMsgFromServer, serverVars, Exit
  <2>2. CASE e # c
    BY <1>0, <1>11, <2>1, <2>2 DEF processMsgFromServer, Loses
  <2>3. CASE e = c
    BY <1>0, <1>11, <2>1, <2>3 DEF processMsgFromServer
  <2> QED
    BY <2>2, <2>3
<1>12. CASE UNCHANGED vars
  BY <1>0, <1>12 DEF vars, serverVars, clientVars, Loses
<1> QED
  BY <1>1, <1>2, <1>3, <1>4, <1>5, <1>6, <1>7, <1>8, <1>9, <1>10, <1>11, <1>12
     DEF Next, Server, AcceptFails, SendFails, ClientStep, Waiting

LEMMA OneOrTwo ==
    ASSUME NEW i \in 1..2
    PROVE  (i = 1 \/ i = 2) /\ i \in 1..5 /\ i < 4
OBVIOUS

LEMMA BehindOne ==
    ASSUME NEW k \in Nat \ {0}
    PROVE  1 < k + 1
OBVIOUS

LEMMA FourOrFive ==
    ASSUME NEW i \in 4..5
    PROVE  i = 4 \/ i = 5
OBVIOUS

\* The first of the PDUs from a client that are not yet read, and what is in front of it
\* and behind it.
LEMMA NextToBeRead ==
    ASSUME NEW p \in [1..5 -> Seq(PDUs)], InOrder(p), p[4] # << >>
    PROVE  /\ \A i \in 1..2 : \A k \in DOMAIN p[i] : Before(p[i][k], p[4][1])
           /\ \A k \in DOMAIN Tail(p[4]) : Before(p[4][1], Tail(p[4])[k])
           /\ \A k \in DOMAIN p[5] : Before(p[4][1], p[5][k])
<1>1. 4 \in 1..5 /\ 5 \in 1..5 /\ 4 < 5
  OBVIOUS
<1>2. p[4] \in Seq(PDUs) /\ 1 \in DOMAIN p[4]
  BY <1>1, HeadOf
<1>3. ASSUME NEW i \in 1..2, NEW k \in DOMAIN p[i] PROVE Before(p[i][k], p[4][1])
  <2>1. i \in 1..5 /\ i < 4
    BY OneOrTwo
  <2> QED
    BY <1>1, <1>2, <2>1 DEF InOrder, Earlier
<1>4. ASSUME NEW k \in DOMAIN Tail(p[4]) PROVE Before(p[4][1], Tail(p[4])[k])
  <2>1. Tail(p[4]) \in Seq(PDUs) /\ k + 1 \in DOMAIN p[4] /\ Tail(p[4])[k] = p[4][k + 1]
    BY <1>2, HeadOf
  <2>2. k \in Nat \ {0}
    BY <2>1, Positions
  <2>3. 1 < k + 1
    BY <2>2, BehindOne
  <2> QED
    BY <1>1, <1>2, <2>1, <2>3 DEF InOrder, Earlier
<1>5. ASSUME NEW k \in DOMAIN p[5] PROVE Before(p[4][1], p[5][k])
  BY <1>1, <1>2 DEF InOrder, Earlier
<1> QED
  BY <1>3, <1>4, <1>5

\* Messages of different senders have no order to keep.
LEMMA OfAnother ==
    ASSUME NEW x \in PDUs, NEW s \in Seq(PDUs), NEW d, AllIn(s, SentBy(d)),
           IsMessage(x) => x.from # d
    PROVE  \A k \in DOMAIN s : Before(x, s[k])
BY DEF AllIn, SentBy, Before

\* What processClient reads, and what it makes of it.
LEMMA ReaderOf ==
    ASSUME IInv, [Next]_vars, NEW fd \in ClientFds, processClient(fd)
    PROVE  \E e \in Clients :
             /\ e = connOf[fd] /\ Underway = << >> /\ toServer[e] # << >>
             /\ ~Introduces(Head(toServer[e]))
             /\ toServer' = [toServer EXCEPT ![e] = Tail(toServer[e])]
             /\ \A k \in DOMAIN Underway' :
                  IsMessage(Underway'[k]) => SameMessage(Underway'[k], Head(toServer[e]))
<1>1. PICK e \in Clients : /\ e = connOf[fd] /\ todo = << >> /\ toServer[e] # << >>
                           /\ ~Introduces(Head(toServer[e])) /\ toServer[e] \in Seq(ClientPDUs)
                           /\ toServer' = [toServer EXCEPT ![e] = Tail(toServer[e])]
                           /\ todo' = Handler(fd, Head(toServer[e]))
  BY PolledClient DEF processClient, recvPDU, Introduces, IInv
<1>2. Underway = << >>
  BY <1>1, UnderwayIs DEF IInv, Types
<1>3. PICK x \in ClientPDUs : x = Head(toServer[e])
  BY <1>1, HeadOf
<1>4. PICK h : h = Handler(fd, x) /\ todo' = h
  BY <1>1, <1>3
<1>5. ASSUME NEW k \in DOMAIN h, IsMessage(h[k].pdu) PROVE SameMessage(h[k].pdu, x)
  <2>1. MessageTo(x, h[k]) \/ ListTo(fd, x, h[k])
    BY <1>1, <1>3, <1>4, HandlerTargets DEF IInv, Types
  <2> QED
    BY <1>5, <2>1 DEF MessageTo, ListTo, IsMessage
<1>6. Underway' = [k \in DOMAIN h |-> h[k].pdu]
  BY <1>4 DEF Underway
<1>7. \A k \in DOMAIN Underway' : IsMessage(Underway'[k]) => SameMessage(Underway'[k], x)
  BY <1>5, <1>6
<1> QED
  BY <1>1, <1>2, <1>3, <1>7

\* What a client puts out anew is in order.
LEMMA NewInOrder ==
    ASSUME IInv, NEW d \in Clients, NEW o \in Seq(PDUs),
           \/ \E pdu \in RegistrationPDUs(d) : o = <<pdu>>
           \/ \E line \in Lines : o = LinePDUs(d, line)
    PROVE  /\ \A k, l \in DOMAIN o : k < l => Before(o[k], o[l])
           /\ \A l \in DOMAIN o : IsMessage(o[l]) => o[l].from = d /\ o[l].id = typed[d] + 1
<1>1. ASSUME NEW pdu \in RegistrationPDUs(d), o = <<pdu>>
      PROVE  \A l \in DOMAIN o : ~IsMessage(o[l])
  <2>1. ~IsMessage(pdu)
    BY RegistrationKinds DEF Introduces, IsMessage
  <2> QED
    BY <1>1, <2>1
<1>2. ASSUME NEW line \in Lines, o = LinePDUs(d, line)
      PROVE  \A l \in DOMAIN o : IsMessage(o[l]) =>
                o[l].from = d /\ o[l].id = typed[d] + 1 /\ o[l].part = l
  BY <1>2, LineNumbers
<1>3. \A l \in DOMAIN o : IsMessage(o[l]) =>
                o[l].from = d /\ o[l].id = typed[d] + 1 /\ o[l].part = l
  BY <1>1, <1>2
<1>4. \A l \in DOMAIN o : l \in Nat
  BY Positions
<1>5. ASSUME NEW k \in DOMAIN o, NEW l \in DOMAIN o, k < l PROVE Before(o[k], o[l])
  BY <1>3, <1>4, <1>5 DEF Before
<1> QED
  BY <1>3, <1>5

\* A message numbered above the sender's count comes behind all that are counted.
LEMMA CountedBefore ==
    ASSUME IInv, NEW d \in Clients, NEW x \in CountedPDUs, NEW y,
           IsMessage(y) => y.from = d /\ y.id = typed[d] + 1
    PROVE  Before(x, y)
<1>1. typed[d] \in Nat
  <2>1. MaxLines \in Nat /\ typed[d] \in 0 .. MaxLines
    BY ChatAssumption DEF IInv, Types
  <2> QED
    BY <2>1
<1>2. CASE IsMessage(x) /\ IsMessage(y) /\ x.from = y.from
  <2>1. x.id \in Nat
    BY <1>2 DEF CountedPDUs, PDUs, ClientPDUs, ServerPDUs, Messages, IsMessage
  <2>2. x.id <= typed[d]
    BY <1>2 DEF CountedPDUs
  <2>3. x.id < y.id
    BY <1>1, <1>2, <2>1, <2>2
  <2> QED
    BY <2>3 DEF Before
<1> QED
  BY <1>2 DEF Before

LEMMA NextOrdered ==
    ASSUME IInv, Numbers, Ordered, [Next]_vars
    PROVE  Ordered'
<1> SUFFICES ASSUME NEW c \in Clients, NEW d \in Clients
             PROVE  InOrder(Places(c, d)')
  BY DEF Ordered
<1>1. /\ received[c] \in Seq(PDUs) /\ toClient[c] \in Seq(PDUs) /\ Underway \in Seq(PDUs)
      /\ toServer[d] \in Seq(PDUs) /\ outgoing[d] \in Seq(PDUs)
  BY ClientQueueTypes, UnderwayIs DEF IInv, Types
<1>2. /\ received'[c] \in Seq(PDUs) /\ toClient'[c] \in Seq(PDUs) /\ Underway' \in Seq(PDUs)
      /\ toServer'[d] \in Seq(PDUs) /\ outgoing'[d] \in Seq(PDUs)
  BY NextQueueTypes
<1>3. PICK q \in [1..5 -> Seq(PDUs)] :
        /\ q = Places(c, d)
        /\ q[1] = received[c] /\ q[2] = toClient[c] /\ q[3] = Underway
        /\ q[4] = toServer[d] /\ q[5] = outgoing[d]
  <2>1. PICK t1 \in Seq(PDUs), t2 \in Seq(PDUs), t3 \in Seq(PDUs), t4 \in Seq(PDUs),
             t5 \in Seq(PDUs) :
          /\ t1 = received[c] /\ t2 = toClient[c] /\ t3 = Underway
          /\ t4 = toServer[d] /\ t5 = outgoing[d]
    BY <1>1
  <2>2. PICK w : w = <<t1, t2, t3, t4, t5>>
    OBVIOUS
  <2>3. /\ w \in [1..5 -> Seq(PDUs)]
        /\ w[1] = t1 /\ w[2] = t2 /\ w[3] = t3 /\ w[4] = t4 /\ w[5] = t5
    BY <2>2, PlacesAre
  <2>4. Places(c, d) = w
    BY <2>1, <2>2 DEF Places
  <2> QED
    BY <2>1, <2>3, <2>4
<1>4. PICK r \in [1..5 -> Seq(PDUs)] :
        /\ r = Places(c, d)'
        /\ r[1] = received'[c] /\ r[2] = toClient'[c] /\ r[3] = Underway'
        /\ r[4] = toServer'[d] /\ r[5] = outgoing'[d]
  <2>1. PICK t1 \in Seq(PDUs), t2 \in Seq(PDUs), t3 \in Seq(PDUs), t4 \in Seq(PDUs),
             t5 \in Seq(PDUs) :
          /\ t1 = received'[c] /\ t2 = toClient'[c] /\ t3 = Underway'
          /\ t4 = toServer'[d] /\ t5 = outgoing'[d]
    BY <1>2
  <2>2. PICK w : w = <<t1, t2, t3, t4, t5>>
    OBVIOUS
  <2>3. /\ w \in [1..5 -> Seq(PDUs)]
        /\ w[1] = t1 /\ w[2] = t2 /\ w[3] = t3 /\ w[4] = t4 /\ w[5] = t5
    BY <2>2, PlacesAre
  <2>4. Places(c, d)' = w
    BY <2>1, <2>2 DEF Places
  <2> QED
    BY <2>1, <2>3, <2>4
<1>5. InOrder(q)
  BY <1>3 DEF Ordered
<1>6. CASE Loses(c, d)
  <2>1. ASSUME NEW i \in 1..5
        PROVE  r[i] \in {q[i], << >>} \/ (q[i] # << >> /\ r[i] = Tail(q[i]))
    <3>1. i = 1 \/ i = 2 \/ i = 3 \/ i = 4 \/ i = 5
      BY FivePlaces
    <3> QED
      BY <1>3, <1>4, <1>6, <3>1 DEF Loses
  <2>2. InOrder(r)
    BY <1>5, <2>1, LossKeepsOrder
  <2> QED
    BY <1>4, <2>2
<1>7. CASE /\ ServerSend
           /\ received'[c] = received[c] /\ toServer'[d] = toServer[d] /\ outgoing'[d] = outgoing[d]
  <2>1. q[3] # << >> /\ r[3] = Tail(q[3]) /\ Head(q[3]) = Head(todo).pdu
    BY <1>3, <1>4, <1>7, UnderwayFlow, PolledClient DEF IInv, processClient, ServerSend
  <2>2. r[1] = q[1] /\ r[4] = q[4] /\ r[5] = q[5]
    BY <1>3, <1>4, <1>7
  <2>3. CASE toClient'[c] = Append(toClient[c], Head(todo).pdu)
    <3>1. r[2] = Append(q[2], Head(q[2 + 1])) /\ q[2 + 1] # << >> /\ r[2 + 1] = Tail(q[2 + 1])
      <4>1. 2 + 1 = 3
        OBVIOUS
      <4> QED
        BY <1>3, <1>4, <2>1, <2>3, <4>1
    <3>2. InOrder(r)
      BY <1>5, <2>2, <3>1, MovedBetween
    <3> QED
      BY <1>4, <3>2
  <2>4. CASE toClient'[c] = toClient[c]
    <3>1. ASSUME NEW i \in 1..5
          PROVE  r[i] \in {q[i], << >>} \/ (q[i] # << >> /\ r[i] = Tail(q[i]))
      <4>1. i = 1 \/ i = 2 \/ i = 3 \/ i = 4 \/ i = 5
        BY FivePlaces
      <4> QED
        BY <1>3, <1>4, <2>1, <2>2, <2>4, <4>1
    <3>2. InOrder(r)
      BY <1>5, <3>1, LossKeepsOrder
    <3> QED
      BY <1>4, <3>2
  <2>5. toClient'[c] \in {toClient[c], Append(toClient[c], Head(todo).pdu)}
    BY <1>7 DEF ServerSend, IInv, Types
  <2> QED
    BY <2>3, <2>4, <2>5
<1>8. ASSUME NEW fd \in ClientFds, processClient(fd),
             received'[c] = received[c], toClient'[c] = toClient[c], outgoing'[d] = outgoing[d]
      PROVE  InOrder(r)
  <2>1. PICK e \in Clients : /\ e = connOf[fd] /\ Underway = << >> /\ toServer[e] # << >>
                             /\ ~Introduces(Head(toServer[e]))
                             /\ toServer' = [toServer EXCEPT ![e] = Tail(toServer[e])]
                             /\ \A k \in DOMAIN Underway' :
                                  IsMessage(Underway'[k]) => SameMessage(Underway'[k], Head(toServer[e]))
    BY <1>8, ReaderOf
  <2>2. PICK s \in Seq(PDUs) : s = toServer[e] /\ s # << >>
    BY <2>1, ClientQueueTypes DEF IInv
  <2>3. PICK x \in PDUs : x = Head(s) /\ x = s[1] /\ 1 \in DOMAIN s
    BY <2>2, HeadOf
  <2>4. q[3] = << >> /\ r[1] = q[1] /\ r[2] = q[2] /\ r[5] = q[5]
    BY <1>3, <1>4, <1>8, <2>1
  <2>5. r[4] = IF e = d THEN Tail(s) ELSE q[4]
    BY <1>3, <1>4, <2>1, <2>2 DEF IInv, Types
  <2>6. r[4] = q[4] \/ (q[4] # << >> /\ r[4] = Tail(q[4]))
    BY <1>3, <2>2, <2>5
  <2>7. \A k \in DOMAIN r[3] : IsMessage(r[3][k]) => SameMessage(r[3][k], x)
    BY <1>4, <2>1, <2>2, <2>3
  <2>8. PICK p \in [1..5 -> Seq(PDUs)] :
          /\ p = Places(c, e) /\ p[1] = q[1] /\ p[2] = q[2] /\ p[4] = s /\ p[5] = outgoing[e]
    <3>1. outgoing[e] \in Seq(PDUs)
      BY ClientQueueTypes DEF IInv
    <3> QED
      <4>1. PICK t1 \in Seq(PDUs), t2 \in Seq(PDUs), t3 \in Seq(PDUs), t5 \in Seq(PDUs) :
              t1 = received[c] /\ t2 = toClient[c] /\ t3 = Underway /\ t5 = outgoing[e]
        BY <1>1, <3>1
      <4>2. PICK w : w = <<t1, t2, t3, s, t5>>
        OBVIOUS
      <4>3. /\ w \in [1..5 -> Seq(PDUs)]
            /\ w[1] = t1 /\ w[2] = t2 /\ w[3] = t3 /\ w[4] = s /\ w[5] = t5
        BY <4>2, PlacesAre
      <4>4. Places(c, e) = w
        BY <2>2, <4>1, <4>2 DEF Places
      <4> QED
        BY <1>3, <4>1, <4>3, <4>4
  <2>9. InOrder(p)
    BY <2>8 DEF Ordered
  <2>10. \A i \in 1..2 : \A k \in DOMAIN q[i] : Before(q[i][k], x)
    <3>1. \A i \in 1..2 : \A k \in DOMAIN p[i] : Before(p[i][k], p[4][1])
      BY <2>2, <2>8, <2>9, NextToBeRead
    <3>2. ASSUME NEW i \in 1..2 PROVE p[i] = q[i]
      BY <2>8, OneOrTwo
    <3> QED
      BY <2>3, <2>8, <3>1, <3>2
  <2>11. \A i \in 4..5 : \A k \in DOMAIN r[i] : Before(x, r[i][k])
    <3>1. CASE e = d
      <4>1. /\ \A k \in DOMAIN Tail(s) : Before(x, Tail(s)[k])
            /\ \A k \in DOMAIN p[5] : Before(x, p[5][k])
        BY <2>2, <2>3, <2>8, <2>9, NextToBeRead
      <4>2. r[4] = Tail(s) /\ r[5] = p[5]
        BY <1>3, <2>4, <2>5, <2>8, <3>1
      <4> QED
        BY <4>1, <4>2, FourOrFive
    <3>2. CASE e # d
      <4>1. IsMessage(x) => x.from # d
        <5>1. AllIn(toServer[e], SentBy(e))
          BY DEF Numbers
        <5> QED
          BY <2>2, <2>3, <3>2, <5>1 DEF AllIn, SentBy
      <4>2. r[4] = toServer[d] /\ r[5] = outgoing[d]
        BY <1>3, <2>4, <2>5, <3>2
      <4>3. AllIn(r[4], SentBy(d)) /\ AllIn(r[5], SentBy(d))
        BY <4>2 DEF Numbers
      <4>4. r[4] \in Seq(PDUs) /\ r[5] \in Seq(PDUs)
        OBVIOUS
      <4>5. /\ \A k \in DOMAIN r[4] : Before(x, r[4][k])
            /\ \A k \in DOMAIN r[5] : Before(x, r[5][k])
        BY <4>1, <4>3, <4>4, OfAnother
      <4> QED
        BY <4>5, FourOrFive
    <3> QED
      BY <3>1, <3>2
  <2> QED
    BY <1>5, <2>4, <2>6, <2>7, <2>10, <2>11, ForwardKeepsOrder
<1>9. CASE /\ toClient[c] # << >> /\ received'[c] = Append(received[c], Head(toClient[c]))
           /\ toClient'[c] = Tail(toClient[c])
           /\ Underway' = Underway /\ toServer'[d] = toServer[d] /\ outgoing'[d] = outgoing[d]
  <2>1. /\ r[1] = Append(q[1], Head(q[1 + 1])) /\ q[1 + 1] # << >> /\ r[1 + 1] = Tail(q[1 + 1])
        /\ r[3] = q[3] /\ r[4] = q[4] /\ r[5] = q[5]
    <3>1. 1 + 1 = 2
      OBVIOUS
    <3> QED
      BY <1>3, <1>4, <1>9, <3>1
  <2>2. InOrder(r)
    BY <1>5, <2>1, MovedBetween
  <2> QED
    BY <1>4, <2>2
<1>10. CASE /\ received'[c] = received[c] /\ toClient'[c] = toClient[c] /\ Underway' = Underway
            /\ outgoing[d] # << >> /\ toServer'[d] = Append(toServer[d], Head(outgoing[d]))
            /\ outgoing'[d] = Tail(outgoing[d])
  <2>1. /\ r[4] = Append(q[4], Head(q[4 + 1])) /\ q[4 + 1] # << >> /\ r[4 + 1] = Tail(q[4 + 1])
        /\ r[1] = q[1] /\ r[2] = q[2] /\ r[3] = q[3]
    <3>1. 4 + 1 = 5
      OBVIOUS
    <3> QED
      BY <1>3, <1>4, <1>10, <3>1
  <2>2. InOrder(r)
    BY <1>5, <2>1, MovedBetween
  <2> QED
    BY <1>4, <2>2
<1>11. CASE /\ received'[c] = received[c] /\ toClient'[c] = toClient[c] /\ Underway' = Underway
            /\ toServer'[d] = toServer[d] /\ outgoing[d] = << >>
            /\ \/ \E pdu \in RegistrationPDUs(d) : outgoing'[d] = <<pdu>>
               \/ \E line \in Lines : outgoing'[d] = LinePDUs(d, line)
  <2>1. PICK o \in Seq(PDUs) : o = outgoing'[d]
    BY <1>2
  <2>2. /\ \A k, l \in DOMAIN o : k < l => Before(o[k], o[l])
        /\ \A l \in DOMAIN o : IsMessage(o[l]) => o[l].from = d /\ o[l].id = typed[d] + 1
    BY <1>11, <2>1, NewInOrder
  <2>3. ASSUME NEW i \in 1..4, NEW k \in DOMAIN q[i] PROVE q[i][k] \in CountedPDUs
    <3>1. i = 1 \/ i = 2 \/ i = 3 \/ i = 4
      OBVIOUS
    <3> QED
      BY <1>3, <3>1 DEF Numbers, AllIn
  <2>4. \A i \in 1..4 : \A k \in DOMAIN q[i] : \A l \in DOMAIN o : Before(q[i][k], o[l])
    BY <2>2, <2>3, CountedBefore
  <2>5. r[1] = q[1] /\ r[2] = q[2] /\ r[3] = q[3] /\ r[4] = q[4] /\ r[5] = o
    BY <1>3, <1>4, <1>11, <2>1
  <2>6. InOrder(r)
    BY <1>5, <2>2, <2>4, <2>5, NewKeepsOrder
  <2> QED
    BY <1>4, <2>6
<1> QED
  BY <1>4, <1>6, <1>7, <1>8, <1>9, <1>10, <1>11, PlacesFlow

\* The k-th PDU of place i is the a-th of a stream: n have been received, m are on the
\* connection, the others the server has still to send.
PositionOf(i, k, a, n, m) ==
    /\ n \in Nat /\ m \in Nat /\ k \in Nat \ {0}
    /\ \/ i = 1 /\ k <= n /\ a = k
       \/ i = 2 /\ k <= m /\ a = n + k
       \/ i = 3 /\ a = (n + m) + k

LEMMA StreamInPlaces ==
    \A i, k, a, j, l, b, n, m :
      PositionOf(i, k, a, n, m) /\ PositionOf(j, l, b, n, m) /\ a < b => Earlier(i, k, j, l)
<1> SUFFICES ASSUME NEW i, NEW k, NEW a, NEW j, NEW l, NEW b, NEW n, NEW m,
                    PositionOf(i, k, a, n, m), PositionOf(j, l, b, n, m), a < b
             PROVE  Earlier(i, k, j, l)
  OBVIOUS
<1>1. n \in Nat /\ m \in Nat /\ k \in Nat \ {0} /\ l \in Nat \ {0}
  BY DEF PositionOf
<1>2. CASE i = 1 /\ k <= n /\ a = k
  BY <1>1, <1>2 DEF PositionOf, Earlier
<1>3. CASE i = 2 /\ k <= m /\ a = n + k
  BY <1>1, <1>3 DEF PositionOf, Earlier
<1>4. CASE i = 3 /\ a = (n + m) + k
  BY <1>1, <1>4 DEF PositionOf, Earlier
<1> QED
  BY <1>2, <1>3, <1>4 DEF PositionOf

LEMMA BehindFirst ==
    ASSUME NEW n \in Nat, NEW m \in Nat, NEW i \in 1 .. n + m, i \notin 1 .. n
    PROVE  \E j \in 1 .. m : i = n + j
<1>1. PICK j : j = i - n
  OBVIOUS
<1>2. j \in 1 .. m /\ i = n + j
  BY <1>1
<1> QED
  BY <1>2

\* A client sees what another client sent in the order it was sent, part by part, for any
\* number of clients and lines and whatever else the server interleaves.
THEOREM OrderKept == Spec => []SenderOrder
<1>1. Init => Numbers /\ Ordered
  <2> SUFFICES ASSUME Init PROVE Numbers /\ Ordered
    OBVIOUS
  <2>1. PICK e \in Seq(PDUs) : e = << >>
    <3>1. << >> \in Seq(PDUs)
      OBVIOUS
    <3> QED
      BY <3>1
  <2>2. Underway = e
    <3>1. todo = << >> /\ todo \in Seq(Sendings)
      BY DEF Init
    <3> QED
      BY <2>1, <3>1, UnderwayIs
  <2>3. \A c \in Clients : received[c] = e /\ toClient[c] = e /\ toServer[c] = e /\ outgoing[c] = e
    BY <2>1 DEF Init
  <2>4. DOMAIN e = {}
    BY <2>1
  <2>5. Numbers
    BY <2>2, <2>3, <2>4 DEF Numbers, AllIn
  <2>6. ASSUME NEW c \in Clients, NEW d \in Clients PROVE InOrder(Places(c, d))
    <3>1. PICK q : q = <<e, e, e, e, e>>
      OBVIOUS
    <3>2. Places(c, d) = q
      BY <2>2, <2>3, <3>1 DEF Places
    <3>3. \A i \in 1..5 : q[i] = e
      BY <3>1, FivePlaces, PlacesAre
    <3> QED
      BY <2>4, <3>2, <3>3 DEF InOrder
  <2> QED
    BY <2>5, <2>6 DEF Ordered
<1>2. IInv /\ Numbers /\ Ordered /\ [Next]_vars => Numbers' /\ Ordered'
  BY NextNumbers, NextOrdered
<1>3. IInv /\ Ordered => SenderOrder
  <2> SUFFICES ASSUME IInv, Ordered, NEW c \in Clients, NEW x \in Stream(c), NEW y \in Stream(c),
                      x.at < y.at
               PROVE  Before(x.pdu, y.pdu)
    BY DEF SenderOrder, Before
  <2>1. PICK r \in Seq(PDUs), t \in Seq(PDUs), u \in Seq(PDUs), s \in Seq(PDUs), o \in Seq(PDUs) :
          /\ r = received[c] /\ t = toClient[c] /\ u = Underway
          /\ s = toServer[c] /\ o = outgoing[c]
    BY ClientQueueTypes, UnderwayIs DEF IInv, Types
  <2>2. PICK q : q = <<r, t, u, s, o>>
    OBVIOUS
  <2>3. q[1] = r /\ q[2] = t /\ q[3] = u
    BY <2>2, PlacesAre
  <2>4. InOrder(q)
    BY <2>1, <2>2 DEF Ordered, Places
  <2>5. PICK n \in Nat, m \in Nat : n = Len(r) /\ m = Len(t)
    BY Positions
  <2>6. PICK a \in Seq(PDUs) : a = r \o t
    BY ConcatAt
  <2>7. /\ Len(a) = n + m
        /\ \A i \in 1 .. n : a[i] = r[i]
        /\ \A j \in 1 .. m : a[n + j] = t[j]
    BY <2>5, <2>6, ConcatAt
  <2>8. ASSUME NEW z \in Stream(c)
        PROVE  \E i \in 1..3 : \E k \in DOMAIN q[i] : z.pdu = q[i][k] /\ PositionOf(i, k, z.at, n, m)
    <3>1. CASE \E i \in DOMAIN a : z = [at |-> i, pdu |-> a[i]]
      <4>1. PICK i \in DOMAIN a : z.at = i /\ z.pdu = a[i]
        BY <3>1
      <4>2. i \in 1 .. n + m
        BY <2>7, Positions
      <4>3. CASE i \in 1 .. n
        <5>1. i \in DOMAIN q[1] /\ z.pdu = q[1][i]
          BY <2>3, <2>5, <2>7, <4>1, <4>3
        <5>2. PositionOf(1, i, z.at, n, m)
          BY <4>1, <4>3 DEF PositionOf
        <5> QED
          BY <5>1, <5>2
      <4>4. CASE i \notin 1 .. n
        <5>1. n \in Nat /\ m \in Nat
          BY <2>5
        <5>2. PICK j \in 1 .. m : i = n + j
          BY <4>2, <4>4, <5>1, BehindFirst
        <5>3. j \in DOMAIN q[2] /\ z.pdu = q[2][j]
          BY <2>3, <2>5, <2>7, <4>1, <5>2
        <5>4. PositionOf(2, j, z.at, n, m)
          BY <4>1, <5>2 DEF PositionOf
        <5> QED
          BY <5>3, <5>4
      <4> QED
        BY <4>3, <4>4
    <3>2. CASE \E k \in DOMAIN todo : z = [at |-> Len(a) + k, pdu |-> todo[k].pdu]
      <4>1. PICK k \in DOMAIN todo : z.at = Len(a) + k /\ z.pdu = todo[k].pdu
        BY <3>2
      <4>2. k \in DOMAIN u /\ k \in Nat \ {0} /\ z.pdu = u[k]
        BY <2>1, <4>1, UnderwayIs, Positions DEF Underway, IInv, Types
      <4>3. PositionOf(3, k, z.at, n, m)
        BY <2>7, <4>1, <4>2 DEF PositionOf
      <4> QED
        BY <2>3, <4>2, <4>3
    <3>3. z \in {[at |-> i, pdu |-> a[i]] : i \in DOMAIN a} \cup
               {[at |-> Len(a) + k, pdu |-> todo[k].pdu] :
                   k \in {j \in DOMAIN todo : todo[j].fd \in ClientFds /\ connOf[todo[j].fd] = c}}
      BY <2>1, <2>6 DEF Stream
    <3> QED
      BY <3>1, <3>2, <3>3
  <2>9. PICK i \in 1..3 : \E k \in DOMAIN q[i] : x.pdu = q[i][k] /\ PositionOf(i, k, x.at, n, m)
    BY <2>8
  <2>10. PICK k \in DOMAIN q[i] : x.pdu = q[i][k] /\ PositionOf(i, k, x.at, n, m)
    BY <2>9
  <2>11. PICK j \in 1..3 : \E l \in DOMAIN q[j] : y.pdu = q[j][l] /\ PositionOf(j, l, y.at, n, m)
    BY <2>8
  <2>12. PICK l \in DOMAIN q[j] : y.pdu = q[j][l] /\ PositionOf(j, l, y.at, n, m)
    BY <2>11
  <2>13. Earlier(i, k, j, l)
    BY <2>10, <2>12, StreamInPlaces
  <2>14. \A p \in 1..3 : p \in 1..5
    OBVIOUS
  <2> QED
    BY <2>4, <2>10, <2>12, <2>13, <2>14 DEF InOrder
<1> QED
  BY <1>1, <1>2, <1>3, Invariant, PTL DEF Spec
=============================================================================
