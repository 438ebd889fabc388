--------------------------- MODULE FileCopyProofs ---------------------------
(***************************************************************************)
(* Theorems about the file copy, for any number of clients and children,   *)
(* any files, windows and errors; and about the error injection library it *)
(* sends through, for any environment, clock, width of message numbers,    *)
(* and any number of children and packets.                                 *)
(***************************************************************************)
EXTENDS Rcopy, ErrorInjection, SequenceTheorems, FiniteSetTheorems, CommonLemmas

-----------------------------------------------------------------------------
(* The file copy *)

Reached(c) == \E k \in DOMAIN children : children[k].server = c

\* A child of c has sent the block numbered n.
Sent(c, n) == \E k \in DOMAIN children :
                  children[k].server = c /\ n < children[k].seq

\* The connect packet of c was flipped on its way.
Misled(c) == \E k \in DOMAIN children : children[k].server = c /\ children[k].misread

IsData(packet) == packet.flag = FlagData

\* A client has at most one child, which works on the file its connect named, and a
\* connect packet on its way is from a client that has none yet.
OneChild ==
    /\ \A j, k \in DOMAIN children : children[j].server = children[k].server => j = k
    /\ \A k \in DOMAIN children :
         children[k].file = children[k].server \/ children[k].misread
    /\ \A i \in DOMAIN inbox : inbox[i].flag = FlagConnect => ~Reached(inbox[i].from)

\* Before it starts a client is unknown to the server.  Until its child sends it a
\* block, all it has put on the wire is a single packet, and none is left once
\* it has a child.
OneWord ==
    \A c \in Clients :
      /\ client[c] = "start" =>
           ~Reached(c) /\ \A i \in DOMAIN inbox : inbox[i].from # c
      /\ ~Sent(c, 0) =>
           /\ \A i, j \in DOMAIN inbox : inbox[i].from = c /\ inbox[j].from = c => i = j
           /\ Reached(c) => \A i \in DOMAIN inbox : inbox[i].from # c

\* The packet that sets a child going is not its client's.
FirstTaken ==
    \A k \in DOMAIN children :
      /\ children[k].firstTaken # children[k].server
      /\ (children[k].pc = "read" \/ children[k].seq > 0) =>
           children[k].firstTaken # NoClient

\* The data packets on their way to a client are its child's, in order.
BoxInOrder ==
    \A c \in Clients : \A i \in DOMAIN clientBox[c] : IsData(clientBox[c][i]) =>
      /\ clientBox[c][i].file = c \/ Misled(c)
      /\ Sent(c, clientBox[c][i].seq)
      /\ \A j \in DOMAIN clientBox[c] : IsData(clientBox[c][j]) /\ i < j =>
           clientBox[c][i].seq < clientBox[c][j].seq

\* So are those that arrived, and they come before those on their way.
ReceivedInOrder ==
    \A c \in Clients : \A i \in DOMAIN received[c] :
      /\ received[c][i].file = c \/ Misled(c)
      /\ Sent(c, received[c][i].seq)
      /\ \A j \in DOMAIN received[c] : i < j => received[c][i].seq < received[c][j].seq
      /\ \A j \in DOMAIN clientBox[c] : IsData(clientBox[c][j]) =>
           received[c][i].seq < clientBox[c][j].seq

IInv == /\ TypeOK
        /\ OneChild
        /\ OneWord
        /\ FirstTaken
        /\ BoxInOrder
        /\ ReceivedInOrder
        /\ AcksFollowData

-----------------------------------------------------------------------------
(* Types *)

\* A client's send leaves the queue alone or adds one packet of that client.
LEMMA ClientSendAdds ==
    ASSUME inbox \in Seq(ClientPacket),
           NEW c \in Clients, NEW flag \in {FlagRR, FlagConnect}, NEW seq \in Nat,
           NEW garbled \in BOOLEAN, ClientSends(c, flag, seq, garbled)
    PROVE  \/ inbox' = inbox
           \/ \E p \in ClientPacket :
                /\ inbox' = Append(inbox, p)
                /\ p.from = c
                /\ p.flag \in {flag, FlagUnknown}
                /\ ~p.garbled => p.seq = seq
<1> DEFINE packet == [flag |-> flag, from |-> c, seq |-> seq, garbled |-> garbled]
<1>1. PICK s \in SentByLibrary(c \in Faulty, packet) : inbox' \in Arrives(inbox, s)
  BY DEF ClientSends
<1>2. CASE inbox' = inbox \/ s = << >>
  BY <1>1, <1>2 DEF Arrives
<1>3. CASE inbox' = inbox \o s /\ s # << >>
  <2>1. PICK p \in {packet, [packet EXCEPT !.flag = FlagUnknown],
                     [packet EXCEPT !.garbled = TRUE]} : s = <<p>>
    BY <1>1, <1>3 DEF SentByLibrary, errorFlipBits
  <2>3. /\ p \in ClientPacket /\ p.from = c /\ p.flag \in {flag, FlagUnknown}
        /\ ~p.garbled => p.seq = seq
    <3>1. CASE p = packet
      BY <3>1 DEF ClientPacket
    <3>2. CASE p = [packet EXCEPT !.flag = FlagUnknown]
      BY <3>2 DEF ClientPacket
    <3>3. CASE p = [packet EXCEPT !.garbled = TRUE]
      BY <3>3 DEF ClientPacket
    <3> QED
      BY <3>1, <3>2, <3>3
  <2>2. inbox' = Append(inbox, p)
    BY <1>3, <2>1, AppendIsConcat
  <2> QED
    BY <2>2, <2>3
<1> QED
  BY <1>1, <1>2, <1>3 DEF Arrives

\* Every child is one, whatever its number.
LEMMA ChildAt ==
    ASSUME TypeOK, NEW k \in DOMAIN children
    PROVE  /\ children[k] \in Child
           /\ children[k].server \in Clients /\ children[k].file \in Clients \cup {NoClient}
           /\ children[k].seq \in Nat
<1>1. children \in Seq(Child)
  BY DEF TypeOK
<1>2. children[k] \in Child
  BY <1>1, LenProperties, ElementOfSeq
<1> QED
  BY <1>2 DEF Child

\* A child's send leaves the queues alone or adds a packet to its client's: one with
\* the child's file and the given number, and of the given kind if it is of any.
LEMMA ChildSendAdds ==
    ASSUME TypeOK, NEW k \in DOMAIN children, NEW flag \in {FlagResponse, FlagData},
           NEW seq \in Nat, ChildSends(k, flag, seq)
    PROVE  \/ clientBox' = clientBox
           \/ \E p \in ServerPacket :
                /\ clientBox' = [clientBox EXCEPT ![children[k].server] = Append(@, p)]
                /\ p.file = children[k].file /\ p.seq = seq
                /\ p.flag \in {flag, FlagUnknown}
<1> DEFINE c == children[k].server
           packet == [flag |-> flag, file |-> children[k].file, seq |-> seq,
                      garbled |-> FALSE]
<1>1. c \in Clients /\ clientBox[c] \in Seq(ServerPacket)
  BY ChildAt DEF TypeOK
<1>2. PICK s \in SentByLibrary(ServerFaulty, packet) :
         \E box \in Arrives(clientBox[c], s) : clientBox' = [clientBox EXCEPT ![c] = box]
  BY DEF ChildSends
<1>5. PICK box \in Arrives(clientBox[c], s) : clientBox' = [clientBox EXCEPT ![c] = box]
  BY <1>2
<1>3. CASE box = clientBox[c] \/ s = << >>
  <2>1. box = clientBox[c]
    <3>1. box = clientBox[c] \o s \/ box = clientBox[c]
      BY <1>5, Zenon DEF Arrives
    <3>2. s = << >> => clientBox[c] \o s = clientBox[c]
      <4> HIDE DEF c, packet
      <4> QED
        BY ONLY <1>1, SMT
    <3> QED
      BY ONLY <1>3, <3>1, <3>2, Zenon
  <2> QED
    BY <1>1, <1>5, <2>1 DEF TypeOK
<1>4. CASE box = clientBox[c] \o s /\ s # << >>
  <2>1. PICK p \in {packet, [packet EXCEPT !.flag = FlagUnknown],
                     [packet EXCEPT !.garbled = TRUE]} : s = <<p>>
    BY <1>2, <1>4 DEF SentByLibrary, errorFlipBits
  <2>2. /\ p \in ServerPacket /\ p.file = children[k].file /\ p.seq = seq
        /\ p.flag \in {flag, FlagUnknown}
    <3>0. children[k].file \in Clients \cup {NoClient}
      BY ChildAt
    <3>1. CASE p = packet
      BY <3>0, <3>1 DEF ServerPacket
    <3>2. CASE p = [packet EXCEPT !.flag = FlagUnknown]
      BY <3>0, <3>2 DEF ServerPacket
    <3>3. CASE p = [packet EXCEPT !.garbled = TRUE]
      BY <3>0, <3>3 DEF ServerPacket
    <3> QED
      BY <3>1, <3>2, <3>3
  <2>3. box = Append(clientBox[c], p)
    BY <1>1, <1>4, <2>1, <2>2, AppendIsConcat
  <2> QED
    BY <1>5, <2>2, <2>3
<1> QED
  BY <1>5, <1>3, <1>4 DEF Arrives

LEMMA ClientSendTyped ==
    ASSUME inbox \in Seq(ClientPacket),
           NEW c \in Clients, NEW flag \in {FlagRR, FlagConnect}, NEW seq \in Nat,
           NEW garbled \in BOOLEAN, ClientSends(c, flag, seq, garbled)
    PROVE  inbox' \in Seq(ClientPacket)
BY ClientSendAdds, AppendProperties

LEMMA ChildSendTyped ==
    ASSUME TypeOK, NEW k \in DOMAIN children, NEW flag \in {FlagResponse, FlagData},
           NEW seq \in Nat, ChildSends(k, flag, seq)
    PROVE  clientBox' \in [Clients -> Seq(ServerPacket)]
<1>1. PICK c \in Clients : c = children[k].server
  BY ChildAt
<1>2. clientBox \in [Clients -> Seq(ServerPacket)]
  BY DEF TypeOK
<1>3. CASE clientBox' = clientBox
  BY <1>2, <1>3
<1>4. CASE \E p \in ServerPacket : clientBox' = [clientBox EXCEPT ![c] = Append(@, p)]
  <2>1. PICK p \in ServerPacket : clientBox' = [clientBox EXCEPT ![c] = Append(@, p)]
    BY <1>4
  <2>2. PICK box \in Seq(ServerPacket) : box = Append(clientBox[c], p)
    BY <1>2, AppendProperties
  <2> QED
    BY <1>2, <2>1, <2>2
<1> QED
  BY <1>1, <1>3, <1>4, ChildSendAdds

\* A child may be replaced by another record of its type.
LEMMA ChildReplaced ==
    ASSUME TypeOK, NEW k \in DOMAIN children, NEW child \in Child,
           children' = [children EXCEPT ![k] = child]
    PROVE  children' \in Seq(Child) /\ pidCount' <= LastPidCount + 1
<1>1. children \in Seq(Child) /\ pidCount <= LastPidCount + 1
  BY DEF TypeOK
<1> QED
  BY <1>1, LenProperties, ExceptSeq DEF pidCount

LEMMA BecomesTyped ==
    ASSUME TypeOK, NEW k \in DOMAIN children,
           NEW pc \in {"start", "poll", "recv", "read", "dead"}, Becomes(k, pc)
    PROVE  children' \in Seq(Child) /\ pidCount' <= LastPidCount + 1
<1> DEFINE child == [children[k] EXCEPT !.pc = pc]
<1>1. child \in Child
  BY ChildAt DEF Child
<1>2. children' = [children EXCEPT ![k] = child]
  BY DEF Becomes
<1> QED
  BY <1>1, <1>2, ChildReplaced

\* A child starts out for the client whose connect packet was taken, on the file it
\* names unless it was flipped.
LEMMA NewChildTyped ==
    ASSUME NEW connect \in ClientPacket, NEW child \in NewChild(connect)
    PROVE  /\ child \in Child
           /\ child.pc = "start" /\ child.seq = 0 /\ child.firstTaken = NoClient
           /\ child.server = connect.from
           /\ child.file = child.server \/ child.misread
<1> DEFINE Starts(file, left, window) ==
             [pc |-> "start", server |-> connect.from, file |-> file, left |-> left,
              window |-> window, misread |-> connect.garbled, seq |-> 0,
              firstTaken |-> NoClient]
<1>1. connect.from \in Clients /\ connect.garbled \in BOOLEAN
  BY DEF ClientPacket
<1>2. /\ windowSize \in Nat /\ FlippedSizes \subseteq Nat
      /\ \A c \in Clients : Blocks[c] \in Nat \cup {NoFile}
  BY RcopyAssumption
<1>3. PICK file \in Clients \cup {NoClient}, left \in Nat \cup {NoFile}, window \in Nat :
        /\ child = Starts(file, left, window)
        /\ file = connect.from \/ connect.garbled
  <2>1. CASE child = Starts(connect.from, Blocks[connect.from], windowSize)
    BY <1>1, <1>2, <2>1
  <2>2. CASE connect.garbled /\ child = Starts(connect.from, NoFile, windowSize)
    BY <1>1, <1>2, <2>2
  <2>3. CASE connect.garbled /\ \E other \in Clients :
                child = Starts(other, Blocks[other], windowSize)
    BY <1>1, <1>2, <2>3
  <2>4. CASE connect.garbled /\ \E n \in FlippedSizes :
                child = Starts(NoClient, n, windowSize)
    BY <1>1, <1>2, <2>4
  <2>5. CASE connect.garbled /\ \E n \in FlippedSizes :
                \/ child = Starts(connect.from, Blocks[connect.from], n)
                \/ child = Starts(connect.from, n, windowSize)
    BY <1>1, <1>2, <2>5
  <2> QED
    BY <2>1, <2>2, <2>3, <2>4, <2>5 DEF NewChild
<1> QED
  BY <1>1, <1>3 DEF Child

LEMMA TypeInit == Init => TypeOK
BY RcopyAssumption, EmptySeq DEF Init, TypeOK, pidCount

LEMMA TypeStep == TypeOK /\ [Next]_vars => TypeOK'
<1> SUFFICES ASSUME TypeOK, [Next]_vars PROVE TypeOK'
  OBVIOUS
<1>0. /\ inbox \in Seq(ClientPacket)
      /\ parent \in {"up", "exited", "interrupted"}
      /\ children \in Seq(Child) /\ pidCount <= LastPidCount + 1
      /\ client \in [Clients -> {"start", "connected", "loop", "done", "crashed"}]
      /\ clientBox \in [Clients -> Seq(ServerPacket)]
      /\ received \in [Clients -> Seq(ServerPacket)]
  BY DEF TypeOK
<1>1. ASSUME NEW c \in Clients, ClientStep(c) PROVE TypeOK'
  <2>0. clientBox[c] # << >> =>
          /\ Head(clientBox[c]) \in ServerPacket
          /\ Tail(clientBox[c]) \in Seq(ServerPacket)
    BY <1>0, HeadTailProperties
  <2>1. CASE connectBuf(c)
    <3>1. inbox' \in Seq(ClientPacket)
      BY <1>0, <2>1, ClientSendTyped DEF connectBuf
    <3> QED
      BY <1>0, <2>1, <3>1 DEF connectBuf, TypeOK, serverVars, pidCount
  <2>2. CASE Timeout(c)
    BY <1>0, <2>2 DEF Timeout, TypeOK, serverVars, pidCount
  <2>3. CASE CrashOnFirst(c)
    BY <1>0, <2>0, <2>3 DEF CrashOnFirst, TypeOK, serverVars, pidCount
  <2>4. CASE talkToServer(c)
    <3> DEFINE packet == Head(clientBox[c])
    <3>1. packet \in ServerPacket /\ packet.seq \in Nat /\ packet.garbled \in BOOLEAN
      BY <2>0, <2>4 DEF talkToServer, ServerPacket
    <3>2. inbox' \in Seq(ClientPacket)
      BY <1>0, <2>4, <3>1, ClientSendTyped DEF talkToServer
    <3>3. received' \in [Clients -> Seq(ServerPacket)]
      <4>1. Append(received[c], packet) \in Seq(ServerPacket)
        BY <1>0, <3>1, AppendProperties
      <4> QED
        BY <1>0, <2>4, <4>1 DEF talkToServer
    <3>4. /\ client' \in [Clients -> {"start", "connected", "loop", "done", "crashed"}]
          /\ clientBox' \in [Clients -> Seq(ServerPacket)]
      BY <1>0, <2>0, <2>4 DEF talkToServer
    <3> QED
      BY <1>0, <2>4, <3>2, <3>3, <3>4 DEF talkToServer, TypeOK, serverVars, pidCount
  <2> QED
    BY <1>1, <2>1, <2>2, <2>3, <2>4 DEF ClientStep
<1>2. CASE processClient
  <2>1. Head(inbox) \in ClientPacket /\ inbox' \in Seq(ClientPacket)
    BY <1>0, <1>2, HeadTailProperties DEF processClient
  <2>2. CASE UNCHANGED children
    BY <1>0, <1>2, <2>1, <2>2 DEF processClient, TypeOK, clientVars, pidCount
  <2>3. CASE /\ pidCount <= LastPidCount
             /\ \E child \in NewChild(Head(inbox)) : children' = Append(children, child)
    <3>1. PICK child \in NewChild(Head(inbox)) : children' = Append(children, child)
      BY <2>3
    <3>2. child \in Child
      BY <2>1, <3>1, NewChildTyped
    <3>3. children' \in Seq(Child) /\ Len(children') = Len(children) + 1
      BY <1>0, <3>1, <3>2, AppendProperties
    <3>4. pidCount' <= LastPidCount + 1
      BY <1>0, <2>3, <3>3, LenProperties, RcopyAssumption DEF pidCount
    <3> QED
      BY <1>0, <1>2, <2>1, <3>3, <3>4 DEF processClient, TypeOK, clientVars
  <2> QED
    BY <1>2, <2>2, <2>3 DEF processClient
<1>3. CASE handleZombies
  BY <1>0, <1>3 DEF handleZombies, TypeOK, clientVars, pidCount
<1>4. CASE gracefulClosing
  <2>1. /\ children' \in Seq(Child)
        /\ Len(children') = Len(children)
    <3>1. /\ Len(children) \in Nat
          /\ children' = [k \in 1..Len(children) |-> [children[k] EXCEPT !.pc = "dead"]]
      BY <1>0, <1>4, LenProperties DEF gracefulClosing
    <3>2. \A k \in 1..Len(children) : [children[k] EXCEPT !.pc = "dead"] \in Child
      <4> TAKE k \in 1..Len(children)
      <4>1. children[k] \in Child
        BY <1>0, ElementOfSeq
      <4> QED
        BY <4>1 DEF Child
    <3> QED
      BY <3>1, <3>2
  <2> QED
    BY <1>0, <1>4, <2>1 DEF gracefulClosing, TypeOK, clientVars, pidCount
<1>5. ASSUME NEW k \in DOMAIN children, ChildStep(k) PROVE TypeOK'
  <2>0. children[k] \in Child
    BY ChildAt
  <2>1. CASE handleSend(k)
    <3>2. clientBox' \in [Clients -> Seq(ServerPacket)]
      BY <2>1, ChildSendTyped DEF handleSend
    <3>3. children' \in Seq(Child) /\ pidCount' <= LastPidCount + 1
      BY <2>1, BecomesTyped DEF handleSend
    <3> QED
      BY <1>0, <2>1, <3>2, <3>3 DEF handleSend, TypeOK
  <2>2. CASE PollReady(k) \/ PollTimeout(k) \/ EndOfFile(k) \/ Crash(k)
    <3>1. children' \in Seq(Child) /\ pidCount' <= LastPidCount + 1
      BY <2>2, BecomesTyped DEF PollReady, PollTimeout, EndOfFile, Crash
    <3> QED
      BY <1>0, <2>2, <3>1
      DEF PollReady, PollTimeout, EndOfFile, Crash, TypeOK, clientVars
  <2>3. CASE Recv(k)
    <3> DEFINE child == [children[k] EXCEPT !.pc = "read",
                 !.firstTaken = IF @ = NoClient THEN Head(inbox).from ELSE @]
    <3>1. Head(inbox) \in ClientPacket /\ inbox' \in Seq(ClientPacket)
      BY <1>0, <2>3, HeadTailProperties DEF Recv
    <3>2. child \in Child
      BY <2>0, <3>1 DEF Child, ClientPacket
    <3>3. children' = [children EXCEPT ![k] = child]
      BY <2>3 DEF Recv
    <3>4. children' \in Seq(Child) /\ pidCount' <= LastPidCount + 1
      BY <3>2, <3>3, ChildReplaced
    <3> QED
      BY <1>0, <2>3, <3>1, <3>4 DEF Recv, TypeOK, clientVars
  <2>4. CASE SendBlock(k)
    <3> DEFINE child == [children[k] EXCEPT !.seq = @ + 1, !.left = @ - 1]
    <3>1. child \in Child
      BY <2>0, <2>4 DEF SendBlock, Child
    <3>2. children' = [children EXCEPT ![k] = child]
      BY <2>4 DEF SendBlock
    <3>3. children' \in Seq(Child) /\ pidCount' <= LastPidCount + 1
      BY <3>1, <3>2, ChildReplaced
    <3>4. children[k].seq \in Nat
      BY <2>0 DEF Child
    <3>5. clientBox' \in [Clients -> Seq(ServerPacket)]
      BY <2>4, <3>4, ChildSendTyped DEF SendBlock
    <3> QED
      BY <1>0, <2>4, <3>3, <3>5 DEF SendBlock, TypeOK
  <2> QED
    BY <1>5, <2>1, <2>2, <2>3, <2>4 DEF ChildStep
<1>6. CASE UNCHANGED vars
  BY <1>0, <1>6 DEF vars, serverVars, clientVars, TypeOK, pidCount
<1> QED
  BY <1>1, <1>2, <1>3, <1>4, <1>5, <1>6 DEF Next, Parent, Waiting

\* The processes' state and the queues between them keep their types, through every
\* loss, crash and fork.
THEOREM TypeCorrect == Spec => []TypeOK
BY TypeInit, TypeStep, PTL DEF Spec

-----------------------------------------------------------------------------
(* Queues *)

\* after is before, or before without its first element.
Shrinks(before, after) ==
    \E d \in {0, 1} : \A i \in DOMAIN after :
        i + d \in DOMAIN before /\ after[i] = before[i + d]

\* The same, where only the data packets count.
DataShrinks(before, after) ==
    \E d \in {0, 1} : \A i \in DOMAIN after : IsData(after[i]) =>
        i + d \in DOMAIN before /\ after[i] = before[i + d]

LEMMA TailShrinks ==
    ASSUME NEW S, NEW s \in Seq(S), s # << >>
    PROVE  /\ \A i \in DOMAIN Tail(s) : i + 1 \in DOMAIN s /\ Tail(s)[i] = s[i + 1]
           /\ DOMAIN Tail(s) \subseteq Nat \ {0}
           /\ 1 \in DOMAIN s /\ Head(s) = s[1]
<1>1. /\ Len(s) \in Nat /\ DOMAIN s = 1..Len(s) /\ Len(s) # 0
  BY LenProperties, EmptySeq
<1>2. /\ Tail(s) \in Seq(S) /\ Len(Tail(s)) = Len(s) - 1
      /\ \A i \in 1..Len(Tail(s)) : Tail(s)[i] = s[i + 1]
  BY HeadTailProperties
<1>3. DOMAIN Tail(s) = 1..(Len(s) - 1)
  BY <1>2, LenProperties
<1> QED
  BY <1>1, <1>2, <1>3

LEMMA AppendGrows ==
    ASSUME NEW S, NEW s \in Seq(S), NEW e \in S
    PROVE  /\ \A i \in DOMAIN Append(s, e) :
                \/ i \in DOMAIN s /\ Append(s, e)[i] = s[i]
                \/ i = Len(s) + 1 /\ Append(s, e)[i] = e
           /\ \A i \in DOMAIN s : i \in Nat /\ i < Len(s) + 1
           /\ Len(s) + 1 \in Nat
<1>1. Len(s) \in Nat /\ DOMAIN s = 1..Len(s)
  BY LenProperties
<1>2. /\ Append(s, e) \in Seq(S) /\ Len(Append(s, e)) = Len(s) + 1
      /\ \A i \in 1..Len(s) : Append(s, e)[i] = s[i]
      /\ Append(s, e)[Len(s) + 1] = e
  BY AppendProperties
<1>3. DOMAIN Append(s, e) = 1..(Len(s) + 1)
  BY <1>2, LenProperties
<1> QED
  BY <1>1, <1>2, <1>3

LEMMA Indices ==
    ASSUME TypeOK
    PROVE  /\ DOMAIN inbox \subseteq Nat
           /\ DOMAIN children \subseteq Nat
           /\ \A c \in Clients : /\ DOMAIN clientBox[c] \subseteq Nat
                                 /\ DOMAIN received[c] \subseteq Nat
<1>1. /\ inbox \in Seq(ClientPacket) /\ children \in Seq(Child)
      /\ \A c \in Clients : /\ clientBox[c] \in Seq(ServerPacket)
                            /\ received[c] \in Seq(ServerPacket)
  BY DEF TypeOK
<1> QED
  BY <1>1, LenProperties

-----------------------------------------------------------------------------
(* The invariant *)

\* No child changes its client, its file or how much it has sent.
ChildrenKeep ==
    /\ DOMAIN children' = DOMAIN children
    /\ \A k \in DOMAIN children :
         /\ children'[k].server = children[k].server
         /\ children'[k].file = children[k].file
         /\ children'[k].misread = children[k].misread
         /\ children'[k].seq = children[k].seq

\* A step in which packets are at most taken away, and no child sends a block.
LEMMA Quiet ==
    ASSUME IInv, TypeOK', FirstTaken', ChildrenKeep,
           Shrinks(inbox, inbox'),
           \A c \in Clients : DataShrinks(clientBox[c], clientBox'[c]),
           \A c \in Clients : client'[c] = "start" => client[c] = "start",
           received' = received
    PROVE  IInv'
<1>0. /\ DOMAIN inbox' \subseteq Nat
      /\ \A c \in Clients : DOMAIN clientBox'[c] \subseteq Nat
  <2>1. /\ inbox' \in Seq(ClientPacket)
        /\ \A c \in Clients : clientBox'[c] \in Seq(ServerPacket)
    BY DEF TypeOK
  <2> QED
    BY <2>1, LenProperties
<1>1. PICK d \in {0, 1} : \A i \in DOMAIN inbox' :
        i + d \in DOMAIN inbox /\ inbox'[i] = inbox[i + d]
  BY DEF Shrinks
<1>2. \A c, n : Sent(c, n)' <=> Sent(c, n)
  BY DEF Sent, ChildrenKeep
<1>3. \A c : (Reached(c)' <=> Reached(c)) /\ (Misled(c)' <=> Misled(c))
  BY DEF Reached, Misled, ChildrenKeep
<1>4. OneChild'
  BY <1>1, <1>3 DEF IInv, OneChild, ChildrenKeep
<1>5. OneWord'
  <2> SUFFICES ASSUME NEW c \in Clients
               PROVE  /\ client'[c] = "start" =>
                           ~Reached(c)' /\ \A i \in DOMAIN inbox' : inbox'[i].from # c
                      /\ ~Sent(c, 0)' =>
                           /\ \A i, j \in DOMAIN inbox' :
                                inbox'[i].from = c /\ inbox'[j].from = c => i = j
                           /\ Reached(c)' => \A i \in DOMAIN inbox' : inbox'[i].from # c
    BY DEF OneWord
  <2>1. client'[c] = "start" =>
           ~Reached(c)' /\ \A i \in DOMAIN inbox' : inbox'[i].from # c
    BY <1>1, <1>3 DEF IInv, OneWord
  <2>2. ~Sent(c, 0)' => /\ \A i, j \in DOMAIN inbox' :
                             inbox'[i].from = c /\ inbox'[j].from = c => i + d = j + d
                        /\ Reached(c)' => \A i \in DOMAIN inbox' : inbox'[i].from # c
    BY <1>1, <1>2, <1>3 DEF IInv, OneWord
  <2>3. \A i, j \in DOMAIN inbox' : i + d = j + d => i = j
    BY <1>0
  <2> QED
    BY <2>1, <2>2, <2>3
<1>6. BoxInOrder'
  <2> SUFFICES ASSUME NEW c \in Clients, NEW i \in DOMAIN clientBox'[c],
                      IsData(clientBox'[c][i])
               PROVE  /\ clientBox'[c][i].file = c \/ Misled(c)
                      /\ Sent(c, clientBox'[c][i].seq)
                      /\ \A j \in DOMAIN clientBox'[c] : IsData(clientBox'[c][j]) /\ i < j =>
                           clientBox'[c][i].seq < clientBox'[c][j].seq
    BY <1>2, <1>3 DEF BoxInOrder, IsData
  <2>1. PICK e \in {0, 1} : \A j \in DOMAIN clientBox'[c] : IsData(clientBox'[c][j]) =>
          j + e \in DOMAIN clientBox[c] /\ clientBox'[c][j] = clientBox[c][j + e]
    BY DEF DataShrinks
  <2>2. \A j \in DOMAIN clientBox'[c] : i < j => i + e < j + e
    BY <1>0
  <2> QED
    BY <2>1, <2>2 DEF IInv, BoxInOrder
<1>7. ReceivedInOrder'
  <2> SUFFICES ASSUME NEW c \in Clients, NEW i \in DOMAIN received[c]
               PROVE  /\ received[c][i].file = c \/ Misled(c)
                      /\ Sent(c, received[c][i].seq)
                      /\ \A j \in DOMAIN received[c] :
                           i < j => received[c][i].seq < received[c][j].seq
                      /\ \A j \in DOMAIN clientBox'[c] : IsData(clientBox'[c][j]) =>
                           received[c][i].seq < clientBox'[c][j].seq
    BY <1>2, <1>3 DEF ReceivedInOrder, IsData
  <2>1. PICK e \in {0, 1} : \A j \in DOMAIN clientBox'[c] : IsData(clientBox'[c][j]) =>
          j + e \in DOMAIN clientBox[c] /\ clientBox'[c][j] = clientBox[c][j + e]
    BY DEF DataShrinks
  <2> QED
    BY <2>1 DEF IInv, ReceivedInOrder
<1>8. AcksFollowData'
  <2> SUFFICES ASSUME NEW i \in DOMAIN inbox',
                      inbox'[i].flag = FlagRR, ~inbox'[i].garbled
               PROVE  \E k \in DOMAIN children' :
                        children'[k].server = inbox'[i].from /\ inbox'[i].seq < children'[k].seq
    BY DEF AcksFollowData
  <2>1. \E k \in DOMAIN children :
          children[k].server = inbox'[i].from /\ inbox'[i].seq < children[k].seq
    BY <1>1 DEF IInv, AcksFollowData
  <2> QED
    BY <2>1 DEF ChildrenKeep
<1> QED
  BY <1>4, <1>5, <1>6, <1>7, <1>8 DEF IInv

\* What is at hand at the head of a client's queue.
LEMMA BoxHead ==
    ASSUME TypeOK, NEW c \in Clients, clientBox[c] # << >>
    PROVE  /\ \A i \in DOMAIN Tail(clientBox[c]) :
                /\ i \in Nat /\ i > 0
                /\ i + 1 \in DOMAIN clientBox[c]
                /\ Tail(clientBox[c])[i] = clientBox[c][i + 1]
           /\ 1 \in DOMAIN clientBox[c]
           /\ Head(clientBox[c]) = clientBox[c][1]
           /\ Head(clientBox[c]) \in ServerPacket
<1>1. clientBox[c] \in Seq(ServerPacket)
  BY DEF TypeOK
<1> QED
  BY <1>1, TailShrinks, HeadTailProperties

LEMMA InboxHead ==
    ASSUME TypeOK, inbox # << >>
    PROVE  /\ \A i \in DOMAIN Tail(inbox) : /\ i \in Nat /\ i > 0
                                            /\ i + 1 \in DOMAIN inbox
                                            /\ Tail(inbox)[i] = inbox[i + 1]
           /\ 1 \in DOMAIN inbox /\ Head(inbox) = inbox[1]
           /\ Head(inbox) \in ClientPacket
           /\ Shrinks(inbox, Tail(inbox))
<1>1. inbox \in Seq(ClientPacket)
  BY DEF TypeOK
<1>2. /\ \A i \in DOMAIN Tail(inbox) : i + 1 \in DOMAIN inbox /\ Tail(inbox)[i] = inbox[i + 1]
      /\ DOMAIN Tail(inbox) \subseteq Nat \ {0}
      /\ 1 \in DOMAIN inbox /\ Head(inbox) = inbox[1]
  BY <1>1, TailShrinks
<1>3. Shrinks(inbox, Tail(inbox))
  BY <1>2 DEF Shrinks
<1> QED
  BY <1>1, <1>2, <1>3, HeadTailProperties

\* A queue that nothing happens to.
LEMMA Same ==
    ASSUME TypeOK
    PROVE  /\ Shrinks(inbox, inbox)
           /\ \A c \in Clients : DataShrinks(clientBox[c], clientBox[c])
<1>1. /\ DOMAIN inbox \subseteq Nat
      /\ \A c \in Clients : DOMAIN clientBox[c] \subseteq Nat
  BY Indices
<1>2. \A i \in Nat : i + 0 = i
  OBVIOUS
<1>3. Shrinks(inbox, inbox)
  <2>1. \A i \in DOMAIN inbox : i + 0 \in DOMAIN inbox /\ inbox[i] = inbox[i + 0]
    BY <1>1, <1>2
  <2> QED
    BY <2>1 DEF Shrinks
<1>4. ASSUME NEW c \in Clients PROVE DataShrinks(clientBox[c], clientBox[c])
  <2>1. \A i \in DOMAIN clientBox[c] :
          i + 0 \in DOMAIN clientBox[c] /\ clientBox[c][i] = clientBox[c][i + 0]
    BY <1>1, <1>2
  <2> QED
    BY <2>1 DEF DataShrinks
<1> QED
  BY <1>3, <1>4

\* So does a queue to which a packet without data is added, or nothing.
LEMMA ResponseAdded ==
    ASSUME TypeOK, NEW k \in DOMAIN children, ChildSends(k, FlagResponse, 0)
    PROVE  \A c \in Clients : DataShrinks(clientBox[c], clientBox'[c])
<1> SUFFICES ASSUME NEW c \in Clients PROVE DataShrinks(clientBox[c], clientBox'[c])
  OBVIOUS
<1>1. clientBox[c] \in Seq(ServerPacket) /\ clientBox \in [Clients -> Seq(ServerPacket)]
  BY DEF TypeOK
<1>2. CASE clientBox'[c] = clientBox[c]
  BY <1>2, Same
<1>3. ASSUME NEW packet \in ServerPacket, ~IsData(packet),
             clientBox'[c] = Append(clientBox[c], packet)
      PROVE  DataShrinks(clientBox[c], clientBox'[c])
  <2>1. \A i \in DOMAIN Append(clientBox[c], packet) :
          IsData(Append(clientBox[c], packet)[i]) =>
            /\ i + 0 \in DOMAIN clientBox[c]
            /\ Append(clientBox[c], packet)[i] = clientBox[c][i + 0]
    BY <1>1, <1>3, AppendGrows
  <2> QED
    BY <1>3, <2>1 DEF DataShrinks
<1>4. \/ clientBox' = clientBox
      \/ \E p \in ServerPacket :
           /\ clientBox' = [clientBox EXCEPT ![children[k].server] = Append(@, p)]
           /\ p.flag \in {FlagResponse, FlagUnknown}
  BY ChildSendAdds
<1>5. \A p \in ServerPacket : p.flag \in {FlagResponse, FlagUnknown} => ~IsData(p)
  BY DEF IsData, FlagResponse, FlagUnknown, FlagData
<1> QED
  BY <1>1, <1>2, <1>3, <1>4, <1>5, ChildAt

\* The numbers in packets.
LEMMA Numbers ==
    ASSUME TypeOK
    PROVE  /\ \A i \in DOMAIN inbox : inbox[i].seq \in Nat
           /\ \A c \in Clients :
                /\ \A i \in DOMAIN clientBox[c] : clientBox[c][i].seq \in Nat
                /\ \A i \in DOMAIN received[c] : received[c][i].seq \in Nat
<1>1. /\ inbox \in Seq(ClientPacket)
      /\ \A c \in Clients : /\ clientBox[c] \in Seq(ServerPacket)
                            /\ received[c] \in Seq(ServerPacket)
  BY DEF TypeOK
<1>2. /\ \A i \in DOMAIN inbox : inbox[i] \in ClientPacket
      /\ \A c \in Clients :
           /\ \A i \in DOMAIN clientBox[c] : clientBox[c][i] \in ServerPacket
           /\ \A i \in DOMAIN received[c] : received[c][i] \in ServerPacket
  BY <1>1, LenProperties, ElementOfSeq
<1> QED
  BY <1>2 DEF ClientPacket, ServerPacket

-----------------------------------------------------------------------------
(* Every step keeps the invariant *)

\* A child that changes only its state, and does not begin to read.
LEMMA BecomesKeeps ==
    ASSUME IInv, NEW k \in DOMAIN children, NEW pc, Becomes(k, pc),
           pc = "read" => children[k].pc = "read"
    PROVE  ChildrenKeep /\ FirstTaken'
<1>1. children \in Seq(Child)
  BY DEF IInv, TypeOK
<1>2. children' = [children EXCEPT ![k].pc = pc]
  BY DEF Becomes
<1>3. /\ DOMAIN children' = DOMAIN children
      /\ \A j \in DOMAIN children :
           /\ children'[j].server = children[j].server
           /\ children'[j].file = children[j].file
           /\ children'[j].misread = children[j].misread
           /\ children'[j].seq = children[j].seq
           /\ children'[j].firstTaken = children[j].firstTaken
           /\ children'[j].pc = "read" => children[j].pc = "read"
  <2>1. \A j \in DOMAIN children : children[j] \in Child
    BY ChildAt DEF IInv
  <2> QED
    BY <1>1, <1>2, <2>1 DEF Child
<1> QED
  BY <1>3 DEF IInv, FirstTaken, ChildrenKeep

LEMMA ChildrenUnchanged ==
    ASSUME IInv, UNCHANGED children
    PROVE  ChildrenKeep /\ FirstTaken'
BY DEF IInv, FirstTaken, ChildrenKeep

\* connectBuf: the first packet of a client the server knows nothing of.
LEMMA ConnectStep ==
    ASSUME IInv, TypeOK', NEW c \in Clients, connectBuf(c)
    PROVE  IInv'
<1>0. TypeOK /\ inbox \in Seq(ClientPacket)
  BY DEF IInv, TypeOK
<1>1. /\ client[c] = "start"
      /\ \A b \in Clients : client'[b] = "start" => client[b] = "start" /\ b # c
      /\ UNCHANGED <<children, clientBox, received>>
  BY <1>0 DEF connectBuf, serverVars, TypeOK
<1>2. ChildrenKeep /\ FirstTaken'
  BY <1>1, ChildrenUnchanged
<1>3. CASE inbox' = inbox
  BY <1>0, <1>1, <1>2, <1>3, Same, Quiet
<1>4. CASE \E p \in ClientPacket :
             /\ inbox' = Append(inbox, p)
             /\ p.from = c
             /\ p.flag \in {FlagConnect, FlagUnknown}
  <2>1. PICK p \in ClientPacket : /\ inbox' = Append(inbox, p)
                                  /\ p.from = c
                                  /\ p.flag \in {FlagConnect, FlagUnknown}
    BY <1>4
  <2>2. \A i \in DOMAIN inbox' : \/ i \in DOMAIN inbox /\ inbox'[i] = inbox[i]
                                 \/ i = Len(inbox) + 1 /\ inbox'[i] = p
    BY <1>0, <2>1, AppendGrows
  <2>3. \A b, n : Sent(b, n)' <=> Sent(b, n)
    BY <1>1 DEF Sent
  <2>4. \A b : (Reached(b)' <=> Reached(b)) /\ (Misled(b)' <=> Misled(b))
    BY <1>1 DEF Reached, Misled
  <2>5. ~Reached(c) /\ \A i \in DOMAIN inbox : inbox[i].from # c
    BY <1>1 DEF IInv, OneWord
  <2>6. OneChild'
    BY <1>1, <2>1, <2>2, <2>4, <2>5 DEF IInv, OneChild
  <2>7. OneWord'
    BY <1>1, <2>1, <2>2, <2>3, <2>4, <2>5 DEF IInv, OneWord
  <2>8. BoxInOrder' /\ ReceivedInOrder'
    BY <1>1, <2>3, <2>4 DEF IInv, BoxInOrder, ReceivedInOrder, IsData
  <2>9. AcksFollowData'
    <3>1. p.flag # FlagRR
      BY <2>1 DEF FlagConnect, FlagUnknown, FlagRR
    <3> QED
      BY <1>1, <2>2, <3>1 DEF IInv, AcksFollowData
  <2> QED
    BY <1>2, <2>6, <2>7, <2>8, <2>9 DEF IInv
<1>5. ClientSends(c, FlagConnect, 0, FALSE)
  BY DEF connectBuf
<1> QED
  BY <1>0, <1>3, <1>4, <1>5, ClientSendAdds

\* talkToServer with a data packet: it moves from the queue to what has arrived, and
\* an RR goes out.
LEMMA DataStep ==
    ASSUME IInv, TypeOK', NEW c \in Clients, talkToServer(c), IsData(Head(clientBox[c]))
    PROVE  IInv'
<1> DEFINE packet == Head(clientBox[c])
<1>0. /\ TypeOK /\ inbox \in Seq(ClientPacket)
      /\ \A b \in Clients : received[b] \in Seq(ServerPacket)
  BY DEF IInv, TypeOK
<1>1. /\ clientBox[c] # << >>
      /\ client[c] # "start"
      /\ \A b \in Clients : client'[b] = "start" => client[b] = "start"
      /\ clientBox' = [clientBox EXCEPT ![c] = Tail(clientBox[c])]
      /\ received' = [received EXCEPT ![c] = Append(received[c], packet)]
      /\ ClientSends(c, FlagRR, packet.seq, packet.garbled)
      /\ UNCHANGED children
  BY <1>0 DEF talkToServer, serverVars, IsData, TypeOK
<1>2. /\ packet \in ServerPacket /\ packet.seq \in Nat /\ packet.garbled \in BOOLEAN
      /\ 1 \in DOMAIN clientBox[c] /\ packet = clientBox[c][1]
      /\ \A i \in DOMAIN Tail(clientBox[c]) :
           /\ i \in Nat /\ i > 0 /\ i + 1 \in DOMAIN clientBox[c]
           /\ Tail(clientBox[c])[i] = clientBox[c][i + 1]
  BY <1>0, <1>1, BoxHead DEF ServerPacket
<1>3. (packet.file = c \/ Misled(c)) /\ Sent(c, packet.seq)
  BY <1>2 DEF IInv, BoxInOrder
<1>4. Sent(c, 0) /\ Reached(c)
  <2>1. PICK k \in DOMAIN children : children[k].server = c /\ packet.seq < children[k].seq
    BY <1>3 DEF Sent
  <2>2. 0 < children[k].seq
    BY <1>0, <1>2, <2>1, ChildAt
  <2> QED
    BY <2>1, <2>2 DEF Sent, Reached
<1>5. \/ inbox' = inbox
      \/ \E p \in ClientPacket :
           /\ inbox' = Append(inbox, p)
           /\ p.from = c /\ p.flag \in {FlagRR, FlagUnknown}
           /\ ~p.garbled => p.seq = packet.seq
  BY <1>0, <1>1, <1>2, ClientSendAdds
<1>6. \A i \in DOMAIN inbox' :
        \/ i \in DOMAIN inbox /\ inbox'[i] = inbox[i]
        \/ /\ i = Len(inbox) + 1
           /\ inbox'[i].from = c /\ inbox'[i].flag \in {FlagRR, FlagUnknown}
           /\ ~inbox'[i].garbled => inbox'[i].seq = packet.seq
  BY <1>0, <1>5, AppendGrows
<1>7. /\ \A b, n : Sent(b, n)' <=> Sent(b, n)
      /\ \A b : (Reached(b)' <=> Reached(b)) /\ (Misled(b)' <=> Misled(b))
  BY <1>1 DEF Sent, Reached, Misled
<1>8. FirstTaken'
  BY <1>1, ChildrenUnchanged
<1>9. OneChild'
  <2>1. \A i \in DOMAIN inbox' : inbox'[i].flag = FlagConnect =>
          i \in DOMAIN inbox /\ inbox'[i] = inbox[i]
    BY <1>6 DEF FlagConnect, FlagRR, FlagUnknown
  <2> QED
    BY <1>1, <1>7, <2>1 DEF IInv, OneChild
<1>10. OneWord'
  BY <1>1, <1>4, <1>6, <1>7 DEF IInv, OneWord
<1>11. BoxInOrder'
  <2> SUFFICES ASSUME NEW b \in Clients, NEW i \in DOMAIN clientBox'[b],
                      IsData(clientBox'[b][i])
               PROVE  /\ clientBox'[b][i].file = b \/ Misled(b)
                      /\ Sent(b, clientBox'[b][i].seq)
                      /\ \A j \in DOMAIN clientBox'[b] : IsData(clientBox'[b][j]) /\ i < j =>
                           clientBox'[b][i].seq < clientBox'[b][j].seq
    BY <1>7 DEF BoxInOrder, IsData
  <2>1. CASE b = c
    <3>1. clientBox'[b] = Tail(clientBox[c])
      BY <1>0, <1>1, <2>1 DEF TypeOK
    <3>2. \A j \in DOMAIN clientBox'[b] : i < j => i + 1 < j + 1
      BY <1>2, <3>1
    <3> QED
      BY <1>2, <2>1, <3>1, <3>2 DEF IInv, BoxInOrder
  <2>2. CASE b # c
    <3>1. clientBox'[b] = clientBox[b]
      BY <1>0, <1>1, <2>2 DEF TypeOK
    <3> QED
      BY <3>1 DEF IInv, BoxInOrder
  <2> QED
    BY <2>1, <2>2
<1>12. ReceivedInOrder'
  <2> SUFFICES ASSUME NEW b \in Clients, NEW i \in DOMAIN received'[b]
               PROVE  /\ received'[b][i].file = b \/ Misled(b)
                      /\ Sent(b, received'[b][i].seq)
                      /\ \A j \in DOMAIN received'[b] :
                           i < j => received'[b][i].seq < received'[b][j].seq
                      /\ \A j \in DOMAIN clientBox'[b] : IsData(clientBox'[b][j]) =>
                           received'[b][i].seq < clientBox'[b][j].seq
    BY <1>7 DEF ReceivedInOrder, IsData
  <2>1. CASE b = c
    <3>1. /\ received'[b] = Append(received[c], packet)
          /\ clientBox'[b] = Tail(clientBox[c])
      BY <1>0, <1>1, <2>1 DEF TypeOK
    <3>2. /\ \A j \in DOMAIN received'[b] :
               \/ j \in DOMAIN received[c] /\ received'[b][j] = received[c][j]
               \/ j = Len(received[c]) + 1 /\ received'[b][j] = packet
          /\ \A j \in DOMAIN received[c] : j \in Nat /\ j < Len(received[c]) + 1
          /\ Len(received[c]) + 1 \in Nat
      BY <1>0, <1>2, <3>1, AppendGrows
    <3>3. \A j \in DOMAIN clientBox'[b] : IsData(clientBox'[b][j]) =>
            packet.seq < clientBox'[b][j].seq
      <4>1. \A j \in DOMAIN clientBox'[b] : 1 < j + 1
        BY <1>2, <3>1
      <4> QED
        BY <1>2, <3>1, <4>1 DEF IInv, BoxInOrder
    <3>4. CASE i \in DOMAIN received[c] /\ received'[b][i] = received[c][i]
      <4>1. /\ (received[c][i].file = c \/ Misled(c)) /\ Sent(c, received[c][i].seq)
            /\ \A j \in DOMAIN received[c] : i < j => received[c][i].seq < received[c][j].seq
            /\ \A j \in DOMAIN clientBox[c] : IsData(clientBox[c][j]) =>
                 received[c][i].seq < clientBox[c][j].seq
        BY <3>4 DEF IInv, ReceivedInOrder
      <4>2. received[c][i].seq < packet.seq
        BY <1>2, <4>1
      <4>3. \A j \in DOMAIN received'[b] :
              i < j => received'[b][i].seq < received'[b][j].seq
        BY ONLY <3>2, <3>4, <4>1, <4>2
      <4>4. \A j \in DOMAIN clientBox'[b] : IsData(clientBox'[b][j]) =>
              received'[b][i].seq < clientBox'[b][j].seq
        BY ONLY <1>2, <3>1, <3>4, <4>1
      <4> QED
        BY ONLY <2>1, <3>4, <4>1, <4>3, <4>4
    <3>5. CASE i = Len(received[c]) + 1 /\ received'[b][i] = packet
      <4>1. \A j \in DOMAIN received'[b] : ~(i < j)
        BY <3>2, <3>5
      <4> QED
        BY <1>3, <2>1, <3>3, <3>5, <4>1
    <3> QED
      BY <3>2, <3>4, <3>5
  <2>2. CASE b # c
    <3>1. clientBox'[b] = clientBox[b] /\ received'[b] = received[b]
      BY <1>0, <1>1, <2>2 DEF TypeOK
    <3> QED
      BY <3>1 DEF IInv, ReceivedInOrder
  <2> QED
    BY <2>1, <2>2
<1>13. AcksFollowData'
  <2>1. \E k \in DOMAIN children : children[k].server = c /\ packet.seq < children[k].seq
    BY <1>3 DEF Sent
  <2> QED
    BY <1>1, <1>6, <2>1 DEF IInv, AcksFollowData
<1> QED
  BY <1>8, <1>9, <1>10, <1>11, <1>12, <1>13 DEF IInv

\* processClient forks: the client's connect packet was its only packet, and it has
\* no other child.
LEMMA ForkStep ==
    ASSUME IInv, TypeOK', processClient, Head(inbox).flag = FlagConnect,
           NEW child \in NewChild(Head(inbox)), children' = Append(children, child)
    PROVE  IInv'
<1> DEFINE c == Head(inbox).from
<1>0. TypeOK /\ children \in Seq(Child)
  BY DEF IInv, TypeOK
<1>1. /\ inbox # << >> /\ inbox' = Tail(inbox)
      /\ UNCHANGED <<client, clientBox, received>>
  BY DEF processClient, clientVars
<1>2. /\ \A i \in DOMAIN inbox' : /\ i \in Nat /\ i > 0 /\ i + 1 \in DOMAIN inbox
                                  /\ inbox'[i] = inbox[i + 1]
      /\ 1 \in DOMAIN inbox /\ Head(inbox) = inbox[1]
      /\ Head(inbox) \in ClientPacket
  BY <1>0, <1>1, InboxHead
<1>3. /\ child \in Child /\ child.server = c
      /\ child.file = child.server \/ child.misread
      /\ child.pc = "start" /\ child.seq = 0 /\ child.firstTaken = NoClient
  BY <1>2, NewChildTyped
<1>4. c \in Clients
  BY <1>2 DEF ClientPacket
<1>5. ~Reached(c)
  BY <1>2 DEF IInv, OneChild
<1>6. ~Sent(c, 0)
  BY <1>5 DEF Reached, Sent
<1>7. \A i \in DOMAIN inbox' : inbox'[i].from # c
  <2>1. \A i, j \in DOMAIN inbox : inbox[i].from = c /\ inbox[j].from = c => i = j
    BY <1>4, <1>6 DEF IInv, OneWord
  <2>2. \A i \in DOMAIN inbox' : i + 1 # 1
    BY <1>2
  <2> QED
    BY <1>2, <2>1, <2>2
<1>8. /\ \A k \in DOMAIN children' :
           \/ k \in DOMAIN children /\ children'[k] = children[k]
           \/ k = Len(children) + 1 /\ children'[k] = child
      /\ \A k \in DOMAIN children : k \in DOMAIN children' /\ children'[k] = children[k]
  <2>1. \A k \in DOMAIN children : k \in DOMAIN children' /\ children'[k] = children[k]
    BY <1>0, <1>3, AppendProperties, LenProperties
  <2> QED
    BY <1>0, <1>3, <2>1, AppendGrows
<1>9. \A b : \A n \in Nat : Sent(b, n)' <=> Sent(b, n)
  <2>1. \A n \in Nat : ~(n < 0)
    OBVIOUS
  <2> QED
    BY <1>3, <1>8, <2>1 DEF Sent
<1>10. \A b : (Reached(b)' => Reached(b) \/ b = c) /\ (Misled(b) => Misled(b)')
  BY <1>3, <1>8 DEF Reached, Misled
<1>11. OneChild'
  <2>1. \A k \in DOMAIN children : children[k].server # c
    BY <1>5 DEF Reached
  <2>2. \A j, k \in DOMAIN children' : children'[j].server = children'[k].server => j = k
    BY <1>3, <1>8, <2>1 DEF IInv, OneChild
  <2>3. \A k \in DOMAIN children' :
          children'[k].file = children'[k].server \/ children'[k].misread
    BY <1>3, <1>8 DEF IInv, OneChild
  <2>4. \A i \in DOMAIN inbox' : inbox'[i].flag = FlagConnect =>
          \A k \in DOMAIN children' : children'[k].server # inbox'[i].from
    <3>1. \A i \in DOMAIN inbox' : inbox'[i].flag = FlagConnect =>
            \A k \in DOMAIN children : children[k].server # inbox'[i].from
      BY <1>2 DEF IInv, OneChild, Reached
    <3> QED
      BY <1>3, <1>7, <1>8, <3>1
  <2> QED
    BY <2>2, <2>3, <2>4 DEF OneChild, Reached
<1>12. OneWord'
  <2> SUFFICES ASSUME NEW b \in Clients
               PROVE  /\ client[b] = "start" =>
                           ~Reached(b)' /\ \A i \in DOMAIN inbox' : inbox'[i].from # b
                      /\ ~Sent(b, 0) =>
                           /\ \A i, j \in DOMAIN inbox' :
                                inbox'[i].from = b /\ inbox'[j].from = b => i = j
                           /\ Reached(b)' => \A i \in DOMAIN inbox' : inbox'[i].from # b
    BY <1>1, <1>9 DEF OneWord
  <2>1. client[b] = "start" =>
          b # c /\ ~Reached(b) /\ \A i \in DOMAIN inbox' : inbox'[i].from # b
    BY <1>2 DEF IInv, OneWord
  <2>2. ~Sent(b, 0) => /\ \A i, j \in DOMAIN inbox' :
                            inbox'[i].from = b /\ inbox'[j].from = b => i + 1 = j + 1
                       /\ Reached(b) => \A i \in DOMAIN inbox' : inbox'[i].from # b
    BY <1>2 DEF IInv, OneWord
  <2>3. \A i, j \in DOMAIN inbox' : i + 1 = j + 1 => i = j
    BY <1>2
  <2> QED
    BY <1>7, <1>10, <2>1, <2>2, <2>3
<1>13. FirstTaken'
  BY <1>3, <1>4, <1>8, RcopyAssumption DEF IInv, FirstTaken
<1>14. \A b \in Clients :
         /\ \A i \in DOMAIN clientBox[b] : clientBox[b][i].seq \in Nat
         /\ \A i \in DOMAIN received[b] : received[b][i].seq \in Nat
  BY <1>0, Numbers
<1>15. BoxInOrder'
  BY <1>1, <1>9, <1>10, <1>14 DEF IInv, BoxInOrder, IsData
<1>16. ReceivedInOrder'
  BY <1>1, <1>9, <1>10, <1>14 DEF IInv, ReceivedInOrder, IsData
<1>17. AcksFollowData'
  BY <1>2, <1>8 DEF IInv, AcksFollowData
<1> QED
  BY <1>11, <1>12, <1>13, <1>15, <1>16, <1>17 DEF IInv

\* SendBlock: the new number is above everything its client was ever sent, because
\* no other child serves that client.
LEMMA SendStep ==
    ASSUME IInv, TypeOK', NEW k \in DOMAIN children, SendBlock(k)
    PROVE  IInv'
<1> DEFINE c == children[k].server
           seq == children[k].seq
           SentNow(b, n) == \E j \in DOMAIN children' :
                              children'[j].server = b /\ n < children'[j].seq
<1>0. /\ TypeOK /\ children \in Seq(Child)
      /\ \A j \in DOMAIN children : children[j] \in Child /\ children[j].seq \in Nat
      /\ c \in Clients
      /\ clientBox \in [Clients -> Seq(ServerPacket)]
  BY ChildAt DEF IInv, TypeOK
<1>1. /\ children' = [children EXCEPT ![k].seq = @ + 1, ![k].left = @ - 1]
      /\ children[k].pc = "read"
      /\ ChildSends(k, FlagData, seq)
      /\ UNCHANGED <<inbox, client, received>>
  BY DEF SendBlock
<1>2. /\ DOMAIN children' = DOMAIN children
      /\ \A j \in DOMAIN children :
           /\ children'[j].server = children[j].server
           /\ children'[j].file = children[j].file
           /\ children'[j].misread = children[j].misread
           /\ children'[j].pc = children[j].pc
           /\ children'[j].firstTaken = children[j].firstTaken
           /\ children'[j].seq = IF j = k THEN children[k].seq + 1 ELSE children[j].seq
  BY <1>0, <1>1 DEF Child
<1>3. children[k].file = c \/ Misled(c)
  BY DEF IInv, OneChild, Misled
<1>4. \A b : (Reached(b)' <=> Reached(b)) /\ (Misled(b)' <=> Misled(b))
  BY <1>2 DEF Reached, Misled
<1>5. /\ \A b : \A n \in Nat : Sent(b, n) => SentNow(b, n)
      /\ SentNow(c, seq)
  <2>1. \A j \in DOMAIN children : \A n \in Nat :
          n < children[j].seq => n < children'[j].seq
    <3> TAKE j \in DOMAIN children, n \in Nat
    <3>1. /\ children[j].seq \in Nat
          /\ children'[j].seq = children[j].seq \/ children'[j].seq = children[j].seq + 1
      BY <1>0, <1>2
    <3> QED
      BY <3>1
  <2>2. seq < children'[k].seq
    BY <1>0, <1>2
  <2> QED
    BY <1>2, <2>1, <2>2 DEF Sent
<1>6. \A n \in Nat : Sent(c, n) => n < seq
  BY DEF IInv, OneChild, Sent
<1>7. \A b \in Clients :
        /\ \A i \in DOMAIN clientBox[b] : clientBox[b][i].seq \in Nat
        /\ \A i \in DOMAIN received[b] : received[b][i].seq \in Nat
  BY <1>0, Numbers
<1>8. \A b \in Clients : \A i \in DOMAIN clientBox'[b] :
        \/ i \in DOMAIN clientBox[b] /\ clientBox'[b][i] = clientBox[b][i]
        \/ /\ b = c /\ i = Len(clientBox[c]) + 1
           /\ clientBox'[b][i].seq = seq
           /\ clientBox'[b][i].file = c \/ Misled(c)
  <2>1. CASE clientBox' = clientBox
    BY <2>1
  <2>2. ASSUME NEW p \in ServerPacket, p.seq = seq, p.file = children[k].file,
               clientBox' = [clientBox EXCEPT ![c] = Append(@, p)],
               NEW b \in Clients, NEW i \in DOMAIN clientBox'[b]
        PROVE  \/ i \in DOMAIN clientBox[b] /\ clientBox'[b][i] = clientBox[b][i]
               \/ /\ b = c /\ i = Len(clientBox[c]) + 1
                  /\ clientBox'[b][i].seq = seq
                  /\ clientBox'[b][i].file = c \/ Misled(c)
    <3>1. clientBox[c] \in Seq(ServerPacket)
      BY <1>0
    <3>2. \A j \in DOMAIN Append(clientBox[c], p) :
            \/ j \in DOMAIN clientBox[c] /\ Append(clientBox[c], p)[j] = clientBox[c][j]
            \/ j = Len(clientBox[c]) + 1 /\ Append(clientBox[c], p)[j] = p
      BY <3>1, AppendGrows
    <3>3. clientBox'[b] = IF b = c THEN Append(clientBox[c], p) ELSE clientBox[b]
      BY <1>0, <2>2
    <3> QED
      BY <1>3, <2>2, <3>2, <3>3
  <2>3. \/ clientBox' = clientBox
        \/ \E p \in ServerPacket :
             /\ clientBox' = [clientBox EXCEPT ![c] = Append(@, p)]
             /\ p.file = children[k].file /\ p.seq = seq
    BY <1>0, <1>1, ChildSendAdds
  <2> QED
    BY <2>1, <2>2, <2>3
<1>9. /\ \A i \in DOMAIN clientBox[c] : i \in Nat /\ i < Len(clientBox[c]) + 1
      /\ Len(clientBox[c]) + 1 \in Nat
  <2>1. clientBox[c] \in Seq(ServerPacket)
    BY <1>0
  <2> QED
    BY <2>1, LenProperties
<1>10. OneChild'
  BY <1>1, <1>2, <1>4 DEF IInv, OneChild
<1>11. OneWord'
  <2>1. \A b : ~Sent(b, 0)' => ~Sent(b, 0)
    BY <1>5 DEF Sent
  <2> QED
    BY <1>1, <1>4, <2>1 DEF IInv, OneWord
<1>12. FirstTaken'
  <2>1. children[k].firstTaken # NoClient
    BY <1>1 DEF IInv, FirstTaken
  <2> QED
    BY <1>2, <2>1 DEF IInv, FirstTaken
<1>13. BoxInOrder'
  <2> SUFFICES ASSUME NEW b \in Clients, NEW i \in DOMAIN clientBox'[b],
                      IsData(clientBox'[b][i])
               PROVE  /\ clientBox'[b][i].file = b \/ Misled(b)
                      /\ SentNow(b, clientBox'[b][i].seq)
                      /\ \A j \in DOMAIN clientBox'[b] : IsData(clientBox'[b][j]) /\ i < j =>
                           clientBox'[b][i].seq < clientBox'[b][j].seq
    BY <1>4 DEF BoxInOrder, IsData, Sent
  <2>1. CASE i \in DOMAIN clientBox[b] /\ clientBox'[b][i] = clientBox[b][i]
    <3>1. /\ clientBox[b][i].file = b \/ Misled(b)
          /\ Sent(b, clientBox[b][i].seq)
          /\ clientBox[b][i].seq \in Nat
          /\ \A j \in DOMAIN clientBox[b] : IsData(clientBox[b][j]) /\ i < j =>
               clientBox[b][i].seq < clientBox[b][j].seq
      BY <1>7, <2>1 DEF IInv, BoxInOrder
    <3>2. b = c => clientBox[b][i].seq < seq
      BY <1>6, <3>1
    <3>3. SentNow(b, clientBox[b][i].seq)
      BY <1>5, <3>1
    <3> QED
      BY <1>8, <2>1, <3>1, <3>2, <3>3
  <2>2. CASE /\ b = c /\ i = Len(clientBox[c]) + 1
             /\ clientBox'[b][i].seq = seq
             /\ clientBox'[b][i].file = c \/ Misled(c)
    <3>1. \A j \in DOMAIN clientBox'[b] : ~(i < j)
      BY <1>8, <1>9, <2>2
    <3> QED
      BY <1>3, <1>5, <2>2, <3>1
  <2> QED
    BY <1>8, <2>1, <2>2
<1>14. ReceivedInOrder'
  <2> SUFFICES ASSUME NEW b \in Clients, NEW i \in DOMAIN received[b]
               PROVE  /\ received[b][i].file = b \/ Misled(b)
                      /\ SentNow(b, received[b][i].seq)
                      /\ \A j \in DOMAIN received[b] :
                           i < j => received[b][i].seq < received[b][j].seq
                      /\ \A j \in DOMAIN clientBox'[b] : IsData(clientBox'[b][j]) =>
                           received[b][i].seq < clientBox'[b][j].seq
    BY <1>1, <1>4 DEF ReceivedInOrder, IsData, Sent
  <2>1. /\ received[b][i].file = b \/ Misled(b)
        /\ Sent(b, received[b][i].seq)
        /\ received[b][i].seq \in Nat
        /\ \A j \in DOMAIN received[b] : i < j => received[b][i].seq < received[b][j].seq
        /\ \A j \in DOMAIN clientBox[b] : IsData(clientBox[b][j]) =>
             received[b][i].seq < clientBox[b][j].seq
    BY <1>7 DEF IInv, ReceivedInOrder
  <2>2. b = c => received[b][i].seq < seq
    BY <1>6, <2>1
  <2>3. SentNow(b, received[b][i].seq)
    BY <1>5, <2>1
  <2> QED
    BY <1>8, <2>1, <2>2, <2>3
<1>15. AcksFollowData'
  <2> SUFFICES ASSUME NEW i \in DOMAIN inbox,
                      inbox[i].flag = FlagRR, ~inbox[i].garbled
               PROVE  \E j \in DOMAIN children' :
                        children'[j].server = inbox[i].from /\ inbox[i].seq < children'[j].seq
    BY <1>1 DEF AcksFollowData
  <2>1. PICK j \in DOMAIN children :
          children[j].server = inbox[i].from /\ inbox[i].seq < children[j].seq
    BY DEF IInv, AcksFollowData
  <2>2. inbox[i].seq \in Nat
    BY <1>0, Numbers
  <2>3. inbox[i].seq < children'[j].seq
    BY <1>0, <1>2, <2>1, <2>2
  <2> QED
    BY <1>2, <2>1, <2>3
<1> QED
  BY <1>10, <1>11, <1>12, <1>13, <1>14, <1>15 DEF IInv

\* Recv: the packet that sets a child going cannot be its client's, which has sent
\* none since the child was forked.
LEMMA RecvStep ==
    ASSUME IInv, TypeOK', NEW k \in DOMAIN children, Recv(k)
    PROVE  IInv'
<1> DEFINE c == children[k].server
<1>0. /\ TypeOK /\ children \in Seq(Child) /\ c \in Clients
      /\ \A j \in DOMAIN children : children[j] \in Child
  BY ChildAt DEF IInv, TypeOK
<1>1. /\ inbox # << >> /\ inbox' = Tail(inbox)
      /\ UNCHANGED <<client, clientBox, received>>
  BY DEF Recv, clientVars
<1>2. /\ Shrinks(inbox, inbox')
      /\ 1 \in DOMAIN inbox /\ Head(inbox) = inbox[1]
      /\ Head(inbox).from \in Clients
  BY <1>0, <1>1, InboxHead DEF ClientPacket
<1>3. /\ DOMAIN children' = DOMAIN children
      /\ \A j \in DOMAIN children :
           /\ children'[j].server = children[j].server
           /\ children'[j].file = children[j].file
           /\ children'[j].misread = children[j].misread
           /\ children'[j].seq = children[j].seq
           /\ j # k => children'[j] = children[j]
      /\ children'[k].firstTaken = IF children[k].firstTaken = NoClient
                                   THEN Head(inbox).from ELSE children[k].firstTaken
  BY <1>0 DEF Recv, Child
<1>4. ASSUME children[k].firstTaken = NoClient PROVE Head(inbox).from # c
  <2>1. children[k].seq = 0
    <3>1. children[k].seq \in Nat /\ ~(children[k].seq > 0)
      BY <1>0, <1>4 DEF IInv, FirstTaken, Child
    <3> QED
      BY <3>1
  <2>2. ~Sent(c, 0)
    BY <2>1 DEF IInv, OneChild, Sent
  <2>3. Reached(c)
    BY DEF Reached
  <2> QED
    BY <1>0, <1>2, <2>2, <2>3 DEF IInv, OneWord
<1>5. FirstTaken'
  <2>1. /\ children'[k].firstTaken # children[k].server
        /\ children'[k].firstTaken # NoClient
    BY <1>2, <1>3, <1>4, RcopyAssumption DEF IInv, FirstTaken
  <2> QED
    BY <1>3, <2>1 DEF IInv, FirstTaken
<1>6. ChildrenKeep
  BY <1>3 DEF ChildrenKeep
<1> QED
  BY <1>0, <1>1, <1>2, <1>5, <1>6, Same, Quiet

LEMMA InvInit == Init => IInv
<1> SUFFICES ASSUME Init PROVE IInv
  OBVIOUS
<1>1. TypeOK
  BY TypeInit
<1>2. /\ DOMAIN inbox = {} /\ DOMAIN children = {}
      /\ \A c \in Clients : DOMAIN clientBox[c] = {} /\ DOMAIN received[c] = {}
  BY DEF Init
<1> QED
  BY <1>1, <1>2
  DEF IInv, OneChild, OneWord, FirstTaken, BoxInOrder, ReceivedInOrder,
      AcksFollowData, Reached

LEMMA InvStep == IInv /\ [Next]_vars => IInv'
<1> SUFFICES ASSUME IInv, [Next]_vars PROVE IInv'
  OBVIOUS
<1>0. /\ TypeOK /\ TypeOK'
      /\ client \in [Clients -> {"start", "connected", "loop", "done", "crashed"}]
      /\ clientBox \in [Clients -> Seq(ServerPacket)]
  BY TypeStep DEF IInv, TypeOK
<1>1. ASSUME NEW c \in Clients, ClientStep(c) PROVE IInv'
  <2>1. CASE connectBuf(c)
    BY <1>0, <2>1, ConnectStep
  <2>2. CASE Timeout(c)
    <3>1. /\ \A b \in Clients : client'[b] = "start" => client[b] = "start"
          /\ UNCHANGED <<inbox, children, clientBox, received>>
      BY <1>0, <2>2 DEF Timeout, serverVars
    <3> QED
      BY <1>0, <3>1, ChildrenUnchanged, Same, Quiet
  <2>3. ASSUME clientBox[c] # << >>,
               clientBox' = [clientBox EXCEPT ![c] = Tail(@)],
               \A b \in Clients : client'[b] = "start" => client[b] = "start",
               UNCHANGED <<inbox, children, received>>
        PROVE  IInv'
    <3>1. \A b \in Clients : DataShrinks(clientBox[b], clientBox'[b])
      <4> SUFFICES ASSUME NEW b \in Clients PROVE DataShrinks(clientBox[b], clientBox'[b])
        OBVIOUS
      <4>1. CASE b = c
        <5>1. clientBox'[b] = Tail(clientBox[c])
          BY <1>0, <2>3, <4>1
        <5>2. \A i \in DOMAIN Tail(clientBox[c]) :
                /\ i + 1 \in DOMAIN clientBox[c]
                /\ Tail(clientBox[c])[i] = clientBox[c][i + 1]
          BY <1>0, <2>3, BoxHead
        <5> QED
          BY <4>1, <5>1, <5>2 DEF DataShrinks
      <4>2. CASE b # c
        <5>1. clientBox'[b] = clientBox[b]
          BY <1>0, <2>3, <4>2
        <5> QED
          BY <1>0, <5>1, Same
      <4> QED
        BY <4>1, <4>2
    <3> QED
      BY <1>0, <2>3, <3>1, ChildrenUnchanged, Same, Quiet
  <2>4. CASE CrashOnFirst(c)
    BY <1>0, <2>3, <2>4 DEF CrashOnFirst, serverVars
  <2>5. CASE talkToServer(c)
    <3>1. CASE IsData(Head(clientBox[c]))
      BY <1>0, <2>5, <3>1, DataStep
    <3>2. CASE ~IsData(Head(clientBox[c]))
      BY <1>0, <2>3, <2>5, <3>2 DEF talkToServer, serverVars, IsData
    <3> QED
      BY <3>1, <3>2
  <2> QED
    BY <1>1, <2>1, <2>2, <2>4, <2>5 DEF ClientStep
<1>2. CASE processClient
  <2>1. CASE UNCHANGED children
    <3>1. /\ Shrinks(inbox, inbox')
          /\ UNCHANGED <<client, clientBox, received>>
      BY <1>0, <1>2, InboxHead DEF processClient, clientVars
    <3> QED
      BY <1>0, <2>1, <3>1, ChildrenUnchanged, Same, Quiet
  <2>2. CASE /\ Head(inbox).flag = FlagConnect
             /\ \E child \in NewChild(Head(inbox)) : children' = Append(children, child)
    BY <1>0, <1>2, <2>2, ForkStep
  <2> QED
    BY <1>2, <2>1, <2>2 DEF processClient
<1>3. CASE handleZombies \/ UNCHANGED vars
  <2>1. UNCHANGED <<inbox, children, client, clientBox, received>>
    BY <1>3 DEF handleZombies, clientVars, serverVars, vars
  <2> QED
    BY <1>0, <2>1, ChildrenUnchanged, Same, Quiet
<1>4. CASE gracefulClosing
  <2>1. /\ children' = [k \in DOMAIN children |-> [children[k] EXCEPT !.pc = "dead"]]
        /\ UNCHANGED <<inbox, client, clientBox, received>>
    BY <1>4 DEF gracefulClosing, clientVars
  <2>2. \A k \in DOMAIN children :
          /\ children'[k].server = children[k].server
          /\ children'[k].file = children[k].file
          /\ children'[k].misread = children[k].misread
          /\ children'[k].seq = children[k].seq
          /\ children'[k].firstTaken = children[k].firstTaken
          /\ children'[k].pc = "dead"
    <3>1. \A k \in DOMAIN children : children[k] \in Child
      BY <1>0, ChildAt
    <3> QED
      BY <2>1, <3>1 DEF Child
  <2>3. ChildrenKeep /\ FirstTaken'
    BY <2>1, <2>2 DEF IInv, FirstTaken, ChildrenKeep
  <2> QED
    BY <1>0, <2>1, <2>3, Same, Quiet
<1>5. ASSUME NEW k \in DOMAIN children, ChildStep(k) PROVE IInv'
  <2>1. CASE handleSend(k)
    <3>2. /\ Becomes(k, "poll") /\ ChildSends(k, FlagResponse, 0)
          /\ UNCHANGED <<inbox, client, received>>
      BY <2>1 DEF handleSend
    <3>3. ChildrenKeep /\ FirstTaken'
      BY <3>2, BecomesKeeps
    <3>4. \A c \in Clients : DataShrinks(clientBox[c], clientBox'[c])
      BY <1>0, <3>2, ResponseAdded
    <3> QED
      BY <1>0, <3>2, <3>3, <3>4, Same, Quiet
  <2>2. CASE PollReady(k) \/ PollTimeout(k) \/ EndOfFile(k) \/ Crash(k)
    <3>1. ChildrenKeep /\ FirstTaken'
      BY <2>2, BecomesKeeps DEF PollReady, PollTimeout, EndOfFile, Crash
    <3>2. UNCHANGED <<inbox, client, clientBox, received>>
      BY <2>2 DEF PollReady, PollTimeout, EndOfFile, Crash, clientVars
    <3> QED
      BY <1>0, <3>1, <3>2, Same, Quiet
  <2>3. CASE Recv(k)
    BY <1>0, <2>3, RecvStep
  <2>4. CASE SendBlock(k)
    BY <1>0, <2>4, SendStep
  <2> QED
    BY <1>5, <2>1, <2>2, <2>3, <2>4 DEF ChildStep
<1> QED
  BY <1>1, <1>2, <1>3, <1>4, <1>5 DEF Next, Parent, Waiting

LEMMA Invariance == Spec => []IInv
BY InvInit, InvStep, PTL DEF Spec

-----------------------------------------------------------------------------
(* What follows *)

\* Whatever packets a child takes off the shared socket, and whatever is dropped or
\* flipped, a client only gets blocks of its own file unless its connect packet was
\* flipped, and those with an intact number each at most once and in order.
THEOREM ClientsKeptApart == Spec => []KeepsToItsClient
<1>1. IInv => KeepsToItsClient
  BY DEF IInv, ReceivedInOrder, Misled, KeepsToItsClient
<1> QED
  BY <1>1, Invariance, PTL

\* Every intact acknowledgement on its way is for a block that was sent.
THEOREM AcksAreEarned == Spec => []AcksFollowData
<1>1. IInv => AcksFollowData
  BY DEF IInv
<1> QED
  BY <1>1, Invariance, PTL

\* No child sends a block before it has taken a packet of another client: a client
\* that is alone gets no data, however long it waits and whatever is lost.
THEOREM LoneClientGetsNothing == Spec => []FirstPacketIsForeign
<1>1. IInv => FirstPacketIsForeign
  <2> SUFFICES ASSUME IInv, NEW k \in DOMAIN children, children[k].seq > 0
               PROVE  children[k].firstTaken \in Clients \ {children[k].server}
    BY DEF FirstPacketIsForeign
  <2>1. children[k].firstTaken \in Clients \cup {NoClient}
    BY ChildAt DEF IInv, Child
  <2> QED
    BY <2>1 DEF IInv, FirstTaken
<1> QED
  BY <1>1, Invariance, PTL

-----------------------------------------------------------------------------
(* The error injection library *)

Fates == {"sent", "dropped", "flipped"}

ProcessType ==
    [rate : Rates, seed : Int, nextSeed : Int, initialised : BOOLEAN,
     standard : Seq({"dropListed", "info"}), random : Seq({"drop", "flip"}),
     msgNo : 0 .. Modulus - 1, history : Nat]

Types ==
    /\ env \in EnvironmentType /\ program \in Programs
    /\ process \in Seq(ProcessType) /\ process # << >>
    /\ fates \in Seq(Seq(Fates)) /\ Len(fates) = Len(process)

\* A program that forks never initialises its root; one that does not is a single
\* process.  A process sends nothing before it has initialised the library.
Roles ==
    /\ IF program.forks THEN ~process[1].initialised ELSE Len(process) = 1
    /\ \A p \in DOMAIN process :
         ~process[p].initialised => fates[p] = << >> /\ process[p].history = 0

\* The random events the environment alone asks for, and those a process has
\* once it has asked for its own.
Inherited == loadEnvData_ErrDrop_random \o loadEnvData_ErrFlip

Asked == setUserMode_ErrFlip(setUserMode_ErrDrop(Inherited))

LoadedRate == IF HasNumber(env.rate) THEN env.rate ELSE "never"

\* The settings of a process are those of the environment until sendErr_init, in
\* the root as in every child.
Settings ==
    \A p \in DOMAIN process :
        LET c == process[p] IN
        /\ c.rate = IF c.initialised THEN setUserMode_ErrRate(LoadedRate, program.rate)
                    ELSE LoadedRate
        /\ c.standard = IF c.initialised
                        THEN addMsgEvent_Standard(loadEnvData_ErrDrop_standard, "info")
                        ELSE loadEnvData_ErrDrop_standard
        /\ c.random = IF c.initialised THEN Asked ELSE Inherited
        /\ HasNumber(env.seed) => c.seed = env.seed

\* The root's next seed counts the processes.  A child's own is a step ahead of the
\* root's when it was forked, and becomes its seed.
Seeds ==
    program.forks =>
        /\ process[1].nextSeed = RANDOM_SEED + (Len(process) - 1)
        /\ \A p \in DOMAIN process \ {1} :
             IF process[p].initialised
             THEN ~HasNumber(env.seed) => process[p].seed = RANDOM_SEED + (p - 1)
             ELSE process[p].nextSeed = RANDOM_SEED + (p - 1)

\* A process numbers its packets as it sends them.
Numbered == \A p \in DOMAIN process : process[p].msgNo = Len(fates[p]) % Modulus

Unlisted(sent) == {i \in DOMAIN sent : (i % Modulus) \notin DropList}

Reported == \A p \in DOMAIN process : process[p].history = Cardinality(Unlisted(fates[p]))

LibraryInv == Types /\ Roles /\ Settings /\ Seeds /\ Numbered /\ DropsAsListed /\ Reported

-----------------------------------------------------------------------------
(* What the environment asks for *)

\* There is a list only if the variable is set.
LEMMA Lists ==
    ASSUME env \in EnvironmentType
    PROVE  /\ env.drop = Unset => ListOf(env.drop) = {}
           /\ env.flip = Unset => ListOf(env.flip) = {}
           /\ HasNumber(env.rate) => env.rate \in Rates
           /\ HasNumber(env.seed) => env.seed \in Int
BY EnvironmentAssumption DEF EnvironmentType, ListOf, HasNumber

LEMMA LoadedTypes ==
    ASSUME env \in EnvironmentType, NEW now \in Times
    PROVE  /\ Loaded(now) \in ProcessType
           /\ Loaded(now).rate = LoadedRate /\ Loaded(now).random = Inherited
           /\ Loaded(now).standard = loadEnvData_ErrDrop_standard
           /\ HasNumber(env.seed) => Loaded(now).seed = env.seed
           /\ Loaded(now).nextSeed = RANDOM_SEED /\ ~Loaded(now).initialised
           /\ Loaded(now).msgNo = 0 /\ Loaded(now).history = 0
<1>1. loadEnvData_ErrDrop_standard \in Seq({"dropListed", "info"})
  <2>1. << >> \in Seq({"dropListed", "info"}) /\ <<"dropListed">> \in Seq({"dropListed", "info"})
    OBVIOUS
  <2> QED
    BY <2>1 DEF loadEnvData_ErrDrop_standard
<1>2. Inherited \in Seq({"drop", "flip"})
  <2>1. /\ << >> \in Seq({"drop", "flip"}) /\ <<"drop">> \in Seq({"drop", "flip"})
        /\ <<"flip">> \in Seq({"drop", "flip"})
    OBVIOUS
  <2>2. /\ loadEnvData_ErrDrop_random \in Seq({"drop", "flip"})
        /\ loadEnvData_ErrFlip \in Seq({"drop", "flip"})
    BY <2>1 DEF loadEnvData_ErrDrop_random, loadEnvData_ErrFlip
  <2> QED
    BY <2>2, ConcatAt DEF Inherited
<1>3. LoadedRate \in Rates
  BY Lists DEF LoadedRate, Rates
<1>4. now \in Int /\ Modulus \in Nat \ {0} /\ RANDOM_SEED \in Int
  BY EnvironmentAssumption DEF RANDOM_SEED
<1>5. (IF HasNumber(env.seed) THEN env.seed ELSE now) \in Int
  BY <1>4, Lists
<1>6. Loaded(now) =
        [rate |-> LoadedRate, seed |-> IF HasNumber(env.seed) THEN env.seed ELSE now,
         nextSeed |-> RANDOM_SEED, standard |-> loadEnvData_ErrDrop_standard,
         random |-> Inherited, initialised |-> FALSE, msgNo |-> 0, history |-> 0]
  BY DEF Loaded, LoadedRate, Inherited
<1>7. 0 \in 0 .. Modulus - 1 /\ 0 \in Nat
  BY <1>4
<1> HIDE DEF LoadedRate, Inherited
<1>8. Loaded(now) \in ProcessType
  BY <1>1, <1>2, <1>3, <1>4, <1>5, <1>6, <1>7 DEF ProcessType
<1> QED
  BY <1>6, <1>8

\* Two events in a list.
LEMMA TwoEvents ==
    ASSUME NEW x, NEW y
    PROVE  Append(<<x>>, y) = <<x, y>> /\ <<x>> \o <<y>> = <<x, y>>
<1> PICK S : S = {x, y}
  OBVIOUS
<1>1. <<x>> \in Seq(S) /\ <<y>> \in Seq(S) /\ <<x, y>> \in Seq(S)
  OBVIOUS
<1>2. /\ Len(<<x>>) = 1 /\ Len(<<y>>) = 1 /\ Len(<<x, y>>) = 2
      /\ <<x>>[1] = x /\ <<y>>[1] = y /\ <<x, y>>[1] = x /\ <<x, y>>[2] = y
  OBVIOUS
<1>3. PICK s \in Seq(S), t \in Seq(S), u \in Seq(S) : s = <<x>> /\ t = <<y>> /\ u = <<x, y>>
  BY <1>1
<1>4. /\ Len(s) = 1 /\ Len(t) = 1 /\ Len(u) = 2
      /\ s[1] = x /\ t[1] = y /\ u[1] = x /\ u[2] = y
  BY <1>2, <1>3
<1>5. s \o t = u
  <2>1. /\ s \o t \in Seq(S) /\ Len(s \o t) = Len(s) + Len(t)
        /\ \A i \in 1 .. Len(s) : (s \o t)[i] = s[i]
        /\ \A j \in 1 .. Len(t) : (s \o t)[Len(s) + j] = t[j]
    BY ConcatAt
  <2>2. (s \o t)[1] = x /\ (s \o t)[2] = y
    <3>1. (s \o t)[1] = s[1] /\ (s \o t)[Len(s) + 1] = t[1]
      BY <1>4, <2>1
    <3>2. Len(s) + 1 = 2
      BY <1>4
    <3> QED
      BY <1>4, <3>1, <3>2
  <2>3. Len(s \o t) = Len(u) /\ \A i \in 1 .. Len(s \o t) : (s \o t)[i] = u[i]
    <3>1. Len(s \o t) = 2
      BY <1>4, <2>1
    <3>2. \A i \in 1 .. 2 : i = 1 \/ i = 2
      OBVIOUS
    <3> QED
      BY <1>4, <2>2, <3>1, <3>2
  <2> QED
    BY <2>1, <2>3, SeqEqual
<1>6. Append(s, y) = s \o <<y>>
  BY AppendIsConcat
<1> QED
  BY <1>3, <1>5, <1>6

\* Which errors are random once a process has asked for its own: one for which the
\* environment has a list is not, and any other is, once.
LEMMA AskedOnce ==
    ASSUME env \in EnvironmentType
    PROVE  /\ Asked \in Seq({"drop", "flip"})
           /\ LET Places(error) == {i \in DOMAIN Asked : Asked[i] = error} IN
              /\ IF ListOf(env.drop) # {} THEN Places("drop") = {}
                 ELSE \E i \in Places("drop") : Places("drop") = {i}
              /\ IF ListOf(env.flip) # {} THEN Places("flip") = {}
                 ELSE \E i \in Places("flip") : Places("flip") = {i}
<1> DEFINE Places(error) == {i \in DOMAIN Asked : Asked[i] = error}
<1>1. /\ env.drop = Unset => ListOf(env.drop) = {}
      /\ env.flip = Unset => ListOf(env.flip) = {}
  BY Lists
<1>2. /\ << >> \o << >> = << >> /\ <<"drop">> \o << >> = <<"drop">>
      /\ << >> \o <<"flip">> = <<"flip">> /\ <<"drop">> \o <<"flip">> = <<"drop", "flip">>
  <2>1. <<"drop">> \o <<"flip">> = <<"drop", "flip">>
    BY TwoEvents
  <2> QED
    BY <2>1
<1>3. /\ Append(<< >>, "drop") = <<"drop">> /\ Append(<< >>, "flip") = <<"flip">>
      /\ Append(<<"drop">>, "flip") = <<"drop", "flip">>
      /\ Append(<<"flip">>, "drop") = <<"flip", "drop">>
  <2>1. Append(<<"drop">>, "flip") = <<"drop", "flip">>
    BY TwoEvents
  <2>2. Append(<<"flip">>, "drop") = <<"flip", "drop">>
    BY TwoEvents
  <2> QED
    BY <2>1, <2>2
<1>4. CASE ListOf(env.drop) # {} /\ ListOf(env.flip) # {}
  <2>1. Asked = << >>
    BY <1>1, <1>2, <1>3, <1>4 DEF Asked, Inherited, DropList, setUserMode_ErrFlip, setUserMode_ErrDrop,
       loadEnvData_ErrDrop_random, loadEnvData_ErrFlip
  <2> QED
    BY <1>4, <2>1
<1>5. CASE ListOf(env.drop) # {} /\ ListOf(env.flip) = {}
  <2>1. Asked = <<"flip">>
    BY <1>1, <1>2, <1>3, <1>5 DEF Asked, Inherited, DropList, setUserMode_ErrFlip, setUserMode_ErrDrop,
       loadEnvData_ErrDrop_random, loadEnvData_ErrFlip
  <2>2. Places("flip") = {1} /\ Places("drop") = {} /\ Asked \in Seq({"drop", "flip"})
    BY <2>1
  <2> QED
    BY <1>5, <2>2
<1>6. CASE ListOf(env.drop) = {} /\ ListOf(env.flip) # {}
  <2>1. Asked = <<"drop">>
    BY <1>1, <1>2, <1>3, <1>6 DEF Asked, Inherited, DropList, setUserMode_ErrFlip, setUserMode_ErrDrop,
       loadEnvData_ErrDrop_random, loadEnvData_ErrFlip
  <2>2. Places("drop") = {1} /\ Places("flip") = {} /\ Asked \in Seq({"drop", "flip"})
    BY <2>1
  <2> QED
    BY <1>6, <2>2
<1>7. CASE ListOf(env.drop) = {} /\ ListOf(env.flip) = {}
  \* A drop the program asks for comes after a flip the environment asks for.
  <2>1. Asked = <<"drop", "flip">> \/ Asked = <<"flip", "drop">>
    BY <1>1, <1>2, <1>3, <1>7 DEF Asked, Inherited, DropList, setUserMode_ErrFlip, setUserMode_ErrDrop,
       loadEnvData_ErrDrop_random, loadEnvData_ErrFlip
  <2>2. CASE Asked = <<"drop", "flip">>
    <3>1. Places("drop") = {1} /\ Places("flip") = {2} /\ Asked \in Seq({"drop", "flip"})
      BY <2>2
    <3> QED
      BY <1>7, <3>1
  <2>3. CASE Asked = <<"flip", "drop">>
    <3>1. Places("drop") = {2} /\ Places("flip") = {1} /\ Asked \in Seq({"drop", "flip"})
      BY <2>3
    <3> QED
      BY <1>7, <3>1
  <2> QED
    BY <2>1, <2>2, <2>3
<1> QED
  BY <1>4, <1>5, <1>6, <1>7

-----------------------------------------------------------------------------
(* What each action does to the processes *)

\* Numbers as they wrap.
LEMMA Wraps ==
    ASSUME NEW M \in Nat \ {0}, NEW n \in Nat
    PROVE  n % M \in 0 .. M - 1 /\ ((n % M) + 1) % M = (n + 1) % M
<1>1. n \div M \in Nat
  OBVIOUS
<1>2. n % M \in 0 .. M - 1
  OBVIOUS
<1>3. n = (n \div M) * M + (n % M)
  OBVIOUS
<1>4. PICK q \in Nat : q = n \div M
  BY <1>1
<1>5. PICK r \in 0 .. M - 1 : r = n % M
  BY <1>2
<1>6. n = q * M + r
  BY <1>3, <1>4, <1>5
<1>7. CASE r + 1 < M
  <2>1. PICK s \in 0 .. M - 1 : s = r + 1
    BY <1>7
  <2>2. (q * M + s) % M = s
    OBVIOUS
  <2>3. s % M = s
    OBVIOUS
  <2>4. n + 1 = q * M + s
    BY <1>6, <2>1
  <2> QED
    BY <1>2, <1>5, <2>1, <2>2, <2>3, <2>4
<1>8. CASE r + 1 = M
  <2>1. ((q + 1) * M) % M = 0
    OBVIOUS
  <2>2. M % M = 0
    OBVIOUS
  <2>3. n + 1 = (q + 1) * M
    BY <1>6, <1>8
  <2> QED
    BY <1>2, <1>5, <1>8, <2>1, <2>2, <2>3
<1>9. r + 1 < M \/ r + 1 = M
  OBVIOUS
<1> QED
  BY <1>2, <1>7, <1>8, <1>9

LEMMA NextNumber ==
    ASSUME NEW n \in Nat
    PROVE  /\ n % Modulus \in 0 .. Modulus - 1 /\ (n + 1) % Modulus \in 0 .. Modulus - 1
           /\ ((n % Modulus) + 1) % Modulus = (n + 1) % Modulus
<1>1. Modulus \in Nat \ {0} /\ n + 1 \in Nat
  BY EnvironmentAssumption
<1> QED
  BY <1>1, Wraps

LEMMA EnvironmentStays ==
    ASSUME env' = env, program' = program
    PROVE  /\ (loadEnvData_ErrDrop_standard)' = loadEnvData_ErrDrop_standard
           /\ Inherited' = Inherited /\ Asked' = Asked /\ LoadedRate' = LoadedRate
           /\ DropList' = DropList
BY DEF loadEnvData_ErrDrop_standard, loadEnvData_ErrDrop_random, loadEnvData_ErrFlip, Inherited,
   Asked, LoadedRate, DropList, setUserMode_ErrFlip, setUserMode_ErrDrop

\* A child is the root as it was, but for its seed; of the root only the next
\* seed changes.
LEMMA ForkFlow ==
    ASSUME Types, forkMod
    PROVE  /\ Types' /\ program.forks /\ env' = env /\ program' = program
           /\ Len(process') = Len(process) + 1 /\ 1 \in DOMAIN process
           /\ DOMAIN process = 1 .. Len(process) /\ DOMAIN process' = 1 .. Len(process) + 1
           /\ \A p \in DOMAIN process : fates'[p] = fates[p] /\ (p # 1 => process'[p] = process[p])
           /\ process'[1] = [process[1] EXCEPT !.nextSeed = @ + 1]
           /\ fates'[Len(process) + 1] = << >>
           /\ process'[Len(process) + 1] =
                [process[1] EXCEPT !.nextSeed = @ + 1,
                                   !.seed = setUserMode_SeedRand(@, process[1].nextSeed)]
<1> DEFINE root == [process[1] EXCEPT !.nextSeed = @ + 1]
           child == [root EXCEPT !.seed = setUserMode_SeedRand(@, process[1].nextSeed)]
           older == [process EXCEPT ![1] = root]
<1>1. /\ env \in EnvironmentType /\ program \in Programs
      /\ process \in Seq(ProcessType) /\ Len(process) \in Nat /\ DOMAIN process = 1 .. Len(process)
      /\ fates \in Seq(Seq(Fates)) /\ Len(fates) = Len(process) /\ DOMAIN fates = 1 .. Len(process)
  BY DEF Types
<1>2. 1 \in DOMAIN process /\ process[1] \in ProcessType
  BY HeadOf DEF Types
<1>3. /\ program.forks /\ env' = env /\ program' = program
      /\ process' = Append(older, child) /\ fates' = Append(fates, << >>)
  BY DEF forkMod
<1>4. PICK c \in ProcessType : c = process[1]
  BY <1>2
<1>5. /\ c.nextSeed \in Int /\ c.nextSeed + 1 \in Int /\ c.seed \in Int
      /\ setUserMode_SeedRand(c.seed, c.nextSeed) \in Int
  BY DEF ProcessType, setUserMode_SeedRand
<1>6. root \in ProcessType /\ root = [c EXCEPT !.nextSeed = @ + 1]
  BY <1>4, <1>5 DEF ProcessType
<1>7. child = [c EXCEPT !.nextSeed = @ + 1, !.seed = setUserMode_SeedRand(@, c.nextSeed)]
  BY <1>4, <1>5 DEF ProcessType
<1>8. child \in ProcessType
  BY <1>5, <1>7 DEF ProcessType
<1> HIDE DEF root, child
<1>9. /\ older \in Seq(ProcessType) /\ Len(older) = Len(process)
      /\ older[1] = root /\ \A p \in DOMAIN process : p # 1 => older[p] = process[p]
  BY <1>1, <1>2, <1>6
<1> HIDE DEF older
<1>10. /\ process' \in Seq(ProcessType) /\ Len(process') = Len(process) + 1
       /\ DOMAIN process' = 1 .. Len(process) + 1
       /\ \A p \in DOMAIN process : process'[p] = older[p]
       /\ process'[Len(process) + 1] = child
  <2>1. DOMAIN older = DOMAIN process
    BY <1>1, <1>9
  <2> QED
    BY <1>3, <1>8, <1>9, <2>1, LastOf
<1>11. /\ fates' \in Seq(Seq(Fates)) /\ Len(fates') = Len(process) + 1
       /\ \A p \in DOMAIN process : fates'[p] = fates[p]
       /\ fates'[Len(process) + 1] = << >>
  <2>1. << >> \in Seq(Fates)
    OBVIOUS
  <2> QED
    BY <1>1, <1>3, <2>1, LastOf
<1>12. process' # << >>
  BY <1>1, <1>10
<1>13. Types'
  BY <1>1, <1>3, <1>10, <1>11, <1>12 DEF Types
<1>14. process'[1] = root
  BY <1>2, <1>9, <1>10
<1> QED
  BY <1>1, <1>2, <1>3, <1>4, <1>6, <1>7, <1>9, <1>10, <1>11, <1>13, <1>14

\* A process initialises the library once, and only its own copy.
LEMMA InitialiseFlow ==
    ASSUME Types, NEW p \in DOMAIN process, sendErr_init(p)
    PROVE  /\ Types' /\ env' = env /\ program' = program /\ fates' = fates
           /\ DOMAIN process' = DOMAIN process /\ Len(process') = Len(process)
           /\ ~process[p].initialised /\ (program.forks => p # 1)
           /\ \A q \in DOMAIN process : q # p => process'[q] = process[q]
           /\ \E now \in Times : process'[p] = [process[p] EXCEPT
                !.initialised = TRUE,
                !.standard = addMsgEvent_Standard(@, "info"),
                !.rate = setUserMode_ErrRate(@, program.rate),
                !.random = setUserMode_ErrFlip(setUserMode_ErrDrop(@)),
                !.seed = setUserMode_SeedRand(@, IF program.random_flag THEN now
                                                 ELSE process[p].nextSeed),
                !.nextSeed = IF program.random_flag THEN now ELSE @ + 1]
<1>1. /\ env \in EnvironmentType /\ program \in Programs
      /\ process \in Seq(ProcessType) /\ Len(process) \in Nat /\ DOMAIN process = 1 .. Len(process)
      /\ fates \in Seq(Seq(Fates)) /\ Len(fates) = Len(process)
  BY DEF Types
<1>2. PICK c \in ProcessType : c = process[p]
  BY <1>1
<1>3. PICK now \in Times : process' = [process EXCEPT ![p] = [process[p] EXCEPT
            !.initialised = TRUE,
            !.standard = addMsgEvent_Standard(@, "info"),
            !.rate = setUserMode_ErrRate(@, program.rate),
            !.random = setUserMode_ErrFlip(setUserMode_ErrDrop(@)),
            !.seed = setUserMode_SeedRand(@, IF program.random_flag THEN now
                                             ELSE process[p].nextSeed),
            !.nextSeed = IF program.random_flag THEN now ELSE @ + 1]]
  BY DEF sendErr_init
<1> DEFINE d == [process[p] EXCEPT
            !.initialised = TRUE,
            !.standard = addMsgEvent_Standard(@, "info"),
            !.rate = setUserMode_ErrRate(@, program.rate),
            !.random = setUserMode_ErrFlip(setUserMode_ErrDrop(@)),
            !.seed = setUserMode_SeedRand(@, IF program.random_flag THEN now
                                             ELSE process[p].nextSeed),
            !.nextSeed = IF program.random_flag THEN now ELSE @ + 1]
<1>4. process' = [process EXCEPT ![p] = d]
  BY <1>3
<1>5. /\ addMsgEvent_Standard(c.standard, "info") \in Seq({"dropListed", "info"})
      /\ setUserMode_ErrFlip(setUserMode_ErrDrop(c.random)) \in Seq({"drop", "flip"})
  <2>1. c.standard \in Seq({"dropListed", "info"}) /\ c.random \in Seq({"drop", "flip"})
    BY DEF ProcessType
  <2>2. addMsgEvent_Standard(c.standard, "info") \in Seq({"dropListed", "info"})
    BY <2>1, LastOf DEF addMsgEvent_Standard
  <2>3. PICK u \in Seq({"drop", "flip"}) : u = setUserMode_ErrDrop(c.random)
    BY <2>1, LastOf DEF setUserMode_ErrDrop
  <2>4. setUserMode_ErrFlip(u) \in Seq({"drop", "flip"})
    BY <2>3, LastOf DEF setUserMode_ErrFlip
  <2> QED
    BY <2>2, <2>3, <2>4
<1>6. setUserMode_ErrRate(c.rate, program.rate) \in Rates
  <2>1. program.rate \in Rates
    BY <1>1 DEF Programs, Rates
  <2>2. c.rate \in Rates
    BY DEF ProcessType
  <2> QED
    BY <2>1, <2>2 DEF setUserMode_ErrRate
<1>7. now \in Int /\ c.nextSeed \in Int /\ c.nextSeed + 1 \in Int /\ c.seed \in Int
  BY EnvironmentAssumption DEF ProcessType
<1>8. setUserMode_SeedRand(c.seed, IF program.random_flag THEN now ELSE c.nextSeed) \in Int
  BY <1>7 DEF setUserMode_SeedRand
<1>9. d \in ProcessType
  BY <1>2, <1>5, <1>6, <1>7, <1>8 DEF ProcessType
<1> HIDE DEF d
<1>10. /\ process' \in Seq(ProcessType) /\ Len(process') = Len(process)
       /\ DOMAIN process' = DOMAIN process /\ process'[p] = d
       /\ \A q \in DOMAIN process : q # p => process'[q] = process[q]
  BY <1>1, <1>4, <1>9
<1>11. env' = env /\ program' = program /\ fates' = fates
  BY DEF sendErr_init
<1>12. process' # << >>
  BY <1>1, <1>10
<1>13. Types'
  BY <1>1, <1>10, <1>11, <1>12 DEF Types
<1>14. ~process[p].initialised /\ (program.forks => p # 1)
  BY DEF sendErr_init
<1> QED
  BY <1>2, <1>10, <1>11, <1>13, <1>14 DEF d

\* A packet gets the next number and one fate, and only the sender knows of it.
LEMMA SendFlow ==
    ASSUME Types, NEW p \in DOMAIN process, sendtoErr(p)
    PROVE  LET n == (process[p].msgNo + 1) % Modulus IN
           /\ Types' /\ env' = env /\ program' = program
           /\ DOMAIN process' = DOMAIN process /\ Len(process') = Len(process)
           /\ process[p].initialised
           /\ \A q \in DOMAIN process : q # p => process'[q] = process[q] /\ fates'[q] = fates[q]
           /\ process'[p] = [process[p] EXCEPT !.msgNo = n,
                !.history = IF Counted(process[p].standard, n) THEN @ + 1 ELSE @]
           /\ \E event \in RandomEvents(process[p]) :
                /\ processEvents(process[p], n, event) \in Fates
                /\ fates'[p] = Append(fates[p], processEvents(process[p], n, event))
<1> DEFINE n == (process[p].msgNo + 1) % Modulus
<1>1. /\ env \in EnvironmentType /\ program \in Programs
      /\ process \in Seq(ProcessType) /\ Len(process) \in Nat /\ DOMAIN process = 1 .. Len(process)
      /\ fates \in Seq(Seq(Fates)) /\ Len(fates) = Len(process) /\ DOMAIN fates = 1 .. Len(process)
  BY DEF Types
<1>2. PICK c \in ProcessType : c = process[p]
  BY <1>1
<1>3. n \in 0 .. Modulus - 1
  <2>1. c.msgNo \in Nat
    <3>1. c.msgNo \in 0 .. Modulus - 1 /\ Modulus \in Nat \ {0}
      BY EnvironmentAssumption DEF ProcessType
    <3> QED
      BY <3>1
  <2> QED
    BY <1>2, <2>1, NextNumber
<1>4. PICK event \in RandomEvents(process[p]) :
        fates' = [fates EXCEPT ![p] = Append(@, processEvents(process[p], n, event))]
  BY DEF sendtoErr
<1> DEFINE d == [process[p] EXCEPT !.msgNo = n,
                          !.history = IF Counted(process[p].standard, n) THEN @ + 1 ELSE @]
           fate == processEvents(process[p], n, event)
<1>5. process' = [process EXCEPT ![p] = d]
  BY DEF sendtoErr
<1>6. /\ env' = env /\ program' = program /\ process[p].initialised
  BY DEF sendtoErr
<1> HIDE DEF n
<1>7. d \in ProcessType
  <2>1. c.history \in Nat /\ c.history + 1 \in Nat
    BY DEF ProcessType
  <2>2. PICK h \in Nat : h = IF Counted(c.standard, n) THEN c.history + 1 ELSE c.history
    BY <2>1
  <2>3. d = [c EXCEPT !.msgNo = n, !.history = h]
    BY <1>2, <2>2
  <2> QED
    BY <1>3, <2>3 DEF ProcessType
<1>8. fate \in Fates
  <2>1. event \in {"drop", "flip", "none"}
    <3>1. c.random \in Seq({"drop", "flip"})
      BY DEF ProcessType
    <3>2. \A i \in DOMAIN c.random : c.random[i] \in {"drop", "flip"}
      BY <3>1
    <3> QED
      BY <1>2, <3>2 DEF RandomEvents
  <2> QED
    BY <2>1 DEF processEvents, Fates
<1> HIDE DEF d, fate
<1>9. /\ process' \in Seq(ProcessType) /\ Len(process') = Len(process)
      /\ DOMAIN process' = DOMAIN process /\ process'[p] = d
      /\ \A q \in DOMAIN process : q # p => process'[q] = process[q]
  BY <1>1, <1>5, <1>7
<1>10. PICK f \in Seq(Fates) : f = fates[p]
  BY <1>1
<1>11. Append(f, fate) \in Seq(Fates)
  BY <1>8, LastOf
<1>12. /\ fates' \in Seq(Seq(Fates)) /\ Len(fates') = Len(fates)
       /\ fates'[p] = Append(f, fate)
       /\ \A q \in DOMAIN process : q # p => fates'[q] = fates[q]
  <2>1. fates' = [fates EXCEPT ![p] = Append(f, fate)]
    BY <1>4, <1>10 DEF fate
  <2> QED
    BY <1>1, <1>11, <2>1
<1>13. process' # << >>
  BY <1>1, <1>9
<1>14. Types'
  BY <1>1, <1>6, <1>9, <1>12, <1>13 DEF Types
<1> QED
  BY <1>2, <1>6, <1>8, <1>9, <1>10, <1>12, <1>14 DEF n, d, fate

-----------------------------------------------------------------------------
(* What becomes of a packet *)

\* The environment's events come before infoSeqNo, so a packet the list names is
\* dropped and not counted; only a random event can take another.
LEMMA ListDecides ==
    ASSUME env \in EnvironmentType, NEW c \in ProcessType, NEW n, NEW event \in RandomEvents(c),
           c.standard = addMsgEvent_Standard(loadEnvData_ErrDrop_standard, "info")
    PROVE  /\ Counted(c.standard, n) <=> n \notin DropList
           /\ n \in DropList => processEvents(c, n, event) = "dropped"
           /\ \/ n \in DropList \/ (c.rate # "never" /\ c.random # << >>)
              \/ processEvents(c, n, event) = "sent"
<1>1. env.drop = Unset => DropList = {}
  BY Lists DEF DropList
<1>2. event = "none" \/ (c.rate # "never" /\ c.random # << >>)
  <2>1. \/ (\E i \in DOMAIN c.random : event = c.random[i]) /\ c.rate # "never"
        \/ event = "none"
    BY DEF RandomEvents
  <2>2. c.random = << >> => ~\E i \in DOMAIN c.random : TRUE
    OBVIOUS
  <2> QED
    BY <2>1, <2>2
<1>3. event \in {"drop", "flip", "none"}
  <2>1. c.random \in Seq({"drop", "flip"})
    BY DEF ProcessType
  <2>2. \A i \in DOMAIN c.random : c.random[i] \in {"drop", "flip"}
    BY <2>1
  <2> QED
    BY <2>2 DEF RandomEvents
<1>4. CASE DropList = {}
  <2>1. c.standard = <<"info">>
    <3>1. Append(<< >>, "info") = <<"info">>
      OBVIOUS
    <3> QED
      BY <1>4, <3>1 DEF addMsgEvent_Standard, loadEnvData_ErrDrop_standard
  <2>2. DOMAIN c.standard = {1} /\ c.standard[1] = "info"
    BY <2>1
  <2>3. ~DroppedAsListed(c.standard, n)
    BY <2>2 DEF DroppedAsListed, Drops
  <2>4. Counted(c.standard, n)
    <3>1. \A j \in 1 .. 1 - 1 : ~Drops(c.standard, j, n)
      OBVIOUS
    <3> QED
      BY <2>2, <3>1 DEF Counted
  <2> QED
    BY <1>2, <1>3, <1>4, <2>3, <2>4 DEF processEvents
<1>5. CASE DropList # {}
  <2>1. c.standard = <<"dropListed", "info">>
    <3>1. Append(<<"dropListed">>, "info") = <<"dropListed", "info">>
      BY TwoEvents
    <3> QED
      BY <1>1, <1>5, <3>1 DEF addMsgEvent_Standard, loadEnvData_ErrDrop_standard
  <2>2. DOMAIN c.standard = {1, 2} /\ c.standard[1] = "dropListed" /\ c.standard[2] = "info"
    BY <2>1
  <2>3. /\ Drops(c.standard, 1, n) <=> n \in DropList
        /\ ~Drops(c.standard, 2, n)
    BY <2>2 DEF Drops
  <2>4. DroppedAsListed(c.standard, n) <=> n \in DropList
    BY <2>2, <2>3 DEF DroppedAsListed
  <2>5. Counted(c.standard, n) <=> n \notin DropList
    <3>1. 1 .. 2 - 1 = {1}
      OBVIOUS
    <3>2. Counted(c.standard, n) <=> \A j \in 1 .. 2 - 1 : ~Drops(c.standard, j, n)
      BY <2>2 DEF Counted
    <3> QED
      BY <2>3, <3>1, <3>2
  <2> QED
    BY <1>2, <1>3, <2>4, <2>5 DEF processEvents
<1> QED
  BY <1>4, <1>5

\* A packet more makes one more of them that the list leaves alone, or none.
LEMMA OneMoreUnlisted ==
    ASSUME NEW sent \in Seq(Fates), NEW fate \in Fates,
           NEW n, n = (Len(sent) + 1) % Modulus
    PROVE  /\ Cardinality(Unlisted(sent)) \in Nat
           /\ Cardinality(Unlisted(Append(sent, fate))) =
                IF n \in DropList THEN Cardinality(Unlisted(sent))
                ELSE Cardinality(Unlisted(sent)) + 1
           /\ Cardinality(Unlisted(<< >>)) = 0
<1>1. /\ Len(sent) \in Nat /\ DOMAIN sent = 1 .. Len(sent)
      /\ DOMAIN Append(sent, fate) = 1 .. Len(sent) + 1
  BY LastOf
<1>2. IsFiniteSet(Unlisted(sent))
  <2>1. IsFiniteSet(1 .. Len(sent))
    BY <1>1, FS_Interval
  <2>2. Unlisted(sent) \in SUBSET (1 .. Len(sent))
    BY <1>1 DEF Unlisted
  <2> QED
    BY <2>1, <2>2, FS_Subset
<1>3. 1 .. Len(sent) + 1 = (1 .. Len(sent)) \cup {Len(sent) + 1}
  BY <1>1
<1>4. Unlisted(Append(sent, fate)) =
        IF n \in DropList THEN Unlisted(sent) ELSE Unlisted(sent) \cup {Len(sent) + 1}
  BY <1>1, <1>3 DEF Unlisted
<1>5. Len(sent) + 1 \notin Unlisted(sent)
  BY <1>1 DEF Unlisted
<1>6. Cardinality(Unlisted(sent) \cup {Len(sent) + 1}) = Cardinality(Unlisted(sent)) + 1
  BY <1>2, <1>5, FS_AddElement
<1>7. Cardinality(Unlisted(sent)) \in Nat
  BY <1>2, FS_CardinalityType
<1>8. Unlisted(<< >>) = {}
  BY DEF Unlisted
<1> QED
  BY <1>4, <1>6, <1>7, <1>8, FS_EmptySet

-----------------------------------------------------------------------------
(* The invariant, one action at a time *)

LEMMA InitLibraryInv == LibraryInit => LibraryInv
<1> SUFFICES ASSUME LibraryInit PROVE LibraryInv
  OBVIOUS
<1>1. PICK now \in Times : process = <<Loaded(now)>>
  BY DEF LibraryInit
<1>2. env \in EnvironmentType /\ program \in Programs
  BY EnvironmentAssumption DEF LibraryInit
<1>3. /\ Loaded(now) \in ProcessType
      /\ Loaded(now).rate = LoadedRate /\ Loaded(now).random = Inherited
      /\ Loaded(now).standard = loadEnvData_ErrDrop_standard
      /\ HasNumber(env.seed) => Loaded(now).seed = env.seed
      /\ Loaded(now).nextSeed = RANDOM_SEED /\ ~Loaded(now).initialised
      /\ Loaded(now).msgNo = 0 /\ Loaded(now).history = 0
  BY <1>2, LoadedTypes
<1>4. PICK c \in ProcessType : c = Loaded(now)
  BY <1>3
<1>5. /\ process = <<c>> /\ process \in Seq(ProcessType) /\ Len(process) = 1
      /\ DOMAIN process = {1} /\ process[1] = c
  BY <1>1, <1>4
<1>6. /\ fates = << << >> >> /\ fates \in Seq(Seq(Fates)) /\ Len(fates) = 1 /\ fates[1] = << >>
  <2>1. << >> \in Seq(Fates)
    OBVIOUS
  <2>2. << << >> >> \in Seq(Seq(Fates))
    BY <2>1
  <2> QED
    BY <2>2 DEF LibraryInit
<1>7. Types
  BY <1>2, <1>5, <1>6 DEF Types
<1>8. Roles
  BY <1>3, <1>4, <1>5, <1>6 DEF Roles
<1>9. Settings
  BY <1>3, <1>4, <1>5 DEF Settings
<1>10. Seeds
  <2>1. RANDOM_SEED + (1 - 1) = RANDOM_SEED
    BY DEF RANDOM_SEED
  <2> QED
    BY <1>3, <1>4, <1>5, <2>1 DEF Seeds
<1>11. Numbered
  <2>1. Len(<< >>) = 0 /\ 0 % Modulus = 0
    BY EnvironmentAssumption
  <2> QED
    BY <1>3, <1>4, <1>5, <1>6, <2>1 DEF Numbered
<1>12. DropsAsListed
  BY <1>5, <1>6 DEF DropsAsListed
<1>13. Reported
  <2>1. Unlisted(<< >>) = {}
    BY DEF Unlisted
  <2> QED
    BY <1>3, <1>4, <1>5, <1>6, <2>1, FS_EmptySet DEF Reported
<1> QED
  BY <1>7, <1>8, <1>9, <1>10, <1>11, <1>12, <1>13 DEF LibraryInv

\* With one more process, a process is the root, the new child or another.
LEMMA OldOrNew ==
    ASSUME NEW n \in Nat
    PROVE  \A p \in 1 .. n + 1 : p = 1 \/ p = n + 1 \/ (p \in 1 .. n /\ p # 1)
<1>1. ASSUME NEW p \in 1 .. n + 1 PROVE p = 1 \/ p = n + 1 \/ (p \in 1 .. n /\ p # 1)
  OBVIOUS
<1> QED
  BY <1>1

LEMMA NextRoles ==
    ASSUME Types, Roles, LibraryNext
    PROVE  Types' /\ Roles'
<1>0. Types /\ 1 \in DOMAIN process /\ Len(process) \in Nat /\ DOMAIN process = 1 .. Len(process)
  BY HeadOf DEF Types
<1>1. CASE forkMod
  <2>1. /\ Types' /\ program.forks /\ program' = program
        /\ Len(process') = Len(process) + 1 /\ DOMAIN process' = 1 .. Len(process) + 1
        /\ \A p \in DOMAIN process : fates'[p] = fates[p] /\ (p # 1 => process'[p] = process[p])
        /\ process'[1] = [process[1] EXCEPT !.nextSeed = @ + 1]
        /\ fates'[Len(process) + 1] = << >>
        /\ process'[Len(process) + 1] =
             [process[1] EXCEPT !.nextSeed = @ + 1,
                                !.seed = setUserMode_SeedRand(@, process[1].nextSeed)]
    BY <1>1, ForkFlow
  <2>2. PICK c \in ProcessType : c = process[1]
    BY <1>0 DEF Types
  <2>3. ~c.initialised /\ fates[1] = << >> /\ c.history = 0
    BY <1>0, <2>1, <2>2 DEF Roles
  <2>4. /\ ~process'[1].initialised /\ process'[1].history = 0
        /\ ~process'[Len(process) + 1].initialised /\ process'[Len(process) + 1].history = 0
    BY <2>1, <2>2, <2>3 DEF ProcessType
  <2>5. ASSUME NEW p \in DOMAIN process', ~process'[p].initialised
        PROVE  fates'[p] = << >> /\ process'[p].history = 0
    <3>1. CASE (p \in DOMAIN process /\ p # 1)
      BY <2>1, <2>5, <3>1 DEF Roles
    <3>2. CASE p = 1
      BY <1>0, <2>1, <2>3, <2>4, <3>2
    <3>3. CASE p = Len(process) + 1
      BY <2>1, <2>4, <3>3
    <3>4. p = 1 \/ p = Len(process) + 1 \/ (p \in DOMAIN process /\ p # 1)
      BY <1>0, <2>1, OldOrNew
    <3> QED
      BY <3>1, <3>2, <3>3, <3>4
  <2> QED
    BY <2>1, <2>4, <2>5 DEF Roles
<1>2. ASSUME NEW p \in DOMAIN process, sendErr_init(p)
      PROVE  Types' /\ Roles'
  <2>1. /\ Types' /\ program' = program /\ fates' = fates
        /\ DOMAIN process' = DOMAIN process /\ Len(process') = Len(process)
        /\ (program.forks => p # 1)
        /\ \A q \in DOMAIN process : q # p => process'[q] = process[q]
    BY <1>2, InitialiseFlow
  <2>2. process'[p].initialised
    <3>1. PICK c \in ProcessType : c = process[p]
      BY <1>0 DEF Types
    <3>2. PICK now \in Times : process'[p] = [process[p] EXCEPT
                !.initialised = TRUE,
                !.standard = addMsgEvent_Standard(@, "info"),
                !.rate = setUserMode_ErrRate(@, program.rate),
                !.random = setUserMode_ErrFlip(setUserMode_ErrDrop(@)),
                !.seed = setUserMode_SeedRand(@, IF program.random_flag THEN now
                                                 ELSE process[p].nextSeed),
                !.nextSeed = IF program.random_flag THEN now ELSE @ + 1]
      BY <1>2, InitialiseFlow
    <3> QED
      BY <3>1, <3>2 DEF ProcessType
  <2> QED
    BY <1>0, <2>1, <2>2 DEF Roles
<1>3. ASSUME NEW p \in DOMAIN process, sendtoErr(p)
      PROVE  Types' /\ Roles'
  <2>1. /\ Types' /\ program' = program
        /\ DOMAIN process' = DOMAIN process /\ Len(process') = Len(process)
        /\ process[p].initialised
        /\ \A q \in DOMAIN process : q # p => process'[q] = process[q] /\ fates'[q] = fates[q]
    BY <1>3, SendFlow
  <2>2. process'[p].initialised
    <3>1. PICK c \in ProcessType : c = process[p]
      BY <1>0 DEF Types
    <3>2. PICK n, h : process'[p] = [process[p] EXCEPT !.msgNo = n, !.history = h]
      <4>1. process'[p] = [process[p] EXCEPT !.msgNo = (@ + 1) % Modulus,
              !.history = IF Counted(process[p].standard, (process[p].msgNo + 1) % Modulus)
                          THEN @ + 1 ELSE @]
        BY <1>3, SendFlow
      <4> QED
        BY <4>1
    <3> QED
      BY <2>1, <3>1, <3>2 DEF ProcessType
  <2>3. program.forks => p # 1
    BY <2>1 DEF Roles
  <2> QED
    BY <1>0, <2>1, <2>2, <2>3 DEF Roles
<1> QED
  BY <1>1, <1>2, <1>3 DEF LibraryNext

LEMMA NextSettings ==
    ASSUME Types, Roles, Settings, LibraryNext
    PROVE  Settings'
<1>0. Types /\ 1 \in DOMAIN process /\ Len(process) \in Nat /\ DOMAIN process = 1 .. Len(process)
  BY HeadOf DEF Types
<1> DEFINE Rate(c) == c.rate = IF c.initialised THEN setUserMode_ErrRate(LoadedRate, program.rate)
                               ELSE LoadedRate
           Standard(c) == c.standard = IF c.initialised
                            THEN addMsgEvent_Standard(loadEnvData_ErrDrop_standard, "info")
                            ELSE loadEnvData_ErrDrop_standard
           Random(c) == c.random = IF c.initialised THEN Asked ELSE Inherited
           Seed(c) == HasNumber(env.seed) => c.seed = env.seed
           Set(c) == Rate(c) /\ Standard(c) /\ Random(c) /\ Seed(c)
<1>1. \A p \in DOMAIN process : Set(process[p])
  BY DEF Settings
<1>2. ASSUME env' = env, program' = program, \A p \in DOMAIN process' : Set(process'[p])
      PROVE  Settings'
  <2>1. /\ (loadEnvData_ErrDrop_standard)' = loadEnvData_ErrDrop_standard
        /\ Inherited' = Inherited /\ Asked' = Asked /\ LoadedRate' = LoadedRate
    BY <1>2, EnvironmentStays
  <2> QED
    BY <1>2, <2>1 DEF Settings, setUserMode_ErrRate
<1>3. CASE forkMod
  <2>1. /\ program.forks /\ env' = env /\ program' = program
        /\ DOMAIN process' = 1 .. Len(process) + 1
        /\ \A p \in DOMAIN process : p # 1 => process'[p] = process[p]
        /\ process'[1] = [process[1] EXCEPT !.nextSeed = @ + 1]
        /\ process'[Len(process) + 1] =
             [process[1] EXCEPT !.nextSeed = @ + 1,
                                !.seed = setUserMode_SeedRand(@, process[1].nextSeed)]
    BY <1>3, ForkFlow
  <2>2. PICK c \in ProcessType : c = process[1]
    BY <1>0 DEF Types
  <2>3. Set(c)
    BY <1>0, <1>1, <2>2
  <2>4. Set(process'[1])
    BY <2>1, <2>2, <2>3 DEF ProcessType
  <2>5. Set(process'[Len(process) + 1])
    BY <2>1, <2>2, <2>3 DEF ProcessType, setUserMode_SeedRand
  <2>6. \A p \in DOMAIN process' : Set(process'[p])
    <3>1. \A p \in DOMAIN process' : p = 1 \/ p = Len(process) + 1 \/ (p \in DOMAIN process /\ p # 1)
      BY <1>0, <2>1, OldOrNew
    <3> HIDE DEF Set
    <3> QED
      BY <1>1, <2>1, <2>4, <2>5, <3>1
  <2> QED
    BY <1>2, <2>1, <2>6
<1>4. ASSUME NEW p \in DOMAIN process, sendErr_init(p)
      PROVE  Settings'
  <2>1. /\ env' = env /\ program' = program /\ DOMAIN process' = DOMAIN process
        /\ ~process[p].initialised
        /\ \A q \in DOMAIN process : q # p => process'[q] = process[q]
    BY <1>4, InitialiseFlow
  <2>2. PICK now \in Times : process'[p] = [process[p] EXCEPT
                !.initialised = TRUE,
                !.standard = addMsgEvent_Standard(@, "info"),
                !.rate = setUserMode_ErrRate(@, program.rate),
                !.random = setUserMode_ErrFlip(setUserMode_ErrDrop(@)),
                !.seed = setUserMode_SeedRand(@, IF program.random_flag THEN now
                                                 ELSE process[p].nextSeed),
                !.nextSeed = IF program.random_flag THEN now ELSE @ + 1]
    BY <1>4, InitialiseFlow
  <2>3. PICK c \in ProcessType : c = process[p]
    BY <1>0 DEF Types
  <2>4. PICK d : d = process'[p]
    OBVIOUS
  <2>5. /\ d.initialised /\ d.standard = addMsgEvent_Standard(c.standard, "info")
        /\ d.rate = setUserMode_ErrRate(c.rate, program.rate)
        /\ d.random = setUserMode_ErrFlip(setUserMode_ErrDrop(c.random))
        /\ HasNumber(env.seed) => d.seed = c.seed
    BY <2>2, <2>3, <2>4 DEF ProcessType, setUserMode_SeedRand
  <2>6. Set(c) /\ ~c.initialised
    BY <1>1, <2>1, <2>3
  <2>7. Set(d)
    BY <2>5, <2>6 DEF Asked
  <2>8. \A q \in DOMAIN process' : Set(process'[q])
    <3> HIDE DEF Set
    <3> QED
      BY <1>1, <2>1, <2>4, <2>7
  <2> QED
    BY <1>2, <2>1, <2>8
<1>5. ASSUME NEW p \in DOMAIN process, sendtoErr(p)
      PROVE  Settings'
  <2>1. /\ env' = env /\ program' = program /\ DOMAIN process' = DOMAIN process
        /\ \A q \in DOMAIN process : q # p => process'[q] = process[q]
    BY <1>5, SendFlow
  <2>2. PICK n, h : process'[p] = [process[p] EXCEPT !.msgNo = n, !.history = h]
    <3>1. process'[p] = [process[p] EXCEPT !.msgNo = (@ + 1) % Modulus,
            !.history = IF Counted(process[p].standard, (process[p].msgNo + 1) % Modulus)
                        THEN @ + 1 ELSE @]
      BY <1>5, SendFlow
    <3> QED
      BY <3>1
  <2>3. PICK c \in ProcessType : c = process[p]
    BY <1>0 DEF Types
  <2>4. Set(c)
    BY <1>1, <2>3
  <2>5. Set(process'[p])
    BY <2>2, <2>3, <2>4 DEF ProcessType
  <2>6. \A q \in DOMAIN process' : Set(process'[q])
    <3> HIDE DEF Set
    <3> QED
      BY <1>1, <2>1, <2>5
  <2> QED
    BY <1>2, <2>1, <2>6
<1> QED
  BY <1>3, <1>4, <1>5 DEF LibraryNext

LEMMA NextSeeds ==
    ASSUME Types, Roles, Seeds, LibraryNext
    PROVE  Seeds'
<1>0. Types /\ 1 \in DOMAIN process /\ Len(process) \in Nat /\ DOMAIN process = 1 .. Len(process)
  BY HeadOf DEF Types
<1>1. CASE forkMod
  <2>1. /\ program.forks /\ env' = env /\ program' = program
        /\ Len(process') = Len(process) + 1 /\ DOMAIN process' = 1 .. Len(process) + 1
        /\ \A p \in DOMAIN process : p # 1 => process'[p] = process[p]
        /\ process'[1] = [process[1] EXCEPT !.nextSeed = @ + 1]
        /\ process'[Len(process) + 1] =
             [process[1] EXCEPT !.nextSeed = @ + 1,
                                !.seed = setUserMode_SeedRand(@, process[1].nextSeed)]
    BY <1>1, ForkFlow
  <2>2. PICK c \in ProcessType : c = process[1]
    BY <1>0 DEF Types
  <2>3. c.nextSeed = RANDOM_SEED + (Len(process) - 1) /\ ~c.initialised
    BY <2>1, <2>2 DEF Seeds, Roles
  <2>4. RANDOM_SEED + (Len(process) - 1) + 1 = RANDOM_SEED + ((Len(process) + 1) - 1)
    BY <1>0 DEF RANDOM_SEED
  <2>5. /\ process'[1].nextSeed = RANDOM_SEED + ((Len(process) + 1) - 1)
        /\ process'[Len(process) + 1].nextSeed = RANDOM_SEED + ((Len(process) + 1) - 1)
        /\ ~process'[Len(process) + 1].initialised
    <3>1. process'[1].nextSeed = c.nextSeed + 1
      BY <2>1, <2>2 DEF ProcessType
    <3>2. /\ process'[Len(process) + 1].nextSeed = c.nextSeed + 1
          /\ ~process'[Len(process) + 1].initialised
      BY <2>1, <2>2, <2>3 DEF ProcessType
    <3> QED
      BY <2>3, <2>4, <3>1, <3>2
  <2>6. ASSUME NEW p \in DOMAIN process' \ {1}
        PROVE  IF process'[p].initialised
               THEN ~HasNumber(env.seed) => process'[p].seed = RANDOM_SEED + (p - 1)
               ELSE process'[p].nextSeed = RANDOM_SEED + (p - 1)
    <3>1. CASE p = Len(process) + 1
      BY <2>5, <3>1
    <3>2. CASE p \in DOMAIN process
      BY <2>1, <3>2 DEF Seeds
    <3> QED
      BY <1>0, <2>1, <3>1, <3>2, OldOrNew
  <2> QED
    BY <2>1, <2>5, <2>6 DEF Seeds
<1>2. ASSUME NEW p \in DOMAIN process, sendErr_init(p)
      PROVE  Seeds'
  <2>1. /\ env' = env /\ program' = program /\ Len(process') = Len(process)
        /\ DOMAIN process' = DOMAIN process /\ ~process[p].initialised
        /\ (program.forks => p # 1)
        /\ \A q \in DOMAIN process : q # p => process'[q] = process[q]
    BY <1>2, InitialiseFlow
  <2> SUFFICES ASSUME program.forks PROVE Seeds'
    BY <2>1 DEF Seeds
  <2>2. PICK now \in Times : process'[p] = [process[p] EXCEPT
                !.initialised = TRUE,
                !.standard = addMsgEvent_Standard(@, "info"),
                !.rate = setUserMode_ErrRate(@, program.rate),
                !.random = setUserMode_ErrFlip(setUserMode_ErrDrop(@)),
                !.seed = setUserMode_SeedRand(@, IF program.random_flag THEN now
                                                 ELSE process[p].nextSeed),
                !.nextSeed = IF program.random_flag THEN now ELSE @ + 1]
    BY <1>2, InitialiseFlow
  <2>3. PICK c \in ProcessType : c = process[p]
    BY <1>0 DEF Types
  <2>4. ~program.random_flag
    BY <1>0 DEF Types, Programs
  <2>5. process'[p].initialised /\ (~HasNumber(env.seed) => process'[p].seed = c.nextSeed)
    BY <2>2, <2>3, <2>4 DEF ProcessType, setUserMode_SeedRand
  <2>6. p # 1 /\ c.nextSeed = RANDOM_SEED + (p - 1)
    BY <2>1, <2>3 DEF Seeds
  <2> QED
    BY <1>0, <2>1, <2>5, <2>6 DEF Seeds
<1>3. ASSUME NEW p \in DOMAIN process, sendtoErr(p)
      PROVE  Seeds'
  <2>1. /\ env' = env /\ program' = program /\ DOMAIN process' = DOMAIN process
        /\ Len(process') = Len(process)
        /\ \A q \in DOMAIN process : q # p => process'[q] = process[q]
    BY <1>3, SendFlow
  <2>2. PICK n, h : process'[p] = [process[p] EXCEPT !.msgNo = n, !.history = h]
    <3>1. process'[p] = [process[p] EXCEPT !.msgNo = (@ + 1) % Modulus,
            !.history = IF Counted(process[p].standard, (process[p].msgNo + 1) % Modulus)
                        THEN @ + 1 ELSE @]
      BY <1>3, SendFlow
    <3> QED
      BY <3>1
  <2>3. PICK c \in ProcessType : c = process[p]
    BY <1>0 DEF Types
  <2>4. /\ process'[p].nextSeed = process[p].nextSeed /\ process'[p].seed = process[p].seed
        /\ process'[p].initialised = process[p].initialised
    BY <2>2, <2>3 DEF ProcessType
  <2>5. \A q \in DOMAIN process :
          /\ process'[q].nextSeed = process[q].nextSeed /\ process'[q].seed = process[q].seed
          /\ process'[q].initialised = process[q].initialised
    BY <2>1, <2>4
  <2> QED
    BY <1>0, <2>1, <2>5 DEF Seeds
<1> QED
  BY <1>1, <1>2, <1>3 DEF LibraryNext

\* Numbered, DropsAsListed and Reported speak of one process each.
NumberedAt(p) == process[p].msgNo = Len(fates[p]) % Modulus

DropsAsListedAt(p) ==
    \A i \in DOMAIN fates[p] :
        /\ (i % Modulus) \in DropList => fates[p][i] = "dropped"
        /\ \/ (i % Modulus) \in DropList
           \/ process[p].rate # "never" /\ process[p].random # << >>
           \/ fates[p][i] = "sent"

ReportedAt(p) == process[p].history = Cardinality(Unlisted(fates[p]))

LEMMA NextSent ==
    ASSUME Types, Roles, Settings, Numbered, DropsAsListed, Reported, LibraryNext
    PROVE  Numbered' /\ DropsAsListed' /\ Reported'
<1>0. /\ Types /\ 1 \in DOMAIN process /\ Len(process) \in Nat /\ DOMAIN process = 1 .. Len(process)
      /\ fates \in Seq(Seq(Fates)) /\ DOMAIN fates = DOMAIN process
  BY HeadOf DEF Types
<1> DEFINE Accounted(p) == NumberedAt(p) /\ DropsAsListedAt(p) /\ ReportedAt(p)
<1>1. \A p \in DOMAIN process : Accounted(p)
  BY DEF Numbered, DropsAsListed, Reported, NumberedAt, DropsAsListedAt, ReportedAt
<1>2. ASSUME \A p \in DOMAIN process' : Accounted(p)'
      PROVE  Numbered' /\ DropsAsListed' /\ Reported'
  BY <1>2 DEF Numbered, DropsAsListed, Reported, NumberedAt, DropsAsListedAt, ReportedAt
<1>3. ASSUME env' = env, NEW p \in DOMAIN process, fates'[p] = fates[p],
             process'[p].msgNo = process[p].msgNo, process'[p].history = process[p].history,
             \/ process'[p].rate = process[p].rate /\ process'[p].random = process[p].random
             \/ fates[p] = << >>
      PROVE  Accounted(p)'
  <2>1. Accounted(p) /\ DropList' = DropList
    BY <1>1, <1>3 DEF DropList
  <2>2. NumberedAt(p)'
    BY <1>3, <2>1 DEF NumberedAt
  <2>3. ReportedAt(p)'
    BY <1>3, <2>1 DEF ReportedAt, Unlisted
  <2>4. DropsAsListedAt(p)'
    <3>1. CASE fates[p] = << >>
      <4>1. DOMAIN fates'[p] = {}
        BY <1>3, <3>1
      <4> QED
        BY <4>1 DEF DropsAsListedAt
    <3>2. CASE process'[p].rate = process[p].rate /\ process'[p].random = process[p].random
      BY <1>3, <2>1, <3>2 DEF DropsAsListedAt
    <3> QED
      BY <1>3, <3>1, <3>2
  <2> QED
    BY <2>2, <2>3, <2>4
<1>4. CASE forkMod
  <2>1. /\ program.forks /\ env' = env /\ DOMAIN process' = 1 .. Len(process) + 1
        /\ \A p \in DOMAIN process : fates'[p] = fates[p] /\ (p # 1 => process'[p] = process[p])
        /\ process'[1] = [process[1] EXCEPT !.nextSeed = @ + 1]
        /\ fates'[Len(process) + 1] = << >>
        /\ process'[Len(process) + 1] =
             [process[1] EXCEPT !.nextSeed = @ + 1,
                                !.seed = setUserMode_SeedRand(@, process[1].nextSeed)]
    BY <1>4, ForkFlow
  <2>2. PICK c \in ProcessType : c = process[1]
    BY <1>0 DEF Types
  <2>3. Accounted(1)'
    <3>1. /\ process'[1].msgNo = process[1].msgNo /\ process'[1].history = process[1].history
          /\ process'[1].rate = process[1].rate /\ process'[1].random = process[1].random
      BY <2>1, <2>2 DEF ProcessType
    <3> HIDE DEF Accounted
    <3> QED
      BY <1>0, <1>3, <2>1, <3>1
  <2>4. PICK k : k = Len(process) + 1
    OBVIOUS
  <2>5. Accounted(k)'
    <3>2. fates[1] = << >> /\ c.history = 0
      BY <1>0, <2>1, <2>2 DEF Roles
    <3>3. c.msgNo = Len(<< >>) % Modulus
      BY <1>0, <1>1, <2>2, <3>2 DEF NumberedAt
    <3>4. /\ fates'[k] = << >> /\ process'[k].msgNo = Len(<< >>) % Modulus
          /\ process'[k].history = 0
      BY <2>1, <2>2, <2>4, <3>2, <3>3 DEF ProcessType
    <3>5. NumberedAt(k)'
      BY <3>4 DEF NumberedAt
    <3>6. DropsAsListedAt(k)'
      <4>1. DOMAIN fates'[k] = {}
        BY <3>4
      <4> QED
        BY <4>1 DEF DropsAsListedAt
    <3>7. ReportedAt(k)'
      <4>1. Unlisted(fates[k])' = {}
        BY <3>4 DEF Unlisted
      <4> QED
        BY <3>4, <4>1, FS_EmptySet DEF ReportedAt
    <3> QED
      BY <3>5, <3>6, <3>7
  <2>6. ASSUME NEW p \in DOMAIN process, p # 1 PROVE Accounted(p)'
    <3> HIDE DEF Accounted
    <3> QED
      BY <1>3, <2>1, <2>6
  <2>7. \A p \in DOMAIN process' : p = 1 \/ p = k \/ (p \in DOMAIN process /\ p # 1)
    BY <1>0, <2>1, <2>4, OldOrNew
  <2> HIDE DEF Accounted
  <2>8. \A p \in DOMAIN process' : Accounted(p)'
    BY <2>3, <2>5, <2>6, <2>7
  <2> QED
    BY <1>2, <2>8
<1>5. ASSUME NEW p \in DOMAIN process, sendErr_init(p)
      PROVE  Numbered' /\ DropsAsListed' /\ Reported'
  <2>1. /\ env' = env /\ fates' = fates /\ DOMAIN process' = DOMAIN process
        /\ ~process[p].initialised
        /\ \A q \in DOMAIN process : q # p => process'[q] = process[q]
    BY <1>5, InitialiseFlow
  <2>2. PICK now \in Times : process'[p] = [process[p] EXCEPT
                !.initialised = TRUE,
                !.standard = addMsgEvent_Standard(@, "info"),
                !.rate = setUserMode_ErrRate(@, program.rate),
                !.random = setUserMode_ErrFlip(setUserMode_ErrDrop(@)),
                !.seed = setUserMode_SeedRand(@, IF program.random_flag THEN now
                                                 ELSE process[p].nextSeed),
                !.nextSeed = IF program.random_flag THEN now ELSE @ + 1]
    BY <1>5, InitialiseFlow
  <2>3. PICK c \in ProcessType : c = process[p]
    BY <1>0 DEF Types
  <2>4. process'[p].msgNo = process[p].msgNo /\ process'[p].history = process[p].history
    BY <2>2, <2>3 DEF ProcessType
  <2>5. fates[p] = << >>
    BY <2>1 DEF Roles
  <2> HIDE DEF Accounted
  <2>6. Accounted(p)'
    BY <1>3, <2>1, <2>4, <2>5
  <2>7. ASSUME NEW q \in DOMAIN process, q # p PROVE Accounted(q)'
    BY <1>3, <2>1, <2>7
  <2> QED
    BY <1>2, <2>1, <2>6, <2>7
<1>6. ASSUME NEW p \in DOMAIN process, sendtoErr(p)
      PROVE  Numbered' /\ DropsAsListed' /\ Reported'
  <2> DEFINE n == (process[p].msgNo + 1) % Modulus
  <2>1. /\ env' = env /\ DOMAIN process' = DOMAIN process /\ process[p].initialised
        /\ \A q \in DOMAIN process : q # p => process'[q] = process[q] /\ fates'[q] = fates[q]
        /\ process'[p] = [process[p] EXCEPT !.msgNo = n,
                !.history = IF Counted(process[p].standard, n) THEN @ + 1 ELSE @]
    BY <1>6, SendFlow
  <2>2. PICK event \in RandomEvents(process[p]) :
          /\ processEvents(process[p], n, event) \in Fates
          /\ fates'[p] = Append(fates[p], processEvents(process[p], n, event))
    BY <1>6, SendFlow
  <2>3. PICK c \in ProcessType : c = process[p]
    BY <1>0 DEF Types
  <2>4. PICK f \in Seq(Fates) : f = fates[p]
    BY <1>0
  <2>5. PICK fate \in Fates : fate = processEvents(c, n, event)
    BY <2>2, <2>3
  <2>6. n = (Len(f) + 1) % Modulus
    <3>1. c.msgNo = Len(f) % Modulus
      BY <1>1, <2>3, <2>4 DEF NumberedAt
    <3>2. Len(f) \in Nat
      OBVIOUS
    <3> QED
      BY <2>3, <3>1, <3>2, NextNumber
  <2> HIDE DEF n
  <2>7. fates'[p] = Append(f, fate)
    BY <2>2, <2>3, <2>4, <2>5
  <2>8. c.standard = addMsgEvent_Standard(loadEnvData_ErrDrop_standard, "info")
    BY <2>1, <2>3 DEF Settings
  <2>9. /\ Counted(c.standard, n) <=> n \notin DropList
        /\ n \in DropList => fate = "dropped"
        /\ n \in DropList \/ (c.rate # "never" /\ c.random # << >>) \/ fate = "sent"
    <3>1. env \in EnvironmentType
      BY DEF Types
    <3> QED
      BY <2>2, <2>3, <2>5, <2>8, <3>1, ListDecides
  <2>10. /\ process'[p].msgNo = n /\ process'[p].rate = c.rate /\ process'[p].random = c.random
         /\ process'[p].history = IF n \in DropList THEN c.history ELSE c.history + 1
    BY <2>1, <2>3, <2>9 DEF ProcessType
  <2>11. DropList' = DropList
    BY <2>1 DEF DropList
  <2>12. /\ Len(f) \in Nat /\ Len(Append(f, fate)) = Len(f) + 1 /\ DOMAIN f = 1 .. Len(f)
         /\ DOMAIN Append(f, fate) = 1 .. Len(f) + 1
         /\ \A i \in DOMAIN f : Append(f, fate)[i] = f[i]
         /\ Append(f, fate)[Len(f) + 1] = fate
    BY LastOf
  <2>13. NumberedAt(p)'
    BY <2>6, <2>7, <2>10, <2>12 DEF NumberedAt
  <2>14. DropsAsListedAt(p)'
    <3>1. ASSUME NEW i \in DOMAIN fates'[p]
          PROVE  /\ (i % Modulus) \in DropList => fates'[p][i] = "dropped"
                 /\ \/ (i % Modulus) \in DropList
                    \/ process'[p].rate # "never" /\ process'[p].random # << >>
                    \/ fates'[p][i] = "sent"
      <4>1. CASE i = Len(f) + 1
        BY <2>6, <2>7, <2>9, <2>10, <2>12, <4>1
      <4>2. CASE i \in DOMAIN f
        <5>1. fates'[p][i] = f[i]
          BY <2>7, <2>12, <4>2
        <5>2. /\ (i % Modulus) \in DropList => f[i] = "dropped"
              /\ \/ (i % Modulus) \in DropList
                 \/ c.rate # "never" /\ c.random # << >>
                 \/ f[i] = "sent"
          BY <1>1, <2>3, <2>4, <4>2 DEF DropsAsListedAt
        <5> QED
          BY <2>10, <5>1, <5>2
      <4> QED
        BY <2>7, <2>12, <4>1, <4>2
    <3> QED
      BY <2>11, <3>1 DEF DropsAsListedAt
  <2>15. ReportedAt(p)'
    <3>1. c.history = Cardinality(Unlisted(f))
      BY <1>1, <2>3, <2>4 DEF ReportedAt
    <3>2. Cardinality(Unlisted(Append(f, fate))) =
            IF n \in DropList THEN Cardinality(Unlisted(f)) ELSE Cardinality(Unlisted(f)) + 1
      BY <2>6, OneMoreUnlisted
    <3>3. Unlisted(fates[p])' = Unlisted(Append(f, fate))
      BY <2>7, <2>11 DEF Unlisted
    <3> QED
      BY <2>10, <3>1, <3>2, <3>3 DEF ReportedAt
  <2>16. ASSUME NEW q \in DOMAIN process, q # p PROVE Accounted(q)'
    <3> HIDE DEF Accounted
    <3> QED
      BY <1>3, <2>1, <2>16
  <2>17. Accounted(p)'
    BY <2>13, <2>14, <2>15
  <2> HIDE DEF Accounted
  <2> QED
    BY <1>2, <2>1, <2>16, <2>17
<1> QED
  BY <1>4, <1>5, <1>6 DEF LibraryNext

-----------------------------------------------------------------------------
(* The theorems *)

LEMMA NextLibraryInv == ASSUME LibraryInv, [LibraryNext]_libraryVars PROVE LibraryInv'
<1>1. CASE LibraryNext
  <2>1. Types' /\ Roles' /\ Settings' /\ Seeds' /\ Numbered' /\ DropsAsListed' /\ Reported'
    BY <1>1, NextRoles, NextSettings, NextSeeds, NextSent DEF LibraryInv
  <2> QED
    BY <2>1 DEF LibraryInv
<1>2. CASE UNCHANGED libraryVars
  <2>1. env' = env /\ program' = program /\ process' = process /\ fates' = fates
    BY <1>2 DEF libraryVars
  <2>2. Types' /\ Roles' /\ Numbered'
    BY <2>1 DEF LibraryInv, Types, Roles, Numbered
  <2>3. /\ (loadEnvData_ErrDrop_standard)' = loadEnvData_ErrDrop_standard /\ DropList' = DropList
        /\ Inherited' = Inherited /\ Asked' = Asked /\ LoadedRate' = LoadedRate
    BY <2>1, EnvironmentStays
  <2>4. Settings' /\ Seeds'
    BY <2>1, <2>3 DEF LibraryInv, Settings, Seeds, setUserMode_ErrRate
  <2>5. DropsAsListed' /\ Reported'
    BY <2>1, <2>3 DEF LibraryInv, DropsAsListed, Reported, Unlisted
  <2> QED
    BY <2>2, <2>4, <2>5 DEF LibraryInv
<1> QED
  BY <1>1, <1>2

\* For every environment, clock, width of message numbers and number of children
\* and packets: the library's copies in the processes stay in the relations above.
THEOREM LibraryInvariant == LibrarySpec => []LibraryInv
<1>1. LibraryInv /\ [LibraryNext]_libraryVars => LibraryInv'
  BY NextLibraryInv
<1> QED
  BY InitLibraryInv, <1>1, PTL DEF LibrarySpec

\* What CPE464_OVERRIDE_ERR_DROP lists is dropped, whatever else happens to it, and
\* is left out of the count infoSeqNo reports; PacketManager.cpp:132-189.
THEOREM ListHonoured == LibrarySpec => []ListIsHonoured
<1>1. LibraryInv => ListIsHonoured
  BY DEF LibraryInv, Reported, Unlisted, ListIsHonoured, ReportLeavesOutListed
<1> QED
  BY <1>1, LibraryInvariant, PTL

\* The environment's rate, seed and lists win over what rcopy or a child of the
\* server passes to sendErr_init; SettingsManager.cpp:147-189.
THEOREM EnvironmentWon == LibrarySpec => []EnvironmentWins
<1>1. LibraryInv => EnvironmentWins
  <2> SUFFICES ASSUME LibraryInv, NEW p \in DOMAIN process, process[p].initialised
      PROVE  /\ process[p].rate = IF HasNumber(env.rate) THEN env.rate ELSE program.rate
             /\ HasNumber(env.seed) => process[p].seed = env.seed
             /\ \A error \in {"drop", "flip"} :
                  LET variable == IF error = "drop" THEN env.drop ELSE env.flip
                      places == {i \in DOMAIN process[p].random : process[p].random[i] = error}
                  IN \/ ListOf(variable) # {} /\ places = {}
                     \/ ListOf(variable) = {} /\ \E i \in places : places = {i}
    BY DEF EnvironmentWins
  <2>1. /\ process[p].rate = setUserMode_ErrRate(LoadedRate, program.rate)
        /\ process[p].random = Asked
        /\ HasNumber(env.seed) => process[p].seed = env.seed
    BY DEF LibraryInv, Settings
  <2>2. process[p].rate = IF HasNumber(env.rate) THEN env.rate ELSE program.rate
    BY <2>1 DEF setUserMode_ErrRate, LoadedRate
  <2>3. env \in EnvironmentType
    BY DEF LibraryInv, Types
  <2> DEFINE Places(error) == {i \in DOMAIN Asked : Asked[i] = error}
  <2>4. /\ IF ListOf(env.drop) # {} THEN Places("drop") = {}
           ELSE \E i \in Places("drop") : Places("drop") = {i}
        /\ IF ListOf(env.flip) # {} THEN Places("flip") = {}
           ELSE \E i \in Places("flip") : Places("flip") = {i}
    BY <2>3, AskedOnce
  <2>5. ASSUME NEW error \in {"drop", "flip"}
        PROVE  LET variable == IF error = "drop" THEN env.drop ELSE env.flip
               IN \/ ListOf(variable) # {} /\ Places(error) = {}
                  \/ ListOf(variable) = {} /\ \E i \in Places(error) : Places(error) = {i}
    <3> HIDE DEF Places
    <3>1. CASE error = "drop"
      BY <2>4, <3>1
    <3>2. CASE error = "flip"
      BY <2>4, <3>2
    <3> QED
      BY <3>1, <3>2
  <2> QED
    BY <2>1, <2>2, <2>5
<1> QED
  BY <1>1, LibraryInvariant, PTL

\* However many children the server forks, and in whatever order they initialise
\* the library, no two have the same seed unless the environment sets one;
\* network-hooks.c (forkMod, sendErr_init).
THEOREM SeedsKeptApart == LibrarySpec => []SeedsApart
<1>1. LibraryInv => SeedsApart
  <2> SUFFICES ASSUME LibraryInv, ~HasNumber(env.seed),
                      NEW p \in DOMAIN process, NEW q \in DOMAIN process, p # q,
                      process[p].initialised, process[q].initialised
               PROVE  process[p].seed # process[q].seed
    BY DEF SeedsApart
  <2>1. Len(process) \in Nat /\ DOMAIN process = 1 .. Len(process)
    BY DEF LibraryInv, Types
  <2>2. program.forks
    <3>1. Len(process) # 1
      BY <2>1
    <3> QED
      BY <3>1 DEF LibraryInv, Roles
  <2>3. p # 1 /\ q # 1
    BY <2>2 DEF LibraryInv, Roles
  <2>4. process[p].seed = RANDOM_SEED + (p - 1) /\ process[q].seed = RANDOM_SEED + (q - 1)
    BY <2>2, <2>3 DEF LibraryInv, Seeds
  <2>5. p \in Int /\ q \in Int
    BY <2>1
  <2> QED
    BY <2>4, <2>5 DEF RANDOM_SEED
<1> QED
  BY <1>1, LibraryInvariant, PTL
=============================================================================
