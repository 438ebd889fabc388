---------------------------- MODULE FramingProofs ----------------------------
(***************************************************************************)
(* Proofs about PDUs over byte streams.                                    *)
(*                                                                         *)
(* What a sender has handed to sendPDU is one sequence of bytes in which   *)
(* PDU after PDU lies at a known place.  The argument follows that         *)
(* sequence: what recv() has of a PDU, what is on the wire and what send() *)
(* has not copied are adjacent pieces of it, wherever it was cut.          *)
(***************************************************************************)
EXTENDS Framing, CommonLemmas, TLAPS

\* Types of the whole state.
TypeOK ==
    /\ sending \in [Senders -> Seq(Byte)] /\ wire \in [Senders -> Seq(Byte)]
    /\ gone \in [Senders -> BOOLEAN] /\ open \in [Senders -> BOOLEAN]
    /\ torn \in [Senders -> BOOLEAN]
    /\ receiver \in {"poll", "header", "payload", "exited"} /\ socket \in Senders
    /\ got \in Seq(Byte) /\ need \in Nat /\ Len(got) <= need
    /\ sent \in [Senders -> Seq(Payloads)] /\ delivered \in [Senders -> Seq(Seq(Byte))]

High(p) == (Len(p) + 2) \div UInt8
Low(p)  == (Len(p) + 2) % UInt8

\* The stream is the PDUs one behind the other: the k-th begins behind place[k].
Laid(stream, place, pdus) ==
    /\ place[1] = 0 /\ place[Len(pdus) + 1] = Len(stream)
    /\ \A k \in 1 .. Len(pdus) :
        /\ place[k + 1] = place[k] + Len(pdus[k]) + 2
        /\ place[k + 1] <= Len(stream)
        /\ stream[place[k] + 1] = High(pdus[k]) /\ stream[place[k] + 2] = Low(pdus[k])
        /\ \A j \in 1 .. Len(pdus[k]) : stream[place[k] + 2 + j] = pdus[k][j]

\* The piece is in the stream behind this place.
Piece(piece, stream, from) == \A j \in 1 .. Len(piece) : piece[j] = stream[from + j]

Reads(s) == Receiving /\ socket = s

\* Up to where the receiver has taken the stream, in the PDU that begins behind
\* base: nothing, part of the header, or part of the payload.  Behind a header
\* that was cut in two there is nothing to take.
TakenTo(s, stream, base, taken) ==
    IF ~Reads(s) THEN taken = base
    ELSE IF receiver = "header"
    THEN need = 2 /\ Len(got) <= 2 /\ taken = base + Len(got) /\ Piece(got, stream, base)
    ELSE \/ gone[s] /\ wire[s] = << >> /\ got = << >> /\ taken = base
         \/ /\ Q!Undelivered(s) /\ need = Len(Q!NextPDU(s)) /\ Len(got) <= need
            /\ taken = base + 2 + Len(got) /\ Piece(got, stream, base + 2)

\* What is on the wire and what is not copied yet follow, to the end of the stream,
\* or, when the sender has ended, to where it was cut off.
InOrder(s, stream, base, taken) ==
    /\ TakenTo(s, stream, base, taken)
    /\ Piece(wire[s], stream, taken)
    /\ Piece(sending[s], stream, taken + Len(wire[s]))
    /\ taken + Len(wire[s]) + Len(sending[s]) <= Len(stream)
    /\ ~gone[s] => taken + Len(wire[s]) + Len(sending[s]) = Len(stream)

Carried(s) ==
    \E stream \in Seq(Byte), place \in [1 .. Len(sent[s]) + 1 -> Nat], taken \in Nat :
        /\ Laid(stream, place, sent[s])
        /\ Len(delivered[s]) <= Len(sent[s])
        /\ InOrder(s, stream, place[Len(delivered[s]) + 1], taken)

\* A torn PDU is the last thing taken of its sender; a closed connection is not read.
NothingFollows(s) ==
    /\ torn[s] => /\ gone[s] /\ wire[s] = << >>
                  /\ Reads(s) => receiver = "header" /\ got = << >>
    /\ ~open[s] => ~Reads(s)

\* The inductive invariant, for one sender.  What was delivered in order is said
\* through the stream: a step that moves bytes moves a border between its pieces.
SenderInv(s) ==
    /\ gone[s] => sending[s] = << >>
    /\ NothingFollows(s)
    /\ open[s] \/ gone[s] \/ << >> \in Range(sent[s])
    /\ open[s] /\ ~torn[s] => Carried(s)

ExitInv == receiver = "exited" => gone[socket] /\ Len(got) = 1

IInv == TypeOK /\ (\A s \in Senders : SenderInv(s)) /\ ExitInv

-----------------------------------------------------------------------------
(* Lengths and PDUs *)

\* PDULength undoes what sendPDU makes of a length.
LEMMA LengthInTwoBytes ==
    ASSUME NEW p \in Payloads
    PROVE  /\ High(p) \in Byte /\ Low(p) \in Byte
           /\ High(p) * UInt8 + Low(p) = Len(p) + 2
           /\ Len(p) \in Nat /\ Len(p) + 2 \in 2 .. BufferSize
<1> DEFINE n == Len(p) + 2
<1>1. /\ UInt8 \in Nat \ {0} /\ n \in Nat /\ n < UInt8 * UInt8
      /\ Len(p) \in Nat /\ n \in 2 .. BufferSize
  BY FramingAssumption
<1> HIDE DEF n
<1>2. n \div UInt8 \in Nat /\ n % UInt8 \in 0 .. UInt8 - 1
  BY <1>1, SMT
<1>3. (n \div UInt8) * UInt8 + (n % UInt8) = n
  BY <1>1, SMT
<1>4. n \div UInt8 < UInt8
  BY <1>1, SMT
<1> QED
  BY <1>1, <1>2, <1>3, <1>4 DEF High, Low, Byte, n

\* What sendPDU hands to send(): the length in two bytes, then the payload.
LEMMA BytesOfPDU ==
    ASSUME NEW p \in Payloads
    PROVE  /\ PDU(p) \in Seq(Byte) /\ Len(PDU(p)) = Len(p) + 2
           /\ PDU(p)[1] = High(p) /\ PDU(p)[2] = Low(p)
           /\ \A j \in 1 .. Len(p) : PDU(p)[2 + j] = p[j]
<1>1. PDU(p) = <<High(p), Low(p)>> \o p
  BY DEF PDU, High, Low
<1>2. p \in Seq(Byte) /\ High(p) \in Byte /\ Low(p) \in Byte
  BY LengthInTwoBytes, FramingAssumption
<1> HIDE DEF High, Low
<1> QED
  BY <1>1, <1>2

\* poll reports one of the connections that have something.
LEMMA LowestHasInput ==
    ASSUME HasInput # {}
    PROVE  Min(HasInput) \in HasInput
<1>1. HasInput \in SUBSET Nat
  BY FramingAssumption DEF HasInput
<1> QED
  BY <1>1, LeastExists DEF Min

\* The smaller of two numbers.
LEMMA MinOfTwo ==
    ASSUME NEW a \in Int, NEW b \in Int
    PROVE  /\ Min({a, b}) \in {a, b}
           /\ Min({a, b}) <= a /\ Min({a, b}) <= b
<1>1. \E i \in {a, b} : \A j \in {a, b} : i <= j
  <2>1. a <= a /\ b <= b /\ (a <= b \/ b <= a)
    OBVIOUS
  <2> QED
    BY <2>1
<1> QED
  BY <1>1 DEF Min

\* The kernel copies no more than is left and than there is room for.
LEMMA CopiedFits ==
    ASSUME TypeOK, NEW s \in Senders,
           NEW n \in 1 .. Min({Capacity - Len(wire[s]), Len(sending[s])})
    PROVE  n \in 0 .. Len(sending[s])
<1>1. Capacity - Len(wire[s]) \in Int /\ Len(sending[s]) \in Int
  BY FramingAssumption DEF TypeOK
<1> DEFINE m == Min({Capacity - Len(wire[s]), Len(sending[s])})
<1>2. m \in Int /\ m <= Len(sending[s])
  BY <1>1, MinOfTwo
<1> HIDE DEF m
<1>3. n \in Int /\ 1 <= n /\ n <= m
  BY <1>2 DEF m
<1> QED
  BY <1>1, <1>2, <1>3

\* A recv() that waits takes no more than there is and than it waits for.
LEMMA TakenFits ==
    ASSUME TypeOK
    PROVE  /\ Taken \in 0 .. Len(wire[socket])
           /\ Len(got) + Taken <= need
<1>1. need - Len(got) \in Nat /\ Len(wire[socket]) \in Nat /\ need \in Nat /\ Len(got) \in Nat
  BY DEF TypeOK
<1>2. need - Len(got) \in Int /\ Len(wire[socket]) \in Int
  BY <1>1
<1>3. /\ Taken \in {need - Len(got), Len(wire[socket])}
      /\ Taken <= need - Len(got) /\ Taken <= Len(wire[socket])
  BY <1>2, MinOfTwo DEF Taken
<1> QED
  BY <1>1, <1>3

-----------------------------------------------------------------------------
(* What the stream says *)

\* The places of the PDUs are in the stream.
LEMMA PlacesInStream ==
    ASSUME NEW pdus \in Seq(Payloads), NEW stream \in Seq(Byte),
           NEW place \in [1 .. Len(pdus) + 1 -> Nat], Laid(stream, place, pdus),
           NEW d \in Nat, d <= Len(pdus)
    PROVE  /\ place[d + 1] \in Nat /\ place[d + 1] <= Len(stream)
           /\ d = Len(pdus) => place[d + 1] = Len(stream)
           /\ d < Len(pdus) => /\ d + 1 \in 1 .. Len(pdus)
                               /\ pdus[d + 1] \in Payloads
                               /\ place[d + 2] = place[d + 1] + Len(pdus[d + 1]) + 2
                               /\ place[d + 2] <= Len(stream)
<1>1. Len(pdus) \in Nat /\ d + 1 \in 1 .. Len(pdus) + 1
  OBVIOUS
<1>2. d < Len(pdus) => d + 1 \in 1 .. Len(pdus) /\ (d + 1) + 1 = d + 2
  BY <1>1
<1>3. d < Len(pdus) => pdus[d + 1] \in Payloads
  BY <1>2
<1>4. d < Len(pdus) => /\ place[d + 2] = place[d + 1] + Len(pdus[d + 1]) + 2
                       /\ place[d + 2] <= Len(stream)
  BY <1>2 DEF Laid
<1>5. d < Len(pdus) => Len(pdus[d + 1]) \in Nat /\ place[d + 2] \in Nat
  <2> SUFFICES ASSUME d < Len(pdus) PROVE Len(pdus[d + 1]) \in Nat /\ place[d + 2] \in Nat
    OBVIOUS
  <2>1. d + 2 \in 1 .. Len(pdus) + 1
    BY <1>1
  <2> QED
    BY <1>3, <2>1, LengthInTwoBytes
<1>6. d = Len(pdus) => place[d + 1] = Len(stream)
  BY DEF Laid
<1>7. place[d + 1] \in Nat
  BY <1>1
<1> QED
  BY <1>1, <1>2, <1>3, <1>4, <1>5, <1>6, <1>7

\* One more PDU goes behind the stream and moves nothing that is in it.
LEMMA LaidLonger ==
    ASSUME NEW pdus \in Seq(Payloads), NEW stream \in Seq(Byte),
           NEW place \in [1 .. Len(pdus) + 1 -> Nat], Laid(stream, place, pdus),
           NEW p \in Payloads
    PROVE  \E longer \in Seq(Byte), places \in [1 .. Len(pdus) + 2 -> Nat] :
              /\ Laid(longer, places, Append(pdus, p))
              /\ Len(longer) = Len(stream) + Len(PDU(p))
              /\ \A j \in 1 .. Len(stream) : longer[j] = stream[j]
              /\ \A j \in 1 .. Len(PDU(p)) : longer[Len(stream) + j] = PDU(p)[j]
              /\ \A k \in 1 .. Len(pdus) + 1 : places[k] = place[k]
<1> DEFINE longer == stream \o PDU(p)
           n == Len(pdus)
           places == [k \in 1 .. n + 2 |-> IF k <= n + 1 THEN place[k] ELSE Len(longer)]
           more == Append(pdus, p)
<1>1. /\ PDU(p) \in Seq(Byte) /\ Len(PDU(p)) = Len(p) + 2 /\ Len(p) \in Nat
      /\ PDU(p)[1] = High(p) /\ PDU(p)[2] = Low(p)
      /\ \A j \in 1 .. Len(p) : PDU(p)[2 + j] = p[j]
  BY BytesOfPDU, LengthInTwoBytes
<1> HIDE DEF High, Low, PDU
<1>2. /\ longer \in Seq(Byte) /\ Len(longer) = Len(stream) + Len(p) + 2
      /\ Len(stream) \in Nat
      /\ \A j \in 1 .. Len(stream) : longer[j] = stream[j]
      /\ \A j \in 1 .. Len(PDU(p)) : longer[Len(stream) + j] = PDU(p)[j]
  <2>1. PDU(p) \in Seq(Byte) /\ Len(PDU(p)) = Len(p) + 2
    BY <1>1
  <2>2. longer \in Seq(Byte) /\ Len(longer) = Len(stream) + Len(PDU(p)) /\ Len(stream) \in Nat
    BY <2>1, ConcatAt
  <2>3. \A j \in 1 .. Len(stream) : longer[j] = stream[j]
    BY <2>1, ConcatAt
  <2>4. \A j \in 1 .. Len(PDU(p)) : longer[Len(stream) + j] = PDU(p)[j]
    BY <2>1, ConcatAt
  <2>5. Len(stream) + Len(PDU(p)) = Len(stream) + Len(p) + 2
    BY <1>1, <2>1, <2>2
  <2> HIDE DEF longer
  <2> QED
    BY <2>2, <2>3, <2>4, <2>5
<1>3. /\ n \in Nat /\ more \in Seq(Payloads) /\ Len(more) = n + 1 /\ more[n + 1] = p
      /\ \A k \in 1 .. n : more[k] = pdus[k]
  OBVIOUS
<1> HIDE DEF longer, n, more
<1>4. /\ places \in [1 .. n + 2 -> Nat]
      /\ \A k \in 1 .. n + 1 : places[k] = place[k]
      /\ places[n + 2] = Len(longer) /\ places[n + 1] = Len(stream)
      /\ places[1] = 0
  BY <1>2, <1>3 DEF Laid, n
<1> HIDE DEF places
<1>5. ASSUME NEW k \in 1 .. n + 1
      PROVE  /\ places[k + 1] = places[k] + Len(more[k]) + 2
             /\ places[k + 1] <= Len(longer)
             /\ longer[places[k] + 1] = High(more[k]) /\ longer[places[k] + 2] = Low(more[k])
             /\ \A j \in 1 .. Len(more[k]) : longer[places[k] + 2 + j] = more[k][j]
  <2>1. CASE k = n + 1
    <3>1. places[k + 1] = Len(longer) /\ places[k] = Len(stream) /\ more[k] = p
      BY <1>3, <1>4, <2>1
    <3>2. /\ longer[Len(stream) + 1] = High(p) /\ longer[Len(stream) + 2] = Low(p)
          /\ \A j \in 1 .. Len(p) : longer[Len(stream) + 2 + j] = p[j]
      <4>1. 1 \in 1 .. Len(PDU(p)) /\ 2 \in 1 .. Len(PDU(p))
        BY <1>1
      <4>2. ASSUME NEW j \in 1 .. Len(p) PROVE longer[Len(stream) + 2 + j] = p[j]
        <5>1. 2 + j \in 1 .. Len(PDU(p)) /\ Len(stream) + 2 + j = Len(stream) + (2 + j)
          BY <1>1, <1>2
        <5> QED
          BY <1>1, <1>2, <5>1
      <4> QED
        BY <1>1, <1>2, <4>1, <4>2
    <3> QED
      BY <1>1, <1>2, <3>1, <3>2
  <2>2. CASE k \in 1 .. n
    <3>1. /\ k \in 1 .. n + 1 /\ k + 1 \in 1 .. n + 1 /\ more[k] = pdus[k]
          /\ pdus[k] \in Payloads
      BY <1>3, <2>2 DEF n
    <3>2. places[k + 1] = place[k + 1] /\ places[k] = place[k] /\ place[k] \in Nat
      BY <1>4, <3>1 DEF n
    <3>3. /\ place[k + 1] = place[k] + Len(pdus[k]) + 2
          /\ place[k + 1] <= Len(stream)
          /\ stream[place[k] + 1] = High(pdus[k]) /\ stream[place[k] + 2] = Low(pdus[k])
          /\ \A j \in 1 .. Len(pdus[k]) : stream[place[k] + 2 + j] = pdus[k][j]
      BY <2>2 DEF Laid, n
    <3>4. Len(pdus[k]) \in Nat
      BY <3>1, LengthInTwoBytes
    <3>5. /\ place[k] + 1 \in 1 .. Len(stream) /\ place[k] + 2 \in 1 .. Len(stream)
          /\ \A j \in 1 .. Len(pdus[k]) : place[k] + 2 + j \in 1 .. Len(stream)
      <4>1. place[k] \in Nat /\ place[k] + Len(pdus[k]) + 2 <= Len(stream)
        BY <3>2, <3>3
      <4> DEFINE a == place[k]  l == Len(pdus[k])  m == Len(stream)
      <4>2. a \in Nat /\ l \in Nat /\ m \in Nat /\ a + l + 2 <= m
        BY <1>2, <3>4, <4>1
      <4> HIDE DEF a, l, m
      <4>3. a + 1 \in 1 .. m /\ a + 2 \in 1 .. m /\ \A j \in 1 .. l : a + 2 + j \in 1 .. m
        BY <4>2
      <4> QED
        BY <4>3 DEF a, l, m
    <3>6. place[k + 1] <= Len(longer)
      <4> DEFINE a == place[k + 1]  l == Len(stream)  m == Len(PDU(p))
      <4>1. a \in Nat /\ a <= l
        BY <3>1, <3>3 DEF n
      <4>2. l \in Nat /\ m \in Nat /\ Len(longer) = l + m
        BY <1>1, <1>2
      <4> HIDE DEF a, l, m
      <4>3. a <= l + m
        BY <4>1, <4>2
      <4> QED
        BY <4>2, <4>3 DEF a
    <3> QED
      BY <1>2, <3>1, <3>2, <3>3, <3>5, <3>6
  <2> QED
    BY <1>3, <2>1, <2>2
<1>6. Laid(longer, places, more)
  BY <1>3, <1>4, <1>5 DEF Laid
<1>7. Len(longer) = Len(stream) + Len(PDU(p))
  BY <1>1, <1>2
<1> QED
  BY <1>2, <1>4, <1>6, <1>7 DEF n, more

\* A sender whose state a step leaves alone, the receiver's part included, is
\* carried as before.
LEMMA CarriedKept ==
    ASSUME NEW s \in Senders, Carried(s),
           sending'[s] = sending[s], wire'[s] = wire[s], gone'[s] = gone[s],
           sent'[s] = sent[s], delivered'[s] = delivered[s],
           \/ UNCHANGED <<receiver, socket, got, need>>
           \/ ~Reads(s) /\ ~Reads(s)'
    PROVE  Carried(s)'
<1>1. PICK stream \in Seq(Byte), place \in [1 .. Len(sent[s]) + 1 -> Nat], taken \in Nat :
        /\ Laid(stream, place, sent[s])
        /\ Len(delivered[s]) <= Len(sent[s])
        /\ InOrder(s, stream, place[Len(delivered[s]) + 1], taken)
  BY DEF Carried
<1>2. ASSUME NEW base, TakenTo(s, stream, base, taken)
      PROVE  TakenTo(s, stream, base, taken)'
  <2>1. CASE UNCHANGED <<receiver, socket, got, need>>
    BY <1>2, <2>1 DEF TakenTo, Reads, Receiving, Piece, Q!Undelivered, Q!NextPDU
  <2>2. CASE ~Reads(s) /\ ~Reads(s)'
    BY <1>2, <2>2 DEF TakenTo
  <2> QED
    BY <2>1, <2>2
<1>3. InOrder(s, stream, place[Len(delivered[s]) + 1], taken)'
  BY <1>1, <1>2 DEF InOrder, Piece
<1> QED
  BY <1>1, <1>3 DEF Carried

-----------------------------------------------------------------------------
(* Types *)

\* No sender has sent anything and the receiver polls.
LEMMA InitTypeOK == Init => TypeOK
<1>1. << >> \in Seq(Byte) /\ << >> \in Seq(Payloads) /\ << >> \in Seq(Seq(Byte))
  OBVIOUS
<1> QED
  BY <1>1 DEF Init, TypeOK

\* A step of a sender keeps the types.
LEMMA SenderTypeOK ==
    ASSUME TypeOK, NEW s \in Senders, SenderStep(s) \/ Killed(s) \/ Reset(s)
    PROVE  TypeOK'
<1>1. CASE sendPDU(s)
  <2>1. PICK p \in Payloads : /\ sending' = [sending EXCEPT ![s] = PDU(p)]
                              /\ sent' = [sent EXCEPT ![s] = Append(@, p)]
    BY <1>1 DEF sendPDU
  <2>2. PDU(p) \in Seq(Byte)
    BY BytesOfPDU
  <2>3. Append(sent[s], p) \in Seq(Payloads)
    BY DEF TypeOK
  <2> QED
    BY <1>1, <2>1, <2>2, <2>3 DEF sendPDU, receiverVars, TypeOK
<1>2. CASE Transmit(s)
  <2>1. PICK n \in 1 .. Min({Capacity - Len(wire[s]), Len(sending[s])}) :
          /\ wire' = [wire EXCEPT ![s] = @ \o SubSeq(sending[s], 1, n)]
          /\ sending' = [sending EXCEPT ![s] = Copied(s, n)]
    BY <1>2 DEF Transmit
  <2>2. n \in 0 .. Len(sending[s])
    BY <1>2, <2>1, CopiedFits
  <2>3. sending[s] \in Seq(Byte) /\ wire[s] \in Seq(Byte)
    BY DEF TypeOK
  <2>4. SubSeq(sending[s], 1, n) \in Seq(Byte) /\ Copied(s, n) \in Seq(Byte)
    BY <2>2, <2>3, CutAt DEF Copied
  <2>5. wire[s] \o SubSeq(sending[s], 1, n) \in Seq(Byte)
    BY <2>3, <2>4
  <2> QED
    BY <1>2, <2>1, <2>4, <2>5 DEF Transmit, receiverVars, TypeOK
<1>3. ASSUME Ends(s), NEW n \in 0 .. Len(wire[s]),
             \/ wire' = wire
             \/ wire' = [wire EXCEPT ![s] = SubSeq(@, 1, n)]
      PROVE  TypeOK'
  <2>1. wire[s] \in Seq(Byte)
    BY DEF TypeOK
  <2>2. SubSeq(wire[s], 1, n) \in Seq(Byte) /\ << >> \in Seq(Byte)
    BY <2>1, CutAt
  <2> QED
    BY <1>3, <2>2 DEF Ends, receiverVars, TypeOK
<1>4. CASE Killed(s) \/ CutOff(s)
  <2>1. 0 \in 0 .. Len(wire[s])
    BY DEF TypeOK
  <2> QED
    BY <1>3, <1>4, <2>1 DEF Killed, CutOff
<1>5. CASE Reset(s)
  BY <1>3, <1>5 DEF Reset
<1> QED
  BY <1>1, <1>2, <1>4, <1>5 DEF SenderStep

\* A step of the receiver keeps the types.
LEMMA ReceiverTypeOK == TypeOK /\ recvPDU => TypeOK'
<1> SUFFICES ASSUME TypeOK, recvPDU PROVE TypeOK'
  OBVIOUS
<1>0. << >> \in Seq(Byte)
  OBVIOUS
<1>1. CASE pollCall
  <2>1. socket' \in Senders
    BY <1>1, LowestHasInput DEF pollCall, HasInput
  <2> QED
    BY <1>0, <1>1, <2>1 DEF pollCall, senderVars, TypeOK
<1>2. CASE recv
  <2>1. wire[socket] \in Seq(Byte) /\ got \in Seq(Byte)
    BY DEF TypeOK
  <2>2. Taken \in 0 .. Len(wire[socket]) /\ Len(got) + Taken <= need
    BY <1>2, TakenFits
  <2>3. /\ SubSeq(wire[socket], 1, Taken) \in Seq(Byte)
        /\ Len(SubSeq(wire[socket], 1, Taken)) = Taken
        /\ SubSeq(wire[socket], Taken + 1, Len(wire[socket])) \in Seq(Byte)
    BY <2>1, <2>2, CutAt
  <2>4. got' \in Seq(Byte) /\ Len(got') <= need'
    <3>1. got' = got \o SubSeq(wire[socket], 1, Taken) /\ need' = need
      BY <1>2 DEF recv
    <3>2. Len(got') = Len(got) + Taken
      BY <2>1, <2>3, <3>1
    <3> QED
      BY <2>1, <2>2, <2>3, <3>1, <3>2
  <2> QED
    BY <1>2, <2>3, <2>4 DEF recv, senderVars, TypeOK
<1>3. CASE Closed
  BY <1>0, <1>3 DEF Closed, senderVars, TypeOK
<1>4. CASE AfterHeader
  <2>1. CASE exit
    BY <2>1 DEF exit, senderVars, TypeOK
  <2>2. ASSUME NEW header \in Headers, PDULength(header) \in 2 .. BufferSize,
               receiver' = "payload", got' = << >>, need' = PDULength(header) - 2,
               UNCHANGED <<senderVars, wire, open, socket, delivered, torn>>
        PROVE  TypeOK'
    <3>1. need' \in Nat
      BY <2>2, FramingAssumption
    <3> QED
      BY <1>0, <2>2, <3>1 DEF senderVars, TypeOK
  <2> QED
    BY <1>3, <1>4, <2>1, <2>2 DEF AfterHeader
<1>5. CASE AfterPayload
  <2>1. CASE got # << >>
    <3>1. Append(delivered[socket], got) \in Seq(Seq(Byte))
      BY DEF TypeOK
    <3>2. (Len(got) < need) \in BOOLEAN
      OBVIOUS
    <3>3. /\ receiver' = "poll" /\ got' = << >> /\ need' = 0
          /\ delivered' = [delivered EXCEPT ![socket] = Append(@, got)]
          /\ torn' = [torn EXCEPT ![socket] = Len(got) < need]
          /\ UNCHANGED <<senderVars, wire, open, socket>>
      BY <1>5, <2>1 DEF AfterPayload
    <3>4. torn' \in [Senders -> BOOLEAN]
      BY <3>2, <3>3, Zenon DEF TypeOK
    <3> QED
      BY <1>0, <3>1, <3>3, <3>4 DEF senderVars, TypeOK
  <2> QED
    BY <1>3, <1>5, <2>1 DEF AfterPayload
<1> QED
  BY <1>1, <1>2, <1>4, <1>5 DEF recvPDU

\* The state of the senders, of the connections and of the receiver keep their types.
LEMMA NextTypeOK == TypeOK /\ [Next]_vars => TypeOK'
<1>1. TypeOK /\ UNCHANGED vars => TypeOK'
  BY DEF vars, senderVars, receiverVars, TypeOK
<1> QED
  BY <1>1, SenderTypeOK, ReceiverTypeOK DEF Next

\* Every state of senders, connections and receiver is well typed.
THEOREM TypeCorrect == Spec => []TypeOK
<1> QED
  BY InitTypeOK, NextTypeOK, PTL DEF Spec

-----------------------------------------------------------------------------
(* The steps of a sender *)

\* Of more PDUs than are delivered the next one has a place.
LEMMA PlaceOfNext ==
    ASSUME NEW m \in Nat, NEW n \in Nat, m < n
    PROVE  m + 1 \in 1 .. n
OBVIOUS

\* A piece of the stream stays one when the stream gets longer.
LEMMA PieceLonger ==
    ASSUME NEW piece \in Seq(Byte), NEW stream \in Seq(Byte), NEW longer, NEW from \in Nat,
           \A j \in 1 .. Len(stream) : longer[j] = stream[j],
           Piece(piece, stream, from), from + Len(piece) <= Len(stream)
    PROVE  Piece(piece, longer, from)
<1>1. Len(piece) \in Nat /\ Len(stream) \in Nat
  OBVIOUS
<1>2. \A j \in 1 .. Len(piece) : from + j \in 1 .. Len(stream)
  BY <1>1
<1> QED
  BY <1>2 DEF Piece

\* Adjacent pieces are one.
LEMMA PieceConcat ==
    ASSUME NEW a \in Seq(Byte), NEW b \in Seq(Byte), NEW stream, NEW from \in Nat,
           Piece(a, stream, from), Piece(b, stream, from + Len(a))
    PROVE  Piece(a \o b, stream, from)
<1> DEFINE c == a \o b
<1>1. /\ Len(c) = Len(a) + Len(b) /\ Len(a) \in Nat /\ Len(b) \in Nat
      /\ \A i \in 1 .. Len(a) : c[i] = a[i]
      /\ \A j \in 1 .. Len(b) : c[Len(a) + j] = b[j]
  BY ConcatAt
<1> HIDE DEF c
<1>2. ASSUME NEW j \in 1 .. Len(c) PROVE c[j] = stream[from + j]
  <2>1. CASE j <= Len(a)
    <3>1. j \in 1 .. Len(a)
      BY <1>1, <2>1
    <3> QED
      BY <1>1, <3>1 DEF Piece
  <2>2. CASE ~(j <= Len(a))
    <3>1. PICK i \in 1 .. Len(b) : Len(a) + i = j /\ (from + Len(a)) + i = from + j
      <4>1. /\ j - Len(a) \in 1 .. Len(b) /\ Len(a) + (j - Len(a)) = j
            /\ (from + Len(a)) + (j - Len(a)) = from + j
        BY <1>1, <2>2
      <4> QED
        BY <4>1
    <3>2. b[i] = stream[(from + Len(a)) + i]
      BY DEF Piece
    <3> QED
      BY <1>1, <3>1, <3>2
  <2> QED
    BY <2>1, <2>2
<1> QED
  BY <1>2 DEF Piece, c

\* A piece cut in two is two adjacent ones.
LEMMA PieceCut ==
    ASSUME NEW a \in Seq(Byte), NEW stream, NEW from \in Nat, NEW n \in 0 .. Len(a),
           Piece(a, stream, from)
    PROVE  /\ Piece(SubSeq(a, 1, n), stream, from)
           /\ Piece(SubSeq(a, n + 1, Len(a)), stream, from + n)
<1> DEFINE b == SubSeq(a, 1, n)  c == SubSeq(a, n + 1, Len(a))
<1>1. /\ Len(b) = n /\ Len(c) = Len(a) - n /\ Len(a) \in Nat /\ n \in Nat /\ n <= Len(a)
      /\ \A i \in 1 .. n : b[i] = a[i]
      /\ \A i \in 1 .. Len(a) - n : c[i] = a[n + i]
  BY CutAt
<1> HIDE DEF b, c
<1>2. ASSUME NEW i \in 1 .. Len(b) PROVE b[i] = stream[from + i]
  <2>1. i \in 1 .. Len(a) /\ i \in 1 .. n
    BY <1>1
  <2> QED
    BY <1>1, <2>1 DEF Piece
<1>3. ASSUME NEW i \in 1 .. Len(c) PROVE c[i] = stream[from + n + i]
  <2>1. i \in 1 .. Len(a) - n /\ n + i \in 1 .. Len(a) /\ from + (n + i) = from + n + i
    BY <1>1
  <2> QED
    BY <1>1, <2>1 DEF Piece
<1> QED
  BY <1>2, <1>3 DEF Piece, b, c

\* What a step leaves alone of a sender, the receiver's part included, is kept.
LEMMA SenderKept ==
    ASSUME NEW s \in Senders, SenderInv(s),
           sending'[s] = sending[s], wire'[s] = wire[s], gone'[s] = gone[s],
           sent'[s] = sent[s], delivered'[s] = delivered[s],
           open'[s] = open[s], torn'[s] = torn[s],
           \/ UNCHANGED <<receiver, socket, got, need>>
           \/ ~Reads(s) /\ ~Reads(s)'
    PROVE  SenderInv(s)'
<1>1. open[s] /\ ~torn[s] => Carried(s)'
  BY CarriedKept DEF SenderInv
<1>2. NothingFollows(s)'
  <2>1. CASE UNCHANGED <<receiver, socket, got, need>>
    BY <2>1 DEF SenderInv, NothingFollows, Reads, Receiving
  <2>2. CASE ~Reads(s) /\ ~Reads(s)'
    BY <2>2 DEF SenderInv, NothingFollows
  <2> QED
    BY <2>1, <2>2
<1> QED
  BY <1>1, <1>2 DEF SenderInv

\* A PDU that is sent goes behind everything in the stream.
LEMMA CarriedSend ==
    ASSUME TypeOK, NEW s \in Senders, sendPDU(s), Carried(s)
    PROVE  Carried(s)'
<1>1. PICK stream \in Seq(Byte), place \in [1 .. Len(sent[s]) + 1 -> Nat], taken \in Nat :
        /\ Laid(stream, place, sent[s])
        /\ Len(delivered[s]) <= Len(sent[s])
        /\ InOrder(s, stream, place[Len(delivered[s]) + 1], taken)
  BY DEF Carried
<1>2. PICK p \in Payloads : /\ sending' = [sending EXCEPT ![s] = PDU(p)]
                            /\ sent' = [sent EXCEPT ![s] = Append(@, p)]
  BY DEF sendPDU
<1>3. /\ sent[s] \in Seq(Payloads) /\ sending[s] = << >> /\ ~gone[s]
      /\ sending'[s] = PDU(p) /\ sent'[s] = Append(sent[s], p)
      /\ wire' = wire /\ gone' = gone /\ delivered' = delivered
      /\ UNCHANGED <<receiver, socket, got, need>>
  BY <1>2 DEF sendPDU, receiverVars, TypeOK
<1>4. PICK longer \in Seq(Byte), places \in [1 .. Len(sent[s]) + 2 -> Nat] :
        /\ Laid(longer, places, Append(sent[s], p))
        /\ Len(longer) = Len(stream) + Len(PDU(p))
        /\ \A j \in 1 .. Len(stream) : longer[j] = stream[j]
        /\ \A j \in 1 .. Len(PDU(p)) : longer[Len(stream) + j] = PDU(p)[j]
        /\ \A k \in 1 .. Len(sent[s]) + 1 : places[k] = place[k]
  BY <1>1, <1>3, LaidLonger
<1>0. /\ wire[s] \in Seq(Byte) /\ got \in Seq(Byte) /\ PDU(p) \in Seq(Byte)
      /\ delivered[s] \in Seq(Seq(Byte))
  BY BytesOfPDU DEF TypeOK
<1>5. /\ Len(delivered[s]) \in Nat /\ Len(sent[s]) \in Nat /\ Len(stream) \in Nat
      /\ Len(wire[s]) \in Nat /\ Len(got) \in Nat /\ Len(PDU(p)) \in Nat
      /\ Len(sent'[s]) = Len(sent[s]) + 1
  BY <1>0, <1>3
<1>6. PICK base \in Nat : base = place[Len(delivered[s]) + 1]
  <2>1. Len(delivered[s]) + 1 \in 1 .. Len(sent[s]) + 1
    BY <1>1, <1>5
  <2> QED
    BY <2>1
<1>7. places[Len(delivered[s]) + 1] = base
  <2>1. Len(delivered[s]) + 1 \in 1 .. Len(sent[s]) + 1
    BY <1>1, <1>5
  <2> QED
    BY <1>4, <1>6, <2>1
<1>8. /\ TakenTo(s, stream, base, taken) /\ Piece(wire[s], stream, taken)
      /\ taken + Len(wire[s]) = Len(stream)
  <2>1. Len(sending[s]) = 0
    BY <1>3
  <2> QED
    BY <1>1, <1>3, <1>5, <1>6, <2>1 DEF InOrder
<1>s. ASSUME NEW k \in Nat, taken = k + Len(got)
      PROVE  k + Len(got) <= Len(stream)
  <2> DEFINE g == Len(got)  w == Len(wire[s])  m == Len(stream)
  <2>1. g \in Nat /\ w \in Nat /\ m \in Nat /\ taken = k + g /\ taken + w = m
    BY <1>5, <1>8, <1>s
  <2> HIDE DEF g, w, m
  <2>2. k + g <= m
    BY <2>1
  <2> QED
    BY <2>2 DEF g, m
<1>9. TakenTo(s, longer, base, taken)'
  <2>1. CASE ~Reads(s)
    BY <1>3, <1>8, <2>1 DEF TakenTo, Reads, Receiving
  <2>2. CASE Reads(s) /\ receiver = "header"
    <3>1. need = 2 /\ Len(got) <= 2 /\ taken = base + Len(got) /\ Piece(got, stream, base)
      BY <1>8, <2>2 DEF TakenTo
    <3>2. base + Len(got) <= Len(stream)
      BY <1>s, <3>1
    <3>3. Piece(got, longer, base)
      BY <1>0, <1>4, <3>1, <3>2, PieceLonger
    <3> QED
      BY <1>3, <2>2, <3>1, <3>3 DEF TakenTo, Reads, Receiving, Piece
  <2>3. CASE Reads(s) /\ receiver # "header"
    <3>1. /\ Q!Undelivered(s) /\ need = Len(Q!NextPDU(s)) /\ Len(got) <= need
          /\ taken = base + 2 + Len(got) /\ Piece(got, stream, base + 2)
      BY <1>3, <1>8, <2>3 DEF TakenTo
    <3>2. base + 2 \in Nat /\ base + 2 + Len(got) <= Len(stream)
      <4>1. base + 2 \in Nat
        OBVIOUS
      <4> QED
        BY <1>s, <3>1, <4>1
    <3>3. Piece(got, longer, base + 2)
      BY <1>0, <1>4, <3>1, <3>2, PieceLonger
    <3>4. Q!Undelivered(s)' /\ Q!NextPDU(s)' = Q!NextPDU(s)
      <4>1. Len(delivered[s]) + 1 \in 1 .. Len(sent[s])
        <5>1. Len(delivered[s]) < Len(sent[s])
          BY <3>1 DEF Q!Undelivered
        <5> QED
          BY <1>5, <5>1, PlaceOfNext
      <4>2. sent'[s][Len(delivered[s]) + 1] = sent[s][Len(delivered[s]) + 1]
        BY <1>3, <4>1
      <4>3. Q!Undelivered(s)'
        <5>1. Len(delivered[s]) < Len(sent[s]) /\ Len(delivered'[s]) = Len(delivered[s])
          BY <1>3, <3>1 DEF Q!Undelivered
        <5>2. Len(delivered'[s]) < Len(sent'[s])
          BY <1>5, <5>1
        <5> QED
          BY <5>2 DEF Q!Undelivered
      <4> QED
        BY <1>3, <4>2, <4>3 DEF Q!NextPDU
    <3> QED
      BY <1>3, <2>3, <3>1, <3>3, <3>4 DEF TakenTo, Reads, Receiving, Piece
  <2> QED
    BY <2>1, <2>2, <2>3
<1>10. Piece(wire[s], longer, taken)
  <2>1. taken + Len(wire[s]) <= Len(stream)
    BY <1>5, <1>8
  <2> QED
    BY <1>0, <1>4, <1>8, <2>1, PieceLonger
<1>11. Piece(PDU(p), longer, taken + Len(wire[s]))
  BY <1>4, <1>8 DEF Piece
<1>12. taken + Len(wire[s]) + Len(PDU(p)) = Len(longer) /\ Len(longer) \in Nat
  <2> DEFINE q == Len(PDU(p))  w == Len(wire[s])  m == Len(stream)  n == Len(longer)
  <2>1. q \in Nat /\ w \in Nat /\ m \in Nat /\ taken + w = m /\ n = m + q
    BY <1>4, <1>5, <1>8
  <2> HIDE DEF q, w, m, n
  <2>2. taken + w + q = n /\ n \in Nat
    BY <2>1
  <2> QED
    BY <2>2 DEF q, w, n
<1>13. InOrder(s, longer, base, taken)'
  <2>1. /\ Piece(wire[s], longer, taken)'
        /\ Piece(sending[s], longer, taken + Len(wire[s]))'
    BY <1>3, <1>10, <1>11 DEF Piece
  <2>2. /\ taken + Len(wire'[s]) + Len(sending'[s]) <= Len(longer)
        /\ taken + Len(wire'[s]) + Len(sending'[s]) = Len(longer)
    BY <1>3, <1>12
  <2> QED
    BY <1>9, <2>1, <2>2 DEF InOrder
<1>14. Len(delivered'[s]) <= Len(sent'[s]) /\ places[Len(delivered'[s]) + 1] = base
  BY <1>1, <1>3, <1>5, <1>7
<1>15. Laid(longer, places, sent'[s]) /\ places \in [1 .. Len(sent'[s]) + 1 -> Nat]
  BY <1>3, <1>4, <1>5
<1> QED
  BY <1>13, <1>14, <1>15 DEF Carried

\* What send() copies moves from what is left to what is on the wire.
LEMMA CarriedTransmit ==
    ASSUME TypeOK, NEW s \in Senders, Transmit(s), Carried(s)
    PROVE  Carried(s)'
<1>1. PICK stream \in Seq(Byte), place \in [1 .. Len(sent[s]) + 1 -> Nat], taken \in Nat :
        /\ Laid(stream, place, sent[s])
        /\ Len(delivered[s]) <= Len(sent[s])
        /\ InOrder(s, stream, place[Len(delivered[s]) + 1], taken)
  BY DEF Carried
<1>2. PICK n \in 1 .. Min({Capacity - Len(wire[s]), Len(sending[s])}) :
        /\ wire' = [wire EXCEPT ![s] = @ \o SubSeq(sending[s], 1, n)]
        /\ sending' = [sending EXCEPT ![s] = Copied(s, n)]
  BY DEF Transmit
<1>3. n \in 0 .. Len(sending[s])
  BY CopiedFits
<1>4. /\ ~gone[s] /\ gone' = gone /\ sent' = sent /\ delivered' = delivered
      /\ UNCHANGED <<receiver, socket, got, need>>
      /\ wire'[s] = wire[s] \o SubSeq(sending[s], 1, n)
      /\ sending'[s] = SubSeq(sending[s], n + 1, Len(sending[s]))
      /\ wire[s] \in Seq(Byte) /\ sending[s] \in Seq(Byte)
  BY <1>2 DEF Transmit, receiverVars, TypeOK, Copied
<1>5. /\ TakenTo(s, stream, place[Len(delivered[s]) + 1], taken)
      /\ Piece(wire[s], stream, taken)
      /\ Piece(sending[s], stream, taken + Len(wire[s]))
      /\ taken + Len(wire[s]) + Len(sending[s]) = Len(stream)
  BY <1>1, <1>4 DEF InOrder
<1>6. TakenTo(s, stream, place[Len(delivered[s]) + 1], taken)'
  BY <1>4, <1>5 DEF TakenTo, Reads, Receiving, Piece, Q!Undelivered, Q!NextPDU
<1> DEFINE a == SubSeq(sending[s], 1, n)  b == SubSeq(sending[s], n + 1, Len(sending[s]))
<1>7. a \in Seq(Byte) /\ Len(a) = n /\ b \in Seq(Byte) /\ Len(b) = Len(sending[s]) - n
  BY <1>3, <1>4, CutAt
<1>8. taken + Len(wire[s]) \in Nat
  BY <1>4
<1>9. Piece(a, stream, taken + Len(wire[s])) /\ Piece(b, stream, taken + Len(wire[s]) + n)
  BY <1>3, <1>4, <1>5, <1>8, PieceCut
<1>10. Piece(wire[s] \o a, stream, taken)
  BY <1>4, <1>5, <1>7, <1>9, PieceConcat
<1>11. Len(wire[s] \o a) = Len(wire[s]) + n
  BY <1>4, <1>7
<1> HIDE DEF a, b
<1>12. /\ taken + Len(wire[s] \o a) = taken + Len(wire[s]) + n
       /\ taken + Len(wire[s] \o a) + Len(b) = Len(stream)
  <2> DEFINE w == Len(wire[s])  r == Len(sending[s])  m == Len(stream)
             c == Len(wire[s] \o a)  l == Len(b)
  <2>1. /\ w \in Nat /\ r \in Nat /\ m \in Nat /\ n \in Nat
        /\ c = w + n /\ l = r - n /\ taken + w + r = m
    <3>1. w \in Nat /\ r \in Nat /\ m \in Nat
      BY <1>4
    <3>2. n \in Nat
      BY <1>3, <3>1
    <3>3. c = w + n /\ l = r - n /\ taken + w + r = m
      BY <1>5, <1>7, <1>11 DEF a, b
    <3> QED
      BY <3>1, <3>2, <3>3
  <2> HIDE DEF w, r, m, c, l
  <2>2. taken + c = taken + w + n /\ taken + c + l = m
    BY <2>1
  <2> QED
    BY <2>2 DEF w, m, c, l
<1>13. wire'[s] = wire[s] \o a /\ sending'[s] = b
  BY <1>4 DEF a, b
<1>14. Piece(wire[s], stream, taken)' /\ Piece(sending[s], stream, taken + Len(wire[s]))'
  BY <1>9, <1>10, <1>12, <1>13 DEF Piece
<1>15. /\ taken + Len(wire'[s]) + Len(sending'[s]) <= Len(stream)
       /\ taken + Len(wire'[s]) + Len(sending'[s]) = Len(stream)
  BY <1>12, <1>13
<1>16. InOrder(s, stream, place[Len(delivered[s]) + 1], taken)'
  BY <1>6, <1>14, <1>15 DEF InOrder
<1> QED
  BY <1>1, <1>4, <1>16 DEF Carried

\* A sender that ends takes back what it has not copied, and perhaps the end of
\* what it has: the rest is where it was.
LEMMA CarriedEnds ==
    ASSUME TypeOK, NEW s \in Senders, ~gone[s], Ends(s), Carried(s),
           Len(wire'[s]) \in 0 .. Len(wire[s]),
           \A j \in 1 .. Len(wire'[s]) : wire'[s][j] = wire[s][j]
    PROVE  Carried(s)'
<1>1. PICK stream \in Seq(Byte), place \in [1 .. Len(sent[s]) + 1 -> Nat], taken \in Nat :
        /\ Laid(stream, place, sent[s])
        /\ Len(delivered[s]) <= Len(sent[s])
        /\ InOrder(s, stream, place[Len(delivered[s]) + 1], taken)
  BY DEF Carried
<1>2. /\ gone'[s] /\ sending'[s] = << >> /\ sent' = sent /\ delivered' = delivered
      /\ UNCHANGED <<receiver, socket, got, need>>
      /\ wire[s] \in Seq(Byte) /\ sending[s] \in Seq(Byte)
  BY DEF Ends, receiverVars, TypeOK
<1>3. TakenTo(s, stream, place[Len(delivered[s]) + 1], taken)'
  BY <1>1, <1>2 DEF InOrder, TakenTo, Reads, Receiving, Piece, Q!Undelivered, Q!NextPDU
<1>4. \A j \in 1 .. Len(wire'[s]) : j \in 1 .. Len(wire[s])
  BY <1>2
<1>5. Piece(wire[s], stream, taken)' /\ Piece(sending[s], stream, taken + Len(wire[s]))'
  BY <1>1, <1>2, <1>4 DEF InOrder, Piece
<1>6. taken + Len(wire'[s]) + Len(sending'[s]) <= Len(stream)
  <2> DEFINE w == Len(wire[s])  r == Len(sending[s])  m == Len(stream)
             v == Len(wire'[s])  q == Len(sending'[s])
  <2>1. /\ w \in Nat /\ r \in Nat /\ m \in Nat /\ v \in 0 .. w /\ q = 0
        /\ taken + w + r <= m
    <3>1. w \in Nat /\ r \in Nat /\ m \in Nat /\ v \in 0 .. w
      BY <1>2
    <3>2. q = 0
      BY <1>2
    <3>3. taken + w + r <= m
      BY <1>1 DEF InOrder
    <3> QED
      BY <3>1, <3>2, <3>3
  <2> HIDE DEF w, r, m, v, q
  <2>2. taken + v + q <= m
    BY <2>1
  <2> QED
    BY <2>2 DEF m, v, q
<1>7. InOrder(s, stream, place[Len(delivered[s]) + 1], taken)'
  BY <1>2, <1>3, <1>5, <1>6 DEF InOrder
<1> QED
  BY <1>1, <1>2, <1>7 DEF Carried

\* A step of a sender keeps the invariant; to the queue of its PDUs it is a PDU
\* sent, its end, or nothing.
LEMMA SenderKeeps ==
    ASSUME IInv, NEW s \in Senders, SenderStep(s) \/ Killed(s) \/ Reset(s)
    PROVE  IInv'
<1>1. TypeOK' /\ TypeOK
  BY SenderTypeOK DEF IInv
<1>2. ASSUME NEW other \in Senders, other # s PROVE SenderInv(other)'
  <2>1. /\ sending'[other] = sending[other] /\ wire'[other] = wire[other]
        /\ gone'[other] = gone[other] /\ sent'[other] = sent[other]
        /\ UNCHANGED receiverVars
    BY <1>1, <1>2 DEF TypeOK, SenderStep, sendPDU, Transmit, CutOff, Killed, Reset, Ends
  <2> QED
    BY <2>1, SenderKept DEF IInv, receiverVars
<1>3. SenderInv(s)'
  <2>1. CASE sendPDU(s)
    <3>1. PICK p \in Payloads : sent' = [sent EXCEPT ![s] = Append(@, p)]
      BY <2>1 DEF sendPDU
    <3>2. << >> \in Range(sent[s]) => << >> \in Range(sent'[s])
      <4>1. sent[s] \in Seq(Payloads) /\ sent'[s] = Append(sent[s], p)
        BY <1>1, <3>1 DEF TypeOK
      <4>2. \A k \in DOMAIN sent[s] : k \in DOMAIN sent'[s] /\ sent'[s][k] = sent[s][k]
        BY <4>1
      <4> QED
        BY <4>2 DEF Range
    <3>3. ~gone'[s] /\ UNCHANGED <<wire, gone, receiverVars>>
      BY <2>1 DEF sendPDU
    <3>4. NothingFollows(s)'
      BY <3>3 DEF IInv, SenderInv, NothingFollows, Reads, Receiving, receiverVars
    <3> QED
      BY <1>1, <2>1, <3>2, <3>3, <3>4, CarriedSend DEF IInv, SenderInv, receiverVars
  <2>2. CASE Transmit(s)
    <3>1. ~gone[s] /\ UNCHANGED <<gone, sent, receiverVars>>
      BY <2>2 DEF Transmit
    <3>2. NothingFollows(s)'
      BY <3>1 DEF IInv, SenderInv, NothingFollows, Reads, Receiving, receiverVars
    <3> QED
      BY <1>1, <2>2, <3>1, <3>2, CarriedTransmit DEF IInv, SenderInv, receiverVars
  <2>3. CASE CutOff(s) \/ Killed(s) \/ Reset(s)
    <3>1. ~gone[s] /\ Ends(s) /\ gone'[s] /\ sending'[s] = << >>
      BY <1>1, <2>3 DEF CutOff, Killed, Reset, Ends, TypeOK
    <3>2. /\ Len(wire'[s]) \in 0 .. Len(wire[s])
          /\ \A j \in 1 .. Len(wire'[s]) : wire'[s][j] = wire[s][j]
      <4>1. wire[s] \in Seq(Byte)
        BY <1>1 DEF TypeOK
      <4>2. CASE wire' = wire
        <5>1. Len(wire[s]) \in 0 .. Len(wire[s])
          BY <4>1
        <5> QED
          BY <4>2, <5>1
      <4>3. CASE Reset(s)
        <5>1. PICK n \in 0 .. Len(wire[s]) : wire' = [wire EXCEPT ![s] = SubSeq(@, 1, n)]
          BY <4>3 DEF Reset
        <5>2. wire'[s] = SubSeq(wire[s], 1, n)
          BY <1>1, <5>1 DEF TypeOK
        <5>3. Len(wire'[s]) = n /\ \A i \in 1 .. n : wire'[s][i] = wire[s][i]
          BY <4>1, <5>2, CutAt
        <5> QED
          BY <5>3
      <4> QED
        BY <2>3, <4>2, <4>3 DEF CutOff, Killed
    <3>3. NothingFollows(s)'
      BY <3>1 DEF Ends, IInv, SenderInv, NothingFollows, Reads, Receiving, receiverVars
    <3> QED
      BY <1>1, <3>1, <3>2, <3>3, CarriedEnds DEF Ends, IInv, SenderInv, receiverVars
  <2> QED
    BY <2>1, <2>2, <2>3 DEF SenderStep
<1>4. ExitInv'
  <2>1. gone[socket] => gone'[socket']
    BY <1>1 DEF TypeOK, SenderStep, sendPDU, Transmit, CutOff, Killed, Reset, Ends, receiverVars
  <2>2. UNCHANGED <<receiver, got>>
    BY DEF SenderStep, sendPDU, Transmit, CutOff, Killed, Reset, Ends, receiverVars
  <2> QED
    BY <2>1, <2>2 DEF IInv, ExitInv
<1> QED
  BY <1>1, <1>2, <1>3, <1>4 DEF IInv

-----------------------------------------------------------------------------
(* The steps of the receiver *)

\* The receiver touches nobody but the sender whose connection it works on.
LEMMA OthersKept ==
    ASSUME IInv, NEW s \in Senders, s # socket, socket' = socket,
           UNCHANGED senderVars,
           wire'[s] = wire[s], open'[s] = open[s], delivered'[s] = delivered[s],
           torn'[s] = torn[s]
    PROVE  SenderInv(s)'
<1>1. ~Reads(s) /\ ~Reads(s)'
  BY DEF Reads
<1> QED
  BY <1>1, SenderKept DEF IInv, senderVars

\* recvPDU begins with a connection of which it has taken whole PDUs only.
LEMMA PollKeeps == IInv /\ pollCall => IInv'
<1> SUFFICES ASSUME IInv, pollCall PROVE IInv'
  OBVIOUS
<1>1. TypeOK /\ TypeOK'
  BY ReceiverTypeOK DEF IInv, recvPDU
<1>2. /\ receiver = "poll" /\ receiver' = "header" /\ socket' \in Senders /\ open[socket']
      /\ got' = << >> /\ need' = 2
      /\ UNCHANGED <<sending, gone, sent, wire, open, delivered, torn>>
  BY LowestHasInput DEF pollCall, HasInput, senderVars
<1>3. ASSUME NEW s \in Senders PROVE SenderInv(s)'
  <2>1. ~Reads(s) /\ SenderInv(s)
    BY <1>2 DEF Reads, Receiving, IInv
  <2>2. CASE s # socket'
    <3>1. ~Reads(s)'
      BY <2>2 DEF Reads
    <3> QED
      BY <1>2, <2>1, <3>1, SenderKept
  <2>3. CASE s = socket'
    <3>1. Reads(s)' /\ receiver' = "header"
      BY <1>2, <2>3 DEF Reads, Receiving
    <3>2. NothingFollows(s)'
      BY <1>2, <2>1, <2>3, <3>1 DEF SenderInv, NothingFollows
    <3>3. ASSUME Carried(s) PROVE Carried(s)'
      <4>1. PICK stream \in Seq(Byte), place \in [1 .. Len(sent[s]) + 1 -> Nat], taken \in Nat :
              /\ Laid(stream, place, sent[s])
              /\ Len(delivered[s]) <= Len(sent[s])
              /\ InOrder(s, stream, place[Len(delivered[s]) + 1], taken)
        BY <3>3 DEF Carried
      <4>2. taken = place[Len(delivered[s]) + 1]
        BY <2>1, <4>1 DEF InOrder, TakenTo
      <4>3. got' = << >> /\ Len(got') = 0
        BY <1>2
      <4>4. TakenTo(s, stream, place[Len(delivered[s]) + 1], taken)'
        BY <1>2, <3>1, <4>2, <4>3 DEF TakenTo, Piece
      <4>5. InOrder(s, stream, place[Len(delivered[s]) + 1], taken)'
        BY <1>2, <4>1, <4>4 DEF InOrder, Piece
      <4> QED
        BY <1>2, <4>1, <4>5 DEF Carried
    <3> QED
      BY <1>2, <2>1, <3>2, <3>3 DEF SenderInv
  <2> QED
    BY <2>2, <2>3
<1> QED
  BY <1>1, <1>2, <1>3 DEF IInv, ExitInv

\* What recv() takes moves from the wire to what it has of the PDU.
LEMMA RecvKeeps == IInv /\ recv => IInv'
<1> SUFFICES ASSUME IInv, recv PROVE IInv'
  OBVIOUS
<1>1. TypeOK /\ TypeOK'
  BY ReceiverTypeOK DEF IInv, recvPDU
<1>s. PICK s \in Senders : s = socket
  BY <1>1 DEF TypeOK
<1>t. PICK t \in Nat : t = Taken
  BY <1>1, TakenFits
<1>a. PICK a, b : a = SubSeq(wire[s], 1, t) /\ b = SubSeq(wire[s], t + 1, Len(wire[s]))
  OBVIOUS
<1>2. /\ s = socket /\ socket' = s /\ Reads(s) /\ wire[s] # << >> /\ SenderInv(s)
      /\ UNCHANGED <<sending, gone, sent, open, receiver, socket, need, delivered, torn>>
      /\ wire[s] \in Seq(Byte) /\ got \in Seq(Byte) /\ sending[s] \in Seq(Byte)
      /\ got' = got \o a /\ wire' = [wire EXCEPT ![s] = b]
  BY <1>s, <1>t, <1>a, <1>1 DEF recv, Reads, IInv, TypeOK, senderVars
<1>3. wire'[s] = b
  BY <1>1, <1>2 DEF TypeOK
<1>4. open[s] /\ ~torn[s]
  BY <1>2 DEF SenderInv, NothingFollows
<1>5. t \in 0 .. Len(wire[s]) /\ Len(got) + t <= need
  BY <1>1, <1>s, <1>t, TakenFits
<1>6. a \in Seq(Byte) /\ Len(a) = t /\ b \in Seq(Byte) /\ Len(b) = Len(wire[s]) - t
  <2>1. PICK w \in Seq(Byte) : w = wire[s]
    BY <1>2
  <2>2. /\ SubSeq(w, 1, t) \in Seq(Byte) /\ Len(SubSeq(w, 1, t)) = t
        /\ SubSeq(w, t + 1, Len(w)) \in Seq(Byte) /\ Len(SubSeq(w, t + 1, Len(w))) = Len(w) - t
    BY <1>5, <2>1, CutAt
  <2> QED
    BY <1>a, <2>1, <2>2
<1>7. /\ got' \in Seq(Byte) /\ Len(got') = Len(got) + t
      /\ Len(got) \in Nat /\ Len(wire[s]) \in Nat /\ t \in Nat
  BY <1>2, <1>5, <1>6, ConcatAt
<1>8. Carried(s)'
  <2>1. PICK stream \in Seq(Byte), place \in [1 .. Len(sent[s]) + 1 -> Nat], taken \in Nat :
          /\ Laid(stream, place, sent[s])
          /\ Len(delivered[s]) <= Len(sent[s])
          /\ InOrder(s, stream, place[Len(delivered[s]) + 1], taken)
    BY <1>2, <1>4 DEF SenderInv, Carried
  <2>2. PICK base : base = place[Len(delivered[s]) + 1]
    OBVIOUS
  <2>3. /\ TakenTo(s, stream, base, taken) /\ Piece(wire[s], stream, taken)
        /\ Piece(sending[s], stream, taken + Len(wire[s]))
    BY <2>1, <2>2 DEF InOrder
  <2>4. Piece(a, stream, taken) /\ Piece(b, stream, taken + t)
    BY <1>2, <1>5, <2>3, PieceCut, <1>a
  <2>5. base \in Nat
    <3>1. sent[s] \in Seq(Payloads) /\ delivered[s] \in Seq(Seq(Byte))
      BY <1>1, <1>2 DEF TypeOK
    <3>2. Len(delivered[s]) + 1 \in 1 .. Len(sent[s]) + 1
      BY <2>1, <3>1
    <3> QED
      BY <2>2, <3>2
  <2>6. /\ taken + t \in Nat
        /\ taken + t + Len(b) = taken + Len(wire[s])
    <3> DEFINE w == Len(wire[s])  l == Len(b)
    <3>1. w \in Nat /\ t \in Nat /\ l = w - t
      BY <1>6, <1>7
    <3> HIDE DEF w, l
    <3>2. taken + t \in Nat /\ taken + t + l = taken + w
      BY <3>1
    <3> QED
      BY <3>2 DEF w, l
  <2>7. ASSUME NEW from \in Nat, taken = from + Len(got), Piece(got, stream, from)
        PROVE  taken + t = from + Len(got') /\ Piece(got', stream, from)
    <3>1. Piece(got \o a, stream, from)
      BY <1>2, <1>6, <2>4, <2>7, PieceConcat
    <3>2. taken + t = from + Len(got')
      BY <1>7, <2>7
    <3> QED
      BY <1>2, <3>1, <3>2
  <2>8. TakenTo(s, stream, base, taken + t)'
    <3>1. Reads(s)'
      BY <1>2 DEF Reads, Receiving
    <3>2. CASE receiver = "header"
      <4>1. need = 2 /\ taken = base + Len(got) /\ Piece(got, stream, base)
        BY <1>2, <2>3, <3>2 DEF TakenTo
      <4>2. taken + t = base + Len(got') /\ Piece(got', stream, base)
        BY <2>5, <2>7, <4>1
      <4>3. Len(got') <= 2
        BY <1>5, <1>7, <4>1
      <4>4. Piece(got, stream, base)'
        BY <4>2 DEF Piece
      <4> QED
        BY <1>2, <3>1, <3>2, <4>1, <4>2, <4>3, <4>4 DEF TakenTo
    <3>3. CASE receiver # "header"
      <4>1. /\ Q!Undelivered(s) /\ need = Len(Q!NextPDU(s))
            /\ taken = base + 2 + Len(got) /\ Piece(got, stream, base + 2)
        BY <1>2, <2>3, <3>3 DEF TakenTo
      <4>2. base + 2 \in Nat
        BY <2>5
      <4>3. taken + t = base + 2 + Len(got') /\ Piece(got', stream, base + 2)
        BY <2>7, <4>1, <4>2
      <4>4. Len(got') <= need'
        BY <1>2, <1>5, <1>7
      <4>5. Piece(got, stream, base + 2)'
        BY <4>3 DEF Piece
      <4>6. Q!Undelivered(s)' /\ need' = Len(Q!NextPDU(s)')
        BY <1>2, <4>1 DEF Q!Undelivered, Q!NextPDU
      <4> QED
        BY <1>2, <3>1, <3>3, <4>3, <4>4, <4>5, <4>6 DEF TakenTo
    <3> QED
      BY <3>2, <3>3
  <2>9. /\ Piece(wire[s], stream, taken + t)'
        /\ Piece(sending[s], stream, taken + t + Len(wire[s]))'
    <3>1. Piece(sending[s], stream, taken + t + Len(b))
      BY <2>3, <2>6
    <3> QED
      BY <1>2, <1>3, <2>4, <3>1 DEF Piece
  <2>10. InOrder(s, stream, base, taken + t)'
    <3>1. taken + t + Len(wire'[s]) = taken + Len(wire[s])
      BY <1>3, <2>6
    <3>2. /\ taken + t + Len(wire'[s]) + Len(sending'[s]) <= Len(stream)
          /\ ~gone'[s] => taken + t + Len(wire'[s]) + Len(sending'[s]) = Len(stream)
      BY <1>2, <2>1, <3>1 DEF InOrder
    <3> QED
      BY <1>2, <2>8, <2>9, <3>2 DEF InOrder
  <2>11. taken + t \in Nat
    BY <2>6
  <2> QED
    BY <1>2, <2>1, <2>2, <2>10, <2>11 DEF Carried
<1>9. SenderInv(s)'
  BY <1>2, <1>4, <1>8 DEF SenderInv, NothingFollows
<1>10. ASSUME NEW other \in Senders, other # socket PROVE SenderInv(other)'
  BY <1>1, <1>2, <1>10, OthersKept DEF TypeOK, senderVars
<1>11. ExitInv'
  BY <1>2 DEF Reads, Receiving, ExitInv
<1> QED
  BY <1>1, <1>s, <1>9, <1>10, <1>11 DEF IInv

\* recvPDU works on an open connection; on one that a torn PDU ended it finds nothing.
LEMMA ReadsOpen ==
    ASSUME IInv, Receiving
    PROVE  /\ socket \in Senders /\ Reads(socket) /\ SenderInv(socket) /\ open[socket]
           /\ torn[socket] => /\ receiver = "header" /\ got = << >>
                              /\ gone[socket] /\ wire[socket] = << >>
           /\ ~torn[socket] => Carried(socket)
<1>1. socket \in Senders /\ SenderInv(socket) /\ Reads(socket)
  BY DEF IInv, TypeOK, Reads
<1> QED
  BY <1>1 DEF SenderInv, NothingFollows

\* A connection is closed when its sender has ended, or has sent a PDU that is empty.
LEMMA ClosedKeeps ==
    ASSUME IInv, TypeOK', Receiving, Closed,
           gone[socket] \/ (Q!Undelivered(socket) /\ Q!NextPDU(socket) = << >>)
    PROVE  IInv'
<1>1. PICK s \in Senders : s = socket
  BY ReadsOpen
<1>2. /\ UNCHANGED <<sending, gone, sent, wire, socket, delivered, torn>>
      /\ receiver' = "poll" /\ open' = [open EXCEPT ![s] = FALSE] /\ open'[s] = FALSE
  BY <1>1 DEF Closed, senderVars, IInv, TypeOK
<1>3. SenderInv(s)'
  <2>1. gone[s] \/ << >> \in Range(sent[s])
    <3>1. CASE Q!Undelivered(s) /\ Q!NextPDU(s) = << >>
      <4>1. sent[s] \in Seq(Payloads) /\ delivered[s] \in Seq(Seq(Byte))
        BY DEF IInv, TypeOK
      <4>2. Len(delivered[s]) + 1 \in DOMAIN sent[s]
        BY <3>1, <4>1 DEF Q!Undelivered
      <4> QED
        BY <3>1, <4>2 DEF Range, Q!NextPDU
    <3> QED
      BY <1>1, <3>1
  <2>2. SenderInv(s)
    BY DEF IInv
  <2>3. ~Reads(s)'
    BY <1>2 DEF Reads, Receiving
  <2>4. NothingFollows(s)'
    BY <1>2, <2>2, <2>3 DEF SenderInv, NothingFollows
  <2> QED
    BY <1>2, <2>1, <2>2, <2>4 DEF SenderInv
<1>4. ASSUME NEW other \in Senders, other # socket PROVE SenderInv(other)'
  <2>1. open'[other] = open[other]
    BY <1>1, <1>2, <1>4 DEF IInv, TypeOK
  <2> QED
    BY <1>2, <1>4, <2>1, OthersKept DEF senderVars
<1>5. ExitInv'
  BY <1>2 DEF ExitInv
<1> QED
  BY <1>1, <1>3, <1>4, <1>5 DEF IInv

\* What a complete header says is the length of the PDU that comes next.
LEMMA HeaderSaysLength ==
    ASSUME IInv, receiver = "header", ~torn[socket]
    PROVE  /\ need = 2 /\ Len(got) <= 2
           /\ Len(got) = 2 => /\ Q!Undelivered(socket) /\ Q!NextPDU(socket) \in Payloads
                              /\ PDULength(got) = Len(Q!NextPDU(socket)) + 2
<1>1. Reads(socket) /\ socket \in Senders /\ Carried(socket)
  BY ReadsOpen DEF Receiving
<1>2. PICK s \in Senders : s = socket
  BY <1>1
<1>3. PICK stream \in Seq(Byte), place \in [1 .. Len(sent[s]) + 1 -> Nat], taken \in Nat :
        /\ Laid(stream, place, sent[s])
        /\ Len(delivered[s]) <= Len(sent[s])
        /\ InOrder(s, stream, place[Len(delivered[s]) + 1], taken)
  BY <1>1, <1>2 DEF Carried
<1>d. PICK d \in Nat : d = Len(delivered[s])
  <2>1. delivered[s] \in Seq(Seq(Byte))
    BY DEF IInv, TypeOK
  <2> QED
    BY <2>1
<1>4. PICK base : d = Len(delivered[s]) /\ base = place[d + 1]
  BY <1>d
<1>5. /\ need = 2 /\ Len(got) <= 2 /\ taken = base + Len(got) /\ Piece(got, stream, base)
      /\ taken + Len(wire[s]) + Len(sending[s]) <= Len(stream)
  BY <1>1, <1>2, <1>3, <1>4 DEF InOrder, TakenTo
<1>6. /\ sent[s] \in Seq(Payloads) /\ wire[s] \in Seq(Byte) /\ sending[s] \in Seq(Byte)
      /\ got \in Seq(Byte)
  BY DEF IInv, TypeOK
<1>7. ASSUME Len(got) = 2
      PROVE  /\ Q!Undelivered(s) /\ Q!NextPDU(s) \in Payloads
             /\ PDULength(got) = Len(Q!NextPDU(s)) + 2
  <2>1. /\ base \in Nat /\ base <= Len(stream)
        /\ d = Len(sent[s]) => base = Len(stream)
        /\ d < Len(sent[s]) => d + 1 \in 1 .. Len(sent[s]) /\ sent[s][d + 1] \in Payloads
    <3>1. d <= Len(sent[s])
      BY <1>3, <1>4
    <3>2. /\ place[d + 1] \in Nat /\ place[d + 1] <= Len(stream)
          /\ d = Len(sent[s]) => place[d + 1] = Len(stream)
          /\ d < Len(sent[s]) => d + 1 \in 1 .. Len(sent[s]) /\ sent[s][d + 1] \in Payloads
      <4>1. PICK pdus \in Seq(Payloads) : pdus = sent[s]
        BY <1>6
      <4>2. place \in [1 .. Len(pdus) + 1 -> Nat] /\ Laid(stream, place, pdus) /\ d <= Len(pdus)
        BY <1>3, <3>1, <4>1
      <4>3. /\ place[d + 1] \in Nat /\ place[d + 1] <= Len(stream)
            /\ d = Len(pdus) => place[d + 1] = Len(stream)
            /\ d < Len(pdus) => d + 1 \in 1 .. Len(pdus) /\ pdus[d + 1] \in Payloads
        BY <4>2, PlacesInStream
      <4> QED
        BY <4>1, <4>3
    <3> QED
      BY <1>4, <3>2
  <2>2. base + 2 <= Len(stream)
    <3> DEFINE w == Len(wire[s])  r == Len(sending[s])  m == Len(stream)
    <3>1. w \in Nat /\ r \in Nat /\ m \in Nat /\ taken = base + 2 /\ taken + w + r <= m
      BY <1>5, <1>6, <1>7
    <3> HIDE DEF w, r, m
    <3>2. base + 2 <= m
      BY <2>1, <3>1
    <3> QED
      BY <3>2 DEF m
  <2>3. d < Len(sent[s])
    <3>1. base # Len(stream)
      BY <2>1, <2>2
    <3> QED
      BY <1>3, <1>4, <1>6, <2>1, <3>1
  <2>4. Q!Undelivered(s) /\ Q!NextPDU(s) = sent[s][d + 1]
    BY <1>4, <2>3 DEF Q!Undelivered, Q!NextPDU
  <2>5. /\ stream[place[d + 1] + 1] = High(sent[s][d + 1])
        /\ stream[place[d + 1] + 2] = Low(sent[s][d + 1])
    BY <1>3, <2>1, <2>3 DEF Laid
  <2>6. got[1] = stream[base + 1] /\ got[2] = stream[base + 2]
    BY <1>5, <1>7 DEF Piece
  <2>7. High(sent[s][d + 1]) * UInt8 + Low(sent[s][d + 1]) = Len(sent[s][d + 1]) + 2
    BY <2>1, <2>3, LengthInTwoBytes
  <2>8. got[1] = High(sent[s][d + 1]) /\ got[2] = Low(sent[s][d + 1])
    BY <1>4, <2>5, <2>6
  <2>9. PDULength(got) = Len(sent[s][d + 1]) + 2
    BY <2>7, <2>8 DEF PDULength
  <2> QED
    BY <2>1, <2>3, <2>4, <2>9
<1> QED
  BY <1>2, <1>5, <1>7

\* Of an incomplete header the sender is the reason, and there is no more of it.
LEMMA HeaderReturns ==
    ASSUME IInv, receiver = "header", Returns, Len(got) # 2
    PROVE  gone[socket] /\ wire[socket] = << >> /\ (got # << >> => Len(got) = 1)
<1>1. CASE torn[socket]
  BY <1>1, ReadsOpen DEF Receiving
<1>2. CASE ~torn[socket]
  <2>1. need = 2 /\ Len(got) <= 2
    BY <1>2, HeaderSaysLength
  <2>2. got \in Seq(Byte)
    BY DEF IInv, TypeOK
  <2>3. got # << >> => Len(got) = 1
    <3>1. got # << >> => Len(got) # 0
      BY <2>2, EmptySeq
    <3>2. PICK l \in Nat : l = Len(got)
      BY <2>2
    <3>3. l # 0 => l = 1
      BY <2>1, <3>2
    <3> QED
      BY <3>1, <3>2, <3>3
  <2> QED
    BY <2>1, <2>3 DEF Returns
<1> QED
  BY <1>1, <1>2

\* What recv() has of a payload is the beginning of the PDU that comes next, unless
\* the header was cut in two, and then it has nothing.
LEMMA PayloadIsNext ==
    ASSUME IInv, receiver = "payload"
    PROVE  /\ ~torn[socket]
           /\ \/ gone[socket] /\ got = << >> /\ wire[socket] = << >>
              \/ /\ Q!Undelivered(socket) /\ Q!NextPDU(socket) \in Payloads
                 /\ need = Len(Q!NextPDU(socket)) /\ Len(got) <= need
                 /\ got = SubSeq(Q!NextPDU(socket), 1, Len(got))
                 /\ Len(got) = need => got = Q!NextPDU(socket)
<1>1. Reads(socket) /\ socket \in Senders /\ Carried(socket) /\ ~torn[socket]
  BY ReadsOpen DEF Receiving
<1>2. PICK s \in Senders : s = socket
  BY <1>1
<1>3. PICK stream \in Seq(Byte), place \in [1 .. Len(sent[s]) + 1 -> Nat], taken \in Nat :
        /\ Laid(stream, place, sent[s])
        /\ Len(delivered[s]) <= Len(sent[s])
        /\ InOrder(s, stream, place[Len(delivered[s]) + 1], taken)
  BY <1>1, <1>2 DEF Carried
<1>4. CASE gone[s] /\ wire[s] = << >> /\ got = << >>
  BY <1>1, <1>2, <1>4
<1>5. CASE ~(gone[s] /\ wire[s] = << >> /\ got = << >>)
  <2>1. PICK k : k = Len(delivered[s]) + 1
    OBVIOUS
  <2>2. /\ Q!Undelivered(s) /\ need = Len(sent[s][k]) /\ Len(got) <= need
        /\ Piece(got, stream, place[k] + 2) /\ Q!NextPDU(s) = sent[s][k]
    BY <1>1, <1>2, <1>3, <1>5, <2>1 DEF InOrder, TakenTo, Q!NextPDU
  <2>3. sent[s] \in Seq(Payloads) /\ delivered[s] \in Seq(Seq(Byte)) /\ got \in Seq(Byte)
    BY DEF IInv, TypeOK
  <2>4. k \in 1 .. Len(sent[s])
    BY <2>1, <2>2, <2>3 DEF Q!Undelivered
  <2>5. sent[s][k] \in Payloads /\ sent[s][k] \in Seq(Byte)
    BY <2>3, <2>4, FramingAssumption
  <2>6. \A j \in 1 .. Len(sent[s][k]) : stream[place[k] + 2 + j] = sent[s][k][j]
    BY <1>3, <2>4 DEF Laid
  <2>7. \A j \in 1 .. Len(got) : j \in 1 .. Len(sent[s][k])
    BY <2>2, <2>3, <2>5
  <2>8. \A j \in 1 .. Len(got) : got[j] = sent[s][k][j]
    BY <2>2, <2>6, <2>7 DEF Piece
  <2>9. /\ got = SubSeq(sent[s][k], 1, Len(got))
        /\ Len(got) = Len(sent[s][k]) => got = sent[s][k]
    BY <2>2, <2>3, <2>5, <2>8, PrefixIs
  <2> QED
    BY <1>1, <1>2, <2>2, <2>5, <2>9
<1> QED
  BY <1>4, <1>5

\* Of a sender that recvPDU closes nothing more is expected.
LEMMA CloseHasCause ==
    ASSUME IInv, Receiving, Returns,
           got = << >> \/ (receiver = "header" /\ Len(got) # 2)
    PROVE  gone[socket] \/ (Q!Undelivered(socket) /\ Q!NextPDU(socket) = << >>)
<1>1. CASE receiver = "header"
  <2>1. Len(got) # 2
    OBVIOUS
  <2> QED
    BY <1>1, <2>1, HeaderReturns
<1>2. CASE receiver = "payload" /\ got = << >>
  <2>1. CASE Len(got) = need /\ ~gone[socket]
    <3>1. Q!Undelivered(socket) /\ got = Q!NextPDU(socket)
      BY <1>2, <2>1, PayloadIsNext
    <3> QED
      BY <1>2, <3>1
  <2> QED
    BY <2>1 DEF Returns
<1> QED
  BY <1>1, <1>2 DEF Receiving

\* Of a sender that has ended, and of which all that came is taken, the rest of a
\* header that was cut in two can be dropped.
LEMMA NothingLeft ==
    ASSUME TypeOK, NEW s \in Senders, Carried(s),
           gone[s], wire[s] = << >>, sending[s] = << >>,
           UNCHANGED <<sending, gone, sent, wire, delivered>>,
           ~Reads(s)' \/ (receiver' = "payload" /\ got' = << >>)
    PROVE  Carried(s)'
<1>1. PICK stream \in Seq(Byte), place \in [1 .. Len(sent[s]) + 1 -> Nat], taken \in Nat :
        /\ Laid(stream, place, sent[s])
        /\ Len(delivered[s]) <= Len(sent[s])
        /\ InOrder(s, stream, place[Len(delivered[s]) + 1], taken)
  BY DEF Carried
<1>2. PICK pdus \in Seq(Payloads), d \in Nat : pdus = sent[s] /\ d = Len(delivered[s])
  <2>1. sent[s] \in Seq(Payloads) /\ delivered[s] \in Seq(Seq(Byte))
    BY DEF TypeOK
  <2> QED
    BY <2>1
<1>3. PICK base : base = place[d + 1]
  OBVIOUS
<1>4. base \in Nat /\ base <= Len(stream)
  <2>1. /\ place \in [1 .. Len(pdus) + 1 -> Nat] /\ Laid(stream, place, pdus)
        /\ d <= Len(pdus)
    BY <1>1, <1>2
  <2>2. place[d + 1] \in Nat /\ place[d + 1] <= Len(stream)
    BY <1>2, <2>1, PlacesInStream
  <2> QED
    BY <1>3, <2>2
<1>5. Len(wire[s]) = 0 /\ Len(sending[s]) = 0
  OBVIOUS
<1>6. base + Len(wire[s]) + Len(sending[s]) <= Len(stream)
  BY <1>4, <1>5
<1>7. TakenTo(s, stream, base, base)'
  BY DEF TakenTo
<1>8. InOrder(s, stream, base, base)'
  BY <1>5, <1>6, <1>7 DEF InOrder, Piece
<1> QED
  BY <1>1, <1>2, <1>3, <1>4, <1>8 DEF Carried

\* A header says how much recvPDU waits for; a cut one may say anything, and then
\* nothing comes.
LEMMA HeaderKeeps == IInv /\ AfterHeader => IInv'
<1> SUFFICES ASSUME IInv, AfterHeader PROVE IInv'
  OBVIOUS
<1>1. TypeOK /\ TypeOK'
  BY ReceiverTypeOK DEF IInv, recvPDU
<1>2. Receiving /\ receiver = "header" /\ Returns /\ socket \in Senders
  BY <1>1 DEF AfterHeader, Receiving, TypeOK
<1>3. PICK s \in Senders : s = socket
  BY <1>2
<1>4. Reads(s) /\ SenderInv(s) /\ open[s]
  BY <1>2, <1>3, ReadsOpen
<1>5. CASE got = << >> /\ Closed
  BY <1>1, <1>2, <1>5, CloseHasCause, ClosedKeeps
<1>6. ASSUME got # << >>, NEW header \in Headers, PDULength(header) < 2, Closed
      PROVE  IInv'
  <2>1. CASE Len(got) = 2
    <3>1. ~torn[socket]
      BY <1>2, <1>6, ReadsOpen
    <3>2. Q!NextPDU(socket) \in Payloads /\ PDULength(header) = Len(Q!NextPDU(socket)) + 2
      BY <1>2, <1>6, <2>1, <3>1, HeaderSaysLength DEF Headers
    <3>3. Len(Q!NextPDU(socket)) \in Nat
      BY <3>2, LengthInTwoBytes
    <3> QED
      BY <1>6, <3>2, <3>3
  <2>2. CASE Len(got) # 2
    BY <1>1, <1>2, <1>6, <2>2, CloseHasCause, ClosedKeeps
  <2> QED
    BY <2>1, <2>2
<1>7. ASSUME got # << >>, NEW header \in Headers, PDULength(header) \notin 2 .. BufferSize, exit
      PROVE  IInv'
  <2>1. ~torn[socket]
    BY <1>2, <1>7, ReadsOpen
  <2>2. Len(got) # 2
    <3> SUFFICES ASSUME Len(got) = 2 PROVE FALSE
      OBVIOUS
    <3>1. Q!NextPDU(socket) \in Payloads /\ PDULength(header) = Len(Q!NextPDU(socket)) + 2
      BY <1>2, <1>7, <2>1, HeaderSaysLength DEF Headers
    <3>2. PDULength(header) \in 2 .. BufferSize
      BY <3>1, LengthInTwoBytes
    <3> QED
      BY <1>7, <3>2
  <2>3. gone[socket] /\ wire[socket] = << >> /\ Len(got) = 1
    BY <1>2, <1>7, <2>2, HeaderReturns
  <2>4. /\ UNCHANGED <<sending, gone, sent, wire, open, socket, got, need, delivered, torn>>
        /\ receiver' = "exited"
    BY <1>7 DEF exit, senderVars
  <2>5. ~Reads(s)'
    BY <2>4 DEF Reads, Receiving
  <2>6. Carried(s)'
    BY <1>1, <1>3, <1>4, <2>1, <2>3, <2>4, <2>5, NothingLeft DEF SenderInv
  <2>7. SenderInv(s)'
    BY <1>3, <1>4, <2>1, <2>4, <2>5, <2>6 DEF SenderInv, NothingFollows
  <2>8. ASSUME NEW other \in Senders, other # socket PROVE SenderInv(other)'
    BY <2>4, <2>8, OthersKept DEF senderVars
  <2>9. ExitInv'
    BY <2>3, <2>4 DEF ExitInv
  <2> QED
    BY <1>1, <1>3, <2>7, <2>8, <2>9 DEF IInv
<1>8. ASSUME got # << >>, NEW header \in Headers, PDULength(header) \in 2 .. BufferSize,
             receiver' = "payload", got' = << >>, need' = PDULength(header) - 2,
             UNCHANGED <<senderVars, wire, open, socket, delivered, torn>>
      PROVE  IInv'
  <2>1. ~torn[s] /\ Carried(s)
    BY <1>2, <1>3, <1>8, ReadsOpen
  <2>2. UNCHANGED <<sending, gone, sent, wire, open, socket, delivered, torn>>
    BY <1>8 DEF senderVars
  <2>3. Reads(s)'
    BY <1>3, <1>8 DEF Reads, Receiving
  <2>4. Carried(s)'
    <3>1. CASE Len(got) # 2
      <4>1. gone[s] /\ wire[s] = << >> /\ sending[s] = << >>
        BY <1>2, <1>3, <1>4, <3>1, HeaderReturns DEF SenderInv
      <4> QED
        BY <1>1, <1>8, <2>1, <2>2, <4>1, NothingLeft
    <3>2. CASE Len(got) = 2
      <4>1. /\ Q!Undelivered(s) /\ Q!NextPDU(s) \in Payloads
            /\ PDULength(header) = Len(Q!NextPDU(s)) + 2
        BY <1>2, <1>3, <1>8, <2>1, <3>2, HeaderSaysLength DEF Headers
      <4>2. need' = Len(Q!NextPDU(s)) /\ Len(Q!NextPDU(s)) \in Nat
        BY <1>8, <4>1, LengthInTwoBytes
      <4>3. PICK stream \in Seq(Byte), place \in [1 .. Len(sent[s]) + 1 -> Nat], taken \in Nat :
              /\ Laid(stream, place, sent[s])
              /\ Len(delivered[s]) <= Len(sent[s])
              /\ InOrder(s, stream, place[Len(delivered[s]) + 1], taken)
        BY <2>1 DEF Carried
      <4>4. taken = place[Len(delivered[s]) + 1] + 2
        BY <1>2, <1>4, <3>2, <4>3 DEF InOrder, TakenTo
      <4>5. Len(got') = 0
        BY <1>8
      <4>6. Q!Undelivered(s)' /\ need' = Len(Q!NextPDU(s)') /\ Len(got') <= need'
        BY <2>2, <4>1, <4>2, <4>5 DEF Q!Undelivered, Q!NextPDU
      <4>7. taken = place[Len(delivered[s]) + 1] + 2 + Len(got')
        BY <4>3, <4>4, <4>5
      <4>8. TakenTo(s, stream, place[Len(delivered[s]) + 1], taken)'
        BY <1>8, <2>2, <2>3, <4>5, <4>6, <4>7 DEF TakenTo, Piece
      <4>9. InOrder(s, stream, place[Len(delivered[s]) + 1], taken)'
        BY <2>2, <4>3, <4>8 DEF InOrder, Piece
      <4> QED
        BY <2>2, <4>3, <4>9 DEF Carried
    <3> QED
      BY <3>1, <3>2
  <2>5. SenderInv(s)'
    BY <1>4, <2>1, <2>2, <2>4 DEF SenderInv, NothingFollows
  <2>6. ASSUME NEW other \in Senders, other # socket PROVE SenderInv(other)'
    BY <1>8, <2>2, <2>6, OthersKept
  <2>7. ExitInv'
    BY <1>8 DEF ExitInv
  <2> QED
    BY <1>1, <1>3, <2>5, <2>6, <2>7 DEF IInv
<1> QED
  BY <1>5, <1>6, <1>7, <1>8 DEF AfterHeader

\* A payload is delivered; only the end of its sender makes it shorter than it was.
LEMMA PayloadKeeps == IInv /\ AfterPayload => IInv'
<1> SUFFICES ASSUME IInv, AfterPayload PROVE IInv'
  OBVIOUS
<1>1. TypeOK /\ TypeOK'
  BY ReceiverTypeOK DEF IInv, recvPDU
<1>2. Receiving /\ receiver = "payload" /\ Returns /\ socket \in Senders
  BY <1>1 DEF AfterPayload, Receiving, TypeOK
<1>3. PICK s \in Senders : s = socket
  BY <1>2
<1>4. CASE got = << >>
  <2>1. Closed
    BY <1>4 DEF AfterPayload
  <2> QED
    BY <1>1, <1>2, <1>4, <2>1, CloseHasCause, ClosedKeeps
<1>5. CASE got # << >>
  <2>1. /\ receiver' = "poll" /\ got' = << >> /\ need' = 0
        /\ delivered' = [delivered EXCEPT ![s] = Append(@, got)]
        /\ torn' = [torn EXCEPT ![s] = Len(got) < need]
        /\ UNCHANGED <<sending, gone, sent, wire, open, socket>>
    BY <1>3, <1>5 DEF AfterPayload, senderVars
  <2>2. /\ Reads(s) /\ SenderInv(s) /\ open[s] /\ ~torn[s] /\ Carried(s)
        /\ Q!Undelivered(s) /\ need = Len(Q!NextPDU(s)) /\ Len(got) <= need
        /\ Q!NextPDU(s) \in Payloads
    BY <1>2, <1>3, <1>5, ReadsOpen, PayloadIsNext
  <2>3. ~Reads(s)'
    BY <2>1 DEF Reads, Receiving
  <2>4. torn'[s] <=> Len(got) < need
    <3>1. torn'[s] = (Len(got) < need)
      BY <1>1, <2>1, Zenon DEF TypeOK
    <3> QED
      BY <3>1
  <2>5. CASE Len(got) < need
    <3>1. gone[s] /\ wire[s] = << >>
      BY <1>2, <1>3, <2>5 DEF Returns
    <3> QED
      <4>1. SenderInv(s)'
        BY <2>1, <2>2, <2>3, <2>4, <2>5, <3>1 DEF SenderInv, NothingFollows
      <4>2. ASSUME NEW other \in Senders, other # socket PROVE SenderInv(other)'
        <5>1. delivered'[other] = delivered[other] /\ torn'[other] = torn[other]
          BY <1>1, <1>3, <2>1, <4>2 DEF TypeOK
        <5> QED
          BY <2>1, <4>2, <5>1, OthersKept DEF senderVars
      <4> QED
        BY <1>1, <1>3, <2>1, <4>1, <4>2 DEF IInv, ExitInv
  <2>6. CASE ~(Len(got) < need)
    <3>1. Len(got) = Len(Q!NextPDU(s))
      <4>1. Len(got) \in Nat /\ need \in Nat
        BY <1>1 DEF TypeOK
      <4> QED
        BY <2>2, <2>6, <4>1
    <3>2. PICK stream \in Seq(Byte), place \in [1 .. Len(sent[s]) + 1 -> Nat], taken \in Nat :
            /\ Laid(stream, place, sent[s])
            /\ Len(delivered[s]) <= Len(sent[s])
            /\ InOrder(s, stream, place[Len(delivered[s]) + 1], taken)
      BY <2>2 DEF Carried
    <3>3. PICK pdus \in Seq(Payloads), d \in Nat : pdus = sent[s] /\ d = Len(delivered[s])
      <4>1. sent[s] \in Seq(Payloads) /\ delivered[s] \in Seq(Seq(Byte))
        BY <1>1 DEF TypeOK
      <4> QED
        BY <4>1
    <3>4. d < Len(pdus) /\ Q!NextPDU(s) = pdus[d + 1]
      BY <2>2, <3>3 DEF Q!Undelivered, Q!NextPDU
    <3>5. place[d + 2] = place[d + 1] + Len(pdus[d + 1]) + 2 /\ place[d + 1] \in Nat
      <4>1. place \in [1 .. Len(pdus) + 1 -> Nat] /\ Laid(stream, place, pdus) /\ d <= Len(pdus)
        BY <3>2, <3>3
      <4>2. PICK k \in 1 .. Len(pdus) : k = d + 1
        BY <3>3, <3>4, PlaceOfNext
      <4>3. place[k + 1] = place[k] + Len(pdus[k]) + 2
        BY <4>1 DEF Laid
      <4>4. k + 1 = d + 2 /\ k \in 1 .. Len(pdus) + 1
        BY <4>2
      <4> QED
        BY <4>1, <4>2, <4>3, <4>4
    <3>6. taken = place[d + 1] + 2 + Len(got)
      <4>1. TakenTo(s, stream, place[d + 1], taken)
        BY <3>2, <3>3 DEF InOrder
      <4> QED
        BY <1>2, <1>5, <2>2, <4>1 DEF TakenTo
    <3>7. taken = place[d + 2]
      <4>1. PICK l \in Nat : l = Len(got)
        BY <1>1 DEF TypeOK
      <4> QED
        BY <3>1, <3>4, <3>5, <3>6, <4>1
    <3>8. Len(delivered'[s]) = d + 1 /\ d + 1 <= Len(pdus) /\ (d + 1) + 1 = d + 2
      <4>1. delivered'[s] = Append(delivered[s], got) /\ delivered[s] \in Seq(Seq(Byte))
        BY <1>1, <2>1 DEF TypeOK
      <4>2. Len(delivered'[s]) = d + 1
        BY <3>3, <4>1
      <4> QED
        BY <3>3, <3>4, <4>2
    <3>9. InOrder(s, stream, place[d + 2], taken)'
      <4>1. TakenTo(s, stream, place[d + 2], taken)'
        BY <2>3, <3>7 DEF TakenTo
      <4> QED
        BY <2>1, <3>2, <4>1 DEF InOrder, Piece
    <3>10. Carried(s)'
      <4>1. place[Len(delivered'[s]) + 1] = place[d + 2] /\ Len(delivered'[s]) <= Len(sent'[s])
        BY <2>1, <3>3, <3>8
      <4>2. InOrder(s, stream, place[Len(delivered[s]) + 1], taken)'
        BY <3>9, <4>1
      <4> QED
        BY <2>1, <3>2, <4>1, <4>2 DEF Carried
    <3>11. SenderInv(s)'
      BY <2>1, <2>2, <2>3, <2>4, <2>6, <3>10 DEF SenderInv, NothingFollows
    <3>12. ASSUME NEW other \in Senders, other # socket PROVE SenderInv(other)'
      <4>1. delivered'[other] = delivered[other] /\ torn'[other] = torn[other]
        BY <1>1, <1>3, <2>1, <3>12 DEF TypeOK
      <4> QED
        BY <2>1, <3>12, <4>1, OthersKept DEF senderVars
    <3> QED
      BY <1>1, <1>3, <2>1, <3>11, <3>12 DEF IInv, ExitInv
  <2> QED
    BY <2>5, <2>6
<1> QED
  BY <1>4, <1>5

-----------------------------------------------------------------------------
(* The theorems *)

\* Nothing was sent: the stream of every sender is empty.
LEMMA InitIInv == Init => IInv
<1> SUFFICES ASSUME Init PROVE IInv
  OBVIOUS
<1>1. ASSUME NEW s \in Senders PROVE SenderInv(s)
  <2>1. /\ sending[s] = << >> /\ wire[s] = << >> /\ ~gone[s] /\ open[s] /\ ~torn[s]
        /\ sent[s] = << >> /\ delivered[s] = << >> /\ ~Reads(s)
    BY DEF Init, Reads, Receiving
  <2>2. PICK place : place = [k \in 1 .. 1 |-> 0]
    OBVIOUS
  <2>3. /\ place \in [1 .. Len(sent[s]) + 1 -> Nat] /\ << >> \in Seq(Byte)
        /\ place[1] = 0 /\ Len(sent[s]) = 0 /\ Len(delivered[s]) = 0
        /\ Len(wire[s]) = 0 /\ Len(sending[s]) = 0
    BY <2>1, <2>2
  <2>4. Laid(<< >>, place, sent[s])
    BY <2>1, <2>3 DEF Laid
  <2>5. InOrder(s, << >>, place[1], 0)
    BY <2>1, <2>3 DEF InOrder, TakenTo, Piece
  <2>6. Carried(s)
    <3>1. 0 \in Nat /\ Len(delivered[s]) <= Len(sent[s]) /\ place[Len(delivered[s]) + 1] = place[1]
      BY <2>3
    <3>2. InOrder(s, << >>, place[Len(delivered[s]) + 1], 0)
      BY <2>5, <3>1
    <3> QED
      BY <2>3, <2>4, <3>1, <3>2 DEF Carried
  <2> QED
    BY <2>1, <2>6 DEF SenderInv, NothingFollows
<1> QED
  BY <1>1, InitTypeOK DEF Init, IInv, ExitInv

\* Every step keeps the invariant.
LEMMA NextIInv == IInv /\ [Next]_vars => IInv'
<1>1. IInv /\ UNCHANGED vars => IInv'
  <2> SUFFICES ASSUME IInv, UNCHANGED vars PROVE IInv'
    OBVIOUS
  <2>1. TypeOK'
    BY NextTypeOK DEF IInv
  <2>2. ASSUME NEW s \in Senders PROVE SenderInv(s)'
    BY SenderKept DEF IInv, vars, senderVars, receiverVars
  <2> QED
    BY <2>1, <2>2 DEF IInv, ExitInv, vars, receiverVars, senderVars
<1> QED
  BY <1>1, SenderKeeps, PollKeeps, RecvKeeps, HeaderKeeps, PayloadKeeps DEF Next, recvPDU

\* Whatever is sent, cut and lost, the pieces that the connections and the receiver
\* hold are pieces of what was sent.
THEOREM Invariant == Spec => []IInv
<1> QED
  BY InitIInv, NextIInv, PTL DEF Spec

\* PDU.c:20, server.c:143, 151.  Whatever the number of senders, the PDUs they send
\* and the sizes in which bytes arrive, recvPDU closes the connection of a sender
\* that lives only on a PDU without payload, and the receiver exits only on a header
\* that the end of its sender cut in two.
THEOREM AliveStaysOpen == Spec => []AliveIsNotClosed
<1>1. IInv => AliveIsNotClosed
  BY DEF IInv, SenderInv, ExitInv, AliveIsNotClosed
<1> QED
  BY <1>1, Invariant, PTL

-----------------------------------------------------------------------------
(* The refinement *)

\* To the queue, a connection is over when its last PDU was torn or it is closed.
Over == [s \in Senders |-> torn[s] \/ ~open[s]]

\* Before anything is sent no connection is over.
LEMMA InitQueue == Init => Q!Init
<1> SUFFICES ASSUME Init PROVE Q!Init
  OBVIOUS
<1>1. Over = [s \in Senders |-> FALSE]
  BY DEF Init, Over
<1> QED
  BY <1>1 DEF Init, Q!Init, Over

\* A step of a sender is a PDU sent, its end, or nothing to the queue.
LEMMA SenderQueue ==
    ASSUME IInv, NEW s \in Senders, SenderStep(s) \/ Killed(s) \/ Reset(s)
    PROVE  [Q!Next]_(Q!queueVars)
<1>1. Over' = Over /\ delivered' = delivered
  BY DEF Over, SenderStep, sendPDU, Transmit, CutOff, Killed, Reset, Ends, receiverVars
<1>2. CASE sendPDU(s)
  <2>1. Q!Send(s)
    BY <1>1, <1>2 DEF sendPDU, Q!Send, Over
  <2> QED
    BY <2>1 DEF Q!Next
<1>3. CASE Transmit(s)
  BY <1>1, <1>3 DEF Transmit, Q!queueVars, Over
<1>4. CASE CutOff(s) \/ Killed(s) \/ Reset(s)
  <2>1. ~gone[s] /\ gone' = [gone EXCEPT ![s] = TRUE] /\ sent' = sent
    BY <1>4 DEF CutOff, Killed, Reset, Ends
  <2>2. Q!End(s)
    BY <1>1, <2>1 DEF Q!End, Over
  <2> QED
    BY <2>2 DEF Q!Next
<1> QED
  BY <1>2, <1>3, <1>4 DEF SenderStep

\* A connection is closed for a reason that the queue knows; on one that a torn PDU
\* ended already, the queue sees nothing.
LEMMA CloseQueue ==
    ASSUME IInv, Receiving, Closed,
           gone[socket] \/ (Q!Undelivered(socket) /\ Q!NextPDU(socket) = << >>)
    PROVE  [Q!Next]_(Q!queueVars)
<1>1. PICK s \in Senders : s = socket
  BY ReadsOpen
<1>2. /\ UNCHANGED <<sent, delivered, gone, torn>> /\ open' = [open EXCEPT ![s] = FALSE]
      /\ open \in [Senders -> BOOLEAN] /\ torn \in [Senders -> BOOLEAN] /\ open[s]
  BY <1>1, ReadsOpen DEF Closed, senderVars, IInv, TypeOK
<1>3. ASSUME NEW x \in Senders
      PROVE  (torn'[x] \/ ~open'[x]) <=> (x = s \/ torn[x] \/ ~open[x])
  BY <1>2
<1>4. Over' = [Over EXCEPT ![s] = TRUE]
  <2>1. Over' = [x \in Senders |-> torn'[x] \/ ~open'[x]]
    BY DEF Over
  <2>2. [Over EXCEPT ![s] = TRUE] = [x \in Senders |-> IF x = s THEN TRUE ELSE torn[x] \/ ~open[x]]
    BY Zenon DEF Over
  <2>3. ASSUME NEW x \in Senders
        PROVE  (torn'[x] \/ ~open'[x]) = (IF x = s THEN TRUE ELSE torn[x] \/ ~open[x])
    BY <1>3
  <2> QED
    BY <2>1, <2>2, <2>3, Zenon
<1>5. CASE torn[s]
  <2>1. ASSUME NEW x \in Senders
        PROVE  (torn'[x] \/ ~open'[x]) = (torn[x] \/ ~open[x])
    BY <1>3, <1>5
  <2>2. Over' = Over
    BY <2>1, Zenon DEF Over
  <2> QED
    BY <1>2, <2>2 DEF Q!queueVars, Over
<1>6. CASE ~torn[s]
  <2>1. ~Over[s]
    <3>1. Over[s] = (torn[s] \/ ~open[s])
      BY Zenon DEF Over
    <3> QED
      BY <1>2, <1>6, <3>1
  <2>2. Q!Close(s)
    BY <1>1, <1>2, <1>4, <2>1, Zenon DEF Q!Close, Over
  <2> QED
    BY <2>2 DEF Q!Next
<1> QED
  BY <1>5, <1>6

\* A payload that recvPDU hands on is the next PDU, or the beginning of it when its
\* sender has ended.
LEMMA PayloadQueue ==
    ASSUME IInv, AfterPayload, got # << >>
    PROVE  [Q!Next]_(Q!queueVars)
<1>1. Receiving /\ receiver = "payload" /\ Returns
  BY DEF AfterPayload, Receiving
<1>2. PICK s \in Senders : s = socket
  BY <1>1, ReadsOpen
<1>3. /\ delivered' = [delivered EXCEPT ![s] = Append(@, got)]
      /\ torn' = [torn EXCEPT ![s] = Len(got) < need]
      /\ UNCHANGED <<gone, sent, open>>
  BY <1>2 DEF AfterPayload, senderVars
<1>4. /\ open[s] /\ ~torn[s]
      /\ Q!Undelivered(s) /\ need = Len(Q!NextPDU(s)) /\ Len(got) <= need
      /\ got = SubSeq(Q!NextPDU(s), 1, Len(got))
      /\ Len(got) = need => got = Q!NextPDU(s)
  BY <1>1, <1>2, ReadsOpen, PayloadIsNext
<1>5. /\ torn \in [Senders -> BOOLEAN] /\ open \in [Senders -> BOOLEAN]
      /\ Len(got) \in Nat \ {0} /\ need \in Nat
  <2>1. got \in Seq(Byte) /\ need \in Nat
    BY DEF IInv, TypeOK
  <2>2. Len(got) \in Nat \ {0}
    BY <2>1, EmptySeq
  <2> QED
    BY <2>1, <2>2 DEF IInv, TypeOK
<1>l. PICK l \in Nat \ {0} : l = Len(got) /\ l <= need
  BY <1>4, <1>5
<1>6. ~Over[s]
  <2>1. Over[s] = (torn[s] \/ ~open[s])
    BY Zenon DEF Over
  <2> QED
    BY <1>4, <2>1
<1>7. CASE Len(got) < need
  <2>1. gone[s]
    BY <1>1, <1>2, <1>7 DEF Returns
  <2>2. (Len(got) < need) = TRUE
    BY <1>7
  <2>3. torn' = [torn EXCEPT ![s] = TRUE]
    BY <1>3, <2>2, Zenon
  <2>4. Over' = [Over EXCEPT ![s] = TRUE]
    <3>1. Over' = [x \in Senders |-> torn'[x] \/ ~open[x]]
      BY <1>3, Zenon DEF Over
    <3>2. [Over EXCEPT ![s] = TRUE] = [x \in Senders |-> IF x = s THEN TRUE ELSE torn[x] \/ ~open[x]]
      BY Zenon DEF Over
    <3>3. ASSUME NEW x \in Senders
          PROVE  (torn'[x] \/ ~open[x]) = (IF x = s THEN TRUE ELSE torn[x] \/ ~open[x])
      <4>1. torn'[x] = IF x = s THEN TRUE ELSE torn[x]
        BY <1>5, <2>3
      <4> QED
        BY <4>1
    <3> QED
      BY <3>1, <3>2, <3>3, Zenon
  <2>5. PICK n \in 1 .. Len(Q!NextPDU(s)) - 1 : n = Len(got)
    <3>1. l \in 1 .. need - 1
      BY <1>l, <1>5, <1>7
    <3> QED
      BY <1>l, <1>4, <3>1
  <2>6. delivered' = [delivered EXCEPT ![s] = Append(@, SubSeq(Q!NextPDU(s), 1, n))]
    BY <1>3, <1>4, <2>5
  <2>7. Q!DeliverTorn(s)
    BY <1>3, <1>4, <1>6, <2>1, <2>4, <2>6, Zenon DEF Q!DeliverTorn, Over
  <2> QED
    BY <2>7 DEF Q!Next
<1>8. CASE ~(Len(got) < need)
  <2>1. Len(got) = need
    <3>1. l = need
      BY <1>l, <1>5, <1>8
    <3> QED
      BY <1>l, <3>1
  <2>2. got = Q!NextPDU(s) /\ Q!NextPDU(s) # << >>
    BY <1>4, <2>1
  <2>3. torn' = torn
    <3>1. torn' = [torn EXCEPT ![s] = FALSE]
      <4>1. (Len(got) < need) = FALSE
        BY <1>8
      <4> QED
        BY <1>3, <4>1, Zenon
    <3>2. torn[s] = FALSE
      BY <1>4, <1>5
    <3> QED
      BY <1>5, <3>1, <3>2
  <2>4. Over' = Over
    BY <1>3, <2>3 DEF Over
  <2>5. delivered' = [delivered EXCEPT ![s] = Append(@, Q!NextPDU(s))]
    BY <1>3, <2>2
  <2>6. Q!Deliver(s)
    BY <1>3, <1>4, <1>6, <2>2, <2>4, <2>5, Zenon DEF Q!Deliver, Over
  <2> QED
    BY <2>6 DEF Q!Next
<1> QED
  BY <1>7, <1>8

\* Every step of senders and receiver is one of the queue, or nothing to it.
LEMMA NextQueue == IInv /\ [Next]_vars => [Q!Next]_(Q!queueVars)
<1> SUFFICES ASSUME IInv, [Next]_vars PROVE [Q!Next]_(Q!queueVars)
  OBVIOUS
<1>1. ASSUME UNCHANGED <<sent, delivered, gone, torn, open>>
      PROVE  [Q!Next]_(Q!queueVars)
  BY <1>1 DEF Q!queueVars
<1>2. CASE UNCHANGED vars \/ pollCall \/ recv
  BY <1>1, <1>2 DEF vars, senderVars, receiverVars, pollCall, recv
<1>3. CASE AfterHeader
  <2>1. Receiving /\ Returns /\ receiver = "header"
    BY <1>3 DEF AfterHeader, Receiving
  <2>2. CASE Closed
    <3>1. got = << >> \/ Len(got) # 2
      <4> SUFFICES ASSUME got # << >>, Len(got) = 2 PROVE FALSE
        OBVIOUS
      <4>1. ~torn[socket]
        BY <2>1, ReadsOpen
      <4>2. /\ Q!NextPDU(socket) \in Payloads
            /\ PDULength(got) = Len(Q!NextPDU(socket)) + 2
        BY <2>1, <4>1, HeaderSaysLength
      <4>3. PDULength(got) \in 2 .. BufferSize
        BY <4>2, LengthInTwoBytes
      <4>4. receiver' = "poll"
        BY <2>2 DEF Closed
      <4>5. PDULength(got) < 2 \/ receiver' = "exited" \/ receiver' = "payload"
        BY <1>3 DEF AfterHeader, Headers, exit
      <4> QED
        BY <4>3, <4>4, <4>5
    <3>2. Len(got) # 2
      BY <3>1
    <3> QED
      BY <2>1, <2>2, <3>2, CloseHasCause, CloseQueue
  <2>3. CASE exit
    BY <1>1, <2>3 DEF exit, senderVars
  <2>4. CASE UNCHANGED <<senderVars, wire, open, socket, delivered, torn>>
    BY <1>1, <2>4 DEF senderVars
  <2> QED
    BY <1>3, <2>2, <2>3, <2>4 DEF AfterHeader
<1>4. CASE AfterPayload
  <2>1. CASE got = << >>
    <3>1. Receiving /\ Returns /\ Closed
      BY <1>4, <2>1 DEF AfterPayload, Receiving
    <3> QED
      BY <2>1, <3>1, CloseHasCause, CloseQueue
  <2>2. CASE got # << >>
    BY <1>4, <2>2, PayloadQueue
  <2> QED
    BY <2>1, <2>2
<1> QED
  BY <1>2, <1>3, <1>4, SenderQueue DEF Next, recvPDU

\* PDU.c:3-42.  Framing gives the receiver from each sender the PDUs it sent, whole
\* and in order; only the last one of a sender that ended may be cut, and nothing
\* follows it.
THEOREM FramingImplementsPduQueue == Spec => ImplementsPduQueue
<1>1. Init => Q!Init
  BY InitQueue
<1>2. IInv /\ [Next]_vars => [Q!Next]_(Q!queueVars)
  BY NextQueue
<1> QED
  BY <1>1, <1>2, Invariant, PTL DEF Spec, ImplementsPduQueue, Q!Spec
=============================================================================
