------------------------------ MODULE PduQueue ------------------------------
(***************************************************************************)
(* What framing promises: from each sender the receiver gets what it sent, *)
(* PDU by PDU and in order.  Only the end of a sender may tear the PDU that *)
(* is under way, and nothing follows a torn one.                           *)
(***************************************************************************)
EXTENDS Naturals, Sequences

CONSTANTS Senders, Payloads

VARIABLES sent, delivered, gone, over

queueVars == <<sent, delivered, gone, over>>

Init ==
    /\ sent = [s \in Senders |-> << >>] /\ delivered = [s \in Senders |-> << >>]
    /\ gone = [s \in Senders |-> FALSE] /\ over = [s \in Senders |-> FALSE]

Send(s) ==
    /\ ~gone[s]
    /\ \E p \in Payloads : sent' = [sent EXCEPT ![s] = Append(@, p)]
    /\ UNCHANGED <<delivered, gone, over>>

Undelivered(s) == Len(delivered[s]) < Len(sent[s])

NextPDU(s) == sent[s][Len(delivered[s]) + 1]

\* An empty PDU is never delivered: it reads as the end.
Deliver(s) ==
    /\ ~over[s] /\ Undelivered(s) /\ NextPDU(s) # << >>
    /\ delivered' = [delivered EXCEPT ![s] = Append(@, NextPDU(s))]
    /\ UNCHANGED <<sent, gone, over>>

End(s) ==
    /\ ~gone[s]
    /\ gone' = [gone EXCEPT ![s] = TRUE]
    /\ UNCHANGED <<sent, delivered, over>>

\* A PDU that the end of its sender cut off is delivered as far as it goes.
DeliverTorn(s) ==
    /\ ~over[s] /\ gone[s] /\ Undelivered(s)
    /\ \E n \in 1 .. Len(NextPDU(s)) - 1 :
        delivered' = [delivered EXCEPT ![s] = Append(@, SubSeq(NextPDU(s), 1, n))]
    /\ over' = [over EXCEPT ![s] = TRUE]
    /\ UNCHANGED <<sent, gone>>

\* The receiver takes the connection for closed.
Close(s) ==
    /\ ~over[s]
    /\ gone[s] \/ (Undelivered(s) /\ NextPDU(s) = << >>)
    /\ over' = [over EXCEPT ![s] = TRUE]
    /\ UNCHANGED <<sent, delivered, gone>>

Next == \E s \in Senders : Send(s) \/ Deliver(s) \/ End(s) \/ DeliverTorn(s) \/ Close(s)

Spec == Init /\ [][Next]_queueVars
=============================================================================
