----------------------------- MODULE Directory -----------------------------
(***************************************************************************)
(* What the chat server's handle table promises: a directory in which a    *)
(* handle, once it is bound to a socket, stays bound to that socket.       *)
(***************************************************************************)
CONSTANTS Strings, Sockets

VARIABLE socketOf   \* the handles that are bound, each with its socket

TypeOK == /\ DOMAIN socketOf \subseteq Strings
          /\ \A h \in DOMAIN socketOf : socketOf[h] \in Sockets

Init == socketOf = [h \in {} |-> h]

Bind(h, s) ==
    /\ h \notin DOMAIN socketOf
    /\ socketOf' = [g \in DOMAIN socketOf \cup {h} |->
                        IF g = h THEN s ELSE socketOf[g]]

Next == \E h \in Strings, s \in Sockets : Bind(h, s)

Spec == Init /\ [][Next]_socketOf
=============================================================================
