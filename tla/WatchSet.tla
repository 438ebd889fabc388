------------------------------ MODULE WatchSet ------------------------------
(***************************************************************************)
(* What a poll set promises its caller: the set of descriptors it was told *)
(* to watch, and a call that answers with a watched, ready one, or with    *)
(* none (-1).                                                              *)
(***************************************************************************)
EXTENDS Integers

CONSTANT Fds

VARIABLES watched, answer

Init == watched = {} /\ answer = -1

Watch(fd)  == watched' = watched \cup {fd} /\ answer' = -1
Forget(fd) == watched' = watched \ {fd} /\ answer' = -1
Answer     == watched' = watched /\ answer' \in watched \cup {-1}

Next == \/ \E fd \in Fds : Watch(fd) \/ Forget(fd)
        \/ Answer

Spec == Init /\ [][Next]_<<watched, answer>>
=============================================================================
