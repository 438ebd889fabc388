------------------------------- MODULE MCChat -------------------------------
(* Values of Chat's constants for TLC. *)
EXTENDS ChatProperties, TLC

CONSTANTS c1, c2, c3, a, b, g, text

AllStrings == {a, b, g, text}

\* argv[1] of two clients, and of three of which the last two share a handle.
TwoHandles == (c1 :> a @@ c2 :> b)
ThreeHandles == (c1 :> a @@ c2 :> b @@ c3 :> b)

To(h, n) == [flag |-> 5, to |-> <<h>>, parts |-> n]
Multi(hs) == [flag |-> 6, to |-> hs, parts |-> 1]
Broadcast(t) == [flag |-> 4, to |-> t, parts |-> 1]
List == [flag |-> 10]

OneOrBoth == {To(b, 1), Multi(<<b, a>>)}
LongAndList == {To(b, 2), Broadcast(<<b>>), List}
LiveTalk == {To(b, 1), To(a, 4), Broadcast(<<text>>), List}
=============================================================================
