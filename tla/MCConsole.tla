----------------------------- MODULE MCConsole -----------------------------
(* Values of Console's and Segmentation's constants for TLC. *)
EXTENDS Console

Handle == <<1>>

\* With parts of 9 bytes in a buffer of 10: a text whose last part is empty, headers
\* that leave room for a single byte, so that every byte is a part, a header that
\* does not fit itself, a handle its readers have no room for, a broadcast of two
\* parts, of the second of which only the header is forwarded, and one without a text,
\* of which not even that is.
MCLines ==
    {[flag |-> 5, to |-> << <<2>> >>, text |-> <<7, 8, 0>>],
     [flag |-> 6, to |-> << <<2>>, <<3, 4>> >>, text |-> <<7, 8, 0>>],
     [flag |-> 6, to |-> << <<2, 5>>, <<3, 4, 6>> >>, text |-> <<7, 0>>],
     [flag |-> 5, to |-> << <<2, 5, 6>> >>, text |-> <<7, 0>>],
     [flag |-> 4, to |-> << >>, text |-> << >>],
     [flag |-> 4, to |-> << >>, text |-> <<7, 8, 9, 10, 11, 12, 13, 0>>]}
=============================================================================
