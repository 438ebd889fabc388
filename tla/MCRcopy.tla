------------------------------- MODULE MCRcopy -------------------------------
(* Values of Rcopy's constants for TLC. *)
EXTENDS Rcopy

CONSTANTS c1, c2, c3

\* A file that is longer than the window, one that fits it, and no file.
FileSizes == [c \in Clients |-> CASE c = c1 -> 2 [] c = c2 -> 1 [] c = c3 -> NoFile]
=============================================================================
