--------------------------- MODULE MCHandleTable ---------------------------
(* Values of HandleTable's constants for TLC. *)
EXTENDS HandleTable

CONSTANTS a, b, c, d

\* Two terminated handles, and bytes whose comparison and whose copy read
\* differently: while d is free, c is stored again and again.
MCReadings == {<<a, a>>, <<b, b>>, <<d, c>>, <<c, d>>}
=============================================================================
