---------------------------- MODULE MCPollLoop ----------------------------
(* Values of PollLoop's constants for TLC: see the PollLoop*.cfg files. *)
EXTENDS PollLoop
=============================================================================
