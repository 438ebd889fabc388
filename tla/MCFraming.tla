----------------------------- MODULE MCFraming -----------------------------
(* Values of Framing's constants for TLC: payloads of no, one and two bytes, a
   connection that does not hold the longest PDU. *)
EXTENDS Framing

MCPayloads == {<< >>, <<1>>, <<2, 3>>}
=============================================================================
