-------------------------- MODULE MCErrorInjection --------------------------
(* Values of ErrorInjection's constants for TLC. *)
EXTENDS ErrorInjection

\* A list may be empty, name messages, switch the list off with -1, be broken
\* off by text that is no number, or hold a number above uint32_t.
MCEnvironments ==
    [drop : {Unset, << >>, <<-1>>, <<1, 2>>, <<2, Garbage, 1>>, <<Modulus + 1>>},
     flip : {Unset, <<-1>>, <<1>>},
     rate : {Unset, Garbage, "never", "sometimes", "always"},
     seed : {Unset, Garbage, 11}]
=============================================================================
