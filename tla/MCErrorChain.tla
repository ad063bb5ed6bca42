---------------------------- MODULE MCErrorChain ----------------------------
(* Two threads with two records each. *)
EXTENDS ErrorChain
=============================================================================
