----------------------------- MODULE MCOne2One -----------------------------
(* One2One with a few values to write. *)
EXTENDS One2One
=============================================================================
