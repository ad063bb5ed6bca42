----------------------------- MODULE MCMany2One -----------------------------
(* Many2One with two values and a checking function that accepts one. *)
EXTENDS Many2One

CONSTANTS v1, v2, w1, w2, w3

MCValues == {v1, v2}
MCGuards == {{v1}}
MCThreeWriters == {w1, w2, w3}
=============================================================================
