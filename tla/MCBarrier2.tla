----------------------------- MODULE MCBarrier2 -----------------------------
(* Barrier2 with four parties: two pairs, or one pair and two behind. *)
EXTENDS Barrier2
=============================================================================
