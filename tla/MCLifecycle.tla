----------------------------- MODULE MCLifecycle -----------------------------
(* Main and two more threads; an address for each of three kinds. *)
EXTENDS Lifecycle, TLC

CONSTANTS a, b, chan, bar, alt, out1, out2

MCKindOf == chan :> "many2one" @@ bar :> "barrier2" @@ alt :> "alternative"
=============================================================================
