-------------------------------- MODULE MCATM --------------------------------
(* ATM with one card the bank knows and one it does not, and a machine     *)
(* loaded with less cash than the two accounts hold, or none.              *)
EXTENDS ATM
=============================================================================
