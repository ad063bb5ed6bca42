-------------------------------- MODULE MCDSS --------------------------------
(* DSS with the three clients that SYS of test/DSS.dats runs. *)
EXTENDS DSS
=============================================================================
