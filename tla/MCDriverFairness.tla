-------------------------- MODULE MCDriverFairness --------------------------
(***************************************************************************)
(* The instances of MCDriverNode, in time.                                 *)
(***************************************************************************)
EXTENDS MCDriverNode, DriverFairness
=============================================================================
