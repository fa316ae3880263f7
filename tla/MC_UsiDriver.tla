---------------------------- MODULE MC_UsiDriver ----------------------------
(***************************************************************************)
(* Model checking of UsiDriver.                                            *)
(***************************************************************************)
EXTENDS UsiDriver

=============================================================================
