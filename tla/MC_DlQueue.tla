----------------------------- MODULE MC_DlQueue -----------------------------
(***************************************************************************)
(* Model checking of DlQueue.                                              *)
(***************************************************************************)
EXTENDS DlQueue

=============================================================================
