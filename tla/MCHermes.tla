------------------------------ MODULE MCHermes ------------------------------
(***************************************************************************)
(* Hermes on small instances.                                              *)
(***************************************************************************)
EXTENDS Hermes
=============================================================================
