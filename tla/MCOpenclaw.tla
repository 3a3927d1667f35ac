----------------------------- MODULE MCOpenclaw -----------------------------
(***************************************************************************)
(* Openclaw on small instances.                                            *)
(***************************************************************************)
EXTENDS Openclaw
=============================================================================
