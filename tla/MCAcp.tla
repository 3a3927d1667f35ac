------------------------------- MODULE MCAcp -------------------------------
(***************************************************************************)
(* Acp on small instances.  No action treats a request or a session        *)
(* otherwise than another.                                                 *)
(***************************************************************************)
EXTENDS Acp, TLC

Symmetry == Permutations(Reqs) \cup Permutations(Sessions \ Existing)
=============================================================================
