----------------------------- MODULE MCPairing -----------------------------
(* Pairing on a small instance: one device, whose connections are treated     *)
(* alike.                                                                     *)
EXTENDS Pairing

Symmetry == Permutations(Conns)
=============================================================================
