------------------------------ MODULE MCRelay ------------------------------
(***************************************************************************)
(* Relay on a small instance.  No action treats a host, a key, a tunnel or *)
(* a connection otherwise than another of its kind.                        *)
(***************************************************************************)
EXTENDS Relay, TLC

Symmetry == Permutations(Hosts) \cup Permutations(Keys) \cup Permutations(Clients)
                \cup Permutations(Tunnels) \cup Permutations(Conns)
=============================================================================
