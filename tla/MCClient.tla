------------------------------ MODULE MCClient ------------------------------
(* One session of one host, and an app that goes on whatever happens. *)
EXTENDS Client
=============================================================================
