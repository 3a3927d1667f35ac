---------------------------- MODULE MCConnection ----------------------------
(***************************************************************************)
(* Connection on small instances.  A client's call, and the calls before   *)
(* it, come to their ends: every agent answers.                            *)
(***************************************************************************)
EXTENDS Connection

AllSessions == Key

FairConnSpec == ConnSpec /\ \A c \in Clients : WF_hostVars(ClientStep(c))

=============================================================================
