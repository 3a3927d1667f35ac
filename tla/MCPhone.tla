------------------------------ MODULE MCPhone ------------------------------
(* An instance of Phone: a message that makes a new chat, sent in two frames,
   and another one to that chat. *)
EXTENDS Phone, TLC

CONSTANTS c1, f1, f2, f3, q1, t1

MCMessageOf == [f \in Frames |-> IF f = f2 THEN f1 ELSE f]
MCChatOf == [f \in Frames |-> IF f = f3 THEN c1 ELSE None]
=============================================================================
