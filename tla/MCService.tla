----------------------------- MODULE MCService -----------------------------
(* Service on a small instance: a coding agent and an install to begin with,  *)
(* one more coding agent to add, and two commands, each given once at any     *)
(* time.  By the first the host adds or drops a coding agent, or the owner    *)
(* drops one or releases the install; by the other the owner opens the        *)
(* install again or unlinks the bot, or the models are switched.              *)
EXTENDS Service

Linked == <<"a", "i">>
Two == 1..2
Ways == <<({"add", "drop"} \X {"host"}) \cup ({"release", "drop"} \X {"cli"}),
          {<<"models", "host">>} \cup ({"open", "unlink"} \X {"cli"})>>
=============================================================================
