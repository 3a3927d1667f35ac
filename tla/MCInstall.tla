----------------------------- MODULE MCInstall -----------------------------
EXTENDS Install

(* The config before the link: the sign-in and the model of the owner's. *)
Bare == [s \in {"auth", "agents"} |->
            IF s = "auth" THEN [k \in {"token", "mode"} |-> "o"]
            ELSE [k \in {"model"} |-> "o"]]
Files == {Bare}

(* Settings the owner changes by hand: of a section the link makes, one      *)
(* beside the link's, one the link's models replace.                         *)
Where == {<<"ui", "theme">>, <<"providers", "other">>, <<"agents", "model">>}
=============================================================================
