----------------------------- MODULE BackendTurn -----------------------------
(***************************************************************************)
(* What a runtime that does not speak ACP promises the host of a turn      *)
(* (trait Runtime, Turn and TurnEvent of link-core/src/adapter.rs): the    *)
(* runtime takes a prompt or not; what it took runs on its own until it    *)
(* ends; and the host is told once, how it ended or that it failed.  The   *)
(* host may be told of a failure while the work goes on, but never of an   *)
(* end that is not the work's own.                                         *)
(***************************************************************************)
CONSTANTS
    Turns,
    None

VARIABLES
    asked,  \* the turns the host asked for
    fate,   \* what becomes of the turn in the runtime
    told    \* what the host was answered

turnVars == <<asked, fate, told>>

Ends == {"completed", "failed", "cancelled"}

Init ==
    /\ asked = {}
    /\ fate = [t \in Turns |-> "none"]
    /\ told = [t \in Turns |-> None]

\* The host prompts when the session's last turn was answered.
Ask(t) ==
    /\ t \notin asked
    /\ \A u \in asked : told[u] # None
    /\ asked' = asked \cup {t}
    /\ UNCHANGED <<fate, told>>

Unanswered(t) == t \in asked /\ told[t] = None

Take(t) ==
    /\ Unanswered(t)
    /\ fate[t] = "none"
    /\ fate' = [fate EXCEPT ![t] = "running"]
    /\ UNCHANGED <<asked, told>>

\* The runtime took the prompt, and its answer was lost.
TakeUnheard(t) ==
    /\ Unanswered(t)
    /\ fate[t] = "none"
    /\ fate' = [fate EXCEPT ![t] = "running"]
    /\ told' = [told EXCEPT ![t] = "failed"]
    /\ UNCHANGED asked

End(t, how) ==
    /\ fate[t] = "running"
    /\ fate' = [fate EXCEPT ![t] = how]
    /\ UNCHANGED <<asked, told>>

Tell(t) ==
    /\ Unanswered(t)
    /\ \E how \in {fate[t], "failed"} \cap Ends : told' = [told EXCEPT ![t] = how]
    /\ UNCHANGED <<asked, fate>>

Next ==
    \E t \in Turns :
        \/ Ask(t)
        \/ Take(t)
        \/ TakeUnheard(t)
        \/ \E how \in Ends : End(t, how)
        \/ Tell(t)

TurnSpec == Init /\ [][Next]_turnVars
=============================================================================
