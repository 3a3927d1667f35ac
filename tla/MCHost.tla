------------------------------- MODULE MCHost -------------------------------
(***************************************************************************)
(* Host on small instances.  No action treats a client, or a session id,   *)
(* otherwise than another, so the run identifies states that differ by     *)
(* such a renaming; and states that differ in what no guard and none of    *)
(* its properties reads.                                                   *)
(***************************************************************************)
EXTENDS Host

AllSessions == Key

\* All of a state that a guard, or a property of the run, reads: what records,
\* conversations and strays say, events and their numbers, what is remembered of
\* requests that are over, and closes on their way change none of it.
Read ==
    <<rosterVars, [k \in Key |-> <<sess[k].held, sess[k].opening, sess[k].turn>>],
      older, turn, ask, [c \in Clients |-> [op[c] EXCEPT !.upto = 0]], queue,
      UnusedUpdates = {}, issued, live, calls, cut>>

Symmetry == Permutations(Clients) \cup Permutations(Names)
=============================================================================
