------------------------------ MODULE Adapter ------------------------------
(***************************************************************************)
(* Runtimes that do not speak ACP, served as ACP to the host               *)
(* (link-core/src/adapter.rs): Adapted::prompt starts a turn of the        *)
(* runtime and relays what it emits until it ends.  The runtime side of a  *)
(* turn is module Hermes or module Openclaw; the host's side is the        *)
(* environment here: it prompts a session that runs no turn, cancels, and  *)
(* answers what it is asked.                                               *)
(*                                                                         *)
(* One session.  A turn is a member of Turns, used once.  A request for    *)
(* permission is a member of Asks; a runtime may or may not give it an id, *)
(* and the id it gives is the request.                                     *)
(***************************************************************************)
EXTENDS Naturals, Sequences, FiniteSets, SequencesExt

CONSTANTS
    Turns,
    Asks,
    None

ASSUME NoneIsNobody ==
    None \notin Turns \cup Asks \cup {"completed", "failed", "cancelled"}

VARIABLES
    prompt,  \* how far the call of Adapted::prompt for a turn is
    told,    \* what the host was answered: how the turn ended
    chan,    \* Turn.events: what the runtime emitted and the adapter did not take
    control, \* Turn.control: what the adapter sent and the runtime did not take
    current, \* Shared.turns: the turn whose control is at hand for the session
    asks,    \* the requests of a turn that wait for an answer, in order
    replies  \* answers of the host that the adapter has not taken

adapterVars == <<prompt, told, chan, control, current, asks, replies>>

Outcome == {"completed", "failed", "cancelled"}

Text == [what |-> "text", q |-> None, id |-> None]
AskOf(q, id) == [what |-> "ask", q |-> q, id |-> id]
AskAnswered(id) == [what |-> "answered", q |-> None, id |-> id]
EndOf(outcome) == [what |-> outcome, q |-> None, id |-> None]
TurnEvent ==
    [what : {"text", "answered"} \cup Outcome, q : {None}, id : Asks \cup {None}]
        \cup [what : {"ask"}, q : Asks, id : Asks \cup {None}]

CancelControl == [what |-> "cancel", q |-> None, id |-> None]
AnswerControl(q, id) == [what |-> "answer", q |-> q, id |-> id]
Control ==
    {CancelControl} \cup [what : {"answer"}, q : Asks, id : Asks \cup {None}]

\* An ask that waits: the host's reply, and the id the runtime gave.
PendingAsk == [q : Asks, id : Asks \cup {None}]
Reply == [turn : Turns, q : Asks, selected : BOOLEAN]

AdapterInit ==
    /\ prompt = [t \in Turns |-> "new"]
    /\ told = [t \in Turns |-> None]
    /\ chan = [t \in Turns |-> <<>>]
    /\ control = [t \in Turns |-> <<>>]
    /\ current = None
    /\ asks = [t \in Turns |-> <<>>]
    /\ replies = {}

-----------------------------------------------------------------------------
(* The host's side *)

\* The host prompts a session in which no turn runs.
Prompt(t) ==
    /\ prompt[t] = "new"
    /\ \A u \in Turns : prompt[u] \in {"new", "answered"}
    /\ prompt' = [prompt EXCEPT ![t] = "starting"]
    /\ UNCHANGED <<told, chan, control, current, asks, replies>>

\* A cancel goes to the turn the session has registered, once it has one.
Cancel(t) ==
    /\ prompt[t] \in {"starting", "running"}
    /\ current # None
    /\ CancelControl \notin ToSet(control[current])
    /\ control' = [control EXCEPT ![current] = Append(@, CancelControl)]
    /\ UNCHANGED <<prompt, told, chan, current, asks, replies>>

\* The owner picks an option, or the request is cancelled with its turn.
HostAnswers(t, q, selected) ==
    /\ \E i \in DOMAIN asks[t] : asks[t][i].q = q
    /\ \A r \in replies : r.q # q
    /\ replies' = replies \cup {[turn |-> t, q |-> q, selected |-> selected]}
    /\ UNCHANGED <<prompt, told, chan, control, current, asks>>

-----------------------------------------------------------------------------
(* Adapted::prompt and Adapted::run *)

\* The runtime started the turn: its control is at hand for a cancel.
Started(t) ==
    /\ prompt' = [prompt EXCEPT ![t] = "running"]
    /\ current' = t
    /\ UNCHANGED <<told, asks, replies>>

\* The runtime did not start the turn.
Refused(t) ==
    /\ prompt' = [prompt EXCEPT ![t] = "answered"]
    /\ told' = [told EXCEPT ![t] = "failed"]
    /\ UNCHANGED <<current, asks, replies>>

\* The runtime emits an event, unless the turn's receiver is gone.
Emit(t, event) ==
    chan' = IF prompt[t] = "answered" THEN chan
            ELSE [chan EXCEPT ![t] = Append(@, event)]

Running(t) == prompt[t] = "running" /\ chan[t] # <<>>

Take(t) == chan' = [chan EXCEPT ![t] = Tail(@)]

RelayText(t) ==
    /\ Running(t)
    /\ Head(chan[t]).what = "text"
    /\ Take(t)
    /\ UNCHANGED <<prompt, told, control, current, asks, replies>>

RelayAsk(t) ==
    /\ Running(t)
    /\ Head(chan[t]).what = "ask"
    /\ asks' = [asks EXCEPT ![t] =
                    Append(@, [q |-> Head(chan[t]).q, id |-> Head(chan[t]).id])]
    /\ Take(t)
    /\ UNCHANGED <<prompt, told, control, current, replies>>

\* The asks an answer from elsewhere may be of: those with its id, and any
\* when it came without one.
Matching(pending, id) == {i \in DOMAIN pending : id \in {None, pending[i].id}}

\* Someone else answered: the oldest such ask is withdrawn from the host.
RelayAnswered(t) ==
    /\ Running(t)
    /\ Head(chan[t]).what = "answered"
    /\ LET matching == Matching(asks[t], Head(chan[t]).id)
       IN  \/ \E i \in matching :
                /\ \A j \in matching : i <= j
                /\ asks' = [asks EXCEPT ![t] = RemoveAt(@, i)]
           \/ matching = {} /\ UNCHANGED asks
    /\ Take(t)
    /\ UNCHANGED <<prompt, told, control, current, replies>>

\* The turn's one end answers the host; what is left of its asks goes with it.
RelayEnd(t) ==
    /\ Running(t)
    /\ Head(chan[t]).what \in Outcome
    /\ prompt' = [prompt EXCEPT ![t] = "answered"]
    /\ told' = [told EXCEPT ![t] = Head(chan[t]).what]
    /\ chan' = [chan EXCEPT ![t] = <<>>]
    /\ asks' = [asks EXCEPT ![t] = <<>>]
    /\ replies' = {r \in replies : r.turn # t}
    /\ current' = None
    /\ UNCHANGED control

\* An answer goes to the runtime unless its ask was withdrawn meanwhile; a
\* cancelled one goes nowhere.
TakeReply(t) ==
    /\ prompt[t] = "running"
    /\ \E r \in replies :
        /\ r.turn = t
        /\ replies' = replies \ {r}
        /\ LET mine == {i \in DOMAIN asks[t] : asks[t][i].q = r.q}
           IN  \/ \E i \in mine :
                    /\ asks' = [asks EXCEPT ![t] = RemoveAt(@, i)]
                    /\ control' =
                         IF r.selected
                         THEN [control EXCEPT ![t] =
                                   Append(@, AnswerControl(r.q, asks[t][i].id))]
                         ELSE control
               \/ mine = {} /\ UNCHANGED <<asks, control>>
    /\ UNCHANGED <<prompt, told, chan, current>>

\* Adapted::run takes the next event.
RelayEvent(t) ==
    \/ RelayText(t)
    \/ RelayAsk(t)
    \/ RelayAnswered(t)
    \/ RelayEnd(t)

AdapterNext ==
    \E t \in Turns :
        \/ Prompt(t)
        \/ Cancel(t)
        \/ \E q \in Asks, selected \in BOOLEAN : HostAnswers(t, q, selected)
        \/ RelayEvent(t)
        \/ TakeReply(t)
-----------------------------------------------------------------------------

\* Every variable of the adapter holds values of its kind.
AdapterTypeOK ==
    /\ prompt \in [Turns -> {"new", "starting", "running", "answered"}]
    /\ told \in [Turns -> Outcome \cup {None}]
    /\ chan \in [Turns -> Seq(TurnEvent)]
    /\ control \in [Turns -> Seq(Control)]
    /\ current \in Turns \cup {None}
    /\ asks \in [Turns -> Seq(PendingAsk)]
    /\ replies \subseteq Reply
=============================================================================
