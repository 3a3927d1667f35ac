-------------------------------- MODULE Host --------------------------------
(***************************************************************************)
(* The host core (link-core/src/host.rs): the sessions it holds open in    *)
(* its agents, their turns, and the permission requests that wait.         *)
(*                                                                         *)
(* Everything the host knows is behind one mutex, and an action is one     *)
(* critical section.  What the code awaits (the agent's answer, the        *)
(* `opening` lock) lies between two actions: `op[c]` is where client c's   *)
(* call stands, and anybody may act meanwhile.  The agents are external:   *)
(* `hist` is a conversation as its agent keeps it.                         *)
(*                                                                         *)
(* `out` is what the last action put on the broadcast channel, each event  *)
(* with its place in the host's order.                                     *)
(***************************************************************************)
EXTENDS Naturals, Sequences, FiniteSets, SequencesExt

CONSTANTS
    Agents, Names,      \* agents, and the session ids they give
    Clients,            \* connections, the phone contract
    Turns, Asks, Updates, \* fresh turn ids, permission requests, updates
    Calls,              \* tool calls requests are about
    Kept,               \* agents the host's keeper added, and may remove
    Shared,             \* which agents' sessions may also change elsewhere
    Existing,           \* sessions the agents may have from before
    Opens,              \* how clients open sessions: "load", "resume"
    ListsEarly,         \* whether an agent lists a session it still starts
    None,
    OpenSessions,       \* OPEN_SESSIONS
    ResolvedRemembered, \* RESOLVED_REMEMBERED
    MaxStrays,          \* STRAYS
    MaxPlus,            \* bound: how many '+' a request id may grow
    MaxCalls            \* bound: client calls that wait for an agent

Key == Agents \X Names

ASSUME HostAssumption ==
    /\ IsFiniteSet(Asks) /\ IsFiniteSet(Agents) /\ IsFiniteSet(Names)
    /\ Shared \subseteq SUBSET Agents /\ Kept \subseteq Agents
    /\ Existing \subseteq Key
    /\ Opens \subseteq {"load", "resume"}
    /\ ListsEarly \in BOOLEAN
    /\ None \notin Turns \cup Key \cup Clients \cup Agents
    /\ {OpenSessions, ResolvedRemembered, MaxStrays, MaxPlus, MaxCalls} \subseteq Nat

VARIABLES
    hosted,     \* agents in the roster
    shared,     \* external: those whose sessions change elsewhere too
    removing,   \* the agent remove_agent is removing, past its sessions
    sess,       \* State.sessions
    older,      \* <<k, j>>: k was used before j (Session.used)
    turn,       \* the task each turn's prompt runs in
    ask,        \* every permission request; those pending are State.pending
    resolved,   \* State.resolved
    strays,     \* State.strays
    seq,        \* State.seq
    out,        \* the events of the last action
    op,         \* where each client's call stands
    queue,      \* who waits for the `opening` lock; its head holds it
    closing,    \* session/close the host sent for sessions it let go
    hist,       \* external: each conversation in its agent
    issued,     \* external: sessions the agents have made
    live,       \* external: those the host had opened, where agents talk
    calls,      \* client calls so far
    cut         \* history: sessions closed at some time under a running turn

hostVars == <<hosted, shared, removing, sess, older, turn, ask, resolved, strays, seq,
              out, op, queue, closing, hist, issued, live, calls, cut>>
rosterVars == <<hosted, shared, removing>>
askVars    == <<ask, resolved>>
heldVars   == <<sess, older, closing, strays>>
callVars   == <<op, queue, calls>>
agentVars  == <<hist, issued, live>>

-----------------------------------------------------------------------------
(* The host's state *)

AgentOf(k) == k[1]
Held == {k \in Key : sess[k].held}
IsOpen(k) == sess[k].held /\ ~sess[k].opening

Absent == [held |-> FALSE, opening |-> FALSE, turn |-> None, ended |-> None,
           record |-> <<>>]
Fresh(opening, record) == [Absent EXCEPT !.held = TRUE, !.opening = opening,
                                         !.record = record]

Pending == {a \in Asks : ask[a].state = "pending"}
PendingOf(k) == {a \in Pending : ask[a].key = k}
Id(a) == <<ask[a].call, ask[a].plus>>
Running == {t \in Turns : turn[t].state = "running"}
Busy(k) == sess[k].turn # None \/ PendingOf(k) # {}

UnusedTurns == {t \in Turns : turn[t].state = "none"}
UnusedAsks == {a \in Asks : ask[a].state = "none"}
UnusedUpdates == Updates \ UNION {ToSet(hist[k]) : k \in Key}
One(S) == CHOOSE x \in S : TRUE

(* What is said, in order *)

Event(type, k, of, who) == [type |-> type, key |-> k, of |-> of, who |-> who]

Emit(events) ==
    /\ out' = [i \in DOMAIN events |-> [seq |-> seq + i, event |-> events[i]]]
    /\ seq' = seq + Len(events)

Each(S, EventOf(_)) == LET s == SetToSeq(S)
                       IN  [i \in DOMAIN s |-> EventOf(s[i])]

Silent == Emit(<<>>)

(* Calls *)

IdleOp == [do |-> "idle", key |-> None, how |-> None, was |-> FALSE, upto |-> 0]
Idle(c) == op[c] = IdleOp
Done(c) == op' = [op EXCEPT ![c] = IdleOp]

\* A call that waits for an agent starts.
Call(c, do, k, how) ==
    /\ Idle(c)
    /\ calls < MaxCalls
    /\ calls' = calls + 1
    /\ op' = [op EXCEPT ![c] = [do |-> do, key |-> k, how |-> how,
                                   was |-> FALSE, upto |-> 0]]

(* Recency *)

Touch(k) == {p \in older : k \notin {p[1], p[2]}} \cup ((Held \ {k}) \X {k})
Without(order, gone) == {p \in order : p[1] \notin gone /\ p[2] \notin gone}

(* Requests *)

\* The asks R are over: their agents read `outcome`.
Over(R, outcome) == [a \in Asks |-> IF a \in R THEN [ask[a] EXCEPT !.state = outcome]
                                    ELSE ask[a]]
Remember(R) ==
    LET all == resolved \o Each(R, Id)
    IN  SubSeq(all, IF Len(all) > ResolvedRemembered
                    THEN Len(all) - ResolvedRemembered + 1 ELSE 1, Len(all))
ClosedEvent(k) == Event("closed", k, None, None)
ResolvedEvent(a) == Event("resolved", ask[a].key, a, None)
ResolvedEvents(R) == Each(R, ResolvedEvent)

\* One request is resolved; nobody's answer when the agent took it back.
Resolve(a, outcome) ==
    /\ ask' = Over({a}, outcome)
    /\ resolved' = Remember({a})
    /\ Emit(ResolvedEvents({a}))

(* Holding and letting go *)

\* Mutant: a session whose turn runs may go too.
DroppableInTurn(s, k) == ~s.opening /\ PendingOf(k) = {}
\* Whether the session s of k may be let go: nothing runs or waits in it.
Droppable(s, k) == s.turn = None /\ ~s.opening /\ PendingOf(k) = {}

\* k is recorded as s, with the updates that came before it, and past
\* OpenSessions the least recently used with nothing running or waiting go.
Insert(k, s) ==
    LET order   == Touch(k)
        now     == [sess EXCEPT ![k] = [s EXCEPT !.record = strays[k] \o @]]
        all     == Held \cup {k}
        idle    == {j \in all : Droppable(now[j], j)}
        rank(j) == Cardinality({i \in idle : <<i, j>> \in order})
        dropped == {j \in idle : rank(j) + OpenSessions < Cardinality(all)}
    IN  /\ sess' = [j \in Key |-> IF j \in dropped THEN Absent ELSE now[j]]
        /\ older' = Without(order, dropped)
        /\ closing' = [j \in Key |-> closing[j] + IF j \in dropped THEN 1 ELSE 0]
        /\ strays' = [strays EXCEPT ![k] = <<>>]

\* The sessions K are forgotten.
Forget(K) ==
    /\ sess' = [k \in Key |-> IF k \in K THEN Absent ELSE sess[k]]
    /\ older' = Without(older, K)
    /\ cut' = cut \cup {k \in K : sess[k].turn # None}

\* An update of k, from its agent or made by the host: recorded, and told
\* unless its session is being opened.
Record(k, u) == sess' = [sess EXCEPT ![k].record = IF sess[k].held THEN Append(@, u) ELSE @]

\* Mutant: nothing is kept for a session the host doesn't hold.
NoStrays(k, us) == strays
\* Updates of a session the host doesn't hold: kept while there is room.
Strayed(k, us) ==
    LET all  == strays[k] \o us
        full == Cardinality({j \in Key : strays[j] # <<>>}) >= OpenSessions
        room == IF strays[k] = <<>> /\ full THEN 0 ELSE MaxStrays
    IN  [strays EXCEPT ![k] = SubSeq(all, 1, IF Len(all) < room THEN Len(all) ELSE room)]

UpdateEvents(k, u, skip) ==
    IF IsOpen(k) THEN <<Event("update", k, u, skip)>> ELSE <<>>

-----------------------------------------------------------------------------
(* Sessions *)

Init ==
    /\ hosted = Agents /\ shared \in Shared
    /\ removing = None
    /\ sess = [k \in Key |-> Absent]
    /\ older = {}
    /\ turn = [t \in Turns |-> [state |-> "none", key |-> None, client |-> None]]
    /\ ask = [a \in Asks |-> [state |-> "none", key |-> None, turn |-> None,
                              call |-> None, plus |-> 0]]
    /\ resolved = <<>>
    /\ strays = [k \in Key |-> <<>>]
    /\ seq = 0
    /\ out = <<>>
    /\ op = [c \in Clients |-> IdleOp]
    /\ queue = <<>>
    /\ closing = [k \in Key |-> 0]
    /\ hist = [k \in Key |-> <<>>]
    /\ issued \in SUBSET Existing
    /\ live = {}
    /\ calls = 0
    /\ cut = {}

\* new_session, up to the agent: it makes a session and may talk in it
\* before its answer.
NewBegin(c, k) ==
    /\ AgentOf(k) \in hosted
    /\ k \notin issued /\ \A d \in Clients : op[d].key # k   \* an id nobody knows
    /\ issued' = issued \cup {k}
    /\ live' = live \cup {k}
    /\ Call(c, "new", k, None)
    /\ Silent
    /\ UNCHANGED <<rosterVars, heldVars, turn, askVars, queue, hist, cut>>

\* The agent's answer to session/new...
NewOk(c) ==
    /\ op[c].do = "new"
    /\ Insert(op[c].key, Fresh(FALSE, <<>>))
    /\ Done(c)
    /\ Silent
    /\ UNCHANGED <<rosterVars, turn, askVars, cut, queue, agentVars, calls>>

\* ... or its error.
NewErr(c) ==
    /\ op[c].do = "new"
    /\ Done(c)
    /\ Silent
    /\ UNCHANGED <<rosterVars, heldVars, turn, askVars, cut, queue, agentVars, calls>>

NewAnswered(c) == NewOk(c) \/ NewErr(c)

Starting(k) == \E c \in Clients : op[c].do = "new" /\ op[c].key = k
Refresh(k, how) == how = "load" /\ AgentOf(k) \in shared

\* A session already open is answered from its record.
OpenFromRecord(c, k, how) ==
    /\ Idle(c)
    /\ AgentOf(k) \in hosted
    /\ ~Refresh(k, how)
    /\ IsOpen(k)
    /\ older' = Touch(k)
    /\ Silent
    /\ UNCHANGED <<rosterVars, sess, turn, askVars, strays, callVars, closing, agentVars, cut>>

\* Any other waits for the `opening` lock.
OpenWait(c, k, how) ==
    /\ AgentOf(k) \in hosted
    /\ k \in issued
    /\ Refresh(k, how) \/ ~IsOpen(k)
    /\ Starting(k) => ListsEarly
    /\ Call(c, "wait", k, how)
    /\ queue' = Append(queue, c)
    /\ Silent
    /\ UNCHANGED <<rosterVars, heldVars, turn, askVars, agentVars, cut>>

\* Mutant: a call that is done keeps the lock.
KeepLock == UNCHANGED queue
HasLock(c) == queue # <<>> /\ Head(queue) = c
Unlock == queue' = Tail(queue)
AnsweredByNow(k, how) == IsOpen(k) /\ (~Refresh(k, how) \/ Busy(k))

\* Opened meanwhile (or busy, so not read afresh): answered from the record.
OpenLate(c) ==
    /\ op[c].do = "wait" /\ HasLock(c)
    /\ AnsweredByNow(op[c].key, op[c].how)
    /\ older' = Touch(op[c].key)
    /\ Done(c) /\ Unlock
    /\ Silent
    /\ UNCHANGED <<rosterVars, sess, turn, askVars, strays, closing, agentVars, calls, cut>>

\* The agent is asked to open it; one already held is read afresh.
OpenInAgent(c) ==
    LET k == op[c].key
    IN  /\ op[c].do = "wait" /\ HasLock(c)
        /\ ~AnsweredByNow(k, op[c].how)
        /\ op' = [op EXCEPT ![c].do = "open", ![c].was = sess[k].held,
                            ![c].upto = Len(hist[k])]
        /\ IF sess[k].held
           THEN /\ sess' = [sess EXCEPT ![k].record = <<>>, ![k].opening = TRUE]
                /\ UNCHANGED <<older, closing, strays>>
           ELSE Insert(k, Fresh(TRUE, <<>>))
        /\ Silent
        /\ UNCHANGED <<rosterVars, turn, askVars, queue, agentVars, calls, cut>>

\* The agent opened it: session/load first replays the conversation, as it was
\* when the request came, into the record (or among the strays, if the host let the session go meanwhile).
OpenOk(c) ==
    LET k      == op[c].key
        replay == IF op[c].how = "load" THEN SubSeq(hist[k], 1, op[c].upto) ELSE <<>>
    IN  /\ op[c].do = "open"
        /\ live' = live \cup {k}
        /\ IF sess[k].held
           THEN /\ sess' = [sess EXCEPT ![k].record = @ \o replay, ![k].opening = FALSE]
                /\ older' = Touch(k)
                /\ UNCHANGED strays
           ELSE /\ strays' = Strayed(k, replay)
                /\ UNCHANGED <<sess, older>>
        /\ Done(c) /\ Unlock
        /\ Silent
        /\ UNCHANGED <<rosterVars, turn, askVars, closing, hist, issued, calls, cut>>

\* Mutant: a session whose refresh failed stays `opening`.
LeftOpening(k) == UNCHANGED <<sess, older, cut>>
StillOpen(k) == /\ sess' = [sess EXCEPT ![k].opening = FALSE]
                /\ UNCHANGED <<older, cut>>

\* The agent could not: one that was open stays, any other is forgotten.
OpenErr(c) ==
    LET k == op[c].key
    IN  /\ op[c].do = "open"
        /\ IF op[c].was
           THEN StillOpen(k)
           ELSE Forget({k})
        /\ Done(c) /\ Unlock
        /\ Silent
        /\ UNCHANGED <<rosterVars, turn, askVars, strays, closing, agentVars, calls>>

\* session/set_mode, set_config_option, close or delete go to the agent.
ChangeBegin(c, k, method) ==
    /\ IsOpen(k)
    /\ AgentOf(k) \in hosted
    /\ Call(c, "change", k, method)
    /\ Silent
    /\ UNCHANGED <<rosterVars, heldVars, turn, askVars, queue, agentVars, cut>>

ChangeErr(c) ==
    /\ op[c].do = "change"
    /\ Done(c)
    /\ Silent
    /\ UNCHANGED <<rosterVars, heldVars, turn, askVars, queue, agentVars, calls, cut>>

\* A mode changed: recorded, and told to every other client.
ModeOk(c) ==
    LET k == op[c].key
        u == One(UnusedUpdates)
    IN  /\ op[c].do = "change" /\ op[c].how = "mode"
        /\ UnusedUpdates # {}
        /\ Record(k, u)
        /\ Emit(UpdateEvents(k, u, c))
        /\ hist' = [hist EXCEPT ![k] = Append(@, u)]
        /\ Done(c)
        /\ UNCHANGED <<rosterVars, older, turn, askVars, strays, queue, closing, issued, live, calls, cut>>

\* Closed in the agent: its requests are cancelled, it is let go, and
\* everybody is detached, whatever happened to it meanwhile.
CloseOk(c) ==
    LET k == op[c].key
    IN  /\ op[c].do = "change" /\ op[c].how = "close"
        /\ ask' = Over(PendingOf(k), "cancelled")
        /\ resolved' = Remember(PendingOf(k))
        /\ Forget({k})
        /\ Emit(Append(ResolvedEvents(PendingOf(k)), ClosedEvent(k)))
        /\ Done(c)
        /\ UNCHANGED <<rosterVars, turn, strays, queue, closing, agentVars, calls>>

\* A session/close for a session let go reaches its agent.
CloseArrives(k) ==
    /\ closing[k] > 0
    /\ closing' = [closing EXCEPT ![k] = @ - 1]
    /\ Silent
    /\ UNCHANGED <<rosterVars, sess, older, turn, askVars, strays, callVars, agentVars, cut>>

-----------------------------------------------------------------------------
(* Turns *)

\* A turn starts: announced, its prompt recorded, its task spawned.
Prompt(c, k) ==
    LET t == One(UnusedTurns)
    IN  /\ Idle(c)
        /\ IsOpen(k)
        /\ sess[k].turn = None
        /\ UnusedTurns # {}
        /\ turn' = [turn EXCEPT ![t] = [state |-> "running", key |-> k, client |-> c]]
        /\ sess' = [sess EXCEPT ![k].turn = t, ![k].record = Append(@, t)]
        /\ hist' = [hist EXCEPT ![k] = Append(@, t)]
        /\ Emit(<<Event("running", k, t, None), Event("update", k, t, c)>>)
        /\ UNCHANGED <<rosterVars, older, askVars, strays, callVars, closing, issued, live, cut>>

\* The requests the turn t left pending.
LeftBy(t) == {a \in Pending : ask[a].turn = t}

\* Mutant: the turn's end is told before its answer.
EndFirst(k, t, who) == <<Event("ended", k, t, None), Event("answered", k, t, who)>>
EndEvents(k, t, who) == <<Event("answered", k, t, who), Event("ended", k, t, None)>>

\* The agent answered the prompt of t (or failed it).  The session's slot is
\* emptied, whichever turn is in it.
End(t) ==
    LET k    == turn[t].key
        slot == sess[k].turn
        who  == IF slot = None THEN None ELSE turn[slot].client
        left == LeftBy(t)
    IN  /\ t \in Running
        /\ turn' = [turn EXCEPT ![t].state = "ended"]
        /\ sess' = IF sess[k].held
                   THEN [sess EXCEPT ![k].turn = None, ![k].ended = t]
                   ELSE sess
        /\ ask' = Over(left, "cancelled")
        /\ resolved' = Remember(left)
        /\ Emit(ResolvedEvents(left) \o EndEvents(k, t, who))
        /\ UNCHANGED <<rosterVars, older, strays, callVars, closing, agentVars, cut>>

\* session/cancel: its requests are answered `cancelled` (and its agent told).
Cancel(c, k) ==
    /\ Idle(c)
    /\ sess[k].held
    /\ ask' = Over(PendingOf(k), "cancelled")
    /\ resolved' = Remember(PendingOf(k))
    /\ Emit(ResolvedEvents(PendingOf(k)))
    /\ UNCHANGED <<rosterVars, heldVars, turn, callVars, agentVars, cut>>

\* The request with a's id is answered.
Answer(c, a, outcome) ==
    /\ Idle(c)
    /\ a \in Pending
    /\ Resolve(a, outcome)
    /\ UNCHANGED <<rosterVars, heldVars, turn, callVars, agentVars, cut>>

-----------------------------------------------------------------------------
(* From the agents *)

AgentUpdates(k) ==
    LET u == One(UnusedUpdates)
    IN  /\ k \in live
        /\ UnusedUpdates # {}
        /\ hist' = [hist EXCEPT ![k] = Append(@, u)]
        /\ Record(k, u)
        /\ strays' = IF sess[k].held THEN strays ELSE Strayed(k, <<u>>)
        /\ Emit(UpdateEvents(k, u, None))
        /\ UNCHANGED <<rosterVars, older, turn, askVars, callVars, closing, issued, live, cut>>

\* A shared session changes where the host doesn't see it.
ChangedElsewhere(k) ==
    /\ k \in issued /\ AgentOf(k) \in shared
    /\ UnusedUpdates # {}
    /\ hist' = [hist EXCEPT ![k] = Append(@, One(UnusedUpdates))]
    /\ Silent
    /\ UNCHANGED <<rosterVars, heldVars, turn, askVars, callVars, issued, live, cut>>

\* Mutant: an older request for the same call is over only in the same turn.
SameCallInTurn(k, call) ==
    {b \in PendingOf(k) : ask[b].call = call /\ ask[b].turn = sess[k].turn}
SameCall(k, call) == {b \in PendingOf(k) : ask[b].call = call}
\* `call` with n times '+' is the first id not taken.
NextFree(call, n, ids) == <<call, n>> \notin ids /\ \A m \in 0..(n - 1) : <<call, m>> \in ids

\* A permission request about `call`: one for a session the host doesn't hold
\* is dropped (its agent reads `cancelled`); an older one for the same call is
\* over; its id is the call's, with '+' while another request has that.
AskPermission(k, call) ==
    LET a    == One(UnusedAsks)
        same == SameCall(k, call)
        ids  == {Id(b) : b \in Pending \ same}
        new(state, n) == [Over(same, "cancelled") EXCEPT ![a] =
            [state |-> state, key |-> k, turn |-> sess[k].turn, call |-> call, plus |-> n]]
    IN  /\ k \in live
        /\ UnusedAsks # {}
        /\ IF sess[k].held
           THEN \E n \in 0..MaxPlus :
                  /\ NextFree(call, n, ids)
                  /\ ask' = new("pending", n)
                  /\ resolved' = Remember(same)
                  /\ Emit(Append(ResolvedEvents(same), Event("added", k, a, None)))
           ELSE /\ ask' = [ask EXCEPT ![a].state = "cancelled"]
                /\ UNCHANGED resolved
                /\ Silent
        /\ UNCHANGED <<rosterVars, heldVars, turn, callVars, agentVars, cut>>

\* The agent takes a request back.
Withdraw(a) ==
    /\ a \in Pending
    /\ Resolve(a, "withdrawn")
    /\ UNCHANGED <<rosterVars, heldVars, turn, callVars, agentVars, cut>>

-----------------------------------------------------------------------------
(* Removing an agent *)

\* Its sessions' requests are cancelled, its sessions let go...
RemoveSessions(ag) ==
    LET mine == {k \in Held : AgentOf(k) = ag}
        left == UNION {PendingOf(k) : k \in mine}
    IN  /\ removing = None
        /\ ag \in hosted \cap Kept
        /\ removing' = ag
        /\ ask' = Over(left, "cancelled")
        /\ resolved' = Remember(left)
        /\ Forget(mine)
        /\ Emit(ResolvedEvents(left) \o Each(mine, ClosedEvent))
        /\ UNCHANGED <<hosted, shared, turn, strays, callVars, closing, agentVars>>

\* ... and then it leaves the roster.
RemoveFromRoster ==
    /\ removing # None
    /\ hosted' = hosted \ {removing}
    /\ removing' = None
    /\ Silent
    /\ UNCHANGED <<shared, heldVars, turn, askVars, callVars, agentVars, cut>>

-----------------------------------------------------------------------------
(* A client's step, an agent's, and the specification *)

ClientStep(c) ==
    \/ NewAnswered(c) \/ OpenLate(c) \/ OpenInAgent(c) \/ OpenOk(c) \/ OpenErr(c)
    \/ ChangeErr(c) \/ ModeOk(c) \/ CloseOk(c)

ClientCall(c) ==
    \E k \in Key :
       \/ NewBegin(c, k) \/ Prompt(c, k) \/ Cancel(c, k)
       \/ \E how \in Opens : OpenFromRecord(c, k, how) \/ OpenWait(c, k, how)
       \/ \E method \in {"mode", "close"} : ChangeBegin(c, k, method)

ClientAnswer(c) ==
    \E a \in Asks, outcome \in {"selected", "cancelled"} : Answer(c, a, outcome)

AgentStep ==
    \/ \E t \in Turns : End(t)
    \/ \E a \in Asks : Withdraw(a)
    \/ \E k \in Key : AgentUpdates(k) \/ ChangedElsewhere(k) \/ CloseArrives(k)
                      \/ \E call \in Calls : AskPermission(k, call)

RemoveStep == (\E ag \in Agents : RemoveSessions(ag)) \/ RemoveFromRoster

Next ==
    \/ \E c \in Clients : ClientCall(c) \/ ClientStep(c) \/ ClientAnswer(c)
    \/ AgentStep
    \/ RemoveStep

Spec == Init /\ [][Next]_hostVars

\* An agent answers every request in the end (its process ending answers them
\* all), and the `opening` lock is fair: so a call goes on.
Fairness == \A c \in Clients : WF_hostVars(ClientStep(c))
FairSpec == Spec /\ Fairness

-----------------------------------------------------------------------------
(* What the host promises *)

Entry == Updates \cup Turns

SessType == [held : BOOLEAN, opening : BOOLEAN, turn : Turns \cup {None},
             ended : Turns \cup {None}, record : Seq(Entry)]
TurnType == [state : {"none"}, key : {None}, client : {None}]
            \cup [state : {"running", "ended"}, key : Key, client : Clients]
AskType  == [state : {"none", "cancelled"}, key : {None}, turn : {None},
             call : {None}, plus : {0}]
            \cup [state : {"pending", "selected", "cancelled", "withdrawn"}, key : Key,
                  turn : Turns \cup {None}, call : Calls, plus : Nat]
OpType   == {IdleOp}
            \cup [do : {"new", "wait", "open", "change"}, key : Key,
                  how : {None, "load", "resume", "mode", "close"}, was : BOOLEAN, upto : Nat]
IdType   == Calls \X Nat

\* Every variable holds values of its kind: a call names a session, a turn that
\* started the client that started it, a request that was let in its tool call;
\* and only so many ids are remembered.
TypeOK ==
    /\ hosted \cup shared \subseteq Agents
    /\ removing \in Agents \cup {None}
    /\ sess \in [Key -> SessType]
    /\ older \in SUBSET (Key \X Key)
    /\ turn \in [Turns -> TurnType]
    /\ ask \in [Asks -> AskType]
    /\ resolved \in Seq(IdType) /\ Len(resolved) <= ResolvedRemembered
    /\ strays \in [Key -> Seq(Entry)]
    /\ seq \in Nat
    /\ op \in [Clients -> OpType]
    /\ queue \in Seq(Clients)
    /\ closing \in [Key -> Nat]
    /\ hist \in [Key -> Seq(Entry)]
    /\ issued \subseteq Key
    /\ live \subseteq Key
    /\ calls \in Nat
    /\ cut \subseteq Key

\* "A second prompt while one runs is refused" (host.rs, Turns): in a session
\* never closed under a running turn, whatever clients, evictions, failed opens
\* and refreshes do, at most one turn runs, and the session's slot names it.
TurnsExclusive ==
    \A k \in Key \ cut : \A t \in Running : turn[t].key = k => sess[k].turn = t

\* "A turn that ends resolves what it left open as cancelled": a pending
\* request never names a turn that is over, and names one of its own session.
PendingTurnRuns ==
    \A a \in Pending : ask[a].turn # None =>
        ask[a].turn \in Running /\ turn[ask[a].turn].key = ask[a].key

\* host/answer finds a request by its id, and "a host MUST NOT hold two pending
\* requests for the same tool call" (oal-0.1.md, 10).
PendingUnique ==
    \A a, b \in Pending : a # b =>
        /\ Id(a) # Id(b)
        /\ ~(ask[a].key = ask[b].key /\ ask[a].call = ask[b].call)

\* Only the client holding the `opening` lock has a session being opened: none
\* is opened twice, and none is left half open when its opening failed, was
\* overtaken by a close or a removal, or refreshed a session in use.
OpeningHeld ==
    \A k \in Key : sess[k].opening =>
        queue # <<>> /\ op[Head(queue)].do = "open" /\ op[Head(queue)].key = k
\* What runs in a session being opened would be cleared with its record.
OpeningIdle == \A k \in Key : sess[k].opening => sess[k].turn = None

\* Past OPEN_SESSIONS (and when an opening fails) a session goes without a word
\* to its clients; one with a turn running never does (host.rs, insert).
LeavesSpoken ==
    \A k \in Held \ Held' : sess[k].turn # None =>
        \E i \in DOMAIN out' : out'[i].event = ClosedEvent(k)
NeverDroppedInTurn == [][LeavesSpoken]_hostVars

\* However opens, failures, closes and removals fall, nobody waits for ever for
\* the host-wide `opening` lock: every call to an agent is answered.
CallsAnswered == \A c \in Clients : ~Idle(c) ~> Idle(c)

\* "A coding agent's sessions have one client, the host, so its record is the
\* session" (backend.rs:156): while every client opens with session/load,
\* nothing of a conversation is missing from its record.
RecordWhole ==
    \A k \in Key : IsOpen(k) /\ AgentOf(k) \notin shared =>
        ToSet(hist[k]) \subseteq ToSet(sess[k].record)

=============================================================================
