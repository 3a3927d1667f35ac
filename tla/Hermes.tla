------------------------------- MODULE Hermes -------------------------------
(***************************************************************************)
(* A turn as a run of a Hermes API server (link-core/src/hermes.rs over    *)
(* nebo-runtimes/src/hermes/runs.rs): started with one request, followed   *)
(* on an event stream that may break and be reopened, and polled for its   *)
(* outcome when the stream is given up; stopped, and its requests          *)
(* answered, with requests of their own.  Every request may fail before or *)
(* after the server took it.                                               *)
(*                                                                         *)
(* The server is external.  It numbers the events of a run; a server that  *)
(* is "new" keeps them for a stream that reopens, gives requests for       *)
(* permission an id and loads the session's transcript itself; an "old"    *)
(* one does none of these.  Bounds: a run has at most MaxSteps events      *)
(* before its last.                                                        *)
(***************************************************************************)
EXTENDS Adapter

CONSTANTS
    MaxReconnects,  \* MAX_RECONNECTS
    MaxSteps

ASSUME HermesBounds == MaxReconnects \in Nat /\ MaxSteps \in Nat

VARIABLES
    server,   \* which server: "old" or "new"
    run,      \* the server's run of a turn
    log,      \* the events of the run so far
    waits,    \* the request the run waits on, or None
    decided,  \* what decided a request: the ask whose answer it was
    call,     \* where the link's task for the turn is
    last,     \* EventStream.last_seq
    pos,      \* the event the open body gives next, 0 without a body
    reconnects,
    lossy,    \* turns whose stream was reopened past events it had not given
    shown     \* the events of the run that were relayed, as their numbers

serverVars == <<server, run, log, waits, decided>>
streamVars == <<last, pos, reconnects, lossy, shown>>
hermesVars == <<adapterVars, serverVars, call, streamVars>>

Ended == {"completed", "failed", "cancelled", "interrupted"}
RunState == {"none", "running", "stopping"} \cup Ended
LogEntry ==
    [what : {"text"} \cup Ended, q : {None}]
        \cup [what : {"ask", "answered"}, q : Asks]

HermesInit ==
    /\ AdapterInit
    /\ server \in {"old", "new"}
    /\ run = [t \in Turns |-> "none"]
    /\ log = [t \in Turns |-> <<>>]
    /\ waits = [t \in Turns |-> None]
    /\ decided = [q \in Asks |-> None]
    /\ call = [t \in Turns |-> "none"]
    /\ last = [t \in Turns |-> 0]
    /\ pos = [t \in Turns |-> 0]
    /\ reconnects = [t \in Turns |-> 0]
    /\ lossy = {}
    /\ shown = [t \in Turns |-> <<>>]

-----------------------------------------------------------------------------
(* The server (external) *)

Entry(what, q) == [what |-> what, q |-> q]
Live(t) == run[t] \in {"running", "stopping"}
Steps(t) == Cardinality({i \in DOMAIN log[t] : log[t][i].what # "answered"})

ServerText(t) ==
    /\ Live(t) /\ waits[t] = None
    /\ Steps(t) < MaxSteps
    /\ log' = [log EXCEPT ![t] = Append(@, Entry("text", None))]
    /\ UNCHANGED <<adapterVars, server, run, waits, decided, call, streamVars>>

ServerAsks(t, q) ==
    /\ run[t] = "running" /\ waits[t] = None
    /\ Steps(t) < MaxSteps
    /\ decided[q] = None
    /\ \A u \in Turns : Entry("ask", q) \notin ToSet(log[u])
    /\ waits' = [waits EXCEPT ![t] = q]
    /\ log' = [log EXCEPT ![t] = Append(@, Entry("ask", q))]
    /\ UNCHANGED <<adapterVars, server, run, decided, call, streamVars>>

\* The request t's run waits on is answered with the answer given to by.
Decide(t, by) ==
    /\ decided' = [decided EXCEPT ![waits[t]] = by]
    /\ waits' = [waits EXCEPT ![t] = None]
    /\ log' = [log EXCEPT ![t] = Append(@, Entry("answered", waits[t]))]

\* Someone answers in Hermes' own interface, or the server gives up waiting.
DecidedElsewhere(t) ==
    /\ waits[t] # None
    /\ Decide(t, waits[t])
    /\ UNCHANGED <<adapterVars, server, run, call, streamVars>>

ServerEnds(t, outcome) ==
    /\ Live(t)
    /\ outcome = "cancelled" => run[t] = "stopping"
    /\ run' = [run EXCEPT ![t] = outcome]
    /\ waits' = [waits EXCEPT ![t] = None]
    /\ log' = [log EXCEPT ![t] = Append(@, Entry(outcome, None))]
    /\ UNCHANGED <<adapterVars, server, decided, call, streamVars>>

-----------------------------------------------------------------------------
(* Hermes::turn: the requests that start a turn *)

Goto(t, pc) == call' = [call EXCEPT ![t] = pc]

Refuse(t) ==
    /\ Refused(t)
    /\ Goto(t, "done")
    /\ UNCHANGED <<chan, control>>

\* Whether this server loads the session itself is asked at every turn.
ReadVersion(t) ==
    /\ prompt[t] = "starting" /\ call[t] = "none"
    /\ Goto(t, IF server = "new" THEN "start" ELSE "history")
    /\ UNCHANGED <<adapterVars, serverVars, streamVars>>

ReadHistory(t) ==
    /\ call[t] = "history"
    /\ Goto(t, "start")
    /\ UNCHANGED <<adapterVars, serverVars, streamVars>>

\* A request before the run's fails: the turn is refused.
NotStarted(t) ==
    /\ prompt[t] = "starting" /\ call[t] \in {"none", "history", "start"}
    /\ Refuse(t)
    /\ UNCHANGED <<serverVars, streamVars>>

\* The server starts the run; the link gets its id, or its answer is lost.
StartRun(t) ==
    /\ call[t] = "start"
    /\ run' = [run EXCEPT ![t] = "running"]
    /\ \/ Goto(t, "events") /\ UNCHANGED adapterVars
       \/ Refuse(t)
    /\ UNCHANGED <<server, log, waits, decided, streamVars>>

\* The event stream is opened and the turn handed to the adapter; or it is
\* refused, and the run goes on without it.
OpenEvents(t) ==
    /\ call[t] = "events"
    /\ \/ /\ Started(t)
          /\ Goto(t, "stream")
          /\ pos' = [pos EXCEPT ![t] = 1]
          /\ UNCHANGED <<chan, control>>
       \/ Refuse(t) /\ UNCHANGED pos
    /\ UNCHANGED <<serverVars, last, reconnects, lossy, shown>>

-----------------------------------------------------------------------------
(* relay: the run's events become the turn's *)

\* Mutant: An interrupted run passes for a completed one.
OutcomeHopeful(end) == IF end = "interrupted" THEN "completed" ELSE end

\* What a run's end is to the host.
OutcomeOf(end) == IF end = "interrupted" THEN "failed" ELSE end

IdOf(q) == IF server = "new" THEN q ELSE None

EventOf(entry) ==
    CASE entry.what = "text" -> Text
      [] entry.what = "ask" -> AskOf(entry.q, IdOf(entry.q))
      [] entry.what = "answered" -> AskAnswered(IdOf(entry.q))
      [] OTHER -> EndOf(OutcomeOf(entry.what))

\* Mutant: The last event delivered may be given again.
RepeatedBefore(t, seq) == server = "new" /\ seq < last[t]

\* A reopened stream may give again what was delivered; it is passed over.
Repeated(t, seq) == server = "new" /\ seq <= last[t]

Deliver(t) ==
    /\ call[t] = "stream"
    /\ pos[t] \in DOMAIN log[t]
    /\ pos' = [pos EXCEPT ![t] = @ + 1]
    /\ IF Repeated(t, pos[t])
       THEN UNCHANGED <<last, shown, chan, call>>
       ELSE LET entry == log[t][pos[t]]
            IN  /\ last' = [last EXCEPT ![t] = pos[t]]
                /\ shown' = [shown EXCEPT ![t] = Append(@, pos[t])]
                /\ Emit(t, EventOf(entry))
                /\ IF entry.what \in Ended THEN Goto(t, "done") ELSE UNCHANGED call
    /\ UNCHANGED <<prompt, told, control, current, asks, replies>>
    /\ UNCHANGED <<serverVars, reconnects, lossy>>

\* The body ends or fails: the stream is reopened, or given up.
Break(t) ==
    /\ call[t] = "stream" /\ pos[t] # 0
    /\ pos' = [pos EXCEPT ![t] = 0]
    /\ IF reconnects[t] >= MaxReconnects THEN Goto(t, "poll") ELSE UNCHANGED call
    /\ UNCHANGED <<adapterVars, serverVars, last, reconnects, lossy, shown>>

\* Where a reopened body can begin: at an event up to the one asked for, or
\* past it when the server no longer holds it, or never did.
ResumeAt(t) ==
    IF server = "new" THEN 1..(Len(log[t]) + 1) ELSE (last[t] + 1)..(Len(log[t]) + 1)

Reopen(t) ==
    /\ call[t] = "stream" /\ pos[t] = 0
    /\ reconnects' = [reconnects EXCEPT ![t] = @ + 1]
    /\ \/ \E p \in ResumeAt(t) :
            /\ pos' = [pos EXCEPT ![t] = p]
            /\ lossy' = IF p > last[t] + 1 THEN lossy \cup {t} ELSE lossy
            /\ UNCHANGED call
       \/ Goto(t, "poll") /\ UNCHANGED <<pos, lossy>>
    /\ UNCHANGED <<adapterVars, serverVars, last, shown>>

\* Mutant: A stream that is given up ends the task without an outcome.
GiveUpQuietly(t) ==
    /\ Goto(t, "done")
    /\ pos' = [pos EXCEPT ![t] = 0]
    /\ UNCHANGED <<adapterVars, serverVars, last, reconnects, lossy, shown>>

GiveUp(t) ==
    /\ Goto(t, "poll")
    /\ pos' = [pos EXCEPT ![t] = 0]
    /\ UNCHANGED <<adapterVars, serverVars, last, reconnects, lossy, shown>>

\* The server closes the stream of a run that ended, once it gave all.
CloseStream(t) ==
    /\ call[t] = "stream" /\ pos[t] > Len(log[t])
    /\ run[t] \in Ended
    /\ GiveUp(t)

\* A frame cannot be read.
BadFrame(t) ==
    /\ call[t] = "stream" /\ pos[t] \in DOMAIN log[t]
    /\ GiveUp(t)

\* Mutant: A run that the polls lose patience with is taken as completed.
PolledHopeful(t) == IF run[t] \in Ended THEN {OutcomeOf(run[t])} ELSE {"completed"}

\* outcome: a poll that finds the run ended, or fails, or is the last one
\* the patience allows, ends the turn.
Polled(t) == IF run[t] \in Ended THEN {OutcomeOf(run[t]), "failed"} ELSE {"failed"}

Poll(t) ==
    /\ call[t] = "poll"
    /\ \E outcome \in Polled(t) : Emit(t, EndOf(outcome))
    /\ Goto(t, "done")
    /\ UNCHANGED <<prompt, told, control, current, asks, replies>>
    /\ UNCHANGED <<serverVars, streamVars>>

-----------------------------------------------------------------------------
(* steer: the adapter's controls become requests *)

\* Mutant: The id of an answer is not sent.
TargetsAny(t, id) == {waits[t]} \ {None}

\* The request an answer is for: the one with its id, and without one
\* whatever the run waits on.
Targets(t, id) == IF id = None THEN {waits[t]} \ {None} ELSE {waits[t]} \cap {id}

\* A run that goes on is stopped: it is to end soon.
StopRun(t) ==
    /\ Live(t)
    /\ run' = [run EXCEPT ![t] = "stopping"]
    /\ UNCHANGED <<log, waits, decided>>

\* The answer to request q goes out with the id the request came with.
AnswerAsk(t, q, id) ==
    /\ Targets(t, id) # {}
    /\ Decide(t, q)
    /\ UNCHANGED run

Steer(t) ==
    /\ call[t] \in {"stream", "poll", "done"}
    /\ control[t] # <<>>
    /\ control' = [control EXCEPT ![t] = Tail(@)]
    /\ LET c == Head(control[t])
       IN  \/ c.what = "cancel" /\ StopRun(t)
           \/ c.what = "answer" /\ AnswerAsk(t, c.q, c.id)
           \/ UNCHANGED <<run, log, waits, decided>>  \* refused, or lost
    /\ UNCHANGED <<prompt, told, chan, current, asks, replies>>
    /\ UNCHANGED <<server, call, streamVars>>

-----------------------------------------------------------------------------

HermesTask(t) ==
    \/ ReadVersion(t)
    \/ ReadHistory(t)
    \/ NotStarted(t)
    \/ StartRun(t)
    \/ OpenEvents(t)
    \/ Deliver(t)
    \/ Break(t)
    \/ Reopen(t)
    \/ CloseStream(t)
    \/ BadFrame(t)
    \/ Poll(t)
    \/ Steer(t)

HermesServer(t) ==
    \/ ServerText(t)
    \/ \E q \in Asks : ServerAsks(t, q)
    \/ DecidedElsewhere(t)
    \/ \E outcome \in Ended : ServerEnds(t, outcome)

HermesNext ==
    \/ AdapterNext /\ UNCHANGED <<serverVars, call, streamVars>>
    \/ \E t \in Turns : HermesTask(t) \/ HermesServer(t)

HermesSpec == HermesInit /\ [][HermesNext]_hermesVars

\* The link's tasks run, and requests and polls return; the server ends every
\* run at last, which is its part.
HermesFairness ==
    \A t \in Turns :
        /\ WF_hermesVars(ReadVersion(t) \/ ReadHistory(t) \/ StartRun(t)
                             \/ OpenEvents(t) \/ Reopen(t) \/ CloseStream(t)
                             \/ Poll(t))
        /\ WF_hermesVars(Deliver(t))
        /\ WF_hermesVars(RelayEvent(t) /\ UNCHANGED <<serverVars, call, streamVars>>)
        /\ WF_hermesVars(\E outcome \in Ended : ServerEnds(t, outcome))

HermesFairSpec == HermesSpec /\ HermesFairness

-----------------------------------------------------------------------------
(* Properties *)

HermesTypeOK ==
    /\ AdapterTypeOK
    /\ server \in {"old", "new"}
    /\ run \in [Turns -> RunState]
    /\ log \in [Turns -> Seq(LogEntry)]
    /\ waits \in [Turns -> Asks \cup {None}]
    /\ decided \in [Asks -> Asks \cup {None}]
    /\ call \in [Turns -> {"none", "history", "start", "events", "stream",
                           "poll", "done"}]
    /\ last \in [Turns -> Nat]
    /\ pos \in [Turns -> Nat]
    /\ reconnects \in [Turns -> Nat]
    /\ lossy \subseteq Turns
    /\ shown \in [Turns -> Seq(Nat)]

\* A turn the host is told completed, or was cancelled, is one whose run did:
\* whether its end came on the stream, on one that was reopened, or from the
\* polls that replace it (relay, outcome).
OutcomeTrue ==
    \A t \in Turns : told[t] \in {"completed", "cancelled"} => run[t] = told[t]

\* What a turn shows of its run is in the run's order and has nothing twice,
\* over every reopening; and nothing is missing unless the server itself had
\* dropped it (EventStream.next, reopen).
StreamWhole ==
    \A t \in Turns :
        /\ \A i, j \in DOMAIN shown[t] : i < j => shown[t][i] < shown[t][j]
        /\ t \notin lossy => \A i \in DOMAIN shown[t] : shown[t][i] = i

\* An answer of the owner decides the request it was given to, or none: also
\* when the request was meanwhile answered elsewhere and the run waits on
\* another.
AnswerItsOwn ==
    server = "new" => \A q \in Asks : decided[q] \in {q, None}

\* A turn on Hermes is a turn as the host was promised it (BackendTurn): one
\* answer for each prompt, which is the run's own end or a failure, over lost
\* answers, broken streams, stops and polls.
FateOf(r) ==
    CASE r = "stopping" -> "running"
      [] r = "interrupted" -> "failed"
      [] OTHER -> r

Promise == INSTANCE BackendTurn
    WITH asked <- {t \in Turns : prompt[t] # "new"},
         fate <- [t \in Turns |-> FateOf(run[t])]

KeepsPromise == Promise!TurnSpec

\* Every prompt is answered, whatever of its requests and streams fails.
TurnAnswered == \A t \in Turns : prompt[t] = "starting" ~> prompt[t] = "answered"
=============================================================================
