------------------------------ MODULE Openclaw ------------------------------
(***************************************************************************)
(* A turn as one chat.send to an OpenClaw gateway                          *)
(* (link-core/src/openclaw.rs over nebo-runtimes/src/openclaw/gateway.rs): *)
(* one WebSocket serves every turn and every reading of a transcript,      *)
(* opened on first use and again after it closes, under a lock, with the   *)
(* proof of the device's key the link keeps in a file.  Its reader hands   *)
(* answers to the requests that wait, keeps the session's active run and   *)
(* queues the events; a router task of the socket hands the events to the  *)
(* turn on the session, in one table that all sockets share.               *)
(*                                                                         *)
(* The gateway is external: a run is named by the turn whose message       *)
(* started it.  What it sends to a socket that is gone is lost.  What is   *)
(* said is one event, whatever of text, thought or tool it is.  Bounds: at *)
(* most MaxSteps events of runs before their last; a socket is a member of *)
(* Sockets, opened once; a transcript is read once by each of Readers.     *)
(***************************************************************************)
EXTENDS Adapter

CONSTANTS
    Readers,
    Sockets,
    MaxSteps

ASSUME OpenclawBounds ==
    /\ Sockets # {} /\ None \notin Sockets \cup Readers
    /\ Turns \cap Readers = {}
    /\ MaxSteps \in Nat

VARIABLES
    live,      \* Openclaw.live: the socket of the last connection
    opening,   \* its lock: who opens a socket, and how far
    device,    \* the file of the device's key
    shown,     \* whether a gateway was shown that key
    reader,    \* each socket's read_loop
    evq,       \* its queue of events
    routing,   \* whether its router task runs
    activeRun, \* Gateway's active_runs, of the one session
    endedRuns, \* and ended_runs
    call,      \* where Openclaw::turn and Openclaw::messages are
    sock,      \* the socket the call uses
    wire,      \* a turn's request on its way to the gateway
    waiting,   \* whether the request is in pending
    got,       \* the answer the call was handed
    sink,      \* Router.turns, of the one session
    timers,    \* runs whose closing row is waited for (USAGE_WAIT)
    approvals, \* Router.approvals
    grun,      \* the gateway's runs
    steps,     \* events of all runs before their last
    gask       \* the gateway's approvals: of which run, and whether resolved

openVars == <<live, opening, device, shown>>
socketVars == <<reader, evq, routing, activeRun, endedRuns>>
turnVars == <<call, sock, wire, waiting, got>>
routerVars == <<sink, timers, approvals>>
gatewayVars == <<grun, steps, gask>>
openclawVars ==
    <<adapterVars, openVars, socketVars, turnVars, routerVars, gatewayVars>>

Callers == Turns \cup Readers
Runs == Turns
Terminal == {"final", "finalUsage", "aborted", "error"}
Says == {"delta", "agent"}
Event ==
    [what : Says \cup Terminal, run : Runs, q : {None}]
        \cup [what : {"row"}, run : Runs \cup {None}, q : {None}]
        \cup [what : {"ask", "resolved"}, run : Runs \cup {None}, q : Asks]
Ev(what, r) == [what |-> what, run |-> r, q |-> None]
AskEv(what, q, r) == [what |-> what, run |-> r, q |-> q]

\* The row that closes a run, which may not say whose it is.
RowsOf(r) == {Ev("row", r), Ev("row", None)}

\* How a message is sent: for a turn of its own, or into the active run.
Sends == {"send", "steer"}

\* The Sink of a turn: its run once known, whether its closing row and its
\* final event are in.
Sink == [turn : Turns, run : Runs \cup {None}, answered : BOOLEAN,
         finished : BOOLEAN]
NewSink(t) == [turn |-> t, run |-> None, answered |-> FALSE, finished |-> FALSE]

\* What a waiting request may be handed: nothing yet, an error, or an answer:
\* the run a message went to, or the run a transcript has in flight.
Answer == [is : {"none", "error", "ok"}, run : Runs \cup {None}]
NoAnswer == [is |-> "none", run |-> None]
Failure == [is |-> "error", run |-> None]
Ok(r) == [is |-> "ok", run |-> r]

\* Who holds the lock of the socket, and where in Gateway::connect.
Opening == [by : Callers, at : {"key", "dial", "challenge", "hello"}]

ASSUME NoneIsAbsent == None \notin Opening \cup Sink

\* The next socket is a new one, whichever.
Unused == {k \in Sockets : reader[k] = "none"}

\* A socket may be open from before, by a list of agents, and was shown the
\* key; else a key may be kept from before, or spoilt as it was saved.
OpenclawInit ==
    /\ AdapterInit
    /\ live \in {None} \cup {CHOOSE k \in Sockets : TRUE}
    /\ opening = None
    /\ device \in IF live = None THEN {"none", "kept", "torn"} ELSE {"kept"}
    /\ shown = (live # None)
    /\ reader = [k \in Sockets |-> IF k = live THEN "reading" ELSE "none"]
    /\ evq = [k \in Sockets |-> <<>>]
    /\ routing = [k \in Sockets |-> k = live]
    /\ activeRun = [k \in Sockets |-> None]
    /\ endedRuns = [k \in Sockets |-> {}]
    /\ call = [c \in Callers |-> "none"]
    /\ sock = [c \in Callers |-> None]
    /\ wire = [t \in Turns |-> "none"]
    /\ waiting = [t \in Turns |-> FALSE]
    /\ got = [c \in Callers |-> NoAnswer]
    /\ sink = None
    /\ timers = {}
    /\ approvals = {}
    /\ grun = [r \in Runs |-> "none"]
    /\ steps = 0
    /\ gask = [q \in Asks |-> [run |-> None, open |-> FALSE]]

-----------------------------------------------------------------------------
(* The reader of a socket *)

\* The chat event of a run moves what the socket takes for the active run.
Track(k, e) ==
    CASE e.what = "delta" ->
           /\ activeRun' = [activeRun EXCEPT ![k] = e.run]
           /\ UNCHANGED endedRuns
      [] e.what \in Terminal ->
           /\ activeRun' = [activeRun EXCEPT ![k] = IF @ = e.run THEN None ELSE @]
           /\ endedRuns' = [endedRuns EXCEPT ![k] = @ \cup {e.run}]
      [] OTHER -> UNCHANGED <<activeRun, endedRuns>>

\* An event of the gateway reaches the socket that is being read, if any.
Read(e) ==
    LET reading == {k \in Sockets : reader[k] = "reading"}
    IN  IF reading = {} THEN UNCHANGED <<evq, activeRun, endedRuns>>
        ELSE LET k == CHOOSE k \in reading : TRUE
             IN  /\ evq' = [evq EXCEPT ![k] = Append(@, e)]
                 /\ Track(k, e)

\* The socket closed: every waiting request is failed, and then the socket
\* is marked closed, which ends the queue of its events.
FailPending(k) ==
    /\ reader[k] = "reading"
    /\ reader' = [reader EXCEPT ![k] = "failed"]
    /\ got' = [c \in Callers |-> IF c \in Turns /\ waiting[c] /\ sock[c] = k
                                THEN Failure ELSE got[c]]
    /\ waiting' = [t \in Turns |-> waiting[t] /\ sock[t] # k]
    /\ UNCHANGED <<adapterVars, openVars, evq, routing, activeRun, endedRuns>>
    /\ UNCHANGED <<call, sock, wire, routerVars, gatewayVars>>

MarkClosed(k) ==
    /\ reader[k] = "failed"
    /\ reader' = [reader EXCEPT ![k] = "closed"]
    /\ UNCHANGED <<adapterVars, openVars, evq, routing, activeRun, endedRuns>>
    /\ UNCHANGED <<turnVars, routerVars, gatewayVars>>

-----------------------------------------------------------------------------
(* Openclaw::gateway and Gateway::connect *)

Goto(c, pc) == call' = [call EXCEPT ![c] = pc]
Refuse(t) == Refused(t) /\ Goto(t, "done") /\ UNCHANGED <<chan, control>>

\* A call that is not answered is over; a turn's is refused.
Fail(c) ==
    \/ c \in Turns /\ Refuse(c)
    \/ c \in Readers /\ Goto(c, "done") /\ UNCHANGED adapterVars
IsOpen(k) == reader[k] \in {"reading", "failed"}

\* A prompt asks the runtime for a turn; a transcript is read at any time.
Begins(c) == call[c] = "none" /\ (c \in Turns => prompt[c] = "starting")

\* Where a call goes on with its socket.
Connected(c) == Goto(c, IF c \in Turns THEN "subscribe" ELSE "read")

\* The open socket.
UseSocket(c) ==
    /\ Begins(c) /\ opening = None
    /\ live \in {k \in Sockets : IsOpen(k)}
    /\ sock' = [sock EXCEPT ![c] = live]
    /\ Connected(c)
    /\ UNCHANGED <<adapterVars, openVars, socketVars, wire, waiting, got>>
    /\ UNCHANGED <<routerVars, gatewayVars>>

\* None is open: one is opened, and the lock held until it is.
TakeLock(c) ==
    /\ Begins(c) /\ opening = None
    /\ live \notin {k \in Sockets : IsOpen(k)}
    /\ opening' = [by |-> c, at |-> "key"]
    /\ UNCHANGED <<adapterVars, live, device, shown, socketVars, turnVars>>
    /\ UNCHANGED <<routerVars, gatewayVars>>

Opens(c, at) == opening = [by |-> c, at |-> at]
Reach(at) == opening' = [opening EXCEPT !.at = at] /\ UNCHANGED <<adapterVars, call>>

\* An error anywhere on the way gives the lock back.
NotConnected(c) == opening' = None /\ Fail(c)

OpenRest == <<live, socketVars, sock, wire, waiting, got, routerVars, gatewayVars>>

\* What reading the file may give: the key, none yet, or an error.
Load ==
    {"error"} \cup (CASE device = "kept" -> {"key"}
                      [] device = "none" -> {"none"}
                      [] device = "torn" -> {})

\* Writing it over may fail before it is emptied, or after.
SaveFails == device' \in {device, "torn"}

\* The key is read, or made and saved when there is none.
DeviceProof(c) ==
    /\ Opens(c, "key")
    /\ \E read \in Load :
        \/ read = "key" /\ Reach("dial") /\ UNCHANGED device
        \/ read = "none" /\ Reach("dial") /\ device' = "kept"
        \/ read = "none" /\ NotConnected(c) /\ SaveFails
        \/ read = "error" /\ NotConnected(c) /\ UNCHANGED device
    /\ UNCHANGED <<OpenRest, shown>>

\* The WebSocket is open; or the address or a header is no good, the gateway
\* is not there or takes too long.
Dial(c) ==
    /\ Opens(c, "dial")
    /\ Reach("challenge") \/ NotConnected(c)
    /\ UNCHANGED <<OpenRest, device, shown>>

\* The key's name and its signature of the challenge go to the gateway.
ShowsKey == shown' = TRUE

\* The challenge came, and is answered; or something else did.
Prove(c) ==
    /\ Opens(c, "challenge")
    /\ \/ Reach("hello") /\ ShowsKey
       \/ NotConnected(c) /\ UNCHANGED shown
    /\ UNCHANGED <<OpenRest, device>>

\* The gateway admits the device, and the socket's tasks are started.
Hello(c) ==
    /\ Opens(c, "hello")
    /\ Unused # {}
    /\ LET k == CHOOSE k \in Unused : TRUE
       IN  /\ live' = k
           /\ reader' = [reader EXCEPT ![k] = "reading"]
           /\ routing' = [routing EXCEPT ![k] = TRUE]
           /\ sock' = [sock EXCEPT ![c] = k]
    /\ opening' = None
    /\ Connected(c)
    /\ UNCHANGED <<adapterVars, device, shown, evq, activeRun, endedRuns>>
    /\ UNCHANGED <<wire, waiting, got, routerVars, gatewayVars>>

\* It speaks another protocol, wants someone to approve the device, refuses
\* the connection, closes it, or does not answer in time.
NoHello(c) ==
    /\ Opens(c, "hello")
    /\ NotConnected(c)
    /\ UNCHANGED <<OpenRest, device, shown>>

-----------------------------------------------------------------------------
(* Openclaw::turn and Openclaw::messages *)

TurnRest == <<openVars, socketVars, sock>>

\* The gateway can have taken the subscription to the session's rows.
Subscribed(k) == reader[k] = "reading"

\* The session's rows are subscribed to, and the turn is listed; or not, and
\* the turn is refused.
Subscribe(t) ==
    /\ call[t] = "subscribe"
    /\ \/ /\ Subscribed(sock[t])
          /\ sink' = NewSink(t)
          /\ Goto(t, "send")
          /\ UNCHANGED adapterVars
       \/ Refuse(t) /\ UNCHANGED sink
    /\ UNCHANGED <<TurnRest, wire, waiting, got, timers, approvals, gatewayVars>>

\* A message goes into the run the socket takes for the session's active one.
QueueMode(k) == IF activeRun[k] = None THEN "send" ELSE "steer"

\* A request looks whether the socket is closed before it is listed.
LookClosed(t) ==
    /\ call[t] = "send"
    /\ IF IsOpen(sock[t])
       THEN Goto(t, "list") /\ wire' = [wire EXCEPT ![t] = QueueMode(sock[t])]
       ELSE Goto(t, "unsent") /\ UNCHANGED wire
    /\ UNCHANGED <<adapterVars, TurnRest, waiting, got, routerVars, gatewayVars>>

\* What is written to a socket that is no longer read reaches nobody.
Written(k, request) == IF reader[k] = "reading" THEN request ELSE "none"

ListRequest(t) ==
    /\ call[t] = "list"
    /\ waiting' = [waiting EXCEPT ![t] = TRUE]
    /\ wire' = [wire EXCEPT ![t] = Written(sock[t], @)]
    /\ Goto(t, "sending")
    /\ UNCHANGED <<adapterVars, TurnRest, got, routerVars, gatewayVars>>

\* No answer in time, or the request could not be handed to the writer.
GiveUpWaiting(t) ==
    /\ call[t] = "sending" /\ got[t] = NoAnswer
    /\ waiting' = [waiting EXCEPT ![t] = FALSE]
    /\ Goto(t, "unsent")
    /\ UNCHANGED <<adapterVars, TurnRest, wire, got, routerVars, gatewayVars>>

\* The message was not taken: its turn leaves the table.
NotSent(t) ==
    /\ call[t] = "unsent" \/ (call[t] = "sending" /\ got[t].is = "error")
    /\ sink' = None
    /\ Refuse(t)
    /\ UNCHANGED <<TurnRest, wire, waiting, got, timers, approvals, gatewayVars>>

\* The message was taken: its run is looked up among those that ended, and
\* is the active one if it did not; two locks.
LookEnded(t) ==
    /\ call[t] = "sending" /\ got[t].is = "ok"
    /\ Goto(t, IF got[t].run \in endedRuns[sock[t]] THEN "acked" ELSE "set_active")
    /\ UNCHANGED <<adapterVars, TurnRest, wire, waiting, got, routerVars, gatewayVars>>

SetActive(t) ==
    /\ call[t] = "set_active"
    /\ activeRun' = [activeRun EXCEPT ![sock[t]] = got[t].run]
    /\ Goto(t, "acked")
    /\ UNCHANGED <<adapterVars, openVars, reader, evq, routing, endedRuns>>
    /\ UNCHANGED <<sock, wire, waiting, got, routerVars, gatewayVars>>

\* The sink on the session, if it is still there, learns its run, and the
\* turn is handed to the adapter.
Acked(t) ==
    /\ call[t] = "acked"
    /\ sink' = IF sink = None THEN None ELSE [sink EXCEPT !.run = got[t].run]
    /\ Started(t)
    /\ Goto(t, "done")
    /\ UNCHANGED <<chan, control, TurnRest, wire, waiting, got>>
    /\ UNCHANGED <<timers, approvals, gatewayVars>>

ReadOver(h) == Goto(h, "done") /\ sock' = [sock EXCEPT ![h] = None]

\* The gateway's runs that go on.
Going == {r \in Runs : grun[r] = "running"}

\* The runs a transcript may tell of as in flight.
InFlight == IF Going = {} THEN {None} ELSE Going

\* A transcript is read, with the run in flight if it tells of it.  One that
\* says a run goes on and tells of none, or is not read, changes nothing.
ReadHistory(h) ==
    /\ call[h] = "read"
    /\ \/ /\ reader[sock[h]] = "reading"
          /\ \E r \in InFlight : got' = [got EXCEPT ![h] = Ok(r)]
          /\ Goto(h, "adopt")
          /\ UNCHANGED sock
       \/ ReadOver(h) /\ UNCHANGED got
    /\ UNCHANGED <<adapterVars, openVars, socketVars, wire, waiting, routerVars, gatewayVars>>

\* The run a transcript has in flight is adopted as the active one, whatever
\* ended since it was read; one that has none clears it.
AdoptRun(h) ==
    /\ call[h] = "adopt"
    /\ activeRun' = [activeRun EXCEPT ![sock[h]] = got[h].run]
    /\ ReadOver(h)
    /\ got' = [got EXCEPT ![h] = NoAnswer]
    /\ UNCHANGED <<adapterVars, openVars, reader, evq, routing, endedRuns>>
    /\ UNCHANGED <<wire, waiting, routerVars, gatewayVars>>

-----------------------------------------------------------------------------
(* The router task of a socket *)

\* The sink an event of run r belongs to: the one on the session, unless both
\* runs are known and differ.
IsRun(r) == sink # None /\ (sink.run = None \/ r = None \/ sink.run = r)

RoutingRest == <<prompt, told, control, current, asks, replies, openVars>>

Complete(s) == Emit(s.turn, EndOf("completed"))

\* What a run that did not finish is to the host.
StoppedAs(what) == IF what = "aborted" THEN "cancelled" ELSE "failed"

\* What the run says is shown by its turn.
RouteSays(e) ==
    /\ e.what \in Says
    /\ IF IsRun(e.run) THEN Emit(sink.turn, Text) ELSE UNCHANGED chan
    /\ UNCHANGED <<sink, timers, approvals>>

\* Mutant: a turn that was stopped stays in the table.
StoppedStays(e) ==
    /\ e.what \in {"aborted", "error"}
    /\ IF IsRun(e.run)
       THEN Emit(sink.turn, EndOf(StoppedAs(e.what))) /\ UNCHANGED sink
       ELSE UNCHANGED <<chan, sink>>
    /\ UNCHANGED <<timers, approvals>>

\* The run was aborted, or failed.
RouteStopped(e) ==
    /\ e.what \in {"aborted", "error"}
    /\ IF IsRun(e.run)
       THEN Emit(sink.turn, EndOf(StoppedAs(e.what))) /\ sink' = None
       ELSE UNCHANGED <<chan, sink>>
    /\ UNCHANGED <<timers, approvals>>

\* Mutant: the final event leaves no answer to forward.
FinalClears(e) ==
    /\ e.what \in {"final", "finalUsage"}
    /\ IF ~IsRun(e.run) THEN UNCHANGED <<chan, sink, timers>>
       ELSE LET s == [sink EXCEPT !.run = e.run, !.finished = TRUE,
                                  !.answered = @ \/ e.what = "finalUsage"]
            IN  IF s.answered
                THEN Complete(s) /\ sink' = None /\ UNCHANGED timers
                ELSE sink' = s /\ timers' = timers \cup {e.run} /\ UNCHANGED chan
    /\ approvals' = {}

\* The run's final event completes the turn when it carries the run's tokens
\* or the closing row is in; else that row does, or the wait for it.
RouteFinal(e) ==
    /\ e.what \in {"final", "finalUsage"}
    /\ IF ~IsRun(e.run) THEN UNCHANGED <<chan, sink, timers>>
       ELSE LET s == [sink EXCEPT !.run = e.run, !.finished = TRUE,
                                  !.answered = @ \/ e.what = "finalUsage"]
            IN  IF s.answered
                THEN Complete(s) /\ sink' = None /\ UNCHANGED timers
                ELSE sink' = s /\ timers' = timers \cup {e.run} /\ UNCHANGED chan
    /\ UNCHANGED approvals

\* The row that closes a run completes the turn, once its final event is in.
RouteRow(e) ==
    /\ e.what = "row"
    /\ IF ~IsRun(e.run) THEN UNCHANGED <<chan, sink>>
       ELSE IF sink.finished THEN Complete(sink) /\ sink' = None
       ELSE sink' = [sink EXCEPT !.answered = TRUE] /\ UNCHANGED chan
    /\ UNCHANGED <<timers, approvals>>

\* A request for permission, if it says of which session it is.
RouteAsk(e) ==
    /\ e.what = "ask"
    /\ IF sink = None \/ e.run = None THEN UNCHANGED <<chan, approvals>>
       ELSE /\ approvals' = approvals \cup {e.q}
            /\ Emit(sink.turn, AskOf(e.q, e.q))
    /\ UNCHANGED <<sink, timers>>

RouteResolved(e) ==
    /\ e.what = "resolved"
    /\ approvals' = approvals \ {e.q}
    /\ IF e.q \in approvals /\ sink # None
       THEN Emit(sink.turn, AskAnswered(e.q))
       ELSE UNCHANGED chan
    /\ UNCHANGED <<sink, timers>>

Route(k) ==
    /\ routing[k] /\ evq[k] # <<>>
    /\ evq' = [evq EXCEPT ![k] = Tail(@)]
    /\ LET e == Head(evq[k])
       IN  \/ RouteSays(e)
           \/ RouteStopped(e)
           \/ RouteFinal(e)
           \/ RouteRow(e)
           \/ RouteAsk(e)
           \/ RouteResolved(e)
    /\ UNCHANGED <<RoutingRest, reader, routing, activeRun, endedRuns>>
    /\ UNCHANGED <<turnVars, gatewayVars>>

\* The socket's events end: the turn in the table is over, completed if its
\* final event was in.
Disconnected(k) ==
    /\ routing[k] /\ evq[k] = <<>> /\ reader[k] = "closed"
    /\ routing' = [routing EXCEPT ![k] = FALSE]
    /\ approvals' = {}
    /\ sink' = None
    /\ IF sink = None THEN UNCHANGED chan
       ELSE IF sink.finished THEN Complete(sink)
       ELSE Emit(sink.turn, EndOf("failed"))
    /\ UNCHANGED <<RoutingRest, reader, evq, activeRun, endedRuns>>
    /\ UNCHANGED <<turnVars, timers, gatewayVars>>

\* Mutant: the closing row is waited for without end.
WaitOn(r) ==
    /\ r \in timers
    /\ timers' = timers \ {r}
    /\ UNCHANGED <<RoutingRest, socketVars, turnVars, approvals, gatewayVars, chan, sink>>

\* The wait for the closing row of run r is over.
WaitOver(r) ==
    /\ r \in timers
    /\ timers' = timers \ {r}
    /\ IF sink # None /\ sink.finished /\ sink.run = r
       THEN Complete(sink) /\ sink' = None
       ELSE UNCHANGED <<chan, sink>>
    /\ UNCHANGED <<RoutingRest, socketVars, turnVars, approvals, gatewayVars>>

-----------------------------------------------------------------------------
(* steer, and the gateway (external) *)

Tell(e) == Read(e) /\ UNCHANGED <<openVars, reader, routing>>

GatewayRest == <<prompt, told, chan, current, asks, replies>>

\* A request is decided, and its session is told.
Resolution(q) == AskEv("resolved", q, gask[q].run)

Resolve(q) ==
    /\ gask' = [gask EXCEPT ![q].open = FALSE]
    /\ Tell(Resolution(q))

\* A cancel aborts the turn's run, if it goes on.
Abort(t, r) ==
    /\ reader[sock[t]] = "reading" /\ r \in Going
    /\ grun' = [grun EXCEPT ![r] = "ended"]
    /\ Tell(Ev("aborted", r))
    /\ UNCHANGED gask

\* An answer resolves a request that is still listed; the first answer wins.
Decide(t, q) ==
    /\ reader[sock[t]] = "reading" /\ q \in approvals /\ gask[q].open
    /\ Resolve(q)
    /\ UNCHANGED grun

\* A control goes to the gateway over the turn's socket; refused, or with the
\* socket gone, it is dropped.
Steer(t) ==
    /\ call[t] = "done"
    /\ control[t] # <<>>
    /\ control' = [control EXCEPT ![t] = Tail(@)]
    /\ LET c == Head(control[t])
       IN  \/ c.what = "cancel" /\ Abort(t, got[t].run)
           \/ c.what = "answer" /\ Decide(t, c.id)
           \/ UNCHANGED <<openVars, socketVars, grun, gask>>
    /\ UNCHANGED <<GatewayRest, turnVars, routerVars, steps>>

\* The gateway takes a message, which goes into a run that is going on or
\* starts its own, or is refused.  The answer is handed over if it is still
\* waited for.
Hand(t, answer) ==
    IF waiting[t] /\ reader[sock[t]] = "reading"
    THEN /\ got' = [got EXCEPT ![t] = answer]
         /\ waiting' = [waiting EXCEPT ![t] = FALSE]
    ELSE UNCHANGED <<got, waiting>>

Takers(t) == IF Going = {} \/ wire[t] = "send" THEN Going \cup {t} ELSE Going

GatewayTakes(t) ==
    /\ wire[t] # "none" /\ call[t] # "list"
    /\ wire' = [wire EXCEPT ![t] = "none"]
    /\ \/ Hand(t, Failure) /\ UNCHANGED grun
       \/ \E r \in Takers(t) :
            Hand(t, Ok(r)) /\ grun' = [grun EXCEPT ![r] = "running"]
    /\ UNCHANGED <<adapterVars, openVars, socketVars, call, sock, routerVars, steps, gask>>

GatewayEvent(r) ==
    /\ grun[r] = "running"
    /\ steps < MaxSteps
    /\ steps' = steps + 1
    /\ \/ \E what \in Says : Tell(Ev(what, r)) /\ UNCHANGED gask
       \/ \E q \in Asks, of \in {r, None} :
            /\ gask[q].run = None
            /\ gask' = [gask EXCEPT ![q] = [run |-> r, open |-> TRUE]]
            /\ Tell(AskEv("ask", q, of))
    /\ UNCHANGED <<adapterVars, turnVars, routerVars, grun>>

ResolvedElsewhere(q) ==
    /\ gask[q].open
    /\ Resolve(q)
    /\ UNCHANGED <<adapterVars, turnVars, routerVars, grun, steps>>

\* A run ends, and its closing row follows on a path of its own.
GatewayEnds(r) ==
    /\ grun[r] = "running"
    /\ \E what \in {"final", "finalUsage", "error"} :
        /\ Tell(Ev(what, r))
        /\ grun' = [grun EXCEPT ![r] = IF what = "final" THEN "closing" ELSE "ended"]
    /\ UNCHANGED <<adapterVars, turnVars, routerVars, steps, gask>>

GatewayRow(r) ==
    /\ grun[r] = "closing"
    /\ grun' = [grun EXCEPT ![r] = "ended"]
    /\ \E row \in RowsOf(r) : Tell(row)
    /\ UNCHANGED <<adapterVars, turnVars, routerVars, steps, gask>>

-----------------------------------------------------------------------------

Connect(c) ==
    \/ UseSocket(c)
    \/ TakeLock(c)
    \/ DeviceProof(c)
    \/ Dial(c)
    \/ Prove(c)
    \/ Hello(c)
    \/ NoHello(c)

OpenclawTask(t) ==
    \/ Connect(t)
    \/ Subscribe(t)
    \/ LookClosed(t)
    \/ ListRequest(t)
    \/ GiveUpWaiting(t)
    \/ NotSent(t)
    \/ LookEnded(t)
    \/ SetActive(t)
    \/ Acked(t)

ReadTask(h) ==
    \/ Connect(h)
    \/ ReadHistory(h)
    \/ AdoptRun(h)

OpenclawSocket(k) ==
    \/ FailPending(k)
    \/ MarkClosed(k)
    \/ Route(k)
    \/ Disconnected(k)

Gateway(r) ==
    \/ GatewayTakes(r)
    \/ GatewayEvent(r)
    \/ GatewayEnds(r)
    \/ GatewayRow(r)

OpenclawNext ==
    \/ AdapterNext /\ UNCHANGED <<openVars, socketVars, turnVars, routerVars, gatewayVars>>
    \/ \E t \in Turns : OpenclawTask(t) \/ Steer(t) \/ Gateway(t) \/ WaitOver(t)
    \/ \E h \in Readers : ReadTask(h)
    \/ \E k \in Sockets : OpenclawSocket(k)
    \/ \E q \in Asks : ResolvedElsewhere(q)

OpenclawSpec == OpenclawInit /\ [][OpenclawNext]_openclawVars

\* What the link does of its own: its calls, its waits and its sockets.
LinkStep ==
    \/ \E t \in Turns :
        \/ OpenclawTask(t) \/ WaitOver(t)
        \/ /\ RelayEvent(t)
           /\ UNCHANGED <<openVars, socketVars, turnVars, routerVars, gatewayVars>>
    \/ \E h \in Readers : ReadTask(h)
    \/ \E k \in Sockets : MarkClosed(k) \/ Route(k) \/ Disconnected(k)

\* The link goes on while it can, one task or another, as each has an end; the
\* gateway ends its runs.
OpenclawFairness ==
    /\ WF_openclawVars(LinkStep)
    /\ WF_openclawVars(\E r \in Runs : GatewayEnds(r))

OpenclawFairSpec == OpenclawSpec /\ OpenclawFairness

-----------------------------------------------------------------------------
(* Properties *)

OpenclawTypeOK ==
    /\ AdapterTypeOK
    /\ live \in Sockets \cup {None}
    /\ opening \in Opening \cup {None}
    /\ device \in {"none", "kept", "torn"}
    /\ shown \in BOOLEAN
    /\ reader \in [Sockets -> {"none", "reading", "failed", "closed"}]
    /\ evq \in [Sockets -> Seq(Event)]
    /\ routing \in [Sockets -> BOOLEAN]
    /\ activeRun \in [Sockets -> Runs \cup {None}]
    /\ endedRuns \in [Sockets -> SUBSET Runs]
    /\ call \in [Callers -> {"none", "subscribe", "send", "list", "sending",
                           "unsent", "set_active", "acked", "read", "adopt", "done"}]
    /\ sock \in [Callers -> Sockets \cup {None}]
    /\ wire \in [Turns -> Sends \cup {"none"}]
    /\ waiting \in [Turns -> BOOLEAN]
    /\ got \in [Callers -> Answer]
    /\ sink \in Sink \cup {None}
    /\ timers \subseteq Runs
    /\ approvals \subseteq Asks
    /\ grun \in [Runs -> {"none", "running", "closing", "ended"}]
    /\ steps \in 0..MaxSteps
    /\ gask \in [Asks -> [run : Runs \cup {None}, open : BOOLEAN]]

\* The end of a turn is on its way to the adapter.
EndComing(t) == \E i \in DOMAIN chan[t] : chan[t][i].what \in Outcome

\* A turn the adapter runs is in the router's table or its end is on the way,
\* whichever of the router, the wait for a row, and the end of a socket took
\* it out; and nothing is left in the table of a turn that is over, to take
\* the next one's events (Router.end, finished, row, disconnected).
TurnHeard ==
    /\ \A t \in Turns : prompt[t] = "running" /\ ~EndComing(t)
                            => sink # None /\ sink.turn = t
    /\ sink # None => prompt[sink.turn] # "answered" /\ ~EndComing(sink.turn)

\* One socket is open at a time, or a session's events would be shown twice:
\* who opens one holds the lock until it is (Openclaw::gateway).
OneSocket == \A k \in Sockets : IsOpen(k) => k = live /\ opening = None

\* The key a gateway was shown is kept: "a new key every start would be a new
\* device every start" (DeviceStore).
DeviceKept == shown => device = "kept"

\* What the link keeps of the gateway is sound: the types, whose events the
\* router takes, the socket and the device.
OpenclawSound == OpenclawTypeOK /\ TurnHeard /\ OneSocket /\ DeviceKept

\* A request for permission the adapter shows the host, of a turn that goes
\* on, and that the gateway still waits on, is one an answer is forwarded for
\* (Router.ask, resolved, disconnected; steer).
AskForwarded ==
    \A t \in Turns : \A i \in DOMAIN asks[t] :
        gask[asks[t][i].q].open /\ ~EndComing(t) => asks[t][i].q \in approvals

\* A run goes on in the session, or may yet, that is not of this turn.
OtherRun(t) ==
    \E r \in Runs \ {t} : grun[r] \in {"running", "closing"} \/ wire[r] # "none"

\* A prompt is answered, whatever closes; when no other run goes on in its
\* session, whose events it could take for its own.
AloneAnswered ==
    \A t \in Turns : prompt[t] = "starting" /\ call[t] = "none" /\ ~OtherRun(t)
                         ~> prompt[t] = "answered"
=============================================================================
