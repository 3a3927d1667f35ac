--------------------------- MODULE OpenclawProofs ---------------------------
(***************************************************************************)
(* What a turn on an OpenClaw gateway promises, for any turns, readers,    *)
(* requests, sockets and limits: it is in the router's table until its end *)
(* is on the way, one socket is open at a time, the device keeps its key,  *)
(* and an answer to a request that is shown is forwarded.                  *)
(***************************************************************************)
EXTENDS Openclaw, SequenceTheorems, TLAPS

-----------------------------------------------------------------------------
(* The adapter *)

\* A sequence without one of its elements is a sequence of the same kind.
LEMMA RemoveAtType ==
    ASSUME NEW S, NEW s \in Seq(S), NEW i \in DOMAIN s
    PROVE  RemoveAt(s, i) \in Seq(S)
<1>1. SubSeq(s, 1, i - 1) \in Seq(S)
  BY SubSeqProperties
<1>2. SubSeq(s, i + 1, Len(s)) \in Seq(S)
  BY SubSeqProperties
<1> QED
  BY <1>1, <1>2 DEF RemoveAt

\* What is queued for the adapter, and what it queues, is of its kind.
LEMMA EventTypes ==
    /\ \A q \in Asks, id \in Asks \cup {None} : AskOf(q, id) \in TurnEvent
    /\ \A id \in Asks \cup {None} : AskAnswered(id) \in TurnEvent
    /\ \A outcome \in Outcome : EndOf(outcome) \in TurnEvent
    /\ Text \in TurnEvent
    /\ CancelControl \in Control
    /\ \A q \in Asks, id \in Asks \cup {None} : AnswerControl(q, id) \in Control
BY DEF AskOf, AskAnswered, EndOf, Text, TurnEvent, CancelControl, AnswerControl,
       Control, Outcome

\* A step of the host or the adapter keeps the adapter's variables of their kind.
LEMMA AdapterTypeStep ==
    ASSUME AdapterTypeOK, AdapterNext
    PROVE  AdapterTypeOK'
<1> USE EventTypes DEF AdapterTypeOK
<1> PICK t \in Turns :
        \/ Prompt(t)
        \/ Cancel(t)
        \/ \E q \in Asks, selected \in BOOLEAN : HostAnswers(t, q, selected)
        \/ RelayEvent(t)
        \/ TakeReply(t)
  BY DEF AdapterNext
<1>1. CASE Prompt(t)
  BY <1>1 DEF Prompt
<1>2. CASE Cancel(t)
  BY <1>2 DEF Cancel
<1>3. ASSUME NEW q \in Asks, NEW selected \in BOOLEAN, HostAnswers(t, q, selected)
      PROVE  AdapterTypeOK'
  BY <1>3 DEF HostAnswers, Reply
<1>4. CASE RelayEvent(t)
  <2>1. Tail(chan[t]) \in Seq(TurnEvent) /\ Head(chan[t]) \in TurnEvent
    BY <1>4 DEF RelayEvent, RelayText, RelayAsk, RelayAnswered, RelayEnd, Running
  <2>2. CASE RelayText(t)
    BY <2>1, <2>2 DEF RelayText, Take
  <2>3. CASE RelayAsk(t)
    <3>1. [q |-> Head(chan[t]).q, id |-> Head(chan[t]).id] \in PendingAsk
      BY <2>1, <2>3 DEF RelayAsk, PendingAsk, TurnEvent, Outcome
    <3> QED
      BY <2>1, <2>3, <3>1 DEF RelayAsk, Take
  <2>4. CASE RelayAnswered(t)
    <3>1. \A i \in DOMAIN asks[t] : RemoveAt(asks[t], i) \in Seq(PendingAsk)
      BY RemoveAtType
    <3>2. asks' \in [Turns -> Seq(PendingAsk)]
      BY <2>4, <3>1 DEF RelayAnswered, Matching
    <3> QED
      BY <2>1, <2>4, <3>2 DEF RelayAnswered, Take
  <2>5. CASE RelayEnd(t)
    BY <2>1, <2>5 DEF RelayEnd, Reply
  <2> QED
    BY <1>4, <2>2, <2>3, <2>4, <2>5 DEF RelayEvent
<1>5. CASE TakeReply(t)
  <2> PICK r \in replies :
        /\ r.turn = t
        /\ replies' = replies \ {r}
        /\ LET mine == {i \in DOMAIN asks[t] : asks[t][i].q = r.q}
           IN  \/ \E i \in mine :
                    /\ asks' = [asks EXCEPT ![t] = RemoveAt(@, i)]
                    /\ control' =
                         IF r.selected
                         THEN [control EXCEPT ![t] =
                                   Append(@, AnswerControl(r.q, asks[t][i].id))]
                         ELSE control
               \/ mine = {} /\ UNCHANGED <<asks, control>>
    BY <1>5 DEF TakeReply
  <2>1. r \in Reply
    OBVIOUS
  <2>2. \A i \in DOMAIN asks[t] :
            /\ RemoveAt(asks[t], i) \in Seq(PendingAsk)
            /\ AnswerControl(r.q, asks[t][i].id) \in Control
    <3> SUFFICES ASSUME NEW i \in DOMAIN asks[t]
                 PROVE  /\ RemoveAt(asks[t], i) \in Seq(PendingAsk)
                        /\ AnswerControl(r.q, asks[t][i].id) \in Control
      OBVIOUS
    <3>1. asks[t][i] \in PendingAsk
      OBVIOUS
    <3> QED
      BY <2>1, <3>1, RemoveAtType DEF PendingAsk, Reply
  <2>3. asks' \in [Turns -> Seq(PendingAsk)]
    BY <2>2
  <2>4. control' \in [Turns -> Seq(Control)]
    <3>1. ASSUME NEW i \in DOMAIN asks[t],
                 control' = IF r.selected
                            THEN [control EXCEPT ![t] =
                                      Append(@, AnswerControl(r.q, asks[t][i].id))]
                            ELSE control
          PROVE  control' \in [Turns -> Seq(Control)]
      <4>1. Append(control[t], AnswerControl(r.q, asks[t][i].id)) \in Seq(Control)
        BY <2>2
      <4> QED
        BY <3>1, <4>1
    <3> QED
      BY <3>1
  <2> QED
    BY <1>5, <2>3, <2>4 DEF TakeReply
<1> QED
  BY <1>1, <1>2, <1>3, <1>4, <1>5

\* The runtime's side of an adapter step: what it emits is of its kind.
LEMMA EmitType ==
    ASSUME AdapterTypeOK, NEW t \in Turns, NEW e \in TurnEvent, Emit(t, e)
    PROVE  chan' \in [Turns -> Seq(TurnEvent)]
BY DEF AdapterTypeOK, Emit

-----------------------------------------------------------------------------
(* Types *)

\* The events the gateway sends and the ones a turn emits are of their kind.
LEMMA GatewayEventTypes ==
    /\ \A what \in Says \cup Terminal, r \in Runs : Ev(what, r) \in Event
    /\ \A r \in Runs \cup {None} : Ev("row", r) \in Event
    /\ \A what \in {"ask", "resolved"}, q \in Asks, r \in Runs \cup {None} :
            AskEv(what, q, r) \in Event
    /\ \A r \in Runs \cup {None} : Ok(r) \in Answer
    /\ NoAnswer \in Answer /\ Failure \in Answer
    /\ \A t \in Turns : NewSink(t) \in Sink
BY DEF Ev, AskEv, Event, Terminal, Says, Ok, NoAnswer, Failure, Answer, NewSink, Sink

\* A kind of event tells what else it carries.
LEMMA EventKinds ==
    ASSUME NEW e \in Event
    PROVE  /\ e.run \in Runs \cup {None}
           /\ e.what \in Says \cup Terminal => e.run \in Runs
           /\ e.what \in {"ask", "resolved"} => e.q \in Asks
BY DEF Event, Says, Terminal

\* Nobody is neither a turn, nor a run, a reader, a socket or a request.
LEMMA Nobody == None \notin Callers \cup Runs \cup Sockets \cup Asks
BY NoneIsNobody, OpenclawBounds DEF Callers, Runs

\* What the gateway says to the open socket is queued, and its runs noted.
LEMMA ReadTypes ==
    ASSUME OpenclawTypeOK, NEW e \in Event, Read(e)
    PROVE  /\ evq' \in [Sockets -> Seq(Event)]
           /\ activeRun' \in [Sockets -> Runs \cup {None}]
           /\ endedRuns' \in [Sockets -> SUBSET Runs]
<1> USE DEF OpenclawTypeOK
<1> DEFINE reading == {k \in Sockets : reader[k] = "reading"}
<1>1. CASE reading = {}
  BY <1>1 DEF Read
<1>2. CASE reading # {}
  <2> DEFINE k == CHOOSE k \in reading : TRUE
  <2>1. k \in Sockets
    BY <1>2
  <2>2. evq' = [evq EXCEPT ![k] = Append(@, e)] /\ Track(k, e)
    BY <1>2 DEF Read
  <2> HIDE DEF k
  <2>3. evq' \in [Sockets -> Seq(Event)]
    BY <2>1, <2>2
  <2>4. e.run \in Runs \cup {None} /\ (e.what \in Terminal => e.run \in Runs)
    BY EventKinds
  <2>5. /\ activeRun' \in [Sockets -> Runs \cup {None}]
        /\ endedRuns' \in [Sockets -> SUBSET Runs]
    <3>1. CASE e.what = "delta"
      <4>1. activeRun' = [activeRun EXCEPT ![k] = e.run] /\ UNCHANGED endedRuns
        BY <2>2, <3>1 DEF Track, Terminal
      <4> QED
        BY <2>1, <2>4, <4>1
    <3>2. CASE e.what \in Terminal
      <4>1. /\ activeRun' = [activeRun EXCEPT ![k] = IF @ = e.run THEN None ELSE @]
            /\ endedRuns' = [endedRuns EXCEPT ![k] = @ \cup {e.run}]
        BY <2>2, <3>2 DEF Track, Terminal
      <4>2. activeRun' \in [Sockets -> Runs \cup {None}]
        BY <2>1, <4>1
      <4>3. endedRuns[k] \cup {e.run} \in SUBSET Runs
        BY <2>1, <2>4, <3>2
      <4> QED
        BY <4>1, <4>2, <4>3
    <3>3. CASE e.what # "delta" /\ e.what \notin Terminal
      BY <2>2, <3>3 DEF Track
    <3> QED
      BY <3>1, <3>2, <3>3
  <2> QED
    BY <2>3, <2>5
<1> QED
  BY <1>1, <1>2

\* A call that fails leaves every variable of its kind.
LEMMA FailTypes ==
    ASSUME OpenclawTypeOK, NEW c \in Callers, Fail(c)
    PROVE  AdapterTypeOK' /\ call' = [call EXCEPT ![c] = "done"]
BY DEF OpenclawTypeOK, Fail, Refuse, Refused, Goto, AdapterTypeOK, adapterVars, Outcome

\* So does the opening of a socket.
LEMMA ConnectTypes ==
    ASSUME OpenclawTypeOK, NEW c \in Callers, Connect(c)
    PROVE  OpenclawTypeOK'
<1> USE DEF OpenclawTypeOK
<1>1. UNCHANGED adapterVars => AdapterTypeOK'
  BY DEF AdapterTypeOK, adapterVars
<1>2. CASE UseSocket(c)
  <2>1. live \in Sockets
    BY <1>2 DEF UseSocket
  <2> QED
    BY <1>1, <1>2, <2>1
       DEF UseSocket, Connected, Goto, openVars, socketVars, routerVars, gatewayVars
<1>3. CASE TakeLock(c)
  BY <1>1, <1>3 DEF TakeLock, Opening, socketVars, turnVars, routerVars, gatewayVars
<1>4. \A at \in {"dial", "challenge", "hello"} :
          opening \in Opening /\ Reach(at) => opening' \in Opening /\ AdapterTypeOK' /\ UNCHANGED call
  BY <1>1 DEF Opening, Reach
<1>5. ASSUME NEW at \in {"key", "dial", "challenge", "hello"}, Opens(c, at) PROVE opening \in Opening
  BY <1>5 DEF Opens, Opening
<1>6. NotConnected(c) => opening' = None /\ AdapterTypeOK'
                         /\ call' \in [Callers -> {"none", "subscribe", "send", "list", "sending",
                              "unsent", "set_active", "acked", "read", "adopt", "done"}]
  BY FailTypes DEF NotConnected
<1>7. CASE DeviceProof(c)
  BY <1>4, <1>5, <1>6, <1>7 DEF DeviceProof, SaveFails, OpenRest, socketVars, routerVars, gatewayVars
<1>8. CASE Dial(c)
  BY <1>4, <1>5, <1>6, <1>8 DEF Dial, OpenRest, socketVars, routerVars, gatewayVars
<1>9. CASE Prove(c)
  BY <1>4, <1>5, <1>6, <1>9
     DEF Prove, ShowsKey, OpenRest, socketVars, routerVars, gatewayVars
<1>10. CASE Hello(c)
  <2>1. (CHOOSE k \in Unused : TRUE) \in Sockets
    BY <1>10 DEF Hello, Unused
  <2> QED
    BY <1>1, <1>10, <2>1
       DEF Hello, Connected, Goto, socketVars, routerVars, gatewayVars
<1>11. CASE NoHello(c)
  BY <1>6, <1>11 DEF NoHello, OpenRest, socketVars, routerVars, gatewayVars
<1> QED
  BY <1>2, <1>3, <1>7, <1>8, <1>9, <1>10, <1>11 DEF Connect

\* Where a call may be.
CallAt == {"none", "subscribe", "send", "list", "sending", "unsent",
           "set_active", "acked", "read", "adopt", "done"}

\* So does a step of the call of a turn.
LEMMA TaskTypes ==
    ASSUME OpenclawTypeOK, NEW t \in Turns, OpenclawTask(t)
    PROVE  OpenclawTypeOK'
<1> USE GatewayEventTypes DEF OpenclawTypeOK, socketVars, openVars, routerVars, gatewayVars
<1>1. UNCHANGED adapterVars => AdapterTypeOK'
  BY DEF AdapterTypeOK, adapterVars
<1>2. t \in Callers
  BY DEF Callers
<1>3. ASSUME NEW at \in CallAt, Goto(t, at)
      PROVE  call' \in [Callers -> CallAt]
  BY <1>2, <1>3 DEF Goto, CallAt
<1>4. Refuse(t) => AdapterTypeOK' /\ call' \in [Callers -> CallAt]
  BY <1>2, FailTypes DEF Fail, CallAt
<1>5. CASE Connect(t)
  BY <1>2, <1>5, ConnectTypes
<1>6. CASE Subscribe(t)
  BY <1>1, <1>3, <1>4, <1>6 DEF Subscribe, TurnRest, CallAt
<1>7. CASE LookClosed(t)
  BY <1>1, <1>3, <1>7 DEF LookClosed, QueueMode, TurnRest, CallAt, Sends
<1>8. CASE ListRequest(t)
  BY <1>1, <1>3, <1>8 DEF ListRequest, Written, TurnRest, CallAt, Sends
<1>9. CASE GiveUpWaiting(t)
  BY <1>1, <1>3, <1>9 DEF GiveUpWaiting, TurnRest, CallAt
<1>10. CASE NotSent(t)
  BY <1>4, <1>10 DEF NotSent, TurnRest, CallAt
<1>11. CASE LookEnded(t)
  BY <1>1, <1>3, <1>11 DEF LookEnded, TurnRest, CallAt
<1>12. CASE SetActive(t)
  <2>1. got[t].run \in Runs \cup {None}
    BY <1>2 DEF Answer
  <2> QED
    BY <1>1, <1>3, <1>12, <2>1 DEF SetActive, CallAt
<1>13. CASE Acked(t)
  <2>1. got[t].run \in Runs \cup {None}
    BY <1>2 DEF Answer
  <2>2. sink' \in Sink \cup {None}
    BY <1>13, <2>1 DEF Acked, Sink
  <2>3. AdapterTypeOK'
    BY <1>13 DEF Acked, Started, AdapterTypeOK
  <2> QED
    BY <1>3, <1>13, <2>2, <2>3 DEF Acked, TurnRest, CallAt
<1> QED
  BY <1>5, <1>6, <1>7, <1>8, <1>9, <1>10, <1>11, <1>12, <1>13 DEF OpenclawTask

\* So does the reading of a transcript.
LEMMA ReadTaskTypes ==
    ASSUME OpenclawTypeOK, NEW h \in Readers, ReadTask(h)
    PROVE  OpenclawTypeOK'
<1> USE GatewayEventTypes DEF OpenclawTypeOK, socketVars, openVars, routerVars, gatewayVars
<1>1. UNCHANGED adapterVars => AdapterTypeOK'
  BY DEF AdapterTypeOK, adapterVars
<1>2. h \in Callers
  BY DEF Callers
<1>3. CASE Connect(h)
  BY <1>2, <1>3, ConnectTypes
<1>4. CASE ReadHistory(h)
  <2>1. InFlight \subseteq Runs \cup {None}
    BY DEF InFlight, Going
  <2>2. got' \in [Callers -> Answer]
    <3>1. \A r \in InFlight : [got EXCEPT ![h] = Ok(r)] \in [Callers -> Answer]
      BY <1>2, <2>1
    <3> HIDE DEF OpenclawTypeOK
    <3> QED
      BY <1>4, <3>1 DEF ReadHistory, OpenclawTypeOK
  <2>3. sock' = sock \/ sock' = [sock EXCEPT ![h] = None]
    BY <1>4 DEF ReadHistory, ReadOver
  <2>4. call' = [call EXCEPT ![h] = "adopt"] \/ call' = [call EXCEPT ![h] = "done"]
    BY <1>4 DEF ReadHistory, ReadOver, Goto
  <2>5. sock' \in [Callers -> Sockets \cup {None}] /\ call' \in [Callers -> CallAt]
    BY <1>2, <2>3, <2>4 DEF CallAt
  <2> QED
    BY <1>1, <1>4, <2>2, <2>5 DEF ReadHistory, CallAt
<1>5. CASE AdoptRun(h)
  <2>1. got[h].run \in Runs \cup {None}
    BY <1>2 DEF Answer
  <2> QED
    BY <1>1, <1>2, <1>5, <2>1 DEF AdoptRun, ReadOver, Goto
<1> QED
  BY <1>3, <1>4, <1>5 DEF ReadTask

\* A turn in the table is of its kind, whatever of its run is noted.
LEMMA SinkTypes ==
    ASSUME NEW s \in Sink, NEW r \in Runs \cup {None}, NEW a \in BOOLEAN
    PROVE  /\ s.turn \in Turns /\ s.run \in Runs \cup {None}
           /\ [s EXCEPT !.run = r, !.finished = TRUE, !.answered = a] \in Sink
           /\ [s EXCEPT !.answered = TRUE] \in Sink
BY DEF Sink

\* The types of what the router changes.
RouterTypes ==
    /\ chan \in [Turns -> Seq(TurnEvent)]
    /\ sink \in Sink \cup {None}
    /\ timers \subseteq Runs
    /\ approvals \subseteq Asks

\* A turn that is told its end, and the table, are of their kind.
LEMMA EmitEnds ==
    ASSUME OpenclawTypeOK, NEW t \in Turns, NEW o \in Outcome, Emit(t, EndOf(o))
    PROVE  chan' \in [Turns -> Seq(TurnEvent)]
BY EmitType, EventTypes DEF OpenclawTypeOK

\* What the router does with an event leaves what it changes of its kind.
LEMMA RouteTypes ==
    ASSUME OpenclawTypeOK, NEW e \in Event,
           \/ RouteSays(e) \/ RouteStopped(e) \/ RouteFinal(e) \/ RouteRow(e)
           \/ RouteAsk(e) \/ RouteResolved(e)
    PROVE  RouterTypes'
<1>1. RouterTypes
  BY DEF OpenclawTypeOK, AdapterTypeOK, RouterTypes
<1>2. sink # None => sink.turn \in Turns
  BY <1>1 DEF RouterTypes, Sink
<1>3. \A r : IsRun(r) => sink # None /\ sink \in Sink /\ sink.turn \in Turns
  BY <1>1, <1>2 DEF IsRun, RouterTypes
<1>4. CASE RouteSays(e)
  BY <1>1, <1>3, <1>4, EmitType, EventTypes
     DEF RouteSays, RouterTypes, OpenclawTypeOK
<1>5. CASE RouteStopped(e)
  <2>1. StoppedAs(e.what) \in Outcome
    BY DEF StoppedAs, Outcome
  <2> QED
    BY <1>1, <1>3, <1>5, <2>1, EmitEnds DEF RouteStopped, RouterTypes
<1>6. CASE RouteFinal(e)
  <2>1. e.run \in Runs
    BY <1>6, EventKinds DEF RouteFinal, Terminal
  <2>2. CASE ~IsRun(e.run)
    BY <1>1, <1>6, <2>2 DEF RouteFinal, RouterTypes
  <2>3. CASE IsRun(e.run)
    <3> DEFINE s == [sink EXCEPT !.run = e.run, !.finished = TRUE,
                                 !.answered = @ \/ e.what = "finalUsage"]
    <3>1. s \in Sink /\ s.turn = sink.turn
      BY <1>3, <2>1, <2>3 DEF Sink
    <3>2. \/ Complete(s) /\ sink' = None /\ UNCHANGED timers
          \/ sink' = s /\ timers' = timers \cup {e.run} /\ UNCHANGED chan
      BY <1>6, <2>3 DEF RouteFinal
    <3>3. Complete(s) => chan' \in [Turns -> Seq(TurnEvent)]
      BY <1>3, <2>3, <3>1, EmitEnds DEF Complete, Outcome
    <3> QED
      BY <1>1, <1>6, <2>1, <3>1, <3>2, <3>3 DEF RouteFinal, RouterTypes
  <2> QED
    BY <2>2, <2>3
<1>7. CASE RouteRow(e)
  BY <1>1, <1>3, <1>7, SinkTypes, EmitEnds DEF RouteRow, RouterTypes, Complete, Outcome
<1>8. CASE RouteAsk(e)
  <2>1. CASE sink = None \/ e.run = None
    BY <1>1, <1>8, <2>1 DEF RouteAsk, RouterTypes
  <2>2. CASE ~(sink = None \/ e.run = None)
    <3>1. e.q \in Asks
      BY <1>8, EventKinds DEF RouteAsk
    <3>2. AskOf(e.q, e.q) \in TurnEvent
      BY <3>1, EventTypes
    <3>3. chan' \in [Turns -> Seq(TurnEvent)]
      BY <1>2, <1>8, <2>2, <3>2, EmitType DEF RouteAsk, OpenclawTypeOK
    <3> QED
      BY <1>1, <1>8, <2>2, <3>1, <3>3 DEF RouteAsk, RouterTypes
  <2> QED
    BY <2>1, <2>2
<1>9. CASE RouteResolved(e)
  BY <1>1, <1>2, <1>9, EmitType, EventTypes, EventKinds
     DEF RouteResolved, RouterTypes, OpenclawTypeOK
<1> QED
  BY <1>4, <1>5, <1>6, <1>7, <1>8, <1>9

\* So does a step of a socket.
LEMMA SocketTypes ==
    ASSUME OpenclawTypeOK, NEW k \in Sockets, OpenclawSocket(k)
    PROVE  OpenclawTypeOK'
<1> USE GatewayEventTypes DEF openVars, turnVars, routerVars, gatewayVars
<1>1. UNCHANGED adapterVars => AdapterTypeOK'
  BY DEF OpenclawTypeOK, AdapterTypeOK, adapterVars
<1>2. CASE FailPending(k)
  <2>1. got' \in [Callers -> Answer]
    BY <1>2 DEF FailPending, OpenclawTypeOK
  <2>2. waiting' \in [Turns -> BOOLEAN]
    BY <1>2 DEF FailPending, OpenclawTypeOK
  <2>3. reader' \in [Sockets -> {"none", "reading", "failed", "closed"}]
    BY <1>2 DEF FailPending, OpenclawTypeOK
  <2> QED
    BY <1>1, <1>2, <2>1, <2>2, <2>3 DEF FailPending, OpenclawTypeOK
<1>3. CASE MarkClosed(k)
  BY <1>1, <1>3 DEF MarkClosed, OpenclawTypeOK
<1>4. RouterTypes' /\ UNCHANGED RoutingRest => AdapterTypeOK'
  BY DEF RouterTypes, RoutingRest, OpenclawTypeOK, AdapterTypeOK
<1>5. CASE Route(k)
  <2>1. Head(evq[k]) \in Event /\ Tail(evq[k]) \in Seq(Event)
    BY <1>5 DEF Route, OpenclawTypeOK
  <2>2. RouterTypes'
    BY <1>5, <2>1, RouteTypes DEF Route
  <2>3. evq' \in [Sockets -> Seq(Event)]
    BY <1>5, <2>1 DEF Route, OpenclawTypeOK
  <2> QED
    BY <1>4, <1>5, <2>2, <2>3 DEF Route, RoutingRest, RouterTypes, OpenclawTypeOK
<1>6. CASE Disconnected(k)
  <2>1. RouterTypes
    BY DEF OpenclawTypeOK, AdapterTypeOK, RouterTypes
  <2>2. sink # None => sink.turn \in Turns
    BY <2>1 DEF RouterTypes, Sink
  <2>3. chan' \in [Turns -> Seq(TurnEvent)]
    BY <1>6, <2>1, <2>2, EmitEnds DEF Disconnected, Complete, Outcome, RouterTypes
  <2>4. RouterTypes'
    BY <1>6, <2>1, <2>3 DEF Disconnected, RouterTypes
  <2> QED
    BY <1>4, <1>6, <2>4 DEF Disconnected, RoutingRest, RouterTypes, OpenclawTypeOK
<1> QED
  BY <1>2, <1>3, <1>5, <1>6 DEF OpenclawSocket

\* The wait for a closing row, too.
LEMMA WaitTypes ==
    ASSUME OpenclawTypeOK, NEW r \in Turns, WaitOver(r)
    PROVE  OpenclawTypeOK'
<1>1. RouterTypes
  BY DEF OpenclawTypeOK, AdapterTypeOK, RouterTypes
<1>2. sink # None => sink.turn \in Turns
  BY <1>1 DEF RouterTypes, Sink
<1>3. RouterTypes'
  BY <1>1, <1>2, EmitEnds DEF WaitOver, Complete, Outcome, RouterTypes
<1> QED
  BY <1>3 DEF WaitOver, RoutingRest, RouterTypes, OpenclawTypeOK, AdapterTypeOK, openVars,
              socketVars, turnVars, gatewayVars

\* And what the gateway is told, does and says.
LEMMA TellTypes ==
    ASSUME OpenclawTypeOK, NEW e \in Event, Tell(e)
    PROVE  /\ UNCHANGED <<openVars, reader, routing>>
           /\ evq' \in [Sockets -> Seq(Event)]
           /\ activeRun' \in [Sockets -> Runs \cup {None}]
           /\ endedRuns' \in [Sockets -> SUBSET Runs]
BY ReadTypes DEF Tell

LEMMA ResolveTypes ==
    ASSUME OpenclawTypeOK, NEW q \in Asks, Resolve(q)
    PROVE  /\ Resolution(q) \in Event /\ Tell(Resolution(q))
           /\ gask' \in [Asks -> [run : Runs \cup {None}, open : BOOLEAN]]
BY GatewayEventTypes DEF Resolve, Resolution, OpenclawTypeOK

LEMMA SteerTypes ==
    ASSUME OpenclawTypeOK, NEW t \in Turns, Steer(t)
    PROVE  OpenclawTypeOK'
<1>1. Head(control[t]) \in Control /\ Tail(control[t]) \in Seq(Control)
  BY DEF Steer, OpenclawTypeOK, AdapterTypeOK
<1>2. AdapterTypeOK'
  BY <1>1 DEF Steer, GatewayRest, OpenclawTypeOK, AdapterTypeOK
<1>3. CASE UNCHANGED <<openVars, socketVars, grun, gask>>
  BY <1>2, <1>3 DEF Steer, OpenclawTypeOK, openVars, socketVars, turnVars, routerVars
<1>4. ASSUME NEW r, Abort(t, r) PROVE OpenclawTypeOK'
  <2>1. r \in Runs
    BY <1>4 DEF Abort, Going
  <2>2. Ev("aborted", r) \in Event
    BY <2>1, GatewayEventTypes DEF Terminal
  <2> QED
    BY <1>2, <1>4, <2>2, TellTypes
       DEF Steer, Abort, OpenclawTypeOK, openVars, turnVars, routerVars
<1>5. ASSUME NEW q, Decide(t, q) PROVE OpenclawTypeOK'
  <2>1. q \in Asks
    BY <1>5 DEF Decide, OpenclawTypeOK
  <2> QED
    BY <1>2, <1>5, <2>1, ResolveTypes, TellTypes
       DEF Steer, Decide, OpenclawTypeOK, openVars, turnVars, routerVars
<1> QED
  BY <1>3, <1>4, <1>5 DEF Steer

LEMMA GatewayTypes ==
    ASSUME OpenclawTypeOK, NEW t \in Turns, Gateway(t)
    PROVE  OpenclawTypeOK'
<1> USE GatewayEventTypes DEF openVars, socketVars, turnVars, routerVars
<1>1. UNCHANGED adapterVars => AdapterTypeOK'
  BY DEF OpenclawTypeOK, AdapterTypeOK, adapterVars
<1>2. CASE GatewayTakes(t)
  <2>1. Takers(t) \subseteq Runs
    BY DEF Takers, Going, Runs
  <2>2. \A a \in Answer : Hand(t, a) => /\ got' \in [Callers -> Answer]
                                        /\ waiting' \in [Turns -> BOOLEAN]
    BY DEF Hand, OpenclawTypeOK
  <2>3. got' \in [Callers -> Answer] /\ waiting' \in [Turns -> BOOLEAN]
    BY <1>2, <2>1, <2>2 DEF GatewayTakes
  <2>4. grun' \in [Runs -> {"none", "running", "closing", "ended"}]
    BY <1>2, <2>1 DEF GatewayTakes, OpenclawTypeOK
  <2> QED
    BY <1>1, <1>2, <2>3, <2>4 DEF GatewayTakes, OpenclawTypeOK
<1>3. CASE GatewayEvent(t)
  <2>1. steps' \in 0..MaxSteps
    BY <1>3, OpenclawBounds DEF GatewayEvent, OpenclawTypeOK
  <2>2. \/ \E what \in Says : Tell(Ev(what, t)) /\ UNCHANGED gask
        \/ \E q \in Asks, of \in {t, None} :
             /\ gask' = [gask EXCEPT ![q] = [run |-> t, open |-> TRUE]]
             /\ Tell(AskEv("ask", q, of))
    BY <1>3 DEF GatewayEvent
  <2>3. \E e \in Event : Tell(e)
    BY <2>2 DEF Runs
  <2>4. gask' \in [Asks -> [run : Runs \cup {None}, open : BOOLEAN]]
    <3>1. [run |-> t, open |-> TRUE] \in [run : Runs \cup {None}, open : BOOLEAN]
      BY DEF Runs
    <3> QED
      BY <2>2, <3>1 DEF OpenclawTypeOK
  <2> QED
    BY <1>1, <1>3, <2>1, <2>3, <2>4, TellTypes DEF GatewayEvent, OpenclawTypeOK
<1>4. CASE GatewayEnds(t)
  <2>1. \E e \in Event : Tell(e)
    BY <1>4 DEF GatewayEnds, Runs, Terminal
  <2>2. grun' \in [Runs -> {"none", "running", "closing", "ended"}]
    BY <1>4 DEF GatewayEnds, OpenclawTypeOK
  <2> QED
    BY <1>1, <1>4, <2>1, <2>2, TellTypes DEF GatewayEnds, OpenclawTypeOK
<1>5. CASE GatewayRow(t)
  <2>1. \E e \in Event : Tell(e)
    BY <1>5 DEF GatewayRow, RowsOf, Runs
  <2>2. grun' \in [Runs -> {"none", "running", "closing", "ended"}]
    BY <1>5 DEF GatewayRow, OpenclawTypeOK
  <2> QED
    BY <1>1, <1>5, <2>1, <2>2, TellTypes DEF GatewayRow, OpenclawTypeOK
<1> QED
  BY <1>2, <1>3, <1>4, <1>5 DEF Gateway

\* Any step keeps every variable of its kind.
LEMMA OpenclawTypeStep ==
    ASSUME OpenclawTypeOK, [OpenclawNext]_openclawVars
    PROVE  OpenclawTypeOK'
<1>1. CASE AdapterNext /\ UNCHANGED <<openVars, socketVars, turnVars, routerVars, gatewayVars>>
  BY <1>1, AdapterTypeStep
     DEF OpenclawTypeOK, openVars, socketVars, turnVars, routerVars, gatewayVars
<1>2. ASSUME NEW q \in Asks, ResolvedElsewhere(q) PROVE OpenclawTypeOK'
  BY <1>2, ResolveTypes, TellTypes
     DEF ResolvedElsewhere, OpenclawTypeOK, AdapterTypeOK, adapterVars, openVars,
         turnVars, routerVars
<1>3. CASE UNCHANGED openclawVars
  BY <1>3 DEF openclawVars, adapterVars, openVars, socketVars, turnVars, routerVars,
              gatewayVars, OpenclawTypeOK, AdapterTypeOK
<1> QED
  BY <1>1, <1>2, <1>3, TaskTypes, ReadTaskTypes, SocketTypes, SteerTypes, GatewayTypes,
     WaitTypes DEF OpenclawNext
-----------------------------------------------------------------------------
(* The inductive invariant *)

\* Who opens a socket has not begun its call otherwise, and a gateway is only
\* dialled with a key that is kept.
OpeningOK ==
    opening # None =>
        /\ call[opening.by] = "none"
        /\ opening.by \in Turns => prompt[opening.by] = "starting"
        /\ opening.at # "key" => device = "kept"

\* A session runs one turn.
OneTurn ==
    \A t, u \in Turns :
        prompt[t] \in {"starting", "running"} /\ prompt[u] \in {"starting", "running"}
            => t = u

\* A turn that is not in the table yet.
Unlisted == {"none", "subscribe"}

\* A turn's call belongs to a prompt that is starting, and nothing is emitted
\* before it is in the table.
CallStarts ==
    \A t \in Turns :
        /\ call[t] = "none" => prompt[t] \in {"new", "starting"}
        /\ call[t] \notin {"none", "done"} => prompt[t] = "starting"
        /\ call[t] = "done" => prompt[t] \in {"running", "answered"}
        /\ call[t] \in Unlisted => chan[t] = <<>>

\* The turn in the table goes on.
SinkLive ==
    sink # None =>
        /\ prompt[sink.turn] \in {"starting", "running"}
        /\ call[sink.turn] \notin Unlisted
        /\ ~EndComing(sink.turn)

\* A turn that goes on is in the table, or its end is on the way.
Listed ==
    \A t \in Turns :
        call[t] \notin Unlisted /\ prompt[t] \in {"starting", "running"} /\ ~EndComing(t)
            => sink # None /\ sink.turn = t

OpenclawInv ==
    /\ OpenclawTypeOK
    /\ OpeningOK
    /\ OneSocket
    /\ DeviceKept
    /\ OneTurn
    /\ CallStarts
    /\ SinkLive
    /\ Listed

LEMMA InvInit == OpenclawInit => OpenclawInv
<1> SUFFICES ASSUME OpenclawInit PROVE OpenclawInv
  OBVIOUS
<1> USE Nobody DEF OpenclawInit, AdapterInit
<1>1. live \in Sockets \cup {None}
  BY OpenclawBounds
<1>2. OpenclawTypeOK
  BY <1>1, GatewayEventTypes, OpenclawBounds DEF OpenclawTypeOK, AdapterTypeOK
<1>3. OpeningOK /\ OneTurn /\ CallStarts /\ SinkLive /\ Listed
  BY DEF OpeningOK, OneTurn, CallStarts, SinkLive, Listed, Callers, Unlisted
<1>4. OneSocket
  BY DEF OneSocket, IsOpen
<1>5. DeviceKept
  BY DEF DeviceKept
<1> QED
  BY <1>2, <1>3, <1>4, <1>5 DEF OpenclawInv

\* A step that moves no call, no socket, no table and no event of a turn keeps
\* the invariant.
LEMMA Quiet ==
    ASSUME OpenclawInv, OpenclawTypeOK',
           UNCHANGED <<prompt, chan, call, sink, openVars, reader>>
    PROVE  OpenclawInv'
<1> USE DEF OpenclawInv, openVars
<1>1. OpeningOK' /\ OneSocket' /\ DeviceKept'
  BY DEF OpeningOK, OneSocket, DeviceKept, IsOpen
<1>2. OneTurn' /\ CallStarts'
  BY DEF OneTurn, CallStarts
<1>3. SinkLive' /\ Listed'
  BY DEF SinkLive, Listed, EndComing
<1> QED
  BY <1>1, <1>2, <1>3

\* An event that is emitted.
LEMMA EmitAppends ==
    ASSUME OpenclawTypeOK, NEW t \in Turns, NEW e \in TurnEvent, Emit(t, e),
           prompt[t] # "answered"
    PROVE  /\ \A u \in Turns \ {t} : chan'[u] = chan[u]
           /\ e.what \in Outcome => EndComing(t)'
           /\ e.what \notin Outcome => (EndComing(t)' <=> EndComing(t))
           /\ \A i \in DOMAIN chan'[t] :
                 \/ chan'[t][i] = e
                 \/ i \in DOMAIN chan[t] /\ chan'[t][i] = chan[t][i]
<1>1. chan \in [Turns -> Seq(TurnEvent)]
  BY DEF OpenclawTypeOK, AdapterTypeOK
<1>2. chan' = [chan EXCEPT ![t] = Append(@, e)]
  BY DEF Emit
<1>3. chan'[t] = Append(chan[t], e) /\ chan[t] \in Seq(TurnEvent)
  BY <1>1, <1>2
<1>4. /\ DOMAIN chan'[t] = 1..(Len(chan[t]) + 1) /\ DOMAIN chan[t] = 1..Len(chan[t])
      /\ \A i \in 1..Len(chan[t]) : chan'[t][i] = chan[t][i]
      /\ chan'[t][Len(chan[t]) + 1] = e
      /\ Len(chan[t]) \in Nat
  BY <1>3
<1>5. e.what \in Outcome => EndComing(t)'
  BY <1>4 DEF EndComing
<1>6. e.what \notin Outcome => (EndComing(t)' <=> EndComing(t))
  <2>1. ASSUME e.what \notin Outcome, EndComing(t)' PROVE EndComing(t)
    <3>1. PICK i \in DOMAIN chan'[t] : chan'[t][i].what \in Outcome
      BY <2>1 DEF EndComing
    <3>2. i \in DOMAIN chan[t] /\ chan'[t][i] = chan[t][i]
      BY <1>4, <2>1, <3>1
    <3> QED
      BY <3>1, <3>2 DEF EndComing
  <2>2. ASSUME EndComing(t) PROVE EndComing(t)'
    BY <1>4, <2>2 DEF EndComing
  <2> QED
    BY <2>1, <2>2
<1> QED
  BY <1>1, <1>2, <1>4, <1>5, <1>6
-----------------------------------------------------------------------------
(* The router *)

\* What the router does of a turn in the table: notes of it, shows an event
\* of its run, or tells its end and takes it out.
Notes == sink' # None /\ sink'.turn = sink.turn /\ UNCHANGED chan
Shows == /\ UNCHANGED sink
         /\ \E e \in TurnEvent : e.what \notin Outcome /\ Emit(sink.turn, e)
EndsTurn == sink' = None /\ \E o \in Outcome : Emit(sink.turn, EndOf(o))

RouterStep ==
    /\ UNCHANGED <<prompt, asks, call, openVars, reader>>
    /\ \/ UNCHANGED <<chan, sink>>
       \/ sink # None /\ (Notes \/ Shows \/ EndsTurn)

\* Noting something of a turn leaves the turn in the table.
LEMMA NotesTurn ==
    ASSUME NEW s \in Sink, NEW r \in Runs, NEW a \in BOOLEAN
    PROVE  /\ [s EXCEPT !.run = r, !.finished = TRUE, !.answered = a] # None
           /\ [s EXCEPT !.run = r, !.finished = TRUE, !.answered = a].turn = s.turn
           /\ [s EXCEPT !.answered = TRUE] # None
           /\ [s EXCEPT !.answered = TRUE].turn = s.turn
<1>1. /\ [s EXCEPT !.run = r, !.finished = TRUE, !.answered = a] \in Sink
      /\ [s EXCEPT !.answered = TRUE] \in Sink
  BY SinkTypes
<1> QED
  BY <1>1, NoneIsAbsent DEF Sink

\* Every way the router takes an event is such a step.
LEMMA RouteStep ==
    ASSUME OpenclawTypeOK, NEW k \in Sockets, Route(k)
    PROVE  RouterStep
<1> DEFINE e == Head(evq[k])
<1>1. e \in Event
  BY DEF Route, OpenclawTypeOK
<1>2. UNCHANGED <<prompt, asks, call, openVars, reader>>
  BY DEF Route, RoutingRest, turnVars
<1>3. sink # None => sink \in Sink
  BY DEF OpenclawTypeOK
<1>4. /\ Text \in TurnEvent /\ Text.what \notin Outcome
      /\ \A q \in Asks : /\ AskOf(q, q) \in TurnEvent /\ AskOf(q, q).what \notin Outcome
                        /\ AskAnswered(q) \in TurnEvent
                        /\ AskAnswered(q).what \notin Outcome
  BY EventTypes DEF Text, AskOf, AskAnswered, Outcome
<1> HIDE DEF e
<1> USE DEF IsRun, Notes, Shows, EndsTurn, RouterStep
<1>5. CASE RouteSays(e)
  BY <1>2, <1>4, <1>5 DEF RouteSays
<1>6. CASE RouteStopped(e)
  BY <1>2, <1>6 DEF RouteStopped, StoppedAs, Outcome
<1>7. CASE RouteFinal(e)
  <2>1. e.run \in Runs
    BY <1>1, <1>7, EventKinds DEF RouteFinal, Terminal
  <2>2. CASE ~IsRun(e.run)
    BY <1>2, <1>7, <2>2 DEF RouteFinal
  <2>3. CASE IsRun(e.run)
    <3> DEFINE s == [sink EXCEPT !.run = e.run, !.finished = TRUE,
                                 !.answered = @ \/ e.what = "finalUsage"]
    <3>1. s # None /\ s.turn = sink.turn
      BY <1>3, <2>1, <2>3, NotesTurn DEF Sink
    <3>2. \/ Complete(s) /\ sink' = None
          \/ sink' = s /\ UNCHANGED chan
      BY <1>7, <2>3 DEF RouteFinal
    <3> HIDE DEF s
    <3> QED
      BY <1>2, <2>3, <3>1, <3>2 DEF Complete, Outcome
  <2> QED
    BY <2>2, <2>3
<1>8. CASE RouteRow(e)
  <2>1. IsRun(e.run) => /\ [sink EXCEPT !.answered = TRUE] # None
                        /\ [sink EXCEPT !.answered = TRUE].turn = sink.turn
    BY <1>3, SinkTypes, NoneIsAbsent DEF Sink
  <2> QED
    BY <1>2, <1>8, <2>1 DEF RouteRow, Complete, Outcome
<1>9. CASE RouteAsk(e)
  BY <1>1, <1>2, <1>4, <1>9, EventKinds DEF RouteAsk
<1>10. CASE RouteResolved(e)
  BY <1>1, <1>2, <1>4, <1>10, EventKinds DEF RouteResolved
<1> QED
  BY <1>5, <1>6, <1>7, <1>8, <1>9, <1>10 DEF Route, e

LEMMA DisconnectedStep ==
    ASSUME NEW k \in Sockets, Disconnected(k)
    PROVE  RouterStep
BY DEF Disconnected, RoutingRest, turnVars, Complete, Outcome, EndsTurn, RouterStep

LEMMA WaitOverStep ==
    ASSUME NEW r \in Turns, WaitOver(r)
    PROVE  RouterStep
BY DEF WaitOver, RoutingRest, turnVars, socketVars, Complete, Outcome, EndsTurn, RouterStep

\* The router keeps the invariant: a turn it takes out is told its end.
LEMMA RouterKeeps ==
    ASSUME OpenclawInv, OpenclawTypeOK', RouterStep
    PROVE  OpenclawInv'
<1>1. CASE UNCHANGED <<chan, sink>>
  BY <1>1, Quiet DEF RouterStep
<1>2. CASE sink # None /\ Notes
  <2>1. OpeningOK' /\ OneSocket' /\ DeviceKept' /\ OneTurn' /\ CallStarts'
    BY <1>2 DEF OpenclawInv, RouterStep, Notes, OpeningOK, OneSocket, DeviceKept, IsOpen,
                OneTurn, CallStarts, openVars
  <2>2. SinkLive' /\ Listed'
    BY <1>2 DEF OpenclawInv, RouterStep, Notes, SinkLive, Listed, EndComing
  <2> QED
    BY <2>1, <2>2 DEF OpenclawInv
<1>3. ASSUME sink # None, NEW t \in Turns, t = sink.turn,
             NEW e \in TurnEvent, Emit(t, e),
             \/ sink' = sink /\ e.what \notin Outcome
             \/ sink' = None /\ e.what \in Outcome
      PROVE  OpenclawInv'
  <2>1. prompt[t] # "answered" /\ OpenclawTypeOK
    BY <1>3 DEF OpenclawInv, SinkLive
  <2>2. /\ \A u \in Turns \ {t} : chan'[u] = chan[u]
        /\ e.what \in Outcome => EndComing(t)'
        /\ e.what \notin Outcome => (EndComing(t)' <=> EndComing(t))
    BY <1>3, <2>1, EmitAppends
  <2>3. OpeningOK' /\ OneSocket' /\ DeviceKept' /\ OneTurn'
    BY DEF OpenclawInv, RouterStep, OpeningOK, OneSocket, DeviceKept, IsOpen, OneTurn,
           openVars
  <2>4. CallStarts'
    BY <1>3, <2>1, <2>2 DEF OpenclawInv, RouterStep, CallStarts, SinkLive
  <2>5. SinkLive'
    <3>1. CASE sink' = None
      BY <3>1 DEF SinkLive
    <3>2. CASE sink' = sink /\ e.what \notin Outcome
      <4>1. prompt[t] \in {"starting", "running"} /\ call[t] \notin Unlisted /\ ~EndComing(t)
        BY <1>3 DEF OpenclawInv, SinkLive
      <4>2. ~EndComing(t)'
        BY <2>2, <3>2, <4>1
      <4>3. sink'.turn = t
        BY <1>3, <3>2
      <4> QED
        BY <4>1, <4>2, <4>3 DEF SinkLive, RouterStep, EndComing
    <3> QED
      BY <1>3, <3>1, <3>2
  <2>6. \A u \in Turns \ {t} : EndComing(u)' <=> EndComing(u)
    BY <2>2 DEF EndComing
  <2>7. Listed'
    <3>1. SUFFICES ASSUME NEW u \in Turns, call[u] \notin Unlisted,
                          prompt[u] \in {"starting", "running"}, ~EndComing(u)'
                   PROVE  sink' # None /\ sink'.turn = u
      BY DEF Listed, RouterStep
    <3>2. prompt[t] \in {"starting", "running"}
      BY <1>3 DEF OpenclawInv, SinkLive
    <3>3. u = t
      BY <3>1, <3>2 DEF OpenclawInv, OneTurn
    <3> QED
      BY <1>3, <2>2, <3>1, <3>3
  <2> QED
    BY <2>3, <2>4, <2>5, <2>7 DEF OpenclawInv
<1>4. \A o \in Outcome : EndOf(o) \in TurnEvent /\ EndOf(o).what = o
  BY EventTypes DEF EndOf
<1>5. sink # None => sink.turn \in Turns
  BY DEF OpenclawInv, OpenclawTypeOK, Sink
<1>6. CASE sink # None /\ Shows
  BY <1>3, <1>5, <1>6 DEF Shows
<1>7. CASE sink # None /\ EndsTurn
  BY <1>3, <1>4, <1>5, <1>7 DEF EndsTurn
<1> QED
  BY <1>1, <1>2, <1>6, <1>7 DEF RouterStep
-----------------------------------------------------------------------------
(* The calls *)

\* What of the invariant is about turns, and what about sockets.
TurnsKept == OneTurn /\ CallStarts /\ SinkLive /\ Listed
SocketsKept == OpeningOK /\ OneSocket /\ DeviceKept

LEMMA Parts == OpenclawInv <=> OpenclawTypeOK /\ SocketsKept /\ TurnsKept
BY DEF OpenclawInv, TurnsKept, SocketsKept

\* A turn that is refused is in no table.
LEMMA RefuseKeeps ==
    ASSUME OpenclawInv, NEW t \in Turns, prompt[t] = "starting", Refuse(t),
           \/ sink' = sink /\ call[t] \in Unlisted
           \/ sink' = None
    PROVE  TurnsKept'
<1>1. /\ prompt' = [prompt EXCEPT ![t] = "answered"] /\ call' = [call EXCEPT ![t] = "done"]
      /\ UNCHANGED <<chan, asks>> /\ t \in Callers /\ Turns \subseteq Callers
      /\ prompt \in [Turns -> {"new", "starting", "running", "answered"}]
      /\ DOMAIN call = Callers
  BY DEF Refuse, Refused, Goto, OpenclawInv, OpenclawTypeOK, AdapterTypeOK, Callers
<1>2. OneTurn'
  BY <1>1 DEF OpenclawInv, OneTurn
<1>3. CallStarts'
  BY <1>1 DEF OpenclawInv, CallStarts, Unlisted
<1>4. sink # None => sink.turn \in Turns
  BY DEF OpenclawInv, OpenclawTypeOK, Sink
<1>5. SinkLive'
  BY <1>1, <1>4 DEF OpenclawInv, SinkLive, EndComing
<1>6. Listed'
  <2>1. \A u \in Turns : prompt'[u] \notin {"starting", "running"}
    BY <1>1 DEF OpenclawInv, OneTurn
  <2> QED
    BY <2>1 DEF Listed
<1> QED
  BY <1>2, <1>3, <1>5, <1>6 DEF TurnsKept

\* A call that fails before its turn is in the table.
LEMMA FailKeeps ==
    ASSUME OpenclawInv, NEW c \in Callers, call[c] = "none", Fail(c),
           c \in Turns => prompt[c] = "starting", UNCHANGED <<sink>>
    PROVE  TurnsKept'
<1>1. CASE c \in Turns /\ Refuse(c)
  BY <1>1, RefuseKeeps DEF Unlisted
<1>2. CASE c \in Readers /\ Goto(c, "done") /\ UNCHANGED adapterVars
  <2>1. /\ \A t \in Turns : call'[t] = call[t] /\ UNCHANGED <<prompt, chan>>
        /\ sink # None => sink.turn \in Turns
    BY <1>2, OpenclawBounds
       DEF Goto, adapterVars, Callers, OpenclawInv, OpenclawTypeOK, Sink
  <2> QED
    BY <2>1 DEF OpenclawInv, TurnsKept, OneTurn, CallStarts, SinkLive, Listed, EndComing
<1> QED
  BY <1>1, <1>2 DEF Fail

\* A call that has its socket.
LEMMA ConnectedKeeps ==
    ASSUME OpenclawInv, NEW c \in Callers, call[c] = "none", Connected(c),
           c \in Turns => prompt[c] = "starting", UNCHANGED <<prompt, chan, sink>>
    PROVE  TurnsKept'
<1>1. /\ \A t \in Turns : /\ t # c => call'[t] = call[t]
                          /\ t = c => call'[t] = "subscribe"
      /\ sink # None => sink.turn \in Turns
  BY OpenclawBounds DEF Connected, Goto, Callers, OpenclawInv, OpenclawTypeOK, Sink
<1>2. CallStarts'
  BY <1>1 DEF OpenclawInv, CallStarts, Unlisted
<1>3. SinkLive'
  BY <1>1 DEF OpenclawInv, SinkLive, EndComing, Unlisted
<1>4. Listed'
  BY <1>1 DEF OpenclawInv, Listed, EndComing, Unlisted
<1> QED
  BY <1>2, <1>3, <1>4 DEF OpenclawInv, OneTurn, TurnsKept
\* No socket is open when one is opened, and the new one is the only one.
LEMMA ConnectKeeps ==
    ASSUME OpenclawInv, OpenclawTypeOK', NEW c \in Callers, Connect(c)
    PROVE  OpenclawInv'
<1>1. OpenclawTypeOK /\ SocketsKept /\ TurnsKept
  BY Parts
<1>2. \A at \in {"key", "dial", "challenge", "hello"} :
        Opens(c, at) => /\ opening # None /\ opening.by = c /\ opening.at = at
                        /\ call[c] = "none" /\ (c \in Turns => prompt[c] = "starting")
                        /\ at # "key" => device = "kept"
                        /\ \A k \in Sockets : ~IsOpen(k)
  <2> SUFFICES ASSUME NEW at \in {"key", "dial", "challenge", "hello"}, Opens(c, at)
               PROVE  /\ opening # None /\ opening.by = c /\ opening.at = at
                      /\ call[c] = "none" /\ (c \in Turns => prompt[c] = "starting")
                      /\ at # "key" => device = "kept"
                      /\ \A k \in Sockets : ~IsOpen(k)
    OBVIOUS
  <2>1. opening \in Opening /\ opening.by = c /\ opening.at = at
    BY DEF Opens, Opening
  <2>2. opening # None
    BY <2>1, NoneIsAbsent
  <2> QED
    BY <1>1, <2>1, <2>2 DEF SocketsKept, OpeningOK, OneSocket
<1>3. CASE UseSocket(c)
  <2>1. TurnsKept'
    BY <1>3, ConnectedKeeps DEF UseSocket, Begins, adapterVars, routerVars
  <2>2. SocketsKept'
    BY <1>1, <1>3
       DEF UseSocket, SocketsKept, OpeningOK, OneSocket, DeviceKept, IsOpen, openVars,
           socketVars
  <2> QED
    BY <2>1, <2>2 DEF OpenclawInv, SocketsKept, TurnsKept
<1>4. CASE TakeLock(c)
  <2>1. TurnsKept'
    BY <1>1, <1>4 DEF TakeLock, TurnsKept, OneTurn, CallStarts, SinkLive, Listed, EndComing,
                adapterVars, turnVars, routerVars
  <2>2. OpeningOK' /\ DeviceKept'
    BY <1>1, <1>4 DEF TakeLock, Begins, SocketsKept, OpeningOK, DeviceKept, adapterVars,
                turnVars
  <2>3. OneSocket'
    BY <1>1, <1>4 DEF TakeLock, SocketsKept, OneSocket, IsOpen, socketVars
  <2> QED
    BY <2>1, <2>2, <2>3 DEF OpenclawInv, SocketsKept, TurnsKept
<1>5. ASSUME NEW at \in {"key", "dial", "challenge", "hello"}, Opens(c, at),
             NotConnected(c), UNCHANGED OpenRest, shown' => device' = "kept"
      PROVE  OpenclawInv'
  <2>1. TurnsKept'
    BY <1>2, <1>5, FailKeeps DEF NotConnected, OpenRest, routerVars
  <2>2. SocketsKept'
    BY <1>2, <1>5
       DEF NotConnected, OpenRest, socketVars, SocketsKept, OpeningOK, OneSocket, IsOpen,
           DeviceKept
  <2> QED
    BY <2>1, <2>2 DEF OpenclawInv, SocketsKept, TurnsKept
<1>6. ASSUME NEW at \in {"key", "dial", "challenge", "hello"}, Opens(c, at),
             NEW next \in {"dial", "challenge", "hello"}, Reach(next),
             UNCHANGED OpenRest, device' = "kept"
      PROVE  OpenclawInv'
  <2>1. TurnsKept'
    BY <1>1, <1>6 DEF Reach, OpenRest, TurnsKept, OneTurn, CallStarts, SinkLive, Listed,
                EndComing, adapterVars, routerVars
  <2>2. opening' = [by |-> c, at |-> next] /\ UNCHANGED <<prompt, call>>
    BY <1>6 DEF Opens, Reach, adapterVars
  <2>3. SocketsKept'
    BY <1>2, <1>6, <2>2
       DEF OpenRest, socketVars, SocketsKept, OpeningOK, OneSocket, IsOpen, DeviceKept
  <2> QED
    BY <2>1, <2>3 DEF OpenclawInv, SocketsKept, TurnsKept
<1>7. CASE DeviceProof(c)
  <2>1. PICK read \in Load :
          \/ read = "key" /\ Reach("dial") /\ UNCHANGED device
          \/ read = "none" /\ Reach("dial") /\ device' = "kept"
          \/ read = "none" /\ NotConnected(c) /\ SaveFails
          \/ read = "error" /\ NotConnected(c) /\ UNCHANGED device
    BY <1>7 DEF DeviceProof
  <2>2. /\ read = "key" => device = "kept"
        /\ read = "none" => device = "none"
    BY <1>1 DEF Load, OpenclawTypeOK
  <2>3. Opens(c, "key") /\ UNCHANGED OpenRest /\ UNCHANGED shown
    BY <1>7 DEF DeviceProof
  <2>4. shown => device = "kept"
    BY <1>1 DEF SocketsKept, DeviceKept
  <2>5. Reach("dial") /\ device' = "kept" => OpenclawInv'
    BY <1>6, <2>3
  <2>6. NotConnected(c) /\ (shown' => device' = "kept") => OpenclawInv'
    BY <1>5, <2>3
  <2>7. read = "none" => ~shown
    BY <2>2, <2>4
  <2> QED
    BY <2>1, <2>2, <2>3, <2>4, <2>5, <2>6, <2>7
<1>8. CASE Dial(c)
  BY <1>1, <1>2, <1>5, <1>6, <1>8 DEF Dial, SocketsKept, DeviceKept
<1>9. CASE Prove(c)
  BY <1>1, <1>2, <1>5, <1>6, <1>9 DEF Prove, ShowsKey, SocketsKept, DeviceKept
<1>10. CASE NoHello(c)
  BY <1>1, <1>5, <1>10 DEF NoHello, SocketsKept, DeviceKept
<1>11. CASE Hello(c)
  <2>1. Opens(c, "hello") /\ Connected(c)
    BY <1>11 DEF Hello
  <2>2. TurnsKept'
    BY <1>2, <1>11, <2>1, ConnectedKeeps DEF Hello, adapterVars, routerVars
  <2>3. PICK k \in Unused : live' = k /\ reader' = [reader EXCEPT ![k] = "reading"]
    BY <1>11 DEF Hello
  <2>4. OneSocket'
    BY <1>2, <1>11, <2>1, <2>3 DEF Hello, OneSocket, IsOpen
  <2>5. OpeningOK' /\ DeviceKept'
    BY <1>1, <1>11 DEF Hello, OpeningOK, DeviceKept, SocketsKept
  <2> QED
    BY <2>2, <2>4, <2>5 DEF OpenclawInv, SocketsKept, TurnsKept
<1> QED
  BY <1>3, <1>4, <1>7, <1>8, <1>9, <1>10, <1>11 DEF Connect

\* The rest of a turn's call.
LEMMA CallKeeps ==
    ASSUME OpenclawInv, OpenclawTypeOK', NEW t \in Turns,
           \/ Subscribe(t) \/ LookClosed(t) \/ ListRequest(t) \/ GiveUpWaiting(t)
           \/ NotSent(t) \/ LookEnded(t) \/ SetActive(t) \/ Acked(t)
    PROVE  OpenclawInv'
<1>1. OpenclawTypeOK /\ SocketsKept /\ TurnsKept
  BY Parts
<1>2. /\ DOMAIN call = Callers /\ t \in Callers /\ Turns \subseteq Callers
      /\ prompt \in [Turns -> {"new", "starting", "running", "answered"}]
      /\ sink # None => sink \in Sink /\ sink.turn \in Turns
  BY <1>1 DEF OpenclawTypeOK, AdapterTypeOK, Callers, Sink
<1>3. /\ UNCHANGED <<openVars, reader>> /\ call[t] # "none"
      /\ call[t] # "done" /\ prompt[t] = "starting"
      /\ \A c \in Callers \ {t} : call'[c] = call[c]
      /\ \A u \in Turns \ {t} : prompt'[u] = prompt[u]
  <2>1. UNCHANGED <<openVars, reader>>
    BY DEF Subscribe, LookClosed, ListRequest, GiveUpWaiting, NotSent, LookEnded,
           SetActive, Acked, TurnRest, socketVars
  <2>2. call[t] \notin {"none", "done"}
    BY DEF Subscribe, LookClosed, ListRequest, GiveUpWaiting, NotSent, LookEnded,
           SetActive, Acked
  <2>3. prompt[t] = "starting"
    BY <1>1, <2>2 DEF TurnsKept, CallStarts
  <2>4. \A c \in Callers \ {t} : call'[c] = call[c]
    BY <1>2 DEF Subscribe, LookClosed, ListRequest, GiveUpWaiting, NotSent, LookEnded,
                SetActive, Acked, Refuse, Goto
  <2>5. \A u \in Turns \ {t} : prompt'[u] = prompt[u]
    BY <1>2 DEF Subscribe, LookClosed, ListRequest, GiveUpWaiting, NotSent, LookEnded,
                SetActive, Acked, Refuse, Refused, Started, adapterVars
  <2> QED
    BY <2>1, <2>2, <2>3, <2>4, <2>5
<1>4. SocketsKept'
  <2>1. opening # None => opening.by \in Callers
    BY <1>1 DEF OpenclawTypeOK, Opening
  <2> QED
    BY <1>1, <1>2, <1>3, <2>1
       DEF SocketsKept, OpeningOK, OneSocket, DeviceKept, IsOpen, openVars
<1>5. ASSUME NEW at, at \notin {"none", "subscribe", "done"}, call[t] \notin Unlisted,
             Goto(t, at), UNCHANGED <<prompt, chan, sink>>
      PROVE  OpenclawInv'
  <2>1. \A u \in Turns : call'[u] = IF u = t THEN at ELSE call[u]
    BY <1>2, <1>5 DEF Goto
  <2>2. TurnsKept'
    BY <1>1, <1>2, <1>3, <1>5, <2>1
       DEF TurnsKept, OneTurn, CallStarts, SinkLive, Listed, EndComing, Unlisted
  <2> QED
    BY <1>4, <2>2 DEF OpenclawInv, SocketsKept, TurnsKept
<1>6. CASE Refuse(t) /\ (sink' = None \/ (sink' = sink /\ call[t] \in Unlisted))
  <2>1. TurnsKept'
    BY <1>3, <1>6, RefuseKeeps
  <2> QED
    BY <1>4, <2>1 DEF OpenclawInv, SocketsKept, TurnsKept
<1>7. CASE Subscribe(t)
  <2>1. CASE sink' = NewSink(t) /\ Goto(t, "send") /\ UNCHANGED adapterVars
    <3>1. sink'.turn = t /\ call'[t] = "send" /\ UNCHANGED <<prompt, chan>>
      BY <1>2, <2>1 DEF NewSink, Goto, adapterVars
    <3>2. chan[t] = <<>>
      BY <1>1, <1>7 DEF Subscribe, TurnsKept, CallStarts, Unlisted
    <3>3. OneTurn' /\ CallStarts'
      <4>1. OneTurn'
        BY <1>1, <3>1 DEF TurnsKept, OneTurn
      <4>2. CallStarts'
        BY <1>1, <1>2, <1>3, <3>1 DEF TurnsKept, CallStarts, Unlisted
      <4> QED
        BY <4>1, <4>2
    <3>4. SinkLive'
      BY <1>3, <3>1, <3>2 DEF SinkLive, EndComing, Unlisted
    <3>5. Listed'
      <4>1. sink' # None
        BY <2>1, GatewayEventTypes, NoneIsAbsent
      <4>2. \A u \in Turns : prompt'[u] \in {"starting", "running"} => u = t
        BY <1>1, <1>3, <3>1 DEF TurnsKept, OneTurn
      <4> QED
        BY <3>1, <4>1, <4>2 DEF Listed
    <3> QED
      BY <1>4, <3>3, <3>4, <3>5 DEF OpenclawInv, SocketsKept
  <2> QED
    BY <1>6, <1>7, <2>1 DEF Subscribe, Unlisted
<1>8. CASE NotSent(t)
  BY <1>6, <1>8 DEF NotSent
<1>9. CASE Acked(t)
  <2>1. /\ call'[t] = "done" /\ prompt'[t] = "running" /\ UNCHANGED chan
        /\ call[t] = "acked"
    BY <1>2, <1>9 DEF Acked, Goto, Started
  <2>2. OneTurn' /\ CallStarts'
    <3>1. OneTurn'
      BY <1>1, <1>3 DEF TurnsKept, OneTurn
    <3>2. CallStarts'
      BY <1>1, <1>2, <1>3, <2>1 DEF TurnsKept, CallStarts, Unlisted
    <3> QED
      BY <3>1, <3>2
  <2>3. (sink = None <=> sink' = None) /\ (sink # None => sink'.turn = sink.turn)
    <3>1. ASSUME sink # None PROVE sink' # None /\ sink'.turn = sink.turn
      <4>1. sink' = [sink EXCEPT !.run = got[t].run] /\ got[t].run \in Runs \cup {None}
        BY <1>1, <1>2, <1>9, <3>1 DEF Acked, OpenclawTypeOK, Answer
      <4>2. sink' \in Sink /\ sink'.turn = sink.turn
        BY <1>2, <3>1, <4>1 DEF Sink
      <4> QED
        BY <4>2, NoneIsAbsent
    <3> QED
      BY <1>9, <3>1 DEF Acked
  <2>4. SinkLive' /\ Listed'
    BY <1>1, <1>2, <1>3, <2>1, <2>3
       DEF TurnsKept, SinkLive, Listed, EndComing, Unlisted
  <2> QED
    BY <1>4, <2>2, <2>4 DEF OpenclawInv, SocketsKept
<1> QED
  BY <1>5, <1>7, <1>8, <1>9
     DEF LookClosed, ListRequest, GiveUpWaiting, LookEnded, SetActive, Unlisted,
         adapterVars, routerVars

-----------------------------------------------------------------------------
(* Every other step *)

\* A step of the host or of the adapter.
LEMMA AdapterKeeps ==
    ASSUME OpenclawInv, OpenclawTypeOK', AdapterNext,
           UNCHANGED <<openVars, socketVars, turnVars, routerVars, gatewayVars>>
    PROVE  OpenclawInv'
<1>1. OpenclawTypeOK /\ SocketsKept /\ TurnsKept
  BY Parts
<1>2. /\ chan \in [Turns -> Seq(TurnEvent)]
      /\ prompt \in [Turns -> {"new", "starting", "running", "answered"}]
      /\ sink # None => sink.turn \in Turns
      /\ opening # None => opening.by \in Callers
      /\ UNCHANGED <<openVars, reader, call, sink>>
  BY <1>1 DEF OpenclawTypeOK, AdapterTypeOK, Sink, Opening, socketVars, turnVars, routerVars
<1>3. ASSUME UNCHANGED <<prompt, chan>> PROVE OpenclawInv'
  BY <1>2, <1>3, Quiet
<1>4. ASSUME NEW t \in Turns, Prompt(t) PROVE OpenclawInv'
  <2>1. /\ prompt' = [prompt EXCEPT ![t] = "starting"] /\ UNCHANGED chan
        /\ prompt[t] = "new" /\ \A u \in Turns : prompt[u] \in {"new", "answered"}
    BY <1>4 DEF Prompt
  <2>2. SocketsKept'
    BY <1>1, <1>2, <2>1 DEF SocketsKept, OpeningOK, OneSocket, DeviceKept, IsOpen, openVars
  <2>3. OneTurn'
    BY <1>2, <2>1 DEF OneTurn
  <2>4. call[t] = "none"
    BY <1>1, <2>1 DEF TurnsKept, CallStarts
  <2>5. CallStarts'
    BY <1>1, <1>2, <2>1, <2>4 DEF TurnsKept, CallStarts, Unlisted
  <2>6. sink' = None
    BY <1>1, <1>2, <2>1 DEF TurnsKept, SinkLive
  <2>7. Listed'
    <3>1. SUFFICES ASSUME NEW u \in Turns, call'[u] \notin Unlisted,
                          prompt'[u] \in {"starting", "running"}
                   PROVE  FALSE
      BY DEF Listed
    <3>2. u # t
      BY <1>2, <2>4, <3>1 DEF Unlisted
    <3> QED
      BY <1>2, <2>1, <3>1, <3>2
  <2> QED
    BY <2>2, <2>3, <2>5, <2>6, <2>7 DEF OpenclawInv, SocketsKept, SinkLive
<1>5. ASSUME NEW t \in Turns, RelayText(t) \/ RelayAsk(t) \/ RelayAnswered(t)
      PROVE  OpenclawInv'
  <2>1. /\ UNCHANGED prompt /\ chan' = [chan EXCEPT ![t] = Tail(@)]
        /\ chan[t] # <<>> /\ Head(chan[t]).what \notin Outcome
    BY <1>5 DEF RelayText, RelayAsk, RelayAnswered, Running, Take, Outcome
  <2>2. \A u \in Turns : EndComing(u)' <=> EndComing(u)
    <3>1. SUFFICES EndComing(t)' <=> EndComing(t)
      BY <1>2, <2>1 DEF EndComing
    <3>2. chan'[t] = Tail(chan[t]) /\ chan[t] \in Seq(TurnEvent)
      BY <1>2, <2>1
    <3>3. /\ DOMAIN chan[t] = 1..Len(chan[t]) /\ DOMAIN chan'[t] = 1..(Len(chan[t]) - 1)
          /\ \A i \in DOMAIN chan'[t] : chan'[t][i] = chan[t][i + 1]
          /\ Len(chan[t]) \in Nat \ {0} /\ Head(chan[t]) = chan[t][1]
      <4>1. chan[t] # <<>> /\ Len(chan[t]) \in Nat \ {0} /\ Head(chan[t]) = chan[t][1]
        BY <2>1, <3>2
      <4>2. Len(Tail(chan[t])) = Len(chan[t]) - 1 /\ Tail(chan[t]) \in Seq(TurnEvent)
        BY <3>2, <4>1
      <4>3. \A i \in 1..(Len(chan[t]) - 1) : Tail(chan[t])[i] = chan[t][i + 1]
        BY <3>2, <4>1
      <4> QED
        BY <3>2, <4>1, <4>2, <4>3
    <3>4. ASSUME EndComing(t) PROVE EndComing(t)'
      <4>1. PICK i \in DOMAIN chan[t] : chan[t][i].what \in Outcome
        BY <3>4 DEF EndComing
      <4>2. i # 1
        BY <2>1, <3>3, <4>1
      <4>3. i - 1 \in DOMAIN chan'[t] /\ chan'[t][i - 1] = chan[t][i]
        BY <3>3, <4>2
      <4> QED
        BY <4>1, <4>3 DEF EndComing
    <3>5. ASSUME EndComing(t)' PROVE EndComing(t)
      <4>1. PICK i \in DOMAIN chan'[t] : chan'[t][i].what \in Outcome
        BY <3>5 DEF EndComing
      <4>2. i + 1 \in DOMAIN chan[t] /\ chan'[t][i] = chan[t][i + 1]
        BY <3>3
      <4> QED
        BY <4>1, <4>2 DEF EndComing
    <3> QED
      BY <3>4, <3>5
  <2>3. SocketsKept' /\ OneTurn'
    BY <1>1, <1>2, <2>1
       DEF SocketsKept, OpeningOK, OneSocket, DeviceKept, IsOpen, openVars, TurnsKept, OneTurn
  <2>4. CallStarts'
    BY <1>1, <1>2, <2>1 DEF TurnsKept, CallStarts
  <2>5. SinkLive'
    BY <1>1, <1>2, <2>1, <2>2 DEF TurnsKept, SinkLive, EndComing
  <2>6. Listed'
    BY <1>1, <1>2, <2>1, <2>2 DEF TurnsKept, Listed
  <2> QED
    BY <2>3, <2>4, <2>5, <2>6 DEF OpenclawInv, SocketsKept
<1>6. ASSUME NEW t \in Turns, RelayEnd(t) PROVE OpenclawInv'
  <2>1. /\ prompt' = [prompt EXCEPT ![t] = "answered"] /\ chan' = [chan EXCEPT ![t] = <<>>]
        /\ prompt[t] = "running" /\ chan[t] # <<>> /\ Head(chan[t]).what \in Outcome
    BY <1>6 DEF RelayEnd, Running
  <2>2. EndComing(t)
    <3>1. 1 \in DOMAIN chan[t] /\ Head(chan[t]) = chan[t][1]
      BY <1>2, <2>1
    <3> QED
      BY <2>1, <3>1 DEF EndComing
  <2>3. \A u \in Turns : prompt'[u] \notin {"starting", "running"}
    BY <1>1, <1>2, <2>1 DEF TurnsKept, OneTurn
  <2>4. sink' = None
    BY <1>1, <1>2, <2>1, <2>2 DEF TurnsKept, SinkLive, OneTurn
  <2>5. SocketsKept'
    BY <1>1, <1>2, <2>1 DEF SocketsKept, OpeningOK, OneSocket, DeviceKept, IsOpen, openVars
  <2>6. CallStarts'
    BY <1>1, <1>2, <2>1 DEF TurnsKept, CallStarts
  <2>7. OneTurn' /\ SinkLive' /\ Listed'
    BY <2>3, <2>4 DEF OneTurn, SinkLive, Listed
  <2> QED
    BY <2>5, <2>6, <2>7 DEF OpenclawInv, SocketsKept
<1> QED
  BY <1>3, <1>4, <1>5, <1>6
     DEF AdapterNext, Cancel, HostAnswers, TakeReply, RelayEvent

\* A step of a transcript's reader, once it has its socket.
LEMMA ReadKeeps ==
    ASSUME OpenclawInv, OpenclawTypeOK', NEW h \in Readers,
           ReadHistory(h) \/ AdoptRun(h)
    PROVE  OpenclawInv'
<1>1. OpenclawTypeOK /\ SocketsKept /\ TurnsKept
  BY Parts
<1>2. /\ UNCHANGED <<prompt, chan, sink, openVars, reader>> /\ call[h] # "none"
      /\ \A c \in Callers \ {h} : call'[c] = call[c]
  BY <1>1 DEF ReadHistory, AdoptRun, ReadOver, Goto, adapterVars, socketVars, routerVars,
              OpenclawTypeOK
<1>3. /\ \A t \in Turns : call'[t] = call[t]
      /\ sink # None => sink.turn \in Turns
      /\ opening # None => opening.by \in Callers
  BY <1>1, <1>2, OpenclawBounds DEF Callers, OpenclawTypeOK, Sink, Opening
<1>4. SocketsKept'
  BY <1>1, <1>2, <1>3
     DEF SocketsKept, OpeningOK, OneSocket, DeviceKept, IsOpen, openVars
<1>5. TurnsKept'
  BY <1>1, <1>2, <1>3 DEF TurnsKept, OneTurn, CallStarts, SinkLive, Listed, EndComing
<1> QED
  BY <1>4, <1>5 DEF OpenclawInv, SocketsKept, TurnsKept

\* A socket that closes.
LEMMA ClosingKeeps ==
    ASSUME OpenclawInv, OpenclawTypeOK', NEW k \in Sockets,
           FailPending(k) \/ MarkClosed(k)
    PROVE  OpenclawInv'
<1>1. OpenclawTypeOK /\ SocketsKept /\ TurnsKept
  BY Parts
<1>2. /\ UNCHANGED <<prompt, chan, call, sink, openVars>>
      /\ \A j \in Sockets : IsOpen(j)' => IsOpen(j)
  BY <1>1 DEF FailPending, MarkClosed, adapterVars, routerVars, turnVars, IsOpen,
              OpenclawTypeOK
<1>3. SocketsKept'
  BY <1>1, <1>2 DEF SocketsKept, OpeningOK, OneSocket, DeviceKept, openVars
<1>4. TurnsKept'
  BY <1>1, <1>2 DEF TurnsKept, OneTurn, CallStarts, SinkLive, Listed, EndComing
<1> QED
  BY <1>3, <1>4 DEF OpenclawInv, SocketsKept, TurnsKept

\* Every step keeps the invariant.
LEMMA InvStep ==
    ASSUME OpenclawInv, [OpenclawNext]_openclawVars
    PROVE  OpenclawInv'
<1>1. OpenclawTypeOK'
  BY OpenclawTypeStep DEF OpenclawInv
<1>2. Turns \subseteq Callers /\ Readers \subseteq Callers
  BY DEF Callers
<1>3. CASE AdapterNext /\ UNCHANGED <<openVars, socketVars, turnVars, routerVars, gatewayVars>>
  BY <1>1, <1>3, AdapterKeeps
<1>4. ASSUME NEW t \in Turns, OpenclawTask(t) PROVE OpenclawInv'
  BY <1>1, <1>2, <1>4, ConnectKeeps, CallKeeps DEF OpenclawTask
<1>5. ASSUME NEW t \in Turns, Steer(t) PROVE OpenclawInv'
  BY <1>1, <1>5, Quiet
     DEF Steer, GatewayRest, Abort, Decide, Resolve, Tell, turnVars, routerVars, socketVars
<1>6. ASSUME NEW t \in Turns, Gateway(t) PROVE OpenclawInv'
  BY <1>1, <1>6, Quiet
     DEF Gateway, GatewayTakes, GatewayEvent, GatewayEnds, GatewayRow, Tell, adapterVars,
         turnVars, routerVars, socketVars
<1>7. ASSUME NEW t \in Turns, WaitOver(t) PROVE OpenclawInv'
  BY <1>1, <1>7, WaitOverStep, RouterKeeps
<1>8. ASSUME NEW h \in Readers, ReadTask(h) PROVE OpenclawInv'
  BY <1>1, <1>2, <1>8, ConnectKeeps, ReadKeeps DEF ReadTask
<1>9. ASSUME NEW k \in Sockets, OpenclawSocket(k) PROVE OpenclawInv'
  BY <1>1, <1>9, ClosingKeeps, RouteStep, DisconnectedStep, RouterKeeps
     DEF OpenclawSocket, OpenclawInv
<1>10. ASSUME NEW q \in Asks, ResolvedElsewhere(q) PROVE OpenclawInv'
  BY <1>1, <1>10, Quiet
     DEF ResolvedElsewhere, Resolve, Tell, adapterVars, turnVars, routerVars
<1>11. CASE UNCHANGED openclawVars
  BY <1>1, <1>11, Quiet
     DEF openclawVars, adapterVars, turnVars, routerVars, socketVars
<1> QED
  BY <1>3, <1>4, <1>5, <1>6, <1>7, <1>8, <1>9, <1>10, <1>11 DEF OpenclawNext

LEMMA OpenclawKeeps == OpenclawSpec => []OpenclawInv
BY InvInit, InvStep, PTL DEF OpenclawSpec

\* A turn the adapter runs is in the router's table or its end is on the way,
\* nothing of a turn that is over is left there, one socket is open at a time,
\* and a key that was shown is kept.
THEOREM TurnsHeard == OpenclawSpec => []OpenclawSound
<1>1. OpenclawInv => OpenclawSound
  <2> SUFFICES ASSUME OpenclawInv PROVE OpenclawSound
    OBVIOUS
  <2>1. ASSUME NEW t \in Turns, prompt[t] = "running", ~EndComing(t)
        PROVE  sink # None /\ sink.turn = t
    BY <2>1 DEF OpenclawInv, Listed, CallStarts, Unlisted
  <2>2. sink # None => prompt[sink.turn] # "answered" /\ ~EndComing(sink.turn)
    BY DEF OpenclawInv, SinkLive
  <2> QED
    BY <2>1, <2>2 DEF OpenclawInv, OpenclawSound, TurnHeard
<1> QED
  BY <1>1, OpenclawKeeps, PTL

-----------------------------------------------------------------------------
(* Requests for permission *)

\* An event about a request is of one the gateway asked, and a resolved one
\* is not waited on any more.
GoodEvent(e) ==
    /\ e.what \in {"ask", "resolved"} => gask[e.q].run # None
    /\ e.what = "resolved" => ~gask[e.q].open

QueueKnown == \A k \in Sockets : \A i \in DOMAIN evq[k] : GoodEvent(evq[k][i])

OpenKnown == \A q \in Asks : gask[q].open => gask[q].run # None

\* A request on its way to the adapter, or that the adapter shows the host.
Awaits(t, q) ==
    \/ \E i \in DOMAIN chan[t] : chan[t][i].what = "ask" /\ chan[t][i].q = q
    \/ \E i \in DOMAIN asks[t] : asks[t][i].q = q

AwaitsKnown == \A t \in Turns, q \in Asks : Awaits(t, q) => gask[q].run # None

\* Only a turn that runs has requests with the host.
AskedRunning == \A t \in Turns : asks[t] # <<>> => prompt[t] = "running"

\* A request of a turn that goes on, and that the gateway waits on, is in the
\* router's approvals.
Held ==
    \A t \in Turns, q \in Asks :
        /\ prompt[t] # "answered" /\ ~EndComing(t)
        /\ Awaits(t, q) /\ gask[q].open
        => q \in approvals

AskInv ==
    /\ QueueKnown
    /\ OpenKnown
    /\ AwaitsKnown
    /\ AskedRunning
    /\ Held

LEMMA AskInit == OpenclawInit => AskInv
BY DEF OpenclawInit, AdapterInit, AskInv, QueueKnown, OpenKnown, AwaitsKnown, Awaits,
       AskedRunning, Held

\* Of what a sequence is made, when it is another that grew or shrank.
LEMMA TailParts ==
    ASSUME NEW S, NEW s \in Seq(S), s # <<>>
    PROVE  /\ \A i \in DOMAIN Tail(s) : i + 1 \in DOMAIN s /\ Tail(s)[i] = s[i + 1]
           /\ 1 \in DOMAIN s /\ Head(s) = s[1]
<1>1. Tail(s) \in Seq(S) /\ Len(Tail(s)) = Len(s) - 1 /\ Len(s) \in Nat \ {0}
  BY HeadTailProperties
<1>2. DOMAIN Tail(s) = 1..(Len(s) - 1) /\ DOMAIN s = 1..Len(s)
  BY <1>1
<1>3. \A i \in 1..Len(Tail(s)) : Tail(s)[i] = s[i + 1]
  BY HeadTailProperties
<1> QED
  BY <1>1, <1>2, <1>3

LEMMA AppendParts ==
    ASSUME NEW S, NEW s \in Seq(S), NEW e \in S, NEW i \in DOMAIN Append(s, e)
    PROVE  Append(s, e)[i] = e \/ (i \in DOMAIN s /\ Append(s, e)[i] = s[i])
OBVIOUS

LEMMA RemoveAtParts ==
    ASSUME NEW S, NEW s \in Seq(S), NEW k \in DOMAIN s, NEW i \in DOMAIN RemoveAt(s, k)
    PROVE  \E j \in DOMAIN s : RemoveAt(s, k)[i] = s[j]
<1> DEFINE a == SubSeq(s, 1, k - 1)
           b == SubSeq(s, k + 1, Len(s))
<1>1. k \in 1..Len(s) /\ Len(s) \in Nat /\ DOMAIN s = 1..Len(s)
  OBVIOUS
<1>2. /\ a \in Seq(S) /\ Len(a) = k - 1
      /\ \A j \in 1..(k - 1) : a[j] = s[j]
  BY <1>1
<1>3. /\ b \in Seq(S) /\ Len(b) = Len(s) - k
      /\ \A j \in 1..(Len(s) - k) : b[j] = s[k + j]
  BY <1>1
<1>4. RemoveAt(s, k) = a \o b
  BY DEF RemoveAt
<1> HIDE DEF a, b
<1>5. /\ i \in 1..(Len(a) + Len(b))
      /\ (a \o b)[i] = IF i <= Len(a) THEN a[i] ELSE b[i - Len(a)]
  BY <1>2, <1>3, <1>4
<1>6. CASE i <= Len(a)
  BY <1>1, <1>2, <1>4, <1>5, <1>6
<1>7. CASE ~(i <= Len(a))
  <2>1. i - Len(a) \in 1..(Len(s) - k) /\ i + 1 = k + (i - Len(a))
    BY <1>1, <1>2, <1>3, <1>5, <1>7
  <2>2. RemoveAt(s, k)[i] = b[i - Len(a)]
    BY <1>4, <1>5, <1>7
  <2>3. b[i - Len(a)] = s[k + (i - Len(a))] /\ k + (i - Len(a)) \in DOMAIN s
    BY <1>1, <1>3, <2>1
  <2> QED
    BY <2>2, <2>3
<1> QED
  BY <1>6, <1>7

\* A step that moves no request.
LEMMA AsksQuiet ==
    ASSUME AskInv, UNCHANGED <<chan, asks, approvals, gask, evq>>,
           \A t \in Turns : /\ prompt[t] = "running" => prompt'[t] = "running"
                            /\ prompt[t] = "answered" => prompt'[t] = "answered"
    PROVE  AskInv'
<1> USE DEF AskInv
<1>1. QueueKnown' /\ OpenKnown'
  BY DEF QueueKnown, OpenKnown, GoodEvent
<1>2. \A t \in Turns, q \in Asks : Awaits(t, q)' <=> Awaits(t, q)
  BY DEF Awaits
<1>3. AwaitsKnown'
  BY <1>2 DEF AwaitsKnown
<1>4. AskedRunning'
  BY DEF AskedRunning
<1>5. Held'
  BY <1>2 DEF Held, EndComing
<1> QED
  BY <1>1, <1>3, <1>4, <1>5

\* What the gateway asked it asked once, and what is resolved stays so.
GaskGrows ==
    \A q \in Asks :
        gask[q].run # None => /\ gask'[q].run # None
                              /\ gask'[q].open => gask[q].open

\* A step of the gateway, which tells the socket that is read.
LEMMA AsksTold ==
    ASSUME OpenclawTypeOK, AskInv, NEW e \in Event, Read(e), GoodEvent(e)',
           GaskGrows, OpenKnown', UNCHANGED <<chan, asks, prompt, approvals>>
    PROVE  AskInv'
<1>1. QueueKnown'
  <2>1. SUFFICES ASSUME NEW k \in Sockets, NEW i \in DOMAIN evq'[k]
                 PROVE  GoodEvent(evq[k][i])'
    BY DEF QueueKnown
  <2>2. \/ evq'[k] = evq[k]
        \/ evq'[k] = Append(evq[k], e)
    BY DEF Read, OpenclawTypeOK
  <2>3. evq'[k][i] = e \/ (i \in DOMAIN evq[k] /\ evq'[k][i] = evq[k][i])
    <3>1. evq[k] \in Seq(Event)
      BY DEF OpenclawTypeOK
    <3>2. CASE evq'[k] = evq[k]
      BY <2>1, <3>2
    <3>3. CASE evq'[k] = Append(evq[k], e)
      BY <2>1, <3>1, <3>3, AppendParts
    <3> QED
      BY <2>2, <3>2, <3>3
  <2>4. CASE i \in DOMAIN evq[k] /\ evq'[k][i] = evq[k][i]
    <3>1. GoodEvent(evq[k][i]) /\ evq[k][i] \in Event
      BY <2>4 DEF AskInv, QueueKnown, OpenclawTypeOK
    <3>2. evq[k][i].what \in {"ask", "resolved"} => evq[k][i].q \in Asks
      BY <3>1, EventKinds
    <3> QED
      BY <2>4, <3>1, <3>2 DEF GoodEvent, GaskGrows
  <2>5. CASE evq'[k][i] = e
    BY <2>5 DEF GoodEvent
  <2> QED
    BY <2>3, <2>4, <2>5
<1>2. \A t \in Turns, q \in Asks : Awaits(t, q)' <=> Awaits(t, q)
  BY DEF Awaits
<1>3. AwaitsKnown' /\ AskedRunning'
  BY <1>2 DEF AskInv, AwaitsKnown, AskedRunning, GaskGrows
<1>4. Held'
  BY <1>2 DEF AskInv, Held, AwaitsKnown, GaskGrows, EndComing
<1> QED
  BY <1>1, <1>3, <1>4 DEF AskInv

\* A request is resolved, on either way.
LEMMA AsksResolved ==
    ASSUME OpenclawTypeOK, AskInv, NEW q \in Asks, gask[q].open, Resolve(q),
           UNCHANGED <<chan, asks, prompt, approvals>>
    PROVE  AskInv'
<1>1. /\ Resolution(q) \in Event /\ Read(Resolution(q))
      /\ gask' = [gask EXCEPT ![q].open = FALSE]
      /\ gask \in [Asks -> [run : Runs \cup {None}, open : BOOLEAN]]
  BY ResolveTypes DEF Resolve, Tell, OpenclawTypeOK
<1>2. \A p \in Asks : /\ gask'[p].run = gask[p].run
                      /\ gask'[p].open => gask[p].open
                      /\ p = q => ~gask'[p].open
  BY <1>1
<1>3. gask[q].run # None
  BY DEF AskInv, OpenKnown
<1>4. GaskGrows /\ OpenKnown'
  BY <1>2 DEF GaskGrows, AskInv, OpenKnown
<1> DEFINE e == Resolution(q)
<1>5. e.q = q
  BY DEF Resolution, AskEv
<1>6. \A x \in Event : x.q = q => GoodEvent(x)'
  BY <1>2, <1>3 DEF GoodEvent
<1>7. PICK x \in Event : x.q = q /\ Read(x)
  BY <1>1, <1>5
<1> QED
  BY <1>4, <1>6, <1>7, AsksTold

\* The gateway asks, once.
LEMMA AsksAsked ==
    ASSUME OpenclawTypeOK, AskInv, NEW r \in Turns, GatewayEvent(r)
    PROVE  AskInv'
<1>1. UNCHANGED <<chan, asks, prompt, approvals>>
  BY DEF GatewayEvent, adapterVars, routerVars
<1>2. ASSUME NEW what \in Says, Tell(Ev(what, r)), UNCHANGED gask
      PROVE  AskInv'
  <2>1. Ev(what, r) \in Event /\ Ev(what, r).what \notin {"ask", "resolved"}
    BY GatewayEventTypes DEF Ev, Says, Runs
  <2>2. PICK e \in Event : Read(e) /\ e.what \notin {"ask", "resolved"}
    BY <1>2, <2>1 DEF Tell
  <2>3. GoodEvent(e)'
    BY <2>2 DEF GoodEvent
  <2>4. GaskGrows /\ OpenKnown'
    BY <1>2 DEF GaskGrows, AskInv, OpenKnown
  <2> QED
    BY <1>1, <2>2, <2>3, <2>4, AsksTold
<1>3. ASSUME NEW q \in Asks, NEW of \in {r, None}, gask[q].run = None,
             gask' = [gask EXCEPT ![q] = [run |-> r, open |-> TRUE]],
             Tell(AskEv("ask", q, of))
      PROVE  AskInv'
  <2>1. \A p \in Asks : gask'[p] = IF p = q THEN [run |-> r, open |-> TRUE] ELSE gask[p]
    BY <1>3 DEF OpenclawTypeOK
  <2>2. r # None
    BY Nobody DEF Runs
  <2>3. GaskGrows /\ OpenKnown'
    BY <1>3, <2>1, <2>2 DEF GaskGrows, AskInv, OpenKnown
  <2>4. /\ AskEv("ask", q, of) \in Event
        /\ AskEv("ask", q, of).q = q /\ AskEv("ask", q, of).what = "ask"
    BY GatewayEventTypes DEF AskEv, Runs
  <2>5. PICK e \in Event : Read(e) /\ e.q = q /\ e.what = "ask"
    BY <1>3, <2>4 DEF Tell
  <2>6. GoodEvent(e)'
    BY <2>1, <2>2, <2>5 DEF GoodEvent
  <2> QED
    BY <1>1, <2>3, <2>5, <2>6, AsksTold
<1> QED
  BY <1>2, <1>3 DEF GatewayEvent

\* Anything else the gateway does or says is of no request.
LEMMA AsksUnasked ==
    ASSUME OpenclawTypeOK, AskInv, NEW r \in Turns,
           GatewayTakes(r) \/ GatewayEnds(r) \/ GatewayRow(r)
    PROVE  AskInv'
<1>1. UNCHANGED <<chan, asks, prompt, approvals, gask>>
  BY DEF GatewayTakes, GatewayEnds, GatewayRow, adapterVars, routerVars
<1>2. CASE GatewayTakes(r)
  BY <1>1, <1>2, AsksQuiet DEF GatewayTakes, socketVars
<1>3. ASSUME NEW e \in Event, Read(e), e.what \notin {"ask", "resolved"}
      PROVE  AskInv'
  <2>1. GoodEvent(e)'
    BY <1>3 DEF GoodEvent
  <2>2. GaskGrows /\ OpenKnown'
    BY <1>1 DEF GaskGrows, AskInv, OpenKnown
  <2> QED
    BY <1>1, <1>3, <2>1, <2>2, AsksTold
<1>4. /\ \A what \in Terminal : /\ Ev(what, r) \in Event
                                /\ Ev(what, r).what \notin {"ask", "resolved"}
      /\ \A row \in RowsOf(r) : row \in Event /\ row.what \notin {"ask", "resolved"}
  BY GatewayEventTypes DEF Ev, RowsOf, Terminal, Runs
<1>5. CASE GatewayEnds(r)
  BY <1>3, <1>4, <1>5 DEF GatewayEnds, Tell, Terminal
<1>6. CASE GatewayRow(r)
  BY <1>3, <1>4, <1>6 DEF GatewayRow, Tell
<1> QED
  BY <1>2, <1>5, <1>6

\* What is emitted queues no request but one that is asked with it.
LEMMA EmitAwaits ==
    ASSUME OpenclawTypeOK, NEW t \in Turns, NEW e \in TurnEvent, Emit(t, e),
           UNCHANGED asks, NEW u \in Turns, NEW q \in Asks, Awaits(u, q)'
    PROVE  Awaits(u, q) \/ (u = t /\ e.what = "ask" /\ e.q = q)
<1>1. chan \in [Turns -> Seq(TurnEvent)]
  BY DEF OpenclawTypeOK, AdapterTypeOK
<1>2. CASE \E i \in DOMAIN asks'[u] : asks'[u][i].q = q
  BY <1>2 DEF Awaits
<1>3. ASSUME NEW i \in DOMAIN chan'[u], chan'[u][i].what = "ask", chan'[u][i].q = q
      PROVE  Awaits(u, q) \/ (u = t /\ e.what = "ask" /\ e.q = q)
  <2>1. CASE chan'[u] = chan[u]
    BY <1>3, <2>1 DEF Awaits
  <2>2. CASE chan'[u] # chan[u]
    <3>1. u = t /\ chan'[u] = Append(chan[u], e)
      BY <1>1, <2>2 DEF Emit
    <3>2. chan'[u][i] = e \/ (i \in DOMAIN chan[u] /\ chan'[u][i] = chan[u][i])
      BY <1>1, <1>3, <3>1, AppendParts
    <3> QED
      BY <1>3, <3>1, <3>2 DEF Awaits
  <2> QED
    BY <2>1, <2>2
<1> QED
  BY <1>2, <1>3 DEF Awaits

\* The router takes no end of a turn back.
LEMMA EndsStay ==
    ASSUME OpenclawInv, RouterStep, NEW u \in Turns, EndComing(u)
    PROVE  EndComing(u)'
<1>1. CASE chan'[u] = chan[u]
  BY <1>1 DEF EndComing
<1>2. CASE chan'[u] # chan[u]
  <2>1. sink # None /\ \E e \in TurnEvent : Emit(sink.turn, e)
    BY <1>2, EventTypes DEF RouterStep, Notes, Shows, EndsTurn
  <2>2. sink.turn = u
    BY <1>2, <2>1 DEF Emit, OpenclawInv, OpenclawTypeOK, AdapterTypeOK
  <2> QED
    BY <2>1, <2>2 DEF OpenclawInv, SinkLive
<1> QED
  BY <1>1, <1>2

\* A step of the router that lets go of no approval the gateway waits on.
LEMMA AsksRouted ==
    ASSUME OpenclawInv, AskInv, RouterStep, QueueKnown', UNCHANGED gask,
           \A q \in approvals : gask[q].open => q \in approvals',
           \A t \in Turns, q \in Asks :
               Awaits(t, q)' => Awaits(t, q) \/ (q \in approvals' /\ gask[q].run # None)
    PROVE  AskInv'
<1>1. UNCHANGED <<asks, prompt>>
  BY DEF RouterStep
<1>2. OpenKnown' /\ AskedRunning'
  BY <1>1 DEF AskInv, OpenKnown, AskedRunning
<1>3. AwaitsKnown'
  BY DEF AskInv, AwaitsKnown
<1>4. Held'
  <2>1. SUFFICES ASSUME NEW t \in Turns, NEW q \in Asks, prompt[t] # "answered",
                        ~EndComing(t)', Awaits(t, q)', gask[q].open
                 PROVE  q \in approvals'
    BY <1>1 DEF Held
  <2>2. ~EndComing(t)
    BY <2>1, EndsStay
  <2>3. CASE Awaits(t, q)
    BY <2>1, <2>2, <2>3 DEF AskInv, Held
  <2> QED
    BY <2>1, <2>3
<1> QED
  BY <1>2, <1>3, <1>4 DEF AskInv

\* An event that waited in a queue, of one that lost its first.
LEMMA RouteQueue ==
    ASSUME OpenclawTypeOK, AskInv, NEW k \in Sockets, Route(k)
    PROVE  /\ QueueKnown'
           /\ Head(evq[k]) \in Event /\ GoodEvent(Head(evq[k]))
<1>1. /\ evq' = [evq EXCEPT ![k] = Tail(@)] /\ evq[k] # <<>> /\ UNCHANGED gask
      /\ evq \in [Sockets -> Seq(Event)]
  BY DEF Route, gatewayVars, OpenclawTypeOK
<1>2. /\ \A i \in DOMAIN Tail(evq[k]) : /\ i + 1 \in DOMAIN evq[k]
                                        /\ Tail(evq[k])[i] = evq[k][i + 1]
      /\ 1 \in DOMAIN evq[k] /\ Head(evq[k]) = evq[k][1]
  BY <1>1, TailParts
<1>3. QueueKnown'
  <2>1. SUFFICES ASSUME NEW j \in Sockets, NEW i \in DOMAIN evq'[j]
                 PROVE  GoodEvent(evq[j][i])'
    BY DEF QueueKnown
  <2>2. \E n \in DOMAIN evq[j] : evq'[j][i] = evq[j][n]
    BY <1>1, <1>2, <2>1
  <2> QED
    BY <1>1, <2>2 DEF AskInv, QueueKnown, GoodEvent
<1> QED
  BY <1>1, <1>2, <1>3 DEF AskInv, QueueKnown

\* An event that reaches the router.
LEMMA AsksRoute ==
    ASSUME OpenclawInv, AskInv, NEW k \in Sockets, Route(k)
    PROVE  AskInv'
<1> DEFINE e == Head(evq[k])
<1>1. OpenclawTypeOK /\ RouterStep /\ QueueKnown' /\ e \in Event /\ GoodEvent(e)
      /\ UNCHANGED <<gask, asks>>
  BY RouteStep, RouteQueue DEF OpenclawInv, Route, RoutingRest, gatewayVars
<1> HIDE DEF e
<1>2. CASE RouteAsk(e)
  <2>1. e.what = "ask" /\ e.q \in Asks /\ gask[e.q].run # None
    BY <1>1, <1>2, EventKinds DEF RouteAsk, GoodEvent
  <2>2. CASE UNCHANGED <<chan, approvals>>
    BY <1>1, <2>2, AsksRouted DEF Awaits
  <2>3. ASSUME NEW t \in Turns, approvals' = approvals \cup {e.q}, Emit(t, AskOf(e.q, e.q))
        PROVE  AskInv'
    <3>1. AskOf(e.q, e.q) \in TurnEvent /\ AskOf(e.q, e.q).q = e.q
      BY <2>1, EventTypes DEF AskOf
    <3>2. \A u \in Turns, q \in Asks : Awaits(u, q)' => Awaits(u, q) \/ q = e.q
      BY <1>1, <2>3, <3>1, EmitAwaits
    <3> QED
      BY <1>1, <2>1, <2>3, <3>2, AsksRouted
  <2>4. sink # None => sink.turn \in Turns
    BY <1>1 DEF OpenclawTypeOK, Sink
  <2> QED
    BY <1>2, <2>2, <2>3, <2>4 DEF RouteAsk
<1>3. CASE ~RouteAsk(e)
  <2>1. /\ RouteSays(e) \/ RouteStopped(e) \/ RouteFinal(e) \/ RouteRow(e) \/ RouteResolved(e)
        /\ e.what # "ask"
    BY <1>3 DEF Route, e, RouteSays, RouteStopped, RouteFinal, RouteRow, RouteResolved, Says,
                RouteAsk
  <2>2. \A q \in approvals : gask[q].open => q \in approvals'
    BY <1>1, <2>1 DEF RouteSays, RouteStopped, RouteFinal, RouteRow, RouteResolved, GoodEvent
  <2>3. \/ UNCHANGED chan
        \/ \E t \in Turns, x \in TurnEvent : x.what # "ask" /\ Emit(t, x)
    <3>1. sink # None => sink.turn \in Turns
      BY <1>1 DEF OpenclawTypeOK, Sink
    <3>2. /\ Text \in TurnEvent /\ Text.what # "ask"
          /\ \A o \in Outcome : EndOf(o) \in TurnEvent /\ EndOf(o).what # "ask"
          /\ \A q \in Asks : AskAnswered(q) \in TurnEvent /\ AskAnswered(q).what # "ask"
      BY EventTypes DEF Text, EndOf, AskAnswered, Outcome
    <3>3. CASE RouteSays(e)
      BY <3>1, <3>2, <3>3 DEF RouteSays, IsRun
    <3>4. CASE RouteStopped(e)
      BY <3>1, <3>2, <3>4 DEF RouteStopped, IsRun, StoppedAs, Outcome
    <3>5. CASE RouteFinal(e)
      <4>1. UNCHANGED chan \/ (IsRun(e.run) /\ Emit(sink.turn, EndOf("completed")))
        BY <3>5 DEF RouteFinal, Complete, Sink, OpenclawInv, OpenclawTypeOK, IsRun
      <4> QED
        BY <3>1, <3>2, <4>1 DEF IsRun, Outcome
    <3>6. CASE RouteRow(e)
      BY <3>1, <3>2, <3>6 DEF RouteRow, IsRun, Complete, Outcome
    <3>7. CASE RouteResolved(e)
      BY <1>1, <3>1, <3>2, <3>7, EventKinds DEF RouteResolved
    <3> QED
      BY <2>1, <3>3, <3>4, <3>5, <3>6, <3>7
  <2>4. \A u \in Turns, q \in Asks : Awaits(u, q)' => Awaits(u, q)
    <3>1. CASE UNCHANGED chan
      BY <1>1, <3>1 DEF Awaits
    <3>2. ASSUME NEW t \in Turns, NEW x \in TurnEvent, x.what # "ask", Emit(t, x)
          PROVE  \A u \in Turns, q \in Asks : Awaits(u, q)' => Awaits(u, q)
      BY <1>1, <3>2, EmitAwaits
    <3> QED
      BY <2>3, <3>1, <3>2
  <2> QED
    BY <1>1, <2>2, <2>4, AsksRouted
<1> QED
  BY <1>2, <1>3

\* The end of a socket gives up its approvals with its turn, as does the end
\* of the wait for a row with its turn alone.
LEMMA AsksOver ==
    ASSUME OpenclawInv, AskInv,
           \/ \E k \in Sockets : Disconnected(k)
           \/ \E r \in Turns : WaitOver(r)
    PROVE  AskInv'
<1>1. /\ OpenclawTypeOK /\ RouterStep
      /\ UNCHANGED <<gask, asks, evq, prompt>>
  BY DisconnectedStep, WaitOverStep
     DEF OpenclawInv, Disconnected, WaitOver, RoutingRest, socketVars, gatewayVars
<1>2. QueueKnown' /\ OpenKnown' /\ AskedRunning'
  BY <1>1 DEF AskInv, QueueKnown, OpenKnown, AskedRunning, GoodEvent
<1>3. \/ UNCHANGED chan
      \/ \E t \in Turns, x \in TurnEvent :
            sink # None /\ sink.turn = t /\ x.what \in Outcome /\ Emit(t, x)
  <2>1. sink # None => sink.turn \in Turns
    BY <1>1 DEF OpenclawTypeOK, Sink
  <2>2. \A o \in Outcome : EndOf(o) \in TurnEvent /\ EndOf(o).what = o
    BY EventTypes DEF EndOf
  <2> QED
    BY <2>1, <2>2 DEF Disconnected, WaitOver, Complete, Outcome
<1>4. \A u \in Turns, q \in Asks : Awaits(u, q)' => Awaits(u, q)
  <2>1. CASE UNCHANGED chan
    BY <1>1, <2>1 DEF Awaits
  <2>2. ASSUME NEW t \in Turns, NEW x \in TurnEvent, x.what \in Outcome, Emit(t, x)
        PROVE  \A u \in Turns, q \in Asks : Awaits(u, q)' => Awaits(u, q)
    BY <1>1, <2>2, EmitAwaits DEF Outcome
  <2> QED
    BY <1>3, <2>1, <2>2
<1>5. AwaitsKnown'
  BY <1>1, <1>4 DEF AskInv, AwaitsKnown
<1>6. CASE \E r \in Turns : WaitOver(r)
  BY <1>1, <1>2, <1>4, <1>6, AsksRouted DEF WaitOver
<1>7. CASE \E k \in Sockets : Disconnected(k)
  <2>1. SUFFICES ASSUME NEW t \in Turns, NEW q \in Asks, prompt[t] # "answered",
                        ~EndComing(t)', Awaits(t, q)
                 PROVE  FALSE
    BY <1>1, <1>2, <1>4, <1>5 DEF AskInv, Held
  <2>2. ~EndComing(t)
    BY <1>1, <2>1, EndsStay
  <2>3. chan[t] # <<>> \/ asks[t] # <<>>
    BY <2>1 DEF Awaits
  <2>4. call[t] \notin Unlisted /\ prompt[t] \in {"starting", "running"}
    BY <1>1, <2>1, <2>3
       DEF OpenclawInv, AskInv, AskedRunning, CallStarts, Unlisted, OpenclawTypeOK,
           AdapterTypeOK
  <2>5. sink # None /\ sink.turn = t
    BY <2>2, <2>4 DEF OpenclawInv, Listed
  <2>6. \E o \in Outcome : Emit(t, EndOf(o))
    BY <1>7, <2>5 DEF Disconnected, Complete, Outcome
  <2>7. \A o \in Outcome : EndOf(o) \in TurnEvent /\ EndOf(o).what = o
    BY EventTypes DEF EndOf
  <2> QED
    BY <1>1, <2>1, <2>6, <2>7, EmitAppends
<1> QED
  BY <1>6, <1>7

\* A step of the host or of the adapter moves a request from the turn to the
\* host, or ends it.
LEMMA AsksAdapted ==
    ASSUME OpenclawInv, AskInv, AdapterNext, UNCHANGED <<approvals, gask, evq>>
    PROVE  AskInv'
<1>1. /\ chan \in [Turns -> Seq(TurnEvent)] /\ asks \in [Turns -> Seq(PendingAsk)]
      /\ prompt \in [Turns -> {"new", "starting", "running", "answered"}]
  BY DEF OpenclawInv, OpenclawTypeOK, AdapterTypeOK
<1>2. QueueKnown' /\ OpenKnown'
  BY DEF AskInv, QueueKnown, OpenKnown, GoodEvent
<1>3. ASSUME NEW t \in Turns, Prompt(t) \/ Cancel(t)
             \/ \E q \in Asks, selected \in BOOLEAN : HostAnswers(t, q, selected)
      PROVE  AskInv'
  BY <1>1, <1>3, AsksQuiet DEF Prompt, Cancel, HostAnswers
<1>4. ASSUME \A u \in Turns, q \in Asks : Awaits(u, q)' => Awaits(u, q),
             \A u \in Turns : prompt'[u] # "answered" =>
                 prompt[u] # "answered" /\ (~EndComing(u)' => ~EndComing(u)),
             \A u \in Turns : asks'[u] # <<>> => prompt'[u] = "running"
      PROVE  AskInv'
  <2>1. AwaitsKnown'
    BY <1>4 DEF AskInv, AwaitsKnown
  <2>2. Held'
    BY <1>4 DEF AskInv, Held
  <2>3. AskedRunning'
    BY <1>4 DEF AskedRunning
  <2> QED
    BY <1>2, <2>1, <2>2, <2>3 DEF AskInv
<1>5. ASSUME NEW t \in Turns, Running(t), Take(t), UNCHANGED prompt,
             Head(chan[t]).what \notin Outcome,
             \A u \in Turns \ {t} : asks'[u] = asks[u],
             \A i \in DOMAIN asks'[t] : Awaits(t, asks'[t][i].q)
      PROVE  AskInv'
  <2>1. /\ \A u \in Turns \ {t} : chan'[u] = chan[u]
        /\ chan'[t] = Tail(chan[t])
    BY <1>1, <1>5 DEF Take
  <2>2. /\ \A i \in DOMAIN Tail(chan[t]) : /\ i + 1 \in DOMAIN chan[t]
                                          /\ Tail(chan[t])[i] = chan[t][i + 1]
        /\ 1 \in DOMAIN chan[t] /\ Head(chan[t]) = chan[t][1]
    BY <1>1, <1>5, TailParts DEF Running
  <2>3. \A u \in Turns, q \in Asks : Awaits(u, q)' => Awaits(u, q)
    <3>1. SUFFICES ASSUME NEW u \in Turns, NEW q \in Asks, Awaits(u, q)'
                   PROVE  Awaits(u, q)
      OBVIOUS
    <3>2. CASE u # t
      BY <1>5, <2>1, <3>1, <3>2 DEF Awaits
    <3>3. CASE u = t
      <4>1. CASE \E i \in DOMAIN asks'[t] : asks'[t][i].q = q
        BY <1>5, <4>1, <3>3
      <4>2. ASSUME NEW i \in DOMAIN Tail(chan[t]), Tail(chan[t])[i].what = "ask",
                   Tail(chan[t])[i].q = q
            PROVE  Awaits(t, q)
        BY <2>2, <4>2 DEF Awaits
      <4> QED
        BY <2>1, <3>1, <3>3, <4>1, <4>2 DEF Awaits
    <3> QED
      BY <3>2, <3>3
  <2>4. \A u \in Turns : ~EndComing(u)' => ~EndComing(u)
    <3>1. SUFFICES ASSUME NEW u \in Turns, EndComing(u) PROVE EndComing(u)'
      OBVIOUS
    <3>2. CASE u # t
      BY <2>1, <3>1, <3>2 DEF EndComing
    <3>3. CASE u = t
      <4>1. PICK i \in DOMAIN chan[t] : chan[t][i].what \in Outcome
        BY <3>1, <3>3 DEF EndComing
      <4>2. Len(chan[t]) \in Nat \ {0} /\ Len(Tail(chan[t])) = Len(chan[t]) - 1
            /\ Tail(chan[t]) \in Seq(TurnEvent) /\ DOMAIN chan[t] = 1..Len(chan[t])
        BY <1>1, <1>5, HeadTailProperties DEF Running
      <4>3. i # 1
        BY <1>5, <2>2, <4>1
      <4>4. i - 1 \in DOMAIN Tail(chan[t]) /\ (i - 1) + 1 = i
        BY <4>1, <4>2, <4>3
      <4>5. Tail(chan[t])[i - 1].what \in Outcome
        BY <2>2, <4>1, <4>4
      <4> QED
        BY <2>1, <3>3, <4>4, <4>5 DEF EndComing
    <3> QED
      BY <3>2, <3>3
  <2>5. \A u \in Turns : asks'[u] # <<>> => prompt'[u] = "running"
    BY <1>5 DEF AskInv, AskedRunning, Running
  <2> QED
    BY <1>4, <1>5, <2>3, <2>4, <2>5
<1>6. ASSUME NEW t \in Turns, asks[t] \in Seq(PendingAsk), NEW i \in DOMAIN asks[t],
             asks' = [asks EXCEPT ![t] = RemoveAt(@, i)]
      PROVE  /\ \A u \in Turns \ {t} : asks'[u] = asks[u]
             /\ \A j \in DOMAIN asks'[t] : Awaits(t, asks'[t][j].q)
  <2>1. asks'[t] = RemoveAt(asks[t], i) /\ \A u \in Turns \ {t} : asks'[u] = asks[u]
    BY <1>1, <1>6
  <2>2. ASSUME NEW j \in DOMAIN asks'[t] PROVE Awaits(t, asks'[t][j].q)
    <3>1. \E n \in DOMAIN asks[t] : RemoveAt(asks[t], i)[j] = asks[t][n]
      BY <1>6, <2>1, <2>2, RemoveAtParts
    <3> QED
      BY <2>1, <3>1 DEF Awaits
  <2> QED
    BY <2>1, <2>2
<1>7. \A t \in Turns : \A i \in DOMAIN asks[t] : Awaits(t, asks[t][i].q)
  BY DEF Awaits
<1>8. ASSUME NEW t \in Turns, RelayText(t) \/ RelayAnswered(t)
      PROVE  AskInv'
  <2>1. Running(t) /\ Take(t) /\ UNCHANGED prompt /\ Head(chan[t]).what \notin Outcome
    BY <1>8 DEF RelayText, RelayAnswered, Outcome
  <2>2. CASE UNCHANGED asks
    BY <1>5, <1>7, <2>1, <2>2
  <2>3. ASSUME NEW i \in DOMAIN asks[t], asks' = [asks EXCEPT ![t] = RemoveAt(@, i)]
        PROVE  AskInv'
    <3>1. asks[t] \in Seq(PendingAsk)
      BY <1>1
    <3> QED
      BY <1>5, <1>6, <2>1, <2>3, <3>1
  <2> QED
    BY <1>8, <2>2, <2>3 DEF RelayText, RelayAnswered, Matching
<1>9. ASSUME NEW t \in Turns, TakeReply(t)
      PROVE  AskInv'
  <2>1. UNCHANGED <<chan, prompt>> /\ prompt[t] = "running"
    BY <1>9 DEF TakeReply
  <2>2. CASE UNCHANGED asks
    BY <1>9, <2>1, <2>2, AsksQuiet
  <2>3. ASSUME NEW i \in DOMAIN asks[t], asks' = [asks EXCEPT ![t] = RemoveAt(@, i)]
        PROVE  AskInv'
    <3>1. asks[t] \in Seq(PendingAsk)
      BY <1>1
    <3>2. /\ \A u \in Turns \ {t} : asks'[u] = asks[u]
          /\ \A j \in DOMAIN asks'[t] : Awaits(t, asks'[t][j].q)
      BY <1>6, <2>3, <3>1
    <3>3. \A u \in Turns, q \in Asks : Awaits(u, q)' => Awaits(u, q)
      BY <2>1, <3>2 DEF Awaits
    <3>4. \A u \in Turns : prompt'[u] # "answered" =>
                 prompt[u] # "answered" /\ (~EndComing(u)' => ~EndComing(u))
      BY <2>1 DEF EndComing
    <3>5. \A u \in Turns : asks'[u] # <<>> => prompt'[u] = "running"
      BY <2>1, <3>2 DEF AskInv, AskedRunning
    <3> QED
      BY <1>4, <3>3, <3>4, <3>5
  <2> QED
    BY <1>9, <2>2, <2>3 DEF TakeReply
<1>10. ASSUME NEW t \in Turns, RelayAsk(t)
       PROVE  AskInv'
  <2> DEFINE h == Head(chan[t])
             a == [q |-> h.q, id |-> h.id]
  <2>1. /\ Running(t) /\ Take(t) /\ UNCHANGED prompt /\ h.what = "ask"
        /\ asks' = [asks EXCEPT ![t] = Append(@, a)]
    BY <1>10 DEF RelayAsk
  <2>2. 1 \in DOMAIN chan[t] /\ h = chan[t][1] /\ h \in TurnEvent
    BY <1>1, <2>1, TailParts DEF Running
  <2>3. a \in PendingAsk /\ a.q = h.q
    BY <2>1, <2>2 DEF TurnEvent, PendingAsk, Outcome
  <2>4. Awaits(t, a.q)
    BY <2>1, <2>2 DEF Awaits
  <2> HIDE DEF a, h
  <2>5. asks[t] \in Seq(PendingAsk) /\ asks'[t] = Append(asks[t], a)
        /\ \A u \in Turns \ {t} : asks'[u] = asks[u]
    BY <1>1, <2>1
  <2>6. ASSUME NEW i \in DOMAIN asks'[t] PROVE Awaits(t, asks'[t][i].q)
    <3>1. asks'[t][i] = a \/ (i \in DOMAIN asks[t] /\ asks'[t][i] = asks[t][i])
      BY <2>3, <2>5, <2>6, AppendParts
    <3> QED
      BY <1>7, <2>4, <3>1
  <2>7. Head(chan[t]).what \notin Outcome
    BY <2>1 DEF h, Outcome
  <2> QED
    BY <1>5, <2>1, <2>5, <2>6, <2>7
<1>11. ASSUME NEW t \in Turns, RelayEnd(t)
       PROVE  AskInv'
  <2>1. /\ chan'[t] = <<>> /\ asks'[t] = <<>> /\ prompt'[t] = "answered"
        /\ \A u \in Turns \ {t} : /\ chan'[u] = chan[u] /\ asks'[u] = asks[u]
                                  /\ prompt'[u] = prompt[u]
    BY <1>1, <1>11 DEF RelayEnd
  <2>2. \A u \in Turns, q \in Asks : Awaits(u, q)' => Awaits(u, q)
    BY <2>1 DEF Awaits
  <2>3. \A u \in Turns : prompt'[u] # "answered" =>
                 prompt[u] # "answered" /\ (~EndComing(u)' => ~EndComing(u))
    BY <2>1 DEF EndComing
  <2>4. \A u \in Turns : asks'[u] # <<>> => prompt'[u] = "running"
    BY <2>1 DEF AskInv, AskedRunning
  <2> QED
    BY <1>4, <2>2, <2>3, <2>4
<1> QED
  BY <1>3, <1>8, <1>9, <1>10, <1>11 DEF AdapterNext, RelayEvent

\* The opening of a socket moves no request, and a call that fails is of a
\* prompt that is starting.
LEMMA AsksConnect ==
    ASSUME OpenclawInv, AskInv, NEW c \in Callers, Connect(c)
    PROVE  AskInv'
<1>1. UNCHANGED <<chan, asks, approvals, gask, evq>>
  BY DEF Connect, UseSocket, TakeLock, DeviceProof, Dial, Prove, Hello, NoHello,
         NotConnected, Reach, Fail, Refuse, Refused, OpenRest, adapterVars, socketVars,
         routerVars, gatewayVars
<1>2. \/ UNCHANGED prompt
      \/ \E at \in {"key", "dial", "challenge", "hello"} : Opens(c, at) /\ Fail(c)
  BY DEF Connect, UseSocket, TakeLock, DeviceProof, Dial, Prove, Hello, NoHello,
         NotConnected, Reach, adapterVars
<1>3. ASSUME NEW at \in {"key", "dial", "challenge", "hello"}, Opens(c, at), Fail(c)
      PROVE  \A t \in Turns : /\ prompt[t] = "running" => prompt'[t] = "running"
                              /\ prompt[t] = "answered" => prompt'[t] = "answered"
  <2>1. opening # None /\ opening.by = c
    BY <1>3, NoneIsAbsent DEF Opens, Opening
  <2>2. c \in Turns => prompt[c] = "starting"
    BY <2>1 DEF OpenclawInv, OpeningOK
  <2> QED
    BY <1>3, <2>2 DEF Fail, Refuse, Refused, adapterVars, OpenclawInv, OpenclawTypeOK,
                      AdapterTypeOK
<1> QED
  BY <1>1, <1>2, <1>3, AsksQuiet

\* Nor does the call of a turn, or of a reader.
LEMMA AsksCalled ==
    ASSUME OpenclawInv, AskInv, NEW t \in Turns, OpenclawTask(t)
    PROVE  AskInv'
<1>1. CASE Connect(t)
  BY <1>1, AsksConnect DEF Callers
<1>2. CASE ~Connect(t)
  <2>1. UNCHANGED <<chan, asks, approvals, gask, evq>>
    BY <1>2 DEF OpenclawTask, Subscribe, LookClosed, ListRequest, GiveUpWaiting, NotSent,
                LookEnded, SetActive, Acked, Refuse, Refused, Started, TurnRest,
                adapterVars, socketVars, routerVars, gatewayVars
  <2>2. call[t] \notin {"none", "done"}
    BY <1>2 DEF OpenclawTask, Subscribe, LookClosed, ListRequest, GiveUpWaiting, NotSent,
                LookEnded, SetActive, Acked
  <2>3. prompt[t] = "starting"
    BY <2>2 DEF OpenclawInv, CallStarts
  <2>4. \A u \in Turns \ {t} : prompt'[u] = prompt[u]
    BY <1>2 DEF OpenclawTask, Subscribe, LookClosed, ListRequest, GiveUpWaiting, NotSent,
                LookEnded, SetActive, Acked, Refuse, Refused, Started, adapterVars,
                OpenclawInv, OpenclawTypeOK, AdapterTypeOK
  <2> QED
    BY <2>1, <2>3, <2>4, AsksQuiet
<1> QED
  BY <1>1, <1>2

\* A control that reaches the gateway.
LEMMA AsksSteered ==
    ASSUME OpenclawInv, AskInv, NEW t \in Turns, Steer(t)
    PROVE  AskInv'
<1>1. UNCHANGED <<chan, asks, prompt, approvals>> /\ OpenclawTypeOK
  BY DEF Steer, GatewayRest, routerVars, OpenclawInv
<1>2. CASE UNCHANGED <<openVars, socketVars, grun, gask>>
  BY <1>1, <1>2, AsksQuiet DEF socketVars
<1>3. ASSUME NEW r, Abort(t, r) PROVE AskInv'
  <2>1. r \in Runs /\ UNCHANGED gask
    BY <1>3 DEF Abort, Going
  <2>2. /\ Ev("aborted", r) \in Event /\ Ev("aborted", r).what = "aborted"
        /\ Read(Ev("aborted", r))
    BY <1>3, <2>1, GatewayEventTypes DEF Abort, Tell, Terminal, Ev
  <2>3. GoodEvent(Ev("aborted", r))'
    BY <2>2 DEF GoodEvent, Ev
  <2>4. GaskGrows /\ OpenKnown'
    BY <2>1 DEF GaskGrows, AskInv, OpenKnown
  <2> QED
    BY <1>1, <2>2, <2>3, <2>4, AsksTold
<1>4. ASSUME NEW q, Decide(t, q) PROVE AskInv'
  BY <1>1, <1>4, AsksResolved DEF Decide, OpenclawTypeOK
<1> QED
  BY <1>2, <1>3, <1>4 DEF Steer

\* Every step keeps it.
LEMMA AskStep ==
    ASSUME OpenclawInv, AskInv, [OpenclawNext]_openclawVars
    PROVE  AskInv'
<1>1. OpenclawTypeOK
  BY DEF OpenclawInv
<1>2. CASE AdapterNext /\ UNCHANGED <<openVars, socketVars, turnVars, routerVars, gatewayVars>>
  BY <1>2, AsksAdapted DEF socketVars, routerVars, gatewayVars
<1>3. ASSUME NEW t \in Turns, Gateway(t) PROVE AskInv'
  BY <1>1, <1>3, AsksAsked, AsksUnasked DEF Gateway
<1>4. ASSUME NEW h \in Readers, ReadTask(h) PROVE AskInv'
  <2>1. CASE Connect(h)
    BY <2>1, AsksConnect DEF Callers
  <2>2. CASE ReadHistory(h) \/ AdoptRun(h)
    BY <2>2, AsksQuiet
       DEF ReadHistory, AdoptRun, adapterVars, socketVars, routerVars, gatewayVars
  <2> QED
    BY <1>4, <2>1, <2>2 DEF ReadTask
<1>5. ASSUME NEW k \in Sockets, OpenclawSocket(k) PROVE AskInv'
  <2>1. CASE FailPending(k) \/ MarkClosed(k)
    BY <2>1, AsksQuiet DEF FailPending, MarkClosed, adapterVars, routerVars, gatewayVars
  <2> QED
    BY <1>5, <2>1, AsksRoute, AsksOver DEF OpenclawSocket
<1>6. ASSUME NEW q \in Asks, ResolvedElsewhere(q) PROVE AskInv'
  BY <1>1, <1>6, AsksResolved DEF ResolvedElsewhere, adapterVars, routerVars
<1>7. CASE UNCHANGED openclawVars
  BY <1>7, AsksQuiet DEF openclawVars, adapterVars, socketVars, routerVars, gatewayVars
<1> QED
  BY <1>2, <1>3, <1>4, <1>5, <1>6, <1>7, AsksCalled, AsksSteered, AsksOver DEF OpenclawNext

\* A request for permission the adapter shows the host, of a turn that goes
\* on, and that the gateway still waits on, is one an answer is forwarded for.
THEOREM AnswersForwarded == OpenclawSpec => []AskForwarded
<1>1. OpenclawInv /\ AskInv => AskForwarded
  <2> SUFFICES ASSUME OpenclawInv, AskInv, NEW t \in Turns, NEW i \in DOMAIN asks[t],
                      gask[asks[t][i].q].open, ~EndComing(t)
               PROVE  asks[t][i].q \in approvals
    BY DEF AskForwarded
  <2>1. asks[t] \in Seq(PendingAsk)
    BY DEF OpenclawInv, OpenclawTypeOK, AdapterTypeOK
  <2>2. asks[t][i] \in PendingAsk /\ asks[t] # <<>>
    BY <2>1
  <2>3. prompt[t] = "running" /\ Awaits(t, asks[t][i].q)
    BY <2>2 DEF AskInv, AskedRunning, Awaits
  <2>4. asks[t][i].q \in Asks
    BY <2>2 DEF PendingAsk
  <2> QED
    BY <2>3, <2>4 DEF AskInv, Held
<1>2. OpenclawInv /\ AskInv /\ [OpenclawNext]_openclawVars => AskInv'
  BY AskStep
<1> QED
  BY <1>1, <1>2, AskInit, OpenclawKeeps, PTL DEF OpenclawSpec
=============================================================================
