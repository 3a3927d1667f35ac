------------------------- MODULE HermesServiceProofs -------------------------
(***************************************************************************)
(* What a turn on Hermes promises, for any turns, requests and limits:     *)
(* every end a host is told is the run's own or a failure, what it shows   *)
(* is whole and in order, every answer decides its own request, and the    *)
(* turn implements BackendTurn.                                            *)
(*                                                                         *)
(* And what the bot's service and the commands keep, for any agents and    *)
(* any commands at any time: once the bot's link is gone, whoever unlinked *)
(* it and whatever ran at once, no install's config holds the link's       *)
(* settings but those an unlinking need not know of.  Whoever unlinks      *)
(* gives back what its own view of the link lists: a command the copy it   *)
(* read, the service the link it holds in memory.  The invariant says that *)
(* each of those views lists every install that matters.                   *)
(***************************************************************************)
EXTENDS Hermes, Service, SequenceTheorems, WellFoundedInduction, TLAPS

-----------------------------------------------------------------------------
(* The adapter *)

\* A sequence without one of its elements is a sequence of the same kind.
LEMMA RemoveAtType ==
    ASSUME NEW S, NEW s \in Seq(S), NEW i \in DOMAIN s
    PROVE  RemoveAt(s, i) \in Seq(S)
<1>1. SubSeq(s, 1, i - 1) \in Seq(S)
  BY SubSeqProperties
<1>2. SubSeq(s, i + 1, Len(s)) \in Seq(S)
  BY SubSeqProperties
<1> QED
  BY <1>1, <1>2 DEF RemoveAt

\* What is queued for the adapter, and what it queues, is of its kind.
LEMMA EventTypes ==
    /\ \A q \in Asks, id \in Asks \cup {None} : AskOf(q, id) \in TurnEvent
    /\ \A id \in Asks \cup {None} : AskAnswered(id) \in TurnEvent
    /\ \A outcome \in Outcome : EndOf(outcome) \in TurnEvent
    /\ Text \in TurnEvent
    /\ CancelControl \in Control
    /\ \A q \in Asks, id \in Asks \cup {None} : AnswerControl(q, id) \in Control
BY DEF AskOf, AskAnswered, EndOf, Text, TurnEvent, CancelControl, AnswerControl,
       Control, Outcome

\* A step of the host or the adapter keeps the adapter's variables of their kind.
LEMMA AdapterTypeStep ==
    ASSUME AdapterTypeOK, AdapterNext
    PROVE  AdapterTypeOK'
<1> USE EventTypes DEF AdapterTypeOK
<1> PICK t \in Turns :
        \/ Prompt(t)
        \/ Cancel(t)
        \/ \E q \in Asks, selected \in BOOLEAN : HostAnswers(t, q, selected)
        \/ RelayEvent(t)
        \/ TakeReply(t)
  BY DEF AdapterNext
<1>1. CASE Prompt(t)
  BY <1>1 DEF Prompt
<1>2. CASE Cancel(t)
  BY <1>2 DEF Cancel
<1>3. ASSUME NEW q \in Asks, NEW selected \in BOOLEAN, HostAnswers(t, q, selected)
      PROVE  AdapterTypeOK'
  BY <1>3 DEF HostAnswers, Reply
<1>4. CASE RelayEvent(t)
  <2>1. Tail(chan[t]) \in Seq(TurnEvent) /\ Head(chan[t]) \in TurnEvent
    BY <1>4 DEF RelayEvent, RelayText, RelayAsk, RelayAnswered, RelayEnd, Running
  <2>2. CASE RelayText(t)
    BY <2>1, <2>2 DEF RelayText, Take
  <2>3. CASE RelayAsk(t)
    <3>1. [q |-> Head(chan[t]).q, id |-> Head(chan[t]).id] \in PendingAsk
      BY <2>1, <2>3 DEF RelayAsk, PendingAsk, TurnEvent, Outcome
    <3> QED
      BY <2>1, <2>3, <3>1 DEF RelayAsk, Take
  <2>4. CASE RelayAnswered(t)
    <3>1. \A i \in DOMAIN asks[t] : RemoveAt(asks[t], i) \in Seq(PendingAsk)
      BY RemoveAtType
    <3>2. asks' \in [Turns -> Seq(PendingAsk)]
      BY <2>4, <3>1 DEF RelayAnswered, Matching
    <3> QED
      BY <2>1, <2>4, <3>2 DEF RelayAnswered, Take
  <2>5. CASE RelayEnd(t)
    BY <2>1, <2>5 DEF RelayEnd, Reply
  <2> QED
    BY <1>4, <2>2, <2>3, <2>4, <2>5 DEF RelayEvent
<1>5. CASE TakeReply(t)
  <2> PICK r \in replies :
        /\ r.turn = t
        /\ replies' = replies \ {r}
        /\ LET mine == {i \in DOMAIN asks[t] : asks[t][i].q = r.q}
           IN  \/ \E i \in mine :
                    /\ asks' = [asks EXCEPT ![t] = RemoveAt(@, i)]
                    /\ control' =
                         IF r.selected
                         THEN [control EXCEPT ![t] =
                                   Append(@, AnswerControl(r.q, asks[t][i].id))]
                         ELSE control
               \/ mine = {} /\ UNCHANGED <<asks, control>>
    BY <1>5 DEF TakeReply
  <2>1. r \in Reply
    OBVIOUS
  <2>2. \A i \in DOMAIN asks[t] :
            /\ RemoveAt(asks[t], i) \in Seq(PendingAsk)
            /\ AnswerControl(r.q, asks[t][i].id) \in Control
    <3> SUFFICES ASSUME NEW i \in DOMAIN asks[t]
                 PROVE  /\ RemoveAt(asks[t], i) \in Seq(PendingAsk)
                        /\ AnswerControl(r.q, asks[t][i].id) \in Control
      OBVIOUS
    <3>1. asks[t][i] \in PendingAsk
      OBVIOUS
    <3> QED
      BY <2>1, <3>1, RemoveAtType DEF PendingAsk, Reply
  <2>3. asks' \in [Turns -> Seq(PendingAsk)]
    BY <2>2
  <2>4. control' \in [Turns -> Seq(Control)]
    <3>1. ASSUME NEW i \in DOMAIN asks[t],
                 control' = IF r.selected
                            THEN [control EXCEPT ![t] =
                                      Append(@, AnswerControl(r.q, asks[t][i].id))]
                            ELSE control
          PROVE  control' \in [Turns -> Seq(Control)]
      <4>1. Append(control[t], AnswerControl(r.q, asks[t][i].id)) \in Seq(Control)
        BY <2>2
      <4> QED
        BY <3>1, <4>1
    <3> QED
      BY <3>1
  <2> QED
    BY <1>5, <2>3, <2>4 DEF TakeReply
<1> QED
  BY <1>1, <1>2, <1>3, <1>4, <1>5

\* The runtime's side of an adapter step: what it emits is of its kind.
LEMMA EmitType ==
    ASSUME AdapterTypeOK, NEW t \in Turns, NEW e \in TurnEvent, Emit(t, e)
    PROVE  chan' \in [Turns -> Seq(TurnEvent)]
BY DEF AdapterTypeOK, Emit

-----------------------------------------------------------------------------
(* Types *)

\* What the server notes of a run is of its kind.
LEMMA EntryTypes ==
    /\ Entry("text", None) \in LogEntry
    /\ \A q \in Asks : Entry("ask", q) \in LogEntry /\ Entry("answered", q) \in LogEntry
    /\ \A end \in Ended : Entry(end, None) \in LogEntry
BY DEF Entry, LogEntry

\* A step of the server keeps its variables of their kind.
LEMMA HermesServerTypes ==
    ASSUME HermesTypeOK, NEW t \in Turns, HermesServer(t)
    PROVE  HermesTypeOK'
<1> USE EntryTypes DEF HermesTypeOK, adapterVars, streamVars
<1>1. UNCHANGED adapterVars => AdapterTypeOK'
  BY DEF AdapterTypeOK
<1>2. \A e \in LogEntry : [log EXCEPT ![t] = Append(@, e)] \in [Turns -> Seq(LogEntry)]
  OBVIOUS
<1>3. CASE ServerText(t)
  BY <1>1, <1>2, <1>3 DEF ServerText
<1>4. ASSUME NEW q \in Asks, ServerAsks(t, q) PROVE HermesTypeOK'
  BY <1>1, <1>2, <1>4 DEF ServerAsks
<1>5. CASE DecidedElsewhere(t)
  BY <1>1, <1>2, <1>5 DEF DecidedElsewhere, Decide
<1>6. ASSUME NEW outcome \in Ended, ServerEnds(t, outcome) PROVE HermesTypeOK'
  BY <1>1, <1>2, <1>6 DEF ServerEnds, RunState
<1> QED
  BY <1>3, <1>4, <1>5, <1>6 DEF HermesServer

\* A step of the link's tasks keeps every variable of its kind.
LEMMA HermesTaskTypes ==
    ASSUME HermesTypeOK, NEW t \in Turns, HermesTask(t)
    PROVE  HermesTypeOK'
<1> USE EventTypes, HermesBounds
    DEF HermesTypeOK, adapterVars, serverVars, streamVars, Goto
<1>1. Refuse(t) => AdapterTypeOK' /\ call'[t] = "done"
  BY DEF Refuse, Refused, AdapterTypeOK, Outcome
<1>2. UNCHANGED adapterVars => AdapterTypeOK'
  BY DEF AdapterTypeOK
<1>3. CASE ReadVersion(t)
  BY <1>2, <1>3 DEF ReadVersion
<1>4. CASE ReadHistory(t)
  BY <1>2, <1>4 DEF ReadHistory
<1>5. CASE NotStarted(t)
  BY <1>1, <1>5 DEF NotStarted, Refuse
<1>6. CASE StartRun(t)
  BY <1>1, <1>2, <1>6 DEF StartRun, Refuse, RunState
<1>7. CASE OpenEvents(t)
  <2>1. AdapterTypeOK'
    BY <1>1, <1>7 DEF OpenEvents, Refuse, Started, AdapterTypeOK
  <2>2. call' \in [Turns -> {"none", "history", "start", "events", "stream", "poll", "done"}]
    BY <1>7 DEF OpenEvents, Refuse
  <2>3. pos' \in [Turns -> Nat]
    <3>1. pos' = [pos EXCEPT ![t] = 1] \/ pos' = pos
      BY <1>7 DEF OpenEvents
    <3>2. pos \in [Turns -> Nat]
      OBVIOUS
    <3> HIDE DEF HermesTypeOK
    <3> QED
      BY <3>1, <3>2
  <2> QED
    BY <1>7, <2>1, <2>2, <2>3 DEF OpenEvents
<1>8. CASE Deliver(t)
  <2>1. pos[t] \in Nat /\ pos[t] + 1 \in Nat
    OBVIOUS
  <2>2. CASE Repeated(t, pos[t])
    BY <1>8, <2>1, <2>2 DEF Deliver, AdapterTypeOK
  <2>3. CASE ~Repeated(t, pos[t])
    <3>1. log[t][pos[t]] \in LogEntry
      BY <1>8 DEF Deliver
    <3>2. EventOf(log[t][pos[t]]) \in TurnEvent
      BY <3>1 DEF EventOf, LogEntry, IdOf, OutcomeOf, Outcome, Ended
    <3>3. chan' \in [Turns -> Seq(TurnEvent)]
      BY <1>8, <2>3, <3>2, EmitType DEF Deliver
    <3>4. AdapterTypeOK'
      BY <1>8, <3>3 DEF Deliver, AdapterTypeOK
    <3>5. HermesTypeOK'
      <4>1. /\ shown' = [shown EXCEPT ![t] = Append(@, pos[t])]
            /\ last' = [last EXCEPT ![t] = pos[t]]
            /\ pos' = [pos EXCEPT ![t] = @ + 1]
        BY <1>8, <2>3 DEF Deliver
      <4>3. Append(shown[t], pos[t]) \in Seq(Nat)
        BY <2>1
      <4>2. call' \in [Turns -> {"none", "history", "start", "events", "stream", "poll", "done"}]
        BY <1>8, <2>3 DEF Deliver
      <4> QED
        BY <1>8, <2>1, <3>4, <4>1, <4>2, <4>3 DEF Deliver
    <3> QED
      BY <3>5
  <2> QED
    BY <2>2, <2>3
<1>9. CASE Break(t)
  BY <1>2, <1>9 DEF Break
<1>10. CASE Reopen(t)
  <2>1. call' \in [Turns -> {"none", "history", "start", "events", "stream", "poll", "done"}]
    BY <1>10 DEF Reopen
  <2>2. ResumeAt(t) \subseteq Nat
    <3>1. last[t] \in Nat /\ Len(log[t]) \in Nat
      OBVIOUS
    <3> QED
      BY <3>1 DEF ResumeAt
  <2>3. pos' \in [Turns -> Nat] /\ lossy' \subseteq Turns
    BY <1>10, <2>2 DEF Reopen
  <2>4. reconnects' \in [Turns -> Nat]
    BY <1>10 DEF Reopen
  <2> QED
    BY <1>2, <1>10, <2>1, <2>3, <2>4 DEF Reopen
<1>11. CASE CloseStream(t)
  BY <1>2, <1>11 DEF CloseStream, GiveUp
<1>12. CASE BadFrame(t)
  BY <1>2, <1>12 DEF BadFrame, GiveUp
<1>13. CASE Poll(t)
  <2>1. PICK outcome \in Polled(t) : Emit(t, EndOf(outcome))
    BY <1>13 DEF Poll
  <2>2. outcome \in Outcome
    BY DEF Polled, OutcomeOf, Outcome, Ended
  <2>3. chan' \in [Turns -> Seq(TurnEvent)]
    BY <2>1, <2>2, EmitType
  <2>4. AdapterTypeOK'
    BY <1>13, <2>3 DEF Poll, AdapterTypeOK
  <2> QED
    BY <1>13, <2>4 DEF Poll
<1>14. CASE Steer(t)
  <2>1. Head(control[t]) \in Control /\ Tail(control[t]) \in Seq(Control)
    BY <1>14 DEF Steer, StopRun, AnswerAsk, AdapterTypeOK
  <2>2. AdapterTypeOK'
    BY <1>14, <2>1 DEF Steer, StopRun, AnswerAsk, AdapterTypeOK
  <2>3. CASE UNCHANGED <<run, log, waits, decided>>
    BY <1>14, <2>2, <2>3 DEF Steer, StopRun, AnswerAsk
  <2>4. CASE /\ run' = [run EXCEPT ![t] = "stopping"]
             /\ UNCHANGED <<log, waits, decided>>
    BY <1>14, <2>2, <2>4 DEF Steer, StopRun, AnswerAsk, RunState
  <2>5. CASE /\ Head(control[t]).what = "answer"
             /\ Targets(t, Head(control[t]).id) # {}
             /\ Decide(t, Head(control[t]).q)
             /\ UNCHANGED run
    <3>1. waits[t] \in Asks /\ Head(control[t]).q \in Asks
      BY <2>1, <2>5 DEF Targets, Control, CancelControl
    <3> QED
      BY <1>14, <2>2, <2>5, <3>1 DEF Steer, StopRun, AnswerAsk, Decide, Entry, LogEntry
  <2> QED
    BY <1>14, <2>3, <2>4, <2>5 DEF Steer, StopRun, AnswerAsk
<1> QED
  BY <1>3, <1>4, <1>5, <1>6, <1>7, <1>8, <1>9, <1>10, <1>11, <1>12, <1>13, <1>14
     DEF HermesTask

\* Any step keeps every variable of its kind.
LEMMA HermesTypeStep ==
    ASSUME HermesTypeOK, [HermesNext]_hermesVars
    PROVE  HermesTypeOK'
<1>1. CASE AdapterNext /\ UNCHANGED <<serverVars, call, streamVars>>
  BY <1>1, AdapterTypeStep DEF HermesTypeOK, serverVars, streamVars
<1>2. CASE \E t \in Turns : HermesTask(t) \/ HermesServer(t)
  BY <1>2, HermesTaskTypes, HermesServerTypes
<1>3. CASE UNCHANGED hermesVars
  BY <1>3 DEF hermesVars, adapterVars, serverVars, streamVars, HermesTypeOK, AdapterTypeOK
<1> QED
  BY <1>1, <1>2, <1>3 DEF HermesNext

\* Every variable of a turn on Hermes, and of its server, holds values of its
\* kind.
THEOREM HermesTypes == HermesSpec => []HermesTypeOK
<1>1. HermesInit => HermesTypeOK
  BY DEF HermesInit, AdapterInit, HermesTypeOK, AdapterTypeOK, RunState
<1> QED
  BY <1>1, HermesTypeStep, PTL DEF HermesSpec

-----------------------------------------------------------------------------
(* The inductive invariant *)

\* A run is not started before its request is sent.
Unstarted == \A t \in Turns : call[t] \in {"none", "history", "start"} => run[t] = "none"

\* The link's requests for a turn belong to a prompt that is starting.
CallStarts ==
    \A t \in Turns :
        /\ call[t] = "none" => prompt[t] \in {"new", "starting"}
        /\ call[t] \in {"history", "start", "events"} => prompt[t] = "starting"

\* The host has its one answer exactly when its prompt is answered.
ToldOnce == \A t \in Turns : told[t] = None <=> prompt[t] # "answered"

\* An end in the server's log is the run's.
LogTrue ==
    \A t \in Turns : \A i \in DOMAIN log[t] :
        log[t][i].what \in Ended => run[t] = log[t][i].what

\* An end on the way to the adapter is the run's, or a failure.
ChanTrue ==
    \A t \in Turns : \A i \in DOMAIN chan[t] :
        chan[t][i].what \in {"completed", "cancelled"} => run[t] = chan[t][i].what

HermesInv ==
    /\ HermesTypeOK
    /\ Unstarted
    /\ CallStarts
    /\ ToldOnce
    /\ LogTrue
    /\ ChanTrue
    /\ OutcomeTrue

\* A run that ended stays as it ended.
Settled == \A t \in Turns : run[t] \in Ended => run'[t] = run[t]

\* What the runs' ends are told with stays true while runs that ended stay so.
LEMMA SettledKeeps ==
    ASSUME HermesInv, Settled
    PROVE  /\ UNCHANGED log => LogTrue'
           /\ UNCHANGED chan => ChanTrue'
           /\ UNCHANGED told => OutcomeTrue'
<1> USE DEF HermesInv, Settled
<1>1. UNCHANGED log => LogTrue'
  BY DEF LogTrue
<1>2. UNCHANGED chan => ChanTrue'
  BY DEF ChanTrue, Ended
<1>3. UNCHANGED told => OutcomeTrue'
  BY DEF OutcomeTrue, Ended
<1> QED
  BY <1>1, <1>2, <1>3

\* An event the runtime emits that tells the run's own end, or none.
LEMMA EmitKeeps ==
    ASSUME HermesInv, Settled, NEW t \in Turns, NEW e \in TurnEvent, Emit(t, e),
           e.what \in {"completed", "cancelled"} => run'[t] = e.what
    PROVE  ChanTrue'
<1>1. CASE UNCHANGED chan
  BY <1>1, SettledKeeps
<1>2. CASE chan' = [chan EXCEPT ![t] = Append(@, e)]
  <2>1. SUFFICES ASSUME NEW u \in Turns, NEW i \in DOMAIN chan'[u],
                        chan'[u][i].what \in {"completed", "cancelled"}
                 PROVE  run'[u] = chan'[u][i].what
    BY DEF ChanTrue
  <2>2. \/ u = t /\ chan'[u][i] = e
        \/ i \in DOMAIN chan[u] /\ chan'[u][i] = chan[u][i]
    <3>1. chan \in [Turns -> Seq(TurnEvent)]
      BY DEF HermesInv, HermesTypeOK, AdapterTypeOK
    <3>2. chan'[u] = IF u = t THEN Append(chan[t], e) ELSE chan[u]
      BY <1>2, <3>1
    <3>3. CASE u # t
      BY <3>2, <3>3, <2>1
    <3>4. CASE u = t
      BY <3>1, <3>2, <3>4, <2>1
    <3> QED
      BY <3>3, <3>4
  <2>3. CASE i \in DOMAIN chan[u] /\ chan'[u][i] = chan[u][i]
    BY <2>1, <2>3 DEF HermesInv, Settled, ChanTrue, Ended
  <2> QED
    BY <2>1, <2>2, <2>3
<1> QED
  BY <1>1, <1>2 DEF Emit

\* A step of the server that adds to the log of a run.
LEMMA LogKeeps ==
    ASSUME HermesInv, Settled, NEW t \in Turns, NEW e,
           log' = [log EXCEPT ![t] = Append(@, e)],
           e.what \in Ended => run'[t] = e.what
    PROVE  LogTrue'
BY DEF HermesInv, Settled, LogTrue, HermesTypeOK

\* A step of the host or the adapter keeps the invariant: it answers the host
\* with what the runtime emitted.
LEMMA AdapterKeeps ==
    ASSUME HermesInv, AdapterNext, UNCHANGED <<serverVars, call, streamVars>>
    PROVE  HermesInv'
<1> USE DEF HermesInv, serverVars
<1>1. HermesTypeOK'
  BY HermesTypeStep DEF HermesNext
<1>2. Settled /\ Unstarted' /\ LogTrue'
  BY DEF Settled, Unstarted, LogTrue
<1> PICK t \in Turns :
        \/ Prompt(t)
        \/ Cancel(t)
        \/ \E q \in Asks, selected \in BOOLEAN : HostAnswers(t, q, selected)
        \/ RelayEvent(t)
        \/ TakeReply(t)
  BY DEF AdapterNext
<1>3. CASE Prompt(t)
  BY <1>1, <1>2, <1>3, SettledKeeps DEF Prompt, CallStarts, ToldOnce, HermesTypeOK, AdapterTypeOK
<1>4. CASE UNCHANGED <<prompt, told, chan>>
  BY <1>1, <1>2, <1>4, SettledKeeps DEF CallStarts, ToldOnce
<1>5. CASE RelayEvent(t) /\ chan' = [chan EXCEPT ![t] = Tail(@)] /\ UNCHANGED <<prompt, told>>
  <2>1. \A i \in DOMAIN Tail(chan[t]) : i + 1 \in DOMAIN chan[t] /\ Tail(chan[t])[i] = chan[t][i + 1]
    BY <1>5 DEF RelayEvent, RelayText, RelayAsk, RelayAnswered, RelayEnd, Running,
                HermesTypeOK, AdapterTypeOK
  <2>2. ChanTrue'
    BY <1>5, <2>1 DEF ChanTrue, HermesTypeOK, AdapterTypeOK
  <2> QED
    BY <1>1, <1>2, <1>5, <2>2, SettledKeeps DEF CallStarts, ToldOnce
<1>6. CASE RelayEnd(t)
  <2>1. 1 \in DOMAIN chan[t] /\ Head(chan[t]) = chan[t][1]
    BY <1>6 DEF RelayEnd, Running, HermesTypeOK, AdapterTypeOK
  <2>2. OutcomeTrue'
    BY <1>6, <2>1 DEF RelayEnd, OutcomeTrue, ChanTrue, HermesTypeOK, AdapterTypeOK
  <2>3. ChanTrue'
    BY <1>6 DEF RelayEnd, ChanTrue, HermesTypeOK, AdapterTypeOK
  <2>4. CallStarts' /\ ToldOnce'
    BY <1>6, NoneIsNobody DEF RelayEnd, Running, CallStarts, ToldOnce, Outcome,
                              HermesTypeOK, AdapterTypeOK
  <2> QED
    BY <1>1, <1>2, <2>2, <2>3, <2>4
<1>7. RelayEvent(t) => \/ RelayEnd(t)
                       \/ chan' = [chan EXCEPT ![t] = Tail(@)] /\ UNCHANGED <<prompt, told>>
  BY DEF RelayEvent, RelayText, RelayAsk, RelayAnswered, Take
<1>8. ASSUME NEW q \in Asks, NEW selected \in BOOLEAN, HostAnswers(t, q, selected)
      PROVE  UNCHANGED <<prompt, told, chan>>
  BY <1>8 DEF HostAnswers
<1>9. Cancel(t) \/ TakeReply(t) => UNCHANGED <<prompt, told, chan>>
  BY DEF Cancel, TakeReply
<1> QED
  BY <1>3, <1>4, <1>5, <1>6, <1>7, <1>8, <1>9

\* A step of the server keeps the invariant: a run ends once.
LEMMA ServerKeeps ==
    ASSUME HermesInv, NEW t \in Turns, HermesServer(t)
    PROVE  HermesInv'
<1> USE DEF HermesInv, adapterVars
<1>1. HermesTypeOK'
  BY HermesTypeStep DEF HermesNext
<1>2. UNCHANGED <<prompt, told, chan, call>>
  BY DEF HermesServer, ServerText, ServerAsks, DecidedElsewhere, ServerEnds
<1>3. CallStarts' /\ ToldOnce'
  BY <1>2 DEF CallStarts, ToldOnce
<1>4. Settled /\ Unstarted'
  BY <1>2 DEF HermesServer, ServerText, ServerAsks, DecidedElsewhere, ServerEnds, Live,
              Settled, Unstarted, Ended, HermesTypeOK
<1>5. LogTrue'
  <2>1. CASE ServerText(t)
    BY <1>4, <2>1, LogKeeps DEF ServerText, Entry, Ended
  <2>2. ASSUME NEW q \in Asks, ServerAsks(t, q) PROVE LogTrue'
    BY <1>4, <2>2, LogKeeps DEF ServerAsks, Entry, Ended
  <2>3. CASE DecidedElsewhere(t)
    BY <1>4, <2>3, LogKeeps DEF DecidedElsewhere, Decide, Entry, Ended
  <2>4. ASSUME NEW outcome \in Ended, ServerEnds(t, outcome) PROVE LogTrue'
    BY <1>4, <2>4, LogKeeps DEF ServerEnds, Entry, HermesTypeOK
  <2> QED
    BY <2>1, <2>2, <2>3, <2>4 DEF HermesServer
<1> QED
  BY <1>1, <1>2, <1>3, <1>4, <1>5, SettledKeeps

\* A step of the link's tasks keeps the invariant: they emit the run's end as
\* its log or a poll gives it.
LEMMA TaskKeeps ==
    ASSUME HermesInv, NEW t \in Turns, HermesTask(t)
    PROVE  HermesInv'
<1> USE DEF HermesInv, adapterVars, serverVars, streamVars, Goto
<1>1. HermesTypeOK'
  BY HermesTypeStep DEF HermesNext
<1>2. ASSUME Refuse(t), prompt[t] = "starting", Settled, UNCHANGED log
      PROVE  ChanTrue' /\ OutcomeTrue' /\ LogTrue' /\ ToldOnce' /\ CallStarts'
    <2>1. ChanTrue' /\ LogTrue'
      BY <1>2, SettledKeeps DEF Refuse
    <2>2. OutcomeTrue' /\ ToldOnce' /\ CallStarts'
      BY <1>2, NoneIsNobody DEF Refuse, Refused, OutcomeTrue, ToldOnce, CallStarts, Settled,
                                Ended, HermesTypeOK, AdapterTypeOK
    <2> QED
      BY <2>1, <2>2
<1>3. CASE ReadVersion(t) \/ ReadHistory(t)
  <2>1. Settled /\ UNCHANGED <<log, chan, told>>
    BY <1>3 DEF ReadVersion, ReadHistory, Settled
  <2>2. Unstarted' /\ CallStarts' /\ ToldOnce'
    BY <1>3 DEF ReadVersion, ReadHistory, Unstarted, CallStarts, ToldOnce, HermesTypeOK
  <2> QED
    BY <1>1, <2>1, <2>2, SettledKeeps
<1>4. CASE NotStarted(t)
  <2>1. Settled /\ Unstarted'
    BY <1>4 DEF NotStarted, Refuse, Settled, Unstarted, HermesTypeOK
  <2> QED
    BY <1>1, <1>2, <1>4, <2>1 DEF NotStarted
<1>5. CASE StartRun(t)
  <2>1. Settled
    BY <1>5 DEF StartRun, Unstarted, Settled, Ended, HermesTypeOK
  <2>2. Unstarted'
    BY <1>5 DEF StartRun, Refuse, Unstarted, HermesTypeOK
  <2>3. prompt[t] = "starting"
    BY <1>5 DEF StartRun, CallStarts
  <2>4. CASE Refuse(t)
    BY <1>1, <1>2, <1>5, <2>1, <2>2, <2>3, <2>4 DEF StartRun
  <2>5. CASE call' = [call EXCEPT ![t] = "events"] /\ UNCHANGED adapterVars
    BY <1>1, <1>5, <2>1, <2>2, <2>3, <2>5, SettledKeeps
       DEF StartRun, CallStarts, ToldOnce, HermesTypeOK
  <2> QED
    BY <1>5, <2>4, <2>5 DEF StartRun
<1>6. CASE OpenEvents(t)
  <2>1. Settled /\ UNCHANGED log
    BY <1>6 DEF OpenEvents, Settled
  <2>2. prompt[t] = "starting"
    BY <1>6 DEF OpenEvents, CallStarts
  <2>3. Unstarted'
    BY <1>6 DEF OpenEvents, Refuse, Unstarted, HermesTypeOK
  <2>4. CASE Refuse(t)
    BY <1>1, <1>2, <2>1, <2>2, <2>3, <2>4
  <2>5. CASE Started(t) /\ call' = [call EXCEPT ![t] = "stream"] /\ UNCHANGED <<chan, control>>
    <3>1. UNCHANGED told
      BY <2>5 DEF Started
    <3>2. CallStarts' /\ ToldOnce'
      BY <2>2, <2>5 DEF Started, CallStarts, ToldOnce, HermesTypeOK, AdapterTypeOK
    <3> QED
      BY <1>1, <2>1, <2>3, <2>5, <3>1, <3>2, SettledKeeps
  <2> QED
    BY <1>6, <2>4, <2>5 DEF OpenEvents
<1>7. CASE Deliver(t) \/ Poll(t)
  <2>1. Settled /\ UNCHANGED <<log, told, prompt>>
    BY <1>7 DEF Deliver, Poll, Settled
  <2>2. Unstarted' /\ CallStarts' /\ ToldOnce'
    BY <1>7, <2>1 DEF Deliver, Poll, Unstarted, CallStarts, ToldOnce, HermesTypeOK
  <2>3. ChanTrue'
    <3>1. CASE Deliver(t) /\ UNCHANGED chan
      BY <2>1, <3>1, SettledKeeps
    <3>2. CASE Deliver(t) /\ Emit(t, EventOf(log[t][pos[t]]))
      <4>1. log[t][pos[t]] \in LogEntry /\ pos[t] \in DOMAIN log[t]
        BY <3>2 DEF Deliver, HermesTypeOK
      <4>2. EventOf(log[t][pos[t]]) \in TurnEvent
        BY <4>1, EventTypes DEF EventOf, LogEntry, IdOf, OutcomeOf, Outcome, Ended
      <4>3. EventOf(log[t][pos[t]]).what \in {"completed", "cancelled"}
                => log[t][pos[t]].what = EventOf(log[t][pos[t]]).what
        BY <4>1 DEF EventOf, LogEntry, Text, AskOf, AskAnswered, EndOf, OutcomeOf, Ended
      <4>4. EventOf(log[t][pos[t]]).what \in {"completed", "cancelled"}
                => run'[t] = EventOf(log[t][pos[t]]).what
        BY <3>2, <4>1, <4>3 DEF LogTrue, Deliver, Ended
      <4> QED
        BY <2>1, <3>2, <4>2, <4>4, EmitKeeps
    <3>3. CASE Poll(t)
      <4> PICK outcome \in Polled(t) : Emit(t, EndOf(outcome))
        BY <3>3 DEF Poll
      <4>1. outcome \in Outcome /\ (outcome # "failed" => run[t] = outcome)
        BY DEF Polled, OutcomeOf, Outcome, Ended
      <4>2. EndOf(outcome) \in TurnEvent
        BY <4>1, EventTypes
      <4>3. EndOf(outcome).what \in {"completed", "cancelled"} => run'[t] = EndOf(outcome).what
        BY <3>3, <4>1 DEF EndOf, Poll
      <4> QED
        BY <2>1, <4>2, <4>3, EmitKeeps
    <3> QED
      BY <1>7, <3>1, <3>2, <3>3 DEF Deliver
  <2> QED
    BY <1>1, <2>1, <2>2, <2>3, SettledKeeps
<1>8. CASE Break(t) \/ Reopen(t) \/ CloseStream(t) \/ BadFrame(t)
  <2>1. Settled /\ UNCHANGED <<log, chan, told, prompt>>
    BY <1>8 DEF Break, Reopen, CloseStream, BadFrame, GiveUp, Settled
  <2>2. Unstarted' /\ CallStarts' /\ ToldOnce'
    BY <1>8, <2>1 DEF Break, Reopen, CloseStream, BadFrame, GiveUp, Unstarted, CallStarts,
                      ToldOnce, HermesTypeOK
  <2> QED
    BY <1>1, <2>1, <2>2, SettledKeeps
<1>9. CASE Steer(t)
  <2>1. Settled /\ UNCHANGED <<chan, told, prompt, call>>
    BY <1>9 DEF Steer, StopRun, AnswerAsk, Live, Settled, Ended, HermesTypeOK
  <2>2. Unstarted' /\ CallStarts' /\ ToldOnce'
    BY <1>9, <2>1 DEF Steer, StopRun, AnswerAsk, Unstarted, CallStarts, ToldOnce, HermesTypeOK
  <2>3. LogTrue'
    <3>1. CASE UNCHANGED log
      BY <2>1, <3>1, SettledKeeps
    <3>2. CASE Decide(t, Head(control[t]).q)
      BY <2>1, <3>2, LogKeeps DEF Decide, Entry, Ended
    <3> QED
      BY <1>9, <3>1, <3>2 DEF Steer, StopRun, AnswerAsk
  <2> QED
    BY <1>1, <2>1, <2>2, <2>3, SettledKeeps
<1> QED
  BY <1>3, <1>4, <1>5, <1>6, <1>7, <1>8, <1>9 DEF HermesTask

\* Any step keeps the invariant.
LEMMA HermesInvStep ==
    ASSUME HermesInv, [HermesNext]_hermesVars
    PROVE  HermesInv'
<1>1. CASE UNCHANGED hermesVars
  BY <1>1, HermesTypeStep DEF hermesVars, adapterVars, serverVars, streamVars, HermesInv,
          Unstarted, CallStarts, ToldOnce, LogTrue, ChanTrue, OutcomeTrue
<1> QED
  BY <1>1, AdapterKeeps, ServerKeeps, TaskKeeps DEF HermesNext

LEMMA HermesInvInit == HermesInit => HermesInv
<1> SUFFICES ASSUME HermesInit PROVE HermesInv
  OBVIOUS
<1>1. HermesTypeOK
  BY DEF HermesInit, AdapterInit, HermesTypeOK, AdapterTypeOK, RunState
<1>2. Unstarted /\ CallStarts /\ ToldOnce /\ LogTrue /\ ChanTrue /\ OutcomeTrue
  BY NoneIsNobody DEF HermesInit, AdapterInit, Unstarted, CallStarts, ToldOnce, LogTrue,
                      ChanTrue, OutcomeTrue
<1> QED
  BY <1>1, <1>2 DEF HermesInv

LEMMA HermesInvariant == HermesSpec => []HermesInv
BY HermesInvInit, HermesInvStep, PTL DEF HermesSpec

\* A turn the host is told completed, or was cancelled, is one whose run did,
\* over lost answers, broken streams and polls (relay, outcome).
THEOREM HermesOutcome == HermesSpec => []OutcomeTrue
<1>1. HermesInv => OutcomeTrue
  BY DEF HermesInv
<1> QED
  BY <1>1, HermesInvariant, PTL

-----------------------------------------------------------------------------
(* The turn implements BackendTurn *)

Asked == {t \in Turns : prompt[t] # "new"}
Fate == [t \in Turns |-> FateOf(run[t])]

\* A prompt that is neither new nor answered is one the host waits for.
LEMMA Waits ==
    ASSUME HermesInv, NEW t \in Turns, prompt[t] \in {"starting", "running"}
    PROVE  Promise!Unanswered(t)
BY DEF HermesInv, ToldOnce, Promise!Unanswered

\* Only runs that start, are stopped or end change what becomes of a turn.
LEMMA FateStays == ASSUME UNCHANGED run PROVE UNCHANGED Fate
BY DEF Fate, FateOf

LEMMA AdapterImplements ==
    ASSUME HermesInv, AdapterNext, UNCHANGED <<serverVars, call, streamVars>>
    PROVE  [Promise!Next]_Promise!turnVars
<1> USE DEF HermesInv, HermesTypeOK, AdapterTypeOK, serverVars
<1>1. UNCHANGED Fate
  BY FateStays
<1> PICK t \in Turns :
        \/ Prompt(t)
        \/ Cancel(t)
        \/ \E q \in Asks, selected \in BOOLEAN : HostAnswers(t, q, selected)
        \/ RelayEvent(t)
        \/ TakeReply(t)
  BY DEF AdapterNext
<1>2. CASE Prompt(t)
  <2>1. Promise!Ask(t)
    <3>1. Asked' = Asked \cup {t} /\ t \notin Asked
      BY <1>2 DEF Prompt, Asked
    <3>2. \A u \in Asked : told[u] # None
      BY <1>2 DEF Prompt, Asked, ToldOnce
    <3> QED
      BY <1>1, <1>2, <3>1, <3>2 DEF Promise!Ask, Prompt, Asked, Fate
  <2> QED
    BY <2>1 DEF Promise!Next
<1>3. CASE RelayEnd(t)
  <2>1. prompt[t] = "running" /\ UNCHANGED Asked
    BY <1>3 DEF RelayEnd, Running, Asked
  <2>2. 1 \in DOMAIN chan[t] /\ Head(chan[t]) = chan[t][1]
    BY <1>3 DEF RelayEnd, Running
  <2>3. Head(chan[t]).what \in {Fate[t], "failed"} \cap Promise!Ends
    <3>1. Head(chan[t]).what \in Outcome
      BY <1>3 DEF RelayEnd
    <3>2. Head(chan[t]).what \in {"completed", "cancelled"} => run[t] = Head(chan[t]).what
      BY <2>2 DEF ChanTrue
    <3>3. run[t] \in {"completed", "cancelled"} => Fate[t] = run[t]
      BY DEF Fate, FateOf
    <3> QED
      BY <3>1, <3>2, <3>3 DEF Outcome, Promise!Ends
  <2>4. Promise!Tell(t)
    BY <1>1, <1>3, <2>1, <2>3, Waits DEF Promise!Tell, RelayEnd, Asked, Fate
  <2> QED
    BY <2>4 DEF Promise!Next
<1>4. CASE UNCHANGED <<prompt, told>>
  BY <1>1, <1>4 DEF Promise!turnVars, Fate
<1>5. \/ Prompt(t) \/ RelayEnd(t) \/ UNCHANGED <<prompt, told>>
  BY DEF Cancel, HostAnswers, TakeReply, RelayEvent, RelayText, RelayAsk, RelayAnswered
<1> QED
  BY <1>2, <1>3, <1>4, <1>5

LEMMA ServerImplements ==
    ASSUME HermesInv, NEW t \in Turns, HermesServer(t)
    PROVE  [Promise!Next]_Promise!turnVars
<1> USE DEF HermesInv, HermesTypeOK, adapterVars
<1>1. UNCHANGED <<prompt, told>>
  BY DEF HermesServer, ServerText, ServerAsks, DecidedElsewhere, ServerEnds
<1>2. ASSUME NEW outcome \in Ended, ServerEnds(t, outcome)
      PROVE  [Promise!Next]_Promise!turnVars
  <2>1. Fate[t] = "running" /\ FateOf(outcome) \in Promise!Ends
    BY <1>2 DEF ServerEnds, Live, Fate, FateOf, Ended, Promise!Ends
  <2>2. Fate' = [Fate EXCEPT ![t] = FateOf(outcome)]
    BY <1>2 DEF ServerEnds, Fate, FateOf
  <2>3. Promise!End(t, FateOf(outcome))
    BY <1>1, <2>1, <2>2 DEF Promise!End, Fate
  <2> QED
    BY <2>1, <2>3 DEF Promise!Next
<1>3. CASE UNCHANGED run
  BY <1>1, <1>3, FateStays DEF Promise!turnVars, Fate
<1> QED
  BY <1>2, <1>3 DEF HermesServer, ServerText, ServerAsks, DecidedElsewhere

LEMMA TaskImplements ==
    ASSUME HermesInv, NEW t \in Turns, HermesTask(t)
    PROVE  [Promise!Next]_Promise!turnVars
<1> USE DEF HermesInv, HermesTypeOK, AdapterTypeOK, adapterVars, serverVars, streamVars, Goto
<1>1. ASSUME prompt[t] = "starting", Refuse(t)
      PROVE  UNCHANGED Asked /\ told' = [told EXCEPT ![t] = "failed"]
  BY <1>1 DEF Refuse, Refused, Asked
<1>2. ASSUME prompt[t] = "starting", Refuse(t), UNCHANGED run
      PROVE  [Promise!Next]_Promise!turnVars
  <2>1. Promise!Tell(t)
    BY <1>1, <1>2, FateStays, Waits DEF Promise!Tell, Promise!Ends, Asked, Fate
  <2> QED
    BY <2>1 DEF Promise!Next
<1>3. CASE UNCHANGED <<prompt, told, run>>
  BY <1>3, FateStays DEF Promise!turnVars, Fate
<1>4. CASE NotStarted(t)
  BY <1>2, <1>4 DEF NotStarted
<1>5. CASE OpenEvents(t)
  <2>1. prompt[t] = "starting" /\ UNCHANGED run
    BY <1>5 DEF OpenEvents, CallStarts
  <2>2. CASE Refuse(t)
    BY <1>2, <2>1, <2>2
  <2>3. CASE Started(t)
    <3>1. UNCHANGED <<Asked, told>>
      BY <2>1, <2>3 DEF Started, Asked
    <3> QED
      BY <2>1, <3>1, FateStays DEF Promise!turnVars, Fate, Asked
  <2> QED
    BY <1>5, <2>2, <2>3 DEF OpenEvents
<1>6. CASE StartRun(t)
  <2>1. prompt[t] = "starting" /\ Fate[t] = "none"
    BY <1>6 DEF StartRun, CallStarts, Unstarted, Fate, FateOf
  <2>2. Fate' = [Fate EXCEPT ![t] = "running"]
    BY <1>6 DEF StartRun, Fate, FateOf
  <2>3. CASE Refuse(t)
    <3>1. Promise!TakeUnheard(t)
      BY <1>1, <2>1, <2>2, <2>3, Waits DEF Promise!TakeUnheard, Asked, Fate
    <3> QED
      BY <3>1 DEF Promise!Next
  <2>4. CASE UNCHANGED adapterVars
    <3>1. Promise!Take(t)
      BY <2>1, <2>2, <2>4, Waits DEF Promise!Take, Asked, Fate
    <3> QED
      BY <3>1 DEF Promise!Next
  <2> QED
    BY <1>6, <2>3, <2>4 DEF StartRun
<1>7. CASE Steer(t) /\ run' = [run EXCEPT ![t] = "stopping"] /\ Live(t)
  <2>1. UNCHANGED Fate
    BY <1>7 DEF Fate, FateOf, Live
  <2> QED
    BY <1>7, <2>1 DEF Steer, StopRun, AnswerAsk, Promise!turnVars, Fate
<1>8. \/ NotStarted(t) \/ OpenEvents(t) \/ StartRun(t)
      \/ Steer(t) /\ run' = [run EXCEPT ![t] = "stopping"] /\ Live(t)
      \/ UNCHANGED <<prompt, told, run>>
  BY DEF HermesTask, ReadVersion, ReadHistory, Deliver, Break, Reopen, CloseStream, BadFrame,
         GiveUp, Poll, Steer, StopRun, AnswerAsk
<1> QED
  BY <1>3, <1>4, <1>5, <1>6, <1>7, <1>8

\* A turn on Hermes is a turn as the host was promised it: one answer to each
\* prompt, the run's own end or a failure, whatever is lost or breaks.
THEOREM HermesKeepsPromise == HermesSpec => KeepsPromise
<1>1. HermesInit => Promise!Init
  BY DEF HermesInit, AdapterInit, Promise!Init, FateOf
<1>2. HermesInv /\ [HermesNext]_hermesVars => [Promise!Next]_Promise!turnVars
  <2>1. ASSUME UNCHANGED hermesVars PROVE UNCHANGED Promise!turnVars
    BY <2>1 DEF hermesVars, adapterVars, serverVars, Promise!turnVars, FateOf
  <2> QED
    BY <2>1, AdapterImplements, ServerImplements, TaskImplements DEF HermesNext
<1> QED
  BY <1>1, <1>2, HermesInvariant, PTL DEF HermesSpec, KeepsPromise, Promise!TurnSpec

-----------------------------------------------------------------------------
(* What is shown of a run *)

\* Nothing of a run is shown before its stream is open.
StreamUnopened ==
    \A t \in Turns : call[t] \in {"none", "history", "start", "events"} =>
        last[t] = 0 /\ pos[t] = 0 /\ shown[t] = <<>>

\* What was shown is in the run's order and ends at the last event delivered.
ShownInOrder ==
    \A t \in Turns :
        /\ \A i \in DOMAIN shown[t] : shown[t][i] <= last[t]
        /\ \A i, j \in DOMAIN shown[t] : i < j => shown[t][i] < shown[t][j]

\* A server that keeps no events never gives one again.
OldGoesOn == server = "old" => \A t \in Turns : pos[t] # 0 => pos[t] > last[t]

\* While nothing was dropped the shown events are the run's first ones, and the
\* open body has the one after them at hand, or an earlier one.
ShownWhole ==
    \A t \in Turns : t \notin lossy =>
        /\ Len(shown[t]) = last[t]
        /\ \A i \in DOMAIN shown[t] : shown[t][i] = i
        /\ pos[t] <= last[t] + 1

StreamInv ==
    /\ HermesTypeOK
    /\ StreamUnopened
    /\ ShownInOrder
    /\ OldGoesOn
    /\ ShownWhole

\* Outside the link's tasks nothing moves on a stream.
LEMMA StreamStays ==
    ASSUME StreamInv, HermesTypeOK', UNCHANGED <<server, call, streamVars>>
    PROVE  StreamInv'
BY DEF StreamInv, StreamUnopened, ShownInOrder, OldGoesOn, ShownWhole, streamVars

\* The kinds of what a stream keeps.
LEMMA StreamKinds ==
    ASSUME HermesTypeOK
    PROVE  /\ pos \in [Turns -> Nat] /\ last \in [Turns -> Nat]
           /\ shown \in [Turns -> Seq(Nat)] /\ lossy \subseteq Turns
           /\ \A t \in Turns : Len(log[t]) \in Nat /\ DOMAIN log[t] = 1..Len(log[t])
           /\ call \in [Turns -> {"none", "history", "start", "events", "stream",
                                  "poll", "done"}]
           /\ server \in {"old", "new"}
BY DEF HermesTypeOK

\* One more is shown after those that were, and is none of them.
LEMMA ShowOne ==
    ASSUME NEW s \in Seq(Nat), NEW l \in Nat, NEW p \in Nat, p > l,
           \A i \in DOMAIN s : s[i] <= l,
           \A i, j \in DOMAIN s : i < j => s[i] < s[j]
    PROVE  /\ \A i \in DOMAIN Append(s, p) : Append(s, p)[i] <= p
           /\ \A i, j \in DOMAIN Append(s, p) : i < j => Append(s, p)[i] < Append(s, p)[j]
<1>1. /\ DOMAIN Append(s, p) = 1..(Len(s) + 1) /\ DOMAIN s = 1..Len(s)
      /\ \A i \in 1..Len(s) : Append(s, p)[i] = s[i] /\ s[i] \in Nat
      /\ Append(s, p)[Len(s) + 1] = p /\ Len(s) \in Nat
  OBVIOUS
<1> QED
  BY <1>1

\* An event that was not delivered before is shown after all that were.
LEMMA DeliverKeeps ==
    ASSUME StreamInv, HermesTypeOK', NEW t \in Turns, Deliver(t)
    PROVE  StreamInv'
<1> USE StreamKinds DEF StreamInv
<1>1. /\ call[t] = "stream" /\ pos[t] \in Nat /\ pos[t] # 0 /\ last[t] \in Nat
      /\ pos' = [pos EXCEPT ![t] = @ + 1]
      /\ shown[t] \in Seq(Nat)
      /\ UNCHANGED <<server, lossy>>
  BY DEF Deliver, serverVars
<1>2. /\ \A u \in Turns \ {t} : call'[u] = call[u] /\ last'[u] = last[u]
                                /\ shown'[u] = shown[u] /\ pos'[u] = pos[u]
      /\ call'[t] \in {"stream", "done"}
  BY <1>1 DEF Deliver, Goto
<1>3. StreamUnopened'
  BY <1>2 DEF StreamUnopened
<1>4. CASE Repeated(t, pos[t])
  <2>1. UNCHANGED <<last, shown>> /\ server = "new" /\ pos[t] <= last[t]
    BY <1>4 DEF Deliver, Repeated
  <2>2. ShownInOrder' /\ OldGoesOn'
    BY <1>1, <2>1 DEF ShownInOrder, OldGoesOn
  <2>3. ShownWhole'
    BY <1>1, <2>1 DEF ShownWhole
  <2> QED
    BY <1>3, <2>2, <2>3
<1>5. CASE ~Repeated(t, pos[t])
  <2>1. /\ last' = [last EXCEPT ![t] = pos[t]]
        /\ shown' = [shown EXCEPT ![t] = Append(@, pos[t])]
    BY <1>5 DEF Deliver
  <2>2. pos[t] > last[t]
    BY <1>1, <1>5 DEF Repeated, OldGoesOn
  <2>3. last'[t] = pos[t] /\ shown'[t] = Append(shown[t], pos[t])
    BY <2>1
  <2>4. ShownInOrder'
    <3>1. /\ \A i \in DOMAIN shown[t] : shown[t][i] <= last[t]
          /\ \A i, j \in DOMAIN shown[t] : i < j => shown[t][i] < shown[t][j]
      BY DEF ShownInOrder
    <3>2. /\ \A i \in DOMAIN shown'[t] : shown'[t][i] <= last'[t]
          /\ \A i, j \in DOMAIN shown'[t] : i < j => shown'[t][i] < shown'[t][j]
      BY <1>1, <2>2, <2>3, <3>1, ShowOne
    <3> QED
      BY <1>2, <3>2 DEF ShownInOrder
  <2>5. OldGoesOn'
    BY <1>1, <2>1 DEF OldGoesOn
  <2>6. ASSUME t \notin lossy
        PROVE  /\ Len(shown'[t]) = last'[t]
               /\ \A i \in DOMAIN shown'[t] : shown'[t][i] = i
               /\ pos'[t] <= last'[t] + 1
    <3>1. /\ Len(shown[t]) = last[t] /\ pos[t] = last[t] + 1
          /\ \A i \in DOMAIN shown[t] : shown[t][i] = i
      BY <1>1, <2>2, <2>6 DEF ShownWhole
    <3> QED
      BY <1>1, <2>3, <3>1
  <2>7. ShownWhole'
    BY <1>1, <1>2, <2>6 DEF ShownWhole
  <2> QED
    BY <1>3, <2>4, <2>5, <2>7
<1> QED
  BY <1>4, <1>5

\* A stream is opened at a run's first event, and reopened where it broke or
\* past it; every other step of the link's tasks leaves what is shown.
LEMMA StreamTaskKeeps ==
    ASSUME StreamInv, HermesTypeOK', NEW t \in Turns, HermesTask(t)
    PROVE  StreamInv'
<1> USE StreamKinds DEF StreamInv, serverVars, streamVars, Goto
<1>1. CASE \/ ReadVersion(t) \/ ReadHistory(t) \/ NotStarted(t) \/ StartRun(t)
           \/ Poll(t) \/ Steer(t)
  <2>1. UNCHANGED <<server, streamVars>>
    BY <1>1 DEF ReadVersion, ReadHistory, NotStarted, StartRun, Poll, Steer, StopRun, AnswerAsk
  <2>2. /\ \A u \in Turns \ {t} : call'[u] = call[u]
        /\ call[t] \in {"none", "history", "start", "events"} \/ call'[t] = call[t]
           \/ call'[t] = "done"
    BY <1>1 DEF ReadVersion, ReadHistory, NotStarted, StartRun, Poll, Steer, StopRun, AnswerAsk, Refuse
  <2>3. StreamUnopened'
    BY <2>1, <2>2 DEF StreamUnopened
  <2> QED
    BY <2>1, <2>3 DEF ShownInOrder, OldGoesOn, ShownWhole
<1>2. CASE OpenEvents(t)
  <2>1. UNCHANGED <<server, last, lossy, shown>> /\ last[t] = 0
    BY <1>2 DEF OpenEvents, StreamUnopened
  <2>2. \/ pos' = [pos EXCEPT ![t] = 1] /\ call'[t] = "stream"
        \/ UNCHANGED pos /\ call'[t] = "done"
    BY <1>2 DEF OpenEvents, Refuse
  <2>3. \A u \in Turns \ {t} : call'[u] = call[u] /\ pos'[u] = pos[u]
    BY <1>2 DEF OpenEvents, Refuse
  <2>4. pos'[t] = pos[t] \/ pos'[t] = 1
    BY <2>2
  <2>5. StreamUnopened'
    BY <2>1, <2>2, <2>3 DEF StreamUnopened
  <2>6. ShownInOrder'
    BY <2>1 DEF ShownInOrder
  <2>7. OldGoesOn'
    BY <2>1, <2>3, <2>4 DEF OldGoesOn
  <2>8. \A u \in Turns : pos'[u] = pos[u] \/ (pos'[u] = 1 /\ last[u] = 0)
    BY <2>1, <2>3, <2>4
  <2>9. ShownWhole'
    <3> SUFFICES ASSUME NEW u \in Turns, u \notin lossy PROVE pos'[u] <= last[u] + 1
      BY <2>1 DEF ShownWhole
    <3>1. pos[u] <= last[u] + 1
      BY DEF ShownWhole
    <3>2. pos'[u] = pos[u] \/ (pos'[u] = 1 /\ last[u] = 0)
      BY <2>8
    <3> QED
      BY <3>1, <3>2
  <2> QED
    BY <2>5, <2>6, <2>7, <2>9
<1>3. CASE Deliver(t)
  BY <1>3, DeliverKeeps
<1>4. CASE Break(t) \/ CloseStream(t) \/ BadFrame(t)
  <2>1. /\ UNCHANGED <<server, last, lossy, shown>>
        /\ pos' = [pos EXCEPT ![t] = 0]
        /\ call[t] = "stream"
        /\ call'[t] \in {"stream", "poll"} /\ \A u \in Turns \ {t} : call'[u] = call[u]
    BY <1>4 DEF Break, CloseStream, BadFrame, GiveUp
  <2>2. StreamUnopened'
    BY <2>1 DEF StreamUnopened
  <2>3. ShownInOrder' /\ OldGoesOn'
    BY <2>1 DEF ShownInOrder, OldGoesOn
  <2>4. ShownWhole'
    BY <2>1 DEF ShownWhole
  <2> QED
    BY <2>2, <2>3, <2>4
<1>5. CASE Reopen(t)
  <2>1. /\ UNCHANGED <<server, last, shown>>
        /\ call[t] = "stream"
        /\ call'[t] \in {"stream", "poll"} /\ \A u \in Turns \ {t} : call'[u] = call[u]
        /\ \A u \in Turns \ {t} : pos'[u] = pos[u] /\ (u \in lossy' <=> u \in lossy)
    BY <1>5 DEF Reopen
  <2>2. \/ UNCHANGED <<pos, lossy>>
        \/ \E p \in ResumeAt(t) :
              pos'[t] = p /\ (p > last[t] + 1 \/ t \in lossy => t \in lossy')
    BY <1>5 DEF Reopen
  <2>3. \A p \in ResumeAt(t) : p \in Nat /\ (server = "old" => p > last[t])
    BY DEF ResumeAt
  <2>4. StreamUnopened' /\ ShownInOrder'
    BY <2>1 DEF StreamUnopened, ShownInOrder
  <2>5. OldGoesOn'
    BY <2>1, <2>2, <2>3 DEF OldGoesOn
  <2>6. ShownWhole'
    <3>1. ASSUME t \notin lossy' PROVE t \notin lossy /\ pos'[t] <= last[t] + 1
      BY <2>2, <2>3, <3>1 DEF ShownWhole
    <3> QED
      BY <2>1, <3>1 DEF ShownWhole
  <2> QED
    BY <2>4, <2>5, <2>6
<1> QED
  BY <1>1, <1>2, <1>3, <1>4, <1>5 DEF HermesTask

LEMMA StreamInvStep ==
    ASSUME StreamInv, [HermesNext]_hermesVars
    PROVE  StreamInv'
<1>1. HermesTypeOK'
  BY HermesTypeStep DEF StreamInv
<1>2. ASSUME NEW t \in Turns, HermesServer(t) PROVE StreamInv'
  BY <1>1, <1>2, StreamStays
     DEF HermesServer, ServerText, ServerAsks, DecidedElsewhere, ServerEnds
<1>3. CASE AdapterNext /\ UNCHANGED <<serverVars, call, streamVars>>
  BY <1>1, <1>3, StreamStays DEF serverVars
<1>4. CASE UNCHANGED hermesVars
  BY <1>1, <1>4, StreamStays DEF hermesVars, serverVars
<1> QED
  BY <1>1, <1>2, <1>3, <1>4, StreamTaskKeeps DEF HermesNext

\* What a turn shows of its run is in the run's order, nothing twice, over
\* every break and reopening; and nothing is missing unless the server had
\* dropped it (EventStream.next, reopen).
THEOREM HermesStreamWhole == HermesSpec => []StreamWhole
<1>1. HermesInit => StreamInv
  <2> SUFFICES ASSUME HermesInit PROVE StreamInv
    OBVIOUS
  <2>1. HermesTypeOK
    BY HermesInvInit DEF HermesInv
  <2> QED
    BY <2>1 DEF HermesInit, StreamInv, StreamUnopened, ShownInOrder, OldGoesOn, ShownWhole
<1>2. StreamInv => StreamWhole
  BY DEF StreamInv, ShownInOrder, ShownWhole, StreamWhole
<1> QED
  BY <1>1, <1>2, StreamInvStep, PTL DEF HermesSpec

-----------------------------------------------------------------------------
(* Answers and the requests they are given to *)

\* With ids, each request on its way to the host, each that waits there, and
\* each answer on its way back has the id of its own request.
ChanOwn ==
    \A t \in Turns : \A i \in DOMAIN chan[t] :
        chan[t][i].what = "ask" => chan[t][i].id = chan[t][i].q
AsksOwn == \A t \in Turns : \A i \in DOMAIN asks[t] : asks[t][i].id = asks[t][i].q
ControlOwn ==
    \A t \in Turns : \A i \in DOMAIN control[t] :
        control[t][i].what = "answer" => control[t][i].id = control[t][i].q
DecidedOwn == \A q \in Asks : decided[q] \in {q, None}

AnswerInv ==
    /\ HermesTypeOK
    /\ server = "new" => ChanOwn /\ AsksOwn /\ ControlOwn /\ DecidedOwn

\* What is left of a sequence without one of its elements was in it.
LEMMA RemoveAtLeft ==
    ASSUME NEW S, NEW s \in Seq(S), NEW i \in DOMAIN s
    PROVE  \A j \in DOMAIN RemoveAt(s, i) :
               \E k \in DOMAIN s : RemoveAt(s, i)[j] = s[k]
<1> DEFINE front == SubSeq(s, 1, i - 1)
           back == SubSeq(s, i + 1, Len(s))
<1>1. /\ i \in 1..Len(s) /\ Len(s) \in Nat /\ DOMAIN s = 1..Len(s)
      /\ \A k \in 1..Len(s) : s[k] \in S
  OBVIOUS
<1>2. /\ front \in Seq(S) /\ Len(front) = i - 1
      /\ \A j \in 1..(i - 1) : front[j] = s[j]
  BY <1>1, SubSeqProperties
<1>3. /\ back \in Seq(S) /\ Len(back) = Len(s) - i
      /\ \A j \in 1..(Len(s) - i) : back[j] = s[i + j]
  BY <1>1, SubSeqProperties
<1> DEFINE rest == front \o back
<1> HIDE DEF front, back
<1>4. /\ rest \in Seq(S) /\ Len(rest) = Len(s) - 1
      /\ \A j \in 1..(i - 1) : rest[j] = front[j]
      /\ \A j \in 1..(Len(s) - i) : rest[i - 1 + j] = back[j]
  <2>1. /\ rest \in Seq(S) /\ Len(rest) = Len(front) + Len(back)
        /\ \A j \in 1..(Len(front) + Len(back)) :
              rest[j] = IF j <= Len(front) THEN front[j] ELSE back[j - Len(front)]
    BY <1>2, <1>3, ConcatProperties
  <2> HIDE DEF rest
  <2>2. Len(rest) = Len(s) - 1
    BY <1>1, <1>2, <1>3, <2>1
  <2>3. ASSUME NEW j \in 1..(i - 1) PROVE rest[j] = front[j]
    BY <1>1, <1>2, <1>3, <2>1, <2>3
  <2>4. ASSUME NEW j \in 1..(Len(s) - i) PROVE rest[i - 1 + j] = back[j]
    <3>1. /\ i - 1 + j \in 1..(Len(front) + Len(back)) /\ ~(i - 1 + j <= Len(front))
          /\ (i - 1 + j) - Len(front) = j
      BY <1>1, <1>2, <1>3, <2>4
    <3> QED
      BY <2>1, <3>1
  <2> QED
    BY <2>1, <2>2, <2>3, <2>4
<1>5. RemoveAt(s, i) = rest
  BY DEF RemoveAt, front, back
<1> HIDE DEF rest
<1>6. ASSUME NEW j \in 1..(Len(s) - 1)
      PROVE  \E k \in 1..Len(s) : rest[j] = s[k]
  <2>1. CASE j <= i - 1
    BY <1>1, <1>2, <1>4, <1>6, <2>1
  <2>2. CASE ~(j <= i - 1)
    <3>1. j - (i - 1) \in 1..(Len(s) - i) /\ i - 1 + (j - (i - 1)) = j
      BY <1>1, <1>6, <2>2
    <3>2. rest[j] = back[j - (i - 1)] /\ back[j - (i - 1)] = s[i + (j - (i - 1))]
      BY <1>3, <1>4, <3>1
    <3>3. i + (j - (i - 1)) \in 1..Len(s)
      BY <1>1, <1>6, <3>1
    <3> QED
      BY <3>2, <3>3
  <2> QED
    BY <2>1, <2>2
<1>7. DOMAIN rest = 1..(Len(s) - 1)
  BY <1>4, LenProperties
<1> QED
  BY <1>1, <1>5, <1>6, <1>7

\* A step of the host or the adapter: a request waits as it came, and its answer
\* is sent with the id it came with.
LEMMA AnswerAdapterKeeps ==
    ASSUME AnswerInv, AdapterNext, UNCHANGED <<serverVars, call, streamVars>>
    PROVE  AnswerInv'
<1>1. HermesTypeOK'
  BY HermesTypeStep DEF AnswerInv, HermesNext
<1>2. AdapterTypeOK
  BY DEF AnswerInv, HermesTypeOK
<1>3. UNCHANGED <<server, decided>>
  BY DEF serverVars
<1> SUFFICES ASSUME server = "new"
             PROVE  ChanOwn' /\ AsksOwn' /\ ControlOwn'
  BY <1>1, <1>3 DEF AnswerInv, DecidedOwn
<1>4. ChanOwn /\ AsksOwn /\ ControlOwn
  BY DEF AnswerInv
<1> PICK t \in Turns :
        \/ Prompt(t)
        \/ Cancel(t)
        \/ \E q \in Asks, selected \in BOOLEAN : HostAnswers(t, q, selected)
        \/ RelayEvent(t)
        \/ TakeReply(t)
  BY DEF AdapterNext
<1>5. ASSUME NEW i \in DOMAIN asks[t], asks' = [asks EXCEPT ![t] = RemoveAt(@, i)]
      PROVE  AsksOwn'
  <2>1. \A j \in DOMAIN asks'[t] : \E k \in DOMAIN asks[t] : asks'[t][j] = asks[t][k]
    BY <1>2, <1>5, RemoveAtLeft DEF AdapterTypeOK
  <2> QED
    BY <1>2, <1>4, <1>5, <2>1 DEF AsksOwn, AdapterTypeOK
<1>6. CASE Prompt(t) \/ \E q \in Asks, selected \in BOOLEAN : HostAnswers(t, q, selected)
  BY <1>4, <1>6 DEF Prompt, HostAnswers, ChanOwn, AsksOwn, ControlOwn
<1>7. CASE Cancel(t)
  <2>1. ControlOwn'
    BY <1>2, <1>4, <1>7 DEF Cancel, ControlOwn, CancelControl, AdapterTypeOK
  <2> QED
    BY <1>4, <1>7, <2>1 DEF Cancel, ChanOwn, AsksOwn
<1>8. CASE RelayEvent(t)
  <2>1. /\ chan[t] \in Seq(TurnEvent) /\ chan[t] # <<>>
        /\ UNCHANGED control
    BY <1>2, <1>8 DEF RelayEvent, RelayText, RelayAsk, RelayAnswered, RelayEnd, Running,
                      AdapterTypeOK
  <2>2. 1 \in DOMAIN chan[t] /\ Head(chan[t]) = chan[t][1]
    BY <2>1
  <2>3. \A i \in DOMAIN Tail(chan[t]) : i + 1 \in DOMAIN chan[t] /\ Tail(chan[t])[i] = chan[t][i + 1]
    BY <2>1
  <2>4. chan' = [chan EXCEPT ![t] = Tail(@)] \/ chan' = [chan EXCEPT ![t] = <<>>]
    BY <1>8 DEF RelayEvent, RelayText, RelayAsk, RelayAnswered, RelayEnd, Take
  <2>5. ChanOwn'
    <3>1. \A u \in Turns \ {t} : chan'[u] = chan[u]
      BY <1>2, <2>4 DEF AdapterTypeOK
    <3>2. chan'[t] = Tail(chan[t]) \/ chan'[t] = <<>>
      BY <1>2, <2>4 DEF AdapterTypeOK
    <3>3. \A i \in DOMAIN chan[t] : chan[t][i].what = "ask" => chan[t][i].id = chan[t][i].q
      BY <1>4 DEF ChanOwn
    <3>4. \A i \in DOMAIN chan'[t] : \E j \in DOMAIN chan[t] : chan'[t][i] = chan[t][j]
      <4>1. CASE chan'[t] = Tail(chan[t])
        BY <2>3, <4>1
      <4>2. CASE chan'[t] = <<>>
        BY <4>2
      <4> QED
        BY <3>2, <4>1, <4>2
    <3>5. \A i \in DOMAIN chan'[t] : chan'[t][i].what = "ask" => chan'[t][i].id = chan'[t][i].q
      BY <3>3, <3>4
    <3> QED
      BY <1>4, <3>1, <3>5 DEF ChanOwn
  <2>6. AsksOwn'
    <3>1. CASE RelayText(t)
      BY <1>4, <3>1 DEF RelayText, AsksOwn
    <3>2. CASE RelayAsk(t)
      <4>1. Head(chan[t]).id = Head(chan[t]).q
        BY <1>4, <2>2, <3>2 DEF RelayAsk, ChanOwn
      <4> QED
        BY <1>2, <1>4, <3>2, <4>1 DEF RelayAsk, AsksOwn, AdapterTypeOK
    <3>3. CASE RelayAnswered(t)
      <4>1. \/ UNCHANGED asks
            \/ \E i \in DOMAIN asks[t] : asks' = [asks EXCEPT ![t] = RemoveAt(@, i)]
        BY <3>3 DEF RelayAnswered, Matching
      <4> QED
        BY <1>4, <1>5, <4>1 DEF AsksOwn
    <3>4. CASE RelayEnd(t)
      BY <1>2, <1>4, <3>4 DEF RelayEnd, AsksOwn, AdapterTypeOK
    <3> QED
      BY <1>8, <3>1, <3>2, <3>3, <3>4 DEF RelayEvent
  <2> QED
    BY <1>4, <2>1, <2>5, <2>6 DEF ControlOwn
<1>9. CASE TakeReply(t)
  <2>1. UNCHANGED chan
    BY <1>9 DEF TakeReply
  <2>2. PICK r \in replies :
          \/ \E i \in {j \in DOMAIN asks[t] : asks[t][j].q = r.q} :
                /\ asks' = [asks EXCEPT ![t] = RemoveAt(@, i)]
                /\ \/ UNCHANGED control
                   \/ control' = [control EXCEPT ![t] =
                                      Append(@, AnswerControl(r.q, asks[t][i].id))]
          \/ UNCHANGED <<asks, control>>
    BY <1>9 DEF TakeReply
  <2>3. CASE UNCHANGED <<asks, control>>
    BY <1>4, <2>1, <2>3 DEF ChanOwn, AsksOwn, ControlOwn
  <2>4. ASSUME NEW i \in DOMAIN asks[t], asks[t][i].q = r.q,
               asks' = [asks EXCEPT ![t] = RemoveAt(@, i)],
               \/ UNCHANGED control
               \/ control' = [control EXCEPT ![t] =
                                  Append(@, AnswerControl(r.q, asks[t][i].id))]
        PROVE  ChanOwn' /\ AsksOwn' /\ ControlOwn'
    <3>1. AsksOwn'
      BY <1>5, <2>4
    <3>2. asks[t][i].id = r.q
      BY <1>4, <2>4 DEF AsksOwn
    <3>3. ControlOwn'
      <4> DEFINE new == AnswerControl(r.q, asks[t][i].id)
      <4>1. new.id = new.q
        BY <3>2 DEF AnswerControl
      <4>2. control[t] \in Seq(Control)
        BY <1>2 DEF AdapterTypeOK
      <4>3. \A j \in DOMAIN control[t] : control[t][j].what = "answer" => control[t][j].id = control[t][j].q
        BY <1>4 DEF ControlOwn
      <4> HIDE DEF new
      <4>4. \A j \in DOMAIN Append(control[t], new) :
               \/ j \in DOMAIN control[t] /\ Append(control[t], new)[j] = control[t][j]
               \/ Append(control[t], new)[j] = new
        BY <4>2
      <4>5. /\ \A u \in Turns \ {t} : control'[u] = control[u]
            /\ control'[t] = control[t] \/ control'[t] = Append(control[t], new)
        BY <1>2, <2>4 DEF AdapterTypeOK, new
      <4>6. \A j \in DOMAIN control'[t] :
               control'[t][j].what = "answer" => control'[t][j].id = control'[t][j].q
        BY <4>1, <4>3, <4>4, <4>5
      <4> QED
        BY <1>4, <4>5, <4>6 DEF ControlOwn
    <3> QED
      BY <1>4, <2>1, <3>1, <3>3 DEF ChanOwn
  <2> QED
    BY <2>2, <2>3, <2>4
<1> QED
  BY <1>6, <1>7, <1>8, <1>9

\* What the link emits of a run's request has the request's id.
LEMMA AnswerEmitKeeps ==
    ASSUME HermesTypeOK, ChanOwn, NEW t \in Turns, NEW e \in TurnEvent, Emit(t, e),
           e.what = "ask" => e.id = e.q
    PROVE  ChanOwn'
BY DEF HermesTypeOK, AdapterTypeOK, Emit, ChanOwn

\* A step of the link's tasks: an answer decides the request with its id.
LEMMA AnswerTaskKeeps ==
    ASSUME AnswerInv, NEW t \in Turns, HermesTask(t)
    PROVE  AnswerInv'
<1>1. HermesTypeOK' /\ HermesTypeOK
  BY HermesTypeStep DEF AnswerInv, HermesNext
<1>2. UNCHANGED server
  BY DEF HermesTask, ReadVersion, ReadHistory, NotStarted, StartRun, OpenEvents, Deliver, Break,
         Reopen, CloseStream, BadFrame, GiveUp, Poll, Steer, StopRun, AnswerAsk, serverVars
<1> SUFFICES ASSUME server = "new"
             PROVE  ChanOwn' /\ AsksOwn' /\ ControlOwn' /\ DecidedOwn'
  BY <1>1, <1>2 DEF AnswerInv
<1>3. ChanOwn /\ AsksOwn /\ ControlOwn /\ DecidedOwn
  BY DEF AnswerInv
<1>4. UNCHANGED asks /\ (~Steer(t) => UNCHANGED <<control, decided>>)
  BY DEF HermesTask, ReadVersion, ReadHistory, NotStarted, StartRun, OpenEvents, Deliver, Break,
         Reopen, CloseStream, BadFrame, GiveUp, Poll, Steer, StopRun, AnswerAsk, Refuse, Refused, Started,
         serverVars, adapterVars
<1>5. AsksOwn'
  BY <1>3, <1>4 DEF AsksOwn
<1>6. ChanOwn'
  <2>1. CASE UNCHANGED chan
    BY <1>3, <2>1 DEF ChanOwn
  <2>2. CASE Deliver(t) /\ Emit(t, EventOf(log[t][pos[t]]))
    <3>1. log[t][pos[t]] \in LogEntry
      BY <1>1, <2>2 DEF Deliver, HermesTypeOK
    <3>2. EventOf(log[t][pos[t]]) \in TurnEvent
      BY <3>1, EventTypes DEF EventOf, LogEntry, IdOf, OutcomeOf, Outcome, Ended
    <3>3. EventOf(log[t][pos[t]]).what = "ask"
            => EventOf(log[t][pos[t]]).id = EventOf(log[t][pos[t]]).q
      BY <3>1 DEF EventOf, LogEntry, Text, AskOf, AskAnswered, EndOf, IdOf, OutcomeOf, Ended
    <3> QED
      BY <1>1, <1>3, <2>2, <3>2, <3>3, AnswerEmitKeeps
  <2>3. CASE Poll(t)
    <3> PICK outcome \in Polled(t) : Emit(t, EndOf(outcome))
      BY <2>3 DEF Poll
    <3>1. outcome \in Outcome
      BY DEF Polled, OutcomeOf, Outcome, Ended
    <3>2. EndOf(outcome) \in TurnEvent /\ EndOf(outcome).what # "ask"
      BY <3>1, EventTypes DEF EndOf, Outcome
    <3> QED
      BY <1>1, <1>3, <3>2, AnswerEmitKeeps
  <2>4. \/ UNCHANGED chan
        \/ Deliver(t) /\ Emit(t, EventOf(log[t][pos[t]]))
        \/ Poll(t)
    BY DEF HermesTask, ReadVersion, ReadHistory, NotStarted, StartRun, OpenEvents, Deliver, Break,
           Reopen, CloseStream, BadFrame, GiveUp, Steer, StopRun, AnswerAsk, Refuse, adapterVars
  <2> QED
    BY <2>1, <2>2, <2>3, <2>4
<1>7. CASE ~Steer(t)
  BY <1>3, <1>4, <1>5, <1>6, <1>7 DEF ControlOwn, DecidedOwn
<1>8. CASE Steer(t)
  <2>1. /\ control[t] \in Seq(Control) /\ control[t] # <<>>
        /\ control' = [control EXCEPT ![t] = Tail(@)]
        /\ control \in [Turns -> Seq(Control)]
    BY <1>1, <1>8 DEF Steer, StopRun, AnswerAsk, HermesTypeOK, AdapterTypeOK
  <2>2. /\ 1 \in DOMAIN control[t] /\ Head(control[t]) = control[t][1]
        /\ Head(control[t]) \in Control
        /\ \A i \in DOMAIN Tail(control[t]) :
              i + 1 \in DOMAIN control[t] /\ Tail(control[t])[i] = control[t][i + 1]
    BY <2>1
  <2>3. ControlOwn'
    BY <1>3, <2>1, <2>2 DEF ControlOwn
  <2>4. DecidedOwn'
    <3>1. CASE UNCHANGED decided
      BY <1>3, <3>1 DEF DecidedOwn
    <3>2. CASE /\ Head(control[t]).what = "answer"
               /\ Targets(t, Head(control[t]).id) # {}
               /\ Decide(t, Head(control[t]).q)
      <4>1. Head(control[t]).id = Head(control[t]).q /\ Head(control[t]).q \in Asks
        BY <1>3, <2>2, <3>2 DEF ControlOwn, Control, CancelControl
      <4>2. waits[t] = Head(control[t]).q
        BY <3>2, <4>1, NoneIsNobody DEF Targets
      <4> QED
        BY <1>1, <1>3, <3>2, <4>1, <4>2 DEF Decide, DecidedOwn, HermesTypeOK
    <3> QED
      BY <1>8, <3>1, <3>2 DEF Steer, StopRun, AnswerAsk
  <2> QED
    BY <1>5, <1>6, <2>3, <2>4
<1> QED
  BY <1>7, <1>8

LEMMA AnswerServerKeeps ==
    ASSUME AnswerInv, NEW t \in Turns, HermesServer(t)
    PROVE  AnswerInv'
<1>1. HermesTypeOK' /\ HermesTypeOK
  BY HermesTypeStep DEF AnswerInv, HermesNext
<1>2. UNCHANGED <<server, chan, asks, control>>
  BY DEF HermesServer, ServerText, ServerAsks, DecidedElsewhere, ServerEnds, adapterVars
<1>3. DecidedOwn => DecidedOwn'
  <2>1. CASE UNCHANGED decided
    BY <2>1 DEF DecidedOwn
  <2>2. CASE DecidedElsewhere(t)
    BY <1>1, <2>2 DEF DecidedElsewhere, Decide, DecidedOwn, HermesTypeOK
  <2> QED
    BY <2>1, <2>2 DEF HermesServer, ServerText, ServerAsks, ServerEnds
<1> QED
  BY <1>1, <1>2, <1>3 DEF AnswerInv, ChanOwn, AsksOwn, ControlOwn

LEMMA AnswerInvStep ==
    ASSUME AnswerInv, [HermesNext]_hermesVars
    PROVE  AnswerInv'
<1>1. CASE UNCHANGED hermesVars
  <2>1. HermesTypeOK'
    BY HermesTypeStep DEF AnswerInv
  <2> QED
    BY <1>1, <2>1 DEF hermesVars, adapterVars, serverVars, AnswerInv, ChanOwn, AsksOwn, ControlOwn,
                      DecidedOwn
<1> QED
  BY <1>1, AnswerAdapterKeeps, AnswerTaskKeeps, AnswerServerKeeps DEF HermesNext

\* An answer of the owner decides the request it was given to, or none: also
\* when that one was answered elsewhere and the run waits on another (steer).
THEOREM HermesAnswers == HermesSpec => []AnswerItsOwn
<1>1. HermesInit => AnswerInv
  <2> SUFFICES ASSUME HermesInit PROVE AnswerInv
    OBVIOUS
  <2>1. HermesTypeOK
    BY HermesInvInit DEF HermesInv
  <2> QED
    BY <2>1 DEF HermesInit, AdapterInit, AnswerInv, ChanOwn, AsksOwn, ControlOwn, DecidedOwn
<1>2. AnswerInv => AnswerItsOwn
  BY DEF AnswerInv, DecidedOwn, AnswerItsOwn
<1> QED
  BY <1>1, <1>2, AnswerInvStep, PTL DEF HermesSpec

-----------------------------------------------------------------------------
(* The service                                                               *)

\* A link as the file and the service hold it.
Links == {link \in Seq(Agents) : IsInjective(link)}

\* The commands: what each is, and what the copy it works from holds.
CommandOK(k) ==
    /\ k.does \in {"add", "drop", "open", "release", "models", "unlink"}
    /\ k.copy \in Links
    /\ k.does \in {"add", "drop"} => k.agent \in Coding
    /\ k.does \in {"open", "release"} => k.agent \in Installs
    /\ k.does = "open" => k.by = "cli"
    /\ k.does \in {"add", "open"} /\ k.at = "save" => k.agent \notin AgentsOf(k.copy)
    /\ k.does \in {"drop", "release"} => k.agent \in AgentsOf(k.copy)
    /\ k.at = "config" => k.does \in {"release", "models", "unlink"}
    /\ k.at = "save" => k.does # "unlink"
    /\ k.at = "open" => k.does = "open"
    /\ k.at \in {"restart", "restarting"} => k.does \in {"open", "release"}
    /\ k.at = "forget" => k.does = "unlink"

Commands ==
    [at : {"new", "done", "config", "save", "open", "restart", "restarting", "forget"},
     does : {"add", "drop", "open", "release", "models", "unlink", Absent},
     by : {"host", "cli", Absent},
     agent : Agents \cup {Absent},
     copy : Seq(Agents)]

CommandsOK ==
    /\ cmd \in [Cmds -> Commands]
    /\ \A c \in Cmds : Unfinished(c) => CommandOK(cmd[c])

Flags ==
    /\ dirty \in BOOLEAN /\ managed \in BOOLEAN /\ removed \in BOOLEAN /\ permit \in BOOLEAN
    /\ stop \in BOOLEAN /\ missed \in BOOLEAN /\ quiet \in BOOLEAN /\ dead \in BOOLEAN

\* The types.
ServiceTypes ==
    /\ file \in Links \cup {Absent}
    /\ mem \in Links
    /\ token \in [file : {"good", "dead", Absent}, held : {"good", "dead", Absent}]
    /\ at \in {"down", "probe", "announce", "dial", "rotated", "on", "wait", "stopping", "revoked",
               "give back", "remove", "uninstall"}
    /\ roster \subseteq Agents /\ up \subseteq Agents
    /\ left \subseteq Installs /\ open \subseteq Installs /\ excused \subseteq Installs
    /\ said.chat \in BOOLEAN
    /\ DOMAIN said = {"chat", "runtime"} /\ said.runtime \in Agents \cup {Absent}
    /\ DOMAIN look = {"at", "link", "announce", "chat"}
    /\ look.at = "read" => look.link \in Links
    /\ faults \in 0..MaxFaults
    /\ CommandsOK

Opens(c) == Unfinished(c) /\ cmd[c].does = "open"
\* Installs that an owner's command opens, or has and is not yet done.
Pending == {cmd[c].agent : c \in {d \in Cmds : Opens(d)}}
InFile(a) == file # Absent /\ a \in AgentsOf(file)

\* The installs whose config holds the link's settings, and that an unlinking has
\* to know of.
Owed == open \ excused

FileLists ==
    /\ file = Absent => Owed = {}
    /\ file # Absent => Owed \subseteq AgentsOf(file)

\* The install an owner's command has written to the link stays there.
OpenedIsListed ==
    \A c \in Cmds :
        Opens(c) /\ cmd[c].at \in {"open", "restart", "restarting"}
        => cmd[c].agent \in excused \/ InFile(cmd[c].agent)

\* An unlinking need not know of the installs whose command is under way.
UnlinkExcuses == Unlinks => OpeningAny \subseteq excused

\* An owner's unlinking gives back what the copy it read lists.
CopyLists ==
    \A c \in Cmds : Unfinished(c) /\ cmd[c].does = "unlink" =>
        /\ cmd[c].at = "config" => Owed \subseteq AgentsOf(cmd[c].copy)
        /\ cmd[c].at = "forget" => Owed = {}

\* What the service holds of the link, or has just read of it.
Holds(link) ==
    /\ Owed \subseteq AgentsOf(link) \cup Pending
    /\ \A c \in Cmds :
           Opens(c) /\ cmd[c].at = "restarting" /\ ~stop /\ at # "stopping"
           => cmd[c].agent \in excused \cup AgentsOf(link)

MemHolds == Serving /\ ~Unlinking => Holds(mem)
LookHolds == Serving /\ look.at = "read" => Holds(look.link)

\* A service that its manager no longer has was asked to stop.
StopAsked == Serving /\ ~managed => stop \/ at = "stopping"

\* The service's unlinking has in left what it has yet to give back.
LeftLists ==
    /\ at = "give back" => Owed \subseteq left
    /\ at \in {"remove", "uninstall"} => Owed = {}

\* The inductive invariant.
ServiceInv ==
    /\ ServiceTypes /\ FileLists /\ OpenedIsListed /\ UnlinkExcuses /\ CopyLists
    /\ MemHolds /\ LookHolds /\ StopAsked /\ LeftLists

-----------------------------------------------------------------------------
\* A set of numbers has a least one.
LEMMA LeastOf ==
  ASSUME NEW T \in SUBSET Nat, T # {}
  PROVE  \E n \in T : \A m \in T : n <= m
  <1>1. IsWellFoundedOn(OpToRel(<, Nat), Nat)
    BY NatLessThanWellFounded
  <1>2. PICK n \in T : \A m \in T : <<m, n>> \notin OpToRel(<, Nat)
    BY <1>1, WFMin
  <1>3. \A m \in T : ~(m < n)
    BY <1>2 DEF OpToRel
  <1> QED
    BY <1>3

\* Links: their agents, their runtime, one more agent and one less.
LEMMA LinkAgents ==
  ASSUME NEW link \in Seq(Agents)
  PROVE  /\ AgentsOf(link) \subseteq Agents
         /\ InstallsOf(link) = AgentsOf(link) \cap Installs
  <1>1. \A i \in DOMAIN link : link[i] \in Agents
    BY ElementOfSeq
  <1> QED
    BY <1>1 DEF AgentsOf, InstallsOf

LEMMA RuntimeOf ==
  ASSUME NEW link \in Seq(Agents)
  PROVE  Runtime(link) \in Agents \cup {Absent}
  <1>0. /\ \A i \in DOMAIN link : link[i] \in Agents
        /\ DOMAIN link = 1..Len(link) /\ Len(link) \in Nat
    BY ElementOfSeq
  <1>1. CASE link = <<>>
    BY <1>1 DEF Runtime
  <1>2. CASE link # <<>> /\ InstallsOf(link) = {}
    <2>1. Len(link) # 0
      BY <1>2, EmptySeq
    <2>2. 1 \in DOMAIN link
      BY <2>1, <1>0
    <2> QED
      BY <1>2, <2>2, <1>0 DEF Runtime
  <1>3. CASE link # <<>> /\ InstallsOf(link) # {}
    <2> DEFINE T == {i \in DOMAIN link : link[i] \in Installs}
    <2>1. T \in SUBSET Nat /\ T # {}
      BY <1>3, <1>0 DEF InstallsOf
    <2>2. PICK n \in T : \A m \in T : n <= m
      BY <2>1, LeastOf
    <2> DEFINE P(i) == link[i] \in Installs
                       /\ \A j \in DOMAIN link : link[j] \in Installs => i <= j
    <2>3. n \in DOMAIN link /\ P(n)
      BY <2>2
    <2> HIDE DEF P
    <2>4. (CHOOSE i \in DOMAIN link : P(i)) \in DOMAIN link
      BY <2>3
    <2>5. Runtime(link) = link[CHOOSE i \in DOMAIN link : P(i)]
      BY <1>3 DEF Runtime, P
    <2> QED
      BY <2>4, <2>5, <1>0
  <1> QED
    BY <1>1, <1>2, <1>3

LEMMA LinkAppended ==
  ASSUME NEW link \in Links, NEW a \in Agents, a \notin AgentsOf(link)
  PROVE  /\ Append(link, a) \in Links
         /\ a \in AgentsOf(Append(link, a))
  <1> DEFINE s == Append(link, a)
  <1>0. link \in Seq(Agents) /\ IsInjective(link)
    BY DEF Links
  <1>1. /\ s \in Seq(Agents) /\ Len(s) = Len(link) + 1 /\ s[Len(link) + 1] = a
        /\ \A i \in 1..Len(link) : s[i] = link[i]
    BY <1>0, AppendProperties
  <1>2. /\ DOMAIN link = 1..Len(link) /\ DOMAIN s = 1..Len(s) /\ Len(link) \in Nat
    BY <1>0, <1>1, LenProperties
  <1>3. \A i \in 1..Len(link) : link[i] # a
    BY <1>2 DEF AgentsOf
  <1> HIDE DEF s
  <1>4. ASSUME NEW i \in DOMAIN s, NEW j \in DOMAIN s, s[i] = s[j] PROVE i = j
    <2>1. CASE i \in 1..Len(link) /\ j \in 1..Len(link)
      BY <2>1, <1>4, <1>1, <1>2, <1>0 DEF IsInjective
    <2>2. CASE i \in 1..Len(link) /\ j = Len(link) + 1
      BY <2>2, <1>4, <1>1, <1>3
    <2>3. CASE i = Len(link) + 1 /\ j \in 1..Len(link)
      BY <2>3, <1>4, <1>1, <1>3
    <2> QED
      BY <1>1, <1>2, <2>1, <2>2, <2>3
  <1>5. IsInjective(s)
    BY <1>4 DEF IsInjective
  <1>6. a \in AgentsOf(s)
    BY <1>1, <1>2 DEF AgentsOf
  <1> QED
    BY <1>1, <1>5, <1>6 DEF Links, s

LEMMA LinkRemoved ==
  ASSUME NEW link \in Links, NEW n \in DOMAIN link
  PROVE  RemoveAt(link, n) \in Links
  <1> DEFINE p == SubSeq(link, 1, n - 1)
             q == SubSeq(link, n + 1, Len(link))
             s == RemoveAt(link, n)
  <1>0. /\ link \in Seq(Agents) /\ IsInjective(link)
        /\ DOMAIN link = 1..Len(link) /\ Len(link) \in Nat
    BY LenProperties DEF Links
  <1>1. n \in Nat /\ n >= 1 /\ n <= Len(link)
    BY <1>0
  <1>2. /\ p \in Seq(Agents) /\ Len(p) = n - 1
        /\ \A i \in 1..(n - 1) : p[i] = link[i]
    <2>1. CASE n = 1
      BY <2>1, <1>0, SubSeqEmpty, EmptySeq
    <2>2. CASE n # 1
      BY <2>2, <1>0, <1>1
    <2> QED
      BY <2>1, <2>2
  <1>3. /\ q \in Seq(Agents) /\ Len(q) = Len(link) - n
        /\ \A i \in 1..(Len(link) - n) : q[i] = link[n + i]
    BY <1>0, <1>1
  <1> HIDE DEF p, q, s
  <1>4. s = p \o q
    BY DEF RemoveAt, p, q, s
  <1>5. /\ s \in Seq(Agents) /\ Len(s) = Len(link) - 1
        /\ \A i \in 1..Len(s) : s[i] = IF i <= n - 1 THEN link[i] ELSE link[i + 1]
    <2>1. /\ p \o q \in Seq(Agents) /\ Len(p \o q) = Len(p) + Len(q)
          /\ \A i \in 1..(Len(p) + Len(q)) :
                 (p \o q)[i] = IF i <= Len(p) THEN p[i] ELSE q[i - Len(p)]
      BY <1>2, <1>3, ConcatProperties
    <2>2. ASSUME NEW i \in 1..Len(s)
          PROVE  s[i] = IF i <= n - 1 THEN link[i] ELSE link[i + 1]
      <3>1. i \in 1..(Len(p) + Len(q))
        BY <2>1, <1>4
      <3>2. CASE i <= n - 1
        BY <3>1, <3>2, <2>1, <1>1, <1>2, <1>4
      <3>3. CASE ~(i <= n - 1)
        <4>1. Len(p) = n - 1 /\ Len(q) = Len(link) - n
          BY <1>2, <1>3
        <4>2. s[i] = q[i - (n - 1)]
          BY <3>1, <3>3, <2>1, <1>4, <4>1
        <4>3. i - (n - 1) \in 1..(Len(link) - n)
          BY <3>1, <3>3, <1>0, <1>1, <4>1
        <4>4. n + (i - (n - 1)) = i + 1
          BY <1>1
        <4>5. q[i - (n - 1)] = link[i + 1]
          BY <4>3, <4>4, <1>3
        <4> QED
          BY <4>2, <4>5, <3>3
      <3> QED
        BY <3>2, <3>3
    <2>3. s \in Seq(Agents) /\ Len(s) = Len(link) - 1
      <3>1. Len(p) + Len(q) = Len(link) - 1
        BY <1>0, <1>1, <1>2, <1>3
      <3> QED
        BY <2>1, <1>4, <3>1
    <2> QED
      BY <2>2, <2>3
  <1>6. ASSUME NEW i \in DOMAIN s, NEW j \in DOMAIN s, s[i] = s[j] PROVE i = j
    <2>1. i \in 1..Len(s) /\ j \in 1..Len(s)
      BY <1>5, LenProperties
    <2>2. \A x, y \in 1..Len(link) : link[x] = link[y] => x = y
      BY <1>0 DEF IsInjective
    <2> QED
      BY <2>1, <2>2, <1>0, <1>1, <1>5, <1>6
  <1>7. IsInjective(s)
    BY <1>6 DEF IsInjective
  <1> QED
    BY <1>5, <1>7 DEF Links, s

LEMMA EditedIsLink ==
  ASSUME NEW k, CommandOK(k), k.at = "save"
  PROVE  /\ Edited(k) \in Links
         /\ k.does = "open" => k.agent \in AgentsOf(Edited(k))
  <1>0. Coding \subseteq Agents /\ Installs \subseteq Agents
    BY DEF Agents
  <1>1. CASE k.does \in {"add", "open"}
    <2>1. k.copy \in Links /\ k.agent \in Agents /\ k.agent \notin AgentsOf(k.copy)
      BY <1>1, <1>0 DEF CommandOK
    <2>2. Edited(k) = Append(k.copy, k.agent)
      BY <1>1 DEF Edited
    <2> QED
      BY <2>1, <2>2, LinkAppended
  <1>2. CASE k.does \in {"drop", "release"}
    <2> DEFINE n == CHOOSE i \in DOMAIN k.copy : k.copy[i] = k.agent
    <2>1. k.copy \in Links /\ \E i \in DOMAIN k.copy : k.copy[i] = k.agent
      BY <1>2 DEF CommandOK, AgentsOf
    <2>2. n \in DOMAIN k.copy
      BY <2>1
    <2>3. Edited(k) = RemoveAt(k.copy, n)
      BY <1>2 DEF Edited
    <2> HIDE DEF n
    <2> QED
      BY <1>2, <2>1, <2>2, <2>3, LinkRemoved
  <1>3. CASE k.does \notin {"add", "open", "drop", "release"}
    BY <1>3 DEF Edited, CommandOK
  <1> QED
    BY <1>1, <1>2, <1>3

-----------------------------------------------------------------------------
\* Commands go on as commands.
LEMMA CommandsSame ==
  ASSUME CommandsOK, cmd' = cmd
  PROVE  CommandsOK'
  BY DEF CommandsOK, Unfinished

LEMMA CommandSet ==
  ASSUME CommandsOK, NEW c \in Cmds, NEW k \in Commands, cmd' = [cmd EXCEPT ![c] = k],
         k.at \notin {"new", "done"} => CommandOK(k)
  PROVE  CommandsOK'
  <1>1. /\ cmd' \in [Cmds -> Commands] /\ cmd'[c] = k
        /\ \A d \in Cmds : d # c => cmd'[d] = cmd[d]
    BY DEF CommandsOK
  <1> QED
    BY <1>1 DEF CommandsOK, Unfinished

LEMMA NoCommand == [NoCmd EXCEPT !.at = "done"] \in Commands
  <1>1. <<>> \in Seq(Agents)
    OBVIOUS
  <1> QED
    BY <1>1 DEF NoCmd, Commands

LEMMA CommandDone ==
  ASSUME CommandsOK, NEW c \in Cmds, Done(c)
  PROVE  CommandsOK'
  <1>1. [NoCmd EXCEPT !.at = "done"].at = "done"
    BY DEF NoCmd
  <1> QED
    BY <1>1, NoCommand, CommandSet DEF Done

LEMMA CommandAt ==
  ASSUME CommandsOK, NEW c \in Cmds, Unfinished(c),
         NEW s \in {"open", "save", "restart", "restarting", "forget"},
         cmd' = [cmd EXCEPT ![c].at = s],
         s = "save" => cmd[c].does \in {"release", "models"},
         s = "open" => cmd[c].does = "open",
         s \in {"restart", "restarting"} => cmd[c].does \in {"open", "release"},
         s = "forget" => cmd[c].does = "unlink"
  PROVE  CommandsOK'
  <1> DEFINE k == [cmd[c] EXCEPT !.at = s]
  <1>1. cmd[c] \in Commands /\ CommandOK(cmd[c])
    BY DEF CommandsOK
  <1>2. k \in Commands
    BY <1>1 DEF Commands
  <1>3. /\ k.at = s /\ k.does = cmd[c].does /\ k.by = cmd[c].by /\ k.agent = cmd[c].agent
        /\ k.copy = cmd[c].copy
    BY <1>1 DEF Commands
  <1>4. CommandOK(k)
    <2> HIDE DEF k
    <2> QED
      BY <1>1, <1>3 DEF CommandOK
  <1>5. cmd' = [cmd EXCEPT ![c] = k]
    BY DEF CommandsOK
  <1> HIDE DEF k
  <1> QED
    BY <1>2, <1>4, <1>5, CommandSet

LEMMA CommandsEnd ==
  ASSUME CommandsOK,
         cmd' = [c \in Cmds |-> IF InProcess(c) THEN [NoCmd EXCEPT !.at = "done"] ELSE cmd[c]]
  PROVE  CommandsOK'
  <1> DEFINE k == [NoCmd EXCEPT !.at = "done"]
  <1>1. k \in Commands /\ k.at = "done"
    BY NoCommand DEF NoCmd
  <1> HIDE DEF k
  <1>2. cmd' = [c \in Cmds |-> IF InProcess(c) THEN k ELSE cmd[c]]
    BY DEF k
  <1>3. cmd' \in [Cmds -> Commands]
    BY <1>1, <1>2 DEF CommandsOK
  <1>4. \A c \in Cmds : Unfinished(c)' => cmd'[c] = cmd[c] /\ Unfinished(c)
    BY <1>1, <1>2 DEF Unfinished
  <1> QED
    BY <1>3, <1>4 DEF CommandsOK

LEMMA CommandLoaded ==
  ASSUME ServiceTypes, NEW c \in Cmds,
         NEW does, NEW by, NEW a \in Agents \cup {Absent}, Load(c, does, by, a)
  PROVE  /\ CommandsOK'
         /\ <<does, by>> \in ({"add", "drop", "models"} \X {"host"})
                \cup ({"add", "drop", "open", "release", "models", "unlink"} \X {"cli"})
         /\ file \in Links
  <1> DEFINE k == [at |-> IF does \in {"release", "unlink", "models"} THEN "config" ELSE "save",
                   does |-> does, by |-> by, agent |-> a, copy |-> file]
  <1>1. <<does, by>> \in ({"add", "drop", "models"} \X {"host"})
                \cup ({"add", "drop", "open", "release", "models", "unlink"} \X {"cli"})
    BY ServiceAssumption DEF Load
  <1>2. file \in Links /\ file # Absent
    BY DEF Load, Rejects, ServiceTypes
  <1>3. k \in Commands
    BY <1>1, <1>2 DEF Commands, Links
  <1>4. CommandOK(k)
    <2>1. k.does = does /\ k.by = by /\ k.agent = a /\ k.copy = file
          /\ k.at = IF does \in {"release", "unlink", "models"} THEN "config" ELSE "save"
      OBVIOUS
    <2>2. /\ does \in {"add", "drop"} => a \in Coding
          /\ does \in {"open", "release"} => a \in Installs
          /\ does \in {"add", "open"} => a \notin AgentsOf(file)
          /\ does \in {"drop", "release"} => a \in AgentsOf(file)
      BY DEF Load, Rejects
    <2> HIDE DEF k
    <2> QED
      BY <1>1, <1>2, <2>1, <2>2 DEF CommandOK
  <1>5. cmd' = [cmd EXCEPT ![c] = k] /\ CommandsOK
    BY DEF Load, ServiceTypes
  <1> HIDE DEF k
  <1> QED
    BY <1>1, <1>2, <1>3, <1>4, <1>5, CommandSet

LEMMA SavedCommand ==
  ASSUME CommandsOK, NEW c \in Cmds, cmd[c].at = "save"
  PROVE  /\ Unfinished(c) /\ CommandOK(cmd[c])
         /\ Edited(cmd[c]) \in Links
         /\ cmd[c].does = "open" => cmd[c].agent \in AgentsOf(Edited(cmd[c]))
  <1>1. Unfinished(c) /\ CommandOK(cmd[c])
    BY DEF CommandsOK, Unfinished
  <1> QED
    BY <1>1, EditedIsLink
\* The types hold, and every step keeps them.
LEMMA TypesInit == ServiceInit => ServiceTypes
  <1> SUFFICES ASSUME ServiceInit PROVE ServiceTypes
    OBVIOUS
  <1>1. First \in Links /\ <<>> \in Links
    BY ServiceAssumption DEF Links, IsInjective
  <1>2. InstallsOf(First) \subseteq Installs
    BY DEF InstallsOf
  <1>3. NoCmd \in Commands
    BY DEF NoCmd, Commands
  <1>4. CommandsOK
    BY <1>3 DEF ServiceInit, CommandsOK, Unfinished, NoCmd
  <1>5. 0 \in 0..MaxFaults
    BY ServiceAssumption
  <1> QED
    BY <1>1, <1>2, <1>4, <1>5 DEF ServiceInit, ServiceTypes, NoLook, NoProbe

LEMMA TypesStep ==
  ASSUME ServiceTypes, ServiceNext
  PROVE  ServiceTypes'
  <1>0. /\ Fault => faults' \in 0..MaxFaults
        /\ CanFault => faults + 1 \in 0..MaxFaults
        /\ Flaky \subseteq Agents
    <2>1. MaxFaults \in Nat /\ faults \in 0..MaxFaults
      BY ServiceAssumption DEF ServiceTypes
    <2> QED
      BY <2>1, ServiceAssumption DEF Fault, CanFault
  <1>1. <<>> \in Links
    BY DEF Links, IsInjective
  <1>2. \A link \in Links : link \in Seq(Agents) /\ AgentsOf(link) \subseteq Agents
                            /\ link # Absent /\ InstallsOf(link) \subseteq Installs
                            /\ Runtime(link) \in Agents \cup {Absent}
    BY ServiceAssumption, LinkAgents, RuntimeOf DEF Links
  <1>3. ASSUME TakeStop PROVE ServiceTypes'
    BY <1>3, CommandsSame DEF ServiceTypes, TakeStop, fileVars, memVars, hubVars, taskVars, ghostVars
  <1>4. ASSUME ReadReady PROVE ServiceTypes'
    BY <1>4, CommandsSame DEF ServiceTypes, ReadReady, Goes, Ready, fileVars, memVars, hubVars,
       taskVars, ghostVars
  <1>5. ASSUME Announce PROVE ServiceTypes'
    BY <1>5, <1>2, CommandsSame DEF ServiceTypes, Announce, Goes, ConnectConfig, fileVars, memVars,
       hubVars, taskVars, ghostVars
  <1>6. ASSUME Connected PROVE ServiceTypes'
    BY <1>6, CommandsSame DEF ServiceTypes, Connected, Goes, fileVars, memVars, hubVars, taskVars,
       ghostVars
  <1>7. ASSUME SaveToken PROVE ServiceTypes'
    BY <1>7, <1>0, CommandsSame DEF ServiceTypes, SaveToken, Goes, TokenSaved, fileVars, memVars,
       hubVars, taskVars, ghostVars
  <1>8. ASSUME NotConnected PROVE ServiceTypes'
    BY <1>8, <1>0, CommandsSame DEF ServiceTypes, NotConnected, Goes, fileVars, memVars, hubVars,
       taskVars, ghostVars
  <1>9. ASSUME Dropped PROVE ServiceTypes'
    BY <1>9, <1>0, CommandsSame DEF ServiceTypes, Dropped, Goes, fileVars, memVars, hubVars,
       taskVars, ghostVars
  <1>10. ASSUME Reconnect PROVE ServiceTypes'
    BY <1>10, CommandsSame DEF ServiceTypes, Reconnect, Goes, fileVars, memVars, hubVars, taskVars,
       ghostVars
  <1>11. ASSUME Again PROVE ServiceTypes'
    BY <1>11, CommandsSame DEF ServiceTypes, Again, Goes, fileVars, memVars, hubVars, taskVars,
       ghostVars
  <1>12. ASSUME FirstLook PROVE ServiceTypes'
    BY <1>12, CommandsSame DEF ServiceTypes, FirstLook, fileVars, memVars, hubVars, taskVars, ghostVars
  <1>13. ASSUME Look PROVE ServiceTypes'
    BY <1>13, <1>2, <1>0, CommandsSame DEF ServiceTypes, Look, fileVars, memVars, hubVars, taskVars,
       ghostVars
  <1>14. ASSUME LookReady PROVE ServiceTypes'
    BY <1>14, CommandsSame DEF ServiceTypes, LookReady, Ready, fileVars, memVars, hubVars, taskVars,
       ghostVars
  <1>15. ASSUME LookCompare PROVE ServiceTypes'
    BY <1>15, CommandsSame DEF ServiceTypes, LookCompare, NoLook, fileVars, memVars, hubVars,
       taskVars, ghostVars
  <1>16. ASSUME ProbeReady PROVE ServiceTypes'
    BY <1>16, CommandsSame DEF ServiceTypes, ProbeReady, Ready, fileVars, memVars, hubVars, taskVars,
       ghostVars
  <1>17. ASSUME ProbeCompare PROVE ServiceTypes'
    BY <1>17, CommandsSame DEF ServiceTypes, ProbeCompare, NoProbe, fileVars, memVars, hubVars,
       taskVars, ghostVars
  <1>18. ASSUME HubRemoves PROVE ServiceTypes'
    BY <1>18, CommandsSame DEF ServiceTypes, HubRemoves, fileVars, memVars, hubVars, taskVars,
       ghostVars
  <1>19. ASSUME Revoked PROVE ServiceTypes'
    BY <1>19, CommandsSame DEF ServiceTypes, Revoked, Goes, fileVars, memVars, hubVars, taskVars,
       ghostVars
  <1>20. ASSUME ForgetToken PROVE ServiceTypes'
    BY <1>20, CommandsSame DEF ServiceTypes, ForgetToken, Goes, fileVars, memVars, hubVars, taskVars,
       ghostVars
  <1>21. ASSUME RemoveDir PROVE ServiceTypes'
    BY <1>21, CommandsSame DEF ServiceTypes, RemoveDir, Goes, fileVars, memVars, hubVars, taskVars,
       ghostVars
  <1>22. ASSUME Start PROVE ServiceTypes'
    BY <1>22, <1>1, <1>2, CommandsSame DEF ServiceTypes, Start, NoLook, NoProbe, fileVars, memVars,
       hubVars, taskVars, ghostVars
  <1>23. ASSUME Crash PROVE ServiceTypes'
    BY <1>23, <1>1, CommandsEnd, <1>0 DEF ServiceTypes, Crash, Ends, NoLook, NoProbe, fileVars,
       memVars, hubVars, taskVars, ghostVars
  <1>24. ASSUME Stopped PROVE ServiceTypes'
    BY <1>24, <1>1, CommandsEnd DEF ServiceTypes, Stopped, Ends, NoLook, NoProbe, fileVars, memVars,
       hubVars, taskVars, ghostVars
  <1>25. ASSUME Uninstall PROVE ServiceTypes'
    BY <1>25, <1>1, CommandsEnd DEF ServiceTypes, Uninstall, NoLook, NoProbe, fileVars, memVars,
       hubVars, taskVars, ghostVars
  <1>26. ASSUME NEW a \in Flaky, Flip(a) PROVE ServiceTypes'
    BY <1>26, <1>0, CommandsSame DEF ServiceTypes, Flip, fileVars, memVars, hubVars, taskVars,
       ghostVars
  <1>27. ASSUME Reload PROVE ServiceTypes'
    BY <1>27, <1>2, CommandsSame DEF ServiceTypes, Reload, Reconcile, AnnounceChanged, fileVars,
       memVars, hubVars, taskVars, ghostVars
  <1>28. OpeningAny \subseteq Installs
    <2>1. ASSUME NEW c \in Cmds PROVE Opening(c) \subseteq Installs
      <3>1. Unfinished(c) => CommandOK(cmd[c])
        BY DEF ServiceTypes, CommandsOK
      <3> QED
        BY <3>1 DEF Opening, CommandOK, InstallsOf
    <2> QED
      BY <2>1 DEF OpeningAny
  <1>29. ASSUME GiveBackBegin PROVE ServiceTypes'
    BY <1>29, <1>2, <1>28, CommandsSame DEF ServiceTypes, GiveBackBegin, Goes, ToGiveBack, fileVars,
       memVars, hubVars, taskVars, ghostVars
  <1>30. ASSUME NEW i \in Installs, GiveBack(i) PROVE ServiceTypes'
    BY <1>30, CommandsSame DEF ServiceTypes, GiveBack, GivesBack, fileVars, memVars, hubVars, taskVars, ghostVars
  <1>31. ASSUME NEW c \in Cmds, Config(c) PROVE ServiceTypes'
    <2>1. Unfinished(c) /\ CommandOK(cmd[c])
      BY <1>31 DEF Config, Unfinished, ServiceTypes, CommandsOK
    <2>2. CommandsOK'
      BY <1>31, <2>1, CommandAt DEF Config, ServiceTypes
    <2>3. InstallsOf(cmd[c].copy) \subseteq Installs
      BY DEF InstallsOf
    <2>4. cmd[c].does = "release" => cmd[c].agent \in Installs
      BY <2>1 DEF CommandOK
    <2>5. open' \subseteq Installs /\ excused' \subseteq Installs
      BY <1>31, <2>3, <2>4 DEF Config, GivesBack, ServiceTypes
    <2>6. UNCHANGED <<fileVars, managed, hubVars, at, memVars, up, taskVars, faults>>
      BY <1>31 DEF Config
    <2> QED
      BY <2>2, <2>5, <2>6 DEF ServiceTypes, fileVars, memVars, hubVars, taskVars, ghostVars
  <1>32. ASSUME NEW c \in Cmds, Save(c) PROVE ServiceTypes'
    <2> DEFINE k == cmd[c]
    <2>1. /\ Unfinished(c) /\ CommandOK(k) /\ Edited(k) \in Links
      BY <1>32, SavedCommand DEF Save, ServiceTypes
    <2>2. CommandsOK'
      <3>1. CASE k.does = "open"
        BY <1>32, <3>1, <2>1, CommandAt DEF Save, ServiceTypes
      <3>2. CASE k.does = "release"
        BY <1>32, <3>2, <2>1, CommandAt DEF Save, ServiceTypes
      <3>3. CASE k.does \notin {"open", "release"}
        BY <1>32, <3>3, <2>1, CommandDone DEF Save, ServiceTypes
      <3> QED
        BY <3>1, <3>2, <3>3
    <2>3. k.does = "add" => k.agent \in Agents
      BY <2>1 DEF CommandOK, Agents
    <2>4. InstallsOf(file) \subseteq Installs
      BY DEF InstallsOf
    <2>5. UNCHANGED <<token, managed, hubVars, at, up, stop, taskVars, open, faults, dead>>
      BY <1>32 DEF Save
    <2>6. file' = Edited(k)
      BY <1>32 DEF Save
    <2>7. mem' \in Links /\ roster' \subseteq Agents
      <3>1. CASE k.by = "host" /\ k.does # "models"
        <4>1. HostTakes(k)
          BY <1>32, <3>1 DEF Save
        <4> QED
          BY <4>1, <2>1, <2>3 DEF HostTakes, ServiceTypes
      <3>2. CASE ~(k.by = "host" /\ k.does # "models")
        BY <1>32, <3>2 DEF Save, ServiceTypes, fileVars, memVars, hubVars, taskVars, ghostVars
      <3> QED
        BY <3>1, <3>2
    <2>8. excused' \subseteq Installs
      BY <1>32, <2>4 DEF Save, ServiceTypes
    <2> QED
      BY <2>1, <2>2, <2>5, <2>6, <2>7, <2>8 DEF ServiceTypes, fileVars, memVars, hubVars, taskVars, ghostVars
  <1>33. ASSUME NEW c \in Cmds, OpenInstall(c) PROVE ServiceTypes'
    <2>1. Unfinished(c) /\ CommandOK(cmd[c]) /\ cmd[c].does = "open"
      BY <1>33 DEF OpenInstall, Unfinished, ServiceTypes, CommandsOK, CommandOK
    <2>2. CommandsOK'
      BY <1>33, <2>1, CommandAt DEF OpenInstall, ServiceTypes
    <2>3. cmd[c].agent \in Installs
      BY <2>1 DEF CommandOK
    <2> QED
      BY <1>33, <2>2, <2>3 DEF OpenInstall, ServiceTypes, fileVars, memVars, hubVars, taskVars, ghostVars
  <1>34. ASSUME NEW c \in Cmds, Restart(c) PROVE ServiceTypes'
    <2>1. CommandsOK'
      <3>1. CASE cmd[c].at = "restart"
        <4>1. cmd[c].does \in {"open", "release"} /\ Unfinished(c)
          BY <3>1 DEF ServiceTypes, CommandsOK, CommandOK, Unfinished
        <4> QED
          BY <1>34, <3>1, <4>1, CommandAt DEF Restart, ServiceTypes
      <3>2. CASE cmd[c].at # "restart"
        BY <1>34, <3>2, CommandDone DEF Restart, ServiceTypes
      <3> QED
        BY <3>1, <3>2
    <2> QED
      BY <1>34, <2>1 DEF Restart, Serving, ServiceTypes, fileVars, memVars, hubVars, taskVars, ghostVars
  <1>35. ASSUME NEW c \in Cmds, ForgetAll(c) PROVE ServiceTypes'
    <2>1. CommandsOK'
      BY <1>35, CommandDone DEF ForgetAll, ServiceTypes
    <2> QED
      BY <1>35, <2>1 DEF ForgetAll, ServiceTypes, fileVars, memVars, hubVars, taskVars, ghostVars
  <1>36. ASSUME NEW c \in Cmds, Killed(c) PROVE ServiceTypes'
    <2>1. CommandsOK'
      BY <1>36, CommandDone DEF Killed, ServiceTypes
    <2>2. Opening(c) \subseteq Installs
      BY <1>28 DEF OpeningAny
    <2> QED
      BY <1>36, <2>1, <2>2, <1>0 DEF Killed, ServiceTypes, fileVars, memVars, hubVars, taskVars, ghostVars
  <1>37. ASSUME NEW c \in Cmds, NEW does, NEW by, NEW a \in Agents \cup {Absent}, Load(c, does, by, a) PROVE ServiceTypes'
    <2>1. CommandsOK' /\ file \in Links
      BY <1>37, CommandLoaded
    <2>2. does = "open" => a \in Installs
      BY <1>37 DEF Load
    <2>3. excused' \subseteq Installs
      BY <1>37, <1>2, <1>28, <2>1, <2>2 DEF Load, ServiceTypes
    <2> QED
      BY <1>37, <2>1, <2>3 DEF Load, Serving, ServiceTypes, fileVars, memVars, hubVars, taskVars, ghostVars
  <1> QED
    BY <1>3, <1>4, <1>5, <1>6, <1>7, <1>8, <1>9, <1>10, <1>11, <1>12, <1>13, <1>14, <1>15,
       <1>16, <1>17, <1>18, <1>19, <1>20, <1>21, <1>22, <1>23, <1>24, <1>25, <1>26, <1>27,
       <1>29, <1>30, <1>31, <1>32, <1>33, <1>34, <1>35, <1>36, <1>37 DEF ServiceNext, MainStep,
       LookStep, ProbeStep, CmdStep

LEMMA FlagsStep ==
  ASSUME Flags, ServiceNext
  PROVE  Flags'
  <1>1. ASSUME Start PROVE Flags'
    BY <1>1, Zenon DEF Flags, Start, fileVars, memVars, hubVars, taskVars, ghostVars
  <1>2. ASSUME Crash PROVE Flags'
    BY <1>2, Zenon DEF Flags, Crash, Ends, fileVars, memVars, hubVars, taskVars, ghostVars
  <1>3. ASSUME Dropped PROVE Flags'
    BY <1>3, Zenon DEF Flags, Dropped, fileVars, memVars, hubVars, taskVars, ghostVars
  <1>4. ASSUME HubRemoves PROVE Flags'
    BY <1>4, Zenon DEF Flags, HubRemoves, fileVars, memVars, hubVars, taskVars, ghostVars
  <1>5. ASSUME TakeStop PROVE Flags'
    BY <1>5, Zenon DEF Flags, TakeStop, fileVars, memVars, hubVars, taskVars, ghostVars
  <1>6. ASSUME Stopped PROVE Flags'
    BY <1>6, Zenon DEF Flags, Stopped, Ends, fileVars, memVars, hubVars, taskVars, ghostVars
  <1>7. ASSUME ReadReady PROVE Flags'
    BY <1>7, Zenon DEF Flags, ReadReady, fileVars, memVars, hubVars, taskVars, ghostVars
  <1>8. ASSUME Announce PROVE Flags'
    BY <1>8, Zenon DEF Flags, Announce, fileVars, memVars, hubVars, taskVars, ghostVars
  <1>9. ASSUME Connected PROVE Flags'
    BY <1>9, Zenon DEF Flags, Connected, fileVars, memVars, hubVars, taskVars, ghostVars
  <1>10. ASSUME SaveToken PROVE Flags'
    BY <1>10, Zenon DEF Flags, SaveToken, fileVars, memVars, hubVars, taskVars, ghostVars
  <1>11. ASSUME NotConnected PROVE Flags'
    BY <1>11, Zenon DEF Flags, NotConnected, fileVars, memVars, hubVars, taskVars, ghostVars
  <1>12. ASSUME Reconnect PROVE Flags'
    BY <1>12, Zenon DEF Flags, Reconnect, fileVars, memVars, hubVars, taskVars, ghostVars
  <1>13. ASSUME Again PROVE Flags'
    BY <1>13, Zenon DEF Flags, Again, fileVars, memVars, hubVars, taskVars, ghostVars
  <1>14. ASSUME Revoked PROVE Flags'
    BY <1>14, Zenon DEF Flags, Revoked, fileVars, memVars, hubVars, taskVars, ghostVars
  <1>15. ASSUME GiveBackBegin PROVE Flags'
    BY <1>15, Zenon DEF Flags, GiveBackBegin, fileVars, memVars, hubVars, taskVars, ghostVars
  <1>16. ASSUME ForgetToken PROVE Flags'
    BY <1>16, Zenon DEF Flags, ForgetToken, fileVars, memVars, hubVars, taskVars, ghostVars
  <1>17. ASSUME RemoveDir PROVE Flags'
    BY <1>17, Zenon DEF Flags, RemoveDir, fileVars, memVars, hubVars, taskVars, ghostVars
  <1>18. ASSUME Uninstall PROVE Flags'
    BY <1>18, Zenon DEF Flags, Uninstall, fileVars, memVars, hubVars, taskVars, ghostVars
  <1>19. ASSUME NEW i \in Installs, GiveBack(i) PROVE Flags'
    BY <1>19, Zenon DEF Flags, GiveBack, fileVars, memVars, hubVars, taskVars, ghostVars
  <1>20. ASSUME FirstLook PROVE Flags'
    BY <1>20, Zenon DEF Flags, FirstLook, fileVars, memVars, hubVars, taskVars, ghostVars
  <1>21. ASSUME Look PROVE Flags'
    BY <1>21, Zenon DEF Flags, Look, fileVars, memVars, hubVars, taskVars, ghostVars
  <1>22. ASSUME Reload PROVE Flags'
    BY <1>22, Zenon DEF Flags, Reload, fileVars, memVars, hubVars, taskVars, ghostVars
  <1>23. ASSUME LookReady PROVE Flags'
    BY <1>23, Zenon DEF Flags, LookReady, fileVars, memVars, hubVars, taskVars, ghostVars
  <1>24. ASSUME LookCompare PROVE Flags'
    BY <1>24, Zenon DEF Flags, LookCompare, fileVars, memVars, hubVars, taskVars, ghostVars
  <1>25. ASSUME ProbeReady PROVE Flags'
    BY <1>25, Zenon DEF Flags, ProbeReady, fileVars, memVars, hubVars, taskVars, ghostVars
  <1>26. ASSUME ProbeCompare PROVE Flags'
    BY <1>26, Zenon DEF Flags, ProbeCompare, fileVars, memVars, hubVars, taskVars, ghostVars
  <1>27. ASSUME NEW a \in Flaky, Flip(a) PROVE Flags'
    BY <1>27, Zenon DEF Flags, Flip, fileVars, memVars, hubVars, taskVars, ghostVars
  <1>28. ASSUME NEW c \in Cmds, Config(c) PROVE Flags'
    BY <1>28, Zenon DEF Flags, Config, fileVars, memVars, hubVars, taskVars, ghostVars
  <1>29. ASSUME NEW c \in Cmds, Save(c) PROVE Flags'
    BY <1>29, Zenon DEF Flags, Save, HostTakes, fileVars, memVars, hubVars, taskVars, ghostVars
  <1>30. ASSUME NEW c \in Cmds, OpenInstall(c) PROVE Flags'
    BY <1>30, Zenon DEF Flags, OpenInstall, fileVars, memVars, hubVars, taskVars, ghostVars
  <1>31. ASSUME NEW c \in Cmds, Restart(c) PROVE Flags'
    BY <1>31, Zenon DEF Flags, Restart, fileVars, memVars, hubVars, taskVars, ghostVars
  <1>32. ASSUME NEW c \in Cmds, ForgetAll(c) PROVE Flags'
    BY <1>32, Zenon DEF Flags, ForgetAll, fileVars, memVars, hubVars, taskVars, ghostVars
  <1>33. ASSUME NEW c \in Cmds, Killed(c) PROVE Flags'
    BY <1>33, Zenon DEF Flags, Killed, fileVars, memVars, hubVars, taskVars, ghostVars
  <1>34. ASSUME NEW c \in Cmds, NEW does, NEW by, NEW a \in Agents \cup {Absent}, Load(c, does,
     by, a) PROVE Flags'
    BY <1>34, Zenon DEF Flags, Load, fileVars, memVars, hubVars, taskVars, ghostVars
  <1> QED
    BY <1>1, <1>2, <1>3, <1>4, <1>5, <1>6, <1>7, <1>8, <1>9, <1>10, <1>11, <1>12, <1>13, <1>14,
       <1>15, <1>16, <1>17, <1>18, <1>19, <1>20, <1>21, <1>22, <1>23, <1>24, <1>25, <1>26,
       <1>27, <1>28, <1>29, <1>30, <1>31, <1>32, <1>33, <1>34, Zenon DEF ServiceNext, MainStep,
       LookStep, ProbeStep, CmdStep

-----------------------------------------------------------------------------
(* What a step does to the parts of the state the invariant relates. *)

EndsCalls ==
    cmd' = [c \in Cmds |-> IF InProcess(c) THEN [NoCmd EXCEPT !.at = "done"] ELSE cmd[c]]

CoreMoves ==
    \/ UNCHANGED <<file, open, excused, cmd>>
    \/ UNCHANGED <<file, open, excused>> /\ EndsCalls
    \/ GiveBackBegin \/ RemoveDir
    \/ \E i \in Installs : GiveBack(i)
    \/ \E c \in Cmds :
        \/ CmdStep(c) \/ Killed(c)
        \/ \E w \in Wanted[c], a \in Agents \cup {Absent} : Load(c, w[1], w[2], a)

AtMoves ==
    \/ UNCHANGED <<at, left>>
    \/ ~Unlinking' /\ ~Unlinking
    \/ at' = "down"
    \/ GiveBackBegin \/ ForgetToken \/ RemoveDir
    \/ \E i \in Installs : GiveBack(i)

MemMoves ==
    \/ UNCHANGED mem
    \/ at' = "down" \/ Start \/ Reload
    \/ \E c \in Cmds : Save(c) /\ mem' = Edited(cmd[c])

LookMoves ==
    \/ UNCHANGED look
    \/ look'.at # "read"
    \/ file # Absent /\ look'.link = file /\ UNCHANGED <<file, open, excused, cmd, stop, at>>

StopMoves ==
    Serving' => \/ Start
                \/ /\ Serving
                   /\ stop' \/ at' = "stopping" \/ (~stop /\ at # "stopping")

ManagedMoves ==
    managed' \/ ~managed \/ at' = "down" \/ (Serving' => stop')

\* Every step is one of those.
LEMMA Moves ==
  ASSUME ServiceTypes, ServiceNext
  PROVE  CoreMoves /\ AtMoves /\ MemMoves /\ LookMoves /\ StopMoves /\ ManagedMoves
  <1>1. ASSUME Start
       PROVE  CoreMoves /\ AtMoves /\ MemMoves /\ LookMoves /\ StopMoves /\ ManagedMoves
    <2>1. CoreMoves
      BY <1>1 DEF CoreMoves, Start, fileVars, memVars, hubVars, taskVars, ghostVars, EndsCalls
    <2>2. AtMoves
      BY <1>1 DEF AtMoves, Start, Goes, Unlinking, fileVars, memVars, hubVars, taskVars,
         ghostVars
    <2>3. MemMoves
      BY <1>1 DEF MemMoves
    <2>4. LookMoves
      BY <1>1 DEF LookMoves, Start, taskVars, NoLook
    <2>5. StopMoves
      BY <1>1 DEF StopMoves
    <2>6. ManagedMoves
      BY <1>1 DEF ManagedMoves, Start, Serving
    <2> QED
      BY <2>1, <2>2, <2>3, <2>4, <2>5, <2>6
  <1>2. CASE Crash \/ Stopped \/ Uninstall
    <2>1. CoreMoves
      BY <1>2 DEF CoreMoves, Crash, Stopped, Uninstall, Ends, fileVars, memVars, hubVars,
         taskVars, ghostVars, EndsCalls
    <2>2. AtMoves
      BY <1>2 DEF AtMoves, Crash, Stopped, Uninstall, Ends, Goes, Unlinking, fileVars, memVars,
         hubVars, taskVars, ghostVars
    <2>3. MemMoves
      BY <1>2 DEF MemMoves, Crash, Stopped, Uninstall, Ends, memVars
    <2>4. LookMoves
      BY <1>2 DEF LookMoves, Crash, Stopped, Uninstall, Ends, taskVars, NoLook
    <2>5. StopMoves
      BY <1>2 DEF StopMoves, Crash, Stopped, Uninstall, Ends, Goes, Serving
    <2>6. ManagedMoves
      BY <1>2 DEF ManagedMoves, Crash, Stopped, Uninstall, Ends, Serving
    <2> QED
      BY <2>1, <2>2, <2>3, <2>4, <2>5, <2>6
  <1>3. CASE TakeStop \/ ReadReady \/ Announce \/ Connected \/ SaveToken \/ NotConnected \/
     Dropped \/ Reconnect \/ Again \/ Revoked \/ HubRemoves
    <2>1. CoreMoves
      BY <1>3 DEF CoreMoves, TakeStop, ReadReady, Announce, Connected, SaveToken, NotConnected,
         Dropped, Reconnect, Again, Revoked, HubRemoves, fileVars, memVars, hubVars, taskVars,
         ghostVars, EndsCalls
    <2>2. AtMoves
      BY <1>3 DEF AtMoves, TakeStop, ReadReady, Announce, Connected, SaveToken, NotConnected,
         Dropped, Reconnect, Again, Revoked, HubRemoves, Goes, Unlinking, fileVars, memVars,
         hubVars, taskVars, ghostVars
    <2>3. MemMoves
      BY <1>3 DEF MemMoves, TakeStop, ReadReady, Announce, Connected, SaveToken, NotConnected,
         Dropped, Reconnect, Again, Revoked, HubRemoves, memVars
    <2>4. LookMoves
      BY <1>3 DEF LookMoves, TakeStop, ReadReady, Announce, Connected, SaveToken, NotConnected,
         Dropped, Reconnect, Again, Revoked, HubRemoves, taskVars, NoLook
    <2>5. StopMoves
      BY <1>3 DEF StopMoves, TakeStop, ReadReady, Announce, Connected, SaveToken, NotConnected,
         Dropped, Reconnect, Again, Revoked, HubRemoves, Goes, Serving
    <2>6. ManagedMoves
      BY <1>3 DEF ManagedMoves, TakeStop, ReadReady, Announce, Connected, SaveToken,
         NotConnected, Dropped, Reconnect, Again, Revoked, HubRemoves, Serving
    <2> QED
      BY <2>1, <2>2, <2>3, <2>4, <2>5, <2>6
  <1>4. ASSUME GiveBackBegin
       PROVE  CoreMoves /\ AtMoves /\ MemMoves /\ LookMoves /\ StopMoves /\ ManagedMoves
    <2>1. CoreMoves
      BY <1>4 DEF CoreMoves, CmdStep
    <2>2. AtMoves
      BY <1>4 DEF AtMoves
    <2>3. MemMoves
      BY <1>4 DEF MemMoves, GiveBackBegin, memVars
    <2>4. LookMoves
      BY <1>4 DEF LookMoves, GiveBackBegin, taskVars, NoLook
    <2>5. StopMoves
      BY <1>4 DEF StopMoves, GiveBackBegin, Goes, Serving
    <2>6. ManagedMoves
      BY <1>4 DEF ManagedMoves, GiveBackBegin, Serving
    <2> QED
      BY <2>1, <2>2, <2>3, <2>4, <2>5, <2>6
  <1>5. ASSUME ForgetToken
       PROVE  CoreMoves /\ AtMoves /\ MemMoves /\ LookMoves /\ StopMoves /\ ManagedMoves
    <2>1. CoreMoves
      BY <1>5 DEF CoreMoves, ForgetToken, fileVars, memVars, hubVars, taskVars, ghostVars,
         EndsCalls
    <2>2. AtMoves
      BY <1>5 DEF AtMoves
    <2>3. MemMoves
      BY <1>5 DEF MemMoves, ForgetToken, memVars
    <2>4. LookMoves
      BY <1>5 DEF LookMoves, ForgetToken, taskVars, NoLook
    <2>5. StopMoves
      BY <1>5 DEF StopMoves, ForgetToken, Goes, Serving
    <2>6. ManagedMoves
      BY <1>5 DEF ManagedMoves, ForgetToken, Serving
    <2> QED
      BY <2>1, <2>2, <2>3, <2>4, <2>5, <2>6
  <1>6. ASSUME RemoveDir
       PROVE  CoreMoves /\ AtMoves /\ MemMoves /\ LookMoves /\ StopMoves /\ ManagedMoves
    <2>1. CoreMoves
      BY <1>6 DEF CoreMoves, CmdStep
    <2>2. AtMoves
      BY <1>6 DEF AtMoves
    <2>3. MemMoves
      BY <1>6 DEF MemMoves, RemoveDir, memVars
    <2>4. LookMoves
      BY <1>6 DEF LookMoves, RemoveDir, taskVars, NoLook
    <2>5. StopMoves
      BY <1>6 DEF StopMoves, RemoveDir, Goes, Serving
    <2>6. ManagedMoves
      BY <1>6 DEF ManagedMoves, RemoveDir, Serving
    <2> QED
      BY <2>1, <2>2, <2>3, <2>4, <2>5, <2>6
  <1>7. ASSUME NEW i \in Installs, GiveBack(i)
       PROVE  CoreMoves /\ AtMoves /\ MemMoves /\ LookMoves /\ StopMoves /\ ManagedMoves
    <2>1. CoreMoves
      BY <1>7 DEF CoreMoves, CmdStep
    <2>2. AtMoves
      BY <1>7 DEF AtMoves
    <2>3. MemMoves
      BY <1>7 DEF MemMoves, GiveBack, memVars
    <2>4. LookMoves
      BY <1>7 DEF LookMoves, GiveBack, taskVars, NoLook
    <2>5. StopMoves
      BY <1>7 DEF StopMoves, GiveBack, Goes, Serving
    <2>6. ManagedMoves
      BY <1>7 DEF ManagedMoves, GiveBack, Serving
    <2> QED
      BY <2>1, <2>2, <2>3, <2>4, <2>5, <2>6
  <1>8. ASSUME Reload
       PROVE  CoreMoves /\ AtMoves /\ MemMoves /\ LookMoves /\ StopMoves /\ ManagedMoves
    <2>1. CoreMoves
      BY <1>8 DEF CoreMoves, Reload, fileVars, memVars, hubVars, taskVars, ghostVars, EndsCalls
    <2>2. AtMoves
      BY <1>8 DEF AtMoves, Reload, Goes, Unlinking, fileVars, memVars, hubVars, taskVars,
         ghostVars
    <2>3. MemMoves
      BY <1>8 DEF MemMoves
    <2>4. LookMoves
      BY <1>8 DEF LookMoves, Reload, taskVars, NoLook
    <2>5. StopMoves
      BY <1>8 DEF StopMoves, Reload, Goes, Serving
    <2>6. ManagedMoves
      BY <1>8 DEF ManagedMoves, Reload, Serving
    <2> QED
      BY <2>1, <2>2, <2>3, <2>4, <2>5, <2>6
  <1>9. CASE FirstLook \/ Look \/ LookReady \/ LookCompare
    <2>1. CoreMoves
      BY <1>9 DEF CoreMoves, FirstLook, Look, LookReady, LookCompare, fileVars, memVars,
         hubVars, taskVars, ghostVars, EndsCalls
    <2>2. AtMoves
      BY <1>9 DEF AtMoves, FirstLook, Look, LookReady, LookCompare, Goes, Unlinking, fileVars,
         memVars, hubVars, taskVars, ghostVars
    <2>3. MemMoves
      BY <1>9 DEF MemMoves, FirstLook, Look, LookReady, LookCompare, memVars
    <2>4. LookMoves
      BY <1>9 DEF LookMoves, FirstLook, Look, LookReady, LookCompare, taskVars, NoLook,
         fileVars, ServiceTypes
    <2>5. StopMoves
      BY <1>9 DEF StopMoves, FirstLook, Look, LookReady, LookCompare, Goes, Serving
    <2>6. ManagedMoves
      BY <1>9 DEF ManagedMoves, FirstLook, Look, LookReady, LookCompare, Serving
    <2> QED
      BY <2>1, <2>2, <2>3, <2>4, <2>5, <2>6
  <1>10. CASE ProbeStep \/ \E a \in Flaky : Flip(a)
    <2>1. CoreMoves
      BY <1>10 DEF CoreMoves, ProbeStep, ProbeReady, ProbeCompare, Flip, fileVars, memVars,
         hubVars, taskVars, ghostVars, EndsCalls
    <2>2. AtMoves
      BY <1>10 DEF AtMoves, ProbeStep, ProbeReady, ProbeCompare, Flip, Goes, Unlinking,
         fileVars, memVars, hubVars, taskVars, ghostVars
    <2>3. MemMoves
      BY <1>10 DEF MemMoves, ProbeStep, ProbeReady, ProbeCompare, Flip, memVars
    <2>4. LookMoves
      BY <1>10 DEF LookMoves, ProbeStep, ProbeReady, ProbeCompare, Flip, taskVars, NoLook
    <2>5. StopMoves
      BY <1>10 DEF StopMoves, ProbeStep, ProbeReady, ProbeCompare, Flip, Goes, Serving
    <2>6. ManagedMoves
      BY <1>10 DEF ManagedMoves, ProbeStep, ProbeReady, ProbeCompare, Flip, Serving
    <2> QED
      BY <2>1, <2>2, <2>3, <2>4, <2>5, <2>6
  <1>11. ASSUME NEW c \in Cmds, Config(c) \/ OpenInstall(c) \/ ForgetAll(c) \/ Killed(c)
       PROVE  CoreMoves /\ AtMoves /\ MemMoves /\ LookMoves /\ StopMoves /\ ManagedMoves
    <2>1. CoreMoves
      BY <1>11 DEF CoreMoves, CmdStep
    <2>2. AtMoves
      BY <1>11 DEF AtMoves, Config, OpenInstall, ForgetAll, Killed, Goes, Unlinking, fileVars,
         memVars, hubVars, taskVars, ghostVars
    <2>3. MemMoves
      BY <1>11 DEF MemMoves, Config, OpenInstall, ForgetAll, Killed, memVars
    <2>4. LookMoves
      BY <1>11 DEF LookMoves, Config, OpenInstall, ForgetAll, Killed, taskVars, NoLook
    <2>5. StopMoves
      BY <1>11 DEF StopMoves, Config, OpenInstall, ForgetAll, Killed, Goes, Serving
    <2>6. ManagedMoves
      BY <1>11 DEF ManagedMoves, Config, OpenInstall, ForgetAll, Killed, Serving
    <2> QED
      BY <2>1, <2>2, <2>3, <2>4, <2>5, <2>6
  <1>12. ASSUME NEW c \in Cmds, Save(c)
       PROVE  CoreMoves /\ AtMoves /\ MemMoves /\ LookMoves /\ StopMoves /\ ManagedMoves
    <2>1. CoreMoves
      BY <1>12 DEF CoreMoves, CmdStep
    <2>2. AtMoves
      BY <1>12 DEF AtMoves, Save, HostTakes, Goes, Unlinking, fileVars, memVars, hubVars,
         taskVars, ghostVars
    <2>3. MemMoves
      BY <1>12 DEF MemMoves, Save, HostTakes, memVars
    <2>4. LookMoves
      BY <1>12 DEF LookMoves, Save, HostTakes, taskVars, NoLook
    <2>5. StopMoves
      BY <1>12 DEF StopMoves, Save, HostTakes, Goes, Serving
    <2>6. ManagedMoves
      BY <1>12 DEF ManagedMoves, Save, HostTakes, Serving
    <2> QED
      BY <2>1, <2>2, <2>3, <2>4, <2>5, <2>6
  <1>13. ASSUME NEW c \in Cmds, Restart(c)
       PROVE  CoreMoves /\ AtMoves /\ MemMoves /\ LookMoves /\ StopMoves /\ ManagedMoves
    <2>1. CoreMoves
      BY <1>13 DEF CoreMoves, CmdStep
    <2>2. AtMoves
      BY <1>13 DEF AtMoves, Restart, Goes, Unlinking, fileVars, memVars, hubVars, taskVars,
         ghostVars
    <2>3. MemMoves
      BY <1>13 DEF MemMoves, Restart, memVars
    <2>4. LookMoves
      BY <1>13 DEF LookMoves, Restart, taskVars, NoLook
    <2>5. StopMoves
      BY <1>13 DEF StopMoves, Restart, Goes, Serving
    <2>6. ManagedMoves
      BY <1>13 DEF ManagedMoves, Restart, Serving
    <2> QED
      BY <2>1, <2>2, <2>3, <2>4, <2>5, <2>6
  <1>14. ASSUME NEW c \in Cmds, NEW w \in Wanted[c], NEW a \in Agents \cup {Absent}, Load(c,
     w[1], w[2], a)
       PROVE  CoreMoves /\ AtMoves /\ MemMoves /\ LookMoves /\ StopMoves /\ ManagedMoves
    <2>1. CoreMoves
      BY <1>14 DEF CoreMoves, CmdStep
    <2>2. AtMoves
      BY <1>14 DEF AtMoves, Load, Goes, Unlinking, fileVars, memVars, hubVars, taskVars,
         ghostVars
    <2>3. MemMoves
      BY <1>14 DEF MemMoves, Load, memVars
    <2>4. LookMoves
      BY <1>14 DEF LookMoves, Load, taskVars, NoLook
    <2>5. StopMoves
      BY <1>14 DEF StopMoves, Load, Goes, Serving
    <2>6. ManagedMoves
      BY <1>14 DEF ManagedMoves, Load, Serving
    <2> QED
      BY <2>1, <2>2, <2>3, <2>4, <2>5, <2>6
  <1> QED
    BY <1>1, <1>2, <1>3, <1>4, <1>5, <1>6, <1>7, <1>8, <1>9, <1>10, <1>11, <1>12, <1>13, <1>14
       DEF ServiceNext, MainStep, LookStep, ProbeStep, CmdStep

\* What the steps of a command do to the commands.
LEMMA CommandEffects ==
  ASSUME ServiceTypes, NEW c \in Cmds, CmdStep(c) \/ Killed(c)
  PROVE  /\ Unfinished(c)
         /\ \A d \in Cmds : d # c => cmd'[d] = cmd[d]
         /\ \/ cmd'[c].at = "done"
            \/ /\ cmd'[c].at \in {"open", "save", "restart", "restarting", "forget"}
               /\ cmd'[c].does = cmd[c].does /\ cmd'[c].agent = cmd[c].agent
               /\ cmd'[c].copy = cmd[c].copy
  <1>1. Unfinished(c)
    BY DEF CmdStep, Config, Save, OpenInstall, Restart, ForgetAll, Killed, Unfinished
  <1>2. cmd \in [Cmds -> Commands]
    BY DEF ServiceTypes, CommandsOK
  <1>3. CASE Done(c)
    BY <1>1, <1>2, <1>3 DEF Done, NoCmd
  <1>4. CASE \E s \in {"open", "save", "restart", "restarting", "forget"} :
                 cmd' = [cmd EXCEPT ![c].at = s]
    BY <1>1, <1>2, <1>4 DEF Commands
  <1>5. \/ Done(c)
        \/ \E s \in {"open", "save", "restart", "restarting", "forget"} :
               cmd' = [cmd EXCEPT ![c].at = s]
    BY DEF CmdStep, Config, Save, OpenInstall, Restart, ForgetAll, Killed
  <1> QED
    BY <1>3, <1>4, <1>5

LEMMA EndsEffects ==
  ASSUME ServiceTypes, EndsCalls, NEW d \in Cmds
  PROVE  /\ Unfinished(d)' => cmd'[d] = cmd[d]
         /\ Opens(d) => cmd'[d] = cmd[d]
  <1>1. Opens(d) => cmd[d].by = "cli"
    BY DEF Opens, ServiceTypes, CommandsOK, CommandOK
  <1>2. [NoCmd EXCEPT !.at = "done"].at = "done"
    BY DEF NoCmd
  <1>3. cmd'[d] = IF InProcess(d) THEN [NoCmd EXCEPT !.at = "done"] ELSE cmd[d]
    BY DEF EndsCalls
  <1> QED
    BY <1>1, <1>2, <1>3 DEF Unfinished, InProcess

LEMMA LoadEffects ==
  ASSUME ServiceTypes, NEW c \in Cmds, NEW does, NEW by, NEW a \in Agents \cup {Absent},
         Load(c, does, by, a)
  PROVE  /\ ~Unfinished(c)
         /\ \A d \in Cmds : d # c => cmd'[d] = cmd[d]
         /\ cmd'[c].at = IF does \in {"release", "unlink", "models"} THEN "config" ELSE "save"
         /\ cmd'[c].does = does /\ cmd'[c].agent = a /\ cmd'[c].copy = file
  BY DEF Load, Unfinished, ServiceTypes, CommandsOK

\* An owner's command that opens an install is done only once the service that
\* runs has the link it wrote.
LEMMA PendingStep ==
  ASSUME ServiceTypes, ServiceNext, NEW c \in Cmds, Opens(c)
  PROVE  \/ Opens(c)' /\ cmd'[c].agent = cmd[c].agent
         \/ cmd[c].agent \in excused'
         \/ cmd[c].at = "restarting" /\ ~stop /\ at # "stopping"
            /\ UNCHANGED <<file, open, excused, mem, look>>
  <1>1. CASE cmd'[c] = cmd[c]
    BY <1>1 DEF Opens, Unfinished
  <1>2. ASSUME CmdStep(c)
        PROVE  \/ Opens(c)' /\ cmd'[c].agent = cmd[c].agent
               \/ cmd[c].at = "restarting" /\ ~stop /\ at # "stopping"
                  /\ UNCHANGED <<file, open, excused, mem, look>>
    <2>1. cmd[c].does = "open"
      BY DEF Opens
    <2>2. CommandOK(cmd[c])
      BY DEF Opens, ServiceTypes, CommandsOK
    <2>3. CASE cmd'[c].at # "done"
      BY <1>2, <2>1, <2>3, CommandEffects DEF Opens, Unfinished
    <2>4. CASE cmd'[c].at = "done"
      <3>1. ~Config(c) /\ ~OpenInstall(c) /\ ~ForgetAll(c)
        <4>1. cmd \in [Cmds -> Commands]
          BY DEF ServiceTypes, CommandsOK
        <4> QED
          BY <2>1, <2>2, <2>4, <4>1 DEF Config, OpenInstall, ForgetAll, Commands, CommandOK
      <3>2. ~Save(c)
        <4>1. cmd \in [Cmds -> Commands]
          BY DEF ServiceTypes, CommandsOK
        <4> QED
          BY <2>1, <2>4, <4>1 DEF Save, Commands
      <3>3. Restart(c)
        BY <1>2, <3>1, <3>2 DEF CmdStep
      <3>4. cmd[c].at # "restart"
        <4>1. cmd \in [Cmds -> Commands]
          BY DEF ServiceTypes, CommandsOK
        <4> QED
          BY <2>4, <3>3, <4>1 DEF Restart, Commands
      <3> QED
        BY <3>3, <3>4 DEF Restart, fileVars, memVars, taskVars, ghostVars
    <2> QED
      BY <2>3, <2>4
  <1>3. CASE Killed(c)
    BY <1>3 DEF Killed, Opens, Opening
  <1>4. CASE CoreMoves /\ cmd'[c] # cmd[c]
    <2>1. CASE EndsCalls
      BY <1>4, <2>1, EndsEffects
    <2>2. CASE cmd' = cmd
      BY <1>4, <2>2
    <2>3. ASSUME NEW d \in Cmds, CmdStep(d) \/ Killed(d) PROVE d = c
      BY <1>4, <2>3, CommandEffects
    <2>4. ASSUME NEW d \in Cmds, NEW w \in Wanted[d], NEW a \in Agents \cup {Absent},
                 Load(d, w[1], w[2], a)
          PROVE  FALSE
      BY <1>4, <2>4, LoadEffects DEF Opens
    <2>5. GiveBackBegin \/ RemoveDir \/ (\E i \in Installs : GiveBack(i)) => cmd' = cmd
      BY DEF GiveBackBegin, RemoveDir, GiveBack
    <2> QED
      BY <1>2, <1>3, <1>4, <2>1, <2>2, <2>3, <2>4, <2>5 DEF CoreMoves
  <1> QED
    BY <1>1, <1>4, Moves

\* What need not be known of only grows, and covers what a command may yet open.
LEMMA ExcusedStep ==
  ASSUME ServiceTypes, ServiceNext
  PROVE  excused \subseteq excused'
  <1>1. \A c \in Cmds : CmdStep(c) => excused \subseteq excused'
    BY DEF CmdStep, Config, Save, OpenInstall, Restart, ForgetAll, ghostVars
  <1> QED
    BY Moves, <1>1 DEF CoreMoves, GiveBackBegin, RemoveDir, GiveBack, Killed, Load, ghostVars

\* A command under way goes on as it was.
GoesOn(d) ==
    Unfinished(d)' => /\ Unfinished(d)
                      /\ cmd'[d].does = cmd[d].does /\ cmd'[d].agent = cmd[d].agent
                      /\ cmd'[d].copy = cmd[d].copy

LEMMA OpeningShrinks ==
  ASSUME \A d \in Cmds : GoesOn(d)
  PROVE  OpeningAny' \subseteq OpeningAny
  <1>1. \A d \in Cmds : Opening(d)' \subseteq Opening(d)
    BY DEF GoesOn, Opening, InstallsOf
  <1> QED
    BY <1>1 DEF OpeningAny

LEMMA GoesOnStep ==
  ASSUME ServiceTypes, ServiceNext
  PROVE  \/ \A d \in Cmds : GoesOn(d)
         \/ \E c \in Cmds : \E w \in Wanted[c], a \in Agents \cup {Absent} : Load(c, w[1], w[2], a)
  <1>1. CASE cmd' = cmd
    BY <1>1 DEF GoesOn, Unfinished
  <1>2. CASE EndsCalls
    BY <1>2, EndsEffects DEF GoesOn, Unfinished
  <1>3. ASSUME NEW c \in Cmds, CmdStep(c) \/ Killed(c)
        PROVE  \A d \in Cmds : GoesOn(d)
    BY <1>3, CommandEffects DEF GoesOn, Unfinished
  <1>4. GiveBackBegin \/ RemoveDir \/ (\E i \in Installs : GiveBack(i)) => cmd' = cmd
    BY DEF GiveBackBegin, RemoveDir, GiveBack
  <1> QED
    BY Moves, <1>1, <1>2, <1>3, <1>4 DEF CoreMoves

LEMMA UnlinkingStep ==
  ASSUME ServiceTypes, ServiceNext, Unlinking', ~Unlinking
  PROVE  GiveBackBegin
  BY Moves DEF AtMoves, Unlinking, ForgetToken, RemoveDir, GiveBack, Goes

LEMMA UnlinkExcusesStep ==
  ASSUME ServiceTypes, UnlinkExcuses, ServiceNext
  PROVE  UnlinkExcuses'
  <1> SUFFICES ASSUME Unlinks'
               PROVE  OpeningAny' \subseteq excused'
    BY DEF UnlinkExcuses
  <1>1. ASSUME NEW c \in Cmds, NEW w \in Wanted[c], NEW a \in Agents \cup {Absent},
               Load(c, w[1], w[2], a)
        PROVE  OpeningAny' \subseteq excused'
    <2> DEFINE does == w[1]
    <2>1. /\ ~Unfinished(c)
          /\ \A d \in Cmds : d # c => cmd'[d] = cmd[d]
          /\ cmd'[c].at = IF does \in {"release", "unlink", "models"} THEN "config" ELSE "save"
          /\ cmd'[c].does = does /\ cmd'[c].agent = a /\ cmd'[c].copy = file
      BY <1>1, LoadEffects
    <2>2. \A d \in Cmds : d # c => Opening(d)' = Opening(d)
      BY <2>1 DEF Opening, Unfinished, InstallsOf
    <2>3. excused' = excused \cup
           (CASE does = "unlink" -> OpeningAny
              [] does = "open" /\ Unlinks -> {a}
              [] does = "models" /\ Unlinks -> InstallsOf(file)
              [] OTHER -> {})
      BY <1>1 DEF Load
    <2>4. Opening(c)' = IF does = "open" THEN {a}
                        ELSE IF does = "models" THEN InstallsOf(file) ELSE {}
      <3>1. Unfinished(c)'
        BY <2>1 DEF Unfinished
      <3> QED
        BY <2>1, <3>1 DEF Opening, InstallsOf
    <2> HIDE DEF does
    <2>5. CASE does = "unlink"
      <3>1. Opening(c)' = {} /\ excused' = excused \cup OpeningAny
        BY <2>3, <2>4, <2>5
      <3> QED
        BY <2>2, <3>1 DEF OpeningAny
    <2>6. CASE does # "unlink"
      <3>1. at' = at
        BY <1>1 DEF Load
      <3>2. Unlinks
        BY <2>1, <2>6, <3>1 DEF Unlinks, Unlinking
      <3>3. OpeningAny \subseteq excused
        BY <3>2 DEF UnlinkExcuses
      <3>4. Opening(c)' \subseteq excused'
        BY <2>3, <2>4, <3>2
      <3>5. \A d \in Cmds : Opening(d)' \subseteq excused'
        BY <2>2, <2>3, <3>3, <3>4 DEF OpeningAny
      <3> QED
        BY <3>5 DEF OpeningAny
    <2> QED
      BY <2>5, <2>6
  <1>2. CASE \A d \in Cmds : GoesOn(d)
    <2>1. OpeningAny' \subseteq OpeningAny
      BY <1>2, OpeningShrinks
    <2>2. CASE Unlinks
      BY <2>1, <2>2, ExcusedStep DEF UnlinkExcuses
    <2>3. CASE GiveBackBegin
      BY <2>1, <2>3 DEF GiveBackBegin
    <2>4. CASE ~Unlinks /\ ~GiveBackBegin
      <3>1. ~Unlinking'
        BY <2>4, UnlinkingStep DEF Unlinks
      <3>2. PICK c \in Cmds : cmd'[c].does = "unlink" /\ cmd'[c].at \in {"config", "forget"}
        BY <3>1 DEF Unlinks, Unlinking
      <3>3. Unfinished(c) /\ cmd[c].does = "unlink"
        BY <1>2, <3>2 DEF GoesOn, Unfinished
      <3>4. cmd[c].at \in {"config", "forget"}
        <4>1. CommandsOK
          BY DEF ServiceTypes
        <4> QED
          BY <3>3, <4>1 DEF CommandsOK, CommandOK, Commands, Unfinished
      <3> QED
        BY <2>4, <3>3, <3>4 DEF Unlinks
    <2> QED
      BY <2>2, <2>3, <2>4
  <1> QED
    BY <1>1, <1>2, GoesOnStep

-----------------------------------------------------------------------------
(* The installs an unlinking has to know of, and where they are listed.      *)

LEMMA OpenedExcused ==
  ASSUME ServiceTypes, NEW c \in Cmds, Opens(c)
  PROVE  cmd[c].agent \in OpeningAny /\ cmd[c].agent \in Pending /\ cmd[c].agent \in Installs
  <1>1. cmd[c].agent \in Opening(c)
    BY DEF Opens, Opening
  <1>2. cmd[c].agent \in Installs
    BY DEF Opens, ServiceTypes, CommandsOK, CommandOK
  <1> QED
    BY <1>1, <1>2 DEF OpeningAny, Pending

\* Only an owner's command brings an install that matters, one the link lists.
LEMMA OwedStep ==
  ASSUME ServiceTypes, ServiceNext
  PROVE  \/ Owed' \subseteq Owed
         \/ \E c \in Cmds : /\ OpenInstall(c) /\ Opens(c) /\ cmd[c].at = "open"
                            /\ Owed' \subseteq Owed \cup {cmd[c].agent}
  <1>0. excused \subseteq excused'
    BY ExcusedStep
  <1>1. UNCHANGED open => Owed' \subseteq Owed
    BY <1>0 DEF Owed
  <1>2. ASSUME NEW c \in Cmds, CmdStep(c)
        PROVE  \/ Owed' \subseteq Owed
               \/ /\ OpenInstall(c) /\ Opens(c) /\ cmd[c].at = "open"
                  /\ Owed' \subseteq Owed \cup {cmd[c].agent}
    <2>1. CASE Config(c)
      BY <2>1, <1>0 DEF Config, GivesBack, Owed
    <2>2. CASE OpenInstall(c)
      <3>1. Opens(c) /\ cmd[c].at = "open"
        BY <2>2 DEF OpenInstall, Opens, Unfinished, ServiceTypes, CommandsOK, CommandOK
      <3> QED
        BY <2>2, <3>1, <1>0 DEF OpenInstall, Owed
    <2>3. CASE Save(c) \/ Restart(c) \/ ForgetAll(c)
      <3>1. \A d \in Cmds : Save(d) => UNCHANGED open
        BY DEF Save
      <3>2. \A d \in Cmds : Restart(d) \/ ForgetAll(d) => UNCHANGED open
        BY DEF Restart, ForgetAll
      <3> QED
        BY <2>3, <3>1, <3>2, <1>1
    <2> QED
      BY <1>2, <2>1, <2>2, <2>3 DEF CmdStep
  <1>3. ASSUME NEW i \in Installs, GiveBack(i)
        PROVE  Owed' \subseteq Owed
    BY <1>3, <1>0 DEF GiveBack, GivesBack, Owed
  <1>4. GiveBackBegin \/ RemoveDir => UNCHANGED open
    BY DEF GiveBackBegin, RemoveDir
  <1>5. \A c \in Cmds : Killed(c) => UNCHANGED open
    BY DEF Killed
  <1>6. \A c \in Cmds : \A w \in Wanted[c], a \in Agents \cup {Absent} :
            Load(c, w[1], w[2], a) => UNCHANGED open
    BY DEF Load
  <1> QED
    BY Moves, <1>1, <1>2, <1>3, <1>4, <1>5, <1>6 DEF CoreMoves

LEMMA OwedBounds ==
  ASSUME ServiceTypes, FileLists, OpenedIsListed, UnlinkExcuses, ServiceNext
  PROVE  /\ Owed' \subseteq Owed \cup Pending
         /\ Unlinks => Owed' \subseteq Owed
         /\ file = Absent => Owed' = {}
         /\ file # Absent => Owed' \subseteq AgentsOf(file)
  <1>1. CASE Owed' \subseteq Owed
    BY <1>1 DEF FileLists
  <1>2. ASSUME NEW c \in Cmds, OpenInstall(c), Opens(c), cmd[c].at = "open",
               Owed' \subseteq Owed \cup {cmd[c].agent}
        PROVE  /\ Owed' \subseteq Owed \cup Pending
               /\ Unlinks => Owed' \subseteq Owed
               /\ file = Absent => Owed' = {}
               /\ file # Absent => Owed' \subseteq AgentsOf(file)
    <2>1. cmd[c].agent \in OpeningAny /\ cmd[c].agent \in Pending
      BY <1>2, OpenedExcused
    <2>2. cmd[c].agent \in excused \/ InFile(cmd[c].agent)
      BY <1>2 DEF OpenedIsListed
    <2>3. cmd[c].agent \in excused => Owed' \subseteq Owed
      BY <1>2, ExcusedStep DEF Owed
    <2> QED
      BY <1>2, <2>1, <2>2, <2>3 DEF UnlinkExcuses, InFile, FileLists
  <1> QED
    BY <1>1, <1>2, OwedStep

LEMMA UnlinkCommand ==
  ASSUME NEW c \in Cmds, cmd[c].does = "unlink", cmd[c].at \in {"config", "forget"}
  PROVE  Unlinks
  BY DEF Unlinks

\* Every step keeps each part of the invariant.
LEMMA FileListsStep ==
  ASSUME ServiceTypes, FileLists, OpenedIsListed, UnlinkExcuses, CopyLists, LeftLists, ServiceNext
  PROVE  FileLists'
  <1>1. CASE file' = file
    BY <1>1, OwedBounds DEF FileLists, AgentsOf
  <1>2. ASSUME NEW c \in Cmds, Save(c) PROVE FileLists'
    <2>1. file' = Edited(cmd[c]) /\ file' # Absent
      <3>1. file' = Edited(cmd[c]) /\ cmd[c].at = "save"
        BY <1>2 DEF Save
      <3>2. Edited(cmd[c]) \in Links
        BY <3>1, SavedCommand DEF ServiceTypes
      <3>3. Absent \notin Links
        BY ServiceAssumption DEF Links
      <3> QED
        BY <3>1, <3>2, <3>3
    <2>2. CASE file = Absent
      BY <1>2, <2>1, <2>2, OwedBounds DEF FileLists
    <2>3. CASE file # Absent
      <3>1. excused' = excused \cup ((InstallsOf(file) \ InstallsOf(Edited(cmd[c])))
                                     \cap (open \cup OpeningAny))
        BY <1>2, <2>3 DEF Save
      <3>2. Owed \subseteq InstallsOf(file)
        BY <2>3 DEF FileLists, Owed, InstallsOf, AgentsOf, ServiceTypes
      <3>3. InstallsOf(file') \subseteq AgentsOf(file')
        BY DEF InstallsOf, AgentsOf
      <3>4. open' = open
        BY <1>2 DEF Save
      <3>5. Owed' \subseteq InstallsOf(file')
        BY <2>1, <3>1, <3>2, <3>4 DEF Owed
      <3> QED
        BY <2>1, <3>3, <3>5 DEF FileLists, AgentsOf, InstallsOf
    <2> QED
      BY <2>2, <2>3
  <1>3. ASSUME NEW c \in Cmds, ForgetAll(c) PROVE FileLists'
    <2>1. cmd[c].at = "forget" /\ Unfinished(c)
      BY <1>3 DEF ForgetAll, Unfinished
    <2>2. cmd[c].does = "unlink"
      BY <2>1 DEF ServiceTypes, CommandsOK, CommandOK
    <2>3. Owed = {} /\ Unlinks
      BY <2>1, <2>2, UnlinkCommand DEF CopyLists
    <2> QED
      BY <1>3, <2>3, OwedBounds DEF ForgetAll, FileLists
  <1>4. CASE RemoveDir
    <2>1. Owed = {} /\ Unlinks
      BY <1>4 DEF RemoveDir, Goes, LeftLists, Unlinks, Unlinking
    <2> QED
      BY <1>4, <2>1, OwedBounds DEF RemoveDir, FileLists
  <1>5. \A c \in Cmds : CmdStep(c) => file' = file \/ Save(c) \/ ForgetAll(c)
    BY DEF CmdStep, Config, OpenInstall, Restart, fileVars
  <1>6. GiveBackBegin \/ (\E i \in Installs : GiveBack(i)) => file' = file
    BY DEF GiveBackBegin, GiveBack, fileVars
  <1>7. \A c \in Cmds : Killed(c) => file' = file
    BY DEF Killed, fileVars
  <1>8. \A c \in Cmds : \A w \in Wanted[c], a \in Agents \cup {Absent} :
            Load(c, w[1], w[2], a) => file' = file
    BY DEF Load, fileVars
  <1> QED
    BY Moves, <1>1, <1>2, <1>3, <1>4, <1>5, <1>6, <1>7, <1>8 DEF CoreMoves

LEMMA OpenedIsListedStep ==
  ASSUME ServiceTypes, OpenedIsListed, UnlinkExcuses, CopyLists, LeftLists, ServiceNext
  PROVE  OpenedIsListed'
  <1> SUFFICES ASSUME NEW d \in Cmds, Opens(d)', cmd'[d].at \in {"open", "restart", "restarting"}
               PROVE  cmd'[d].agent \in excused' \/ InFile(cmd[d].agent)'
    BY DEF OpenedIsListed
  <1>0. excused \subseteq excused'
    BY ExcusedStep
  <1>1. ASSUME NEW c \in Cmds, NEW w \in Wanted[c], NEW a \in Agents \cup {Absent},
               Load(c, w[1], w[2], a)
        PROVE  cmd'[d] = cmd[d] /\ UNCHANGED file
    <2>1. cmd'[c].at \in {"config", "save"} /\ (d # c => cmd'[d] = cmd[d])
      BY <1>1, LoadEffects
    <2>2. UNCHANGED file
      BY <1>1 DEF Load, fileVars
    <2> QED
      BY <2>1, <2>2
  <1>2. ASSUME NEW c \in Cmds, CmdStep(c) \/ Killed(c), c = d
        PROVE  \/ Save(d) /\ cmd[d].does = "open" /\ cmd'[d].agent = cmd[d].agent
               \/ /\ Opens(d) /\ cmd[d].at \in {"open", "restart", "restarting"}
                  /\ cmd'[d].agent = cmd[d].agent /\ UNCHANGED file
    <2>0. cmd'[d].at # "done"
      BY DEF Opens, Unfinished
    <2>1. Opens(d) /\ cmd'[d].agent = cmd[d].agent
      BY <1>2, <2>0, CommandEffects DEF Opens
    <2>2. cmd \in [Cmds -> Commands] /\ CommandOK(cmd[d]) /\ cmd[d].does = "open"
      BY <2>1 DEF ServiceTypes, CommandsOK, Opens
    <2>3. ~Config(d) /\ ~ForgetAll(d)
      BY <2>2 DEF Config, ForgetAll, CommandOK
    <2>4. ~Killed(d)
      BY <2>0, <2>2 DEF Killed, Done, NoCmd
    <2>5. CASE OpenInstall(d) \/ Restart(d)
      BY <2>1, <2>5 DEF OpenInstall, Restart, fileVars
    <2> QED
      BY <1>2, <2>1, <2>2, <2>3, <2>4, <2>5 DEF CmdStep
  <1>3. ASSUME NEW c \in Cmds, CmdStep(c) \/ Killed(c), c # d
        PROVE  cmd'[d] = cmd[d] /\ (UNCHANGED file \/ Save(c) \/ ForgetAll(c))
    <2>1. cmd'[d] = cmd[d]
      BY <1>3, CommandEffects
    <2> QED
      BY <1>3, <2>1 DEF CmdStep, Config, OpenInstall, Restart, Killed, fileVars
  <1>4. CASE Opens(d) /\ cmd[d].at \in {"open", "restart", "restarting"}
             /\ cmd'[d].agent = cmd[d].agent /\ UNCHANGED file
    BY <1>0, <1>4 DEF OpenedIsListed, InFile, AgentsOf
  <1>5. CASE cmd'[d] = cmd[d]
    <2>1. Opens(d) /\ cmd[d].at \in {"open", "restart", "restarting"}
      BY <1>5 DEF Opens, Unfinished
    <2>2. /\ cmd[d].agent \in excused \/ InFile(cmd[d].agent)
          /\ cmd[d].agent \in OpeningAny /\ cmd[d].agent \in Installs
      BY <2>1, OpenedExcused DEF OpenedIsListed
    <2>3. CASE UNCHANGED file
      BY <1>4, <1>5, <2>1, <2>3
    <2>4. CASE Unlinks
      BY <1>0, <1>5, <2>2, <2>4 DEF UnlinkExcuses
    <2>5. ASSUME NEW c \in Cmds, Save(c)
          PROVE  cmd[d].agent \in excused' \/ InFile(cmd[d].agent)'
      <3>1. file' = Edited(cmd[c]) /\ cmd[c].at = "save"
        BY <2>5 DEF Save
      <3>2. file' # Absent
        <4>1. Edited(cmd[c]) \in Links
          BY <3>1, SavedCommand DEF ServiceTypes
        <4> QED
          BY <3>1, <4>1, ServiceAssumption DEF Links
      <3>3. CASE cmd[d].agent \in excused
        BY <1>0, <3>3
      <3>4. CASE InFile(cmd[d].agent)
        <4>1. excused' = excused \cup ((InstallsOf(file) \ InstallsOf(Edited(cmd[c])))
                                       \cap (open \cup OpeningAny))
          BY <2>5, <3>4 DEF Save, InFile
        <4>2. cmd[d].agent \in InstallsOf(file)
          BY <2>2, <3>4 DEF InFile, InstallsOf, AgentsOf
        <4>3. cmd[d].agent \in InstallsOf(file') => cmd[d].agent \in AgentsOf(file')
          BY DEF InstallsOf, AgentsOf
        <4>4. InFile(cmd[d].agent)' <=> cmd'[d].agent \in AgentsOf(file')
          BY <1>5, <3>2 DEF InFile, AgentsOf
        <4> QED
          BY <1>5, <2>2, <3>1, <4>1, <4>2, <4>3, <4>4
      <3> QED
        BY <2>2, <3>3, <3>4
    <2>6. CASE RemoveDir
      BY <2>4, <2>6 DEF RemoveDir, Goes, Unlinks, Unlinking
    <2>7. ASSUME NEW c \in Cmds, ForgetAll(c) PROVE Unlinks
      <3>1. cmd[c].at = "forget" /\ Unfinished(c)
        BY <2>7 DEF ForgetAll, Unfinished
      <3> QED
        BY <3>1, UnlinkCommand DEF ServiceTypes, CommandsOK, CommandOK
    <2>8. UNCHANGED file \/ RemoveDir \/ (\E c \in Cmds : Save(c) \/ ForgetAll(c))
      <3>1. GiveBackBegin \/ (\E i \in Installs : GiveBack(i)) => UNCHANGED file
        BY DEF GiveBackBegin, GiveBack, fileVars
      <3>2. \A c \in Cmds : CmdStep(c) \/ Killed(c) => UNCHANGED file \/ Save(c) \/ ForgetAll(c)
        BY DEF CmdStep, Config, OpenInstall, Restart, Killed, fileVars
      <3>3. \A c \in Cmds : \A w \in Wanted[c], a \in Agents \cup {Absent} :
                Load(c, w[1], w[2], a) => UNCHANGED file
        BY DEF Load, fileVars
      <3> QED
        BY Moves, <3>1, <3>2, <3>3 DEF CoreMoves
    <2> QED
      BY <1>5, <2>3, <2>4, <2>5, <2>6, <2>7, <2>8
  <1>6. ASSUME Save(d), cmd[d].does = "open", cmd'[d].agent = cmd[d].agent
        PROVE  InFile(cmd[d].agent)'
    <2>1. file' = Edited(cmd[d]) /\ cmd[d].at = "save"
      BY <1>6 DEF Save
    <2>2. Edited(cmd[d]) \in Links /\ cmd[d].agent \in AgentsOf(Edited(cmd[d]))
      BY <1>6, <2>1, SavedCommand DEF ServiceTypes
    <2>3. Absent \notin Links
      BY ServiceAssumption DEF Links
    <2> QED
      BY <1>6, <2>1, <2>2, <2>3 DEF InFile, AgentsOf
  <1>7. CASE EndsCalls
    BY <1>5, <1>7, EndsEffects DEF Opens
  <1>8. GiveBackBegin \/ RemoveDir \/ (\E i \in Installs : GiveBack(i)) => cmd' = cmd
    BY DEF GiveBackBegin, RemoveDir, GiveBack
  <1> QED
    BY Moves, <1>1, <1>2, <1>3, <1>4, <1>5, <1>6, <1>7, <1>8 DEF CoreMoves

LEMMA CopyListsStep ==
  ASSUME ServiceTypes, FileLists, OpenedIsListed, UnlinkExcuses, CopyLists, ServiceNext
  PROVE  CopyLists'
  <1> SUFFICES ASSUME NEW d \in Cmds, Unfinished(d)', cmd'[d].does = "unlink"
               PROVE  /\ cmd'[d].at = "config" => Owed' \subseteq AgentsOf(cmd'[d].copy)
                      /\ cmd'[d].at = "forget" => Owed' = {}
    BY DEF CopyLists, AgentsOf
  <1>1. CASE cmd'[d] = cmd[d]
    <2>1. cmd[d].at \in {"config", "forget"} => Owed' \subseteq Owed
      BY <1>1, UnlinkCommand, OwedBounds
    <2> QED
      BY <1>1, <2>1 DEF CopyLists, Unfinished, AgentsOf
  <1>2. ASSUME CmdStep(d) \/ Killed(d)
        PROVE  /\ cmd'[d].at = "config" => Owed' \subseteq AgentsOf(cmd'[d].copy)
               /\ cmd'[d].at = "forget" => Owed' = {}
    <2>1. /\ Unfinished(d) /\ cmd[d].does = "unlink" /\ cmd'[d].at # "config"
          /\ cmd'[d].at # "done"
      BY <1>2, CommandEffects DEF Unfinished
    <2>2. cmd \in [Cmds -> Commands] /\ CommandOK(cmd[d])
      BY <2>1 DEF ServiceTypes, CommandsOK
    <2>3. Config(d)
      BY <1>2, <2>1, <2>2 DEF CmdStep, Save, OpenInstall, Restart, ForgetAll, Killed, Done, NoCmd,
         CommandOK
    <2>4. /\ cmd[d].at = "config" /\ open' \subseteq open
          /\ open' \cap InstallsOf(cmd[d].copy) \subseteq excused'
      BY <2>1, <2>3 DEF Config, GivesBack
    <2>5. Owed \subseteq AgentsOf(cmd[d].copy) /\ open \subseteq Installs
      BY <2>1, <2>4 DEF CopyLists, ServiceTypes
    <2>6. InstallsOf(cmd[d].copy) = AgentsOf(cmd[d].copy) \cap Installs
      BY <2>2, LinkAgents DEF CommandOK, Links
    <2>7. Owed' = {}
      BY <2>4, <2>5, <2>6, ExcusedStep DEF Owed
    <2> QED
      BY <2>1, <2>7
  <1>3. ASSUME NEW c \in Cmds, NEW w \in Wanted[c], NEW a \in Agents \cup {Absent},
               Load(c, w[1], w[2], a), cmd'[d] # cmd[d]
        PROVE  /\ cmd'[d].at = "config" => Owed' \subseteq AgentsOf(cmd'[d].copy)
               /\ cmd'[d].at = "forget" => Owed' = {}
    <2>1. /\ cmd'[d].copy = file
          /\ cmd'[d].at = IF w[1] \in {"release", "unlink", "models"} THEN "config" ELSE "save"
      BY <1>3, LoadEffects
    <2>2. file # Absent
      BY <1>3 DEF Load, Rejects
    <2> QED
      BY <2>1, <2>2, OwedBounds
  <1>4. ASSUME NEW c \in Cmds, CmdStep(c) \/ Killed(c) PROVE c = d \/ cmd'[d] = cmd[d]
    BY <1>4, CommandEffects
  <1>5. CASE EndsCalls
    BY <1>1, <1>5, EndsEffects
  <1>6. GiveBackBegin \/ RemoveDir \/ (\E i \in Installs : GiveBack(i)) => cmd' = cmd
    BY DEF GiveBackBegin, RemoveDir, GiveBack
  <1> QED
    BY Moves, <1>1, <1>2, <1>3, <1>4, <1>5, <1>6 DEF CoreMoves

LEMMA StopAskedStep ==
  ASSUME ServiceTypes, StopAsked, ServiceNext
  PROVE  StopAsked'
  <1>1. Start => managed /\ UNCHANGED managed
    BY DEF Start
  <1>2. at' = "down" => ~Serving'
    BY DEF Serving
  <1> QED
    BY Moves, <1>1, <1>2 DEF StopAsked, StopMoves, ManagedMoves

\* What a link lists of the installs that matter, a step keeps.
LEMMA HoldsStep ==
  ASSUME ServiceTypes, FileLists, OpenedIsListed, UnlinkExcuses, StopAsked, ServiceNext,
         Serving, Serving', NEW link,
         Owed \subseteq AgentsOf(link) \cup Pending,
         \A c \in Cmds :
             Opens(c) /\ cmd[c].at = "restarting" /\ ~stop /\ at # "stopping"
             => cmd[c].agent \in excused \cup AgentsOf(link)
  PROVE  /\ Owed' \subseteq AgentsOf(link) \cup Pending'
         /\ \A c \in Cmds :
                Opens(c)' /\ cmd'[c].at = "restarting" /\ ~stop' /\ at' # "stopping"
                => cmd'[c].agent \in excused' \cup AgentsOf(link)
  <1>0. excused \subseteq excused'
    BY ExcusedStep
  <1>1. ASSUME NEW x \in Owed', x \notin AgentsOf(link) PROVE x \in Pending'
    <2>1. x \notin excused'
      BY <1>1 DEF Owed
    <2>2. x \in Pending
      BY <1>1, OwedBounds
    <2>3. PICK c \in Cmds : Opens(c) /\ cmd[c].agent = x
      BY <2>2 DEF Pending
    <2>4. Opens(c)' /\ cmd'[c].agent = x
      BY <1>0, <1>1, <2>1, <2>3, PendingStep
    <2> QED
      BY <2>4 DEF Pending
  <1>2. ASSUME NEW d \in Cmds, Opens(d)', cmd'[d].at = "restarting", ~stop', at' # "stopping"
        PROVE  cmd'[d].agent \in excused' \cup AgentsOf(link)
    <2>1. ~stop /\ at # "stopping"
      <3>1. Start => ~Serving
        BY DEF Start, Serving
      <3> QED
        BY Moves, <1>2, <3>1 DEF StopMoves
    <2>2. CASE cmd'[d] = cmd[d]
      <3>1. Opens(d) /\ cmd[d].at = "restarting"
        BY <1>2, <2>2 DEF Opens, Unfinished
      <3> QED
        BY <1>0, <2>1, <2>2, <3>1
    <2>3. ~(CmdStep(d) \/ Killed(d))
      <3>1. SUFFICES ASSUME CmdStep(d) \/ Killed(d) PROVE FALSE
        OBVIOUS
      <3>2. cmd \in [Cmds -> Commands]
        BY DEF ServiceTypes, CommandsOK
      <3>3. Restart(d) /\ cmd[d].at = "restart"
        BY <1>2, <3>1, <3>2 DEF CmdStep, Config, Save, OpenInstall, Restart, ForgetAll, Killed,
           Done, NoCmd, Commands
      <3>4. stop' = (stop \/ (managed /\ Serving))
        BY <3>3 DEF Restart
      <3> QED
        BY <1>2, <2>1, <3>4 DEF StopAsked
    <2>4. ASSUME NEW c \in Cmds, NEW w \in Wanted[c], NEW a \in Agents \cup {Absent},
                 Load(c, w[1], w[2], a)
          PROVE  cmd'[d] = cmd[d]
      BY <1>2, <2>4, LoadEffects
    <2>5. ASSUME NEW c \in Cmds, CmdStep(c) \/ Killed(c) PROVE c = d \/ cmd'[d] = cmd[d]
      BY <2>5, CommandEffects
    <2>6. CASE EndsCalls
      BY <1>2, <2>2, <2>6, EndsEffects DEF Opens
    <2>7. GiveBackBegin \/ RemoveDir \/ (\E i \in Installs : GiveBack(i)) => cmd' = cmd
      BY DEF GiveBackBegin, RemoveDir, GiveBack
    <2> QED
      BY Moves, <2>2, <2>3, <2>4, <2>5, <2>6, <2>7 DEF CoreMoves
  <1> QED
    BY <1>1, <1>2

LEMMA MemHoldsStep ==
  ASSUME ServiceInv, ServiceNext
  PROVE  MemHolds'
  <1> USE DEF ServiceInv
  <1> SUFFICES ASSUME Serving', ~Unlinking'
               PROVE  /\ Owed' \subseteq AgentsOf(mem') \cup Pending'
                      /\ \A c \in Cmds :
                             Opens(c)' /\ cmd'[c].at = "restarting" /\ ~stop' /\ at' # "stopping"
                             => cmd'[c].agent \in excused' \cup AgentsOf(mem')
    BY DEF MemHolds, Holds, AgentsOf
  <1>1. CASE Start
    <2>1. /\ mem' = file /\ file # Absent /\ UNCHANGED <<file, open, excused, cmd>>
      BY <1>1 DEF Start
    <2> QED
      BY <2>1, OwedBounds, OpenedIsListedStep DEF OpenedIsListed, InFile, AgentsOf
  <1>2. Serving \/ Start
    BY Moves DEF StopMoves
  <1>3. CASE Serving /\ Reload
    <2>1. mem' = look.link /\ look.at = "read"
      BY <1>3 DEF Reload
    <2>2. Holds(look.link)
      BY <1>3, <2>1 DEF LookHolds
    <2> QED
      BY <1>3, <2>1, <2>2, HoldsStep DEF Holds
  <1>4. CASE Serving /\ mem' = mem
    <2>1. ~Unlinking
      BY Moves DEF AtMoves, Unlinking, Serving, GiveBackBegin, ForgetToken, RemoveDir, GiveBack, Goes
    <2>2. Holds(mem)
      BY <1>4, <2>1 DEF MemHolds
    <2> QED
      BY <1>4, <2>2, HoldsStep DEF Holds
  <1>5. ASSUME NEW c \in Cmds, Save(c), mem' = Edited(cmd[c])
        PROVE  /\ Owed' \subseteq AgentsOf(mem') \cup Pending'
               /\ \A d \in Cmds :
                      Opens(d)' /\ cmd'[d].at = "restarting" /\ ~stop' /\ at' # "stopping"
                      => cmd'[d].agent \in excused' \cup AgentsOf(mem')
    <2>1. mem' = file' /\ file' # Absent
      <3>1. file' = Edited(cmd[c]) /\ cmd[c].at = "save"
        BY <1>5 DEF Save
      <3>2. Edited(cmd[c]) \in Links
        BY <3>1, SavedCommand DEF ServiceTypes
      <3> QED
        BY <1>5, <3>1, <3>2, ServiceAssumption DEF Links
    <2>2. Owed' \subseteq AgentsOf(file')
      BY <2>1, FileListsStep DEF FileLists, AgentsOf
    <2>3. \A d \in Cmds : Opens(d)' /\ cmd'[d].at = "restarting"
              => cmd'[d].agent \in excused' \cup AgentsOf(file')
      BY <2>1, OpenedIsListedStep DEF OpenedIsListed, InFile, AgentsOf
    <2> QED
      BY <2>1, <2>2, <2>3
  <1>6. at' # "down"
    BY DEF Serving
  <1> QED
    BY Moves, <1>1, <1>2, <1>3, <1>4, <1>5, <1>6 DEF MemMoves

LEMMA LookHoldsStep ==
  ASSUME ServiceInv, ServiceNext
  PROVE  LookHolds'
  <1> USE DEF ServiceInv
  <1> SUFFICES ASSUME Serving', look'.at = "read"
               PROVE  /\ Owed' \subseteq AgentsOf(look'.link) \cup Pending'
                      /\ \A c \in Cmds :
                             Opens(c)' /\ cmd'[c].at = "restarting" /\ ~stop' /\ at' # "stopping"
                             => cmd'[c].agent \in excused' \cup AgentsOf(look'.link)
    BY DEF LookHolds, Holds, AgentsOf
  <1>1. CASE look' = look
    <2>1. ~Start
      <3>1. Start => look'.at = "starts"
        BY DEF Start, NoLook
      <3> QED
        BY <3>1
    <2>2. Serving
      BY Moves, <2>1 DEF StopMoves
    <2>3. Holds(look.link)
      BY <1>1, <2>2 DEF LookHolds
    <2> QED
      BY <1>1, <2>2, <2>3, HoldsStep DEF Holds
  <1>2. CASE file # Absent /\ look'.link = file /\ UNCHANGED <<file, open, excused, cmd, stop, at>>
    BY <1>2, OwedBounds, OpenedIsListedStep DEF OpenedIsListed, InFile, AgentsOf
  <1> QED
    BY Moves, <1>1, <1>2 DEF LookMoves

LEMMA LeftListsStep ==
  ASSUME ServiceInv, ServiceNext
  PROVE  LeftLists'
  <1> USE DEF ServiceInv
  <1>1. Unlinking => Owed' \subseteq Owed
    BY OwedBounds DEF Unlinks
  <1>2. CASE UNCHANGED <<at, left>>
    BY <1>1, <1>2 DEF LeftLists, Unlinking
  <1>3. CASE GiveBackBegin
    <2>1. /\ at = "revoked" /\ at' = "give back" /\ left' = InstallsOf(mem)
          /\ excused' = excused \cup OpeningAny /\ open' = open
      BY <1>3 DEF GiveBackBegin, Goes, ToGiveBack
    <2>2. Owed \subseteq AgentsOf(mem) \cup Pending
      BY <2>1 DEF MemHolds, Holds, Serving, Unlinking
    <2>3. Pending \subseteq OpeningAny
      BY OpenedExcused DEF Pending
    <2>4. InstallsOf(mem) = AgentsOf(mem) \cap Installs /\ open \subseteq Installs
      BY LinkAgents DEF ServiceTypes, Links
    <2>5. Owed' \subseteq left'
      BY <2>1, <2>2, <2>3, <2>4 DEF Owed
    <2> QED
      BY <2>1, <2>5 DEF LeftLists
  <1>4. CASE ForgetToken
    BY <1>1, <1>4 DEF ForgetToken, Goes, LeftLists, Unlinking
  <1>5. CASE RemoveDir
    BY <1>1, <1>5 DEF RemoveDir, Goes, LeftLists, Unlinking
  <1>6. ASSUME NEW i \in Installs, GiveBack(i) PROVE LeftLists'
    <2>1. /\ at = "give back" /\ at' = at /\ left' = left \ {i} /\ open' \subseteq open
          /\ i \in open' => i \in excused'
          /\ excused \subseteq excused'
      BY <1>6 DEF GiveBack, GivesBack
    <2> QED
      BY <2>1 DEF LeftLists, Owed
  <1>7. CASE ~Unlinking' \/ at' = "down"
    BY <1>7 DEF LeftLists, Unlinking
  <1> QED
    BY Moves, <1>2, <1>3, <1>4, <1>5, <1>6, <1>7 DEF AtMoves

-----------------------------------------------------------------------------
\* The invariant holds, and implies what is promised.
LEMMA ServiceInvInit == ServiceInit => ServiceInv
  <1> SUFFICES ASSUME ServiceInit PROVE ServiceInv
    OBVIOUS
  <1>1. ServiceTypes
    BY TypesInit
  <1>2. \A c \in Cmds : ~Unfinished(c)
    BY DEF ServiceInit, Unfinished, NoCmd
  <1>3. OpeningAny = {}
    BY <1>2 DEF OpeningAny, Opening
  <1>4. First # Absent /\ InstallsOf(First) \subseteq AgentsOf(First)
    BY ServiceAssumption DEF InstallsOf, AgentsOf
  <1>5. FileLists
    BY <1>4 DEF ServiceInit, FileLists, Owed
  <1>6. OpenedIsListed /\ CopyLists
    BY <1>2 DEF OpenedIsListed, CopyLists, Opens
  <1>7. MemHolds /\ LookHolds /\ StopAsked /\ LeftLists
    BY DEF ServiceInit, MemHolds, LookHolds, StopAsked, LeftLists, Serving
  <1>8. UnlinkExcuses
    BY <1>3 DEF UnlinkExcuses
  <1> QED
    BY <1>1, <1>5, <1>6, <1>7, <1>8 DEF ServiceInv

LEMMA ServiceInvStep == ServiceInv /\ [ServiceNext]_serviceVars => ServiceInv'
  <1> SUFFICES ASSUME ServiceInv, [ServiceNext]_serviceVars PROVE ServiceInv'
    OBVIOUS
  <1>1. CASE ServiceNext
    BY <1>1, TypesStep, FileListsStep, OpenedIsListedStep, UnlinkExcusesStep, CopyListsStep,
       MemHoldsStep, LookHoldsStep, StopAskedStep, LeftListsStep DEF ServiceInv
  <1>2. CASE UNCHANGED serviceVars
    <2>1. /\ UNCHANGED <<file, token, managed, said, at, mem, roster, up, stop, look, left, cmd,
                         open, faults, excused>>
      BY <1>2 DEF serviceVars, fileVars, memVars, hubVars, taskVars, ghostVars
    <2>2. ServiceTypes'
      BY <2>1, CommandsSame DEF ServiceInv, ServiceTypes
    <2>3. \A c \in Cmds : (Unfinished(c)' <=> Unfinished(c)) /\ (Opens(c)' <=> Opens(c))
      BY <2>1 DEF Unfinished, Opens
    <2>4. Pending' = Pending /\ OpeningAny' = OpeningAny /\ Owed' = Owed
      BY <2>1 DEF Pending, OpeningAny, Opening, Opens, Unfinished, Owed, InstallsOf
    <2>5. FileLists' /\ OpenedIsListed' /\ CopyLists'
      BY <2>1, <2>3, <2>4 DEF ServiceInv, FileLists, OpenedIsListed, CopyLists, InFile, AgentsOf
    <2>6. UnlinkExcuses' /\ StopAsked' /\ LeftLists'
      BY <2>1, <2>4 DEF ServiceInv, UnlinkExcuses, StopAsked, LeftLists, Unlinks, Unlinking, Serving
    <2>7. MemHolds' /\ LookHolds'
      BY <2>1, <2>3, <2>4 DEF ServiceInv, MemHolds, LookHolds, Holds, Serving, Unlinking, AgentsOf
    <2> QED
      BY <2>2, <2>5, <2>6, <2>7 DEF ServiceInv
  <1> QED
    BY <1>1, <1>2

LEMMA ServiceInvSound == ServiceInv /\ Flags => ServiceSound
  <1> SUFFICES ASSUME ServiceInv, Flags PROVE ServiceTypeOK /\ GivenBackAll
    BY DEF ServiceSound
  <1>1. GivenBackAll
    BY DEF ServiceInv, FileLists, Owed, GivenBackAll
  <1>2. /\ file # Absent => file \in Seq(Agents) /\ IsInjective(file)
        /\ mem \in Seq(Agents) /\ IsInjective(mem)
    BY DEF ServiceInv, ServiceTypes, Links
  <1>3. {dirty, managed, removed, permit, stop, missed, quiet, dead} \subseteq BOOLEAN
    BY Zenon DEF Flags
  <1>4. /\ token.file \in {"good", "dead", Absent} /\ token.held \in {"good", "dead", Absent}
        /\ at \in {"down", "probe", "announce", "dial", "rotated", "on", "wait", "stopping",
                   "revoked", "give back", "remove", "uninstall"}
        /\ roster \cup up \subseteq Agents
        /\ left \cup open \cup excused \subseteq Installs
        /\ said.chat \in BOOLEAN /\ said.runtime \in Agents \cup {Absent}
        /\ faults \in 0..MaxFaults
    BY DEF ServiceInv, ServiceTypes
  <1> QED
    BY <1>1, <1>2, <1>3, <1>4, Zenon DEF ServiceTypeOK

\* "Gives back every install it hosted" (link.rs:838): when the bot's link is gone no
\* install's config holds its settings, for any installs and any commands in any
\* order, with the service stopped, crashed and started at any time.
THEOREM ServiceGivesBack == ServiceSpec => []ServiceSound
  <1>1. ServiceInit => ServiceInv /\ Flags
    BY ServiceInvInit, Zenon DEF ServiceInit, Flags
  <1>2. ServiceInv /\ Flags /\ [ServiceNext]_serviceVars => (ServiceInv /\ Flags)'
    <2>1. Flags /\ UNCHANGED serviceVars => Flags'
      BY Zenon DEF Flags, serviceVars, fileVars, memVars, hubVars, taskVars, ghostVars
    <2>2. Flags /\ ServiceNext => Flags'
      BY FlagsStep
    <2> QED
      BY <2>1, <2>2, ServiceInvStep
  <1> QED
    BY <1>1, <1>2, ServiceInvSound, PTL DEF ServiceSpec
=============================================================================
