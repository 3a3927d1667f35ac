------------------------------- MODULE Client -------------------------------
(***************************************************************************)
(* A client built on the SDK (sdk/typescript/src: connection.ts,           *)
(* client.ts): its link to one host, which reconnects on its own, one      *)
(* session, the turns it streams to the app, and the permission requests.  *)
(* The Python SDK (sdk/python) is the same design.                         *)
(*                                                                         *)
(* A frame is handled, with what waits for it, in one task of the event    *)
(* loop: one action.  The host is the one the SDKs are tested against      *)
(* (oal-conformance/src/fake_host.rs): one task that answers in order, and *)
(* sends a connection that loads the session its record, its last turn,    *)
(* the answer, and the requests that wait.  As in host.rs a load may fail, *)
(* and a turn's end resolves its requests.                                 *)
(*                                                                         *)
(* An update is its place in the host's record.                            *)
(***************************************************************************)
EXTENDS Naturals, Sequences, FiniteSets, SequencesExt

CONSTANTS
    Asks,           \* permission requests
    MaxPrompts,     \* bound: prompts of the app
    MaxTurns,       \* bound: turns of the host
    MaxUpdates,     \* bound: updates of the agent
    MaxEvents,      \* bound: connections lost and requests made
    MaxFrames,      \* bound: frames of the host under way when it goes on
    None

ASSUME ClientAssumption ==
    /\ IsFiniteSet(Asks)
    /\ None \notin Nat \cup {"done", "error"}
    /\ None \notin [first : BOOLEAN, index : Nat, sawRunning : BOOLEAN]

VARIABLES
    record,         \* the session's record: whose entry, in which turn
    running,        \* the turn that runs, or None
    last,           \* the last turn that ended and how, or None
    owner,          \* the prompt (0: another device's) and the
                    \* connection each turn is of
    asked,          \* where each request stands
    attached,       \* external: whether the connection is attached
    toHost, toApp,  \* the frames under way
    link,           \* Link: away, resuming, online, stuck, failed, closed
    opened,         \* Host.sessions: whether the session is tracked
    obj, cur,       \* the Turn objects, and Session.turn (0: null)
    log, replay,    \* Session._log, Session._replay
    requests, ids,  \* Host.requests, and those whose id is known
    choosing,       \* PermissionRequest.choose
    shown,          \* what the app was shown of the session
    losses          \* connections lost so far

hostVars == <<record, running, last, owner, asked, attached>>
sessVars == <<opened, obj, cur, log, replay, shown>>
askVars  == <<requests, ids, choosing>>
vars == <<hostVars, toHost, toApp, link, sessVars, askVars, losses>>

-----------------------------------------------------------------------------
(* Frames *)

Frame(t, of, how) == [t |-> t, of |-> of, how |-> how]
Sends(frames) == toHost' = toHost \o frames
Answers(frames) == toApp' = toApp \o frames
\* Told to the connection if it is attached.
Told(frames) == Answers(IF attached THEN frames ELSE <<>>)

Up == link \in {"resuming", "online"}

\* Of the bound on what happens: connections lost, and requests made.
Spent == losses + Cardinality({q \in Asks : asked[q] # "none"})
Pending == {q \in Asks : asked[q] = "pending"}
EachAsk(S, t) == LET s == SetToSeq(S) IN [i \in DOMAIN s |-> Frame(t, s[i], None)]
Latest == IF running # None THEN <<Frame("running", running, None)>>
          ELSE IF last # None THEN <<Frame("ended", last.of, last.how)>> ELSE <<>>

\* The connection is gone, and what was under way on it.
Gone == attached' = FALSE /\ toHost' = <<>> /\ toApp' = <<>>

-----------------------------------------------------------------------------
(* Turns *)

NewTurn(local, id) ==
    [local |-> local, id |-> id, sent |-> None, awaits |-> local, ended |-> None,
     answer |-> None, finished |-> None, saw |-> {}]

Prompts == {i \in DOMAIN obj : obj[i].local}

\* Turn.settle, finish: an error before the turn started, or its end once no
\* answer is awaited, finishes it.
Settled(o) ==
    LET outcome == IF o.answer = "error" THEN "error" ELSE o.ended
    IN  IF o.finished # None THEN o
        ELSE IF o.answer = "error" /\ o.id = None THEN [o EXCEPT !.finished = "error"]
        ELSE IF o.ended = None \/ o.awaits THEN o
        ELSE [o EXCEPT !.finished = outcome]

Failed(o) == IF o.finished = None THEN [o EXCEPT !.finished = "error"] ELSE o
Responded(o, how) == Settled([o EXCEPT !.answer = how, !.awaits = FALSE])
Ended(o, how) == Settled([o EXCEPT !.ended = how])

\* The objects become `now`: one that finished is no longer the session's.
Become(now) ==
    /\ obj' = now
    /\ cur' = IF cur # 0 /\ now[cur].finished # None THEN 0 ELSE cur

\* Mutant: a dropped connection's answer is still awaited.
StillAwaited(o) == o
Lost(o) == [o EXCEPT !.awaits = FALSE]

-----------------------------------------------------------------------------
ClientInit ==
    /\ record = <<>> /\ running = None /\ last = None /\ owner = <<>>
    /\ asked = [q \in Asks |-> "none"]
    /\ attached = FALSE
    /\ toHost = <<>> /\ toApp = <<>>
    /\ link = "online"
    /\ opened = "no"
    /\ obj = <<>> /\ cur = 0
    /\ log = <<>> /\ replay = None /\ shown = <<>>
    /\ requests = {} /\ ids = {} /\ choosing = None
    /\ losses = 0

(* The app *)

\* Agent.session: an existing session, loaded for the first time.
OpenSession ==
    /\ opened = "no" /\ link = "online"
    /\ opened' = "opening"
    /\ replay' = [first |-> TRUE, index |-> 0, sawRunning |-> FALSE]
    /\ Sends(<<Frame("load", None, None)>>)
    /\ UNCHANGED <<hostVars, toApp, link, obj, cur, log, shown, askVars, losses>>

\* Session.prompt: its request waits until the link is ready; a link that
\* can never be again refuses it.
Prompt ==
    /\ opened = "open" /\ cur = 0
    /\ Cardinality(Prompts) < MaxPrompts
    /\ LET i == Len(obj) + 1
           o == NewTurn(TRUE, None)
       IN  IF link \in {"failed", "closed"}
           THEN /\ obj' = Append(obj, Responded(o, "error"))
                /\ UNCHANGED <<cur, toHost>>
           ELSE /\ obj' = Append(obj, [o EXCEPT !.sent = IF link = "online" THEN losses ELSE None])
                /\ cur' = i
                /\ IF link = "online" THEN Sends(<<Frame("prompt", i, None)>>)
                                      ELSE UNCHANGED toHost
    /\ UNCHANGED <<hostVars, toApp, link, opened, log, replay, shown, askVars, losses>>

Waiting == {i \in Prompts : obj[i].sent = None /\ obj[i].answer = None}
InFlight == {i \in Prompts : obj[i].sent = losses /\ obj[i].answer = None}

\* The link is ready: a prompt that waited is sent...
SendWaiting(i) ==
    /\ link = "online"
    /\ i \in Waiting
    /\ obj' = [obj EXCEPT ![i].sent = losses]
    /\ Sends(<<Frame("prompt", i, None)>>)
    /\ UNCHANGED <<hostVars, toApp, link, opened, cur, log, replay, shown, askVars, losses>>

\* ... or its grace ran out.
GraceOver(i) ==
    /\ link # "online"
    /\ i \in Waiting
    /\ Become([obj EXCEPT ![i] = Responded(@, "error")])
    /\ UNCHANGED <<hostVars, toHost, toApp, link, opened, log, replay, shown, askVars, losses>>

\* PermissionRequest.choose, the first attempt.
Choose(q) ==
    /\ choosing = None
    /\ q \in requests
    /\ choosing' = [of |-> q, again |-> FALSE, at |-> "find"]
    /\ UNCHANGED <<hostVars, toHost, toApp, link, sessVars, requests, ids, losses>>

\* Its answer is sent under the host's id, looked up when it isn't known.
ChooseSends ==
    /\ choosing # None /\ choosing.at = "find"
    /\ link = "online"
    /\ IF choosing.of \in ids
       THEN /\ Sends(<<Frame("answer", choosing.of, None)>>)
            /\ choosing' = [choosing EXCEPT !.at = "answer"]
       ELSE /\ Sends(<<Frame("pending", None, "find")>>)
            /\ choosing' = [choosing EXCEPT !.at = "lookup"]
    /\ UNCHANGED <<hostVars, toApp, link, sessVars, requests, ids, losses>>

ChooseGivesUp ==
    /\ choosing # None /\ choosing.at = "find"
    /\ link # "online"
    /\ choosing' = None
    /\ UNCHANGED <<hostVars, toHost, toApp, link, sessVars, requests, ids, losses>>

\* Client.close: every waiter and the session's turn fail.
Close ==
    /\ link # "closed"
    /\ link' = "closed"
    /\ Become([i \in DOMAIN obj |->
                  IF i = cur THEN Failed(obj[i])
                  ELSE IF i \in Waiting \cup InFlight THEN Responded(obj[i], "error")
                  ELSE obj[i]])
    /\ choosing' = None
    /\ opened' = IF opened = "opening" THEN "no" ELSE opened
    /\ replay' = None
    /\ Gone
    /\ UNCHANGED <<record, running, last, owner, asked, log, shown, requests, ids, losses>>

App ==
    \/ OpenSession \/ Prompt \/ Close \/ ChooseSends \/ ChooseGivesUp
    \/ \E q \in Asks : Choose(q)
    \/ \E i \in Prompts : SendWaiting(i) \/ GraceOver(i)

-----------------------------------------------------------------------------
(* The link *)

Load == <<Frame("load", None, None)>>
NewReplay == [first |-> FALSE, index |-> 0, sawRunning |-> FALSE]

\* Link.run has a channel: the session is loaded again, then the requests
\* looked up, and only then the link is ready.
Connect ==
    /\ link = "away"
    /\ toApp' = <<>>
    /\ IF opened = "open"
       THEN link' = "resuming" /\ replay' = NewReplay /\ toHost' = Load
       ELSE /\ UNCHANGED replay
            /\ IF requests # {}
               THEN link' = "resuming" /\ toHost' = <<Frame("pending", None, "resume")>>
               ELSE link' = "online" /\ toHost' = <<>>
    /\ UNCHANGED <<hostVars, opened, obj, cur, log, shown, askVars, losses>>

\* What Link.rejectWaiters and Host.disconnected leave of the choice under way:
\* its first lost answer is tried again.
ChoiceLost ==
    IF choosing = None \/ choosing.at = "find" THEN UNCHANGED <<choosing, ids>>
    ELSE IF choosing.at = "answer" /\ ~choosing.again
         THEN /\ choosing' = [choosing EXCEPT !.again = TRUE, !.at = "find"]
              /\ ids' = ids \ {choosing.of}
         ELSE choosing' = None /\ UNCHANGED ids

\* A session being opened is given up; of any other, `now` holds.
Abandon(now) == IF opened = "opening"
           THEN opened' = "no" /\ replay' = None /\ log' = <<>> /\ shown' = <<>> /\ cur' = 0
           ELSE UNCHANGED <<opened, replay, log, shown>> /\ now

\* The connection drops (or a ping isn't answered).  A prompt under way is left
\* to the resume.  While connected() still waits for its answers nobody
\* rejects them: run() waits for connected(), for ever.
Lose ==
    /\ Up /\ Spent < MaxEvents
    /\ losses' = losses + 1
    /\ Gone
    /\ IF link = "resuming"
       THEN link' = "stuck" /\ UNCHANGED <<sessVars, askVars>>
       ELSE /\ link' = "away"
            /\ obj' = [i \in DOMAIN obj |-> IF i = cur THEN Lost(obj[i]) ELSE obj[i]]
            /\ ChoiceLost
            /\ Abandon(UNCHANGED cur)
            /\ UNCHANGED requests
    /\ UNCHANGED <<record, running, last, owner, asked>>

\* The host unpaired the device: no reconnect, and the waiters get the error.
Unpaired ==
    /\ link \in {"online", "away"}
    /\ Spent < MaxEvents
    /\ losses' = losses + 1
    /\ link' = "failed"
    /\ Gone
    /\ obj' = [i \in DOMAIN obj |-> IF i \in Waiting \cup InFlight
                                     THEN Responded(obj[i], "error") ELSE obj[i]]
    /\ Abandon(cur' = IF cur # 0 /\ obj'[cur].finished # None THEN 0 ELSE cur)
    /\ choosing' = None
    /\ UNCHANGED <<record, running, last, owner, asked, requests, ids>>

-----------------------------------------------------------------------------
(* Frames of the host *)

Replaying == replay # None /\ ~replay.first /\ replay.index < Len(log)
Repeated(p) == Replaying /\ p = log[replay.index + 1]
\* The client's own prompt, recorded by the host and never sent to it.
Echo(p) == Replaying /\ record[p].by # "agent"

\* Mutant: what comes with a replay is no turn's.
LiveOnly(p) == IF replay # None THEN UNCHANGED obj
               ELSE obj' = IF cur = 0 THEN obj ELSE [obj EXCEPT ![cur].saw = @ \cup {p}]
\* A new update goes to the session's turn.
Streams(p) == obj' = IF cur = 0 THEN obj ELSE [obj EXCEPT ![cur].saw = @ \cup {p}]

\* Session._update
Update(p) ==
    IF Repeated(p)
    THEN replay' = [replay EXCEPT !.index = @ + 1] /\ UNCHANGED <<log, shown, obj>>
    ELSE IF Echo(p) THEN UNCHANGED <<replay, log, shown, obj>>
    ELSE /\ log' = Append(log, p)
         /\ IF replay # None /\ replay.first
            THEN shown' = Append(shown, p) /\ UNCHANGED obj
            ELSE /\ shown' = IF cur # 0 THEN Append(shown, p) ELSE shown
                 /\ Streams(p)
         /\ UNCHANGED replay

Mine(n) == cur # 0 /\ (obj[cur].id = n \/ (obj[cur].id = None /\ obj[cur].local))

\* Session._turnNotice, running
Running(n) ==
    /\ replay' = IF replay = None THEN None ELSE [replay EXCEPT !.sawRunning = TRUE]
    /\ IF Mine(n) THEN obj' = [obj EXCEPT ![cur].id = n] /\ UNCHANGED cur
       ELSE obj' = Append(obj, NewTurn(FALSE, n)) /\ cur' = Len(obj) + 1

\* ... and ended
EndedNotice(n, how) ==
    IF Mine(n) THEN Become([obj EXCEPT ![cur] = Ended([@ EXCEPT !.id = n], how)])
               ELSE UNCHANGED <<obj, cur>>

\* Session._loaded after a resume: no turn runs, so a turn of ours ended
\* meanwhile, or never got there.
ResumedTurn(o) == IF o.id = None THEN Failed(o) ELSE Ended(o, "done")
LoadedTurn(how) ==
    IF cur = 0 THEN UNCHANGED <<obj, cur>>
    ELSE IF how = "error" THEN Become([obj EXCEPT ![cur] = Failed(@)])
    ELSE IF replay.sawRunning THEN UNCHANGED <<obj, cur>>
    ELSE Become([obj EXCEPT ![cur] = ResumedTurn(@)])

\* The answer to a load: of a resume, connected() goes on; else it is open.
Loaded(how) ==
    /\ replay' = None
    /\ IF link = "resuming"
       THEN /\ LoadedTurn(how)
            /\ IF requests # {}
               THEN Sends(<<Frame("pending", None, "resume")>>) /\ UNCHANGED link
               ELSE link' = "online" /\ UNCHANGED toHost
            /\ UNCHANGED <<opened, log, shown>>
       ELSE /\ UNCHANGED <<link, toHost>>
            /\ IF how = "ok" THEN opened' = "open" /\ UNCHANGED <<obj, cur, log, shown>>
               ELSE /\ opened' = "no" /\ log' = <<>> /\ shown' = <<>>
                    /\ cur' = 0 /\ UNCHANGED obj

\* Mutant: what was answered while away stays in the inbox.
KeepAnswered(S) == requests \cup S
\* Host.connected: requests answered while away are no longer pending.
Reconciled(S) == S

\* The answer to host/pending, S: after a resume, or to a lookup.
PendingAnswer(S, how) ==
    /\ ids' = IF how = "resume" THEN S ELSE ids \cup S
    /\ IF how = "resume"
       THEN /\ requests' = Reconciled(S)
            /\ link' = "online" /\ UNCHANGED choosing
       ELSE /\ requests' = requests \cup S
            /\ choosing' = IF choosing.of \in ids' THEN [choosing EXCEPT !.at = "find"] ELSE None
            /\ UNCHANGED link

\* The inbox: a request on the session, announced, resolved.
AskFrame(f) ==
    /\ requests' = IF f.t = "resolved" THEN requests \ {f.of} ELSE requests \cup {f.of}
    /\ ids' = CASE f.t = "added" -> ids \cup {f.of}
                [] f.t = "resolved" -> ids \ {f.of}
                [] OTHER -> ids

\* Link.dispatch
Take ==
    /\ Up /\ toApp # <<>>
    /\ toApp' = Tail(toApp)
    /\ LET f == Head(toApp) IN
       \/ /\ f.t = "update" /\ Update(f.of)
          /\ UNCHANGED <<toHost, link, opened, cur, askVars>>
       \/ /\ f.t = "running" /\ Running(f.of)
          /\ UNCHANGED <<toHost, link, opened, log, shown, askVars>>
       \/ /\ f.t = "ended" /\ EndedNotice(f.of, f.how)
          /\ UNCHANGED <<toHost, link, opened, log, replay, shown, askVars>>
       \/ /\ f.t = "loaded" /\ Loaded(f.how)
          /\ UNCHANGED askVars
       \/ /\ f.t = "prompted" /\ Become([obj EXCEPT ![f.of] = Responded(@, f.how)])
          /\ UNCHANGED <<toHost, link, opened, log, replay, shown, askVars>>
       \/ /\ f.t = "pending" /\ PendingAnswer(f.of, f.how)
          /\ UNCHANGED <<toHost, sessVars>>
       \/ /\ f.t = "answered" /\ choosing' = None
          /\ UNCHANGED <<toHost, link, sessVars, requests, ids>>
       \/ /\ f.t \in {"ask", "added", "resolved"} /\ AskFrame(f)
          /\ UNCHANGED <<toHost, link, sessVars, choosing>>
    /\ UNCHANGED <<hostVars, losses>>

-----------------------------------------------------------------------------
(* The host *)

Entry(by) == [by |-> by, turn |-> running']

\* A prompt of the app, or of another device, starts a turn.
Starts(i) ==
    /\ running = None /\ Len(owner) < MaxTurns
    /\ running' = Len(owner) + 1
    /\ owner' = Append(owner, [of |-> i, at |-> losses])
    /\ record' = Append(record, Entry(IF i = 0 THEN "other" ELSE "app"))
    /\ Told(<<Frame("running", running', None)>> \o
            IF i = 0 THEN <<Frame("update", Len(record'), None)>> ELSE <<>>)
    /\ UNCHANGED <<last, asked, attached>>

HostLoad ==
    \/ /\ attached' = TRUE
       /\ Answers([p \in DOMAIN record |-> Frame("update", p, None)] \o Latest
                  \o <<Frame("loaded", None, "ok")>> \o EachAsk(Pending, "ask"))
    \/ /\ attached' = FALSE
       /\ Answers(<<Frame("loaded", None, "error")>>)

HostPrompt(i) ==
    \/ attached /\ Starts(i)
    \/ /\ ~attached \/ running # None \/ Len(owner) = MaxTurns
       /\ Answers(<<Frame("prompted", i, "error")>>)
       /\ UNCHANGED hostVars

HostAnswer(q) ==
    /\ asked' = [asked EXCEPT ![q] = "over"]
    /\ Answers((IF asked[q] = "pending" THEN <<Frame("resolved", q, None)>> ELSE <<>>)
               \o <<Frame("answered", q, None)>>)

HostTakes ==
    /\ Up /\ toHost # <<>>
    /\ toHost' = Tail(toHost)
    /\ LET f == Head(toHost) IN
       \/ f.t = "load" /\ HostLoad /\ UNCHANGED <<record, running, last, owner, asked>>
       \/ f.t = "prompt" /\ HostPrompt(f.of)
       \/ /\ f.t = "pending" /\ Answers(<<Frame("pending", Pending, f.how)>>)
          /\ UNCHANGED hostVars
       \/ /\ f.t = "answer" /\ HostAnswer(f.of)
          /\ UNCHANGED <<record, running, last, owner, attached>>
    /\ UNCHANGED <<link, sessVars, askVars, losses>>

\* What goes to every connection, attached or not.
Announced(frames) == Answers(IF Up THEN frames ELSE <<>>)

OtherPrompts == Starts(0)

AgentSays ==
    /\ running # None
    /\ Cardinality({p \in DOMAIN record : record[p].by = "agent"}) < MaxUpdates
    /\ record' = Append(record, [by |-> "agent", turn |-> running])
    /\ Told(<<Frame("update", Len(record'), None)>>)
    /\ UNCHANGED <<running, last, owner, asked, attached>>

AgentAsks(q) ==
    /\ running # None /\ asked[q] = "none" /\ Spent < MaxEvents
    /\ asked' = [asked EXCEPT ![q] = "pending"]
    /\ Announced(<<Frame("added", q, None)>> \o
                 IF attached THEN <<Frame("ask", q, None)>> ELSE <<>>)
    /\ UNCHANGED <<record, running, last, owner, attached>>

OtherAnswers(q) ==
    /\ asked[q] = "pending"
    /\ asked' = [asked EXCEPT ![q] = "over"]
    /\ Announced(<<Frame("resolved", q, None)>>)
    /\ UNCHANGED <<record, running, last, owner, attached>>

\* A turn ends: its requests first, then the prompt's answer where it was
\* sent, then the end.
PromptFrames(how) ==
    LET o == owner[running]
    IN  IF o.of # 0 /\ o.at = losses THEN <<Frame("prompted", o.of, how)>> ELSE <<>>
TurnEnds ==
    /\ running # None
    /\ \E how \in {"done", "error"} :
          /\ last' = [of |-> running, how |-> how]
          /\ Announced(EachAsk(Pending, "resolved") \o PromptFrames(how)
                       \o IF attached THEN <<Frame("ended", running, how)>> ELSE <<>>)
    /\ asked' = [q \in Asks |-> IF asked[q] = "pending" THEN "over" ELSE asked[q]]
    /\ running' = None
    /\ UNCHANGED <<record, owner, attached>>

\* The host goes on once the app took what it said before: a frame that comes
\* later finds the app as one still under way does.
Goes(step) ==
    /\ Len(toApp) < MaxFrames
    /\ step
    /\ UNCHANGED <<toHost, link, sessVars, askVars, losses>>

Elsewhere ==
    \/ Goes(OtherPrompts) \/ Goes(AgentSays) \/ Goes(TurnEnds)
    \/ \E q \in Asks : Goes(AgentAsks(q)) \/ Goes(OtherAnswers(q))

-----------------------------------------------------------------------------
ClientNext == App \/ Connect \/ Lose \/ Unpaired \/ Take \/ HostTakes \/ Elsewhere

ClientSpec == ClientInit /\ [][ClientNext]_vars

\* Frames arrive, a turn of an agent ends, the link dials again, and a prompt
\* that waited goes out once the link is ready.
ClientFairness ==
    /\ WF_vars(Take) /\ WF_vars(HostTakes) /\ WF_vars(Connect)
    /\ WF_vars(Goes(TurnEnds))
    /\ WF_vars(\E i \in Waiting : SendWaiting(i))

FairClientSpec == ClientSpec /\ ClientFairness

-----------------------------------------------------------------------------
(* Every variable holds values of its kind. *)
ClientTypeOK ==
    /\ link \in {"away", "resuming", "online", "stuck", "failed", "closed"}
    /\ opened \in {"no", "opening", "open"}
    /\ cur \in 0..Len(obj)
    /\ \A i \in DOMAIN obj : /\ obj[i].id \in DOMAIN owner \cup {None}
                             /\ obj[i].finished \in {None, "done", "error"}
                             /\ obj[i].saw \subseteq DOMAIN record
    /\ ToSet(log) \subseteq DOMAIN record /\ ToSet(shown) \subseteq ToSet(log)
    /\ ids \subseteq requests /\ requests \subseteq Asks
    /\ opened = "opening" => replay # None /\ replay.first

(* "What you already saw is not repeated" (sdk/typescript/README.md:62):   *)
(* whatever reconnects, the app is shown an update once, in the order of   *)
(* the host's record.                                                      *)
ShownOnce == \A i, j \in DOMAIN shown : i < j => shown[i] < shown[j]

(* "The turn running now, whoever started it; null between turns"          *)
(* (client.ts:431), and the inbox: once the link is ready and the frames   *)
(* are in, the session's turn is the host's, and what waits for an answer  *)
(* is what waits at the host.                                              *)
Quiet == link = "online" /\ attached /\ toHost = <<>> /\ toApp = <<>> /\ Waiting = {}
Agrees ==
    Quiet => /\ IF running = None THEN cur = 0 ELSE cur # 0 /\ obj[cur].id = running
             /\ requests = Pending

(* "The running turn keeps streaming into the same Turn": a prompt's turn  *)
(* that is done was shown everything its agent said in it, before and      *)
(* after each reconnect.                                                   *)
TurnWhole ==
    \A i \in Prompts :
        /\ obj[i].finished = "done" /\ obj[i].id # None
        /\ owner[obj[i].id].of = i
        => \A p \in DOMAIN record :
               record[p].by = "agent" /\ record[p].turn = obj[i].id => p \in obj[i].saw

(* What the app is shown: the types, each update once and in order, and a  *)
(* turn that is done whole.                                                *)
ClientSound == ClientTypeOK /\ ShownOnce /\ TurnWhole

(* A prompt's turn comes to an end for the app, whatever connections drop, *)
(* unless the link is over, or stuck in a resume cut short, or another     *)
(* turn took its place in the session.                                     *)
Unfinished == cur # 0 /\ obj[cur].local
TurnFinishes == Unfinished ~> (~Unfinished \/ link \in {"stuck", "failed"})
=============================================================================
