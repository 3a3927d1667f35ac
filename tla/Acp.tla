-------------------------------- MODULE Acp --------------------------------
(***************************************************************************)
(* One ACP agent as the host drives it (link-core/src/acp.rs): a process   *)
(* started when it is needed, paused when it works on nothing, and started *)
(* again by the next request, which reopens its session there; prompts,    *)
(* cancels, conversations that move to another folder, and shutting down.  *)
(*                                                                         *)
(* A request runs on a task of its own; a step of it is what it does from  *)
(* one await to the next.  Two locks are held across awaits: Shared.live   *)
(* (lock), while a process starts or stops, and Shared.opening, while a    *)
(* session is reopened or closed in the agent.  Time is left open: an idle *)
(* window or a grace period may be over whenever it has begun.             *)
(***************************************************************************)
EXTENDS Naturals, FiniteSets

CONSTANTS
    Sessions,   \* the agent's session ids; a conversation goes by its first
    Existing,   \* sessions the agent has from before
    Reqs,       \* requests of the host in flight at once
    Wanted,     \* bound: the conversations the host has to do with
    Methods,    \* what the host asks: a subset of AllMethods
    Besides,    \* what happens besides: a subset of AllBesides
    None

AllMethods == {"new", "load", "prompt", "set", "delete", "move", "close"}
AllBesides == {"tool", "ask", "probe", "shutdown"}

ASSUME AcpAssumption ==
    /\ Existing \subseteq Sessions
    /\ Methods \subseteq AllMethods /\ Besides \subseteq AllBesides
    /\ IsFiniteSet(Reqs) /\ {None, "watch", "probe", "stop"} \cap Reqs = {}
    /\ None \notin Sessions

VARIABLES
    \* The process (Shared.live and its lock)
    slot,       \* there is none, it runs, or it ended by itself
    lock,       \* who holds Shared.live across an await, and for what
    \* What the host knows of the slot's process (struct Sessions)
    open,       \* sessions it has open
    suspect,    \* a cancelled prompt may have left it wedged
    cancelled,  \* a conversation's last cancel: none, recent, or out of grace
    tools,      \* conversations with a tool call or a plan under way
    asks,       \* conversations with a permission request waiting
    \* Conversations
    used,       \* session ids the agent gave out
    moves,      \* where a conversation continues (Shared.moves)
    paused,     \* conversations recorded as paused (acp-sessions.json)
    \* Requests
    req,        \* each request of the host
    opening,    \* the request that holds Shared.opening, or None
    cancels,    \* conversations a cancel is on its way for (notify's task)
    \* Life
    ready,      \* the last start went well
    probe,      \* the readiness probe
    closing,    \* shutting down
    stop        \* shutdown's task

process == <<slot, lock>>
state == <<open, suspect, cancelled, tools, asks>>
conversations == <<used, moves, paused>>
life == <<ready, probe, closing, stop>>
acpVars == <<slot, lock, open, suspect, cancelled, tools, asks, used, moves, paused,
             req, opening, cancels, ready, probe, closing, stop>>

\* A lock nobody holds, and what one who holds it does: the prompts counted by a
\* pause that looks, and what to record once it stopped.
Free == [by |-> None, does |-> "none", counted |-> 0, open |-> {}]
\* No request.  One is on the process of the slot, on the one being stopped, or on
\* one that is gone.
Idle == [phase |-> "idle", does |-> None, conv |-> None, target |-> None, on |-> "none",
         note |-> None, told |-> "no", todo |-> {}]
Unmoved(c) == [session |-> c, earlier |-> {}, note |-> None]

AcpInit ==
    /\ slot = "none" /\ lock = Free
    /\ open = {} /\ suspect = FALSE /\ tools = {} /\ asks = {}
    /\ cancelled = [c \in Sessions |-> "no"]
    /\ used = Existing /\ moves = [c \in Sessions |-> Unmoved(c)] /\ paused = {}
    /\ req = [r \in Reqs |-> Idle] /\ opening = None /\ cancels = {}
    /\ ready = FALSE /\ probe = "idle" /\ closing = FALSE /\ stop = "none"

-----------------------------------------------------------------------------
(* Conversations and their sessions *)

Target(c) == moves[c].session
SessionsOf(c) == {c} \cup moves[c].earlier \cup {moves[c].session}
\* Sessions a conversation moved to: no conversations of their own.
MovedTo == UNION {SessionsOf(c) \ {c} : c \in Sessions}
\* The conversations that sessions belong to.
ConversationsOf(S) == (S \ MovedTo) \cup {c \in Sessions : (SessionsOf(c) \ {c}) \cap S # {}}

-----------------------------------------------------------------------------
(* What the agent works on *)

Running == slot = "running"
InUse == {r \in Reqs : req[r].phase # "idle"}
Prompts(c) == {r \in Reqs : /\ req[r].phase = "sent" /\ req[r].does = "prompt"
                            /\ req[r].conv = c /\ req[r].on = "slot"}
AllPrompts == UNION {Prompts(c) : c \in Sessions}
\* Cancelled out of its grace, and never ended: the agent is wedged.
Abandoned(c) == Prompts(c) # {} /\ cancelled[c] = "old"

\* Mutant: a prompt is work as long as it is outstanding.
WorksOutstanding == AllPrompts # {} \/ tools # {} \/ asks # {}
\* What the process is known to work on.
Works == (\E c \in Sessions : Prompts(c) # {} /\ ~Abandoned(c)) \/ tools # {} \/ asks # {}

\* There are requests in flight besides n of them.
Requests(n) == Cardinality(InUse) > n

\* A look finds that the agent is wedged.
LookWedged ==
    /\ Running /\ ~suspect
    /\ \E c \in Sessions : Abandoned(c)
    /\ suspect' = TRUE
    /\ UNCHANGED <<process, open, cancelled, tools, asks, conversations, req, opening, cancels, life>>

\* A cancelled prompt's grace period is over.
GraceOver(c) ==
    /\ cancelled[c] = "recent"
    /\ cancelled' = [cancelled EXCEPT ![c] = "old"]
    /\ UNCHANGED <<process, open, suspect, tools, asks, conversations, req, opening, cancels, life>>

-----------------------------------------------------------------------------
(* The process *)

\* A new process knows of nothing.
Forget ==
    /\ open' = {} /\ suspect' = FALSE /\ tools' = {} /\ asks' = {}
    /\ cancelled' = [c \in Sessions |-> "no"]

\* It ends by itself, at any time.
Die ==
    /\ Running
    /\ slot' = "ended"
    /\ UNCHANGED <<lock, state, conversations, req, opening, cancels, life>>

\* Mutant: a start does not look whether the host shuts down.
MayStartAlways == lock = Free /\ ~Running
MayStart == lock = Free /\ ~Running /\ ~closing

\* The requests, when those on one process are left on another.
Left(from, to) ==
    [r \in Reqs |-> IF req[r].on = from THEN [req[r] EXCEPT !.on = to] ELSE req[r]]

\* Mutant: what a process that ended by itself had open is not recorded.
StartAfresh(by) ==
    /\ MayStart
    /\ slot' = "none" /\ UNCHANGED paused
    /\ lock' = [Free EXCEPT !.by = by, !.does = "start"]
    /\ Forget

\* Whoever holds the lock starts a process.  What one that ended by itself had
\* open is paused.
Start(by) ==
    /\ MayStart
    /\ slot' = "none"
    /\ paused' = paused \cup ConversationsOf(open)
    /\ lock' = [Free EXCEPT !.by = by, !.does = "start"]
    /\ Forget

\* The process answered initialize, or could not be started.
Started ==
    /\ lock.does = "start"
    /\ slot' = "running" /\ lock' = Free /\ ready' = TRUE

NotStarted ==
    /\ lock.does = "start"
    /\ lock' = Free /\ ready' = FALSE
    /\ UNCHANGED slot

\* A pause looks at what the process knows of, and counts its prompts; only then,
\* the process's state unlocked, does it look at the requests in flight (busy_of).
Look(by) ==
    /\ lock = Free /\ slot # "none"
    /\ ~Works
    /\ lock' = [Free EXCEPT !.by = by, !.does = "look", !.counted = Cardinality(AllPrompts)]

\* It is asked to stop, and what it has open noted.
TakeAway(by) ==
    /\ lock' = [Free EXCEPT !.by = by, !.does = "stop", !.open = ConversationsOf(open)]
    /\ slot' = "none"
    /\ Forget

\* It stopped, or was made to.
Stopped ==
    /\ lock.does = "stop"
    /\ paused' = paused \cup lock.open
    /\ lock' = Free
    /\ req' = IF lock.by \in Reqs THEN [Left("taken", "gone") EXCEPT ![lock.by].phase = "again"]
              ELSE Left("taken", "gone")
    /\ UNCHANGED <<slot, state, used, moves, opening, cancels, life>>

\* It was idle for its window, or is suspect and idle.
WatchLook ==
    /\ Look("watch")
    /\ UNCHANGED <<slot, state, conversations, req, opening, cancels, life>>

WatchPause ==
    /\ lock.by = "watch" /\ lock.does = "look"
    /\ \/ /\ ~Requests(lock.counted)
          /\ TakeAway("watch") /\ req' = Left("slot", "taken")
       \/ /\ Requests(lock.counted)
          /\ lock' = Free
          /\ UNCHANGED <<slot, state, req>>
    /\ UNCHANGED <<conversations, opening, cancels, life>>

-----------------------------------------------------------------------------
(* A request *)

Becomes(r, q) == req' = [req EXCEPT ![r] = q]
Ends(r) == Becomes(r, Idle)
ToPhase(r, phase) == Becomes(r, [req[r] EXCEPT !.phase = phase])

\* The host asks.  It runs one turn in a conversation, and none once it stops.
Ask(r, m, c) ==
    /\ req[r] = Idle
    /\ m = "new" <=> c = None
    /\ c # None => c \in used \ MovedTo /\ c \in Wanted
    /\ m = "prompt" => ~closing /\ ~\E o \in Reqs : req[o].does = "prompt" /\ req[o].conv = c
    /\ Becomes(r, [Idle EXCEPT !.phase = IF m = "close" THEN "close" ELSE "live",
                               !.does = m, !.conv = c])
    /\ UNCHANGED <<process, state, conversations, opening, cancels, life>>

\* The agent runs: the request has it.  A prompt looks whether it may be wedged.
GetLive(r) ==
    /\ req[r].phase \in {"live", "again"}
    /\ lock = Free /\ Running
    /\ Becomes(r, [req[r] EXCEPT !.on = "slot",
                     !.phase = IF @ = "live" /\ req[r].does = "prompt" /\ suspect
                               THEN "fresh" ELSE "got"])
    /\ UNCHANGED <<process, state, conversations, opening, cancels, life>>

\* It does not run: the request starts it, unless the host shuts down.
StartLive(r) ==
    /\ req[r].phase \in {"live", "again"}
    /\ Start(r)
    /\ req' = [Left("slot", "gone") EXCEPT ![r].phase = "starting"]
    /\ UNCHANGED <<used, moves, opening, cancels, life>>

RefuseLive(r) ==
    /\ req[r].phase \in {"live", "again"}
    /\ lock = Free /\ ~Running /\ closing
    /\ Ends(r)
    /\ UNCHANGED <<process, state, conversations, opening, cancels, life>>

LiveStarted(r) ==
    /\ lock.by = r /\ Started
    /\ Becomes(r, [req[r] EXCEPT !.phase = "got", !.on = "slot"])
    /\ UNCHANGED <<state, conversations, opening, cancels, probe, closing, stop>>

LiveFailed(r) ==
    /\ lock.by = r /\ NotStarted
    /\ Ends(r)
    /\ UNCHANGED <<state, conversations, opening, cancels, probe, closing, stop>>

\* A prompt stops the suspect process, when nothing works but the prompt.
FreshLook(r) ==
    /\ req[r].phase = "fresh" /\ req[r].on = "slot"
    /\ Look(r)
    /\ ToPhase(r, "stopping")
    /\ UNCHANGED <<slot, state, conversations, opening, cancels, life>>

FreshPause(r) ==
    /\ lock.by = r /\ lock.does = "look"
    /\ \/ /\ ~Requests(lock.counted + 1)
          /\ TakeAway(r) /\ req' = Left("slot", "taken")
       \/ /\ Requests(lock.counted + 1)
          /\ lock' = Free /\ ToPhase(r, "got")
          /\ UNCHANGED <<slot, state>>
    /\ UNCHANGED <<conversations, opening, cancels, life>>

FreshStays(r) ==
    /\ req[r].phase = "fresh"
    /\ lock = Free
    /\ req[r].on # "slot" \/ Works
    /\ ToPhase(r, "got")
    /\ UNCHANGED <<process, state, conversations, opening, cancels, life>>

\* The request goes to the agent.  A prompt clears what a turn left behind, and
\* the first after a move takes the handoff.
Send(r, t) ==
    LET prompt == req[r].does = "prompt"
        c == req[r].conv
        started == prompt /\ req[r].on = "slot"
    IN  /\ Becomes(r, [req[r] EXCEPT !.phase = "sent", !.target = t,
                                     !.note = IF prompt THEN moves[c].note ELSE None])
        /\ cancelled' = IF started THEN [cancelled EXCEPT ![c] = "no"] ELSE cancelled
        /\ tools' = IF started THEN tools \ {c} ELSE tools

IsOpen(r, t) == req[r].on = "slot" /\ t \in open

\* Its session is looked up, and need not be open for a request that opens one.
Route(r) ==
    LET t == IF req[r].conv = None THEN None ELSE Target(req[r].conv)
    IN  /\ req[r].phase = "got"
        /\ \/ /\ req[r].does \in {"new", "load", "move"} \/ IsOpen(r, t)
              /\ Send(r, t)
           \/ /\ req[r].does \notin {"new", "load", "move"} /\ ~IsOpen(r, t)
              /\ Becomes(r, [req[r] EXCEPT !.phase = "opening", !.target = t])
              /\ UNCHANGED <<cancelled, tools>>
        /\ UNCHANGED <<process, open, suspect, asks, conversations, opening, cancels, life>>

\* One session is reopened at a time; another request may have reopened it.
Reopen(r) ==
    /\ req[r].phase = "opening" /\ opening = None
    /\ \/ /\ IsOpen(r, req[r].target)
          /\ Send(r, req[r].target)
          /\ UNCHANGED opening
       \/ /\ ~IsOpen(r, req[r].target)
          /\ opening' = r
          /\ ToPhase(r, "reopening")
          /\ UNCHANGED <<cancelled, tools>>
    /\ UNCHANGED <<process, open, suspect, asks, conversations, cancels, life>>

\* Whether an answer can come: the process has not ended.
Answers(r) ==
    \/ req[r].on = "slot" /\ Running
    \/ req[r].on = "taken"
OpenedIn(r, S) == open' = IF req[r].on = "slot" THEN open \cup S ELSE open

Reopened(r) ==
    /\ req[r].phase = "reopening" /\ Answers(r)
    /\ opening' = None
    /\ OpenedIn(r, {req[r].target})
    /\ paused' = paused \ ConversationsOf({req[r].target})
    /\ Send(r, req[r].target)
    /\ UNCHANGED <<process, suspect, asks, used, moves, cancels, life>>

\* Mutant: the lock is kept by a request whose session could not be reopened.
KeptOnFailure(r) == opening
\* A request that ends lets go of the lock.
LetGo(r) == IF opening = r THEN None ELSE opening

\* The agent refused, or ended.
ReopenFailed(r) ==
    /\ req[r].phase = "reopening"
    /\ opening' = LetGo(r)
    /\ Ends(r)
    /\ UNCHANGED <<process, state, conversations, cancels, life>>

-----------------------------------------------------------------------------
(* Its answer *)

\* A prompt's end is the end of its conversation's tool calls and plan.
TurnEnded(r) ==
    LET c == req[r].conv
        here == req[r].does = "prompt" /\ req[r].on = "slot"
    IN  /\ tools' = IF here THEN tools \ {c} ELSE tools
        /\ cancelled' = IF here /\ Prompts(c) = {r} THEN [cancelled EXCEPT ![c] = "no"]
                        ELSE cancelled

\* Refused by the agent, or it ended.
Refused(r) ==
    /\ req[r].phase = "sent"
    /\ TurnEnded(r)
    /\ Ends(r)
    /\ UNCHANGED <<process, open, suspect, asks, conversations, opening, cancels, life>>

\* A session the agent just made.
Fresh == Sessions \ used

AnswerNew(r) ==
    /\ req[r].phase = "sent" /\ req[r].does = "new" /\ Answers(r)
    /\ \E s \in Fresh :
        /\ used' = used \cup {s}
        /\ OpenedIn(r, {s})
        /\ paused' = paused \ {s}
    /\ Ends(r)
    /\ UNCHANGED <<process, suspect, cancelled, tools, asks, moves, opening, cancels, life>>

AnswerLoad(r) ==
    /\ req[r].phase = "sent" /\ req[r].does = "load" /\ Answers(r)
    /\ OpenedIn(r, {req[r].target})
    /\ paused' = paused \ {req[r].conv}
    /\ Ends(r)
    /\ UNCHANGED <<process, suspect, cancelled, tools, asks, used, moves, opening, cancels, life>>

AnswerSet(r) ==
    /\ req[r].phase = "sent" /\ req[r].does = "set" /\ Answers(r)
    /\ Ends(r)
    /\ UNCHANGED <<process, state, conversations, opening, cancels, life>>

\* The turn is over.  The handoff of a prompt that had one is done with.
AnswerPrompt(r) ==
    /\ req[r].phase = "sent" /\ req[r].does = "prompt" /\ Answers(r)
    /\ TurnEnded(r)
    /\ \/ suspect' = suspect
       \/ req[r].told = "told" /\ suspect' = (suspect \/ req[r].on = "slot")
    /\ moves' = IF req[r].note = None THEN moves ELSE [moves EXCEPT ![req[r].conv].note = None]
    /\ Ends(r)
    /\ UNCHANGED <<process, open, asks, used, paused, opening, cancels, life>>

AnswerDelete(r) ==
    /\ req[r].phase = "sent" /\ req[r].does = "delete" /\ Answers(r)
    /\ open' = IF req[r].on = "slot" THEN open \ {req[r].target} ELSE open
    /\ moves' = [moves EXCEPT ![req[r].conv] = Unmoved(req[r].conv)]
    /\ Ends(r)
    /\ UNCHANGED <<process, suspect, cancelled, tools, asks, used, paused, opening, cancels, life>>

\* The conversation continues in the new session.
AnswerMove(r) ==
    LET c == req[r].conv
    IN  /\ req[r].phase = "sent" /\ req[r].does = "move" /\ Answers(r)
        /\ \E s \in Fresh :
            /\ used' = used \cup {s}
            /\ OpenedIn(r, {s})
            /\ moves' = [moves EXCEPT ![c] = [session |-> s, note |-> s,
                                              earlier |-> @.earlier \cup {@.session}]]
        /\ Ends(r)
        /\ UNCHANGED <<process, suspect, cancelled, tools, asks, paused, opening, cancels, life>>

-----------------------------------------------------------------------------
(* session/close *)

\* Never while a session is being reopened.
CloseStart(r) ==
    /\ req[r].phase = "close" /\ opening = None
    /\ opening' = r
    /\ ToPhase(r, "closing")
    /\ UNCHANGED <<process, state, conversations, cancels, life>>

\* A paused agent is not started for it.
CloseLive(r) ==
    /\ req[r].phase = "closing" /\ lock = Free
    /\ Becomes(r, [req[r] EXCEPT !.phase = "closed", !.on = IF Running THEN "slot" ELSE "none",
                                 !.todo = IF Running THEN SessionsOf(req[r].conv) ELSE {}])
    /\ UNCHANGED <<process, state, conversations, opening, cancels, life>>

\* The agent closed one of them that it had open.
CloseOne(r, s) ==
    /\ req[r].phase = "closed" /\ Answers(r)
    /\ s \in req[r].todo \cap open /\ req[r].on = "slot"
    /\ open' = open \ {s}
    /\ Becomes(r, [req[r] EXCEPT !.todo = @ \ {s}])
    /\ UNCHANGED <<process, suspect, cancelled, tools, asks, conversations, opening, cancels, life>>

CloseFailed(r) ==
    /\ req[r].phase = "closed" /\ req[r].todo # {}
    /\ req[r].todo \cap open # {} \/ req[r].on # "slot"
    /\ opening' = LetGo(r)
    /\ Ends(r)
    /\ UNCHANGED <<process, state, conversations, cancels, life>>

CloseEnd(r) ==
    /\ req[r].phase = "closed"
    /\ req[r].on = "slot" => req[r].todo \cap open = {}
    /\ opening' = LetGo(r)
    /\ paused' = paused \ {req[r].conv}
    /\ moves' = [moves EXCEPT ![req[r].conv] = Unmoved(req[r].conv)]
    /\ Ends(r)
    /\ UNCHANGED <<process, state, used, cancels, life>>

-----------------------------------------------------------------------------
(* Cancels, and what the agent does by itself *)

\* The owner cancels the conversation's turn; a task is to tell the agent.
Cancel(c) ==
    /\ c \notin cancels
    /\ \E r \in Reqs : req[r].does = "prompt" /\ req[r].conv = c /\ req[r].told = "no"
    /\ cancels' = cancels \cup {c}
    /\ req' = [r \in Reqs |-> IF req[r].does = "prompt" /\ req[r].conv = c
                              THEN [req[r] EXCEPT !.told = "asked"] ELSE req[r]]
    /\ UNCHANGED <<process, state, conversations, opening, life>>

\* The task runs.  The agent is told of the prompts it was sent.
TellCancel(c) ==
    /\ c \in cancels /\ lock = Free
    /\ cancels' = cancels \ {c}
    /\ req' = [r \in Reqs |-> IF Running /\ r \in Prompts(c)
                              THEN [req[r] EXCEPT !.told = "told"] ELSE req[r]]
    /\ cancelled' = IF Running /\ Prompts(c) # {} THEN [cancelled EXCEPT ![c] = "recent"]
                    ELSE cancelled
    /\ UNCHANGED <<process, open, suspect, tools, asks, conversations, opening, life>>

\* A tool call or a plan begins or ends, or a permission is asked or resolved.
\* A late update can come when no turn runs.
OwnWork(c) ==
    /\ Running /\ c \in ConversationsOf(open)
    /\ \/ "tool" \in Besides /\ tools' \in {tools \cup {c}, tools \ {c}} /\ UNCHANGED asks
       \/ "ask" \in Besides /\ asks' \in {asks \cup {c}, asks \ {c}} /\ UNCHANGED tools
    /\ UNCHANGED <<process, open, suspect, cancelled, conversations, req, opening, cancels, life>>

-----------------------------------------------------------------------------
(* The readiness probe, and shutting down *)

\* One that started once and does not run is ready: it is not started.
Probe ==
    /\ "probe" \in Besides /\ probe = "idle" /\ lock = Free
    /\ ~ready \/ Running
    /\ probe' = "live"
    /\ UNCHANGED <<process, state, conversations, req, opening, cancels, ready, closing, stop>>

ProbeLive ==
    /\ probe = "live"
    /\ \/ /\ lock = Free /\ (Running \/ closing)
          /\ probe' = "idle"
          /\ UNCHANGED <<slot, lock, state, paused, req>>
       \/ /\ Start("probe")
          /\ probe' = "starting"
          /\ req' = Left("slot", "gone")
    /\ UNCHANGED <<used, moves, opening, cancels, ready, closing, stop>>

ProbeStarted ==
    /\ lock.by = "probe"
    /\ probe' = "idle"
    /\ Started \/ NotStarted
    /\ UNCHANGED <<state, conversations, req, opening, cancels, closing, stop>>

Shutdown ==
    /\ "shutdown" \in Besides /\ ~closing
    /\ closing' = TRUE /\ stop' = "live"
    /\ UNCHANGED <<process, state, conversations, req, opening, cancels, ready, probe>>

\* Its prompts ended or their grace period did: it pauses, whatever it does.
ShutdownPause ==
    /\ stop = "live" /\ lock = Free
    /\ stop' = "done"
    /\ \/ slot # "none" /\ TakeAway("stop") /\ req' = Left("slot", "taken")
       \/ ~Running /\ UNCHANGED <<slot, lock, state, req>>
    /\ UNCHANGED <<conversations, opening, cancels, ready, probe, closing>>

-----------------------------------------------------------------------------
ReqStep(r) ==
    \/ GetLive(r) \/ StartLive(r) \/ RefuseLive(r)
    \/ LiveStarted(r) \/ LiveFailed(r)
    \/ FreshLook(r) \/ FreshPause(r) \/ FreshStays(r) \/ Route(r) \/ Reopen(r)
    \/ CloseStart(r) \/ CloseLive(r) \/ CloseEnd(r)

\* What the agent does with a request.
AgentStep(r) ==
    \/ Reopened(r) \/ ReopenFailed(r) \/ Refused(r)
    \/ AnswerNew(r) \/ AnswerLoad(r) \/ AnswerSet(r) \/ AnswerDelete(r) \/ AnswerMove(r)
    \/ (\E s \in Sessions : CloseOne(r, s)) \/ CloseFailed(r)

AcpNext ==
    \/ \E r \in Reqs, m \in Methods, c \in Sessions \cup {None} : Ask(r, m, c)
    \/ \E r \in Reqs : ReqStep(r) \/ AgentStep(r) \/ AnswerPrompt(r)
    \/ \E c \in Sessions : Cancel(c) \/ TellCancel(c) \/ GraceOver(c) \/ OwnWork(c)
    \/ LookWedged \/ Die \/ Stopped \/ WatchLook \/ WatchPause
    \/ Probe \/ ProbeLive \/ ProbeStarted \/ Shutdown \/ ShutdownPause

AcpSpec == AcpInit /\ [][AcpNext]_acpVars

\* A prompt the agent has need not end.
Due(r) == ~(Answers(r) /\ req[r].phase = "sent" /\ req[r].does = "prompt")

\* The locks serve who waits in turn (tokio::sync::Mutex), and what runs on a task
\* goes on.  The agent answers every request but a prompt in the end, or ends; one
\* that does not initialize is given up (START_TIMEOUT).
AcpFairness ==
    /\ \A r \in Reqs : SF_acpVars(ReqStep(r)) /\ WF_acpVars(Due(r) /\ AgentStep(r))
    /\ \A c \in Sessions : SF_acpVars(TellCancel(c)) /\ WF_acpVars(GraceOver(c))
    /\ WF_acpVars(Stopped) /\ WF_acpVars(LookWedged) /\ SF_acpVars(WatchLook) /\ WF_acpVars(WatchPause)
    /\ SF_acpVars(ProbeLive) /\ WF_acpVars(ProbeStarted)

FairAcpSpec == AcpSpec /\ AcpFairness

-----------------------------------------------------------------------------
Phases == {"idle", "live", "starting", "fresh", "stopping", "again", "got", "opening",
           "reopening", "sent", "close", "closing", "closed"}

LockType == [by : Reqs \cup {None, "watch", "probe", "stop"},
             does : {"none", "start", "look", "stop"},
             counted : 0..Cardinality(Reqs), open : SUBSET Sessions]
MoveType == [session : Sessions, earlier : SUBSET Sessions, note : Sessions \cup {None}]
ReqType == [phase : Phases, does : AllMethods \cup {None}, conv : Sessions \cup {None},
            target : Sessions \cup {None}, on : {"none", "slot", "taken", "gone"},
            note : Sessions \cup {None}, told : {"no", "asked", "told"}, todo : SUBSET Sessions]

\* Only a request that reopens or closes holds the lock for that, only one that
\* starts or stops the process holds the process, and none runs meanwhile.
LocksHeld ==
    /\ \A r \in Reqs : opening = r <=> req[r].phase \in {"reopening", "closing", "closed"}
    /\ \A r \in Reqs : lock.by = r <=> req[r].phase \in {"starting", "stopping"}
    /\ lock.does \in {"start", "stop"} => slot = "none"

\* Every variable holds values of its kind, and the locks are held by who is at
\* what they guard.
AcpTypeOK ==
    /\ slot \in {"none", "running", "ended"} /\ lock \in LockType
    /\ open \subseteq Sessions /\ suspect \in BOOLEAN
    /\ cancelled \in [Sessions -> {"no", "recent", "old"}]
    /\ tools \subseteq Sessions /\ asks \subseteq Sessions
    /\ used \subseteq Sessions /\ paused \subseteq Sessions
    /\ moves \in [Sessions -> MoveType]
    /\ req \in [Reqs -> ReqType]
    /\ opening \in Reqs \cup {None}
    /\ cancels \subseteq Sessions
    /\ ready \in BOOLEAN /\ closing \in BOOLEAN
    /\ probe \in {"idle", "live", "starting"} /\ stop \in {"none", "live", "done"}
    /\ LocksHeld

\* Conversations the agent holds: open in its process or in the one that stops, or
\* recorded as paused.
Held == ConversationsOf(open) \cup lock.open \cup paused
\* What a request is for.
For(r) == {req[r].conv} \cup ConversationsOf({req[r].target} \cup req[r].todo)
\* A request that may end what it is for: it closes or deletes it, it is answered
\* by a process that is being stopped, or the conversation was closed or deleted
\* since it was sent.
Ending(r) ==
    \/ req[r].does \in {"close", "delete"}
    \/ req[r].on = "taken"
    \/ req[r].phase = "sent" /\ req[r].target \notin SessionsOf(req[r].conv)

\* "Its sessions are kept, and the next request for one resumes it": a conversation
\* the agent had open is open or recorded as paused from then on, through pauses,
\* processes that end by themselves, moves, and reopenings that fail, until it is
\* closed or deleted.
NoneForgotten ==
    [][ \A c \in Held \ Held' : \E r \in Reqs : Ending(r) /\ c \in For(r) ]_acpVars

\* "Shutting down: no prompt is taken, nothing started": once shutdown has paused
\* the agent nothing of it runs or starts, whatever was under way.
StopsForGood == stop = "done" => ~Running /\ lock.does # "start"

\* Every request goes on to its end, or to be a prompt the agent has: nobody waits
\* forever on the two locks, whoever starts, pauses, reopens, closes or ends.
Waits(r) == req[r].phase # "idle" /\ ~(req[r].phase = "sent" /\ req[r].does = "prompt")
RequestsGoOn == \A r \in Reqs : Waits(r) ~> ~Waits(r)

\* An agent that works on nothing is paused, and one that is wedged is let go: a
\* prompt that was cancelled and never ends does not keep it running.
WorksOnNothing ==
    /\ Running /\ tools = {} /\ asks = {}
    /\ \A r \in InUse : r \in Prompts(req[r].conv) /\ cancelled[req[r].conv] # "no"
PausesInTheEnd == []<>~WorksOnNothing
=============================================================================
