------------------------------- MODULE Phone -------------------------------
(***************************************************************************)
(* The phone contract (link-core/src/phone.rs, Contract) over the host:    *)
(* chat frames deduplicated by message_id and each served by a task of its *)
(* own, one slot per chat in `running`, the messages queued behind it, and *)
(* one task that takes the host's broadcast events in order and turns them *)
(* into frames, notices, inbox items and the next queued message.          *)
(*                                                                         *)
(* The host is what the contract sees of it (Host.tla has the whole): one  *)
(* slot for a turn per open session, whoever started it, turns that go on  *)
(* after their session was closed under them, permission requests, and its *)
(* events, of which a receiver that fell more than EventRoom behind loses  *)
(* the oldest.  Each chat has an agent of its own.  A frame that names no  *)
(* chat makes a new one.  Bounds: each member of Frames is sent once, each *)
(* of Asks asked once; frames, requests, updates and turns of other        *)
(* clients are at most Budget together.                                    *)
(***************************************************************************)
EXTENDS Cards, FiniteSets

CONSTANTS
    Chats,
    Frames,      \* chat frames the phone sends
    Asks,        \* permission requests
    MessageOf,   \* the message_id of each frame (a re-sent frame has its)
    ChatOf,      \* the chat each frame names, or None
    OldChats,    \* chats there from before
    SeenLimit,   \* SEEN_MESSAGES
    EventRoom,   \* the host's broadcast channel
    Budget

Others == 1 .. Budget        \* turns that other clients of the host start
Turns == Frames \cup Others  \* a frame's turn goes by the frame

ASSUME PhoneBounds ==
    /\ SeenLimit \in Nat \ {0} /\ EventRoom \in Nat \ {0}
    /\ Budget \in Nat
    /\ OldChats \subseteq Chats
    /\ None \notin Chats \cup Turns \cup Asks /\ Frames \cap Others = {}
    /\ IsFiniteSet(Asks)
    /\ MessageOf \in [Frames -> Frames] /\ ChatOf \in [Frames -> Chats \cup {None}]

VARIABLES
    \* the host
    hosted,    \* chats whose agent is on the roster
    open,      \* chats open in the host
    turn,      \* the turn that has the chat's slot, or None
    left,      \* turns of the chat that go on without it
    cut,       \* chats that were closed under a turn (history)
    spent,     \* inputs so far, for their bound
    asked,     \* each request: its chat, its turn and whether it is pending
    record,    \* the updates of each chat
    events,    \* host events the contract has not taken
    behind,    \* whether the contract has missed events
    \* the contract
    seen,      \* State.seen_order (and State.seen, its members)
    running,   \* State.running
    queued,    \* State.queued
    task,      \* where the task serving a frame is
    chat,      \* the chat the frame turned out to be for
    tools,     \* State.tools
    notices,   \* State.notices
    words,     \* State.words
    inbox,     \* what the owner's inbox lists
    \* what the phone was told
    told,      \* of each frame, last
    shown      \* of each chat, in its turns

hostVars == <<hosted, open, turn, left, cut, spent, asked, record>>
streamVars == <<events, behind>>
slotVars == <<seen, running, queued, task, chat>>
askVars == <<tools, notices, words, inbox>>
phoneVars == <<told, shown>>
vars == <<hostVars, streamVars, slotVars, askVars, phoneVars>>

\* The host's events, as far as the contract reads them.
Event == [is : {"update", "added", "resolved", "ended", "closed"}, chat : Chats,
          turn : Turns \cup {None}, ask : Asks \cup {None},
          update : Update \cup {None}]
OfChat(is, c) ==
    [is |-> is, chat |-> c, turn |-> None, ask |-> None, update |-> None]
OfAsk(is, q) == [OfChat(is, asked[q].chat) EXCEPT !.ask = q]
OfTurn(c, t) == [OfChat("ended", c) EXCEPT !.turn = t]

\* The event is broadcast; a contract with no room for it loses its oldest.
Emit(more) ==
    LET all == events \o more
        over == Len(all) - EventRoom
    IN  /\ events' = IF over > 0 THEN SubSeq(all, over + 1, Len(all)) ELSE all
        /\ behind' = (behind \/ over > 0)

\* One more input from outside.
Input == spent < Budget /\ spent' = spent + 1

\* The chat's turns that have not ended.
Going(c) == (left[c] \cup {turn[c]}) \ {None}

PendingOn(c) == {q \in Asks : asked[q].is = "pending" /\ asked[q].chat = c}

Init ==
    /\ hosted = Chats /\ open = {}
    /\ turn = [c \in Chats |-> None] /\ left = [c \in Chats |-> {}] /\ cut = {}
    /\ spent = 0
    /\ asked = [q \in Asks |-> [is |-> "none", chat |-> None, turn |-> None]]
    /\ record = [c \in Chats |-> <<>>]
    /\ events = <<>> /\ behind = FALSE
    /\ seen = <<>> /\ running = {}
    /\ queued = [c \in Chats |-> <<>>]
    /\ task = [f \in Frames |-> "none"]
    /\ chat = ChatOf
    /\ tools = [c \in Chats |-> NoTools]
    /\ notices = {}
    /\ words = {} /\ inbox = {}
    /\ told = [f \in Frames |-> "nothing"]
    /\ shown = [c \in Chats |-> <<>>]

-----------------------------------------------------------------------------
(* Frames of the phone *)

\* The chats a phone can name: old ones, and those announced to it.
Known == OldChats \cup {chat[f] : f \in {g \in Frames : ChatOf[g] = None}}

\* Whether this is the message's first frame; it is remembered either way.
FirstTime(f) == MessageOf[f] \notin ToSet(seen)

Remember(f) ==
    LET all == Append(seen, MessageOf[f])
    IN  seen' = IF Len(all) > SeenLimit THEN Tail(all) ELSE all

\* The phone sends a frame.
Sends(f) == task[f] = "none" /\ ChatOf[f] \in Known \cup {None} /\ Input

\* Mutant: a message is remembered only once its turn has started, so a frame
\* sent again meanwhile runs too.
InboundLate(f) ==
    /\ Sends(f)
    /\ task' = [task EXCEPT ![f] =
          IF \E g \in Frames : MessageOf[g] = MessageOf[f] /\ told[g] # "nothing"
          THEN "done" ELSE "chat"]
    /\ UNCHANGED <<hosted, open, turn, left, cut, asked, record, streamVars>>
    /\ UNCHANGED <<seen, running, queued, chat, askVars, phoneVars>>

\* inbound: a chat frame is handed to a task unless its message was seen.
Inbound(f) ==
    /\ Sends(f)
    /\ IF FirstTime(f)
       THEN Remember(f) /\ task' = [task EXCEPT ![f] = "chat"]
       ELSE UNCHANGED seen /\ task' = [task EXCEPT ![f] = "done"]
    /\ UNCHANGED <<hosted, open, turn, left, cut, asked, record, streamVars>>
    /\ UNCHANGED <<running, queued, chat, askVars, phoneVars>>

Tell(f, what) == told' = [told EXCEPT ![f] = what]

\* chat, refused before it has a chat: no such agent or conversation, nothing
\* to send, or the agent makes no new session.
ChatRefused(f) ==
    /\ task[f] = "chat"
    /\ task' = [task EXCEPT ![f] = "done"]
    /\ Tell(f, "error")
    /\ UNCHANGED <<hostVars, streamVars, seen, running, queued, chat, askVars, shown>>

\* The slot is taken, or the message waits behind the one that has it.
Place(f, c) ==
    IF c \in running
    THEN /\ queued' = [queued EXCEPT ![c] = Append(@, f)]
         /\ task' = [task EXCEPT ![f] = "queued"]
         /\ Tell(f, "queued")
         /\ UNCHANGED running
    ELSE /\ running' = running \cup {c}
         /\ task' = [task EXCEPT ![f] = "begin"]
         /\ UNCHANGED <<queued, told>>

\* chat, on a conversation the frame names.
Chat(f) ==
    /\ task[f] = "chat"
    /\ chat[f] \in hosted
    /\ Place(f, chat[f])
    /\ UNCHANGED <<hostVars, streamVars, seen, chat, askVars, shown>>

\* chat without one: the session is made first, and announced.
NewChat(f, c) ==
    /\ task[f] = "chat"
    /\ chat[f] = None
    /\ c \in hosted \ open
    /\ c \notin Known
    /\ chat' = [chat EXCEPT ![f] = c]
    /\ open' = open \cup {c}
    /\ Place(f, c)
    /\ UNCHANGED <<hosted, turn, left, cut, spent, asked, record, streamVars, seen, askVars, shown>>

-----------------------------------------------------------------------------
(* Starting a turn, its slot taken *)

\* Mutant: a start that is refused tells nobody.
StartFailsQuietly(f) ==
    /\ running' = running \ {chat[f]}
    /\ queued' = [queued EXCEPT ![chat[f]] = <<>>]
    /\ task' = [task EXCEPT ![f] = "done"]
    /\ UNCHANGED <<hostVars, streamVars, seen, chat, askVars, phoneVars>>

\* start, refused: the chat is free, and what waited on it goes with it.
StartFails(f) ==
    /\ running' = running \ {chat[f]}
    /\ queued' = [queued EXCEPT ![chat[f]] = <<>>]
    /\ task' = [task EXCEPT ![f] = "done"]
    /\ Tell(f, "error")
    /\ UNCHANGED <<hostVars, streamVars, seen, chat, askVars, shown>>

\* begin: the session opened in the host unless it is, and the mode the
\* permission asks for set; either may be refused.
BeginOpens(f) ==
    /\ task[f] = "begin"
    /\ chat[f] \in hosted
    /\ open' = open \cup {chat[f]}
    /\ task' = [task EXCEPT ![f] = "prompt"]
    /\ UNCHANGED <<hosted, turn, left, cut, spent, asked, record, streamVars>>
    /\ UNCHANGED <<seen, running, queued, chat, askVars, phoneVars>>

BeginRefused(f) == task[f] = "begin" /\ StartFails(f)

\* Host::prompt, the contract's own.
Prompt(f) ==
    LET c == chat[f]
    IN  /\ task[f] = "prompt"
        /\ c \in open
        /\ turn[c] = None
        /\ turn' = [turn EXCEPT ![c] = f]
        /\ record' = [record EXCEPT ![c] = Append(@, UserText)]
        /\ task' = [task EXCEPT ![f] = "done"]
        /\ Tell(f, "running")
        /\ UNCHANGED <<hosted, open, left, cut, spent, asked, streamVars>>
        /\ UNCHANGED <<seen, running, queued, chat, askVars, shown>>

PromptRefused(f) ==
    /\ task[f] = "prompt"
    /\ chat[f] \notin open \/ turn[chat[f]] # None
    /\ StartFails(f)

\* next's own task: the agent looked up again for the queued message.
NextStarts(f) ==
    /\ task[f] = "next"
    /\ chat[f] \in hosted
    /\ task' = [task EXCEPT ![f] = "begin"]
    /\ UNCHANGED <<hostVars, streamVars, seen, running, queued, chat, askVars, phoneVars>>

\* Its agent is gone: the slot and all that waits on it are dropped.
NextGone(f) ==
    LET c == chat[f]
    IN  /\ task[f] = "next"
        /\ c \notin hosted
        /\ running' = running \ {c}
        /\ queued' = [queued EXCEPT ![c] = <<>>]
        /\ task' = [task EXCEPT ![f] = "done"]
        /\ UNCHANGED <<hostVars, streamVars, seen, chat, askVars, phoneVars>>

-----------------------------------------------------------------------------
(* The host *)

\* Another client's turn on a chat that is open.
OtherPrompts(c) ==
    /\ c \in open /\ turn[c] = None /\ Input
    /\ turn' = [turn EXCEPT ![c] = spent']
    /\ record' = [record EXCEPT ![c] = Append(@, UserText)]
    /\ UNCHANGED <<hosted, open, left, cut, asked, streamVars, slotVars, askVars, phoneVars>>

\* messages: the chat is opened to be read, as another client may also do.
Messages(c) ==
    /\ c \in hosted \ open
    /\ c \in Known
    /\ open' = open \cup {c}
    /\ UNCHANGED <<hosted, turn, left, cut, spent, asked, record, streamVars, slotVars, askVars, phoneVars>>

\* The calls of the turns before the one that runs: their ids are not used
\* again.
EarlierCalls(c) ==
    LET starts == {i \in 1 .. Len(record[c]) : record[c][i].what = "user"}
    IN  {record[c][i].call : i \in {j \in 1 .. Len(record[c]) :
                                      \E s \in starts : j < s}} \ {None}

\* The agent says something in a turn.  The host tells of open sessions alone.
Updated(c, u) ==
    /\ Going(c) # {}
    /\ Input
    /\ u.what # "user"
    /\ u.call \notin EarlierCalls(c)
    /\ record' = [record EXCEPT ![c] = Append(@, u)]
    /\ IF c \in open THEN Emit(<<[OfChat("update", c) EXCEPT !.update = u]>>)
       ELSE UNCHANGED streamVars
    /\ UNCHANGED <<hosted, open, turn, left, cut, asked, slotVars, askVars, phoneVars>>

\* The agent asks, about a call of the turn or one it has not told of, or with
\* words of its own (None).
Requested(c, q, call) ==
    /\ c \in open /\ Going(c) # {} /\ asked[q].is = "none" /\ Input
    /\ call = None \/ call \notin EarlierCalls(c)
    /\ asked' = [asked EXCEPT ![q] = [is |-> "pending", chat |-> c, turn |-> turn[c]]]
    /\ Emit(<<[OfChat("added", c) EXCEPT !.ask = q,
          !.update = IF call = None THEN None ELSE ToolCall(call, "pending")]>>)
    /\ UNCHANGED <<hosted, open, turn, left, cut, record, slotVars, askVars, phoneVars>>

\* The requests of these resolve, each with its event.
Resolving(qs) ==
    asked' = [q \in Asks |-> IF q \in qs THEN [asked[q] EXCEPT !.is = "resolved"] ELSE asked[q]]
ResolvedEvents(qs) ==
    LET order == SetToSeq(qs)
    IN  [i \in 1 .. Len(order) |-> OfAsk("resolved", order[i])]

\* A request is answered, by a device or by the phone (answer, whose value
\* must name an option of a request that waits).
Answer(q) ==
    /\ asked[q].is = "pending"
    /\ Resolving({q})
    /\ Emit(ResolvedEvents({q}))
    /\ UNCHANGED <<hosted, open, turn, left, cut, spent, record, slotVars, askVars, phoneVars>>

\* cancel, with a turn running: the host is told, which answers its requests
\* `cancelled`; the turn ends when the agent ends it.
Cancel(c) ==
    /\ turn[c] # None /\ PendingOn(c) # {}
    /\ Resolving(PendingOn(c))
    /\ Emit(ResolvedEvents(PendingOn(c)))
    /\ UNCHANGED <<hosted, open, turn, left, cut, spent, record, slotVars, askVars, phoneVars>>

\* cancel, with none: the phone is told the chat is cancelled, whatever the
\* contract itself is starting on it.
CancelNothing(c) ==
    LET starting == {f \in Frames : /\ chat[f] = c
                                    /\ task[f] \in {"begin", "prompt", "next", "queued"}}
    IN  /\ turn[c] = None
        /\ starting # {}
        /\ told' = [f \in Frames |-> IF f \in starting THEN "cancelled" ELSE told[f]]
        /\ UNCHANGED <<hostVars, streamVars, slotVars, askVars, shown>>

\* A turn ends, what it asked resolved first.  It frees the chat's slot, also when
\* another turn has it.
EndTurn(c, t) ==
    LET its == {q \in PendingOn(c) : asked[q].turn = t}
    IN  /\ t \in Going(c)
        /\ turn' = [turn EXCEPT ![c] = None]
        /\ left' = [left EXCEPT ![c] = Going(c) \ {t}]
        /\ Resolving(its)
        /\ Emit(ResolvedEvents(its) \o <<OfTurn(c, t)>>)
        /\ UNCHANGED <<hosted, open, cut, spent, record, slotVars, askVars, phoneVars>>

\* The chat's session is let go, what it asked resolved first.  A turn of it goes
\* on in the agent.
LetGo(c) ==
    /\ open' = open \ {c}
    /\ turn' = [turn EXCEPT ![c] = None] /\ left' = [left EXCEPT ![c] = Going(c)]
    /\ cut' = IF Going(c) = {} THEN cut ELSE cut \cup {c}
    /\ Resolving(PendingOn(c))
    /\ Emit(ResolvedEvents(PendingOn(c))
              \o (IF c \in open THEN <<OfChat("closed", c)>> ELSE <<>>))
    /\ UNCHANGED <<spent, record, slotVars, askVars, phoneVars>>

\* An idle session is let go, or any is closed by a client.
Close(c) == c \in open /\ LetGo(c) /\ UNCHANGED hosted

\* remove_agent: its sessions close, then it is off the roster.
RemoveAgent(c) == c \in hosted /\ hosted' = hosted \ {c} /\ LetGo(c)

-----------------------------------------------------------------------------
(* The events task *)

Show(c, more) == shown' = [shown EXCEPT ![c] = @ \o more]
Took(t) == [t EXCEPT !.out = <<>>]

\* on_event, an update: cards not yet shown go before a text.
OnUpdate(e) ==
    LET flushed == Flush(tools[e.chat])
        known == Tool(tools[e.chat], e.update.call, e.update.status)
    IN  /\ \/ /\ e.update.what = "text"
              /\ tools' = [tools EXCEPT ![e.chat] = Took(flushed)]
              /\ Show(e.chat, Append(flushed.out, Said))
           \/ /\ e.update.what = "tool"
              /\ tools' = [tools EXCEPT ![e.chat] = Took(known)]
              /\ Show(e.chat, known.out)
        /\ UNCHANGED <<slotVars, notices, words, inbox, told>>

\* asked: the call's card unless the request has words of its own, the words, a
\* notice, the inbox, and the card of the question.
Asked(e) ==
    LET known == Ask(tools[e.chat], e.update.call, e.update.status)
    IN  /\ \/ e.update = None /\ UNCHANGED <<tools, shown>>
           \/ /\ e.update # None
              /\ tools' = [tools EXCEPT ![e.chat] = Took(known)]
              /\ Show(e.chat, known.out)
        /\ words' = words \cup {e.ask}
        /\ notices' = notices \cup {e.ask}
        /\ inbox' = inbox \cup {e.ask}
        /\ UNCHANGED <<slotVars, told>>

\* resolved: wherever it was answered, it goes from all three places.
Resolved(e) ==
    /\ words' = words \ {e.ask}
    /\ notices' = notices \ {e.ask}
    /\ inbox' = inbox \ {e.ask}
    /\ UNCHANGED <<slotVars, tools, phoneVars>>

\* next: the oldest message that waits is handed to a task of its own, or the
\* chat is free.
NextQueued(c) ==
    IF queued[c] = <<>>
    THEN /\ running' = running \ {c}
         /\ UNCHANGED <<queued, task>>
    ELSE /\ queued' = [queued EXCEPT ![c] = Tail(@)]
         /\ task' = [task EXCEPT ![Head(queued[c])] = "next"]
         /\ UNCHANGED running

\* A turn's end, whoever started it.
OnEnded(e) ==
    LET flushed == Flush(tools[e.chat])
    IN  /\ Show(e.chat, flushed.out)
        /\ tools' = [tools EXCEPT ![e.chat] = NoTools]
        /\ told' = [f \in Frames |-> IF f = e.turn THEN "ended" ELSE told[f]]
        /\ NextQueued(e.chat)
        /\ UNCHANGED <<seen, chat, notices, words, inbox>>

OnClosed(e) ==
    /\ tools' = [tools EXCEPT ![e.chat] = NoTools]
    /\ UNCHANGED <<slotVars, notices, words, inbox, phoneVars>>

OnEvent ==
    /\ events # <<>>
    /\ LET e == Head(events)
       IN  \/ e.is = "update" /\ OnUpdate(e)
           \/ e.is = "added" /\ Asked(e)
           \/ e.is = "resolved" /\ Resolved(e)
           \/ e.is = "ended" /\ OnEnded(e)
           \/ e.is = "closed" /\ OnClosed(e)
    /\ events' = Tail(events)
    /\ UNCHANGED <<hostVars, behind>>

\* delete_notification; which of them were read matters to nothing else.
DeleteNotification(q) ==
    /\ q \in notices
    /\ notices' = notices \ {q}
    /\ UNCHANGED <<hostVars, streamVars, slotVars, tools, words, inbox, phoneVars>>

-----------------------------------------------------------------------------
Serve(f) ==
    \/ ChatRefused(f) \/ Chat(f) \/ \E c \in Chats : NewChat(f, c)
    \/ BeginOpens(f) \/ BeginRefused(f)
    \/ Prompt(f) \/ PromptRefused(f)
    \/ NextStarts(f) \/ NextGone(f)

EndTurns(c) == \E t \in Going(c) : EndTurn(c, t)

HostStep(c) ==
    \/ OtherPrompts(c) \/ Messages(c)
    \/ \E i \in MessageIds \cup {None} : Updated(c, AgentText(i))
    \/ \E call \in Calls, s \in Statuses : Updated(c, ToolCall(call, s))
    \/ \E q \in Asks, call \in Calls \cup {None} : Requested(c, q, call)
    \/ EndTurns(c) \/ Close(c) \/ RemoveAgent(c)
    \/ Cancel(c) \/ CancelNothing(c)

Next ==
    \/ \E f \in Frames : Inbound(f) \/ Serve(f)
    \/ \E c \in Chats : HostStep(c)
    \/ \E q \in Asks : Answer(q) \/ DeleteNotification(q)
    \/ OnEvent

\* Every task goes on, events are taken, and an agent ends its turns; whether
\* the phone or another client does anything is theirs.
Fairness ==
    /\ \A f \in Frames : WF_vars(Serve(f))
    /\ \A c \in Chats : WF_vars(EndTurns(c))
    /\ WF_vars(OnEvent)

Spec == Init /\ [][Next]_vars
FairSpec == Spec /\ Fairness

-----------------------------------------------------------------------------
(* Properties *)

\* The type of the state.
PhoneTypeOK ==
    /\ hosted \subseteq Chats /\ open \subseteq hosted
    /\ turn \in [Chats -> Turns \cup {None}] /\ left \in [Chats -> SUBSET Turns]
    /\ cut \subseteq Chats
    /\ spent \in 0 .. Budget
    /\ asked \in [Asks -> [is : {"none", "pending", "resolved"}, chat : Chats \cup {None},
                       turn : Turns \cup {None}]]
    /\ record \in [Chats -> Seq(Update)]
    /\ events \in Seq(Event) /\ behind \in BOOLEAN
    /\ seen \in Seq(Frames) /\ Len(seen) <= SeenLimit
    /\ running \subseteq Chats
    /\ queued \in [Chats -> Seq(Frames)]
    /\ task \in [Frames -> {"none", "chat", "queued", "begin", "prompt", "next", "done"}]
    /\ chat \in [Frames -> Chats \cup {None}]
    /\ notices \subseteq Asks /\ words \subseteq Asks /\ inbox \subseteq Asks
    /\ told \in [Frames -> {"nothing", "queued", "error", "running", "ended", "cancelled"}]

\* What will free a chat's slot or hand it on: a task that starts a turn on
\* it, a turn, or the end of one the contract has yet to take.
Starting(c) == {f \in Frames : chat[f] = c /\ task[f] \in {"begin", "prompt", "next"}}
EndComing(c) == \E i \in 1 .. Len(events) : events[i].is = "ended" /\ events[i].chat = c

\* A chat is never held by nothing (phone.rs:741, 915): while its slot is taken
\* some step is due that frees it or starts the message that waits, and no
\* message waits on a chat that is free.  Only a contract that missed events
\* may hold a chat for ever.
SlotIsBusy ==
    /\ \A c \in Chats : queued[c] # <<>> => c \in running
    /\ \A c \in running : behind \/ Starting(c) # {} \/ Going(c) # {} \/ EndComing(c)

\* A message runs at most once however often its frame is sent
\* (phone.rs:50, first_time): of the frames with its id one is served.
RunsOnce ==
    \A f, g \in Frames :
       (f # g /\ MessageOf[f] = MessageOf[g])
         => ~ (told[f] # "nothing" /\ told[g] # "nothing")

\* A request is shown in the chat's words, the notices and the inbox from when
\* the contract hears of it until it is resolved, and then in none of them,
\* whoever answered it (phone.rs:20).
AskEverywhere ==
    \A q \in Asks :
       (~ behind /\ \A i \in 1 .. Len(events) : events[i].ask # q)
         => IF asked[q].is = "pending"
            THEN q \in words /\ q \in inbox
            ELSE q \notin words \cup inbox \cup notices

\* What the contract keeps is sound: the types, who holds a chat, and which
\* messages it served, and where its requests are shown.
PhoneSound == PhoneTypeOK /\ SlotIsBusy /\ RunsOnce /\ AskEverywhere

\* What the phone was shown as it happened reads as the transcript of the same
\* chat does: the same texts and results in the same order, and before each
\* text at least the calls the transcript has there (turn.rs:163, Tools;
\* phone.rs:1068, Transcript).  A chat closed under a turn is the exception: what
\* the turn says from then on, and the cards not yet shown, reach nobody.
LiveReadsAsTranscript ==
    /\ shown \in [Chats -> Seq(Shown)]
    /\ \A c \in Chats :
          (/\ ~ behind /\ Going(c) = {} /\ c \notin cut
           /\ \A i \in 1 .. Len(events) : events[i].chat # c)
            => ReadsAs(shown[c], Rows(record[c]))

\* A message whose turn is being started is told how that went, and when it
\* ends (phone.rs:770, 915), unless the contract missed events.
StartIsTold ==
    \A f \in Frames : task[f] = "begin" ~> (behind \/ told[f] \in {"error", "ended"})
=============================================================================
