----------------------------- MODULE Connection -----------------------------
(***************************************************************************)
(* The connections of clients to the host (oal-host/src/conn.rs), over the *)
(* host core of module Host: every step of the host puts its events in the *)
(* queue of every connection, and a connection takes one frame of its      *)
(* device, or one event, at a time.  While a frame waits for an agent      *)
(* (op[c] is not idle) the connection's events wait too, so a connection   *)
(* may know more than the events it takes next.  A client without a        *)
(* connection is the phone contract (phone.rs), over the same host.        *)
(*                                                                         *)
(* `seen` and `shown` are what a connection wrote to its device.           *)
(***************************************************************************)
EXTENDS Host

CONSTANT Devices    \* the clients that are connections

ASSUME DevicesAssumption == Devices \subseteq Clients

VARIABLES
    up,         \* connections that are up
    inbox,      \* their receivers of the host's events
    attached,   \* Connection.attached: the host's seq, None = not attached
    copies,     \* Connection.copies, by the requests they are copies of
    prompts,    \* Connection.prompts, by their turns
    seen,       \* entries sent of a session since it was attached
    shown,      \* the last host/turn sent of it since then
    outlived    \* history: attached when the host let the session go

sightVars == <<seen, shown>>
deviceVars == <<up, attached, copies, prompts, sightVars>>
vars == <<hostVars, inbox, outlived, deviceVars>>

Latest(s) == IF s.turn # None THEN <<"running", s.turn>>
             ELSE IF s.ended # None THEN <<"ended", s.ended>> ELSE None

ConnInit ==
    /\ Init
    /\ up = {}
    /\ inbox = [c \in Clients |-> <<>>]
    /\ attached = [c \in Clients |-> [k \in Key |-> None]]
    /\ copies = [c \in Clients |-> {}]
    /\ prompts = [c \in Clients |-> {}]
    /\ seen = [c \in Clients |-> [k \in Key |-> <<>>]]
    /\ shown = [c \in Clients |-> [k \in Key |-> None]]
    /\ outlived = {}

\* What the host's step said goes to every connection.
Tell == inbox' = [c \in Clients |-> IF c \in up THEN inbox[c] \o out' ELSE <<>>]

\* The sessions the host let go in its step, `now` attached in it.
Outlive(now) ==
    outlived' = (outlived \ now) \cup (Clients \X {k \in Key : closing'[k] > closing[k]})

\* A step of the host that leaves the connections as they are.
HostOnly == Tell /\ Outlive({}) /\ UNCHANGED deviceVars

-----------------------------------------------------------------------------
(* Frames from the device *)

\* A copy of each request of R; a copy of another with its id is replaced.
WithCopies(S, R) == {b \in S : \A a \in R : Id(b) # Id(a)} \cup R

\* Attaches c to a session it loaded or resumed, if it is open: the record,
\* the latest turn, its pending requests.
Attach(c, k, how) ==
    /\ IF sess'[k].held /\ ~sess'[k].opening
       THEN /\ attached' = [attached EXCEPT ![c][k] = seq']
            /\ copies' = [copies EXCEPT ![c] = WithCopies(@, PendingOf(k))]
            /\ seen' = [seen EXCEPT ![c][k] = IF how = "load" THEN sess'[k].record ELSE <<>>]
            /\ shown' = [shown EXCEPT ![c][k] = Latest(sess'[k])]
            /\ Outlive({<<c, k>>})
       ELSE /\ UNCHANGED <<attached, copies, sightVars>>
            /\ Outlive({})
    /\ Tell
    /\ UNCHANGED <<up, prompts>>

LoadOpen(c) == \E k \in Key, how \in Opens : OpenFromRecord(c, k, how) /\ Attach(c, k, how)
LoadLate(c) == OpenLate(c) /\ Attach(c, op[c].key, op[c].how)
LoadOk(c) == OpenOk(c) /\ Attach(c, op[c].key, op[c].how)

\* A session c made: attached from the start of the host's order.
NewAttach(c) ==
    LET k == op[c].key
    IN  /\ NewOk(c)
        /\ attached' = [attached EXCEPT ![c][k] = 0]
        /\ seen' = [seen EXCEPT ![c][k] = <<>>]
        /\ shown' = [shown EXCEPT ![c][k] = None]
        /\ Outlive({<<c, k>>})
        /\ Tell
        /\ UNCHANGED <<up, copies, prompts>>

\* What waits for an agent, or changes nothing here.
Forward(c) ==
    /\ \/ \E k \in Key : NewBegin(c, k) \/ \E how \in Opens : OpenWait(c, k, how)
       \/ NewErr(c) \/ OpenInAgent(c) \/ OpenErr(c) \/ ChangeErr(c) \/ ModeOk(c)
    /\ HostOnly

\* Only of a session c is attached to.
Change(c) ==
    /\ \E k \in Key : /\ attached[c][k] # None
                      /\ \/ \E method \in {"mode", "close"} : ChangeBegin(c, k, method)
                         \/ Cancel(c, k)
    /\ HostOnly

CloseDone(c) ==
    /\ CloseOk(c)
    /\ attached' = [attached EXCEPT ![c][op[c].key] = None]
    /\ Tell
    /\ Outlive({})
    /\ UNCHANGED <<up, copies, prompts, sightVars>>

SendPrompt(c) ==
    /\ \E k \in Key : attached[c][k] # None /\ Prompt(c, k)
    /\ prompts' = [prompts EXCEPT ![c] = @ \cup {One(UnusedTurns)}]
    /\ Tell
    /\ Outlive({})
    /\ UNCHANGED <<up, attached, copies, sightVars>>

\* host/answer: any pending request, by its id.
AnswerById(c) == ClientAnswer(c) /\ HostOnly

\* The answer to c's copy of a: the host is told a's id.
AnswerCopy(c, a, outcome) ==
    /\ a \in copies[c]
    /\ \E b \in Pending : Id(b) = Id(a) /\ Answer(c, b, outcome)
    /\ HostOnly

\* An error answer withdraws only c's copy.
DeclineCopy(c) ==
    /\ Idle(c)
    /\ \E a \in copies[c] : copies' = [copies EXCEPT ![c] = @ \ {a}]
    /\ UNCHANGED <<hostVars, inbox, outlived, up, attached, prompts, sightVars>>

\* What the phone contract has the host do.
Contract(c) == (ClientCall(c) \/ ClientStep(c) \/ ClientAnswer(c)) /\ HostOnly

Frame(c) ==
    \/ LoadOpen(c) \/ LoadLate(c) \/ LoadOk(c) \/ NewAttach(c) \/ Forward(c) \/ Change(c)
    \/ CloseDone(c) \/ SendPrompt(c) \/ AnswerById(c) \/ DeclineCopy(c)
    \/ \E a \in Asks, outcome \in {"selected", "cancelled"} : AnswerCopy(c, a, outcome)

-----------------------------------------------------------------------------
(* Events of the host *)

\* c takes its oldest event.
Take(c, types) ==
    /\ c \in up /\ Idle(c)
    /\ inbox[c] # <<>>
    /\ Head(inbox[c]).event.type \in types
    /\ inbox' = [inbox EXCEPT ![c] = Tail(@)]
    /\ UNCHANGED <<hostVars, outlived, up>>

Taken(c) == Head(inbox[c]).event

\* Mutant: every event of an attached session is passed on.
AnyAttached(c) == attached[c][Taken(c).key] # None
\* Whether c is attached, with a snapshot from before its oldest event.
Watching(c) == LET from == attached[c][Taken(c).key]
               IN  from # None /\ Head(inbox[c]).seq > from

\* Mutant: the end of a turn leaves its prompt.
KeepPrompt(c, e) == prompts
PromptsAfter(c, e) == IF e.type = "ended" THEN [prompts EXCEPT ![c] = @ \ {e.of}] ELSE prompts

TakeTurn(c) ==
    LET e == Taken(c)
    IN  /\ Take(c, {"running", "ended"})
        /\ prompts' = PromptsAfter(c, e)
        /\ shown' = [shown EXCEPT ![c][e.key] = IF Watching(c) THEN <<e.type, e.of>> ELSE @]
        /\ UNCHANGED <<attached, copies, seen>>

\* What c did itself it knows without being told.
TakeUpdate(c) ==
    LET e == Taken(c)
    IN  /\ Take(c, {"update"})
        /\ seen' = [seen EXCEPT ![c][e.key] = IF Watching(c) THEN Append(@, e.of) ELSE @]
        /\ UNCHANGED <<attached, copies, prompts, shown>>

\* The prompt's answer, if c sent it.
TakeAnswered(c) ==
    LET e == Taken(c)
    IN  /\ Take(c, {"answered"})
        /\ prompts' = [prompts EXCEPT ![c] = IF e.who = c THEN @ \ {e.of} ELSE @]
        /\ UNCHANGED <<attached, copies, sightVars>>

TakeAdded(c) ==
    LET e == Taken(c)
    IN  /\ Take(c, {"added"})
        /\ copies' = [copies EXCEPT ![c] = IF Watching(c) THEN WithCopies(@, {e.of}) ELSE @]
        /\ UNCHANGED <<attached, prompts, sightVars>>

\* c's copies without that of the id of a.
CopiesLeft(c, a) == {b \in copies[c] : Id(b) # Id(a)}

TakeResolved(c) ==
    /\ Take(c, {"resolved"})
    /\ copies' = [copies EXCEPT ![c] = CopiesLeft(c, Taken(c).of)]
    /\ UNCHANGED <<attached, prompts, sightVars>>

TakeClosed(c) ==
    /\ Take(c, {"closed"})
    /\ attached' = [attached EXCEPT ![c][Taken(c).key] = None]
    /\ UNCHANGED <<copies, prompts, sightVars>>

TakeEvent(c) ==
    \/ TakeTurn(c) \/ TakeUpdate(c) \/ TakeAnswered(c)
    \/ TakeAdded(c) \/ TakeResolved(c) \/ TakeClosed(c)

-----------------------------------------------------------------------------
(* Connections come and go, between frames *)

Connect(c) ==
    /\ c \notin up
    /\ up' = up \cup {c}
    /\ UNCHANGED <<hostVars, inbox, outlived, attached, copies, prompts, sightVars>>

\* The device is gone, sent nothing for too long, or c fell behind the events.
Disconnect(c) ==
    /\ c \in up /\ Idle(c)
    /\ up' = up \ {c}
    /\ inbox' = [inbox EXCEPT ![c] = <<>>]
    /\ attached' = [attached EXCEPT ![c] = [k \in Key |-> None]]
    /\ copies' = [copies EXCEPT ![c] = {}]
    /\ prompts' = [prompts EXCEPT ![c] = {}]
    /\ seen' = [seen EXCEPT ![c] = [k \in Key |-> <<>>]]
    /\ shown' = [shown EXCEPT ![c] = [k \in Key |-> None]]
    /\ outlived' = {p \in outlived : p[1] # c}
    /\ UNCHANGED hostVars

ConnNext ==
    \/ \E c \in up : Frame(c)
    \/ \E c \in Devices : TakeEvent(c) \/ Connect(c) \/ Disconnect(c)
    \/ \E c \in Clients \ Devices : Contract(c)
    \/ (AgentStep \/ RemoveStep) /\ HostOnly

ConnSpec == ConnInit /\ [][ConnNext]_vars

-----------------------------------------------------------------------------
(* What a connection promises its device *)

StampedType == [seq : Nat, event : [type : {"running", "ended", "update", "answered",
                                            "added", "resolved", "closed"},
                                    key : Key, of : Entry \cup Asks \cup {None},
                                    who : Clients \cup {None}]]
ShownType == {None} \cup ({"running", "ended"} \X Turns)

\* Every variable holds values of its kind, events wait only where a connection
\* is up to take them, and in the host's order.
ConnTypeOK ==
    /\ up \subseteq Devices
    /\ inbox \in [Clients -> Seq(StampedType)]
    /\ attached \in [Clients -> [Key -> Nat \cup {None}]]
    /\ copies \in [Clients -> SUBSET Asks]
    /\ prompts \in [Clients -> SUBSET Turns]
    /\ seen \in [Clients -> [Key -> Seq(Entry)]]
    /\ shown \in [Clients -> [Key -> ShownType]]
    /\ outlived \subseteq Clients \X Key
    /\ \A c \in Clients \ up : inbox[c] = <<>>
    /\ \A c \in Clients : \A i, j \in DOMAIN inbox[c] :
          i < j => inbox[c][i].seq < inbox[c][j].seq /\ inbox[c][j].seq <= seq

\* c has taken every event, and k has been open since c attached to it.
Drained(c) == c \in up /\ Idle(c) /\ inbox[c] = <<>>
Firm(c, k) == /\ attached[c][k] # None /\ IsOpen(k)
              /\ <<c, k>> \notin outlived /\ AgentOf(k) \notin shared

\* "A client that attaches to a session skips the events its snapshot already
\* holds" (host.rs:38), and misses none: from the moment it attached on, a device
\* has been sent every entry of the record, once, in the record's order.
SeesRecord ==
    \A c \in Clients, k \in Key : Drained(c) /\ Firm(c, k) =>
        IsSuffix(seen[c][k], sess[k].record)

\* A device that is attached knows the session's running turn, or how the last
\* one ended, whatever happened between its snapshot and the events it takes.
SeesTurn ==
    \A c \in Clients, k \in Key : Drained(c) /\ Firm(c, k) => shown[c][k] = Latest(sess[k])

\* What a device was sent is what the host has, and nothing is missing.
SeesHost == SeesRecord /\ SeesTurn

\* No prompt is kept of a turn that ended, whoever closed its session.
PromptsRun == \A c \in Clients : Drained(c) => prompts[c] \subseteq Running

\* What a connection keeps is sound: the types, with events in the host's order,
\* and its list of prompts.
ConnSound == ConnTypeOK /\ PromptsRun

\* "On the connection that sent the prompt, [ended] after the session/prompt
\* response" (oal-0.1.md, 9): a prompt leaves with its answer and not with its
\* turn's end, as long as nobody closed its session under it.
AnswerOwed(c, t) == c \in up' /\ t \in prompts[c] \ prompts'[c]
Answers(c) == Taken(c).type = "answered"
PromptAnswered ==
    [][\A c \in Clients, t \in Turns :
          AnswerOwed(c, t) /\ turn[t].key \notin cut => Answers(c)]_vars
=============================================================================
