------------------------------- MODULE Cards -------------------------------
(***************************************************************************)
(* What a session's updates look like to its owner, twice: the cards of    *)
(* its tool calls as they happen (link-core/src/turn.rs, Tools), and the   *)
(* transcript made of the whole record when a chat is read again           *)
(* (link-core/src/phone.rs, Transcript).  Wording, times and what a tool   *)
(* printed are left out: a text is its number of chunks, a call its id and *)
(* where it is.                                                            *)
(***************************************************************************)
EXTENDS Naturals, Sequences, SequencesExt

CONSTANTS
    Calls,       \* tool calls
    MessageIds,  \* the agent's ids of its messages
    None

ASSUME NoneIsNothing == None \notin Calls \cup MessageIds

Finals == {"completed", "failed"}
Statuses == {"pending", "in_progress"} \cup Finals

\* A session update the contract reads: a chunk of a message of the user or
\* of the agent, or word of a tool call, its status when it is told.
Update == [what : {"user", "text", "tool"}, id : MessageIds \cup {None},
           call : Calls \cup {None}, status : Statuses \cup {None}]
UserText == [what |-> "user", id |-> None, call |-> None, status |-> None]
AgentText(i) == [what |-> "text", id |-> i, call |-> None, status |-> None]
ToolCall(c, s) == [what |-> "tool", id |-> None, call |-> c, status |-> s]

\* What the owner is shown: words, a call's start, a call's result.
Shown == [show : {"text", "start", "result"}, call : Calls \cup {None},
          failed : BOOLEAN]
Said == [show |-> "text", call |-> None, failed |-> FALSE]
Start(c) == [show |-> "start", call |-> c, failed |-> FALSE]
Result(c, s) == [show |-> "result", call |-> c, failed |-> s = "failed"]

-----------------------------------------------------------------------------
(* Tools: the cards of a turn *)

NoTools == [order |-> <<>>, status |-> [c \in Calls |-> None],
            announced |-> {}, finished |-> {}, out |-> <<>>]

Announce(tools, c) ==
    IF c \in ToSet(tools.order) \ tools.announced
    THEN [tools EXCEPT !.announced = @ \cup {c}, !.out = Append(@, Start(c))]
    ELSE tools

\* Mutant: text is shown past calls the agent opened before it.
FlushNothing(tools) == tools

\* Every call not yet shown, before the text that follows it.
Flush(tools) == FoldLeft(Announce, tools, tools.order)

\* The call as it is known after this word of it.
Merge(tools, c, s) ==
    [tools EXCEPT !.order = IF c \in ToSet(@) THEN @ ELSE Append(@, c),
                  !.status[c] = IF s = None THEN @ ELSE s]

Finish(tools, c) ==
    IF tools.status[c] \in Finals /\ c \notin tools.finished
    THEN [tools EXCEPT !.finished = @ \cup {c},
                       !.out = Append(@, Result(c, tools.status[c]))]
    ELSE tools

Tool(tools, c, s) ==
    LET known == Merge(tools, c, s)
    IN  Finish(IF known.status[c] \in {"in_progress"} \cup Finals
               THEN Announce(known, c) ELSE known, c)

Ask(tools, c, s) == Announce(Tool(tools, c, s), c)

-----------------------------------------------------------------------------
(* Transcript: the record read again *)

\* A row: its role, the chunks of its text, the calls of an assistant's row,
\* the call and outcome of a tool's.
Row(role, chunks) ==
    [role |-> role, chunks |-> chunks, calls |-> <<>>, call |-> None, status |-> None]

NoTranscript == [rows |-> <<>>, current |-> None, opened |-> [c \in Calls |-> 0],
                 status |-> [c \in Calls |-> None], resulted |-> {}]

\* Whether a chunk of the role with this id goes on with the last row.
Continues(t, role, id) ==
    /\ t.rows # <<>>
    /\ LET row == Last(t.rows)
       IN  row.role = role /\ row.calls = <<>>
    /\ id = None \/ t.current = None \/ id = t.current

User(t, id) ==
    [t EXCEPT !.current = id,
              !.rows = IF Continues(t, "user", id) /\ id # None
                       THEN [@ EXCEPT ![Len(@)].chunks = @ + 1]
                       ELSE Append(@, Row("user", 1))]

Agent(t, id) ==
    [t EXCEPT !.current = id,
              !.rows = IF Continues(t, "assistant", id)
                       THEN [@ EXCEPT ![Len(@)].chunks = @ + 1]
                       ELSE Append(@, Row("assistant", 1))]

\* The row a new call goes to: the last one if it is the assistant's, else
\* one of its own.
WithRow(t) ==
    IF t.rows # <<>> /\ Last(t.rows).role = "assistant" THEN t
    ELSE [t EXCEPT !.rows = Append(@, Row("assistant", 0))]

Opened(t, c) ==
    IF t.opened[c] # 0 THEN t
    ELSE LET w == WithRow(t)
             at == Len(w.rows)
         IN  [w EXCEPT !.opened[c] = at, !.rows[at].calls = Append(@, c)]

Called(t, c, s) ==
    LET o == Opened(t, c)
        status == IF s = None THEN o.status[c] ELSE s
        known == [o EXCEPT !.status[c] = status]
    IN  IF status \in Finals /\ c \notin o.resulted
        THEN [known EXCEPT !.resulted = @ \cup {c},
                           !.rows = Append(@, [Row("tool", 0) EXCEPT !.call = c,
                                                                     !.status = status])]
        ELSE known

TakeIn(t, update) ==
    CASE update.what = "user" -> User(t, update.id)
      [] update.what = "text" -> Agent(t, update.id)
      [] update.what = "tool" -> Called(t, update.call, update.status)

Transcript(record) == FoldLeft(TakeIn, NoTranscript, record)

\* A row as the phone draws it: an assistant's text comes before its calls.
Drawn(row) ==
    CASE row.role = "user" -> <<>>
      [] row.role = "assistant" ->
           [i \in 1 .. row.chunks |-> Said]
             \o [i \in 1 .. Len(row.calls) |-> Start(row.calls[i])]
      [] row.role = "tool" -> <<Result(row.call, row.status)>>

Rows(record) ==
    FoldLeft(LAMBDA drawn, row : drawn \o Drawn(row), <<>>, Transcript(record).rows)

-----------------------------------------------------------------------------
(* How the two compare *)

\* Without the starts of calls, whose moment is the reader's choice.
Outline(shown) == SelectSeq(shown, LAMBDA s : s.show # "start")

\* The calls shown before the n-th entry.
StartedBefore(shown, n) ==
    {shown[i].call : i \in {j \in 1 .. n - 1 : shown[j].show = "start"}}

\* Before each text, at least the calls the transcript has before it.
Texts(shown) == {i \in 1 .. Len(shown) : shown[i].show = "text"}
NthText(shown, n) ==
    CHOOSE i \in Texts(shown) :
        Len(SelectSeq(SubSeq(shown, 1, i), LAMBDA s : s.show = "text")) = n

ReadsAs(live, read) ==
    /\ Outline(live) = Outline(read)
    /\ StartedBefore(read, Len(read) + 1) \subseteq StartedBefore(live, Len(live) + 1)
    /\ \A n \in 1 .. Len(SelectSeq(live, LAMBDA s : s.show = "text")) :
          StartedBefore(read, NthText(read, n))
            \subseteq StartedBefore(live, NthText(live, n))
=============================================================================
