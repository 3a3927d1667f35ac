# Nebo Link: a verification project

TLA+ models of the programs in this repository, the TLC configurations that
check them on small instances, and theorems about them checked by TLAPS.
`PROJECT.json` lists the components, runs, mutants, hazards and theorems, and
maps every definition to the lines it stands for. Paths such as
`host.rs` are under `src/crates/*/src/`.

To check: `tlc -config MCHost_turns.cfg MCHost.tla`, and so on for each
`MC*_*.cfg`; `tlapm RelayPhoneProofs.tla`, and so on for each `*Proofs.tla`.

## 1. The system

A computer runs agents (OpenClaw, Hermes, coding agents that speak ACP). The
*host* on it keeps their conversations, and devices of the owner (a phone, the
web, an SDK's program) reach it over the LAN, over a relay, or over the link to
NeboAI. Between a device and the host everything is end-to-end encrypted; the
relay only passes it on.

```
device --- connection (oal-host/conn.rs) ---+
device --- relay client -- RELAY -- tunnel -+-- HOST CORE (link-core/host.rs)
phone  --- link (nebo-link) -- phone.rs ----+      |  Backend: request, notify, ready
                                                   |  FromAgent: updates, permission requests
                          +------------------------+-----------------------+
                      acp.rs (one process     openclaw.rs (one socket   hermes.rs (runs over
                       per agent)              to its gateway)           an event stream)
```

Calls go down, and wait for the agent; what agents say goes up through one
`receive`, at any time, and out to every connection on one broadcast channel.

### Components

| Component | State | Operations | What is hard |
|---|---|---|---|
| **Host core** (link-core `host.rs`, `backend.rs`) | sessions held open, their turns, records and waiting requests; ids of resolved requests; updates that came before their session; the `opening` lock | open, load, resume, close, prompt, cancel, answer, receive, add and remove agents, let sessions go past `OPEN_SESSIONS` | everything between two critical sections: an open that is overtaken by a close, a turn that outlives its session, updates before an answer |
| **Client connections** (oal-host `conn.rs`) | attached sessions, copies of requests, prompts sent, the queue of events | frames of the device, events of the host | events queue while a frame waits for an agent; snapshots against events |
| **ACP agents** (link-core `acp.rs`, `process.rs`) | the process and its lock; what it has open, prompts, tools, asks; moves; sessions recorded as paused | requests, cancel, probe, watch, pause, close, move, shutdown | two locks held across awaits; a process that ends at any time; counting what is in flight |
| **Relay server** (oal-relay `server/`) | SQLite store (hosts, pairings, nameplates, revocations); tunnels and connections in memory | tunnel up, control frames, connect, pair, the operator's requests, stop, restart | a revocation against a connection on its way in; a tunnel that replaces another |
| Relay: pumps (`pump.rs`, `wsio.rs`) | two bounded queues per connection, kill and silence timers | copy, half-close, kill | full queues in both directions; a close that waits on a stalled peer |
| Relay: host and client sides (`host.rs`, `client.rs`) | the tunnel and its backoff | dial again, report pairings | reconciling two lists of pairings that changed while apart |
| OAL host service (oal-host `lib.rs`, `lan.rs`, `relay.rs`) | listeners, the open pairing code, paired devices | pair, unpair, serve | a code that expires or is used up while a device pairs |
| Secure sessions (oal-secure) | own key, peers' keys, retired keys; the pairing exchange | handshake, rotate, revoke, pair | a crash while a key is rotated; one side that saved and one that did not |
| Roster and keeper (link-core `roster.rs`, `keep.rs`, the keeper of `link.rs`) | the agents written down and those running | add, remove, keep | memory and file that disagree |
| Phone contract (`phone.rs`, `turn.rs`, `model.rs`, `tools.rs`) | chats, turns and interactions of the phone | its requests, another client of the host core | translating two orders of events |
| OpenClaw (`openclaw.rs`, nebo-runtimes `openclaw/`) | one socket, the device's key, requests waiting for answers, runs | connect, call, follow runs, read a transcript | answers and events after a reconnection; two callers that find no socket |
| Hermes (`hermes.rs`, nebo-runtimes `hermes/`) | runs, an event stream that breaks | start, stop, follow, poll | the end of a run told twice or never |
| ACP driver (nebo-runtimes `acp/`) | requests waiting for answers | request, respond, notify | the wire side of `acp.rs` |
| Configuration journal (nebo-runtimes `journal.rs`, `change.rs`, `doc/`) | changes made, and what was there before | apply, revert | a crash between the record and the change |
| Link: connection (nebo-link `link.rs`, `proxy.rs`, `janus.rs`, ...) | the bot's token, what CONNECT said of it | connect, rotate, announce, open and release installs | a token replaced and not yet saved; what was announced against what became true meanwhile |
| Link: supervision (`run.rs`, `state.rs`, `supervise.rs`, ...) | `link.json`, what the service saw of it; the processes started | reload, look, start, adopt, stop, unlink | several writers of one file; a crash between a start and its record |
| Client SDKs (`sdk/`) | sessions, turns and requests as the app sees them | connect, resume, prompt, answer | a connection lost at any frame; snapshots and updates of two connections |
| Conformance suite (oal-conformance) | a scripted host | what a host sends, and when | the order the SDKs are tested against |
| Command lines | none of their own | | |

What makes each correct, in one line: *host core*: at most one turn in a
session, requests with ids of their own that never outlive their turn, no
session half open, nothing of a conversation lost, every call answered.
*Connections*: what a device was told is what the host knows.
*ACP agents*: no conversation forgotten by a pause, always let go when idle or wedged,
nothing left running after shutdown, nobody stuck. *Relay*: only paired devices stay
let through; hosts stay reachable. *Pumps*: what is killed ends; nothing
is held for ever. *Pairing and keys*: both sides agree who is paired, across
crashes. *Journal*: an unlink restores what was there. *OpenClaw, Hermes*: every turn ends
once, with its run's own end. *Phone*: no chat waits on nothing, a message runs once.
*Link*: the host has the agents the link lists, and nothing is left behind when the
bot is gone. *SDK*: nothing shown twice, nothing missing, every turn finishes.

## 2. The modules

| Module | Models | Extends |
|---|---|---|
| `Host` | host core | |
| `Connection` | connections over the host core: each step of the host puts its events in every connection's queue | `Host` |
| `Acp` | one ACP agent under the host's requests | |
| `Relay` | relay server over its store | |
| `Pairing` | who a host is paired with: codes, devices, sessions, the list the relay keeps and the tunnel that puts it right | |
| `Adapter` | the adapter that makes other runtimes look like ACP to the host: a turn's events, answers and end | |
| `Hermes` | a turn as a run of a Hermes server, over requests and an event stream that fail | `Adapter` |
| `Openclaw` | a turn as a message to an OpenClaw gateway, over sockets that are opened with the device's key and close | `Adapter` |
| `BackendTurn` | abstract: what a runtime promises the host of a turn | |
| `Cards` | the live cards of tool calls, and the transcript made of the record | |
| `Phone` | the phone contract over the host | `Cards` |
| `Journal` | the undo journal over a config file its owner edits | |
| `Supervise` | the processes of an install, kept up and adopted | |
| `Install` | an install attached, kept up, switched and given back | `Journal`, `Supervise` |
| `Service` | the bot's service and the commands that change its link | |
| `Client` | an app on the SDK and the host it talks to | |
| `MCHost`, `MCConnection`, ... | instances: symmetry, sets of keys, what a command may be | each its module |
| `ConnectionProofs`, `AcpProofs`, `RelayPhoneProofs`, `PairingProofs`, `HermesServiceProofs`, `OpenclawProofs`, `InstallProofs`, `ClientProofs` | theorems, two components in one where it says so: `Host` and `Connection`, `Relay` and `Phone`, `Hermes` and `Service` | each its module, TLAPS |

Two abstract specifications: `Host` says what clients may see and do, and
`Connection` says how devices do it; `BackendTurn` says how a turn may end for the
host, and `Hermes` says how it does. Of both it is checked and proved that every
step of the detailed one is a step of the abstract one or a stutter.

### Host

The host keeps everything behind one mutex, so an action is one critical section,
with all it does: recency, eviction, ids remembered, events. What is awaited (an
agent's answer, the `opening` lock) lies between two actions; `op[c]` is where
client `c`'s call stands. `sess[k]` is `State.sessions[k]` (held, being opened,
the turn in its slot, the last turn's end, the record); `ask` and `resolved` are
`State.pending` and `State.resolved`; `queue` is the FIFO of the `opening` lock;
`closing` counts `session/close` requests spawned and not yet arrived; `out` is what
the step put on the broadcast channel, numbered from `seq`. `shared` names the
agents whose runtime other programs use too. Agents are external: `hist` is a conversation as its agent keeps it, and an agent answers,
refuses, sends updates or asks whenever it may.

Merged: `OpenOk` and the snapshot taken right after under the same call;
`remove_agent`'s cancels with the removal of its sessions. `cut` is a history
variable: sessions closed at some time under a running turn.

### Connection

`up`, `attached`, `copies`, `prompts` are the fields of `Connection`; `inbox` is its
receiver of the broadcast channel; `seen` and `shown` are what it wrote. A
connection takes one frame or one event at a time, and no event while a frame
waits for an agent. `outlived` is a history variable: who was attached to a
session when the host let it go. The clients that are not `Devices` are the phone's
contract, which calls the same host: what it does is what any other client does, so
one device and one such client are a device and whoever else there is.

### Acp

A request runs on a task of its own; an action is what it does from one await to
the next. `lock` is `Shared.live` held across an await (a start, the two looks of a
pause, a stop); `opening` is `Shared.opening`. `req[r]` is where a request stands and
which process it is on: that of the slot, one taken away and being stopped, or
one that is gone. `open`, `suspect`, `cancelled`, `tools`, `asks` are the slot's
`Sessions`; prompts are counted from `req`. `busy_of` is two steps, as the code
lets go of the process's state before it reads `in_use`. Time is left open: a
grace period or idle window may be over whenever it has begun; `START_TIMEOUT`
is a start that fails. `Besides` bounds what else happens in an instance (tool
calls, permission requests, the probe, shutdown).

Abstracted: what an agent's processes use of the CPU (one more reason to be
busy); titles, models, MCP servers; agents that can close no sessions; a
conversation's list and status. `paused` is `acp-sessions.json`: a change of it is one step,
where the code reads the file, changes it and writes it back with no lock. Not modelled: the
host's own restart over `acp-moves.json` and `acp-sessions.json`, two tasks writing a
file over each other (see section 3), and the wire side of the protocol.

### Relay

Every statement on the store and every look at one of the maps is one step, and
the handlers interleave between them. Tunnels and connections are used once.
`jobs` are what a request of the operator, or a stop, has yet to kill or close
after its statement on the store; `killed` and `cancelled` are signals sent.
A restart forgets everything but the store. Merged: the recheck of the pairing
and of the shutdown in `relay_client`, which nothing separates that could make a
difference to the map. Not looked at: proofs of identity and nonces, limits on
failed pairings, presence, what a connection carries.

### Adapter, Hermes, Openclaw

`Adapter` is `adapter.rs`: `prompt[t]` is where `Adapted::prompt` is, `chan` the queue
`Turn.events`, `control` the queue `Turn.control`, `asks` the requests waiting, `told` what
the host was answered. The host around it prompts, cancels and answers whenever it
may. `Hermes` and `Openclaw` are the two tasks that serve a turn, with their server as
the environment.

`Hermes`: `call[t]` is where `hermes.rs`'s task stands: reading the version and the
history, starting, following the stream, polling, or a request to stop or answer
on its way. `run`, `log`, `waits` are the server's; every request may fail before
or after the server took it, a stream may break, reopen past what it gave
(`lossy`, a history variable, as is `shown`) or not at all. An old server keeps
no events, gives no ids and loads no transcript.

`Openclaw`: a caller, a turn or a reading of a transcript, that finds no open socket opens
one under the lock of `Openclaw.live`; `opening` is who holds it and how far
`Gateway::connect` is: the key of `device.rs` read, or made and saved; the WebSocket
dialled; the challenge signed; the gateway's hello awaited. Each of these may fail,
and `device` may be torn from a save that ended midway. A socket `k` has a reader, a
queue of events and a router task, and may close between any two steps; `sink`, in
the one table of all sockets, is the turn events go to. `activeRun` and `endedRuns` are
what the socket knows of the session's runs: a message goes into the active one, and a
transcript sets it from what it read some steps ago. A run is named by the turn
whose message began it; its final event may or may not carry the run's token counts, and
its closing row may be missing, or not say whose it is.

### Cards, Phone

`Cards` has two functions of the same updates: `Tools` of `turn.rs` one update at a
time, and `Transcript` of `phone.rs` over the whole record. `Phone` is `Contract`: one
task per chat frame, in the steps its awaits make (`task[f]`), `running` and `queued` per
chat, `seen` (the last `SEEN_MESSAGES` ids), and one task over the host's events. The
host here is what the contract sees of it, with other clients that prompt and
answer too; its broadcast channel forgets what is more than `EventRoom` behind.
A session closed, or its agent removed, under a turn empties the slot (`turn`) and leaves the turn
going on in the agent (`left`): `closed` is told at once, `ended` when the agent's prompt returns,
and what the turn says between reaches nobody unless the chat is opened again. `cut`, a
history variable, names the chats this happened to. A request for permission comes with a tool
call or with words of its own, and only the former touches the cards. Merged: `remove_agent`
drops the sessions and takes the agent off the roster in one step.

### Journal, Supervise, Install

`Journal`: a file is its tree of settings; `Apply` and `Revert` each make two writes and
`Cut` is the crash, or error, between them. The owner edits the same file whenever
no write is under way. History variables: `mine` is the file as the owner would have
it without the link, `clean` that no conflict was reported and no replacement cut
short, `nested` that the owner wrote a setting under one the link made.

`Supervise`: a worker's look at its process, its start by the service or in the
foreground, and the two files it records them in are steps of their own, between which
the link process may die. A worker writes `processes.json` as it read it, with no
lock against the workers of the install's other processes (supervise.rs:206), so a record
made in between is left out (`LeftOut`). Every write of the two files may also fail, which
the code logs and goes on: a start stays unrecorded, a start that ended stays recorded, a
service the link installed passes for the owner's. `orphans`, a history variable, are starts a death, a
failed write or another worker's write kept from being recorded: only the worker that
holds one knows of it.

`Install` composes the two under the commands that attach, switch and give back. Giving
back (`release`) looks for the install first. Found, its starts are stopped, its services
uninstalled and its config restored, in that order; not found (`unfound`), none of
this happens and the command goes on to remove the directory with the records and the journal.

### Pairing

`OalHost` and its connections: the code shown and who holds it, `Peers` in memory and
in the file, what was announced to the tunnel and what the relay has; `unpair` is a
call of several steps. A crash forgets what is in memory and unsaved. Requests over
the tunnel are lost with it, and `reconcile` runs when it comes up. History
variables: `won` (the pairings each code gave), `out` (pairings taken away),
`astray` (devices host and relay may disagree on: a failed save left memory and file
different, or the device's own request crossed a reconciliation's).

### Service

`link.json` is read, changed and written back by three parties that hold no lock
against each other: a command, the host's keeper, the model switch. The reloader
compares the file with what it saw last and sets the roster; the prober looks
whether the bot's runtime changed and has CONNECT said again; the hub replaces the
token whenever it takes a connection. History variables name what the code lets
happen, so that the properties say the rest: `missed` (the roster waits for the link's
next change: one came before the reloader ran, could not be read, or was first read
by the host's keeper), `quiet` (the keeper changed the bot's runtime and announced
nothing), `dead` (the hub's token is not the file's, or the unlinking was cut
short), `excused` (installs an unlinking need not give back: they were not found when it or a release
looked for them, their command is under way or was killed, or another command's write
dropped them from the link). `open` are the installs whose config holds the link's settings;
giving back takes away those that are found (`GivesBack`), and the link is written or
removed either way.

### Client

`connection.ts` and `client.ts`: the link (`link`, `"stuck"` is the state in
which it waits for ever, see section 3), the turns the app was given (`obj`, `cur`), the
inbox (`requests`), and the session's log and what the app was shown of it. The host is the one the
SDKs are tested against, `fake_host.rs`. Frames of either direction are FIFO, and a
connection's loss forgets them. Updates are told apart by their place in the log, where the
code compares what they say (client.ts:486): `ShownOnce` holds up to updates of the same contents.

## 3. What is checked

Each property has a mutant: the definition changed the way a plausible bug
would change the code, with which TLC finds the property violated.

| Run | Instance | Properties | Shows |
|---|---|---|---|
| `turns` | one agent that changes elsewhere, 2 sessions, 2 clients, 2 turns, 2 requests for one tool call, 1 update, `OpenSessions` 1, 2 calls | `TurnsExclusive PendingUnique OpeningHeld NeverDroppedInTurn` | turns, requests, opening and eviction do not get in each other's way |
| `watch` | 1 session, loaded, of an agent that changes elsewhere or not, 1 connection and 1 other client, 1 turn, 1 request, 1 update, 2 calls; fairness | `ConnSound SeesHost RecordWhole PromptAnswered CallsAnswered` | what a device was sent agrees with the host, the host's record with the agent's conversation; every call ends |
| `server` | 2 hosts, 2 keys, 1 device, 1 nameplate, 2 tunnels, 1 connection | `LetThroughPaired StopClosesAll OnlineReachable` | revocation, replacement and stop against connections on their way |
| `pairing` | 1 device, 2 connections, 1 call of unpair, 1 failure per code, 2 codes, pairings and tunnels, 2 faults | `PairingSound RelayAgrees UnpairedIsOut` | a code pairs once, who was unpaired stays out, host and relay agree once settled, across crashes and failed saves and requests |
| `agent` | 2 requests (load, prompt, close, delete, move), 1 conversation and the session it may move to, the probe, shutdown | `StopsForGood NoneForgotten` | nothing runs after shutdown; a conversation the agent had open stays open or recorded as paused until it is closed or deleted |
| `goes_on` | 2 requests, 1 session that is made, prompted, changed, reopened and closed, tool calls, asks; fairness | `RequestsGoOn PausesInTheEnd` | nobody waits for ever on the two locks; an idle or wedged agent is paused |
| `hermes` | 1 turn, 2 requests for permission, 1 reconnect, 2 events before the last; fairness | `OutcomeTrue StreamWhole AnswerItsOwn TurnAnswered KeepsPromise` | a turn is answered once, with its run's own end or a failure, whatever request is lost and whatever stream breaks |
| `openclaw` | 1 turn, 1 reading of a transcript, 1 request for permission, 2 sockets, 1 event; fairness | `OpenclawSound AskForwarded AloneAnswered` | a turn is never lost between sockets, and is answered; one socket is open at a time, with a key that is kept |
| `phone` | 1 chat made by a message sent in two frames, 1 more message, 1 request, 1 tool call, 2 ids remembered, room for 3 events, 3 inputs; fairness | `PhoneSound LiveReadsAsTranscript StartIsTold` | a chat's slot is freed, a message runs once, a request shows in three places or none, live cards read as the transcript of a chat never closed under a turn |
| `install` | 1 model list, 1 value and 3 settings of the owner's, 1 edit, 1 process with a service, 1 end, 1 crash; fairness | `InstallSound GivenBack KeptUp` | of an install that is found nothing the link started and recorded is left; the config is given back, processes are kept up |
| `service` | a coding agent and an install linked, one agent to add, the install to release and open again, 2 commands, 1 fault; fairness | `ServiceSound RosterFollows AnnouncedInTheEnd SettlesInTheEnd` | the roster follows the link, the hub learns what the bot is, no install that is found stays changed once it is gone |
| `client` | 1 request, 1 prompt, 2 turns, 1 update, 2 losses or requests, 1 frame under way; fairness | `ClientSound Agrees TurnFinishes` | no update twice or out of order; once resumed the app has what the host has; a turn finishes |

Some properties are conjunctions of named parts, one question each:
`ConnSound` (types, `PromptsRun`), `SeesHost` (`SeesRecord`, `SeesTurn`),
`OpenclawSound` (types, `TurnHeard`, `OneSocket`, `DeviceKept`), `PhoneSound` (types, `SlotIsBusy`, `RunsOnce`,
`AskEverywhere`), `InstallSound` (types, `StartedIsStopped`), `PairingSound` (types,
`CodeOnce`, `UnpairedForGood`), `ServiceSound` (types, `GivenBackAll`), `ClientSound`
(types, `ShownOnce`, `TurnWhole`). The types of `Host`, `Acp`, `Relay` and `Hermes` are
proved and no run repeats them.

**Bounds.** Two clients, sessions, turns, requests, devices or tunnels are the
fewest that can disagree: an open that overtakes another, a session that evicts
another, a request whose id is taken, a tunnel that replaces another, two connections
with one code. One idle session (`OpenSessions` 1) makes every second open an
eviction. Calls (`MaxCalls`) bound the length of a behaviour, not what is in one: two
calls are an open and a close (or two opens) under way at once, and prompts,
answers and cancels are not counted; three calls (2.9 million states, with an agent
that sends nothing) pass too. `turns` compares states by a VIEW, `Read`: what records, conversations
and strays say, events, remembered ids and closes under way are read by no guard of the
host and no property of the run, so two states that differ in them alone have the same
steps and satisfy the same formulas. In `Relay` and `Openclaw` a tunnel, connection or socket
is used once: two are an old and a new one. `Hermes` with one reconnect has a
stream that is reopened and one that is given up; two requests are one answered
elsewhere and the next. `EventRoom` 3 is small so that
events are lost; `SeenLimit` 2 remembers the instance's two messages, as the code's limit does
any that is sent again in time; `Budget` bounds what the phone and other clients do, and how many turns go on at once. One
fault (`MaxFaults`, `MaxCrashes`) comes at every point of every behaviour; two at
once are tried in `pairing` only. In `Client` the host speaks only when at most one frame is under way
(`MaxFrames`): frames arrive in order, so the app finds in a later one what it
would have found with others behind it; two prompts, two updates and two losses,
without requests, pass too (10.9 million states). The two runs of `Acp` share out what
a request may be: `agent` has loads, closes, deletion and a move with shutdown and the probe (1.9 million
states), and `goes_on` a new session with changes, closes, tool calls and asks, under fairness. `Wanted`
bounds the conversations the host asks for: closing one that moved leaves the session it moved to
a conversation of its own (acp.rs:1088), with which `agent` passes too (5.1 million states, without
deletion). That an install is found or not
costs `install` and `service` no bound: each command that looks may go either way. `watch` loads
sessions and does not resume them: `RecordWhole` is about `session/load`.

**Symmetry.** Clients, ids of an agent's sessions, requests, hosts, keys, devices,
connections, tunnels are never compared but for equality, so the safety runs
identify states that differ by renaming them. Runs with liveness use none.

**Deadlock.** The instances run out of calls, turns, connections or frames, so TLC is
told they may stop. `Acp` never stops.

**Fairness** is what the scheduler and the other side owe:

- *Host* (`FairSpec`, `FairConnSpec`): an agent answers every request in the end, and a
  task that may go on does; tokio's mutex is FIFO, which the queue models. An agent
  that never answers `session/load` blocks every opening of every agent: the code
  has no timeout there, and `CallsAnswered` rests on this assumption.
- *Acp* (`AcpFairness`): a request's steps are strongly fair where they need a lock, as
  tokio's mutex serves in turn; the agent answers everything but prompts, or ends;
  the watch looks again and again. Prompts the agent has need not end, and nobody
  need ask or cancel. An agent that hangs in `session/load` blocks reopening here too
  (`Shared.opening` has no timeout).
- *Hermes*: the link's tasks run and its requests return (they have timeouts); the
  server ends every run. A stream need not break nor a request fail.
- *Openclaw*: one weak fairness for all the link does of its own (`LinkStep`: calls,
  the adapter's relay, routers, waits such as `USAGE_WAIT`), enough as each of these comes
  to an end while the gateway says nothing new; and the gateway ends every run. A
  socket need not close, and no dial need succeed. A turn whose session runs something
  else too is not promised an answer (`AloneAnswered`).
- *Phone*: every task goes on, the host's events are taken, agents end their turns.
- *Install*: the service manager starts the link process again and workers look
  again.
- *Service*: the service manager starts the service; its tasks and the commands go on.
  No dial need succeed or fail: a fault is bounded, so in the end dials succeed.
- *Client*: frames arrive, the link dials again (its backoff never gives up), and
  the host's turns end.

### Where the code and its documentation disagree, or could surprise

The models do what the code does, so the properties above are those that hold with
all of this; what is listed here no run states. Quotations in the modules' comments
name the sentence a property is about.

*Host and connections*

- `Host::end` empties its session's slot whatever turn is in it (host.rs:1266): with a
  session closed under a turn, loaded and prompted again, the first turn's end
  lets a third prompt in while the second runs, where host.rs:18 says one at a
  time. `TurnsExclusive` is of sessions never closed under a turn (`cut`).
- A prompt whose session is closed under it is never answered to the device that
  sent it (conn.rs:697, against oal-0.1.md:313).
- `close_in_agents` sends `session/close` later, without looking whether the session
  was opened again (host.rs:870); `new_session` opens a session of an agent that was
  removed meanwhile (host.rs:828). `remove_agent` closes sessions under their turns too.
- `Event::Closed` detaches whatever its sequence number: a device that closes and
  loads again before it took the event is detached (conn.rs:730). An old copy's
  answer goes to the request that has its id now (conn.rs:665), and an old `resolved`
  event takes the new request's copy.
- A device that attaches again keeps copies from before, with no cancel. The
  creator of a session is not sent what came before `session/new`'s answer. Sessions
  with devices attached are let go past `OPEN_SESSIONS`. With `session/resume` a record
  starts empty, so `RecordWhole` is about `session/load`; a later load of a session so
  resumed is answered from the partial record. A session read afresh whose agent then
  refuses stays open with an empty record (host.rs:921, 952).

*Agents*

- `busy_of` counts prompts, then requests: an abandoned prompt that ends in between
  hides a request under way, which is stopped with the process (acp.rs:617, where
  acp.rs:943 says a pause never stops one). The model has it, and no property forbids it.
- A conversation closed when its process has already ended by itself, or while shutdown stops
  it, is recorded as paused all the same once the agent is started or stopped (acp.rs:1062,
  where its comment says it is held no longer).
  Deleting a conversation leaves it in `acp-sessions.json`. The other way round, a host that
  shuts down after its agent ended by itself never records what was open as paused
  (acp.rs:660): `NoneForgotten` counts these as held, and is of one life of the host.
- What is closed or deleted, and what a process that is already being stopped still answers, is
  what `NoneForgotten` excepts (`Ending`): a session such a process gives out, or reopens, is noted
  nowhere.
- A cancel that comes before the prompt was sent (the agent starts, the session is
  reopened) tells nobody, and the turn runs on (acp.rs:1362, against host.rs:1331).
- The end of the first turn after a move drops the note of a second move
  (acp.rs:1041, against oal-0.1.md:331).
- The probe asks whether the agent runs and then for the agent, so it can start one
  that paused in between (acp.rs:1305). A `session/load` of the host is not under
  `Shared.opening`, so it can run while the same session is reopened, and its replay is
  dropped with the reopening's. `session/close` of a conversation that moves at that
  moment leaves the new session open in the agent.
- `save_moves` and `record_sessions` write snapshots outside the lock they were taken
  under: the older of two may be written last.
- An old Hermes server gives requests no id, so an answer to one decides whichever
  the run waits on (hermes.rs:31 says so).
- OpenClaw's device key is written over an emptied file (device.rs:130): torn, it is an error
  of every later connection (device.rs:110) until someone removes it.
- A transcript read before a run's final event and applied after it makes the ended run the
  active one (gateway.rs:546), as does an answer to `chat.send` whose run ends between
  two locks (gateway.rs:593): the next message is sent into a run that is over.

*Relay and pairing*

- A device revoked while its pairing waits for the host's tunnel is let through to
  pair (relay/server/relay.rs:826), and `Paired` stores the pairing of a revoked
  device. A host revoked between registering and being listed stays online, with
  nothing that routes to it. A slow old tunnel that registers late replaces the newer
  one until that dials again.
- `revoke` drops the peer before it saves (keys.rs:216, where :333 says every change is
  written before it is kept): when the save fails, calling it again finds no peer
  and returns, and the file still has the device, paired again after a restart.
  The instance of `pairing` has one call of unpair.
- A pairing or unpairing while the reconciliation's request for the same device is
  on its way may leave the relay with the older of the two until the next tunnel.

*Phone*

- A contract that falls behind the host's events skips what it lost: with a turn's
  end among it the chat's slot stays taken (phone.rs:232).
- Tool cards are held back until the next text or result, and dropped with the chat when its
  session is closed, also under a running turn (phone.rs:861): the transcript has a call, and all
  the turn says later, that the live chat never showed. `LiveReadsAsTranscript` excepts chats
  that were ever closed under a turn (`cut`).
- Messages queued behind one that cannot be started, or whose agent is gone, are
  dropped (phone.rs:781, 937) after the phone was told they wait (phone.rs:759). One cancelled
  while it is being started runs nonetheless (phone.rs:1042).

*Installs and the bot's service*

- A change applied anew with other values and cut between its two writes leaves a
  record of values the file does not have: what undoes it later takes the earlier
  application's for the owner's (journal.rs:174, against :105). `clean` leaves this out.
- `link.json` is changed by parties that each hold a copy: a model switch or a command
  may write back an agent another one removed, and a stale save after the unlinking
  makes the file anew. The temporary file of a write has one name for all
  writers (state.rs:653).
- Two workers of one install write `processes.json` over each other (supervise.rs:206): a
  start left out is not stopped by unlink, nor adopted by the next link process, where
  supervise.rs:480 has every foreground process the link started stopped (`orphans`).
- What the reloader saw is set before it has reloaded (run.rs:426), and the keeper's
  own save counts as seen (link.rs:296): a change in between stays out until the next
  (`missed`). The keeper changes the bot's runtime and announces nothing (`quiet`).
- A token the hub replaced is lost with the process that had not saved it (`dead`);
  a command may dial with the token it read before (main.rs:344).
- Models switched on while their install is being given back stay in its config.
- An install whose program is not found at that moment (uninstalled, moved, or `PATH` differs) is not given
  back at all (link.rs:806): its processes run on, its services stay, its config keeps the
  link's settings, and `remove` and `unlink` tell the owner so and delete the directory with
  every record of it (link.rs:859), where link.rs:838 says unlink gives back every install it hosted and
  supervise.rs:480 that every foreground process is stopped. `StartedIsStopped` and `GivenBackAll` are of installs that are found,
  `GivenBack` of journals that were not deleted before they were undone (`clean`).
- A write of `processes.json` or `link.json` that fails is only logged (supervise.rs:213, 222,
  404): the start it was about runs on after unlink (an orphan), the service installed is left.

*Roster* (not modelled, seen while reading)

- `agent_ids` makes an id unique against the roster's members and the agent's own
  (roster.rs:185), not against all agents of the host, where oal-0.1.md:246 has it
  unique: two members may come to the same id, and one be renamed under its sessions.
- The host remembers backends by address (host.rs:379); `agents` answers the list it
  just read but keeps `known` as first listed (host.rs:428); overlapping refreshes
  announce in the order of a lock (host.rs:484); reload, add and remove each read
  the members and set them without one.

*SDKs*

- A connection lost while `connected()` awaits the early answers leaves the link in a
  state nothing leads out of (connection.ts:222, connection.py:230), where
  sdk/typescript/README.md:62 says it reconnects. `TurnFinishes` excepts it (`"stuck"`).
- A prompt whose turn's id is not known yet takes the host's re-sent old `ended` for its
  own (client.ts:505); one made while reconnecting fails before it is sent.
- Another turn replaces an unfinished `Turn`, which then never finishes
  (client.ts:508); nor does the one that runs when the device is unpaired. Updates outside a turn are logged and
  shown nowhere. Requests are keyed by their tool call, so one may be taken for the
  next of the same call.
- In Python the pump may dispatch before `connected()` goes on, and a resume that fails
  leaves its session unattached.

## 4. What is proved

For any constants that satisfy the modules' assumptions:

| Theorem | States |
|---|---|
| `ConnectionProofs.Typing`, `OpeningsHeld` | types; only the lock's holder has a session being opened, and no turn runs in it |
| `ConnectionProofs.PendingSound` | `PendingTurnRuns`, `PendingUnique` |
| `ConnectionProofs.OneTurn`, `NeverDropped` | `TurnsExclusive`, `NeverDroppedInTurn`, for agents that do not list a session they still start |
| `ConnectionProofs.RecordsWhole`, `RecordsStayWhole` | `RecordWhole` of the host and with connections, for agents as above, sessions opened by `session/load` and strays with room |
| `ConnectionProofs.Implements`, `HostPromises` | `ConnSpec => Spec`, and what that gives connections |
| `ConnectionProofs.ConnectionsSound`, `AnsweredBeforeEnd`, `DevicesSee` | `ConnSound`; `PromptAnswered` and `SeesHost`, for agents as above |
| `AcpProofs.AgentTyped`, `StopsStay`, `NoConversationForgotten` | `AcpTypeOK`, `StopsForGood`, `NoneForgotten` |
| `RelayPhoneProofs.RelayTypes`, `DevicesPaired`, `StopCloses`, `HostsReachable` | the types and the three invariants of the relay |
| `HermesServiceProofs.HermesTypes`, `HermesOutcome` | types; a turn told completed or cancelled is one whose run was |
| `HermesServiceProofs.HermesStreamWhole`, `HermesAnswers` | `StreamWhole`, `AnswerItsOwn` |
| `PairingProofs.CodesPairOnce`, `HostAndRelayAgree` | types and `CodeOnce`; `RelayAgrees` |
| `PairingProofs.PairingKept`, `OutIsOut` | `PairingSound`, `UnpairedIsOut`, while unpairings come one at a time or nothing fails |
| `HermesServiceProofs.HermesKeepsPromise` | `HermesSpec` implements `BackendTurn` |
| `OpenclawProofs.TurnsHeard`, `AnswersForwarded` | `OpenclawSound`; `AskForwarded` |
| `RelayPhoneProofs.PhoneHeld` | `SlotIsBusy`, `AskEverywhere` and the types |
| `RelayPhoneProofs.PhoneKept` | `PhoneSound`, for a phone that sends a message again only while it is remembered |
| `InstallProofs.InstallGivenBack` | `InstallSound`, for any number of processes, with writes that fail and installs not found |
| `HermesServiceProofs.ServiceGivesBack` | `ServiceSound`, for any agents and any commands, with installs not found |
| `ClientProofs.ClientShows`, `ClientAgrees` | `ClientSound`; `Agrees` |

*Host.* `OpeningHeld` is not inductive: that nobody else is inside the lock needs to
know who waits (`CallsOK`: a call is in the queue exactly while it waits or opens,
once), and that a slot's turn runs needs `SlotOK`. `CoreInv` is `TypeOK`, `CallsOK`,
`SlotOK` and `OpeningHeld`, and one lemma per kind of step keeps it. `TurnsExclusive` needs
more: a session being made is nobody else's yet (`NewOK`, `IssuedOK`), and one that is
opened and in use is refreshed, never opened anew (`OpenOK`). `ListsEarly` is an agent
that lists, and lets clients load, a session it has not yet answered `session/new` for: with
it the new session would replace one with a turn, so the theorems assume that no
agent does. `PendingSound` needs only `CoreInv`. `RecordWhole` speaks of sessions that are open
and nobody is opening, so `RecordInv` says where an update is until it is recorded: while a session is made,
what its agent says in it waits among the strays (`MadeOK`); while one is loaded, in the replay
or, if said after it, in the record already (`ReplayOK`). A session opened by resume has no replay,
and one of an agent that lists early none that is whole, so both are excluded; and a stray past
`STRAYS` or `OPEN_SESSIONS` is dropped by the code (`StraysRoom` says none is).

*Connection.* Its steps are steps of the host with the devices' part added, so the
refinement mapping is the identity on the host's variables; the only fact needed is
that connections that are up are clients. What connections keep rests on what a step of
the host says (`QuietSays`, `UpdateSays`, `PromptSays`, `EndSays`: nothing, one update,
one start or one end). `PromptsRun` speaks of drained connections, so it is
strengthened over those that are not: a prompt kept either runs, or the end of
its turn is still in the queue (`Awaits`). `PromptAnswered` adds that an end in the queue
has the answer before it, unless the session was cut. `SeesHost` also speaks of drained
devices; `SightInv` says of the others how far behind they are: of the events queued to a device,
those after its snapshot (`After`) are exactly what the record has and the device was not
sent, in order (`RecordSeen`), and the last of the turn's says how the session is
(`TurnSeen`). Each step of the host adds to the record what it tells, and to the turn likewise
(`RecordShown`, `TurnShown`), so both queue and record grow alike; a snapshot starts anew at
the record's end with every queued event behind it. A device whose session was let go has its
closing in the queue or is among the `outlived` (`LeavesTold`), and one that opens a session
anew finds no events of an older one (`MadeInv`: no events of a session still being made).

*Relay.* Each invariant is inductive together with `RelayTypeOK`. `LetThroughPaired`
is so because it says who is about to kill: every statement that removes a
pairing leaves a job, a tunnel with the request in hand or a connection about to
kill its own, and none of them is done before the kill is sent.

*Pairing.* Ids of pairings are never given twice (`IdsApart`), so a code's
winner is one (`CodesStep`). That who is out stays out (`OutGone`) needs that no
key, file, session being opened or pairing under way has an id that is out, and that
an unpairing under way answers for the file it saved. The assumption `OneCall` is what the
code gives: of two unpairings of one device at once, one may find it gone and return well
while the other fails to save, and at the next start the device is back.
`RelayAgrees` speaks of settled states; in all others each device where host and
relay differ is somebody's to put right (`DueOK`): a request in the tunnel, a call that
will send one, the task to come, or it is astray.

*Acp.* The locks are part of `AcpTypeOK` (`LocksHeld`): who holds one is exactly the
request at what it guards, and no process runs while one starts or stops. It is
inductive with `NamesOK`, that requests under way name sessions; a request's steps
keep both by one lemma (`GoesOn`), and those that leave requests on another process
by two more. `StopsForGood` is strengthened by `StopOK`: shutdown's task is there
only when the host is closing, which it stays. `NoneForgotten` is of every step: a process that is
taken away hands what it has open to the task that stops it (`TakenKept`), and that to the record;
what one that ended by itself had open stays noted until the next start records it. Conversations
are the sessions they began as, so that a move, a reopening or a new session takes none of them away needs
that no request, record or move names a session the agent has not given out, and that
no request is for a session another conversation moved into (`KnownOK`).

*Hermes.* A turn's end passes through the server's log, the stream or a poll, and the
adapter's queue before the host is told, so `OutcomeTrue` is strengthened along that
way (`HermesInv`): an end in the log is the run's (`LogTrue`), one in the queue the
run's or a failure (`ChanTrue`), and the host is told exactly when the prompt is
answered (`ToldOnce`). `StreamWhole` relates what was shown to where the open body is: the events
shown end at the last one delivered (`ShownInOrder`), a body that keeps ids is at or before the next
one (`ShownWhole`), and one of a server that keeps no events never gives an old one again
(`OldGoesOn`). `AnswerItsOwn` follows a request's id from the queue to the host and back
(`ChanOwn`, `AsksOwn`, `ControlOwn`, `DecidedOwn`). The refinement maps `fate` to the server's run where the link started
one and `asked` to the prompts made; server steps are steps of the runtime, relaying
an end is the answer, everything else stutters.

*Openclaw.* `TurnHeard` is about turns that run; it is inductive once it covers every turn
whose subscription is made (`Listed`) and says of the turn in the table that it goes on
(`SinkLive`), that a session runs one turn (`OneTurn`), that a call is under way only for a
prompt that is starting (`CallStarts`), and that who opens a socket has not begun its call
otherwise (`OpeningOK`): these are `OpenclawInv`. Every step of a router, of the end of a
socket and of the wait for a row has one shape (`RouterStep`: at most an event of the listed
turn; its end exactly when it leaves the table), so one lemma serves all (`RouterKeeps`).
`AskForwarded` needs where a request is before the host is shown it: it waits in the turn's
queue or with the host (`Awaits`), and of each the router still holds the approval if the
gateway waits on it (`Held`), because a resolution in a queue is of a request that is no
longer open (`QueueKnown`), and the end of a socket ends the turn as it drops the approvals.

*Phone.* `SlotIsBusy` needs that what waits on a chat waits there and once (`QueuedOK`), so that
the end of a turn hands the slot to a message that is still to run. `AskEverywhere` speaks of requests
no event is left about, so it is strengthened to those that have some (`AskOK`): one that waits
for an answer is shown or its adding is in the stream, with no resolution; one resolved is shown nowhere
and told of no more, or its resolution comes after its adding. Every step of the host broadcasts
just what changed of each request (`AskTold`), and a contract that missed events is excused, for good
(`behind`). `RunsOnce` is of two frames of one message, of which at most one is taken (`OnceOK`).
The contract remembers `SEEN_MESSAGES` ids only: a phone that sends a message again after more than
so many others has it run twice, so `PhoneKept` assumes that none does (`InTime`), which holds where
the frames sent are no more than it remembers. `PhoneHeld` assumes nothing.

*Install.* `StartedIsStopped` speaks of the end of an unlink, so `SuperviseInv` follows a start from
its process to `processes.json` and on: while the install is hosted every start that runs is recorded, about to be,
or an orphan (`KnownOK`); once the service has stopped it is an orphan or yet to be stopped, and
then an orphan (`StoppingOK`), for no worker is left to start another (`ByOK`). All that follows the
look for the install is of one that was found. That a worker starts its process,
or writes over its record, only when no recorded start of it runs needs that such a start is the one it
holds (`HeldOK`), also where another worker is about to write back an older copy of the file
(`ReadOK`): an old record a stale write brings back is of a start that ended. The instance has one process, where no
write is stale; the theorem has any number. `JournalInv` adds to the types what a call under way may do to
the journal: the access is forgotten by a command that gives the install back and by no other.

*Service.* Whoever unlinks gives back what its own view of the link lists: a command the copy it
read (`CopyLists`), the service the link it has in memory (`MemHolds`), which it took from the file
as it started, from the reloader (`LookHolds`) or from its own host. Every one of those views lists
each install that is open and not excused (`Owed`), as the file itself does (`FileLists`), but for the
installs of commands that are not done (`Pending`): an owner's command that opens one is done
only after the service has stopped and read the link again, because it asks for the stop after it
has written (`StopAsked`, and the second half of `Holds`). While something is unlinked, what a
command may yet open is excused (`UnlinkExcuses`). The instance has two commands; the theorem has any
number, by the owner or the host, and needs of a write that drops an install from the link
that it excuses the ones opened or about to be: a release that read the link before another one
and an opening leaves the install it released twice open and unlisted. The assumption on
`Wanted` is that the service itself adds and drops coding agents and switches the models
only: its keeper refuses an install (link.rs:324).

*Client.* What the app was shown depends on the frames still under way, so `ClientInv` says
where those stand. `StageOK`: of loads, lookups of a resume and their answers one is under
way at a time, and a replay is expected exactly while one is. `UpdatesOK`: updates come in
the record's order, and each is either after all the app has (`Fresh`), or the connection
replays the session and has not passed what the app took before it dropped (`Behind`); while
attached, whatever the agent said is in the log or under way. `TurnsOK`: before a turn's end
(`EndedOK`), or the answer to a load that ends one (`LoadedOK`), comes all its agent said in
it; and the app's turn has all of its own in the log, for good once it ended (`SeenOK`). The
two directions of frames move alike for every kind of step: one that says something adds
frames behind (`Speaks`, `Tells`, `Reports`), one that takes the first moves the others up
(`Picks`), and a lost connection clears both (`Drops`). The assumption on `None` is that it
is nobody's number, end or replay; `Asks` is finite so that the host can send them one by one.

`Agrees` speaks of an app that is connected and has taken all its frames, so `AgreeInv` says
of every other state what is still to come. `InboxOK`: a request that waits is in the inbox,
or a frame that adds it comes, and after each lookup's answer that lacks it; one that is over
and still in the inbox has its removal, or a lookup without it, on the way (`Clears`).
`LoadsOK`: a replay is waited for only while its load or the answer to it is under way.
`CurOK`: the app's turn is one the resume has yet to settle (`Resumes`), or the host's, or its
end is on its way (`Steady`); and where the app waits for a prompt's answer, the prompt, its
turn or the answer is somewhere (`AnswerComes`). `RunOK`: the turn that runs is the app's or
comes, and a notice of one that is over is followed by its end and by the next. That a prompt
is never answered before its turn's notice (the last part of `RunOK`) is what keeps an answer from
leaving a turn without an id in the session for ever.

**Model-checked only:** liveness under fairness (`CallsAnswered`, `RequestsGoOn`,
`PausesInTheEnd`, `TurnAnswered`, `AloneAnswered`, `StartIsTold`, `KeptUp`, `SettlesInTheEnd`,
`TurnFinishes`, ...), which the prover does not reach; what recursion over records
computes (`LiveReadsAsTranscript`, `GivenBack`: folds over sequences, by induction
over data).

## 5. Not modelled

Out of reach for good: how documents are spliced as text (JSON5, YAML, dotenv), page
rewriting and the proxy, ciphers, detecting installs, installing and updating, command
lines, the exact time windows of backoff and timeouts (here any length).

Not modelled, and could be:

- what a relayed connection carries: the two bounded queues of `pump.rs`, half-close,
  silence, and a close that waits on a stalled peer (pump.rs:191);
- rotation, retirement and revocation of the host's own key (`keys.rs`), LAN pinning and
  mDNS;
- the host's restart over `acp-sessions.json` and `acp-moves.json`, files several tasks
  write; the wire side of the ACP driver;
- ids and announcements of the roster (above), lists of agents and statuses;
- the presence and logs of the link, sleep, updates, the service managers;
- several hosts or sessions of one SDK app, frames of an old connection handled after
  a new one opened, the order of tasks in Python's loop;
- what the phone's REST lists say, folders and files of a message.

To prove next: that `Openclaw` implements `BackendTurn` for a turn alone in its session.
