------------------------------- MODULE Pairing -------------------------------
(***************************************************************************)
(* Which devices a host is paired with: the codes it shows, the pairing    *)
(* and session connections of its devices, unpairing, the file its peers   *)
(* are kept in, and the pairings the relay keeps, which the host changes   *)
(* by requests over its tunnel and puts right whenever the tunnel comes up *)
(* (oal-host's lib.rs, conn.rs and relay.rs, oal-secure's keys.rs, pair.rs *)
(* and session.rs, and oal-relay's host.rs).                               *)
(*                                                                         *)
(* A device proves one key to the relay and to the host.  Every pairing    *)
(* has an id of its own, a number from 1 on; so has every code.            *)
(***************************************************************************)
EXTENDS Naturals, Sequences, FiniteSets, SequencesExt, TLC

CONSTANTS
    Devices,
    Conns,          \* connections of devices
    Ops,            \* calls of OalHost::unpair
    None,
    CodeFailures,   \* CODE_FAILURES
    MaxCodes,       \* bound: codes made
    MaxPairings,    \* bound: pairing ids given
    MaxDials,       \* bound: tunnels registered
    MaxFaults       \* bound: failed saves and requests, and crashes

ASSUME PairingAssumption ==
    /\ {CodeFailures, MaxCodes, MaxPairings, MaxDials, MaxFaults} \subseteq Nat
    /\ None \notin Devices
    /\ Conns \cap Ops = {} /\ "reconcile" \notin Conns \cup Ops

VARIABLES
    peers,      \* State.peers: the id of each device's pairing, 0 = not paired
    file,       \* peers.json
    code,       \* the code last made, unless taken: its number (0 = none),
                \* failures, and whether its time has not run out
    conn,       \* OalHost::serve, one record per connection
    op,         \* OalHost::unpair
    rec,        \* reconcile's task: what the relay listed, what is left to ask
    tunnel,     \* "down", "dialed", "up" or "lost" (its end not noticed)
    ctl,        \* requests on their way to the relay
    through,    \* the relay's pairings
    made,       \* bound: codes, ids, tunnels and faults so far
    won,        \* history: the codes taken, by the ids they gave
    out,        \* history: ids whose device is unpaired, as its caller was told
    astray      \* history: devices the relay may keep wrongly until it is dialed

keyVars == <<peers, file>>
relayVars == <<rec, tunnel, ctl, through>>
pairingVars == <<keyVars, code, conn, op, relayVars, made, won, out, astray>>

NoCode == [id |-> 0, failures |-> 0, live |-> FALSE]
NoConn == [phase |-> "none", dev |-> None, code |-> 0, id |-> 0,
           relayed |-> FALSE, changed |-> FALSE]
NoOp == [phase |-> "none", dev |-> None, ids |-> {}]
NoTask == [phase |-> "none", listed |-> {}, add |-> {}, drop |-> {}]

PairingInit ==
    /\ peers = [d \in Devices |-> 0] /\ file = peers
    /\ code = NoCode
    /\ conn = [k \in Conns |-> NoConn]
    /\ op = [u \in Ops |-> NoOp]
    /\ rec = NoTask /\ tunnel = "down" /\ ctl = <<>> /\ through = {}
    /\ made = [codes |-> 0, ids |-> 0, dials |-> 0, faults |-> 0]
    /\ won = {} /\ out = {} /\ astray = {}

-----------------------------------------------------------------------------
(* Requests to the relay *)

Paired == {d \in Devices : peers[d] # 0}
Asking == {k \in Conns : conn[k].phase = "asking"} \cup {u \in Ops : op[u].phase = "asking"}
          \cup (IF rec.phase = "asking" THEN {"reconcile"} ELSE {})
Request(w, what, d) == [from |-> w, what |-> what, dev |-> d]
OnItsWay(w) == \E i \in DOMAIN ctl : ctl[i].from = w
CanFault == made.faults < MaxFaults
Fault == CanFault /\ made' = [made EXCEPT !.faults = @ + 1]

\* Connections between the relay's answer and the record of their device.
Pairs(d) == {k \in Conns : conn[k].dev = d /\ conn[k].phase \in {"asking", "asked"}}

\* What becomes of the callers W whose requests fail: a pairing is refused, an
\* unpairing is answered all the same, reconciling goes on.
Refused(W) ==
    /\ conn' = [k \in Conns |-> IF k \in W THEN NoConn ELSE conn[k]]
    /\ op' = [u \in Ops |-> IF u \in W THEN NoOp ELSE op[u]]
    /\ out' = out \cup UNION {op[u].ids : u \in W \cap Ops}

\* The relay takes the oldest request.
RelayTakes ==
    /\ tunnel = "up" /\ ctl # <<>>
    /\ LET r == Head(ctl)
       IN  through' = IF r.what = "paired" THEN through \cup {r.dev} ELSE through \ {r.dev}
    /\ ctl' = Tail(ctl)
    /\ UNCHANGED <<keyVars, code, conn, op, rec, tunnel, made, won, out, astray>>

\* Its answer comes.
Answered(w) ==
    /\ w \in Asking /\ ~OnItsWay(w)
    /\ \/ /\ w \in Conns
          /\ conn' = [conn EXCEPT ![w].phase = "asked"]
          /\ UNCHANGED <<op, rec, out>>
       \/ /\ w \in Ops
          /\ Refused({w})
          /\ UNCHANGED rec
       \/ /\ w = "reconcile"
          /\ rec' = [rec EXCEPT !.phase = "asks"]
          /\ UNCHANGED <<conn, op, out>>
    /\ UNCHANGED <<keyVars, code, tunnel, ctl, through, made, won, astray>>

DevOf(w) == IF w \in Conns THEN {conn[w].dev} ELSE IF w \in Ops THEN {op[w].dev}
            ELSE rec.listed \cup Paired

\* The relay refuses a request, or it is not sent or not answered in REQUEST_WAIT.
RequestFails(w) ==
    /\ w \in Asking /\ Fault
    /\ \/ UNCHANGED ctl
       \/ \E i \in DOMAIN ctl : ctl[i].from = w /\ ctl' = RemoveAt(ctl, i)
    /\ Refused({w})
    /\ rec' = IF w = "reconcile" THEN [rec EXCEPT !.phase = "asks"] ELSE rec
    /\ astray' = astray \cup DevOf(w)
    /\ UNCHANGED <<keyVars, code, tunnel, through, won>>

-----------------------------------------------------------------------------
(* The tunnel and its reconciling *)

\* The relay takes the host's tunnel and tells it its pairings.
Register ==
    /\ tunnel = "down" /\ made.dials < MaxDials
    /\ tunnel' = "dialed"
    /\ made' = [made EXCEPT !.dials = @ + 1]
    /\ rec' = [NoTask EXCEPT !.listed = through]
    /\ astray' = {}
    /\ UNCHANGED <<keyVars, code, conn, op, ctl, through, won, out>>

\* HostEvent::Registered: requests go to this tunnel, and a task reconciles.
TakeRegistered ==
    /\ tunnel = "dialed"
    /\ tunnel' = "up"
    /\ rec' = [rec EXCEPT !.phase = "spawned"]
    /\ UNCHANGED <<keyVars, code, conn, op, ctl, through, made, won, out, astray>>

\* Mutant: what the relay lists too much stays there.
AddOnly(listed) == [phase |-> "asks", listed |-> listed, add |-> Paired \ listed, drop |-> {}]
\* The devices are read when the task runs, and only then.
ToAsk(listed) == [phase |-> "asks", listed |-> listed, add |-> Paired \ listed,
                  drop |-> listed \ Paired]

ReconcileBegin ==
    /\ rec.phase = "spawned"
    /\ rec' = ToAsk(rec.listed)
    \* Devices that are just being paired are not among them.
    /\ astray' = astray \cup {d \in Devices \ Paired : Pairs(d) # {}}
    /\ UNCHANGED <<keyVars, code, conn, op, tunnel, ctl, through, made, won, out>>

\* The next request: the devices first, then what is left over.
ReconcileAsk ==
    /\ rec.phase = "asks"
    /\ \/ \E d \in rec.add :
            /\ ctl' = Append(ctl, Request("reconcile", "paired", d))
            /\ rec' = [rec EXCEPT !.phase = "asking", !.add = @ \ {d}]
       \/ \E d \in rec.drop :
            /\ rec.add = {}
            /\ ctl' = Append(ctl, Request("reconcile", "unpair", d))
            /\ rec' = [rec EXCEPT !.phase = "asking", !.drop = @ \ {d}]
       \/ /\ rec.add = {} /\ rec.drop = {}
          /\ rec' = NoTask
          /\ UNCHANGED ctl
    /\ UNCHANGED <<keyVars, code, conn, op, tunnel, through, made, won, out, astray>>

\* The tunnel ends: its requests are lost, and whatever waits on it fails.
TunnelLost ==
    /\ tunnel \in {"dialed", "up"}
    /\ tunnel' = "lost"
    /\ ctl' = <<>>
    /\ rec' = NoTask
    /\ Refused(Asking)
    /\ UNCHANGED <<keyVars, code, through, made, won, astray>>

TunnelNoticed ==
    /\ tunnel = "lost"
    /\ tunnel' = "down"
    /\ UNCHANGED <<keyVars, code, conn, op, rec, ctl, through, made, won, out, astray>>

\* The relay's operator removes a pairing; the host only notes it.
OperatorUnpairs(d) ==
    /\ d \in through /\ Fault
    /\ through' = through \ {d}
    /\ astray' = astray \cup {d}
    /\ UNCHANGED <<keyVars, code, conn, op, rec, tunnel, ctl, won, out>>

-----------------------------------------------------------------------------
(* Codes, and pairing with one *)

\* pairing_code: a new code takes the place of any other.
ShowCode ==
    /\ made.codes < MaxCodes
    /\ made' = [made EXCEPT !.codes = @ + 1]
    /\ code' = [id |-> made'.codes, failures |-> 0, live |-> TRUE]
    /\ UNCHANGED <<keyVars, conn, op, relayVars, won, out, astray>>

Expire ==
    /\ code.live
    /\ code' = [code EXCEPT !.live = FALSE]
    /\ UNCHANGED <<keyVars, conn, op, relayVars, made, won, out, astray>>

Free(k) == conn[k].phase = "none"

\* active_code: a connection begins to pair with the code as it is now.
StartPair(k, d, relayed) ==
    /\ Free(k)
    /\ code.live /\ code.failures < CodeFailures
    /\ relayed => tunnel = "up"
    /\ conn' = [conn EXCEPT ![k] = [NoConn EXCEPT !.phase = "pairs", !.dev = d,
                                                  !.code = code.id, !.relayed = relayed]]
    /\ UNCHANGED <<keyVars, code, op, relayVars, made, won, out, astray>>

\* pairing_failed counts against the code that shows now.
CountFailure == IF code.id = 0 \/ code.failures = CodeFailures THEN code
                ELSE [code EXCEPT !.failures = @ + 1]

\* A wrong code, or one that was taken or replaced meanwhile.
PairFails(k) ==
    /\ conn[k].phase = "pairs"
    /\ code' = CountFailure
    /\ conn' = [conn EXCEPT ![k] = NoConn]
    /\ UNCHANGED <<keyVars, op, relayVars, made, won, out, astray>>

\* Mutant: the code that was taken still shows.
KeepCode == code
CodeTaken == NoCode

\* The device proved the code and take_code took it; the relay, if it carries
\* the connection, is asked to let the device through.
PairTakes(k) ==
    LET d == conn[k].dev
        id == made.ids + 1
        tells == conn[k].relayed /\ tunnel = "up"
        fails == conn[k].relayed /\ tunnel = "lost"
    IN  /\ conn[k].phase = "pairs" /\ conn[k].code = code.id
        /\ id <= MaxPairings
        /\ code' = CodeTaken
        /\ made' = [made EXCEPT !.ids = id]
        /\ won' = won \cup {<<conn[k].code, id>>}
        /\ conn' = [conn EXCEPT ![k] =
                IF fails THEN NoConn
                ELSE [@ EXCEPT !.phase = IF tells THEN "asking" ELSE "asked",
                               !.id = id, !.code = 0, !.relayed = tells]]
        /\ ctl' = IF tells THEN Append(ctl, Request(k, "paired", d)) ELSE ctl
        /\ astray' = IF d \in rec.drop THEN astray \cup {d} ELSE astray
        /\ UNCHANGED <<keyVars, op, rec, tunnel, through, out>>

\* A relay that has reconciled is not told of a device paired without it.
Untold(k) == ~conn[k].relayed /\ tunnel = "up" /\ rec.phase # "spawned"
\* An open session of d: it has heard of every removal until now.
Session(d, id, phase) == [NoConn EXCEPT !.phase = phase, !.dev = d, !.id = id]

\* The result is sent and the device recorded: in memory, then in the file,
\* and the connection goes on as a session unless the file can't be written.
PairFinish(k) ==
    LET d == conn[k].dev
    IN  /\ conn[k].phase = "asked"
        /\ peers' = [peers EXCEPT ![d] = conn[k].id]
        /\ \/ /\ file' = peers'
              /\ conn' = [conn EXCEPT ![k] = Session(d, @.id, "open")]
              /\ UNCHANGED made
           \/ /\ Fault
              /\ conn' = [conn EXCEPT ![k] = NoConn]
              /\ UNCHANGED file
        /\ astray' = IF Untold(k) \/ d \in rec.drop THEN astray \cup {d} ELSE astray
        /\ UNCHANGED <<code, op, relayVars, won, out>>

\* The result can't be sent: nothing is recorded, the relay's pairing stays.
PairUnsent(k) ==
    /\ conn[k].phase = "asked"
    /\ conn' = [conn EXCEPT ![k] = NoConn]
    /\ astray' = astray \cup {conn[k].dev}
    /\ UNCHANGED <<keyVars, code, op, relayVars, made, won, out>>

-----------------------------------------------------------------------------
(* Sessions of paired devices *)

\* accept: the device's key is looked up, once.
Greet(k, d) ==
    /\ Free(k) /\ peers[d] # 0
    /\ conn' = [conn EXCEPT ![k] = Session(d, peers[d], "greeted")]
    /\ UNCHANGED <<keyVars, code, op, relayVars, made, won, out, astray>>

\* finish: the session is open, and follows the removals from here on.
Open(k) ==
    /\ conn[k].phase = "greeted"
    /\ conn' = [conn EXCEPT ![k].phase = "open"]
    /\ UNCHANGED <<keyVars, code, op, relayVars, made, won, out, astray>>

StillPaired(k) == \E d \in Devices : peers[d] = conn[k].id
Checked(k) == IF StillPaired(k) THEN [conn[k] EXCEPT !.phase = "waits", !.changed = FALSE]
              ELSE NoConn

\* recv_frame checks the pairing before it waits, and on every removal.
Check(k) ==
    /\ conn[k].phase = "open" \/ (conn[k].phase = "waits" /\ conn[k].changed)
    /\ conn' = [conn EXCEPT ![k] = Checked(k)]
    /\ UNCHANGED <<keyVars, code, op, relayVars, made, won, out, astray>>

\* A whole frame of the device is taken.
TakeFrame(k) ==
    /\ conn[k].phase = "waits" /\ ~conn[k].changed
    /\ conn' = [conn EXCEPT ![k].phase = "open"]
    /\ UNCHANGED <<keyVars, code, op, relayVars, made, won, out, astray>>

\* The device goes, is too slow, or breaks the protocol.
EndConn(k) ==
    /\ conn[k].phase \in {"pairs", "greeted", "open", "waits"}
    /\ conn' = [conn EXCEPT ![k] = NoConn]
    /\ UNCHANGED <<keyVars, code, op, relayVars, made, won, out, astray>>

-----------------------------------------------------------------------------
(* Unpairing *)

UnpairBegin(u, d) ==
    /\ op[u].phase = "none" /\ peers[d] # 0
    /\ op' = [op EXCEPT ![u] = [phase |-> "found", dev |-> d, ids |-> {peers[d]}]]
    /\ UNCHANGED <<keyVars, code, conn, relayVars, made, won, out, astray>>

\* Mutant: open sessions are not told of the removal.
TellNobody(k) == conn[k]
\* `removed` is bumped: every open session is to check its pairing.  One about to
\* look finds the removal by itself.
Notified(k) == IF conn[k].phase = "waits" THEN [conn[k] EXCEPT !.changed = TRUE]
               ELSE conn[k]
Saved(now) == now

\* The removal of d crosses its pairing, or a list from before it.
Crosses(d) == Pairs(d) # {} \/ d \in rec.add \/ rec.phase = "spawned"

\* The key found is revoked, whichever pairing it has now, and the relay is
\* told.  A file that can't be written leaves the device removed from memory.
Revoke(u) ==
    LET d == op[u].dev
        ids == op[u].ids \cup ({peers[d]} \ {0})
        asks == [phase |-> "asking", dev |-> d, ids |-> ids]
    IN  /\ op[u].phase = "found"
        /\ peers' = [peers EXCEPT ![d] = 0]
        /\ \/ /\ file' = IF peers[d] # 0 THEN Saved(peers') ELSE file
              /\ conn' = IF peers[d] # 0 THEN [k \in Conns |-> Notified(k)] ELSE conn
              /\ op' = [op EXCEPT ![u] = IF tunnel = "up" THEN asks ELSE NoOp]
              /\ out' = IF tunnel = "up" THEN out ELSE out \cup ids
              /\ ctl' = IF tunnel = "up" THEN Append(ctl, Request(u, "unpair", d)) ELSE ctl
              /\ astray' = IF Crosses(d) THEN astray \cup {d} ELSE astray
              /\ UNCHANGED made
           \/ /\ peers[d] # 0 /\ Fault
              /\ op' = [op EXCEPT ![u] = NoOp]
              /\ astray' = astray \cup {d}
              /\ UNCHANGED <<file, conn, out, ctl>>
        /\ UNCHANGED <<code, rec, tunnel, through, won>>

\* The host ends and starts again, from the file.
Crash ==
    /\ Fault
    /\ peers' = file
    /\ code' = NoCode
    /\ conn' = [k \in Conns |-> NoConn]
    /\ op' = [u \in Ops |-> NoOp]
    /\ rec' = NoTask /\ tunnel' = "down" /\ ctl' = <<>>
    /\ UNCHANGED <<file, through, won, out, astray>>

PairingNext ==
    \/ RelayTakes \/ Register \/ TakeRegistered \/ ReconcileBegin \/ ReconcileAsk
    \/ TunnelLost \/ TunnelNoticed \/ ShowCode \/ Expire \/ Crash
    \/ \E w \in Conns \cup Ops \cup {"reconcile"} : Answered(w) \/ RequestFails(w)
    \/ \E d \in Devices : OperatorUnpairs(d)
    \/ \E k \in Conns :
          \/ PairFails(k) \/ PairTakes(k) \/ PairFinish(k) \/ PairUnsent(k)
          \/ Open(k) \/ Check(k) \/ TakeFrame(k) \/ EndConn(k)
          \/ \E d \in Devices :
                Greet(k, d) \/ \E relayed \in BOOLEAN : StartPair(k, d, relayed)
    \/ \E u \in Ops : Revoke(u) \/ \E d \in Devices : UnpairBegin(u, d)

PairingSpec == PairingInit /\ [][PairingNext]_pairingVars

-----------------------------------------------------------------------------
(* What pairing promises *)

Ids == 1..MaxPairings
ConnType == [phase : {"none", "pairs", "asking", "asked", "greeted", "open", "waits"},
             dev : Devices \cup {None}, code : 0..MaxCodes, id : 0..MaxPairings,
             relayed : BOOLEAN, changed : BOOLEAN]
CallType == [from : Conns \cup Ops \cup {"reconcile"}, what : {"paired", "unpair"},
             dev : Devices]

\* Every variable holds values of its kind, failures are those of a code, and
\* requests are on their way only while the tunnel is up.
PairingTypeOK ==
    /\ {peers, file} \subseteq [Devices -> 0..MaxPairings]
    /\ code \in [id : 0..MaxCodes, failures : Nat, live : BOOLEAN]
    /\ code.id = 0 => code = NoCode
    /\ conn \in [Conns -> ConnType]
    /\ op \in [Ops -> [phase : {"none", "found", "asking"}, dev : Devices \cup {None},
                       ids : SUBSET Ids]]
    /\ rec \in [phase : {"none", "spawned", "asks", "asking"}, listed : SUBSET Devices,
                add : SUBSET Devices, drop : SUBSET Devices]
    /\ tunnel \in {"down", "dialed", "up", "lost"}
    /\ ctl \in Seq(CallType)
    /\ through \subseteq Devices
    /\ won \subseteq (1..MaxCodes) \X Ids /\ out \subseteq Ids /\ astray \subseteq Devices
    /\ tunnel # "up" => ctl = <<>> /\ Asking = {}

\* "It works once" (lib.rs:245): however many connections proved a code at the
\* same time, and whatever codes replaced it, it pairs one device.
CodeOnce == \A p, q \in won : p[1] = q[1] => p = q

\* "Its open sessions end" (keys.rs:211): once an unpairing has returned, the host
\* takes no frame of a session that was opened under the pairing, wherever the
\* session was, and whether or not its device paired anew.
UnpairedIsOut ==
    [][\A k \in Conns : conn[k].phase = "waits" /\ conn'[k].phase = "open"
                        => conn[k].id \notin out]_pairingVars

\* An unpairing that has returned without an error holds for good: the pairing
\* is neither in memory nor in the file the host starts from again.
UnpairedForGood == \A d \in Devices : {peers[d], file[d]} \cap out = {}

\* What the host keeps is sound: the types, and what it gave and took away.
PairingSound == PairingTypeOK /\ CodeOnce /\ UnpairedForGood

\* Nothing is under way between the host and the relay.
Settled == /\ tunnel = "up" /\ rec.phase = "none" /\ ctl = <<>>
           /\ \A d \in Devices : Pairs(d) = {}
           /\ \A u \in Ops : op[u].phase = "none"

\* "The host's devices are the record of who may come through" (relay.rs:9): when
\* nothing is under way the relay lets through exactly the host's devices, but
\* for those of which a request failed, the relay was never told, or which were
\* paired or unpaired while a request about them was on its way.
RelayAgrees == Settled => \A d \in Devices \ astray : d \in through <=> peers[d] # 0
=============================================================================
