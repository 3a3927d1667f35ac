------------------------------- MODULE Relay -------------------------------
(***************************************************************************)
(* The relay server (oal-relay/src/server): hosts keep a tunnel open to    *)
(* it, and the devices it lists as paired with a host are let through.     *)
(* Its store (one SQLite file) outlives the process; every statement on it *)
(* is one step, and so is every look at one of the maps in memory.  What   *)
(* the handlers do between two of them interleaves with everything else.   *)
(* A statement on the store may fail: the request is refused.              *)
(*                                                                         *)
(* A tunnel and a connection are members of Tunnels and Conns, each used   *)
(* once.  What travels inside them is end-to-end encrypted, and is not     *)
(* looked at here; who may pair is between the host and the device.        *)
(***************************************************************************)
EXTENDS Naturals, FiniteSets

CONSTANTS
    Hosts,      \* host ids
    Keys,       \* keys of computers
    Clients,    \* keys of devices
    Plates,     \* nameplates: the first halves of pairing codes
    Tunnels,    \* tunnels, one for each time a host dials
    Conns,      \* connections of devices, one for each time one dials
    Nil

ASSUME NilIsNothing ==
    Nil \notin Hosts \cup Keys \cup Clients \cup Plates \cup Tunnels

VARIABLES
    registered, \* store: the key a host id is registered to, or Nil
    pairings,   \* store: pairs of a host id and a device key
    plates,     \* store: the host that holds a nameplate that has not expired
    banned,     \* store: revoked keys
    online,     \* State.hosts: a host's tunnel, or Nil
    tunnel,     \* each tunnel's task: run_tunnel
    cancelled,  \* tunnels whose close token was cancelled
    conn,       \* each connection's task: connect or pair, then relay_client
    killed,     \* connections whose kill was sent
    jobs,       \* what requests of the operator, and a stop, have yet to do
    stopping    \* State.shutdown was cancelled

store == <<registered, pairings, plates, banned>>
relayVars == <<registered, pairings, plates, banned, online, tunnel, cancelled,
               conn, killed, jobs, stopping>>

\* What is yet to be done: kill connections, close a host's tunnel.
KillJob(h, c) == [do |-> "kill", host |-> h, client |-> c]
RevokeJob(h) == [do |-> "revoke", host |-> h, client |-> Nil]
CloseJob(h) == [do |-> "close", host |-> h, client |-> Nil]
Job == [do : {"kill"}, host : Hosts \cup {Nil}, client : Clients \cup {Nil}]
           \cup [do : {"revoke", "close"}, host : Hosts, client : {Nil}]

NoTunnel == [state |-> "none", host |-> Nil, key |-> Nil, busy |-> Nil]
NoConn == [state |-> "none", host |-> Nil, client |-> Nil, plate |-> Nil]

RelayInit ==
    /\ registered = [h \in Hosts |-> Nil]
    /\ pairings = {}
    /\ plates = [p \in Plates |-> Nil]
    /\ banned = {}
    /\ online = [h \in Hosts |-> Nil]
    /\ tunnel = [t \in Tunnels |-> NoTunnel]
    /\ cancelled = {}
    /\ conn = [n \in Conns |-> NoConn]
    /\ killed = {}
    /\ jobs = {}
    /\ stopping = FALSE

\* A tunnel's token is a child of the relay's own.
Cancelled(t) == t \in cancelled \/ stopping

-----------------------------------------------------------------------------
(* Tunnels of hosts *)

ToTunnel(t, state) == tunnel' = [tunnel EXCEPT ![t].state = state]

\* A computer whose key is not revoked asks for a tunnel as h.
TunnelAsk(t, h, k) ==
    /\ ~stopping
    /\ tunnel[t] = NoTunnel
    /\ k \notin banned
    /\ tunnel' = [tunnel EXCEPT ![t] = [state |-> "asked", host |-> h, key |-> k, busy |-> Nil]]
    /\ UNCHANGED <<store, online, cancelled, conn, killed, jobs, stopping>>

\* Whether an id and a key are each other's, or both are free.
MayRegister(h, k) ==
    \/ registered[h] = k
    \/ registered[h] = Nil /\ \A other \in Hosts : registered[other] # k

Register(t) ==
    /\ tunnel[t].state = "asked"
    /\ MayRegister(tunnel[t].host, tunnel[t].key)
    /\ registered' = [registered EXCEPT ![tunnel[t].host] = tunnel[t].key]
    /\ ToTunnel(t, "registered")
    /\ UNCHANGED <<pairings, plates, banned, online, cancelled, conn, killed, jobs, stopping>>

\* Its control stream is open, and the host was told the pairings.
TellPairings(t) ==
    /\ tunnel[t].state = "registered"
    /\ ToTunnel(t, "listed")
    /\ UNCHANGED <<store, online, cancelled, conn, killed, jobs, stopping>>

\* The tunnel takes the place of the host's last one.
TunnelUp(t) ==
    LET h == tunnel[t].host
    IN  /\ tunnel[t].state = "listed"
        /\ online' = [online EXCEPT ![h] = t]
        /\ cancelled' = cancelled \cup ({online[h]} \ {Nil})
        /\ ToTunnel(t, "up")
        /\ UNCHANGED <<store, conn, killed, jobs, stopping>>

\* Refused, or gone, before it was up.
TunnelFail(t) ==
    /\ tunnel[t].state \in {"asked", "registered", "listed"}
    /\ cancelled' = cancelled \cup {t}
    /\ ToTunnel(t, "over")
    /\ UNCHANGED <<store, online, conn, killed, jobs, stopping>>

\* Its driver lost the connection, or the host closed it.
TunnelLost(t) ==
    /\ tunnel[t].state \in {"registered", "listed", "up"}
    /\ t \notin cancelled
    /\ cancelled' = cancelled \cup {t}
    /\ UNCHANGED <<store, online, tunnel, conn, killed, jobs, stopping>>

\* Mutant: whatever tunnel the host has is removed.
OfflineAny(t) == [online EXCEPT ![tunnel[t].host] = Nil]
\* The host goes offline unless another tunnel took this one's place.
Offline(t) == [h \in Hosts |-> IF online[h] = t THEN Nil ELSE online[h]]

TunnelEnd(t) ==
    /\ tunnel[t].state = "up" /\ tunnel[t].busy = Nil
    /\ online' = Offline(t)
    /\ cancelled' = cancelled \cup {t}
    /\ ToTunnel(t, "over")
    /\ UNCHANGED <<store, conn, killed, jobs, stopping>>

-----------------------------------------------------------------------------
(* What a host asks over its tunnel, one request at a time *)

Asking(t) == tunnel[t].state = "up" /\ tunnel[t].busy = Nil

\* The host paired a device.  Its row must be there.
SayPaired(t, c) ==
    /\ Asking(t)
    /\ registered[tunnel[t].host] # Nil
    /\ pairings' = pairings \cup {<<tunnel[t].host, c>>}
    /\ UNCHANGED <<registered, plates, banned, online, tunnel, cancelled, conn, killed, jobs, stopping>>

\* It unpaired one, whose connections are yet to be closed.
SayUnpair(t, c) ==
    /\ Asking(t)
    /\ pairings' = pairings \ {<<tunnel[t].host, c>>}
    /\ tunnel' = [tunnel EXCEPT ![t].busy = c]
    /\ UNCHANGED <<registered, plates, banned, online, cancelled, conn, killed, jobs, stopping>>

\* It shows a nameplate nobody else holds.
SayHold(t, p) ==
    LET h == tunnel[t].host
    IN  /\ Asking(t)
        /\ registered[h] # Nil
        /\ plates[p] \in {Nil, h}
        /\ plates' = [plates EXCEPT ![p] = h]
        /\ UNCHANGED <<registered, pairings, banned, online, tunnel, cancelled, conn, killed, jobs, stopping>>

\* Its time is over: it leads nowhere, and is anyone's to hold.
Expire(p) ==
    /\ plates[p] # Nil
    /\ plates' = [plates EXCEPT ![p] = Nil]
    /\ UNCHANGED <<registered, pairings, banned, online, tunnel, cancelled, conn, killed, jobs, stopping>>

-----------------------------------------------------------------------------
(* Connections of devices *)

\* Those in State.clients.
Listed == {n \in Conns : conn[n].state \in {"listed", "killing", "open"}}

\* The connections a host (Nil: every host) and a device (Nil: every device) have.
Matching(h, c) == {n \in Listed : h \in {Nil, conn[n].host} /\ c \in {Nil, conn[n].client}}

ToConn(n, state) == conn' = [conn EXCEPT ![n].state = state]

\* A device whose key is not revoked asks for host h, or to pair by a nameplate.
ConnAsk(n, h, c, p) ==
    /\ ~stopping
    /\ conn[n] = NoConn
    /\ c \notin banned
    /\ (h = Nil) # (p = Nil)
    /\ conn' = [conn EXCEPT ![n] = [state |-> "asked", host |-> h, client |-> c, plate |-> p]]
    /\ UNCHANGED <<store, online, tunnel, cancelled, killed, jobs, stopping>>

\* It is paired with the host.
Admit(n) ==
    /\ conn[n].state = "asked" /\ conn[n].plate = Nil
    /\ <<conn[n].host, conn[n].client>> \in pairings
    /\ ToConn(n, "admitted")
    /\ UNCHANGED <<store, online, tunnel, cancelled, killed, jobs, stopping>>

\* A host holds its nameplate.
AdmitPairing(n) ==
    LET p == conn[n].plate
    IN  /\ conn[n].state = "asked" /\ p # Nil
        /\ plates[p] # Nil
        /\ conn' = [conn EXCEPT ![n] = [@ EXCEPT !.state = "admitted", !.host = plates[p]]]
        /\ UNCHANGED <<store, online, tunnel, cancelled, killed, jobs, stopping>>

\* The host is online, and its tunnel took a stream for the connection.
Route(n) ==
    /\ conn[n].state = "admitted"
    /\ online[conn[n].host] # Nil
    /\ ~Cancelled(online[conn[n].host])
    /\ ToConn(n, "routed")
    /\ UNCHANGED <<store, online, tunnel, cancelled, killed, jobs, stopping>>

ConnFail(n) ==
    /\ conn[n].state \in {"asked", "admitted", "routed"}
    /\ ToConn(n, "over")
    /\ UNCHANGED <<store, online, tunnel, cancelled, killed, jobs, stopping>>

List(n) ==
    /\ conn[n].state = "routed"
    /\ ToConn(n, "listed")
    /\ UNCHANGED <<store, online, tunnel, cancelled, killed, jobs, stopping>>

\* Mutant: a pairing that went is not looked for again.
NotPairedTrusted(n) == FALSE
\* The pairing it was admitted by has gone.
NotPaired(n) == conn[n].plate = Nil /\ <<conn[n].host, conn[n].client>> \notin pairings

\* The pairing is read again once a revocation would find the connection.  What
\* the store cannot answer counts as gone.
Recheck(n) ==
    /\ conn[n].state = "listed"
    /\ \/ ToConn(n, "killing") /\ (stopping \/ conn[n].plate = Nil)
       \/ ToConn(n, "open") /\ ~NotPaired(n) /\ ~stopping
    /\ UNCHANGED <<store, online, tunnel, cancelled, killed, jobs, stopping>>

KillOwn(n) ==
    /\ conn[n].state = "killing"
    /\ killed' = killed \cup Matching(conn[n].host, conn[n].client)
    /\ ToConn(n, "open")
    /\ UNCHANGED <<store, online, tunnel, cancelled, jobs, stopping>>

\* Killed, or ended by the device, the host or silence.
ConnEnd(n) ==
    /\ conn[n].state = "open"
    /\ ToConn(n, "over")
    /\ UNCHANGED <<store, online, tunnel, cancelled, killed, jobs, stopping>>

-----------------------------------------------------------------------------
(* The operator, and the process *)

OperatorUnpair(h, c) ==
    /\ ~stopping
    /\ <<h, c>> \in pairings
    /\ pairings' = pairings \ {<<h, c>>}
    /\ jobs' = jobs \cup {KillJob(h, c)}
    /\ UNCHANGED <<registered, plates, banned, online, tunnel, cancelled, conn, killed, stopping>>

RevokeClient(c) ==
    /\ ~stopping
    /\ pairings' = {p \in pairings : p[2] # c}
    /\ banned' = banned \cup {c}
    /\ jobs' = jobs \cup {KillJob(Nil, c)}
    /\ UNCHANGED <<registered, plates, online, tunnel, cancelled, conn, killed, stopping>>

\* The pairings that stay when a host's row goes.
OthersPairings(h) == {p \in pairings : p[1] # h}

\* The host's row goes, and what refers to it.
RevokeHost(h) ==
    /\ ~stopping
    /\ registered[h] # Nil
    /\ registered' = [registered EXCEPT ![h] = Nil]
    /\ pairings' = OthersPairings(h)
    /\ plates' = [p \in Plates |-> IF plates[p] = h THEN Nil ELSE plates[p]]
    /\ banned' = banned \cup {registered[h]}
    /\ jobs' = jobs \cup {RevokeJob(h)}
    /\ UNCHANGED <<online, tunnel, cancelled, conn, killed, stopping>>

\* Mutant: only the connections of one device are killed.
KillsOne(j) == IF j.client = Nil THEN {} ELSE Matching(j.host, j.client)
Kills(j) == Matching(j.host, j.client)

\* A host's own request closes the device's connections before the next.
KillUnpaired(t) ==
    /\ tunnel[t].busy # Nil
    /\ killed' = killed \cup Matching(tunnel[t].host, tunnel[t].busy)
    /\ tunnel' = [tunnel EXCEPT ![t].busy = Nil]
    /\ UNCHANGED <<store, online, cancelled, conn, jobs, stopping>>

DoKill(j) ==
    /\ j \in jobs /\ j.do \in {"kill", "revoke"}
    /\ killed' = killed \cup Kills(j)
    /\ jobs' = (jobs \ {j}) \cup (IF j.do = "revoke" THEN {CloseJob(j.host)} ELSE {})
    /\ UNCHANGED <<store, online, tunnel, cancelled, conn, stopping>>

DoClose(j) ==
    /\ j \in jobs /\ j.do = "close"
    /\ cancelled' = cancelled \cup ({online[j.host]} \ {Nil})
    /\ jobs' = jobs \ {j}
    /\ UNCHANGED <<store, online, tunnel, conn, killed, stopping>>

\* Every tunnel's token goes with the relay's; then every connection is closed.
Stop ==
    /\ ~stopping
    /\ stopping' = TRUE
    /\ jobs' = jobs \cup {KillJob(Nil, Nil)}
    /\ UNCHANGED <<store, online, tunnel, cancelled, conn, killed>>

\* The process ends, at any time, and another starts on its store.
Restart ==
    /\ online' = [h \in Hosts |-> Nil]
    /\ tunnel' = [t \in Tunnels |-> IF tunnel[t] = NoTunnel THEN NoTunnel
                                    ELSE [tunnel[t] EXCEPT !.state = "over", !.busy = Nil]]
    /\ conn' = [n \in Conns |-> IF conn[n] = NoConn THEN NoConn
                                ELSE [conn[n] EXCEPT !.state = "over"]]
    /\ jobs' = {}
    /\ stopping' = FALSE
    /\ UNCHANGED <<store, cancelled, killed>>

-----------------------------------------------------------------------------
TunnelStep(t) ==
    \/ \E h \in Hosts, k \in Keys : TunnelAsk(t, h, k)
    \/ Register(t) \/ TellPairings(t) \/ TunnelUp(t)
    \/ TunnelFail(t) \/ TunnelLost(t) \/ TunnelEnd(t) \/ KillUnpaired(t)
    \/ \E c \in Clients : SayPaired(t, c) \/ SayUnpair(t, c)
    \/ \E p \in Plates : SayHold(t, p)

ConnStep(n) ==
    \/ \E h \in Hosts \cup {Nil}, c \in Clients, p \in Plates \cup {Nil} : ConnAsk(n, h, c, p)
    \/ Admit(n) \/ AdmitPairing(n) \/ Route(n) \/ ConnFail(n)
    \/ List(n) \/ Recheck(n) \/ KillOwn(n) \/ ConnEnd(n)

OperatorStep ==
    \/ \E h \in Hosts, c \in Clients : OperatorUnpair(h, c)
    \/ \E c \in Clients : RevokeClient(c)
    \/ \E h \in Hosts : RevokeHost(h)
    \/ \E j \in jobs : DoKill(j) \/ DoClose(j)

RelayNext ==
    \/ \E t \in Tunnels : TunnelStep(t)
    \/ \E n \in Conns : ConnStep(n)
    \/ \E p \in Plates : Expire(p)
    \/ OperatorStep \/ Stop \/ Restart

RelaySpec == RelayInit /\ [][RelayNext]_relayVars

-----------------------------------------------------------------------------
TunnelType == {NoTunnel} \cup [state : {"asked", "registered", "listed", "up", "over"},
                                host : Hosts, key : Keys, busy : Clients \cup {Nil}]
ConnType == {NoConn} \cup
            [state : {"asked", "admitted", "routed", "listed", "killing", "open", "over"},
             host : Hosts \cup {Nil}, client : Clients, plate : Plates \cup {Nil}]

\* Every variable holds values of its kind, and only a tunnel that is up has a
\* request of its host in hand, and only a registered host has pairings.
RelayTypeOK ==
    /\ registered \in [Hosts -> Keys \cup {Nil}]
    /\ pairings \subseteq Hosts \X Clients
    /\ plates \in [Plates -> Hosts \cup {Nil}]
    /\ banned \subseteq Keys \cup Clients
    /\ online \in [Hosts -> Tunnels \cup {Nil}]
    /\ tunnel \in [Tunnels -> TunnelType]
    /\ cancelled \subseteq Tunnels
    /\ conn \in [Conns -> ConnType]
    /\ killed \subseteq Conns
    /\ jobs \subseteq Job
    /\ stopping \in BOOLEAN
    /\ \A t \in Tunnels : tunnel[t].busy # Nil => tunnel[t].state = "up"
    /\ \A p \in pairings : registered[p[1]] # Nil

\* Somebody is about to kill the connections of a host and a device.
KillComing(h, c) ==
    \/ \E j \in jobs : j.do # "close" /\ j.host \in {Nil, h} /\ j.client \in {Nil, c}
    \/ \E t \in Tunnels : tunnel[t].host = h /\ tunnel[t].busy = c
    \/ \E n \in Conns : /\ conn[n].state = "killing"
                        /\ conn[n].host = h /\ conn[n].client = c

\* "A revocation that landed between the pairing check and the line above would
\* have missed this connection" (relay.rs:823): whoever removes a pairing, and
\* whenever, a device is let through only while it is paired with the host, or
\* the kill of its connection is on its way.
LetThroughPaired ==
    \A n \in Conns : conn[n].state = "open" /\ conn[n].plate = Nil /\ n \notin killed
        => \/ <<conn[n].host, conn[n].client>> \in pairings
           \/ KillComing(conn[n].host, conn[n].client)

\* "Every client connection closes with 1001" when the relay stops: none that was
\* on its way in when the others were closed stays.
StopClosesAll ==
    \A n \in Conns : stopping /\ conn[n].state = "open" /\ n \notin killed
        => KillComing(conn[n].host, conn[n].client)

\* A host that dials again before its last tunnel is noticed gone stays reachable:
\* its tunnel that is up and not closed is the one its clients are sent to, and a
\* host said to be online has a tunnel that is up.
OnlineReachable ==
    /\ \A t \in Tunnels : tunnel[t].state = "up" /\ t \notin cancelled
           => online[tunnel[t].host] = t
    /\ \A h \in Hosts : online[h] # Nil
           => tunnel[online[h]].state = "up" /\ tunnel[online[h]].host = h
=============================================================================
