-------------------------- MODULE RelayPhoneProofs --------------------------
(***************************************************************************)
(* What two components that share nothing promise: the relay's server, and *)
(* the phone contract.                                                     *)
(*                                                                         *)
(* Relay, for any hosts, devices, tunnels and connections: each invariant  *)
(* is inductive, given that variables hold values of their kind.           *)
(*                                                                         *)
(* Phone, whatever the phone, the host and its other clients do, for any   *)
(* number of chats, messages and requests, and any size of the broadcast   *)
(* channel: types, a chat's slot never held by nothing, each message run   *)
(* once, each request shown in all places or in none.                      *)
(***************************************************************************)
EXTENDS Relay, Phone, FiniteSetTheorems, SequenceTheorems, TLAPS

-----------------------------------------------------------------------------
(* The relay *)

\* Every variable of the relay holds values of its kind, and only registered
\* hosts have pairings.
THEOREM RelayTypes == RelaySpec => []RelayTypeOK
<1>1. RelayInit => RelayTypeOK
  <2> SUFFICES ASSUME RelayInit PROVE RelayTypeOK
    OBVIOUS
  <2>1. tunnel \in [Tunnels -> TunnelType]
    BY DEF RelayInit, TunnelType
  <2>3. conn \in [Conns -> ConnType]
    BY DEF RelayInit, ConnType
  <2>4. \A t \in Tunnels : tunnel[t].busy = Nil
    BY DEF RelayInit, NoTunnel
  <2> QED
    BY <2>1, <2>3, <2>4 DEF RelayInit, RelayTypeOK
<1>2. RelayTypeOK /\ [RelayNext]_relayVars => RelayTypeOK'
  <2> SUFFICES ASSUME RelayTypeOK, [RelayNext]_relayVars PROVE RelayTypeOK'
    OBVIOUS
  <2> USE NilIsNothing DEF RelayTypeOK, store
  <2>1. ASSUME NEW t \in Tunnels, TunnelStep(t) PROVE RelayTypeOK'
    <3>1. ASSUME NEW h \in Hosts, NEW k \in Keys, TunnelAsk(t, h, k) PROVE RelayTypeOK'
      BY <3>1 DEF TunnelAsk, TunnelType, NoTunnel
    <3>2. CASE Register(t)
      BY <3>2 DEF Register, ToTunnel, MayRegister, TunnelType, NoTunnel
    <3>3. CASE TellPairings(t)
      BY <3>3 DEF TellPairings, ToTunnel, TunnelType, NoTunnel
    <3>4. CASE TunnelUp(t)
      BY <3>4 DEF TunnelUp, ToTunnel, TunnelType, NoTunnel
    <3>5. CASE TunnelFail(t)
      BY <3>5 DEF TunnelFail, ToTunnel, TunnelType, NoTunnel
    <3>6. CASE TunnelLost(t)
      BY <3>6 DEF TunnelLost
    <3>7. CASE TunnelEnd(t)
      BY <3>7 DEF TunnelEnd, Offline, ToTunnel, TunnelType, NoTunnel
    <3>8. CASE KillUnpaired(t)
      BY <3>8 DEF KillUnpaired, Matching, Listed, TunnelType, NoTunnel
    <3>9. ASSUME NEW c \in Clients, SayPaired(t, c) PROVE RelayTypeOK'
      BY <3>9 DEF SayPaired, Asking, TunnelType, NoTunnel
    <3>10. ASSUME NEW c \in Clients, SayUnpair(t, c) PROVE RelayTypeOK'
      BY <3>10 DEF SayUnpair, Asking, TunnelType, NoTunnel
    <3>11. ASSUME NEW p \in Plates, SayHold(t, p) PROVE RelayTypeOK'
      BY <3>11 DEF SayHold, Asking, TunnelType, NoTunnel
    <3> QED
      BY <2>1, <3>1, <3>2, <3>3, <3>4, <3>5, <3>6, <3>7, <3>8, <3>9, <3>10, <3>11 DEF TunnelStep
  <2>2. ASSUME NEW n \in Conns, ConnStep(n) PROVE RelayTypeOK'
    <3> USE DEF ConnType, NoConn
    <3>1. ASSUME NEW h \in Hosts \cup {Nil}, NEW c \in Clients, NEW p \in Plates \cup {Nil},
                 ConnAsk(n, h, c, p)
          PROVE  RelayTypeOK'
      BY <3>1 DEF ConnAsk
    <3>2. CASE Admit(n)
      BY <3>2 DEF Admit, ToConn
    <3>3. CASE AdmitPairing(n)
      <4>1. conn[n] \in ConnType /\ conn[n] # NoConn /\ conn[n].plate # Nil
        BY <3>3 DEF AdmitPairing
      <4>2. plates[conn[n].plate] \in Hosts
        BY <3>3, <4>1 DEF AdmitPairing
      <4>3. \A h \in Hosts : [conn[n] EXCEPT !.state = "admitted", !.host = h] \in ConnType
        BY <4>1
      <4> QED
        BY <3>3, <4>2, <4>3 DEF AdmitPairing
    <3>4. CASE Route(n)
      BY <3>4 DEF Route, ToConn
    <3>5. CASE ConnFail(n)
      BY <3>5 DEF ConnFail, ToConn
    <3>6. CASE List(n)
      BY <3>6 DEF List, ToConn
    <3>7. CASE Recheck(n)
      BY <3>7 DEF Recheck, ToConn
    <3>8. CASE KillOwn(n)
      BY <3>8 DEF KillOwn, ToConn, Matching, Listed
    <3>9. CASE ConnEnd(n)
      BY <3>9 DEF ConnEnd, ToConn
    <3> QED
      BY <2>2, <3>1, <3>2, <3>3, <3>4, <3>5, <3>6, <3>7, <3>8, <3>9 DEF ConnStep
  <2>3. ASSUME NEW p \in Plates, Expire(p) PROVE RelayTypeOK'
    BY <2>3 DEF Expire
  <2>4. CASE OperatorStep
    <3> USE DEF Job
    <3>1. ASSUME NEW h \in Hosts, NEW c \in Clients, OperatorUnpair(h, c) PROVE RelayTypeOK'
      BY <3>1 DEF OperatorUnpair, KillJob
    <3>2. ASSUME NEW c \in Clients, RevokeClient(c) PROVE RelayTypeOK'
      BY <3>2 DEF RevokeClient, KillJob
    <3>3. ASSUME NEW h \in Hosts, RevokeHost(h) PROVE RelayTypeOK'
      BY <3>3 DEF RevokeHost, OthersPairings, RevokeJob
    <3>4. ASSUME NEW j \in jobs, DoKill(j) PROVE RelayTypeOK'
      BY <3>4 DEF DoKill, Kills, Matching, Listed, CloseJob
    <3>5. ASSUME NEW j \in jobs, DoClose(j) PROVE RelayTypeOK'
      <4>1. online[j.host] \in Tunnels \cup {Nil}
        BY <3>5 DEF DoClose
      <4> QED
        BY <3>5, <4>1 DEF DoClose
    <3> QED
      BY <2>4, <3>1, <3>2, <3>3, <3>4, <3>5 DEF OperatorStep
  <2>5. CASE Stop
    BY <2>5 DEF Stop, KillJob, Job
  <2>6. CASE Restart
    <3>1. \A t \in Tunnels : tunnel'[t] \in TunnelType /\ tunnel'[t].busy = Nil
      BY <2>6 DEF Restart, TunnelType, NoTunnel
    <3>2. tunnel' \in [Tunnels -> TunnelType]
      BY <2>6, <3>1 DEF Restart
    <3>3. \A n \in Conns : conn'[n] \in ConnType
      BY <2>6 DEF Restart, ConnType, NoConn
    <3>4. conn' \in [Conns -> ConnType]
      BY <2>6, <3>3 DEF Restart
    <3> QED
      BY <2>6, <3>1, <3>2, <3>4 DEF Restart
  <2>7. CASE UNCHANGED relayVars
    BY <2>7 DEF relayVars
  <2> QED
    BY <2>1, <2>2, <2>3, <2>4, <2>5, <2>6, <2>7 DEF RelayNext
<1> QED
  BY <1>1, <1>2, PTL DEF RelaySpec

\* A device is let through only while it is paired with the host, or the kill of
\* its connection is on its way, whoever removed the pairing and whenever.
THEOREM DevicesPaired == RelaySpec => []LetThroughPaired
<1>1. RelayInit => LetThroughPaired
  BY DEF RelayInit, LetThroughPaired, NoConn
<1>2. RelayTypeOK /\ LetThroughPaired /\ [RelayNext]_relayVars => LetThroughPaired'
  <2> SUFFICES ASSUME RelayTypeOK, LetThroughPaired, [RelayNext]_relayVars, NEW n \in Conns,
                      (conn[n].state = "open" /\ conn[n].plate = Nil /\ n \notin killed)'
               PROVE  (\/ <<conn[n].host, conn[n].client>> \in pairings
                       \/ KillComing(conn[n].host, conn[n].client))'
    BY DEF LetThroughPaired
  <2> DEFINE Safe == \/ <<conn[n].host, conn[n].client>> \in pairings
                     \/ KillComing(conn[n].host, conn[n].client)
  <2> USE NilIsNothing DEF RelayTypeOK, LetThroughPaired, KillComing, store
  <2>1. ASSUME NEW t \in Tunnels, TunnelStep(t) PROVE Safe'
    <3>1. ASSUME NEW h \in Hosts, NEW k \in Keys, TunnelAsk(t, h, k) PROVE Safe'
      BY <3>1 DEF TunnelAsk, NoTunnel, ConnType, NoConn
    <3>2. CASE Register(t)
      BY <3>2 DEF Register, ToTunnel
    <3>3. CASE TellPairings(t)
      BY <3>3 DEF TellPairings, ToTunnel
    <3>4. CASE TunnelUp(t)
      BY <3>4 DEF TunnelUp, ToTunnel
    <3>5. CASE TunnelFail(t)
      BY <3>5 DEF TunnelFail, ToTunnel
    <3>6. CASE TunnelLost(t)
      BY <3>6 DEF TunnelLost
    <3>7. CASE TunnelEnd(t)
      BY <3>7 DEF TunnelEnd, ToTunnel
    <3>8. CASE KillUnpaired(t)
      BY <3>8 DEF KillUnpaired, Matching, Listed
    <3>9. ASSUME NEW c \in Clients, SayPaired(t, c) PROVE Safe'
      BY <3>9 DEF SayPaired
    <3>10. ASSUME NEW c \in Clients, SayUnpair(t, c) PROVE Safe'
      <4>1. Safe /\ conn' = conn /\ tunnel[t].busy = Nil /\ c # Nil
        BY <3>10 DEF SayUnpair, Asking
      <4>2. \A u \in Tunnels : u # t => tunnel'[u] = tunnel[u]
        BY <3>10 DEF SayUnpair
      <4>3. tunnel'[t].host = tunnel[t].host /\ tunnel'[t].busy = c
        BY <3>10 DEF SayUnpair, TunnelType, NoTunnel
      <4>4. CASE conn[n].host = tunnel[t].host /\ conn[n].client = c
        BY <4>1, <4>3, <4>4
      <4>5. CASE ~(conn[n].host = tunnel[t].host /\ conn[n].client = c)
        BY <3>10, <4>1, <4>2, <4>3, <4>5 DEF SayUnpair, ConnType, NoConn
      <4> QED
        BY <4>4, <4>5
    <3>11. ASSUME NEW p \in Plates, SayHold(t, p) PROVE Safe'
      BY <3>11 DEF SayHold
    <3> QED
      BY <2>1, <3>1, <3>2, <3>3, <3>4, <3>5, <3>6, <3>7, <3>8, <3>9, <3>10, <3>11 DEF TunnelStep
  <2>2. ASSUME NEW m \in Conns, ConnStep(m) PROVE Safe'
    <3> USE DEF ConnType, NoConn
    <3>1. ASSUME NEW h \in Hosts \cup {Nil}, NEW c \in Clients,
                 NEW p \in Plates \cup {Nil}, ConnAsk(m, h, c, p) PROVE Safe'
      BY <3>1 DEF ConnAsk
    <3>2. CASE Admit(m)
      BY <3>2 DEF Admit, ToConn
    <3>3. CASE AdmitPairing(m)
      BY <3>3 DEF AdmitPairing
    <3>4. CASE Route(m)
      BY <3>4 DEF Route, ToConn
    <3>5. CASE ConnFail(m)
      BY <3>5 DEF ConnFail, ToConn
    <3>6. CASE List(m)
      BY <3>6 DEF List, ToConn
    <3>7. CASE Recheck(m)
      BY <3>7 DEF Recheck, NotPaired, ToConn
    <3>8. CASE KillOwn(m)
      BY <3>8 DEF KillOwn, ToConn, Matching, Listed
    <3>9. CASE ConnEnd(m)
      BY <3>9 DEF ConnEnd, ToConn
    <3> QED
      BY <2>2, <3>1, <3>2, <3>3, <3>4, <3>5, <3>6, <3>7, <3>8, <3>9 DEF ConnStep
  <2>3. ASSUME NEW p \in Plates, Expire(p) PROVE Safe'
    BY <2>3 DEF Expire
  <2>4. CASE OperatorStep
    <3> USE DEF Job
    <3>1. ASSUME NEW h \in Hosts, NEW c \in Clients, OperatorUnpair(h, c) PROVE Safe'
      <4>1. Safe /\ conn' = conn
        BY <3>1 DEF OperatorUnpair
      <4>2. CASE conn[n].host = h /\ conn[n].client = c
        BY <3>1, <4>1, <4>2, KillJob(h, c) \in jobs' DEF OperatorUnpair, KillJob
      <4>3. CASE ~(conn[n].host = h /\ conn[n].client = c)
        BY <3>1, <4>1, <4>3 DEF OperatorUnpair
      <4> QED
        BY <4>2, <4>3
    <3>2. ASSUME NEW c \in Clients, RevokeClient(c) PROVE Safe'
      <4>1. Safe /\ conn' = conn
        BY <3>2 DEF RevokeClient
      <4>2. CASE conn[n].client = c
        BY <3>2, <4>1, <4>2, KillJob(Nil, c) \in jobs' DEF RevokeClient, KillJob
      <4>3. CASE conn[n].client # c
        BY <3>2, <4>1, <4>3 DEF RevokeClient
      <4> QED
        BY <4>2, <4>3
    <3>3. ASSUME NEW h \in Hosts, RevokeHost(h) PROVE Safe'
      <4>1. Safe /\ conn' = conn
        BY <3>3 DEF RevokeHost
      <4>2. CASE conn[n].host = h
        BY <3>3, <4>1, <4>2, RevokeJob(h) \in jobs' DEF RevokeHost, OthersPairings, RevokeJob
      <4>3. CASE conn[n].host # h
        BY <3>3, <4>1, <4>3 DEF RevokeHost, OthersPairings
      <4> QED
        BY <4>2, <4>3
    <3>4. ASSUME NEW j \in jobs, DoKill(j) PROVE Safe'
      BY <3>4 DEF DoKill, Kills, Matching, Listed
    <3>5. ASSUME NEW j \in jobs, DoClose(j) PROVE Safe'
      BY <3>5 DEF DoClose
    <3> QED
      BY <2>4, <3>1, <3>2, <3>3, <3>4, <3>5 DEF OperatorStep
  <2>5. CASE Stop
    BY <2>5 DEF Stop
  <2>6. CASE Restart
    <3>1. conn'[n].state \in {"none", "over"}
      <4>1. CASE conn[n] = NoConn
        <5>1. conn'[n] = NoConn
          BY <2>6, <4>1 DEF Restart
        <5> QED
          BY <5>1 DEF NoConn
      <4>2. CASE conn[n] # NoConn
        <5>1. conn'[n] = [conn[n] EXCEPT !.state = "over"]
          BY <2>6, <4>2 DEF Restart
        <5>2. conn[n] \in ConnType \ {NoConn}
          BY <4>2
        <5> QED
          BY <5>1, <5>2 DEF ConnType
      <4> QED
        BY <4>1, <4>2
    <3> QED
      BY <3>1
  <2>7. CASE UNCHANGED relayVars
    BY <2>7 DEF relayVars
  <2> QED
    BY <2>1, <2>2, <2>3, <2>4, <2>5, <2>6, <2>7 DEF RelayNext
<1> QED
  BY <1>1, <1>2, RelayTypes, PTL DEF RelaySpec

\* Nothing that was on its way in when the relay stopped stays.
THEOREM StopCloses == RelaySpec => []StopClosesAll
<1>1. RelayInit => StopClosesAll
  BY DEF RelayInit, StopClosesAll
<1>2. RelayTypeOK /\ StopClosesAll /\ [RelayNext]_relayVars => StopClosesAll'
  <2> SUFFICES ASSUME RelayTypeOK, StopClosesAll, [RelayNext]_relayVars, NEW n \in Conns,
                      (stopping /\ conn[n].state = "open" /\ n \notin killed)'
               PROVE  KillComing(conn[n].host, conn[n].client)'
    BY DEF StopClosesAll
  <2> DEFINE Coming == KillComing(conn[n].host, conn[n].client)
  <2> USE NilIsNothing DEF RelayTypeOK, StopClosesAll, KillComing, store
  <2>1. ASSUME NEW t \in Tunnels, TunnelStep(t) PROVE Coming'
    <3>1. ASSUME NEW h \in Hosts, NEW k \in Keys, TunnelAsk(t, h, k) PROVE Coming'
      BY <3>1 DEF TunnelAsk
    <3>2. CASE Register(t)
      BY <3>2 DEF Register, ToTunnel
    <3>3. CASE TellPairings(t)
      BY <3>3 DEF TellPairings, ToTunnel
    <3>4. CASE TunnelUp(t)
      BY <3>4 DEF TunnelUp, ToTunnel
    <3>5. CASE TunnelFail(t)
      BY <3>5 DEF TunnelFail, ToTunnel
    <3>6. CASE TunnelLost(t)
      BY <3>6 DEF TunnelLost
    <3>7. CASE TunnelEnd(t)
      BY <3>7 DEF TunnelEnd, ToTunnel
    <3>8. CASE KillUnpaired(t)
      BY <3>8 DEF KillUnpaired, Matching, Listed
    <3>9. ASSUME NEW c \in Clients, SayPaired(t, c) PROVE Coming'
      BY <3>9 DEF SayPaired
    <3>10. ASSUME NEW c \in Clients, SayUnpair(t, c) PROVE Coming'
      <4>1. Coming /\ conn' = conn /\ tunnel[t].busy = Nil
        BY <3>10 DEF SayUnpair, Asking
      <4>2. conn[n].client # Nil
        BY <3>10 DEF SayUnpair, ConnType, NoConn
      <4> QED
        BY <3>10, <4>1, <4>2 DEF SayUnpair
    <3>11. ASSUME NEW p \in Plates, SayHold(t, p) PROVE Coming'
      BY <3>11 DEF SayHold
    <3> QED
      BY <2>1, <3>1, <3>2, <3>3, <3>4, <3>5, <3>6, <3>7, <3>8, <3>9, <3>10, <3>11 DEF TunnelStep
  <2>2. ASSUME NEW m \in Conns, ConnStep(m) PROVE Coming'
    <3> USE DEF ConnType, NoConn
    <3>1. ASSUME NEW h \in Hosts \cup {Nil}, NEW c \in Clients,
                 NEW p \in Plates \cup {Nil}, ConnAsk(m, h, c, p) PROVE Coming'
      BY <3>1 DEF ConnAsk
    <3>2. CASE Admit(m)
      BY <3>2 DEF Admit, ToConn
    <3>3. CASE AdmitPairing(m)
      BY <3>3 DEF AdmitPairing
    <3>4. CASE Route(m)
      BY <3>4 DEF Route, ToConn
    <3>5. CASE ConnFail(m)
      BY <3>5 DEF ConnFail, ToConn
    <3>6. CASE List(m)
      BY <3>6 DEF List, ToConn
    <3>7. CASE Recheck(m)
      BY <3>7 DEF Recheck, ToConn
    <3>8. CASE KillOwn(m)
      BY <3>8 DEF KillOwn, ToConn, Matching, Listed
    <3>9. CASE ConnEnd(m)
      BY <3>9 DEF ConnEnd, ToConn
    <3> QED
      BY <2>2, <3>1, <3>2, <3>3, <3>4, <3>5, <3>6, <3>7, <3>8, <3>9 DEF ConnStep
  <2>3. ASSUME NEW p \in Plates, Expire(p) PROVE Coming'
    BY <2>3 DEF Expire
  <2>4. CASE OperatorStep
    <3> USE DEF Job
    <3>1. ASSUME NEW h \in Hosts, NEW c \in Clients, OperatorUnpair(h, c) PROVE Coming'
      BY <3>1 DEF OperatorUnpair
    <3>2. ASSUME NEW c \in Clients, RevokeClient(c) PROVE Coming'
      BY <3>2 DEF RevokeClient
    <3>3. ASSUME NEW h \in Hosts, RevokeHost(h) PROVE Coming'
      BY <3>3 DEF RevokeHost
    <3>4. ASSUME NEW j \in jobs, DoKill(j) PROVE Coming'
      BY <3>4 DEF DoKill, Kills, Matching, Listed
    <3>5. ASSUME NEW j \in jobs, DoClose(j) PROVE Coming'
      BY <3>5 DEF DoClose
    <3> QED
      BY <2>4, <3>1, <3>2, <3>3, <3>4, <3>5 DEF OperatorStep
  <2>5. CASE Stop
    BY <2>5, KillJob(Nil, Nil) \in jobs' DEF Stop, KillJob
  <2>6. CASE Restart
    BY <2>6 DEF Restart
  <2>7. CASE UNCHANGED relayVars
    BY <2>7 DEF relayVars
  <2> QED
    BY <2>1, <2>2, <2>3, <2>4, <2>5, <2>6, <2>7 DEF RelayNext
<1> QED
  BY <1>1, <1>2, RelayTypes, PTL DEF RelaySpec

\* A host's tunnel that is up and not closed is the one its devices are sent to,
\* however often the host dials and however late its old tunnels end.
THEOREM HostsReachable == RelaySpec => []OnlineReachable
<1>1. RelayInit => OnlineReachable
  BY DEF RelayInit, OnlineReachable, NoTunnel
<1>2. RelayTypeOK /\ OnlineReachable /\ [RelayNext]_relayVars => OnlineReachable'
  <2> SUFFICES ASSUME RelayTypeOK, OnlineReachable, [RelayNext]_relayVars
               PROVE  OnlineReachable'
    OBVIOUS
  <2> USE NilIsNothing DEF RelayTypeOK, OnlineReachable, store
  <2>1. ASSUME NEW t \in Tunnels, TunnelStep(t) PROVE OnlineReachable'
    <3> USE DEF TunnelType, NoTunnel
    <3>1. ASSUME NEW h \in Hosts, NEW k \in Keys, TunnelAsk(t, h, k) PROVE OnlineReachable'
      BY <3>1 DEF TunnelAsk
    <3>2. CASE Register(t)
      BY <3>2 DEF Register, ToTunnel
    <3>3. CASE TellPairings(t)
      BY <3>3 DEF TellPairings, ToTunnel
    <3>4. CASE TunnelUp(t)
      <4> DEFINE h == tunnel[t].host
      <4>1. h \in Hosts /\ online'[h] = t /\ tunnel'[t].state = "up" /\ tunnel'[t].host = h
        BY <3>4 DEF TunnelUp, ToTunnel
      <4>2. \A u \in Tunnels : u # t => tunnel'[u] = tunnel[u]
        BY <3>4 DEF TunnelUp, ToTunnel
      <4>3. \A g \in Hosts : g # h => online'[g] = online[g] /\ online[g] # t
        BY <3>4 DEF TunnelUp
      <4>4. \A u \in Tunnels : u \notin cancelled' => u \notin cancelled /\ u # online[h]
        BY <3>4 DEF TunnelUp
      <4> QED
        BY <4>1, <4>2, <4>3, <4>4
    <3>5. CASE TunnelFail(t)
      BY <3>5 DEF TunnelFail, ToTunnel
    <3>6. CASE TunnelLost(t)
      BY <3>6 DEF TunnelLost
    <3>7. CASE TunnelEnd(t)
      BY <3>7 DEF TunnelEnd, Offline, ToTunnel
    <3>8. CASE KillUnpaired(t)
      BY <3>8 DEF KillUnpaired
    <3>9. ASSUME NEW c \in Clients, SayPaired(t, c) PROVE OnlineReachable'
      BY <3>9 DEF SayPaired
    <3>10. ASSUME NEW c \in Clients, SayUnpair(t, c) PROVE OnlineReachable'
      BY <3>10 DEF SayUnpair
    <3>11. ASSUME NEW p \in Plates, SayHold(t, p) PROVE OnlineReachable'
      BY <3>11 DEF SayHold
    <3> QED
      BY <2>1, <3>1, <3>2, <3>3, <3>4, <3>5, <3>6, <3>7, <3>8, <3>9, <3>10, <3>11 DEF TunnelStep
  <2>2. ASSUME NEW n \in Conns, ConnStep(n) PROVE OnlineReachable'
    BY <2>2 DEF ConnStep, ConnAsk, Admit, AdmitPairing, Route, ConnFail, List, Recheck,
                KillOwn, ConnEnd
  <2>3. ASSUME NEW p \in Plates, Expire(p) PROVE OnlineReachable'
    BY <2>3 DEF Expire
  <2>4. CASE OperatorStep
    BY <2>4 DEF OperatorStep, OperatorUnpair, RevokeClient, RevokeHost, DoKill, DoClose
  <2>5. CASE Stop
    BY <2>5 DEF Stop
  <2>6. CASE Restart
    <3>1. ASSUME NEW t \in Tunnels PROVE tunnel'[t].state \in {"none", "over"}
      <4>1. CASE tunnel[t] = NoTunnel
        <5>1. tunnel'[t] = NoTunnel
          BY <2>6, <4>1 DEF Restart
        <5> QED
          BY <5>1 DEF NoTunnel
      <4>2. CASE tunnel[t] # NoTunnel
        <5>1. tunnel'[t] = [tunnel[t] EXCEPT !.state = "over", !.busy = Nil]
          BY <2>6, <4>2 DEF Restart
        <5>2. tunnel[t] \in TunnelType \ {NoTunnel}
          BY <4>2
        <5> QED
          BY <5>1, <5>2 DEF TunnelType
      <4> QED
        BY <4>1, <4>2
    <3> QED
      BY <2>6, <3>1 DEF Restart
  <2>7. CASE UNCHANGED relayVars
    BY <2>7 DEF relayVars
  <2> QED
    BY <2>1, <2>2, <2>3, <2>4, <2>5, <2>6, <2>7 DEF RelayNext
<1> QED
  BY <1>1, <1>2, RelayTypes, PTL DEF RelaySpec

-----------------------------------------------------------------------------
(* The phone contract: the inductive invariant *)

\* A message that waits or is being started has its chat, and so does a request.
ChatOK ==
    /\ \A f \in Frames : task[f] \in {"queued", "begin", "prompt", "next"} => chat[f] \in Chats
    /\ \A q \in Asks : asked[q].is # "none" => asked[q].chat \in Chats

\* What waits on a chat waits there, and once.
QueuedOK ==
    \A c \in Chats : \A i \in 1..Len(queued[c]) :
       /\ task[queued[c][i]] = "queued" /\ chat[queued[c][i]] = c
       /\ \A j \in 1..Len(queued[c]) : i # j => queued[c][i] # queued[c][j]

\* Nothing is told of a frame not sent; of one whose turn runs, something.
ToldOK ==
    /\ \A f \in Frames : task[f] = "none" => told[f] = "nothing"
    /\ \A c \in Chats : \A f \in Going(c) \cap Frames : told[f] # "nothing"

\* An event that waits is of a turn that began, and names a request if it is
\* about one.
HeardOK ==
    \A i \in 1..Len(events) :
       /\ events[i].turn \in Frames => told[events[i].turn] # "nothing"
       /\ events[i].ask \in Asks <=> events[i].is \in {"added", "resolved"}

\* A request the contract is behind about: the events that wait bring it to
\* where the request is.
Nowhere(q) == q \notin words \cup inbox \cup notices
Silence(q) == \A i \in 1..Len(events) : events[i].ask # q
At(q, is) == {i \in 1..Len(events) : events[i].is = is /\ events[i].ask = q}
AskOK(q) ==
    /\ asked[q].is = "none" => Nowhere(q) /\ Silence(q)
    /\ asked[q].is = "pending" => /\ At(q, "resolved") = {}
                                  /\ At(q, "added") # {} \/ (q \in words /\ q \in inbox)
    /\ asked[q].is = "resolved" =>
          \/ Nowhere(q) /\ Silence(q)
          \/ \E i \in At(q, "resolved") : \A j \in At(q, "added") : j < i
AsksOK == behind \/ \A q \in Asks : AskOK(q)

PhoneInv == PhoneTypeOK /\ SlotIsBusy /\ ChatOK /\ QueuedOK /\ ToldOK /\ HeardOK /\ AsksOK

\* A frame whose message is being served or was: one per message, if each is sent
\* again only while it is remembered.
Taken(f) == task[f] \notin {"none", "done"} \/ told[f] # "nothing"
OnceOK == \A f, g \in Frames : f # g /\ MessageOf[f] = MessageOf[g] => ~(Taken(f) /\ Taken(g))
InTime ==
    \A f \in Frames : task[f] = "none" /\ task'[f] # "none" =>
       \/ MessageOf[f] \in ToSet(seen)
       \/ \A g \in Frames \ {f} : MessageOf[g] = MessageOf[f] => task[g] = "none"

-----------------------------------------------------------------------------
(* What is broadcast *)

\* An event of its kind: of a chat, and of a request if it is about one.
EventOK(e) == e \in Event /\ (e.ask \in Asks <=> e.is \in {"added", "resolved"})

\* What waits after more is broadcast was there or is new, and nothing is lost
\* or out of order unless the contract is behind.
LEMMA EmitSays ==
  ASSUME PhoneTypeOK, NEW more \in Seq(Event), Emit(more)
  PROVE  /\ events' \in Seq(Event) /\ behind' \in BOOLEAN
         /\ behind => behind'
         /\ \A j \in 1..Len(events') : \/ \E i \in 1..Len(events) : events'[j] = events[i]
                                       \/ \E i \in 1..Len(more) : events'[j] = more[i]
         /\ ~behind' => /\ Len(events') = Len(events) + Len(more)
                        /\ \A i \in 1..Len(events) : events'[i] = events[i]
                        /\ \A i \in 1..Len(more) : events'[Len(events) + i] = more[i]
  <1> DEFINE all  == events \o more
             over == Len(all) - EventRoom
  <1>1. /\ events \in Seq(Event) /\ behind \in BOOLEAN
        /\ Len(events) \in Nat /\ Len(more) \in Nat /\ EventRoom \in Nat
    BY LenProperties, PhoneBounds DEF PhoneTypeOK, PhoneBounds
  <1>2. /\ all \in Seq(Event) /\ Len(all) = Len(events) + Len(more)
        /\ \A i \in 1..Len(events) : all[i] = events[i]
        /\ \A i \in 1..Len(more) : all[Len(events) + i] = more[i]
    BY <1>1, ConcatProperties
  <1>3. \A j \in 1..Len(all) : \/ \E i \in 1..Len(events) : all[j] = events[i]
                               \/ \E i \in 1..Len(more) : all[j] = more[i]
    <2> SUFFICES ASSUME NEW j \in 1..Len(all), j \notin 1..Len(events)
                 PROVE  \E i \in 1..Len(more) : all[j] = more[i]
      BY <1>2
    <2>1. j - Len(events) \in 1..Len(more) /\ Len(events) + (j - Len(events)) = j
      BY <1>1, <1>2
    <2> HIDE DEF all
    <2> QED
      BY <1>2, <2>1
  <1>4. events' = (IF over > 0 THEN SubSeq(all, over + 1, Len(all)) ELSE all)
        /\ behind' = (behind \/ over > 0)
    BY DEF Emit
  <1> HIDE DEF all
  <1>5. CASE over > 0
    <2>1. over \in Nat /\ over + 1 \in 1..Len(all)
      BY <1>1, <1>2, <1>5, PhoneBounds DEF PhoneBounds
    <2>2. \A i \in (over + 1)..Len(all) : all[i] \in Event
      BY <1>1, <1>2, <2>1, ElementOfSeq
    <2>3. /\ events' \in Seq(Event) /\ Len(events') = Len(all) - over
          /\ \A i \in 1..(Len(all) - over) : events'[i] = all[over + i]
      <3>1. events' = SubSeq(all, over + 1, Len(all))
        BY <1>4, <1>5
      <3>2. Len(all) \in Nat /\ over + 1 <= Len(all) + 1 /\ Len(all) - (over + 1) + 1 = Len(all) - over
        BY <1>1, <1>2, <2>1
      <3>3. /\ events' \in Seq(Event)
            /\ Len(events') = Len(all) - (over + 1) + 1
            /\ \A i \in 1..(Len(all) - (over + 1) + 1) : events'[i] = all[over + 1 + i - 1]
        BY <2>1, <2>2, <3>1, <3>2, SubSeqProperties
      <3>4. \A i \in 1..(Len(all) - over) : over + 1 + i - 1 = over + i
        BY <2>1
      <3> QED
        BY <3>2, <3>3, <3>4
    <2>4. \A i \in 1..(Len(all) - over) : over + i \in 1..Len(all)
      BY <1>1, <1>2, <2>1
    <2>5. behind' = TRUE
      BY <1>1, <1>4, <1>5
    <2>6. ASSUME NEW j \in 1..Len(events')
          PROVE  \/ \E i \in 1..Len(events) : events'[j] = events[i]
                 \/ \E i \in 1..Len(more) : events'[j] = more[i]
      <3>1. j \in 1..(Len(all) - over) /\ events'[j] = all[over + j] /\ over + j \in 1..Len(all)
        BY <2>3, <2>4, <2>6
      <3> QED
        BY <1>3, <3>1
    <2> QED
      BY <2>3, <2>5, <2>6
  <1>6. CASE ~(over > 0)
    BY <1>1, <1>2, <1>3, <1>4, <1>6
  <1> QED
    BY <1>5, <1>6

\* A finite set put in order has its members, and only them.
LEMMA InOrder ==
  ASSUME NEW S, IsFiniteSet(S)
  PROVE  /\ Cardinality(S) \in Nat
         /\ SetToSeq(S) \in [1..Cardinality(S) -> S]
         /\ \A x \in S : \E i \in 1..Cardinality(S) : SetToSeq(S)[i] = x
  <1> DEFINE n == Cardinality(S)
  <1>1. n \in Nat /\ ExistsBijection(1..n, S)
    BY FS_CardinalityType
  <1>2. PICK f \in [1..n -> S] : IsInjective(f)
    BY <1>1 DEF ExistsBijection, Bijection, Injection
  <1>3. SetToSeq(S) \in Injection(1..n, S)
    BY <1>2 DEF SetToSeq, Injection
  <1>4. IsFiniteSet(1..n) /\ Cardinality(1..n) = n
    BY <1>1, FS_Interval
  <1>5. SetToSeq(S) \in Surjection(1..n, S)
    BY <1>3, <1>4, FS_Injection
  <1> QED
    BY <1>1, <1>3, <1>5 DEF Surjection, Injection

\* Each of these requests is told resolved, and nothing else is told.
LEMMA ResolvedSays ==
  ASSUME PhoneTypeOK, ChatOK, NEW qs \in SUBSET Asks, \A q \in qs : asked[q].is # "none"
  PROVE  /\ ResolvedEvents(qs) \in Seq(Event) /\ Len(ResolvedEvents(qs)) \in Nat
         /\ \A i \in 1..Len(ResolvedEvents(qs)) :
              \E q \in qs : /\ ResolvedEvents(qs)[i] = OfAsk("resolved", q)
                            /\ OfAsk("resolved", q) \in Event
         /\ \A q \in qs : \E i \in 1..Len(ResolvedEvents(qs)) :
              ResolvedEvents(qs)[i] = OfAsk("resolved", q)
  <1> DEFINE order == SetToSeq(qs)
             n     == Cardinality(qs)
             e(i)  == OfAsk("resolved", order[i])
  <1>1. IsFiniteSet(qs)
    BY FS_Subset, PhoneBounds DEF PhoneBounds
  <1>2. /\ n \in Nat /\ order \in [1..n -> qs]
        /\ \A q \in qs : \E i \in 1..n : order[i] = q
    BY <1>1, InOrder
  <1>3. \A q \in qs : OfAsk("resolved", q) \in Event
    BY DEF ChatOK, OfAsk, OfChat, Event
  <1>4. Len(order) = n
    <2>1. order \in Seq(qs)
      BY <1>2, SeqDef
    <2> QED
      BY <1>2, <2>1, LenProperties
  <1>5. \A i \in 1..n : e(i) \in Event
    BY <1>2, <1>3
  <1>6. ResolvedEvents(qs) = [i \in 1..n |-> e(i)]
    BY <1>4 DEF ResolvedEvents
  <1> HIDE DEF e, order
  <1>7. [i \in 1..n |-> e(i)] \in Seq(Event) /\ Len([i \in 1..n |-> e(i)]) = n
    BY <1>2, <1>5, IsASeq, LenProperties
  <1> QED
    BY <1>2, <1>3, <1>6, <1>7 DEF e, order


-----------------------------------------------------------------------------
(* Steps of frames *)

\* Nothing is broadcast and no request resolved: the requests stay as they are.
LEMMA AsksStay ==
  ASSUME AsksOK, UNCHANGED <<asked, events, behind, words, inbox>>, notices' \subseteq notices
  PROVE  AsksOK'
  BY DEF AsksOK, AskOK, Nowhere, Silence, At

\* Who was told something was told.
LEMMA HeardStays ==
  ASSUME HeardOK, UNCHANGED events, \A f \in Frames : told[f] # "nothing" => told'[f] # "nothing"
  PROVE  HeardOK'
  BY DEF HeardOK

LEMMA TypeFacts ==
  ASSUME PhoneTypeOK
  PROVE  /\ events \in Seq(Event) /\ Len(events) \in Nat
         /\ \A i \in 1..Len(events) : events[i] \in Event
         /\ \A c \in Chats : /\ queued[c] \in Seq(Frames) /\ Len(queued[c]) \in Nat
                             /\ \A i \in 1..Len(queued[c]) : queued[c][i] \in Frames
         /\ None \notin Chats /\ None \notin Turns /\ None \notin Frames /\ None \notin Asks
         /\ Frames \subseteq Turns
  BY LenProperties, ElementOfSeq, PhoneBounds DEF PhoneTypeOK, PhoneBounds, Turns

\* Nor does a turn begin or go.
LEMMA GoingStays ==
  ASSUME UNCHANGED <<turn, left>>
  PROVE  \A c \in Chats : Going(c)' = Going(c)
  BY DEF Going

\* A frame the phone sends changes nothing else.
LEMMA InboundKeeps ==
  ASSUME PhoneInv, NEW f \in Frames, Inbound(f)
  PROVE  PhoneInv'
  <1>1. /\ task[f] = "none" /\ spent' = spent + 1 /\ spent < Budget
        /\ UNCHANGED <<hosted, open, turn, left, cut, asked, record, events, behind>>
        /\ UNCHANGED <<running, queued, chat, tools, notices, words, inbox, told, shown>>
    BY DEF Inbound, Sends, Input, streamVars, askVars, phoneVars
  <1>2. \/ task' = [task EXCEPT ![f] = "chat"] /\ FirstTime(f) /\ Remember(f)
        \/ task' = [task EXCEPT ![f] = "done"] /\ UNCHANGED seen
    BY DEF Inbound
  <1>3. /\ task' \in [Frames -> {"none", "chat", "queued", "begin", "prompt", "next", "done"}]
        /\ \A g \in Frames : g # f => task'[g] = task[g]
        /\ task'[f] \in {"chat", "done"}
    BY <1>2 DEF PhoneInv, PhoneTypeOK
  <1>4. seen' \in Seq(Frames) /\ Len(seen') <= SeenLimit
    <2>1. CASE UNCHANGED seen
      BY <2>1 DEF PhoneInv, PhoneTypeOK
    <2>2. CASE Remember(f)
      <3> DEFINE all == Append(seen, MessageOf[f])
      <3>1. MessageOf[f] \in Frames /\ seen \in Seq(Frames) /\ SeenLimit \in Nat \ {0}
        BY PhoneBounds DEF PhoneBounds, PhoneInv, PhoneTypeOK
      <3>2. all \in Seq(Frames) /\ Len(all) = Len(seen) + 1 /\ Len(seen) \in Nat /\ Len(seen) <= SeenLimit
        BY <3>1, AppendProperties, LenProperties DEF PhoneInv, PhoneTypeOK
      <3>3. Tail(all) \in Seq(Frames) /\ Len(Tail(all)) = Len(all) - 1
        <4>1. all # <<>>
          BY <3>1, AppendProperties
        <4> QED
          BY <3>2, <4>1, HeadTailProperties
      <3>4. seen' = IF Len(all) > SeenLimit THEN Tail(all) ELSE all
        BY <2>2 DEF Remember
      <3> HIDE DEF all
      <3> QED
        BY <3>1, <3>2, <3>3, <3>4
    <2> QED
      BY <1>2, <2>1, <2>2
  <1>5. PhoneTypeOK'
    BY <1>1, <1>3, <1>4, PhoneBounds DEF PhoneBounds, PhoneInv, PhoneTypeOK
  <1>6. SlotIsBusy'
    <2>1. \A d \in Chats : Starting(d) \subseteq Starting(d)'
      BY <1>1, <1>3 DEF Starting
    <2>2. \A d \in Chats : EndComing(d)' <=> EndComing(d)
      BY <1>1 DEF EndComing
    <2> QED
      BY <1>1, <2>1, <2>2, GoingStays DEF PhoneInv, PhoneTypeOK, SlotIsBusy
  <1>7. ChatOK'
    BY <1>1, <1>3 DEF PhoneInv, ChatOK
  <1>8. QueuedOK'
    BY <1>1, <1>3, TypeFacts DEF PhoneInv, QueuedOK
  <1>9. ToldOK'
    <2>1. \A g \in Frames : task'[g] = "none" => told'[g] = "nothing"
      BY <1>1, <1>3 DEF PhoneInv, ToldOK
    <2>2. \A c \in Chats : \A g \in Going(c)' \cap Frames : told'[g] # "nothing"
      BY <1>1, GoingStays DEF PhoneInv, ToldOK
    <2> QED
      BY <2>1, <2>2 DEF ToldOK
  <1> QED
    BY <1>1, <1>5, <1>6, <1>7, <1>8, <1>9, AsksStay, HeardStays DEF PhoneInv

\* What keeps ToldOK: who was told something was told, and a turn that begins is
\* of a frame told so.
LEMMA ToldStays ==
  ASSUME ToldOK,
         \A g \in Frames : told[g] # "nothing" => told'[g] # "nothing",
         \A g \in Frames : task'[g] = "none" => told'[g] = told[g] /\ task[g] = "none",
         \A c \in Chats : \A g \in Going(c)' \cap Frames : g \in Going(c) \/ told'[g] # "nothing"
  PROVE  ToldOK'
  <1>1. \A f \in Frames : task'[f] = "none" => told'[f] = "nothing"
    BY DEF ToldOK
  <1>2. \A c \in Chats : \A g \in Going(c)' \cap Frames : told'[g] # "nothing"
    BY DEF ToldOK
  <1> QED
    BY <1>1, <1>2 DEF ToldOK

\* Nothing is told of frames, and no turn begins.
LEMMA ToldSame ==
  ASSUME ToldOK, UNCHANGED <<task, told>>,
         \A c \in Chats : Going(c)' \subseteq Going(c)
  PROVE  ToldOK'
  BY ToldStays

\* Nor does a queue that stays as it is, with its frames.
LEMMA QueuedSame ==
  ASSUME QueuedOK, PhoneTypeOK, UNCHANGED queued,
         \A f \in Frames : task[f] = "queued" => task'[f] = "queued" /\ chat'[f] = chat[f]
  PROVE  QueuedOK'
  BY TypeFacts DEF QueuedOK

LEMMA ChatRefusedKeeps ==
  ASSUME PhoneInv, NEW f \in Frames, ChatRefused(f)
  PROVE  PhoneInv'
  <1>1. /\ task[f] = "chat"
        /\ task' = [task EXCEPT ![f] = "done"]
        /\ told' = [told EXCEPT ![f] = "error"]
        /\ UNCHANGED <<hosted, open, turn, left, cut, spent, asked, record, events, behind, seen>>
        /\ UNCHANGED <<running, queued, chat, tools, notices, words, inbox, shown>>
    BY DEF ChatRefused, Tell, hostVars, streamVars, askVars
  <1>2. PhoneTypeOK'
    BY <1>1 DEF PhoneInv, PhoneTypeOK
  <1>3. SlotIsBusy'
    <2>1. \A d \in Chats : Starting(d) \subseteq Starting(d)'
      BY <1>1 DEF Starting, PhoneInv, PhoneTypeOK
    <2>2. \A d \in Chats : EndComing(d)' <=> EndComing(d)
      BY <1>1 DEF EndComing
    <2> QED
      BY <1>1, <2>1, <2>2, GoingStays DEF PhoneInv, PhoneTypeOK, SlotIsBusy
  <1>4. ChatOK'
    BY <1>1 DEF PhoneInv, PhoneTypeOK, ChatOK
  <1>5. QueuedOK'
    BY <1>1, QueuedSame DEF PhoneInv, PhoneTypeOK
  <1>6. ToldOK'
    BY <1>1, GoingStays, ToldStays DEF PhoneInv, PhoneTypeOK
  <1>7. HeardOK'
    BY <1>1, HeardStays DEF PhoneInv, PhoneTypeOK
  <1> QED
    BY <1>1, <1>2, <1>3, <1>4, <1>5, <1>6, <1>7, AsksStay DEF PhoneInv

\* A frame takes the slot of its chat, or waits behind who has it.
LEMMA PlaceKeeps ==
  ASSUME PhoneInv, NEW f \in Frames, NEW c \in Chats, task[f] = "chat", Place(f, c),
         chat' = [chat EXCEPT ![f] = c], open' \subseteq hosted,
         UNCHANGED <<hosted, turn, left, cut, spent, asked, record, events, behind, seen>>,
         UNCHANGED <<tools, notices, words, inbox, shown>>
  PROVE  PhoneInv'
  <1>1. \/ /\ c \in running /\ UNCHANGED running
           /\ queued' = [queued EXCEPT ![c] = Append(@, f)]
           /\ task' = [task EXCEPT ![f] = "queued"]
           /\ told' = [told EXCEPT ![f] = "queued"]
        \/ /\ c \notin running /\ running' = running \cup {c}
           /\ task' = [task EXCEPT ![f] = "begin"]
           /\ UNCHANGED <<queued, told>>
    BY DEF Place, Tell
  <1>2. /\ queued[c] \in Seq(Frames) /\ Append(queued[c], f) \in Seq(Frames)
        /\ Len(queued[c]) \in Nat /\ Len(Append(queued[c], f)) = Len(queued[c]) + 1
        /\ \A i \in 1..Len(queued[c]) : Append(queued[c], f)[i] = queued[c][i]
        /\ Append(queued[c], f)[Len(queued[c]) + 1] = f
    BY TypeFacts, AppendProperties DEF PhoneInv
  <1>t. /\ task \in [Frames -> {"none", "chat", "queued", "begin", "prompt", "next", "done"}]
        /\ told \in [Frames -> {"nothing", "queued", "error", "running", "ended", "cancelled"}]
        /\ chat \in [Frames -> Chats \cup {None}] /\ queued \in [Chats -> Seq(Frames)]
        /\ running \subseteq Chats
    BY DEF PhoneInv, PhoneTypeOK
  <1>3. PhoneTypeOK'
    <2>1. /\ task' \in [Frames -> {"none", "chat", "queued", "begin", "prompt", "next", "done"}]
          /\ told' \in [Frames -> {"nothing", "queued", "error", "running", "ended", "cancelled"}]
      <3>1. task' = [task EXCEPT ![f] = "queued"] \/ task' = [task EXCEPT ![f] = "begin"]
        BY <1>1
      <3>2. told' = [told EXCEPT ![f] = "queued"] \/ told' = told
        BY <1>1
      <3>3. task' \in [Frames -> {"none", "chat", "queued", "begin", "prompt", "next", "done"}]
        BY <1>t, <3>1
      <3>4. told' \in [Frames -> {"nothing", "queued", "error", "running", "ended", "cancelled"}]
        BY <1>t, <3>2
      <3> QED
        BY <3>3, <3>4
    <2>2. queued' \in [Chats -> Seq(Frames)] /\ running' \subseteq Chats
      <3>1. queued' = [queued EXCEPT ![c] = Append(queued[c], f)] \/ queued' = queued
        BY <1>1
      <3>2. queued' \in [Chats -> Seq(Frames)]
        BY <1>2, <1>t, <3>1
      <3>3. running' = running \/ running' = running \cup {c}
        BY <1>1
      <3>4. running' \subseteq Chats
        BY <1>t, <3>3
      <3> QED
        BY <3>2, <3>4
    <2>3. chat' \in [Frames -> Chats \cup {None}]
      BY <1>t
    <2> QED
      BY <2>1, <2>2, <2>3 DEF PhoneInv, PhoneTypeOK
  <1>4. SlotIsBusy'
    <2>1. \A d \in Chats : d # c => Starting(d) \subseteq Starting(d)'
      BY <1>1, <1>t DEF Starting
    <2>2. c \notin running => f \in Starting(c)'
      BY <1>1, <1>t DEF Starting
    <2>3. c \in running => Starting(c) \subseteq Starting(c)'
      BY <1>1, <1>t DEF Starting
    <2>4. \A d \in Chats : EndComing(d)' <=> EndComing(d)
      BY DEF EndComing
    <2>5. \A d \in Chats : queued'[d] # <<>> => d \in running'
      BY <1>1, <1>t DEF PhoneInv, SlotIsBusy
    <2>6. ASSUME NEW d \in running'
          PROVE  behind' \/ Starting(d)' # {} \/ Going(d)' # {} \/ EndComing(d)'
      BY <1>1, <1>t, <2>1, <2>2, <2>3, <2>4, <2>6, GoingStays DEF PhoneInv, SlotIsBusy
    <2> QED
      BY <2>5, <2>6 DEF SlotIsBusy
  <1>5. ChatOK'
    BY <1>1, <1>t DEF PhoneInv, ChatOK
  <1>6. QueuedOK'
    <2>1. \A d \in Chats : \A i \in 1..Len(queued[d]) :
             queued[d][i] # f /\ task'[queued[d][i]] = "queued" /\ chat'[queued[d][i]] = d
      BY <1>1, <1>t, TypeFacts DEF PhoneInv, QueuedOK
    <2>2. \A d \in Chats : d # c => queued'[d] = queued[d]
      BY <1>1, <1>t
    <2>3. CASE queued'[c] = queued[c]
      BY <2>1, <2>2, <2>3 DEF PhoneInv, QueuedOK
    <2>4. CASE queued' = [queued EXCEPT ![c] = Append(@, f)] /\ task' = [task EXCEPT ![f] = "queued"]
      <3>1. queued'[c] = Append(queued[c], f) /\ task'[f] = "queued" /\ chat'[f] = c
        BY <1>t, <2>4
      <3>2. \A i \in 1..Len(queued'[c]) :
              /\ task'[queued'[c][i]] = "queued" /\ chat'[queued'[c][i]] = c
              /\ \A j \in 1..Len(queued'[c]) : i # j => queued'[c][i] # queued'[c][j]
        <4>1. \A i \in 1..Len(queued'[c]) : i \in 1..Len(queued[c]) \/ i = Len(queued[c]) + 1
          BY <1>2, <3>1
        <4> QED
          BY <1>2, <2>1, <3>1, <4>1 DEF PhoneInv, QueuedOK
      <3> QED
        BY <2>1, <2>2, <3>2 DEF PhoneInv, QueuedOK
    <2> QED
      BY <1>1, <1>t, <2>3, <2>4
  <1>7. ToldOK'
    BY <1>1, <1>t, GoingStays, ToldStays DEF PhoneInv
  <1>8. HeardOK'
    BY <1>1, <1>t, HeardStays DEF PhoneInv
  <1> QED
    BY <1>3, <1>4, <1>5, <1>6, <1>7, <1>8, AsksStay DEF PhoneInv

LEMMA ChatKeeps ==
  ASSUME PhoneInv, NEW f \in Frames, Chat(f) \/ \E c \in Chats : NewChat(f, c)
  PROVE  PhoneInv'
  <1>1. chat \in [Frames -> Chats \cup {None}] /\ hosted \subseteq Chats /\ open \subseteq hosted
    BY DEF PhoneInv, PhoneTypeOK
  <1>2. CASE Chat(f)
    <2>1. chat[f] \in Chats /\ chat' = [chat EXCEPT ![f] = chat[f]]
      BY <1>1, <1>2 DEF Chat
    <2> QED
      BY <1>1, <1>2, <2>1, PlaceKeeps DEF Chat, hostVars, streamVars, askVars
  <1>3. ASSUME NEW c \in Chats, NewChat(f, c) PROVE PhoneInv'
    <2>1. /\ task[f] = "chat" /\ Place(f, c) /\ chat' = [chat EXCEPT ![f] = c]
          /\ open' = open \cup {c} /\ c \in hosted
          /\ UNCHANGED <<hosted, turn, left, cut, spent, asked, record, events, behind, seen>>
          /\ UNCHANGED <<tools, notices, words, inbox, shown>>
      BY <1>3 DEF NewChat, streamVars, askVars
    <2> QED
      BY <1>1, <2>1, PlaceKeeps
  <1> QED
    BY <1>2, <1>3

\* The start is given up: the chat is free, and what waited on it is dropped.
LEMMA DropKeeps ==
  ASSUME PhoneInv, NEW f \in Frames, task[f] \in {"begin", "prompt", "next"},
         running' = running \ {chat[f]}, queued' = [queued EXCEPT ![chat[f]] = <<>>],
         task' = [task EXCEPT ![f] = "done"],
         \/ told' = [told EXCEPT ![f] = "error"]
         \/ UNCHANGED told,
         UNCHANGED <<hosted, open, turn, left, cut, spent, asked, record, events, behind, seen>>,
         UNCHANGED <<chat, tools, notices, words, inbox, shown>>
  PROVE  PhoneInv'
  <1>t. /\ task \in [Frames -> {"none", "chat", "queued", "begin", "prompt", "next", "done"}]
        /\ told \in [Frames -> {"nothing", "queued", "error", "running", "ended", "cancelled"}]
        /\ queued \in [Chats -> Seq(Frames)] /\ running \subseteq Chats
        /\ chat[f] \in Chats
    BY DEF PhoneInv, PhoneTypeOK, ChatOK
  <1>e. <<>> \in Seq(Frames) /\ Len(<<>>) = 0
    OBVIOUS
  <1>1. PhoneTypeOK'
    BY <1>t, <1>e DEF PhoneInv, PhoneTypeOK
  <1>2. SlotIsBusy'
    <2>1. \A d \in Chats : d # chat[f] => Starting(d) \subseteq Starting(d)'
      BY <1>t DEF Starting
    <2>2. \A d \in Chats : EndComing(d)' <=> EndComing(d)
      BY DEF EndComing
    <2>3. \A d \in Chats : queued'[d] # <<>> => d \in running'
      BY <1>t DEF PhoneInv, SlotIsBusy
    <2>4. ASSUME NEW d \in running'
          PROVE  behind' \/ Starting(d)' # {} \/ Going(d)' # {} \/ EndComing(d)'
      BY <1>t, <2>1, <2>2, <2>4, GoingStays DEF PhoneInv, SlotIsBusy
    <2> QED
      BY <2>3, <2>4 DEF SlotIsBusy
  <1>3. ChatOK'
    BY <1>t DEF PhoneInv, ChatOK
  <1>4. QueuedOK'
    <2>1. \A g \in Frames : task[g] = "queued" => task'[g] = "queued" /\ chat'[g] = chat[g]
      BY <1>t
    <2>2. \A d \in Chats : queued'[d] = queued[d] \/ queued'[d] = <<>>
      BY <1>t
    <2>3. ASSUME NEW d \in Chats, NEW i \in 1..Len(queued'[d])
          PROVE  /\ task'[queued'[d][i]] = "queued" /\ chat'[queued'[d][i]] = d
                 /\ \A j \in 1..Len(queued'[d]) : i # j => queued'[d][i] # queued'[d][j]
      <3>1. queued'[d] = queued[d] /\ i \in 1..Len(queued[d])
        BY <1>e, <2>2, <2>3
      <3> QED
        BY <2>1, <3>1, TypeFacts DEF PhoneInv, QueuedOK
    <2> QED
      BY <2>3 DEF QueuedOK
  <1>5. ToldOK'
    BY <1>t, GoingStays, ToldStays DEF PhoneInv
  <1>6. HeardOK'
    BY <1>t, HeardStays DEF PhoneInv
  <1> QED
    BY <1>1, <1>2, <1>3, <1>4, <1>5, <1>6, AsksStay DEF PhoneInv

\* The start goes on: the session opened, the message's own task begun.
LEMMA GoesOn ==
  ASSUME PhoneInv, NEW f \in Frames, task[f] \in {"begin", "next"},
         \E is \in {"begin", "prompt"} : task' = [task EXCEPT ![f] = is],
         open' \subseteq hosted,
         UNCHANGED <<hosted, turn, left, cut, spent, asked, record, events, behind, seen, told>>,
         UNCHANGED <<running, queued, chat, tools, notices, words, inbox, shown>>
  PROVE  PhoneInv'
  <1>t. /\ task \in [Frames -> {"none", "chat", "queued", "begin", "prompt", "next", "done"}]
        /\ \A g \in Frames : g # f => task'[g] = task[g]
        /\ task'[f] \in {"begin", "prompt"}
    BY DEF PhoneInv, PhoneTypeOK
  <1>1. PhoneTypeOK'
    BY DEF PhoneInv, PhoneTypeOK
  <1>2. SlotIsBusy'
    <2>1. \A d \in Chats : Starting(d) \subseteq Starting(d)'
      BY <1>t DEF Starting
    <2>2. \A d \in Chats : EndComing(d)' <=> EndComing(d)
      BY DEF EndComing
    <2> QED
      BY <2>1, <2>2, GoingStays DEF PhoneInv, PhoneTypeOK, SlotIsBusy
  <1>3. ChatOK'
    BY <1>t DEF PhoneInv, ChatOK
  <1>4. QueuedOK'
    BY <1>t, QueuedSame DEF PhoneInv
  <1>5. ToldOK'
    BY <1>t, GoingStays, ToldStays DEF PhoneInv
  <1>6. HeardOK'
    BY HeardStays DEF PhoneInv
  <1> QED
    BY <1>1, <1>2, <1>3, <1>4, <1>5, <1>6, AsksStay DEF PhoneInv

\* The turn of the message begins.
LEMMA PromptKeeps ==
  ASSUME PhoneInv, NEW f \in Frames, Prompt(f)
  PROVE  PhoneInv'
  <1>1. /\ task[f] = "prompt" /\ turn' = [turn EXCEPT ![chat[f]] = f]
        /\ record' = [record EXCEPT ![chat[f]] = Append(@, UserText)]
        /\ task' = [task EXCEPT ![f] = "done"] /\ told' = [told EXCEPT ![f] = "running"]
        /\ UNCHANGED <<hosted, open, left, cut, spent, asked, events, behind, seen>>
        /\ UNCHANGED <<running, queued, chat, tools, notices, words, inbox, shown>>
    BY DEF Prompt, Tell, streamVars, askVars
  <1>t. /\ task \in [Frames -> {"none", "chat", "queued", "begin", "prompt", "next", "done"}]
        /\ told \in [Frames -> {"nothing", "queued", "error", "running", "ended", "cancelled"}]
        /\ turn \in [Chats -> Turns \cup {None}] /\ record \in [Chats -> Seq(Update)]
        /\ chat[f] \in Chats /\ None \notin Turns /\ f \in Turns /\ UserText \in Update
    BY <1>1, PhoneBounds DEF PhoneBounds, Turns, PhoneInv, PhoneTypeOK, ChatOK, UserText, Update
  <1>2. PhoneTypeOK'
    <2>1. Append(record[chat[f]], UserText) \in Seq(Update)
      BY <1>t, AppendProperties
    <2> QED
      BY <1>1, <1>t, <2>1 DEF PhoneInv, PhoneTypeOK
  <1>3. SlotIsBusy'
    <2>1. \A d \in Chats : d # chat[f] => Starting(d) \subseteq Starting(d)' /\ Going(d)' = Going(d)
      BY <1>1, <1>t DEF Starting, Going
    <2>2. f \in Going(chat[f])'
      BY <1>1, <1>t DEF Going
    <2>3. \A d \in Chats : EndComing(d)' <=> EndComing(d)
      BY <1>1 DEF EndComing
    <2>4. \A d \in Chats : queued'[d] # <<>> => d \in running'
      BY <1>1 DEF PhoneInv, SlotIsBusy
    <2>5. ASSUME NEW d \in running'
          PROVE  behind' \/ Starting(d)' # {} \/ Going(d)' # {} \/ EndComing(d)'
      BY <1>1, <2>1, <2>2, <2>3, <2>5 DEF PhoneInv, PhoneTypeOK, SlotIsBusy
    <2> QED
      BY <2>4, <2>5 DEF SlotIsBusy
  <1>4. ChatOK'
    BY <1>1, <1>t DEF PhoneInv, ChatOK
  <1>5. QueuedOK'
    BY <1>1, <1>t, QueuedSame DEF PhoneInv
  <1>6. ToldOK'
    <2>1. \A c \in Chats : Going(c)' \subseteq Going(c) \cup {f}
      BY <1>1, <1>t DEF Going
    <2>2. told'[f] = "running"
      BY <1>1, <1>t
    <2> QED
      BY <1>1, <1>t, <2>1, <2>2, ToldStays DEF PhoneInv
  <1>7. HeardOK'
    BY <1>1, <1>t, HeardStays DEF PhoneInv
  <1> QED
    BY <1>1, <1>2, <1>3, <1>4, <1>5, <1>6, <1>7, AsksStay DEF PhoneInv

\* Whatever the task of a frame does.
LEMMA ServeKeeps ==
  ASSUME PhoneInv, NEW f \in Frames, Serve(f)
  PROVE  PhoneInv'
  <1>t. open \subseteq hosted
    BY DEF PhoneInv, PhoneTypeOK
  <1>1. CASE ChatRefused(f)
    BY <1>1, ChatRefusedKeeps
  <1>2. CASE Chat(f) \/ \E c \in Chats : NewChat(f, c)
    BY <1>2, ChatKeeps
  <1>3. CASE BeginOpens(f)
    BY <1>t, <1>3, GoesOn DEF BeginOpens, streamVars, askVars, phoneVars
  <1>4. CASE BeginRefused(f) \/ PromptRefused(f)
    BY <1>4, DropKeeps DEF BeginRefused, PromptRefused, StartFails, Tell, hostVars, streamVars, askVars
  <1>5. CASE Prompt(f)
    BY <1>5, PromptKeeps
  <1>6. CASE NextStarts(f)
    BY <1>t, <1>6, GoesOn DEF NextStarts, hostVars, streamVars, askVars, phoneVars
  <1>7. CASE NextGone(f)
    BY <1>7, DropKeeps DEF NextGone, hostVars, streamVars, askVars, phoneVars
  <1> QED
    BY <1>1, <1>2, <1>3, <1>4, <1>5, <1>6, <1>7 DEF Serve

-----------------------------------------------------------------------------
(* Steps of the host *)

\* What is broadcast about each request says how it changed: nothing if it did
\* not, that it was added, or that it is resolved.
AskTold(q, more) ==
    \/ /\ asked'[q].is = asked[q].is
       /\ \A i \in 1..Len(more) : more[i].ask # q
    \/ /\ asked[q].is = "none" /\ asked'[q].is = "pending"
       /\ \E i \in 1..Len(more) : more[i].ask = q
       /\ \A i \in 1..Len(more) : more[i].ask = q => more[i].is = "added"
    \/ /\ asked[q].is = "pending" /\ asked'[q].is = "resolved"
       /\ \E i \in 1..Len(more) : more[i].ask = q
       /\ \A i \in 1..Len(more) : more[i].ask = q => more[i].is = "resolved"

LEMMA AsksTold ==
  ASSUME PhoneInv, NEW more \in Seq(Event), Emit(more), UNCHANGED <<words, inbox, notices>>,
         \A q \in Asks : AskTold(q, more)
  PROVE  AsksOK'
  <1> SUFFICES ASSUME ~behind', NEW q \in Asks PROVE AskOK(q)'
    BY DEF AsksOK
  <1> DEFINE n == Len(events)
             m == Len(more)
  <1>1. /\ ~behind /\ n \in Nat /\ m \in Nat /\ Len(events') = n + m
        /\ \A i \in 1..n : events'[i] = events[i]
        /\ \A i \in 1..m : events'[n + i] = more[i]
    BY EmitSays, TypeFacts, LenProperties DEF PhoneInv
  <1>2. AskOK(q)
    BY <1>1 DEF PhoneInv, AsksOK
  <1>3. \A j \in 1..Len(events') : j \in 1..n \/ (j - n \in 1..m /\ n + (j - n) = j)
    BY <1>1
  <1>4. \A i \in 1..n : i \in 1..Len(events')
    BY <1>1
  <1>5. \A i \in 1..m : n + i \in 1..Len(events') /\ \A j \in 1..n : j < n + i
    BY <1>1
  <1> HIDE DEF n, m
  <1>6. CASE asked'[q].is = asked[q].is /\ \A i \in 1..m : more[i].ask # q
    <2>1. \A j \in 1..Len(events') : events'[j].ask = q => j \in 1..n /\ events'[j] = events[j]
      BY <1>1, <1>3, <1>6
    <2>2. At(q, "added")' = At(q, "added") /\ At(q, "resolved")' = At(q, "resolved")
      BY <1>1, <1>4, <2>1 DEF At, n
    <2>3. Silence(q)' <=> Silence(q)
      BY <1>1, <1>4, <2>1 DEF Silence, n
    <2>4. Nowhere(q)' <=> Nowhere(q)
      BY DEF Nowhere
    <2> QED
      BY <1>2, <1>6, <2>2, <2>3, <2>4 DEF AskOK
  <1>7. CASE /\ asked[q].is = "none" /\ asked'[q].is = "pending"
             /\ \E i \in 1..m : more[i].ask = q
             /\ \A i \in 1..m : more[i].ask = q => more[i].is = "added"
    <2>1. PICK i \in 1..m : more[i].ask = q /\ more[i].is = "added"
      BY <1>7
    <2>2. n + i \in At(q, "added")'
      BY <1>1, <1>5, <2>1 DEF At
    <2>3. \A j \in 1..n : events[j].ask # q
      BY <1>2, <1>7 DEF AskOK, Silence, n
    <2>4. At(q, "resolved")' = {}
      <3>1. ASSUME NEW j \in 1..Len(events'), events'[j].is = "resolved", events'[j].ask = q
            PROVE  FALSE
        <4>1. j - n \in 1..m /\ events'[j] = more[j - n]
          BY <1>1, <1>3, <2>3, <3>1
        <4> QED
          BY <1>7, <3>1, <4>1
      <3> QED
        BY <3>1 DEF At
    <2> QED
      BY <1>7, <2>2, <2>4 DEF AskOK
  <1>8. CASE /\ asked[q].is = "pending" /\ asked'[q].is = "resolved"
             /\ \E i \in 1..m : more[i].ask = q
             /\ \A i \in 1..m : more[i].ask = q => more[i].is = "resolved"
    <2>1. PICK i \in 1..m : more[i].ask = q /\ more[i].is = "resolved"
      BY <1>8
    <2>2. n + i \in At(q, "resolved")'
      BY <1>1, <1>5, <2>1 DEF At
    <2>3. \A j \in At(q, "added")' : j < n + i
      <3>1. ASSUME NEW j \in At(q, "added")' PROVE j < n + i
        <4>1. j \in 1..Len(events') /\ events'[j].is = "added" /\ events'[j].ask = q
          BY <3>1 DEF At
        <4>2. j \in 1..n
          BY <1>1, <1>3, <1>8, <4>1
        <4> QED
          BY <1>5, <4>2
      <3> QED
        BY <3>1
    <2> QED
      BY <1>8, <2>2, <2>3 DEF AskOK
  <1> QED
    BY <1>6, <1>7, <1>8 DEF AskTold, m

\* No turn begins, and one that goes is told ended.
TurnsTold(more) ==
    \A c \in Chats : \/ Going(c)' = Going(c)
                     \/ /\ Going(c)' \subseteq Going(c)
                        /\ \E i \in 1..Len(more) : more[i].is = "ended" /\ more[i].chat = c

\* A step of the host that tells of it.
LEMMA HostTells ==
  ASSUME PhoneInv, NEW more \in Seq(Event), Emit(more), \A q \in Asks : AskTold(q, more),
         \A i \in 1..Len(more) : /\ EventOK(more[i])
                                 /\ more[i].turn \in Frames => \E c \in Chats : more[i].turn \in Going(c),
         TurnsTold(more), hosted' \subseteq hosted, open' \subseteq hosted', spent' \in 0..Budget,
         turn' \in [Chats -> Turns \cup {None}], left' \in [Chats -> SUBSET Turns], cut' \subseteq Chats,
         asked' \in [Asks -> [is : {"none", "pending", "resolved"}, chat : Chats \cup {None}, turn : Turns \cup {None}]],
         \A q \in Asks : asked'[q].is # "none" => asked'[q].chat \in Chats,
         record' \in [Chats -> Seq(Update)],
         UNCHANGED <<seen, running, queued, task, chat>>,
         UNCHANGED <<tools, notices, words, inbox, told, shown>>
  PROVE  PhoneInv'
  <1>1. /\ events' \in Seq(Event) /\ behind' \in BOOLEAN
        /\ behind => behind'
        /\ \A j \in 1..Len(events') : \/ \E i \in 1..Len(events) : events'[j] = events[i]
                                      \/ \E i \in 1..Len(more) : events'[j] = more[i]
        /\ ~behind' => /\ Len(events') = Len(events) + Len(more)
                       /\ \A i \in 1..Len(events) : events'[i] = events[i]
                       /\ \A i \in 1..Len(more) : events'[Len(events) + i] = more[i]
    BY EmitSays DEF PhoneInv
  <1>n. Len(events) \in Nat /\ Len(more) \in Nat
    BY TypeFacts, LenProperties DEF PhoneInv
  <1>2. PhoneTypeOK'
    BY <1>1 DEF PhoneInv, PhoneTypeOK
  <1>3. SlotIsBusy'
    <2>1. \A c \in Chats : Starting(c)' = Starting(c)
      BY DEF Starting
    <2>2. ASSUME ~behind', NEW c \in Chats PROVE EndComing(c) => EndComing(c)'
      <3>1. \A i \in 1..Len(events) : i \in 1..Len(events') /\ events'[i] = events[i]
        BY <1>1, <1>n, <2>2
      <3> QED
        BY <3>1 DEF EndComing
    <2>3. ASSUME ~behind', NEW c \in Chats, NEW i \in 1..Len(more), more[i].is = "ended", more[i].chat = c
          PROVE  EndComing(c)'
      <3>1. Len(events) + i \in 1..Len(events') /\ events'[Len(events) + i] = more[i]
        BY <1>1, <1>n, <2>3
      <3> QED
        BY <2>3, <3>1 DEF EndComing
    <2> QED
      BY <1>1, <2>1, <2>2, <2>3 DEF PhoneInv, PhoneTypeOK, SlotIsBusy, TurnsTold
  <1>4. ChatOK'
    BY DEF PhoneInv, ChatOK
  <1>5. QueuedOK'
    BY QueuedSame DEF PhoneInv
  <1>6. ToldOK'
    BY ToldSame DEF PhoneInv, TurnsTold
  <1>7. HeardOK'
    <2>1. \A i \in 1..Len(more) : more[i].turn \in Frames => told[more[i].turn] # "nothing"
      BY DEF PhoneInv, ToldOK
    <2>2. ASSUME NEW j \in 1..Len(events')
          PROVE  /\ events'[j].turn \in Frames => told[events'[j].turn] # "nothing"
                 /\ events'[j].ask \in Asks <=> events'[j].is \in {"added", "resolved"}
      <3>1. CASE \E i \in 1..Len(events) : events'[j] = events[i]
        BY <3>1 DEF PhoneInv, HeardOK
      <3>2. CASE \E i \in 1..Len(more) : events'[j] = more[i]
        BY <2>1, <3>2 DEF EventOK
      <3> QED
        BY <1>1, <3>1, <3>2
    <2> QED
      BY <2>2 DEF HeardOK
  <1>8. AsksOK'
    BY AsksTold
  <1> QED
    BY <1>2, <1>3, <1>4, <1>5, <1>6, <1>7, <1>8 DEF PhoneInv

\* Requests resolve, and more is told that is about none.
LEMMA ResolvingTells ==
  ASSUME PhoneInv, NEW qs \in SUBSET Asks, \A q \in qs : asked[q].is = "pending",
         Resolving(qs), NEW rest \in Seq(Event),
         \A i \in 1..Len(rest) : EventOK(rest[i]) /\ rest[i].ask \notin Asks
  PROVE  /\ ResolvedEvents(qs) \o rest \in Seq(Event)
         /\ asked' \in [Asks -> [is : {"none", "pending", "resolved"}, chat : Chats \cup {None}, turn : Turns \cup {None}]]
         /\ \A q \in Asks : asked'[q].is # "none" => asked'[q].chat \in Chats
         /\ \A q \in Asks : AskTold(q, ResolvedEvents(qs) \o rest)
         /\ \A i \in 1..Len(ResolvedEvents(qs) \o rest) :
              /\ EventOK((ResolvedEvents(qs) \o rest)[i])
              /\ (ResolvedEvents(qs) \o rest)[i].turn \in Frames =>
                    \E j \in 1..Len(rest) : (ResolvedEvents(qs) \o rest)[i] = rest[j]
         /\ \A j \in 1..Len(rest) : \E i \in 1..Len(ResolvedEvents(qs) \o rest) :
              (ResolvedEvents(qs) \o rest)[i] = rest[j]
  <1> DEFINE first == ResolvedEvents(qs)
             more  == first \o rest
  <1>1. /\ first \in Seq(Event) /\ Len(first) \in Nat
        /\ \A i \in 1..Len(first) : \E q \in qs : /\ first[i] = OfAsk("resolved", q)
                                                  /\ OfAsk("resolved", q) \in Event
        /\ \A q \in qs : \E i \in 1..Len(first) : first[i] = OfAsk("resolved", q)
    BY ResolvedSays DEF PhoneInv
  <1>q. \A q \in qs : /\ OfAsk("resolved", q).is = "resolved" /\ OfAsk("resolved", q).ask = q
                      /\ OfAsk("resolved", q).turn = None
    BY DEF OfAsk, OfChat
  <1>2. \A i \in 1..Len(first) : /\ first[i].ask \in qs /\ first[i].is = "resolved"
                                 /\ first[i].turn = None /\ EventOK(first[i])
    BY <1>1, <1>q DEF EventOK
  <1>3. \A q \in qs : \E i \in 1..Len(first) : first[i].ask = q
    BY <1>1, <1>q
  <1> HIDE DEF first
  <1>4. /\ more \in Seq(Event) /\ Len(more) = Len(first) + Len(rest) /\ Len(rest) \in Nat
        /\ \A i \in 1..Len(first) : more[i] = first[i]
        /\ \A i \in 1..Len(rest) : more[Len(first) + i] = rest[i]
    BY <1>1, ConcatProperties, LenProperties
  <1> HIDE DEF more
  <1>5. \A i \in 1..Len(more) : \/ i \in 1..Len(first) /\ more[i] = first[i]
                                \/ \E j \in 1..Len(rest) : more[i] = rest[j]
    <2> SUFFICES ASSUME NEW i \in 1..Len(more), i \notin 1..Len(first)
                 PROVE  \E j \in 1..Len(rest) : more[i] = rest[j]
      BY <1>4
    <2>1. i - Len(first) \in 1..Len(rest) /\ Len(first) + (i - Len(first)) = i
      BY <1>1, <1>4
    <2> QED
      BY <1>4, <2>1
  <1>6. /\ \A i \in 1..Len(first) : i \in 1..Len(more)
        /\ \A j \in 1..Len(rest) : Len(first) + j \in 1..Len(more)
    BY <1>1, <1>4
  <1>7. \A q \in qs : /\ asked'[q].is = "resolved" /\ asked'[q].chat = asked[q].chat
                      /\ asked'[q] = [asked[q] EXCEPT !.is = "resolved"]
    BY DEF Resolving, PhoneInv, PhoneTypeOK
  <1>8. \A q \in Asks \ qs : asked'[q] = asked[q]
    BY DEF Resolving
  <1>9. asked' \in [Asks -> [is : {"none", "pending", "resolved"}, chat : Chats \cup {None}, turn : Turns \cup {None}]]
    <2>1. \A q \in Asks : asked[q] \in [is : {"none", "pending", "resolved"}, chat : Chats \cup {None}, turn : Turns \cup {None}]
      BY DEF PhoneInv, PhoneTypeOK
    <2> QED
      BY <2>1 DEF Resolving
  <1>10. \A q \in Asks : asked'[q].is # "none" => asked'[q].chat \in Chats
    BY <1>7, <1>8 DEF PhoneInv, ChatOK
  <1>11. \A i \in 1..Len(more) : more[i].ask \in Asks => more[i].ask \in qs /\ more[i].is = "resolved"
    BY <1>2, <1>5
  <1>12. \A q \in Asks : AskTold(q, more)
    <2>1. ASSUME NEW q \in qs PROVE AskTold(q, more)
      <3>1. \E i \in 1..Len(more) : more[i].ask = q
        BY <1>3, <1>4, <1>6
      <3> QED
        BY <1>7, <1>11, <3>1 DEF AskTold
    <2>2. ASSUME NEW q \in Asks \ qs PROVE AskTold(q, more)
      BY <1>8, <1>11 DEF AskTold
    <2> QED
      BY <2>1, <2>2
  <1>13. \A i \in 1..Len(more) :
              /\ EventOK(more[i])
              /\ more[i].turn \in Frames => \E j \in 1..Len(rest) : more[i] = rest[j]
    <2>1. None \notin Frames
      BY TypeFacts DEF PhoneInv
    <2> QED
      BY <1>2, <1>5, <2>1
  <1>14. \A j \in 1..Len(rest) : \E i \in 1..Len(more) : more[i] = rest[j]
    BY <1>4, <1>6
  <1> QED
    BY <1>4, <1>9, <1>10, <1>12, <1>13, <1>14 DEF more, first

\* A step of the host that resolves requests, and tells more that is about none.
LEMMA HostResolves ==
  ASSUME PhoneInv, NEW qs \in SUBSET Asks, \A q \in qs : asked[q].is = "pending",
         Resolving(qs), NEW rest \in Seq(Event), Emit(ResolvedEvents(qs) \o rest),
         \A i \in 1..Len(rest) : /\ EventOK(rest[i]) /\ rest[i].ask \notin Asks
                                 /\ rest[i].turn \in Frames => \E c \in Chats : rest[i].turn \in Going(c),
         TurnsTold(rest), hosted' \subseteq hosted, open' \subseteq hosted',
         turn' \in [Chats -> Turns \cup {None}], left' \in [Chats -> SUBSET Turns], cut' \subseteq Chats,
         UNCHANGED <<spent, record, seen, running, queued, task, chat>>,
         UNCHANGED <<tools, notices, words, inbox, told, shown>>
  PROVE  PhoneInv'
  <1> DEFINE more == ResolvedEvents(qs) \o rest
  <1>1. /\ more \in Seq(Event)
        /\ asked' \in [Asks -> [is : {"none", "pending", "resolved"}, chat : Chats \cup {None}, turn : Turns \cup {None}]]
        /\ \A q \in Asks : asked'[q].is # "none" => asked'[q].chat \in Chats
        /\ \A q \in Asks : AskTold(q, more)
        /\ \A i \in 1..Len(more) : /\ EventOK(more[i])
                                   /\ more[i].turn \in Frames => \E j \in 1..Len(rest) : more[i] = rest[j]
        /\ \A j \in 1..Len(rest) : \E i \in 1..Len(more) : more[i] = rest[j]
    BY ResolvingTells
  <1>2. Emit(more)
    OBVIOUS
  <1> HIDE DEF more
  <1>3. ASSUME NEW i \in 1..Len(more), more[i].turn \in Frames
        PROVE  \E c \in Chats : more[i].turn \in Going(c)
    <2>1. PICK j \in 1..Len(rest) : more[i] = rest[j]
      BY <1>1, <1>3
    <2> QED
      BY <1>3, <2>1
  <1>4. TurnsTold(more)
    <2>1. ASSUME NEW j \in 1..Len(rest), NEW c, rest[j].is = "ended", rest[j].chat = c
          PROVE  \E i \in 1..Len(more) : more[i].is = "ended" /\ more[i].chat = c
      <3>1. PICK i \in 1..Len(more) : more[i] = rest[j]
        BY <1>1
      <3> QED
        BY <2>1, <3>1
    <2> QED
      BY <2>1 DEF TurnsTold
  <1>5. spent' \in 0..Budget /\ record' \in [Chats -> Seq(Update)]
    BY DEF PhoneInv, PhoneTypeOK
  <1> QED
    BY <1>1, <1>2, <1>3, <1>4, <1>5, HostTells

LEMMA One ==
  ASSUME NEW e \in Event
  PROVE  <<e>> \in Seq(Event) /\ Len(<<e>>) = 1 /\ \A i \in 1..Len(<<e>>) : <<e>>[i] = e
  OBVIOUS

LEMMA OfChatOK ==
  ASSUME NEW c \in Chats, NEW is \in {"update", "ended", "closed"}
  PROVE  /\ EventOK(OfChat(is, c)) /\ OfChat(is, c).ask \notin Asks
         /\ OfChat(is, c).turn \notin Frames
         /\ OfChat(is, c).is = is /\ OfChat(is, c).chat = c
  BY PhoneBounds DEF PhoneBounds, Turns, OfChat, EventOK, Event

LEMMA OfTurnOK ==
  ASSUME NEW c \in Chats, NEW t \in Turns
  PROVE  /\ EventOK(OfTurn(c, t)) /\ OfTurn(c, t).ask \notin Asks
         /\ OfTurn(c, t).turn = t
         /\ OfTurn(c, t).is = "ended" /\ OfTurn(c, t).chat = c
  BY PhoneBounds DEF PhoneBounds, OfTurn, OfChat, EventOK, Event

\* Nothing is broadcast: another client's turn, a chat opened to be read, a
\* notice deleted, a turn that goes on in a closed chat, or a phone that hears
\* its messages are cancelled.
LEMMA QuietKeeps ==
  ASSUME PhoneInv,
         open' \subseteq hosted, spent' \in 0..Budget,
         turn' \in [Chats -> Turns \cup {None}], record' \in [Chats -> Seq(Update)],
         \A c \in Chats : turn'[c] = turn[c] \/ turn'[c] \in Others,
         notices' \subseteq notices,
         told' \in [Frames -> {"nothing", "queued", "error", "running", "ended", "cancelled"}],
         \A f \in Frames : \/ told'[f] = told[f]
                           \/ told'[f] # "nothing" /\ task[f] \notin {"none", "done"},
         UNCHANGED <<hosted, left, cut, asked, events, behind, seen>>,
         UNCHANGED <<running, queued, task, chat, words, inbox>>
  PROVE  PhoneInv'
  <1>0. None \notin Others /\ Others \cap Frames = {}
    BY PhoneBounds DEF PhoneBounds, Turns
  <1>g. ASSUME NEW c \in Chats
        PROVE  /\ Going(c)' \subseteq Going(c) \cup Others
               /\ Going(c) # {} => Going(c)' # {}
    BY <1>0 DEF Going
  <1>1. PhoneTypeOK'
    BY DEF PhoneInv, PhoneTypeOK
  <1>2. SlotIsBusy'
    <2>1. \A c \in Chats : Starting(c)' = Starting(c)
      BY DEF Starting
    <2>2. \A c \in Chats : EndComing(c)' <=> EndComing(c)
      BY DEF EndComing
    <2> QED
      BY <1>g, <2>1, <2>2 DEF PhoneInv, PhoneTypeOK, SlotIsBusy
  <1>3. ChatOK'
    BY DEF PhoneInv, ChatOK
  <1>4. QueuedOK'
    BY QueuedSame DEF PhoneInv
  <1>5. ToldOK'
    <2>1. \A f \in Frames : task[f] = "none" => told'[f] = told[f]
      OBVIOUS
    <2> QED
      BY <1>0, <1>g, <2>1, ToldStays DEF PhoneInv
  <1>6. HeardOK'
    BY HeardStays DEF PhoneInv
  <1> QED
    BY <1>1, <1>2, <1>3, <1>4, <1>5, <1>6, AsksStay DEF PhoneInv

\* The agent says something, which is broadcast if the chat is open.
LEMMA UpdatedKeeps ==
  ASSUME PhoneInv, NEW c \in Chats, NEW u \in Update, Updated(c, u)
  PROVE  PhoneInv'
  <1> DEFINE e == [OfChat("update", c) EXCEPT !.update = u]
  <1>1. /\ spent < Budget /\ spent' = spent + 1
        /\ record' = [record EXCEPT ![c] = Append(@, u)]
        /\ Emit(<<e>>) \/ UNCHANGED <<events, behind>>
        /\ UNCHANGED <<hosted, open, turn, left, cut, asked, seen, running, queued, task, chat>>
        /\ UNCHANGED <<tools, notices, words, inbox, told, shown>>
    BY DEF Updated, Input, streamVars, slotVars, askVars, phoneVars
  <1>2. EventOK(e) /\ e.ask \notin Asks /\ e.turn \notin Frames
    BY PhoneBounds DEF PhoneBounds, Turns, OfChat, EventOK, Event
  <1> HIDE DEF e
  <1>3. <<e>> \in Seq(Event) /\ \A i \in 1..Len(<<e>>) : <<e>>[i] = e
    BY <1>2, One DEF EventOK
  <1>4. \A q \in Asks : AskTold(q, <<e>>)
    BY <1>1, <1>2, <1>3 DEF AskTold
  <1>5. \A i \in 1..Len(<<e>>) : EventOK(<<e>>[i]) /\ <<e>>[i].turn \notin Frames
    BY <1>2, <1>3
  <1>6. record' \in [Chats -> Seq(Update)]
    <2>1. record \in [Chats -> Seq(Update)]
      BY DEF PhoneInv, PhoneTypeOK
    <2>2. Append(record[c], u) \in Seq(Update)
      BY <2>1, AppendProperties
    <2> QED
      BY <1>1, <2>1, <2>2
  <1>7. spent' \in 0..Budget
    BY <1>1, PhoneBounds DEF PhoneBounds, PhoneInv, PhoneTypeOK
  <1>8. /\ hosted' \subseteq hosted /\ open' \subseteq hosted' /\ open' \subseteq hosted
        /\ turn' \in [Chats -> Turns \cup {None}] /\ left' \in [Chats -> SUBSET Turns] /\ cut' \subseteq Chats
        /\ asked' \in [Asks -> [is : {"none", "pending", "resolved"}, chat : Chats \cup {None}, turn : Turns \cup {None}]]
        /\ \A q \in Asks : asked'[q].is # "none" => asked'[q].chat \in Chats
        /\ told' \in [Frames -> {"nothing", "queued", "error", "running", "ended", "cancelled"}]
    BY <1>1 DEF PhoneInv, PhoneTypeOK, ChatOK
  <1>9. TurnsTold(<<e>>)
    BY <1>1, GoingStays DEF TurnsTold
  <1>10. CASE Emit(<<e>>)
    BY <1>1, <1>3, <1>4, <1>5, <1>6, <1>7, <1>8, <1>9, <1>10, HostTells
  <1>11. CASE UNCHANGED <<events, behind>>
    BY <1>1, <1>6, <1>7, <1>8, <1>11, QuietKeeps
  <1> QED
    BY <1>1, <1>10, <1>11

\* The agent asks.
LEMMA RequestedKeeps ==
  ASSUME PhoneInv, NEW c \in Chats, NEW q \in Asks, NEW call \in Calls \cup {None}, Requested(c, q, call)
  PROVE  PhoneInv'
  <1> DEFINE about == IF call = None THEN None ELSE ToolCall(call, "pending")
             e     == [OfChat("added", c) EXCEPT !.ask = q, !.update = about]
  <1>1. /\ asked[q].is = "none" /\ spent < Budget /\ spent' = spent + 1
        /\ asked' = [asked EXCEPT ![q] = [is |-> "pending", chat |-> c, turn |-> turn[c]]]
        /\ Emit(<<e>>)
        /\ UNCHANGED <<hosted, open, turn, left, cut, record, seen, running, queued, task, chat>>
        /\ UNCHANGED <<tools, notices, words, inbox, told, shown>>
    BY DEF Requested, Input, slotVars, askVars, phoneVars
  <1>a. about \in Update \cup {None}
    BY DEF ToolCall, Update, Statuses, Finals
  <1> HIDE DEF about
  <1>2. EventOK(e) /\ e.ask = q /\ e.is = "added" /\ e.turn \notin Frames
    BY <1>a, PhoneBounds DEF PhoneBounds, Turns, OfChat, EventOK, Event
  <1> HIDE DEF e
  <1>3. <<e>> \in Seq(Event) /\ Len(<<e>>) = 1 /\ \A i \in 1..Len(<<e>>) : <<e>>[i] = e
    BY <1>2, One DEF EventOK
  <1>4. /\ asked \in [Asks -> [is : {"none", "pending", "resolved"}, chat : Chats \cup {None}, turn : Turns \cup {None}]]
        /\ turn[c] \in Turns \cup {None}
    BY DEF PhoneInv, PhoneTypeOK
  <1>5. \A p \in Asks : AskTold(p, <<e>>)
    <2>1. AskTold(q, <<e>>)
      <3>1. 1 \in 1..Len(<<e>>) /\ <<e>>[1].ask = q
        BY <1>2, <1>3
      <3>2. asked'[q].is = "pending"
        BY <1>1, <1>4
      <3> QED
        BY <1>1, <1>2, <1>3, <3>1, <3>2 DEF AskTold
    <2>2. \A p \in Asks \ {q} : AskTold(p, <<e>>)
      BY <1>1, <1>2, <1>3, <1>4 DEF AskTold
    <2> QED
      BY <2>1, <2>2
  <1>6. \A i \in 1..Len(<<e>>) : EventOK(<<e>>[i]) /\ <<e>>[i].turn \notin Frames
    BY <1>2, <1>3
  <1>7. /\ asked' \in [Asks -> [is : {"none", "pending", "resolved"}, chat : Chats \cup {None}, turn : Turns \cup {None}]]
        /\ \A p \in Asks : asked'[p].is # "none" => asked'[p].chat \in Chats
    BY <1>1, <1>4 DEF PhoneInv, ChatOK
  <1>8. /\ hosted' \subseteq hosted /\ open' \subseteq hosted' /\ spent' \in 0..Budget
        /\ turn' \in [Chats -> Turns \cup {None}] /\ left' \in [Chats -> SUBSET Turns] /\ cut' \subseteq Chats
        /\ record' \in [Chats -> Seq(Update)]
    BY <1>1, PhoneBounds DEF PhoneBounds, PhoneInv, PhoneTypeOK
  <1>9. TurnsTold(<<e>>)
    BY <1>1, GoingStays DEF TurnsTold
  <1> QED
    BY <1>1, <1>3, <1>5, <1>6, <1>7, <1>8, <1>9, HostTells

\* Requests are answered, or cancelled with their turn.
LEMMA AnswerKeeps ==
  ASSUME PhoneInv, NEW qs \in SUBSET Asks, \A q \in qs : asked[q].is = "pending",
         Resolving(qs), Emit(ResolvedEvents(qs)),
         UNCHANGED <<hosted, open, turn, left, cut, spent, record, seen, running, queued, task, chat>>,
         UNCHANGED <<tools, notices, words, inbox, told, shown>>
  PROVE  PhoneInv'
  <1>1. ResolvedEvents(qs) \o <<>> = ResolvedEvents(qs)
    BY ResolvedSays, ConcatEmptySeq DEF PhoneInv
  <1>2. <<>> \in Seq(Event) /\ \A i \in 1..Len(<<>>) : FALSE
    OBVIOUS
  <1>3. /\ hosted' \subseteq hosted /\ open' \subseteq hosted'
        /\ turn' \in [Chats -> Turns \cup {None}] /\ left' \in [Chats -> SUBSET Turns] /\ cut' \subseteq Chats
    BY DEF PhoneInv, PhoneTypeOK
  <1>4. TurnsTold(<<>>)
    BY GoingStays DEF TurnsTold
  <1> QED
    BY <1>1, <1>2, <1>3, <1>4, HostResolves

LEMMA PendingOnIs ==
  ASSUME NEW c \in Chats
  PROVE  PendingOn(c) \in SUBSET Asks /\ \A q \in PendingOn(c) : asked[q].is = "pending"
  BY DEF PendingOn

\* A turn ends.
LEMMA EndTurnKeeps ==
  ASSUME PhoneInv, NEW c \in Chats, NEW t, EndTurn(c, t)
  PROVE  PhoneInv'
  <1> DEFINE its == {q \in PendingOn(c) : asked[q].turn = t}
             e   == OfTurn(c, t)
  <1>1. /\ t \in Going(c)
        /\ turn' = [turn EXCEPT ![c] = None] /\ left' = [left EXCEPT ![c] = Going(c) \ {t}]
        /\ Resolving(its) /\ Emit(ResolvedEvents(its) \o <<e>>)
        /\ UNCHANGED <<hosted, open, cut, spent, record, seen, running, queued, task, chat>>
        /\ UNCHANGED <<tools, notices, words, inbox, told, shown>>
    BY DEF EndTurn, slotVars, askVars, phoneVars
  <1>t. /\ turn \in [Chats -> Turns \cup {None}] /\ left \in [Chats -> SUBSET Turns]
        /\ open \subseteq hosted /\ cut \subseteq Chats
    BY DEF PhoneInv, PhoneTypeOK
  <1>g. Going(c) \subseteq Turns /\ None \notin Going(c)
    BY <1>t DEF Going
  <1>i. its \in SUBSET Asks /\ \A q \in its : asked[q].is = "pending"
    BY PendingOnIs
  <1>2. EventOK(e) /\ e.ask \notin Asks /\ e.turn = t /\ e.is = "ended" /\ e.chat = c
    BY <1>1, <1>g, OfTurnOK
  <1> HIDE DEF its, e
  <1>3. <<e>> \in Seq(Event) /\ Len(<<e>>) = 1 /\ \A i \in 1..Len(<<e>>) : <<e>>[i] = e
    BY <1>2, One DEF EventOK
  <1>4. \A i \in 1..Len(<<e>>) :
           /\ EventOK(<<e>>[i]) /\ <<e>>[i].ask \notin Asks
           /\ <<e>>[i].turn \in Frames => \E d \in Chats : <<e>>[i].turn \in Going(d)
    BY <1>1, <1>2, <1>3
  <1>5. TurnsTold(<<e>>)
    <2>1. \A d \in Chats \ {c} : Going(d)' = Going(d)
      BY <1>1, <1>t DEF Going
    <2>2. turn'[c] = None /\ left'[c] = Going(c) \ {t}
      BY <1>1, <1>t
    <2>3. Going(c)' \subseteq Going(c)
      <3>1. Going(c)' = (left'[c] \cup {turn'[c]}) \ {None}
        BY DEF Going
      <3> QED
        BY <2>2, <3>1
    <2>4. 1 \in 1..Len(<<e>>) /\ <<e>>[1].is = "ended" /\ <<e>>[1].chat = c
      BY <1>2, <1>3
    <2> QED
      BY <2>1, <2>3, <2>4 DEF TurnsTold
  <1>6. /\ turn' \in [Chats -> Turns \cup {None}] /\ left' \in [Chats -> SUBSET Turns] /\ cut' \subseteq Chats
        /\ hosted' \subseteq hosted /\ open' \subseteq hosted'
    BY <1>1, <1>t, <1>g
  <1> QED
    BY <1>1, <1>i, <1>3, <1>4, <1>5, <1>6, HostResolves

\* A session is let go, of an agent that stays or goes too.
LEMMA LetGoKeeps ==
  ASSUME PhoneInv, NEW c \in Chats, LetGo(c), hosted' = hosted \/ hosted' = hosted \ {c}
  PROVE  PhoneInv'
  <1> DEFINE e    == OfChat("closed", c)
             rest == IF c \in open THEN <<e>> ELSE <<>>
  <1>1. /\ open' = open \ {c}
        /\ turn' = [turn EXCEPT ![c] = None] /\ left' = [left EXCEPT ![c] = Going(c)]
        /\ cut' = cut \/ cut' = cut \cup {c}
        /\ Resolving(PendingOn(c)) /\ Emit(ResolvedEvents(PendingOn(c)) \o rest)
        /\ UNCHANGED <<spent, record, seen, running, queued, task, chat>>
        /\ UNCHANGED <<tools, notices, words, inbox, told, shown>>
    BY DEF LetGo, slotVars, askVars, phoneVars
  <1>t. /\ turn \in [Chats -> Turns \cup {None}] /\ left \in [Chats -> SUBSET Turns]
        /\ open \subseteq hosted /\ cut \subseteq Chats
    BY DEF PhoneInv, PhoneTypeOK
  <1>g. Going(c) \subseteq Turns /\ None \notin Going(c)
    BY <1>t DEF Going
  <1>2. EventOK(e) /\ e.ask \notin Asks /\ e.turn \notin Frames
    BY OfChatOK
  <1> HIDE DEF e
  <1>3. <<e>> \in Seq(Event) /\ \A i \in 1..Len(<<e>>) : <<e>>[i] = e
    BY <1>2, One DEF EventOK
  <1>4. <<>> \in Seq(Event) /\ \A i \in 1..Len(<<>>) : FALSE
    OBVIOUS
  <1>5. /\ rest \in Seq(Event)
        /\ \A i \in 1..Len(rest) : EventOK(rest[i]) /\ rest[i].ask \notin Asks /\ rest[i].turn \notin Frames
    <2>1. CASE c \in open
      BY <1>2, <1>3, <2>1
    <2>2. CASE c \notin open
      BY <1>4, <2>2
    <2> QED
      BY <2>1, <2>2
  <1> HIDE DEF rest
  <1>6. TurnsTold(rest)
    <2>1. \A d \in Chats \ {c} : Going(d)' = Going(d)
      BY <1>1, <1>t DEF Going
    <2>2. turn'[c] = None /\ left'[c] = Going(c)
      BY <1>1, <1>t
    <2>3. Going(c)' = Going(c)
      <3>1. Going(c)' = (left'[c] \cup {turn'[c]}) \ {None}
        BY DEF Going
      <3> QED
        BY <1>g, <2>2, <3>1
    <2> QED
      BY <2>1, <2>3 DEF TurnsTold
  <1>7. /\ turn' \in [Chats -> Turns \cup {None}] /\ left' \in [Chats -> SUBSET Turns] /\ cut' \subseteq Chats
        /\ hosted' \subseteq hosted /\ open' \subseteq hosted'
    BY <1>1, <1>t, <1>g
  <1> QED
    BY <1>1, <1>5, <1>6, <1>7, PendingOnIs, HostResolves

\* Whatever the host does on a chat.
LEMMA HostKeeps ==
  ASSUME PhoneInv, NEW c \in Chats, HostStep(c)
  PROVE  PhoneInv'
  <1>t. /\ hosted \subseteq Chats /\ open \subseteq hosted /\ spent \in 0..Budget /\ Budget \in Nat
        /\ turn \in [Chats -> Turns \cup {None}] /\ record \in [Chats -> Seq(Update)]
        /\ told \in [Frames -> {"nothing", "queued", "error", "running", "ended", "cancelled"}]
    BY PhoneBounds DEF PhoneBounds, PhoneInv, PhoneTypeOK
  <1>1. CASE OtherPrompts(c)
    <2>1. Append(record[c], UserText) \in Seq(Update)
      BY <1>t, AppendProperties DEF UserText, Update
    <2>2. spent' \in Others /\ spent' \in Turns /\ spent' \in 0..Budget
      BY <1>t, <1>1 DEF OtherPrompts, Input, Others, Turns
    <2>3. /\ turn' = [turn EXCEPT ![c] = spent'] /\ record' = [record EXCEPT ![c] = Append(@, UserText)]
          /\ UNCHANGED <<hosted, open, left, cut, asked, events, behind, seen>>
          /\ UNCHANGED <<running, queued, task, chat, notices, words, inbox, told>>
      BY <1>1 DEF OtherPrompts, streamVars, slotVars, askVars, phoneVars
    <2>4. /\ turn' \in [Chats -> Turns \cup {None}] /\ record' \in [Chats -> Seq(Update)]
          /\ \A d \in Chats : turn'[d] = turn[d] \/ turn'[d] \in Others
      BY <1>t, <2>1, <2>2, <2>3
    <2> QED
      BY <1>t, <2>2, <2>3, <2>4, QuietKeeps
  <1>2. CASE Messages(c)
    BY <1>t, <1>2, QuietKeeps DEF Messages, streamVars, slotVars, askVars, phoneVars
  <1>3. CASE CancelNothing(c)
    BY <1>t, <1>3, QuietKeeps DEF CancelNothing, hostVars, streamVars, slotVars, askVars
  <1>4. ASSUME NEW i \in MessageIds \cup {None}, Updated(c, AgentText(i)) PROVE PhoneInv'
    <2>1. AgentText(i) \in Update
      BY DEF AgentText, Update
    <2> QED
      BY <1>4, <2>1, UpdatedKeeps
  <1>5. ASSUME NEW call \in Calls, NEW s \in Statuses, Updated(c, ToolCall(call, s)) PROVE PhoneInv'
    <2>1. ToolCall(call, s) \in Update
      BY DEF ToolCall, Update
    <2> QED
      BY <1>5, <2>1, UpdatedKeeps
  <1>6. ASSUME NEW q \in Asks, NEW call \in Calls \cup {None}, Requested(c, q, call) PROVE PhoneInv'
    BY <1>6, RequestedKeeps
  <1>7. CASE EndTurns(c)
    BY <1>7, EndTurnKeeps DEF EndTurns
  <1>8. CASE Close(c) \/ RemoveAgent(c)
    BY <1>8, LetGoKeeps DEF Close, RemoveAgent
  <1>9. CASE Cancel(c)
    BY <1>9, AnswerKeeps, PendingOnIs DEF Cancel, slotVars, askVars, phoneVars
  <1> QED
    BY <1>1, <1>2, <1>3, <1>4, <1>5, <1>6, <1>7, <1>8, <1>9 DEF HostStep

-----------------------------------------------------------------------------
(* Events taken *)

\* The contract takes the first event; the others move up.
Takes(e) == events # <<>> /\ e = Head(events) /\ events' = Tail(events) /\ UNCHANGED behind

LEMMA TakesSays ==
  ASSUME PhoneTypeOK, NEW e, Takes(e)
  PROVE  /\ e \in Event /\ Len(events) \in Nat /\ 1 \in 1..Len(events) /\ events[1] = e
         /\ events' \in Seq(Event) /\ Len(events') = Len(events) - 1
         /\ \A i \in 1..Len(events') : i + 1 \in 1..Len(events) /\ events'[i] = events[i + 1]
         /\ \A i \in 1..Len(events) : i # 1 => i - 1 \in 1..Len(events') /\ events'[i - 1] = events[i]
  <1>1. events \in Seq(Event) /\ events # <<>>
    BY DEF PhoneTypeOK, Takes
  <1>2. Len(events) \in Nat /\ 1 \in 1..Len(events)
    BY <1>1, LenProperties
  <1>3. /\ Head(events) = events[1] /\ events[1] \in Event
        /\ Tail(events) \in Seq(Event) /\ Len(Tail(events)) = Len(events) - 1
        /\ \A i \in 1..Len(Tail(events)) : Tail(events)[i] = events[i + 1]
    BY <1>1, <1>2, HeadTailProperties, ElementOfSeq
  <1>4. e = Head(events) /\ events' = Tail(events)
    BY DEF Takes
  <1>5. \A i \in 1..Len(events') : i + 1 \in 1..Len(events)
    BY <1>2, <1>3, <1>4
  <1>6. \A i \in 1..Len(events) : i # 1 => i - 1 \in 1..Len(events') /\ (i - 1) + 1 = i
    BY <1>2, <1>3, <1>4
  <1> QED
    BY <1>2, <1>3, <1>4, <1>5, <1>6

\* A request the event is not about is as far behind as it was.
LEMMA AskPassed ==
  ASSUME PhoneTypeOK, NEW e, Takes(e), NEW q \in Asks, AskOK(q), e.ask # q, UNCHANGED asked,
         q \in words' <=> q \in words, q \in inbox' <=> q \in inbox, q \in notices' <=> q \in notices
  PROVE  AskOK(q)'
  <1>1. /\ \A i \in 1..Len(events') : i + 1 \in 1..Len(events) /\ events'[i] = events[i + 1]
        /\ \A i \in 1..Len(events) : i # 1 => i - 1 \in 1..Len(events') /\ events'[i - 1] = events[i]
        /\ events[1] = e /\ Len(events) \in Nat /\ Len(events') = Len(events) - 1
    BY TakesSays
  <1>2. \A i \in 1..Len(events) : events[i].ask = q => i # 1
    BY <1>1
  <1>3. Nowhere(q)' <=> Nowhere(q)
    BY DEF Nowhere
  <1>4. Silence(q) => Silence(q)'
    BY <1>1 DEF Silence
  <1>6. \A is : \A i \in At(q, is) : i - 1 \in At(q, is)'
    BY <1>1, <1>2 DEF At
  <1>7. \A is : \A i \in At(q, is)' : i + 1 \in At(q, is) /\ i \in Nat
    BY <1>1 DEF At
  <1>5. At(q, "resolved") = {} => At(q, "resolved")' = {}
    BY <1>7
  <1>8. \A is : \A i \in At(q, is) : i \in Nat
    BY <1>1 DEF At
  <1>9. ASSUME NEW i \in At(q, "resolved"), \A j \in At(q, "added") : j < i
        PROVE  \E k \in At(q, "resolved")' : \A j \in At(q, "added")' : j < k
    <2>1. i - 1 \in At(q, "resolved")' /\ i \in Nat
      BY <1>6, <1>8
    <2>2. \A j \in At(q, "added")' : j < i - 1
      BY <1>7, <1>9, <2>1
    <2> QED
      BY <2>1, <2>2
  <1>10. asked'[q].is = asked[q].is
    OBVIOUS
  <1>11. CASE asked[q].is = "none"
    BY <1>3, <1>4, <1>10, <1>11 DEF AskOK
  <1>12. CASE asked[q].is = "pending"
    <2>1. At(q, "added")' # {} \/ (q \in words' /\ q \in inbox')
      BY <1>6, <1>12 DEF AskOK
    <2> QED
      BY <1>5, <1>10, <1>12, <2>1 DEF AskOK
  <1>13. CASE asked[q].is = "resolved"
    <2>1. \/ Nowhere(q)' /\ Silence(q)'
          \/ \E i \in At(q, "resolved")' : \A j \in At(q, "added")' : j < i
      BY <1>3, <1>4, <1>9, <1>13 DEF AskOK
    <2> QED
      BY <1>10, <1>13, <2>1 DEF AskOK
  <1> QED
    BY <1>11, <1>12, <1>13 DEF PhoneTypeOK

\* One it is about is shown, or taken away.
LEMMA AskTaken ==
  ASSUME PhoneTypeOK, HeardOK, NEW e, Takes(e), NEW q \in Asks, AskOK(q), e.ask = q, UNCHANGED asked,
         \/ e.is = "added" /\ q \in words' /\ q \in inbox'
         \/ e.is = "resolved" /\ q \notin words' \cup inbox' \cup notices'
  PROVE  AskOK(q)'
  <1>1. /\ \A i \in 1..Len(events') : i + 1 \in 1..Len(events) /\ events'[i] = events[i + 1]
        /\ \A i \in 1..Len(events) : i # 1 => i - 1 \in 1..Len(events') /\ events'[i - 1] = events[i]
        /\ events[1] = e /\ 1 \in 1..Len(events) /\ Len(events) \in Nat /\ Len(events') = Len(events) - 1
    BY TakesSays
  <1>2. ~Silence(q) /\ asked[q].is # "none"
    BY <1>1 DEF Silence, AskOK
  <1>3. 1 \in At(q, e.is)
    BY <1>1 DEF At
  <1>4. \A is : \A i \in At(q, is) : i # 1 => i - 1 \in At(q, is)'
    BY <1>1 DEF At
  <1>5. \A is : \A i \in At(q, is)' : i + 1 \in At(q, is) /\ i \in Nat
    BY <1>1 DEF At
  <1>6. \A is : \A i \in At(q, is) : i \in Nat
    BY <1>1 DEF At
  <1>7. CASE asked[q].is = "pending"
    <2>1. At(q, "resolved") = {} /\ e.is # "resolved"
      BY <1>3, <1>7 DEF AskOK
    <2>2. At(q, "resolved")' = {}
      BY <1>5, <2>1
    <2> QED
      BY <1>7, <2>1, <2>2 DEF AskOK
  <1>8. CASE asked[q].is = "resolved"
    <2>1. PICK i \in At(q, "resolved") : \A j \in At(q, "added") : j < i
      BY <1>2, <1>8 DEF AskOK
    <2>2. CASE i # 1
      <3>1. i - 1 \in At(q, "resolved")' /\ i \in Nat
        BY <1>4, <1>6, <2>2
      <3>2. \A j \in At(q, "added")' : j < i - 1
        BY <1>5, <2>1, <3>1
      <3> QED
        BY <1>8, <3>1, <3>2 DEF AskOK
    <2>3. CASE i = 1
      <3>1. e.is = "resolved"
        BY <1>1, <2>3 DEF At
      <3>2. At(q, "added")' = {}
        BY <1>5, <2>1, <2>3
      <3>3. Nowhere(q)'
        BY <3>1 DEF Nowhere
      <3>4. At(q, "resolved")' = {} => Silence(q)'
        <4>1. \A k \in 1..Len(events') : events'[k].ask = q => events'[k].is \in {"added", "resolved"}
          BY <1>1 DEF HeardOK
        <4> QED
          BY <3>2, <4>1 DEF At, Silence
      <3> QED
        BY <1>8, <3>2, <3>3, <3>4 DEF AskOK
    <2> QED
      BY <2>2, <2>3
  <1> QED
    BY <1>2, <1>7, <1>8 DEF PhoneTypeOK

\* Events that wait are of turns that began, still.
LEMMA HeardPassed ==
  ASSUME PhoneTypeOK, HeardOK, NEW e, Takes(e),
         \A f \in Frames : told[f] # "nothing" => told'[f] # "nothing"
  PROVE  HeardOK'
  <1>1. \A i \in 1..Len(events') : i + 1 \in 1..Len(events) /\ events'[i] = events[i + 1]
    BY TakesSays
  <1> QED
    BY <1>1 DEF HeardOK

\* An event that ends no turn.
LEMMA PassKeeps ==
  ASSUME PhoneInv, NEW e, Takes(e), e.is # "ended",
         UNCHANGED <<hosted, open, turn, left, cut, spent, asked, record, seen, running, queued, task, chat, told>>,
         words' \subseteq Asks, notices' \subseteq Asks, inbox' \subseteq Asks,
         \A q \in Asks : IF e.ask = q
            THEN \/ e.is = "added" /\ q \in words' /\ q \in inbox'
                 \/ e.is = "resolved" /\ q \notin words' \cup inbox' \cup notices'
            ELSE (q \in words' <=> q \in words) /\ (q \in inbox' <=> q \in inbox)
                 /\ (q \in notices' <=> q \in notices)
  PROVE  PhoneInv'
  <1>1. /\ events' \in Seq(Event) /\ events[1] = e
        /\ \A i \in 1..Len(events) : i # 1 => i - 1 \in 1..Len(events') /\ events'[i - 1] = events[i]
    BY TakesSays DEF PhoneInv
  <1>b. UNCHANGED behind
    BY DEF Takes
  <1>2. PhoneTypeOK'
    BY <1>1, <1>b DEF PhoneInv, PhoneTypeOK
  <1>3. SlotIsBusy'
    <2>1. \A c \in Chats : Starting(c)' = Starting(c)
      BY DEF Starting
    <2>2. \A c \in Chats : EndComing(c) => EndComing(c)'
      BY <1>1 DEF EndComing
    <2> QED
      BY <1>b, <2>1, <2>2, GoingStays DEF PhoneInv, PhoneTypeOK, SlotIsBusy
  <1>4. ChatOK'
    BY DEF PhoneInv, ChatOK
  <1>5. QueuedOK'
    BY QueuedSame DEF PhoneInv
  <1>6. ToldOK'
    BY GoingStays, ToldSame DEF PhoneInv
  <1>7. HeardOK'
    BY HeardPassed DEF PhoneInv
  <1>8. AsksOK'
    <2> SUFFICES ASSUME ~behind', NEW q \in Asks PROVE AskOK(q)'
      BY DEF AsksOK
    <2>1. AskOK(q)
      BY <1>b DEF PhoneInv, AsksOK
    <2>2. CASE e.ask = q
      BY <2>1, <2>2, AskTaken DEF PhoneInv
    <2>3. CASE e.ask # q
      BY <2>1, <2>3, AskPassed DEF PhoneInv
    <2> QED
      BY <2>2, <2>3
  <1> QED
    BY <1>2, <1>3, <1>4, <1>5, <1>6, <1>7, <1>8 DEF PhoneInv

\* A turn's end: the slot goes to the message that waits first, or is free.
LEMMA EndedKeeps ==
  ASSUME PhoneInv, NEW e, Takes(e), e.is = "ended", NextQueued(e.chat),
         told' = [f \in Frames |-> IF f = e.turn THEN "ended" ELSE told[f]],
         UNCHANGED <<hosted, open, turn, left, cut, spent, asked, record, seen, chat, words, notices, inbox>>
  PROVE  PhoneInv'
  <1> DEFINE c == e.chat
             h == Head(queued[c])
  <1>1. /\ events' \in Seq(Event) /\ events[1] = e /\ e \in Event /\ 1 \in 1..Len(events)
        /\ \A i \in 1..Len(events) : i # 1 => i - 1 \in 1..Len(events') /\ events'[i - 1] = events[i]
    BY TakesSays DEF PhoneInv
  <1>b. UNCHANGED behind
    BY DEF Takes
  <1>t. /\ task \in [Frames -> {"none", "chat", "queued", "begin", "prompt", "next", "done"}]
        /\ queued \in [Chats -> Seq(Frames)] /\ running \subseteq Chats
    BY DEF PhoneInv, PhoneTypeOK
  <1>2. c \in Chats /\ e.ask \notin Asks
    BY <1>1 DEF PhoneInv, HeardOK, Event
  <1> HIDE DEF c
  <1>3. \/ queued[c] = <<>> /\ running' = running \ {c} /\ UNCHANGED <<queued, task>>
        \/ /\ queued[c] # <<>> /\ queued' = [queued EXCEPT ![c] = Tail(@)]
           /\ task' = [task EXCEPT ![h] = "next"] /\ UNCHANGED running
    BY DEF NextQueued, c
  <1>4. queued[c] # <<>> =>
          /\ h \in Frames /\ h = queued[c][1] /\ task[h] = "queued" /\ chat[h] = c
          /\ Tail(queued[c]) \in Seq(Frames)
          /\ \A i \in 1..Len(Tail(queued[c])) : i + 1 \in 1..Len(queued[c]) /\ Tail(queued[c])[i] = queued[c][i + 1]
    <2> SUFFICES ASSUME queued[c] # <<>>
                 PROVE  /\ h \in Frames /\ h = queued[c][1] /\ task[h] = "queued" /\ chat[h] = c
                        /\ Tail(queued[c]) \in Seq(Frames)
                        /\ \A i \in 1..Len(Tail(queued[c])) :
                              i + 1 \in 1..Len(queued[c]) /\ Tail(queued[c])[i] = queued[c][i + 1]
      OBVIOUS
    <2>1. queued[c] \in Seq(Frames) /\ Len(queued[c]) \in Nat /\ 1 \in 1..Len(queued[c])
      BY <1>2, TypeFacts, LenProperties DEF PhoneInv
    <2>2. /\ h = queued[c][1] /\ Tail(queued[c]) \in Seq(Frames) /\ Len(Tail(queued[c])) = Len(queued[c]) - 1
          /\ \A i \in 1..Len(Tail(queued[c])) : Tail(queued[c])[i] = queued[c][i + 1]
      BY <2>1, HeadTailProperties
    <2>3. \A i \in 1..Len(Tail(queued[c])) : i + 1 \in 1..Len(queued[c])
      BY <2>1, <2>2
    <2>4. h \in Frames
      BY <2>1, <2>2, ElementOfSeq
    <2> QED
      BY <1>2, <2>1, <2>2, <2>3, <2>4 DEF PhoneInv, QueuedOK
  <1> HIDE DEF h
  <1>5. \A f \in Frames : told[f] # "nothing" => told'[f] # "nothing"
    OBVIOUS
  <1>6. PhoneTypeOK'
    <2>1. told' \in [Frames -> {"nothing", "queued", "error", "running", "ended", "cancelled"}]
      BY DEF PhoneInv, PhoneTypeOK
    <2>2. /\ queued' \in [Chats -> Seq(Frames)] /\ running' \subseteq Chats
          /\ task' \in [Frames -> {"none", "chat", "queued", "begin", "prompt", "next", "done"}]
      BY <1>t, <1>3, <1>4
    <2> QED
      BY <1>1, <1>b, <2>1, <2>2 DEF PhoneInv, PhoneTypeOK
  <1>7. SlotIsBusy'
    <2>1. \A d \in Chats : Starting(d) \subseteq Starting(d)'
      BY <1>t, <1>3, <1>4 DEF Starting
    <2>2. \A d \in Chats \ {c} : EndComing(d) => EndComing(d)'
      BY <1>1 DEF EndComing, c
    <2>3. c \in running' => h \in Starting(c)'
      BY <1>t, <1>3, <1>4 DEF Starting
    <2>4. \A d \in Chats : queued'[d] # <<>> => d \in running'
      BY <1>t, <1>2, <1>3 DEF PhoneInv, SlotIsBusy
    <2>5. ASSUME NEW d \in running'
          PROVE  behind' \/ Starting(d)' # {} \/ Going(d)' # {} \/ EndComing(d)'
      <3>1. d \in running /\ d \in Chats
        BY <1>t, <1>3
      <3> QED
        BY <1>b, <2>1, <2>2, <2>3, <2>5, <3>1, GoingStays DEF PhoneInv, SlotIsBusy
    <2> QED
      BY <2>4, <2>5 DEF SlotIsBusy
  <1>8. ChatOK'
    BY <1>t, <1>3, <1>4 DEF PhoneInv, ChatOK
  <1>9. QueuedOK'
    <2>1. CASE UNCHANGED <<queued, task>>
      BY <2>1, QueuedSame DEF PhoneInv
    <2>2. CASE /\ queued[c] # <<>> /\ queued' = [queued EXCEPT ![c] = Tail(@)]
               /\ task' = [task EXCEPT ![h] = "next"]
      <3>1. ASSUME NEW d \in Chats \ {c}, NEW i \in 1..Len(queued[d]) PROVE queued[d][i] # h
        BY <1>4, <2>2 DEF PhoneInv, QueuedOK
      <3>2. \A i \in 1..Len(queued[c]) : i # 1 => queued[c][i] # h
        <4>1. 1 \in 1..Len(queued[c])
          BY <1>2, <2>2, TypeFacts, LenProperties DEF PhoneInv
        <4> QED
          BY <1>2, <1>4, <2>2, <4>1 DEF PhoneInv, QueuedOK
      <3>3. \A f \in Frames : f # h => task'[f] = task[f]
        BY <1>t, <2>2
      <3>4. ASSUME NEW d \in Chats \ {c}, NEW i \in 1..Len(queued'[d])
            PROVE  /\ task'[queued'[d][i]] = "queued" /\ chat'[queued'[d][i]] = d
                   /\ \A j \in 1..Len(queued'[d]) : i # j => queued'[d][i] # queued'[d][j]
        <4>1. queued'[d] = queued[d]
          BY <1>t, <2>2
        <4> QED
          BY <3>1, <3>3, <4>1, TypeFacts DEF PhoneInv, QueuedOK
      <3>5. ASSUME NEW i \in 1..Len(queued'[c])
            PROVE  /\ task'[queued'[c][i]] = "queued" /\ chat'[queued'[c][i]] = c
                   /\ \A j \in 1..Len(queued'[c]) : i # j => queued'[c][i] # queued'[c][j]
        <4>1. queued'[c] = Tail(queued[c])
          BY <1>t, <1>2, <2>2
        <4>2. \A j \in 1..Len(queued'[c]) : /\ j + 1 \in 1..Len(queued[c])
                                            /\ queued'[c][j] = queued[c][j + 1]
          BY <1>4, <2>2, <4>1
        <4>3. i + 1 \in 1..Len(queued[c]) /\ i + 1 # 1 /\ queued'[c][i] = queued[c][i + 1]
          BY <4>2
        <4>5. /\ queued[c][i + 1] \in Frames /\ queued[c][i + 1] # h
              /\ task[queued[c][i + 1]] = "queued" /\ chat[queued[c][i + 1]] = c
          BY <1>2, <3>2, <4>3, TypeFacts DEF PhoneInv, QueuedOK
        <4>6. task'[queued'[c][i]] = "queued" /\ chat'[queued'[c][i]] = c
          BY <3>3, <4>3, <4>5
        <4>4. \A j \in 1..Len(queued'[c]) : i # j => i + 1 # j + 1
          OBVIOUS
        <4> QED
          BY <1>2, <4>2, <4>4, <4>6 DEF PhoneInv, QueuedOK
      <3> QED
        BY <3>4, <3>5 DEF QueuedOK
    <2> QED
      BY <1>3, <2>1, <2>2
  <1>10. ToldOK'
    <2>1. \A f \in Frames : f = e.turn => told[f] # "nothing"
      BY <1>1 DEF PhoneInv, HeardOK
    <2>2. \A f \in Frames : task'[f] = task[f] \/ (task[f] = "queued" /\ task'[f] = "next")
      BY <1>t, <1>3, <1>4
    <2>3. \A f \in Frames : task'[f] = "none" => told'[f] = told[f] /\ task[f] = "none"
      BY <2>1, <2>2 DEF PhoneInv, ToldOK
    <2> QED
      BY <1>5, <2>3, GoingStays, ToldStays DEF PhoneInv
  <1>11. HeardOK'
    BY <1>5, HeardPassed DEF PhoneInv
  <1>12. AsksOK'
    <2> SUFFICES ASSUME ~behind', NEW q \in Asks PROVE AskOK(q)'
      BY DEF AsksOK
    <2>1. AskOK(q) /\ e.ask # q
      BY <1>b, <1>2 DEF PhoneInv, AsksOK
    <2> QED
      BY <2>1, AskPassed DEF PhoneInv
  <1> QED
    BY <1>6, <1>7, <1>8, <1>9, <1>10, <1>11, <1>12 DEF PhoneInv

LEMMA OnEventKeeps ==
  ASSUME PhoneInv, OnEvent
  PROVE  PhoneInv'
  <1> DEFINE e == Head(events)
  <1>1. /\ Takes(e) /\ UNCHANGED <<hosted, open, turn, left, cut, spent, asked, record>>
        /\ \/ e.is = "update" /\ OnUpdate(e)
           \/ e.is = "added" /\ Asked(e)
           \/ e.is = "resolved" /\ Resolved(e)
           \/ e.is = "ended" /\ OnEnded(e)
           \/ e.is = "closed" /\ OnClosed(e)
    BY DEF OnEvent, Takes, hostVars
  <1> HIDE DEF e
  <1>2. e \in Event /\ (e.ask \in Asks <=> e.is \in {"added", "resolved"})
    BY <1>1, TakesSays DEF PhoneInv, HeardOK
  <1>3. words \subseteq Asks /\ notices \subseteq Asks /\ inbox \subseteq Asks
    BY DEF PhoneInv, PhoneTypeOK
  <1>4. CASE e.is = "update" /\ OnUpdate(e)
    <2>1. UNCHANGED <<seen, running, queued, task, chat, notices, words, inbox, told>>
      BY <1>4 DEF OnUpdate, slotVars
    <2> QED
      BY <1>1, <1>2, <1>3, <1>4, <2>1, PassKeeps
  <1>5. CASE e.is = "added" /\ Asked(e)
    <2>1. /\ words' = words \cup {e.ask} /\ notices' = notices \cup {e.ask} /\ inbox' = inbox \cup {e.ask}
          /\ UNCHANGED <<seen, running, queued, task, chat, told>>
      BY <1>5 DEF Asked, slotVars
    <2> QED
      BY <1>1, <1>2, <1>3, <1>5, <2>1, PassKeeps
  <1>6. CASE e.is = "resolved" /\ Resolved(e)
    <2>1. /\ words' = words \ {e.ask} /\ notices' = notices \ {e.ask} /\ inbox' = inbox \ {e.ask}
          /\ UNCHANGED <<seen, running, queued, task, chat, told>>
      BY <1>6 DEF Resolved, slotVars, phoneVars
    <2> QED
      BY <1>1, <1>2, <1>3, <1>6, <2>1, PassKeeps
  <1>7. CASE e.is = "ended" /\ OnEnded(e)
    BY <1>1, <1>7, EndedKeeps DEF OnEnded
  <1>8. CASE e.is = "closed" /\ OnClosed(e)
    <2>1. UNCHANGED <<seen, running, queued, task, chat, notices, words, inbox, told>>
      BY <1>8 DEF OnClosed, slotVars, phoneVars
    <2> QED
      BY <1>1, <1>2, <1>3, <1>8, <2>1, PassKeeps
  <1> QED
    BY <1>1, <1>4, <1>5, <1>6, <1>7, <1>8

-----------------------------------------------------------------------------
(* What the contract keeps *)

LEMMA PhoneBegins == Init => PhoneInv
  <1> SUFFICES ASSUME Init PROVE PhoneInv
    OBVIOUS
  <1>e. /\ \A S : <<>> \in Seq(S)
        /\ Len(<<>>) = 0
    OBVIOUS
  <1>b. SeenLimit \in Nat \ {0} /\ Budget \in Nat /\ ChatOf \in [Frames -> Chats \cup {None}] /\ None \notin Frames
    BY PhoneBounds DEF PhoneBounds, Turns
  <1>1. PhoneTypeOK
    <2>1. /\ hosted \subseteq Chats /\ open \subseteq hosted
          /\ turn \in [Chats -> Turns \cup {None}] /\ left \in [Chats -> SUBSET Turns] /\ cut \subseteq Chats
          /\ spent \in 0..Budget
      BY <1>b DEF Init
    <2>2. record \in [Chats -> Seq(Update)] /\ queued \in [Chats -> Seq(Frames)]
      BY <1>e DEF Init
    <2>3. events \in Seq(Event) /\ seen \in Seq(Frames) /\ Len(seen) <= SeenLimit
      BY <1>e, <1>b DEF Init
    <2>4. /\ running \subseteq Chats
          /\ task \in [Frames -> {"none", "chat", "queued", "begin", "prompt", "next", "done"}]
          /\ chat \in [Frames -> Chats \cup {None}]
          /\ notices \subseteq Asks /\ words \subseteq Asks /\ inbox \subseteq Asks
          /\ told \in [Frames -> {"nothing", "queued", "error", "running", "ended", "cancelled"}]
      BY <1>b DEF Init
    <2>5. /\ asked \in [Asks -> [is : {"none", "pending", "resolved"}, chat : Chats \cup {None}, turn : Turns \cup {None}]]
          /\ behind \in BOOLEAN
      BY DEF Init
    <2> QED
      BY <2>1, <2>2, <2>3, <2>4, <2>5 DEF PhoneTypeOK
  <1>2. SlotIsBusy /\ ChatOK
    BY <1>e DEF Init, SlotIsBusy, ChatOK
  <1>3. QueuedOK /\ HeardOK
    BY <1>e DEF Init, QueuedOK, HeardOK
  <1>4. ToldOK
    <2>1. \A c \in Chats : Going(c) = {}
      BY DEF Init, Going
    <2> QED
      BY <2>1 DEF Init, ToldOK
  <1>5. AsksOK
    BY <1>e DEF Init, AsksOK, AskOK, Nowhere, Silence
  <1> QED
    BY <1>1, <1>2, <1>3, <1>4, <1>5 DEF PhoneInv

LEMMA PhoneStep ==
  ASSUME PhoneInv, [Next]_vars
  PROVE  PhoneInv'
  <1>1. CASE UNCHANGED vars
    <2>1. /\ UNCHANGED <<hosted, open, turn, left, cut, spent, asked, record, events, behind, seen>>
          /\ UNCHANGED <<running, queued, task, chat, notices, words, inbox, told>>
      BY <1>1 DEF vars, hostVars, streamVars, slotVars, askVars, phoneVars
    <2>2. /\ open \subseteq hosted /\ spent \in 0..Budget
          /\ turn \in [Chats -> Turns \cup {None}] /\ record \in [Chats -> Seq(Update)]
          /\ told \in [Frames -> {"nothing", "queued", "error", "running", "ended", "cancelled"}]
      BY DEF PhoneInv, PhoneTypeOK
    <2> QED
      BY <2>1, <2>2, QuietKeeps
  <1>2. ASSUME NEW f \in Frames, Inbound(f) PROVE PhoneInv'
    BY <1>2, InboundKeeps
  <1>3. ASSUME NEW f \in Frames, Serve(f) PROVE PhoneInv'
    BY <1>3, ServeKeeps
  <1>4. ASSUME NEW c \in Chats, HostStep(c) PROVE PhoneInv'
    BY <1>4, HostKeeps
  <1>5. ASSUME NEW q \in Asks, Answer(q) PROVE PhoneInv'
    BY <1>5, AnswerKeeps DEF Answer, slotVars, askVars, phoneVars
  <1>6. ASSUME NEW q \in Asks, DeleteNotification(q) PROVE PhoneInv'
    <2>1. /\ UNCHANGED <<hosted, open, turn, left, cut, spent, asked, record, events, behind, seen>>
          /\ UNCHANGED <<running, queued, task, chat, words, inbox, told>>
          /\ notices' \subseteq notices
      BY <1>6 DEF DeleteNotification, hostVars, streamVars, slotVars, phoneVars
    <2>2. /\ open \subseteq hosted /\ spent \in 0..Budget
          /\ turn \in [Chats -> Turns \cup {None}] /\ record \in [Chats -> Seq(Update)]
          /\ told \in [Frames -> {"nothing", "queued", "error", "running", "ended", "cancelled"}]
      BY DEF PhoneInv, PhoneTypeOK
    <2> QED
      BY <2>1, <2>2, QuietKeeps
  <1>7. CASE OnEvent
    BY <1>7, OnEventKeeps
  <1> QED
    BY <1>1, <1>2, <1>3, <1>4, <1>5, <1>6, <1>7 DEF Next

LEMMA AsksEverywhere == PhoneInv => AskEverywhere
  <1> SUFFICES ASSUME PhoneInv, ~behind, NEW q \in Asks, \A i \in 1..Len(events) : events[i].ask # q
               PROVE  IF asked[q].is = "pending" THEN q \in words /\ q \in inbox
                      ELSE q \notin words \cup inbox \cup notices
    BY DEF AskEverywhere
  <1>1. AskOK(q) /\ At(q, "added") = {} /\ At(q, "resolved") = {}
    BY DEF PhoneInv, AsksOK, At
  <1>2. asked[q].is \in {"none", "pending", "resolved"}
    BY DEF PhoneInv, PhoneTypeOK
  <1> QED
    BY <1>1, <1>2 DEF AskOK, Nowhere

\* Whatever the phone sends, the host and its other clients do and the broadcast
\* drops, a chat's slot is never held by nothing (phone.rs:741, 915), and a request
\* is shown in all places or in none (phone.rs:20).
THEOREM PhoneHeld == Spec => [](PhoneTypeOK /\ SlotIsBusy /\ AskEverywhere)
  <1>1. PhoneInv /\ [Next]_vars => PhoneInv'
    BY PhoneStep
  <1>2. PhoneInv => PhoneTypeOK /\ SlotIsBusy
    BY DEF PhoneInv
  <1> QED
    BY <1>1, <1>2, PhoneBegins, AsksEverywhere, PTL DEF Spec

-----------------------------------------------------------------------------
(* A message runs once *)

\* Only the frame that is sent is newly taken.
NoneTaken == \A g \in Frames : task'[g] \notin {"none", "done"} \/ told'[g] # "nothing" => Taken(g)

LEMMA ServeTakes ==
  ASSUME PhoneInv, NEW f \in Frames, Serve(f)
  PROVE  NoneTaken
  <1>1. /\ task[f] \in {"chat", "begin", "prompt", "next"}
        /\ \A g \in Frames : g # f => task'[g] = task[g] /\ told'[g] = told[g]
    BY DEF PhoneInv, PhoneTypeOK, Serve, ChatRefused, Chat, NewChat, Place, BeginOpens, BeginRefused,
           Prompt, PromptRefused, StartFails, NextStarts, NextGone, Tell, phoneVars
  <1> QED
    BY <1>1 DEF NoneTaken, Taken

LEMMA HostTakes ==
  ASSUME PhoneInv, NEW c \in Chats, HostStep(c)
  PROVE  NoneTaken
  <1>1. CASE CancelNothing(c)
    BY <1>1 DEF CancelNothing, slotVars, NoneTaken, Taken
  <1>2. CASE UNCHANGED <<slotVars, phoneVars>>
    BY <1>2 DEF slotVars, phoneVars, NoneTaken, Taken
  <1> QED
    BY <1>1, <1>2 DEF HostStep, OtherPrompts, Messages, Updated, Requested, EndTurns, EndTurn, Close, RemoveAgent, LetGo, Cancel

LEMMA EventTakes ==
  ASSUME PhoneInv, OnEvent
  PROVE  NoneTaken
  <1> DEFINE e == Head(events)
  <1>1. Takes(e)
    BY DEF OnEvent, Takes
  <1>2. e = events[1] /\ 1 \in 1..Len(events) /\ e \in Event
    BY <1>1, TakesSays DEF PhoneInv
  <1>3. CASE OnEnded(e)
    <2>1. \A f \in Frames : f = e.turn => told[f] # "nothing"
      BY <1>2 DEF PhoneInv, HeardOK
    <2>2. e.chat \in Chats
      BY <1>2 DEF Event
    <2>3. queued[e.chat] # <<>> => Head(queued[e.chat]) \in Frames /\ task[Head(queued[e.chat])] = "queued"
      <3>1. queued[e.chat] \in Seq(Frames) /\ \A i \in 1..Len(queued[e.chat]) : queued[e.chat][i] \in Frames
        BY <2>2, TypeFacts DEF PhoneInv
      <3>2. queued[e.chat] # <<>> => 1 \in 1..Len(queued[e.chat]) /\ Head(queued[e.chat]) = queued[e.chat][1]
        BY <3>1, LenProperties
      <3> QED
        BY <2>2, <3>1, <3>2 DEF PhoneInv, QueuedOK
    <2>4. \A f \in Frames : task'[f] = task[f] \/ task[f] = "queued"
      BY <1>3, <2>3 DEF OnEnded, NextQueued, PhoneInv, PhoneTypeOK
    <2>5. \A f \in Frames : told'[f] = told[f] \/ f = e.turn
      BY <1>3 DEF OnEnded
    <2> QED
      BY <2>1, <2>4, <2>5 DEF NoneTaken, Taken
  <1>4. CASE UNCHANGED <<task, told>>
    BY <1>4 DEF NoneTaken, Taken
  <1> QED
    BY <1>3, <1>4 DEF OnEvent, OnUpdate, Asked, Resolved, OnClosed, slotVars, phoneVars

LEMMA InboundTakes ==
  ASSUME PhoneInv, OnceOK, InTime, NEW f \in Frames, Inbound(f)
  PROVE  OnceOK'
  <1>1. /\ task[f] = "none" /\ told[f] = "nothing" /\ UNCHANGED told
        /\ task' \in [Frames -> {"none", "chat", "queued", "begin", "prompt", "next", "done"}]
        /\ \A g \in Frames : g # f => task'[g] = task[g]
        /\ task'[f] = "done" \/ (task'[f] = "chat" /\ FirstTime(f))
    BY DEF Inbound, Sends, phoneVars, PhoneInv, PhoneTypeOK, ToldOK
  <1>2. \A g \in Frames : g # f => (Taken(g)' <=> Taken(g))
    BY <1>1 DEF Taken
  <1>3. CASE task'[f] = "chat"
    <2>1. \A g \in Frames \ {f} : MessageOf[g] = MessageOf[f] => ~Taken(g)
      BY <1>1, <1>3 DEF InTime, FirstTime, PhoneInv, ToldOK, Taken
    <2> QED
      BY <1>2, <2>1 DEF OnceOK
  <1>4. CASE task'[f] = "done"
    <2>1. ~Taken(f)'
      BY <1>1, <1>4 DEF Taken
    <2> QED
      BY <1>2, <2>1 DEF OnceOK
  <1> QED
    BY <1>1, <1>3, <1>4

LEMMA OnceStep ==
  ASSUME PhoneInv, OnceOK, [Next]_vars, [InTime]_vars
  PROVE  OnceOK'
  <1>1. ASSUME NoneTaken PROVE OnceOK'
    BY <1>1 DEF NoneTaken, OnceOK, Taken
  <1>2. CASE UNCHANGED vars
    BY <1>2 DEF vars, slotVars, phoneVars, OnceOK, Taken
  <1>3. ASSUME NEW f \in Frames, Inbound(f) PROVE OnceOK'
    <2>1. spent' # spent
      BY <1>3 DEF Inbound, Sends, Input, PhoneInv, PhoneTypeOK
    <2>2. InTime
      BY <2>1 DEF vars, hostVars
    <2> QED
      BY <1>3, <2>2, InboundTakes
  <1>4. ASSUME NEW f \in Frames, Serve(f) PROVE OnceOK'
    BY <1>1, <1>4, ServeTakes
  <1>5. ASSUME NEW c \in Chats, HostStep(c) PROVE OnceOK'
    BY <1>1, <1>5, HostTakes
  <1>6. ASSUME NEW q \in Asks, Answer(q) \/ DeleteNotification(q) PROVE OnceOK'
    BY <1>6 DEF Answer, DeleteNotification, slotVars, phoneVars, OnceOK, Taken
  <1>7. CASE OnEvent
    BY <1>1, <1>7, EventTakes
  <1> QED
    BY <1>2, <1>3, <1>4, <1>5, <1>6, <1>7 DEF Next

\* And a message runs once (phone.rs:50, first_time), for a phone that sends each
\* again only while the contract remembers it: the contract is sound.
THEOREM PhoneKept == Spec /\ [][InTime]_vars => []PhoneSound
  <1>1. Init => OnceOK
    BY DEF Init, OnceOK, Taken
  <1>2. PhoneInv /\ [Next]_vars => PhoneInv'
    BY PhoneStep
  <1>3. PhoneInv /\ OnceOK /\ [Next]_vars /\ [InTime]_vars => OnceOK'
    BY OnceStep
  <1>4. PhoneInv /\ OnceOK => PhoneSound
    BY AsksEverywhere DEF PhoneSound, PhoneInv, OnceOK, RunsOnce, Taken
  <1> QED
    BY <1>1, <1>2, <1>3, <1>4, PhoneBegins, PTL DEF Spec

=============================================================================
