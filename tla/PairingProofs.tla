---------------------------- MODULE PairingProofs ----------------------------
(***************************************************************************)
(* What Pairing promises, for any devices, connections and bounds: codes   *)
(* pair once, who was unpaired stays out, and host and relay agree once    *)
(* nothing is under way between them.                                      *)
(***************************************************************************)
EXTENDS Pairing, TLAPS, SequenceTheorems

-----------------------------------------------------------------------------
(* Types *)

LEMMA Bounds ==
  /\ MaxCodes \in Nat /\ MaxPairings \in Nat /\ MaxDials \in Nat /\ MaxFaults \in Nat
  /\ None \notin Devices
  /\ Conns \cap Ops = {} /\ "reconcile" \notin Conns \cup Ops
  BY PairingAssumption

LEMMA PutTyped ==
  ASSUME NEW S, NEW T, NEW f \in [S -> T], NEW x, NEW v \in T
  PROVE  [f EXCEPT ![x] = v] \in [S -> T]
  OBVIOUS

KeysTyped == {peers, file} \subseteq [Devices -> 0..MaxPairings]
CodeTyped == /\ code \in [id : 0..MaxCodes, failures : Nat, live : BOOLEAN]
             /\ code.id = 0 => code = NoCode
\* Who pairs, has a session or unpairs has a device; a pairing connection has a code.
ConnTyped ==
    /\ conn \in [Conns -> ConnType]
    /\ \A k \in Conns :
          /\ conn[k].phase # "none" => conn[k].dev \in Devices
          /\ conn[k].phase = "pairs" => conn[k].code # 0
          /\ conn[k].phase \in {"asking", "asked"} => conn[k].id # 0
OpType == [phase : {"none", "found", "asking"}, dev : Devices \cup {None}, ids : SUBSET Ids]
OpTyped == /\ op \in [Ops -> OpType]
           /\ \A u \in Ops : op[u].phase # "none" => op[u].dev \in Devices
\* Reconciling is of a tunnel that is up, and asks for no device both ways.
RecType == [phase : {"none", "spawned", "asks", "asking"}, listed : SUBSET Devices,
            add : SUBSET Devices, drop : SUBSET Devices]
RecTyped ==
    /\ rec \in RecType
    /\ rec.phase # "none" => tunnel = "up"
    /\ rec.phase \in {"none", "spawned"} => rec.add = {} /\ rec.drop = {}
    /\ rec.add \cap rec.drop = {}
TunnelTyped == tunnel \in {"down", "dialed", "up", "lost"}
CtlTyped == ctl \in Seq(CallType)
ThroughTyped == through \subseteq Devices
WonTyped == won \subseteq (1..MaxCodes) \X Ids
OutTyped == out \subseteq Ids
AstrayTyped == astray \subseteq Devices
MadeType == [codes : 0..MaxCodes, ids : 0..MaxPairings, dials : 0..MaxDials,
             faults : 0..MaxFaults]
MadeTyped == made \in MadeType
\* Nobody waits for an answer of the relay.
Idle == /\ \A k \in Conns : conn[k].phase # "asking"
        /\ \A u \in Ops : op[u].phase # "asking"
        /\ rec.phase # "asking"
IdleTyped == tunnel # "up" => ctl = <<>> /\ Idle

Typed == /\ KeysTyped /\ CodeTyped /\ ConnTyped /\ OpTyped /\ RecTyped /\ TunnelTyped
         /\ CtlTyped /\ ThroughTyped /\ WonTyped /\ OutTyped /\ AstrayTyped /\ MadeTyped
         /\ IdleTyped

LEMMA TypedIs == Typed => PairingTypeOK
  <1> SUFFICES ASSUME Typed PROVE PairingTypeOK
    OBVIOUS
  <1>1. tunnel # "up" => ctl = <<>> /\ Asking = {}
    BY DEF Typed, IdleTyped, Idle, Asking
  <1> QED
    BY <1>1 DEF Typed, PairingTypeOK, KeysTyped, CodeTyped, ConnTyped, OpTyped, OpType, RecTyped,
       RecType, TunnelTyped, CtlTyped, ThroughTyped, WonTyped, OutTyped, AstrayTyped

LEMMA TypedInit == PairingInit => Typed
  <1> SUFFICES ASSUME PairingInit PROVE Typed
    OBVIOUS
  <1> USE Bounds DEF PairingInit
  <1>1. ConnTyped
    BY DEF ConnTyped, ConnType, NoConn
  <1>2. IdleTyped
    BY DEF IdleTyped, Idle, NoConn, NoOp, NoTask
  <1>3. KeysTyped /\ CodeTyped
    BY DEF KeysTyped, CodeTyped, NoCode
  <1>4. OpTyped /\ RecTyped
    BY DEF OpTyped, OpType, NoOp, RecTyped, RecType, NoTask
  <1>5. TunnelTyped /\ CtlTyped /\ ThroughTyped /\ WonTyped /\ OutTyped /\ AstrayTyped /\ MadeTyped
    BY DEF TunnelTyped, CtlTyped, ThroughTyped, WonTyped, OutTyped, AstrayTyped, MadeTyped, MadeType
  <1> QED
    BY <1>1, <1>2, <1>3, <1>4, <1>5 DEF Typed

LEMMA FaultTyped ==
  ASSUME MadeTyped, Fault
  PROVE  MadeTyped'
  BY Bounds DEF Fault, CanFault, MadeTyped, MadeType

\* The connections and unpairings whose requests fail.
LEMMA RefusedTyped ==
  ASSUME Typed, NEW W, Refused(W)
  PROVE  /\ ConnTyped' /\ OpTyped' /\ OutTyped'
         /\ \A k \in Conns : conn'[k].phase = "asking" => k \notin W /\ conn'[k] = conn[k]
         /\ \A u \in Ops : op'[u].phase = "asking" => u \notin W /\ op'[u] = op[u]
  <1> USE Bounds DEF Typed, Refused
  <1>1. ConnTyped'
    BY DEF ConnTyped, ConnType, NoConn
  <1>2. OpTyped'
    BY DEF OpTyped, OpType, NoOp
  <1>3. OutTyped'
    BY DEF OutTyped, OpTyped, OpType
  <1> QED
    BY <1>1, <1>2, <1>3 DEF ConnTyped, OpTyped, NoConn, NoOp

\* What a connection may be.
ConnRight(r) == /\ r \in ConnType
                /\ r.phase # "none" => r.dev \in Devices
                /\ r.phase = "pairs" => r.code # 0
                /\ r.phase \in {"asking", "asked"} => r.id # 0
                /\ r.phase = "asking" => tunnel = "up"
LEMMA ConnPut ==
  ASSUME ConnTyped, IdleTyped, UNCHANGED <<op, rec, tunnel>>, tunnel # "up" => ctl' = ctl,
         NEW k \in Conns, NEW r, ConnRight(r), conn' = [conn EXCEPT ![k] = r]
  PROVE  ConnTyped' /\ IdleTyped'
  <1>1. conn' \in [Conns -> ConnType]
    BY DEF ConnTyped, ConnRight
  <1>2. \A n \in Conns : conn'[n] = IF n = k THEN r ELSE conn[n]
    BY DEF ConnTyped
  <1> QED
    BY <1>1, <1>2 DEF ConnTyped, ConnRight, IdleTyped, Idle

LEMMA NoConnRight ==
  /\ ConnRight(NoConn) /\ NoConn \in ConnType
  /\ NoConn.phase = "none" /\ NoConn.id = 0 /\ NoConn.changed = FALSE
  BY Bounds DEF ConnRight, ConnType, NoConn

LEMMA PairingRight ==
  ASSUME NEW d \in Devices, NEW c \in 1..MaxCodes, NEW relayed \in BOOLEAN
  PROVE  ConnRight([NoConn EXCEPT !.phase = "pairs", !.dev = d, !.code = c, !.relayed = relayed])
  <1> DEFINE q == [NoConn EXCEPT !.dev = d]
             r == [q EXCEPT !.phase = "pairs", !.code = c, !.relayed = relayed]
  <1>1. q \in ConnType /\ q.dev = d
    BY NoConnRight DEF ConnType
  <1>2. 0 \in 0..MaxCodes /\ c \in 0..MaxCodes /\ c # 0
    BY Bounds
  <1>3. r \in ConnType /\ r.dev = d /\ r.phase = "pairs" /\ r.code = c
    <2> HIDE DEF q
    <2> QED
      BY <1>1, <1>2 DEF ConnType
  <1>4. r = [NoConn EXCEPT !.phase = "pairs", !.dev = d, !.code = c, !.relayed = relayed]
    BY Zenon
  <1> QED
    BY <1>2, <1>3, <1>4 DEF ConnRight

LEMMA TakenRight ==
  ASSUME NEW r \in ConnType, NEW p \in {"asking", "asked"}, NEW i \in Ids, NEW b \in BOOLEAN
  PROVE  [r EXCEPT !.phase = p, !.id = i, !.code = 0, !.relayed = b] \in ConnType
  <1>1. 0 \in 0..MaxCodes /\ i \in 0..MaxPairings
    BY Bounds DEF Ids
  <1> QED
    BY <1>1 DEF ConnType

LEMMA SessionRight ==
  ASSUME NEW d \in Devices, NEW id \in 0..MaxPairings, NEW phase \in {"greeted", "open"}
  PROVE  /\ ConnRight(Session(d, id, phase))
         /\ Session(d, id, phase).phase = phase /\ Session(d, id, phase).id = id
  BY NoConnRight DEF Session, ConnRight, ConnType

\* A caller more that asks, while the tunnel is up.
LEMMA AskTyped ==
  ASSUME CtlTyped, NEW w \in Conns \cup Ops \cup {"reconcile"}, NEW what \in {"paired", "unpair"},
         NEW d \in Devices, ctl' = Append(ctl, Request(w, what, d))
  PROVE  CtlTyped'
  BY DEF CtlTyped, CallType, Request

LEMMA TypedStep == Typed /\ [PairingNext]_pairingVars => Typed'
  <1> SUFFICES ASSUME Typed, [PairingNext]_pairingVars PROVE Typed'
    OBVIOUS
  <1> USE Bounds DEF Typed, keyVars, relayVars
  <1>1. CASE RelayTakes
    <2> USE <1>1 DEF RelayTakes
    <2>1. Head(ctl) \in CallType /\ Tail(ctl) \in Seq(CallType)
      BY HeadTailProperties DEF CtlTyped
    <2>2. CtlTyped' /\ ThroughTyped'
      BY <2>1 DEF CtlTyped, ThroughTyped, CallType
    <2> QED
      BY <2>2 DEF KeysTyped, CodeTyped, ConnTyped, OpTyped, RecTyped, TunnelTyped, WonTyped,
         OutTyped, AstrayTyped, MadeTyped, IdleTyped
  <1>2. CASE Register
    <2> USE <1>2 DEF Register
    <2>1. RecTyped' /\ TunnelTyped' /\ IdleTyped'
      BY DEF RecTyped, RecType, NoTask, TunnelTyped, ThroughTyped, IdleTyped, Idle
    <2>2. AstrayTyped' /\ MadeTyped'
      BY DEF AstrayTyped, MadeTyped, MadeType
    <2> QED
      BY <2>1, <2>2 DEF KeysTyped, CodeTyped, ConnTyped, OpTyped, CtlTyped, ThroughTyped,
         WonTyped, OutTyped
  <1>3. CASE TakeRegistered
    <2> USE <1>3 DEF TakeRegistered
    <2>1. RecTyped' /\ TunnelTyped' /\ IdleTyped'
      BY DEF RecTyped, RecType, TunnelTyped, IdleTyped
    <2> QED
      BY <2>1 DEF KeysTyped, CodeTyped, ConnTyped, OpTyped, CtlTyped, ThroughTyped,
         WonTyped, OutTyped, AstrayTyped, MadeTyped
  <1>4. CASE ReconcileBegin
    <2> USE <1>4 DEF ReconcileBegin
    <2>1. RecTyped' /\ IdleTyped' /\ AstrayTyped'
      BY DEF RecTyped, RecType, ToAsk, Paired, IdleTyped, AstrayTyped
    <2> QED
      BY <2>1 DEF KeysTyped, CodeTyped, ConnTyped, OpTyped, CtlTyped, ThroughTyped, TunnelTyped,
         WonTyped, OutTyped, MadeTyped
  <1>5. CASE ReconcileAsk
    <2> USE <1>5 DEF ReconcileAsk
    <2>1. RecTyped'
      <3>1. ASSUME NEW d, rec' = [rec EXCEPT !.phase = "asking", !.add = @ \ {d}]
            PROVE  RecTyped'
        BY <3>1 DEF RecTyped, RecType
      <3>2. ASSUME NEW d, rec' = [rec EXCEPT !.phase = "asking", !.drop = @ \ {d}]
            PROVE  RecTyped'
        BY <3>2 DEF RecTyped, RecType
      <3>3. CASE rec' = NoTask
        BY <3>3 DEF RecTyped, RecType, NoTask
      <3> QED
        BY <3>1, <3>2, <3>3
    <2>2. CtlTyped'
      BY AskTyped DEF RecTyped, RecType, CtlTyped
    <2>3. IdleTyped'
      BY DEF RecTyped, IdleTyped
    <2> QED
      BY <2>1, <2>2, <2>3 DEF KeysTyped, CodeTyped, ConnTyped, OpTyped, ThroughTyped, TunnelTyped,
         WonTyped, OutTyped, AstrayTyped, MadeTyped
  <1>6. CASE TunnelLost
    <2> USE <1>6 DEF TunnelLost
    <2>1. RecTyped' /\ TunnelTyped' /\ CtlTyped'
      BY DEF RecTyped, RecType, NoTask, TunnelTyped, CtlTyped
    <2>2. ConnTyped' /\ OpTyped' /\ OutTyped'
      BY RefusedTyped
    <2>3. IdleTyped'
      BY DEF IdleTyped, Idle, Refused, Asking, NoConn, NoOp, NoTask
    <2> QED
      BY <2>1, <2>2, <2>3 DEF KeysTyped, CodeTyped, ThroughTyped, WonTyped, AstrayTyped, MadeTyped
  <1>7. CASE TunnelNoticed
    <2> USE <1>7 DEF TunnelNoticed
    <2>1. RecTyped' /\ TunnelTyped' /\ IdleTyped'
      BY DEF RecTyped, TunnelTyped, IdleTyped, Idle
    <2> QED
      BY <2>1 DEF KeysTyped, CodeTyped, ConnTyped, OpTyped, CtlTyped, ThroughTyped,
         WonTyped, OutTyped, AstrayTyped, MadeTyped
  <1>8. CASE ShowCode
    <2> USE <1>8 DEF ShowCode
    <2>1. CodeTyped' /\ MadeTyped'
      BY DEF CodeTyped, MadeTyped, MadeType
    <2> QED
      BY <2>1 DEF KeysTyped, ConnTyped, OpTyped, RecTyped, TunnelTyped, CtlTyped, ThroughTyped,
         WonTyped, OutTyped, AstrayTyped, IdleTyped, Idle
  <1>9. CASE Expire
    <2> USE <1>9 DEF Expire
    <2>1. code' \in [id : 0..MaxCodes, failures : Nat, live : BOOLEAN] /\ code'.id = code.id
      BY DEF CodeTyped
    <2>2. CodeTyped'
      <3>1. code.id # 0
        BY DEF CodeTyped, NoCode
      <3> QED
        BY <2>1, <3>1 DEF CodeTyped
    <2> QED
      BY <2>2 DEF KeysTyped, ConnTyped, OpTyped, RecTyped, TunnelTyped, CtlTyped, ThroughTyped,
         WonTyped, OutTyped, AstrayTyped, MadeTyped, IdleTyped, Idle
  <1>10. CASE Crash
    <2> USE <1>10 DEF Crash
    <2>1. KeysTyped' /\ CodeTyped' /\ CtlTyped' /\ TunnelTyped'
      BY DEF KeysTyped, CodeTyped, NoCode, CtlTyped, TunnelTyped
    <2>2. ConnTyped' /\ OpTyped' /\ RecTyped'
      BY DEF ConnTyped, ConnType, NoConn, OpTyped, OpType, NoOp, RecTyped, RecType, NoTask
    <2>3. IdleTyped' /\ MadeTyped'
      BY FaultTyped DEF IdleTyped, Idle, NoConn, NoOp, NoTask
    <2> QED
      BY <2>1, <2>2, <2>3 DEF ThroughTyped, WonTyped, OutTyped, AstrayTyped
  <1>11. ASSUME NEW w \in Conns \cup Ops \cup {"reconcile"}, Answered(w) PROVE Typed'
    <2> USE <1>11 DEF Answered
    <2>1. ConnTyped' /\ OpTyped' /\ OutTyped'
      <3>1. CASE w \in Conns /\ conn' = [conn EXCEPT ![w].phase = "asked"] /\ UNCHANGED <<op, out>>
        <4>1. conn[w].phase = "asking"
          BY <3>1 DEF Asking
        <4> QED
          BY <3>1, <4>1 DEF ConnTyped, ConnType, OpTyped, OutTyped
      <3>2. CASE Refused({w})
        BY <3>2, RefusedTyped
      <3>3. CASE UNCHANGED <<conn, op, out>>
        BY <3>3 DEF ConnTyped, OpTyped, OutTyped
      <3> QED
        BY <3>1, <3>2, <3>3
    <2>2. RecTyped'
      <3>1. CASE w = "reconcile" /\ rec' = [rec EXCEPT !.phase = "asks"]
        BY <3>1 DEF Asking, RecTyped, RecType
      <3>2. CASE UNCHANGED rec
        BY <3>2 DEF RecTyped
      <3> QED
        BY <3>1, <3>2
    <2>3. tunnel = "up"
      BY DEF IdleTyped, Idle, Asking
    <2> QED
      BY <2>1, <2>2, <2>3 DEF KeysTyped, CodeTyped, TunnelTyped, CtlTyped, ThroughTyped,
         WonTyped, AstrayTyped, MadeTyped, IdleTyped
  <1>12. ASSUME NEW w \in Conns \cup Ops \cup {"reconcile"}, RequestFails(w) PROVE Typed'
    <2> USE <1>12 DEF RequestFails
    <2>1. ConnTyped' /\ OpTyped' /\ OutTyped'
      BY RefusedTyped
    <2>2. CtlTyped'
      <3>1. ASSUME NEW i \in DOMAIN ctl, ctl' = RemoveAt(ctl, i) PROVE CtlTyped'
        <4>1. SubSeq(ctl, 1, i - 1) \in Seq(CallType) /\ SubSeq(ctl, i + 1, Len(ctl)) \in Seq(CallType)
          BY SubSeqProperties, LenProperties DEF CtlTyped
        <4> QED
          BY <3>1, <4>1, ConcatProperties DEF CtlTyped, RemoveAt
      <3> QED
        BY <3>1 DEF CtlTyped
    <2>3. RecTyped' /\ MadeTyped'
      BY FaultTyped DEF RecTyped, RecType, Asking
    <2>4. AstrayTyped'
      BY DEF AstrayTyped, DevOf, Asking, ConnTyped, OpTyped, RecTyped, RecType, Paired
    <2>5. tunnel = "up"
      BY DEF IdleTyped, Idle, Asking
    <2> QED
      BY <2>1, <2>2, <2>3, <2>4, <2>5 DEF KeysTyped, CodeTyped, TunnelTyped, ThroughTyped,
         WonTyped, IdleTyped
  <1>13. ASSUME NEW d \in Devices, OperatorUnpairs(d) PROVE Typed'
    <2> USE <1>13 DEF OperatorUnpairs
    <2>1. MadeTyped' /\ ThroughTyped' /\ AstrayTyped'
      BY FaultTyped DEF ThroughTyped, AstrayTyped
    <2> QED
      BY <2>1 DEF KeysTyped, CodeTyped, ConnTyped, OpTyped, RecTyped, TunnelTyped, CtlTyped,
         WonTyped, OutTyped, IdleTyped, Idle
  <1>14. ASSUME NEW k \in Conns, PairFails(k) PROVE Typed'
    <2> USE <1>14 DEF PairFails
    <2>1. CodeTyped'
      <3>1. CASE code.id # 0 /\ code' = [code EXCEPT !.failures = @ + 1]
        <4>1. code' \in [id : 0..MaxCodes, failures : Nat, live : BOOLEAN] /\ code'.id = code.id
          BY <3>1 DEF CodeTyped
        <4> QED
          BY <3>1, <4>1 DEF CodeTyped
      <3> QED
        BY <3>1 DEF CodeTyped, CountFailure
    <2>2. ConnTyped' /\ IdleTyped'
      BY ConnPut, NoConnRight
    <2> QED
      BY <2>1, <2>2 DEF KeysTyped, OpTyped, RecTyped, TunnelTyped, CtlTyped, ThroughTyped,
         WonTyped, OutTyped, AstrayTyped, MadeTyped
  <1>15. ASSUME NEW k \in Conns, PairTakes(k) PROVE Typed'
    <2> USE <1>15 DEF PairTakes
    <2>1. conn[k].dev \in Devices /\ conn[k].code \in 1..MaxCodes /\ made.ids + 1 \in Ids
      BY DEF ConnTyped, ConnType, MadeTyped, MadeType, Ids
    <2>2. CodeTyped' /\ MadeTyped' /\ WonTyped'
      <3>1. CodeTyped'
        BY DEF CodeTyped, CodeTaken, NoCode
      <3>2. MadeTyped'
        BY <2>1 DEF MadeTyped, MadeType, Ids
      <3>3. WonTyped'
        BY <2>1 DEF WonTyped
      <3> QED
        BY <3>1, <3>2, <3>3
    <2>3. PICK r : conn' = [conn EXCEPT ![k] = r] /\ ConnRight(r)
      <3> DEFINE tells == conn[k].relayed /\ tunnel = "up"
                 r == [conn[k] EXCEPT !.phase = IF tells THEN "asking" ELSE "asked",
                                      !.id = made.ids + 1, !.code = 0, !.relayed = tells]
      <3>1. r \in ConnType
        <4>1. conn[k] \in ConnType /\ tells \in BOOLEAN
          BY <2>1 DEF ConnTyped, ConnType
        <4> HIDE DEF tells
        <4> QED
          BY <2>1, <4>1, TakenRight
      <3>2. r.id # 0 /\ r.dev \in Devices /\ r.phase = IF tells THEN "asking" ELSE "asked"
        BY <2>1 DEF ConnTyped, ConnType, Ids
      <3>3. ConnRight(r)
        BY <3>1, <3>2 DEF ConnRight
      <3>4. conn' = [conn EXCEPT ![k] = NoConn] \/ conn' = [conn EXCEPT ![k] = r]
        OBVIOUS
      <3> QED
        BY <3>3, <3>4, NoConnRight
    <2>4. CtlTyped' /\ AstrayTyped'
      BY <2>1, AskTyped DEF CtlTyped, AstrayTyped
    <2>5. ConnTyped' /\ IdleTyped'
      BY <2>3, ConnPut
    <2> QED
      BY <2>2, <2>4, <2>5 DEF KeysTyped, OpTyped, RecTyped, TunnelTyped, ThroughTyped, OutTyped
  <1>16. ASSUME NEW k \in Conns, PairFinish(k) PROVE Typed'
    <2> USE <1>16 DEF PairFinish
    <2>1. conn[k].dev \in Devices /\ conn[k].id \in 0..MaxPairings
      BY DEF ConnTyped, ConnType
    <2>2. KeysTyped' /\ AstrayTyped'
      BY <2>1 DEF KeysTyped, AstrayTyped
    <2>3. ConnTyped' /\ IdleTyped'
      BY <2>1, ConnPut, NoConnRight, SessionRight
    <2>4. MadeTyped'
      BY FaultTyped DEF MadeTyped
    <2> QED
      BY <2>2, <2>3, <2>4 DEF CodeTyped, OpTyped, RecTyped, TunnelTyped, CtlTyped, ThroughTyped,
         WonTyped, OutTyped
  <1>17. ASSUME NEW k \in Conns, PairUnsent(k) PROVE Typed'
    <2> USE <1>17 DEF PairUnsent
    <2>1. ConnTyped' /\ IdleTyped' /\ AstrayTyped'
      BY DEF ConnTyped, ConnType, NoConn, IdleTyped, Idle, AstrayTyped
    <2> QED
      BY <2>1 DEF KeysTyped, CodeTyped, OpTyped, RecTyped, TunnelTyped, CtlTyped, ThroughTyped,
         WonTyped, OutTyped, MadeTyped
  <1>18. ASSUME NEW k \in Conns,
                \/ Open(k) \/ Check(k) \/ TakeFrame(k) \/ EndConn(k)
                \/ \E d \in Devices :
                      Greet(k, d) \/ \E relayed \in BOOLEAN : StartPair(k, d, relayed)
         PROVE  Typed'
    <2>1. ConnTyped' /\ IdleTyped'
      <3>1. CASE Open(k) \/ TakeFrame(k) \/ EndConn(k)
        <4>1. conn[k].dev \in Devices
          BY <3>1 DEF Open, TakeFrame, EndConn, ConnTyped
        <4>2. ConnRight([conn[k] EXCEPT !.phase = "open"])
          BY <4>1 DEF ConnRight, ConnTyped, ConnType
        <4>3. conn' = [conn EXCEPT ![k] = NoConn] \/ conn' = [conn EXCEPT ![k] = [conn[k] EXCEPT !.phase = "open"]]
          BY <3>1 DEF Open, TakeFrame, EndConn
        <4> QED
          BY <3>1, <4>2, <4>3, ConnPut, NoConnRight DEF Open, TakeFrame, EndConn
      <3>2. CASE Check(k)
        <4>1. conn[k].dev \in Devices
          BY <3>2 DEF Check, ConnTyped
        <4>2. ConnRight([conn[k] EXCEPT !.phase = "waits", !.changed = FALSE])
          BY <4>1 DEF ConnRight, ConnTyped, ConnType
        <4> QED
          BY <3>2, <4>2, ConnPut, NoConnRight DEF Check, Checked
      <3>3. ASSUME NEW d \in Devices, Greet(k, d) PROVE ConnTyped' /\ IdleTyped'
        <4>1. peers[d] \in 0..MaxPairings
          BY DEF KeysTyped
        <4> QED
          BY <3>3, <4>1, ConnPut, SessionRight DEF Greet
      <3>4. ASSUME NEW d \in Devices, NEW relayed \in BOOLEAN, StartPair(k, d, relayed)
            PROVE  ConnTyped' /\ IdleTyped'
        <4>1. code.id \in 1..MaxCodes
          BY <3>4 DEF StartPair, CodeTyped, NoCode
        <4> DEFINE r == [NoConn EXCEPT !.phase = "pairs", !.dev = d, !.code = code.id,
                                       !.relayed = relayed]
        <4>3. ConnRight(r)
          BY <4>1, PairingRight
        <4> QED
          BY <3>4, <4>3, ConnPut DEF StartPair
      <3> QED
        BY <1>18, <3>1, <3>2, <3>3, <3>4
    <2>2. UNCHANGED <<peers, file, code, op, rec, tunnel, ctl, through, made, won, out, astray>>
      BY <1>18 DEF Open, TakeFrame, EndConn, Check, Greet, StartPair
    <2> QED
      BY <2>1, <2>2 DEF KeysTyped, CodeTyped, OpTyped, RecTyped, TunnelTyped, CtlTyped, ThroughTyped,
         WonTyped, OutTyped, AstrayTyped, MadeTyped
  <1>19. ASSUME NEW u \in Ops, NEW d \in Devices, UnpairBegin(u, d) PROVE Typed'
    <2> USE <1>19 DEF UnpairBegin
    <2>1. OpTyped' /\ IdleTyped'
      BY DEF OpTyped, OpType, KeysTyped, Ids, IdleTyped, Idle
    <2> QED
      BY <2>1 DEF KeysTyped, CodeTyped, ConnTyped, RecTyped, TunnelTyped, CtlTyped, ThroughTyped,
         WonTyped, OutTyped, AstrayTyped, MadeTyped
  <1>20. ASSUME NEW u \in Ops, Revoke(u) PROVE Typed'
    <2> USE <1>20 DEF Revoke
    <2> DEFINE d == op[u].dev
               ids == op[u].ids \cup ({peers[d]} \ {0})
    <2>1. d \in Devices /\ ids \subseteq Ids
      BY DEF OpTyped, OpType, KeysTyped, Ids
    <2>2. KeysTyped' /\ AstrayTyped'
      <3>1. AstrayTyped'
        BY <2>1 DEF AstrayTyped
      <3>2. peers' \in [Devices -> 0..MaxPairings]
        <4>1. peers' = [peers EXCEPT ![d] = 0] /\ peers \in [Devices -> 0..MaxPairings]
          BY DEF KeysTyped
        <4> QED
          BY <4>1, PutTyped, 0 \in 0..MaxPairings
      <3>3. file' = peers' \/ file' = file
        BY DEF Saved
      <3> QED
        BY <3>1, <3>2, <3>3 DEF KeysTyped
    <2>3. ConnTyped' /\ \A k \in Conns : conn'[k].phase = conn[k].phase
      <3>1. CASE UNCHANGED conn
        BY <3>1 DEF ConnTyped
      <3>2. CASE conn' = [k \in Conns |-> Notified(k)]
        <4>1. ASSUME NEW k \in Conns
              PROVE  /\ conn'[k] \in ConnType /\ conn'[k].phase = conn[k].phase
                     /\ conn'[k].dev = conn[k].dev /\ conn'[k].code = conn[k].code
                     /\ conn'[k].id = conn[k].id
          <5>1. conn[k] \in ConnType
            BY DEF ConnTyped
          <5>2. conn'[k] = conn[k] \/ conn'[k] = [conn[k] EXCEPT !.changed = TRUE]
            BY <3>2 DEF Notified
          <5> QED
            BY <5>1, <5>2 DEF ConnType
        <4>2. conn' \in [Conns -> ConnType]
          BY <3>2, <4>1
        <4> QED
          BY <4>1, <4>2 DEF ConnTyped
      <3> QED
        BY <3>1, <3>2
    <2>4. OpTyped' /\ OutTyped'
      BY <2>1 DEF OpTyped, OpType, NoOp, OutTyped
    <2>5. CtlTyped'
      BY <2>1, AskTyped DEF CtlTyped
    <2>6. IdleTyped'
      <3>1. tunnel # "up" => op'[u] = NoOp /\ ctl' = ctl /\ \A v \in Ops : v # u => op'[v] = op[v]
        BY DEF OpTyped
      <3> QED
        BY <2>3, <3>1 DEF IdleTyped, Idle, NoOp
    <2>7. MadeTyped'
      BY FaultTyped DEF MadeTyped
    <2> QED
      BY <2>2, <2>3, <2>4, <2>5, <2>6, <2>7 DEF CodeTyped, RecTyped, TunnelTyped, ThroughTyped,
         WonTyped
  <1>21. CASE UNCHANGED pairingVars
    BY <1>21 DEF pairingVars, KeysTyped, CodeTyped, ConnTyped, OpTyped, RecTyped, TunnelTyped,
       CtlTyped, ThroughTyped, WonTyped, OutTyped, AstrayTyped, MadeTyped, IdleTyped, Idle
  <1> QED
    BY <1>1, <1>2, <1>3, <1>4, <1>5, <1>6, <1>7, <1>8, <1>9, <1>10, <1>11, <1>12, <1>13, <1>14,
       <1>15, <1>16, <1>17, <1>18, <1>19, <1>20, <1>21 DEF PairingNext

\* Every variable of Pairing holds values of its kind.
LEMMA TypedAlways == PairingSpec => []Typed
  BY TypedInit, TypedStep, PTL DEF PairingSpec

-----------------------------------------------------------------------------
(* Codes and ids *)

Pending(k) == conn[k].phase \in {"asking", "asked"}
\* A session that waits for a frame, with no removal to check.
Waiting(k) == conn[k].phase = "waits" /\ ~conn[k].changed

\* No pairing is made and none removed: connections and requests only end, a
\* session goes on waiting, or waits again under a pairing it found.
ConnFades(k) ==
    /\ Pending(k)' => Pending(k) /\ conn'[k].id = conn[k].id
    /\ Waiting(k)' => \/ Waiting(k) /\ conn'[k].id = conn[k].id
                      \/ \E d \in Devices : peers[d] = conn'[k].id
OpFades(u) == op'[u] = op[u] \/ (op[u].phase = "asking" /\ op'[u] = NoOp)
Fades ==
    /\ UNCHANGED <<peers, file, won>> /\ made'.ids = made.ids
    /\ \/ code'.id \in {0, code.id} /\ made'.codes = made.codes
       \/ code'.id = made.codes + 1 /\ made'.codes = made.codes + 1
    /\ \A k \in Conns : ConnFades(k)
    /\ \A u \in Ops : OpFades(u)
    /\ \A i \in out' : i \in out \/ \E u \in Ops : op[u].phase = "asking" /\ i \in op[u].ids

LEMMA ConnRests ==
  ASSUME UNCHANGED <<conn, op, out>>
  PROVE  /\ \A k \in Conns : ConnFades(k)
         /\ \A u \in Ops : OpFades(u)
         /\ \A i \in out' : i \in out
  BY DEF ConnFades, Pending, Waiting, OpFades

LEMMA ConnEnds ==
  ASSUME ConnTyped, NEW k \in Conns, NEW r, conn' = [conn EXCEPT ![k] = r],
         \/ r.phase \notin {"asking", "asked", "waits"}
         \/ r.phase = "asked" /\ Pending(k) /\ r.id = conn[k].id
         \/ r.phase = "waits" /\ \E d \in Devices : peers[d] = r.id,
         UNCHANGED <<op, out>>
  PROVE  /\ \A n \in Conns : ConnFades(n)
         /\ \A u \in Ops : OpFades(u)
         /\ \A i \in out' : i \in out
  <1>1. \A n \in Conns : conn'[n] = IF n = k THEN r ELSE conn[n]
    BY DEF ConnTyped
  <1> QED
    BY <1>1 DEF ConnFades, Pending, Waiting, OpFades

LEMMA RefusedFades ==
  ASSUME NEW W, W \cap Ops \subseteq Asking, Conns \cap Ops = {}, "reconcile" \notin Ops, Refused(W)
  PROVE  /\ \A k \in Conns : ConnFades(k)
         /\ \A u \in Ops : OpFades(u)
         /\ \A i \in out' : i \in out \/ \E u \in Ops : op[u].phase = "asking" /\ i \in op[u].ids
  <1>1. \A u \in W \cap Ops : op[u].phase = "asking"
    BY DEF Asking
  <1> QED
    BY <1>1 DEF Refused, ConnFades, Pending, Waiting, OpFades, NoConn

LEMMA FaultMakes == ASSUME MadeTyped, Fault PROVE made'.codes = made.codes /\ made'.ids = made.ids
  BY DEF MadeTyped, MadeType, Fault

LEMMA StepIs ==
  ASSUME Typed, [PairingNext]_pairingVars
  PROVE  \/ Fades
         \/ \E k \in Conns : PairTakes(k) \/ PairFinish(k)
         \/ \E u \in Ops, d \in Devices : UnpairBegin(u, d)
         \/ \E u \in Ops : Revoke(u)
         \/ Crash
  <1> USE Bounds DEF Typed, keyVars, relayVars
  <1>1. CASE RelayTakes \/ TakeRegistered \/ ReconcileBegin \/ ReconcileAsk \/ TunnelNoticed
    BY <1>1, ConnRests DEF RelayTakes, TakeRegistered, ReconcileBegin, ReconcileAsk, TunnelNoticed, Fades
  <1>2. CASE Register
    BY <1>2, ConnRests DEF Register, Fades, MadeTyped, MadeType
  <1>3. CASE TunnelLost
    BY <1>3, RefusedFades DEF TunnelLost, Fades
  <1>4. CASE ShowCode
    BY <1>4, ConnRests DEF ShowCode, Fades, MadeTyped, MadeType
  <1>5. CASE Expire
    BY <1>5, ConnRests DEF Expire, Fades, CodeTyped
  <1>6. ASSUME NEW w \in Conns \cup Ops \cup {"reconcile"}, Answered(w) PROVE Fades
    <2>1. CASE w \in Conns /\ conn' = [conn EXCEPT ![w].phase = "asked"] /\ UNCHANGED <<op, out>>
      <3>1. conn[w].phase = "asking"
        BY <1>6, <2>1 DEF Answered, Asking
      <3> DEFINE r == [conn[w] EXCEPT !.phase = "asked"]
      <3>2. conn' = [conn EXCEPT ![w] = r] /\ r.phase = "asked" /\ r.id = conn[w].id
        BY <2>1 DEF ConnTyped, ConnType
      <3> HIDE DEF r
      <3> QED
        BY <1>6, <2>1, <3>1, <3>2, ConnEnds DEF Answered, Fades, Pending
    <2>2. CASE w \in Ops /\ Refused({w})
      BY <1>6, <2>2, RefusedFades DEF Answered, Fades
    <2>3. CASE UNCHANGED <<conn, op, out>>
      BY <1>6, <2>3, ConnRests DEF Answered, Fades
    <2> QED
      BY <1>6, <2>1, <2>2, <2>3 DEF Answered
  <1>7. ASSUME NEW w \in Conns \cup Ops \cup {"reconcile"}, RequestFails(w) PROVE Fades
    BY <1>7, RefusedFades, FaultMakes DEF RequestFails, Fades
  <1>8. ASSUME NEW d \in Devices, OperatorUnpairs(d) PROVE Fades
    BY <1>8, ConnRests, FaultMakes DEF OperatorUnpairs, Fades
  <1>9. ASSUME NEW k \in Conns, PairFails(k) PROVE Fades
    <2>1. code'.id = code.id
      BY <1>9 DEF PairFails, CountFailure, CodeTyped
    <2> QED
      BY <1>9, <2>1, ConnEnds, NoConnRight DEF PairFails, Fades
  <1>10. ASSUME NEW k \in Conns, PairUnsent(k) \/ EndConn(k) PROVE Fades
    BY <1>10, ConnEnds, NoConnRight DEF PairUnsent, EndConn, Fades
  <1>11. ASSUME NEW k \in Conns, Open(k) \/ TakeFrame(k) PROVE Fades
    <2> DEFINE r == [conn[k] EXCEPT !.phase = "open"]
    <2>1. conn' = [conn EXCEPT ![k] = r] /\ r.phase = "open"
      BY <1>11 DEF Open, TakeFrame, ConnTyped, ConnType
    <2> HIDE DEF r
    <2> QED
      BY <1>11, <2>1, ConnEnds DEF Open, TakeFrame, Fades
  <1>12. ASSUME NEW k \in Conns, Check(k) PROVE Fades
    <2> DEFINE r == [conn[k] EXCEPT !.phase = "waits", !.changed = FALSE]
    <2>1. r.phase = "waits" /\ r.id = conn[k].id
      BY DEF ConnTyped, ConnType
    <2> HIDE DEF r
    <2>2. CASE StillPaired(k)
      <3>1. conn' = [conn EXCEPT ![k] = r] /\ \E d \in Devices : peers[d] = r.id
        BY <1>12, <2>1, <2>2 DEF Check, Checked, StillPaired, r
      <3> QED
        BY <1>12, <2>1, <3>1, ConnEnds DEF Check, Fades
    <2>3. CASE ~StillPaired(k)
      BY <1>12, <2>3, ConnEnds, NoConnRight DEF Check, Checked, Fades
    <2> QED
      BY <2>2, <2>3
  <1>13. ASSUME NEW k \in Conns, NEW d \in Devices, Greet(k, d) PROVE Fades
    <2>1. Session(d, peers[d], "greeted").phase = "greeted"
      BY SessionRight DEF KeysTyped
    <2> QED
      BY <1>13, <2>1, ConnEnds DEF Greet, Fades
  <1>14. ASSUME NEW k \in Conns, NEW d \in Devices, NEW relayed \in BOOLEAN, StartPair(k, d, relayed)
         PROVE  Fades
    <2> DEFINE r == [NoConn EXCEPT !.phase = "pairs", !.dev = d, !.code = code.id,
                                   !.relayed = relayed]
    <2>1. conn' = [conn EXCEPT ![k] = r] /\ r.phase = "pairs"
      BY <1>14 DEF StartPair, NoConn
    <2> HIDE DEF r
    <2> QED
      BY <1>14, <2>1, ConnEnds DEF StartPair, Fades
  <1>15. CASE UNCHANGED pairingVars
    BY <1>15, ConnRests DEF pairingVars, Fades
  <1> QED
    BY <1>1, <1>2, <1>3, <1>4, <1>5, <1>6, <1>7, <1>8, <1>9, <1>10, <1>11, <1>12, <1>13, <1>14,
       <1>15 DEF PairingNext

\* No code in use was taken, and those to come are new.
CodesFresh ==
    /\ code.id <= made.codes
    /\ \A p \in won : p[1] <= made.codes /\ p[1] # code.id

LEMMA CodesStep ==
  ASSUME Typed, CodesFresh, CodeOnce, [PairingNext]_pairingVars
  PROVE  CodesFresh' /\ CodeOnce'
  <1> USE Bounds DEF Typed, keyVars, relayVars
  <1>1. code.id \in Nat /\ made.codes \in Nat /\ \A p \in won : p[1] \in Nat /\ p[1] # 0
    BY DEF CodeTyped, MadeTyped, MadeType, WonTyped
  <1>2. CASE Fades
    BY <1>1, <1>2 DEF Fades, CodesFresh, CodeOnce
  <1>3. ASSUME NEW k \in Conns, PairTakes(k) PROVE CodesFresh' /\ CodeOnce'
    <2>1. made'.codes = made.codes /\ code'.id = 0
      BY <1>3 DEF PairTakes, MadeTyped, MadeType, CodeTaken, NoCode
    <2>2. /\ won' = won \cup {<<conn[k].code, made.ids + 1>>}
          /\ conn[k].code = code.id
      BY <1>3 DEF PairTakes
    <2>3. code.id # 0
      BY <1>3 DEF PairTakes, ConnTyped
    <2> QED
      BY <1>1, <2>1, <2>2, <2>3 DEF CodesFresh, CodeOnce
  <1>4. CASE Crash
    <2>1. made'.codes = made.codes /\ code'.id = 0
      BY <1>4, FaultMakes DEF Crash, NoCode
    <2> QED
      BY <1>1, <1>4, <2>1 DEF Crash, CodesFresh, CodeOnce
  <1>5. CASE (\E k \in Conns : PairFinish(k)) \/ (\E u \in Ops, d \in Devices : UnpairBegin(u, d))
             \/ (\E u \in Ops : Revoke(u))
    <2>1. UNCHANGED <<code, won>> /\ made'.codes = made.codes
      BY <1>5, FaultMakes DEF PairFinish, UnpairBegin, Revoke
    <2> QED
      BY <2>1 DEF CodesFresh, CodeOnce
  <1> QED
    BY <1>2, <1>3, <1>4, <1>5, StepIs

\* Pairings' ids differ: those of a device, in memory or in the file, from those
\* of the others, and those to be recorded from all given before.
Held(d) == {peers[d], file[d]} \ {0}
Given == 1..made.ids
IdsApart ==
    /\ \A d \in Devices : Held(d) \subseteq Given
    /\ \A u \in Ops : op[u].ids \subseteq Given
    /\ out \subseteq Given
    /\ \A k \in Conns : Pending(k) =>
          /\ conn[k].id \in Given \ out
          /\ \A d \in Devices : conn[k].id \notin Held(d)
          /\ \A u \in Ops : conn[k].id \notin op[u].ids
          /\ \A n \in Conns : Pending(n) /\ n # k => conn[n].id # conn[k].id
    /\ \A d, e \in Devices : d # e => Held(d) \cap Held(e) = {}
    /\ \A u \in Ops, d \in Devices : op[u].dev # d => op[u].ids \cap Held(d) = {}

LEMMA IdsFade ==
  ASSUME Typed, IdsApart, Fades
  PROVE  IdsApart'
  <1> USE DEF Fades
  <1>1. Given' = Given /\ \A d \in Devices : Held(d)' = Held(d)
    BY DEF Given, Held
  <1>2. \A k \in Conns : Pending(k)' => Pending(k) /\ conn'[k].id = conn[k].id
    BY DEF ConnFades
  <1>3. \A u \in Ops : op'[u].ids \subseteq op[u].ids /\ (op'[u].dev = op[u].dev \/ op'[u].ids = {})
    BY DEF OpFades, NoOp
  <1>4. \A i \in out' : i \in out \/ \E u \in Ops : i \in op[u].ids
    OBVIOUS
  <1> QED
    BY <1>1, <1>2, <1>3, <1>4 DEF IdsApart

LEMMA IdsStep ==
  ASSUME Typed, IdsApart, [PairingNext]_pairingVars
  PROVE  IdsApart'
  <1> USE Bounds DEF Typed, keyVars, relayVars
  <1>1. CASE Fades
    BY <1>1, IdsFade
  <1>2. ASSUME NEW k \in Conns, PairTakes(k) PROVE IdsApart'
    <2> DEFINE id == made.ids + 1
    <2>1. /\ made'.ids = id /\ made.ids \in Nat /\ UNCHANGED <<peers, file, op, out>>
          /\ \A n \in Conns : n # k => conn'[n] = conn[n]
          /\ Pending(k)' => conn'[k].id = id
      BY <1>2, NoConnRight DEF PairTakes, MadeTyped, MadeType, ConnTyped, ConnType, Pending
    <2>2. Given' = Given \cup {id} /\ id \notin Given
      BY <2>1 DEF Given
    <2>3. \A n \in Conns : n # k => (Pending(n)' <=> Pending(n))
      BY <2>1 DEF Pending
    <2>4. \A d \in Devices : Held(d)' = Held(d)
      BY <2>1 DEF Held
    <2> HIDE DEF id
    <2> QED
      BY <2>1, <2>2, <2>3, <2>4 DEF IdsApart
  <1>3. ASSUME NEW k \in Conns, PairFinish(k) PROVE IdsApart'
    <2> DEFINE d == conn[k].dev
               id == conn[k].id
    <2>1. /\ made'.ids = made.ids /\ UNCHANGED <<op, out>> /\ d \in Devices /\ Pending(k)
          /\ peers' = [peers EXCEPT ![d] = id] /\ file' \in {file, peers'}
          /\ \A n \in Conns : n # k => conn'[n] = conn[n]
      BY <1>3, FaultMakes DEF PairFinish, ConnTyped, Pending
    <2>2. ~Pending(k)'
      <3>1. conn'[k] = NoConn \/ conn'[k] = Session(d, id, "open")
        BY <1>3 DEF PairFinish, ConnTyped
      <3>2. id \in 0..MaxPairings
        BY DEF ConnTyped, ConnType
      <3> QED
        BY <2>1, <3>1, <3>2, NoConnRight, SessionRight DEF Pending
    <2>3. \A e \in Devices : Held(e)' \subseteq Held(e) \cup (IF e = d THEN {id} ELSE {})
      BY <2>1 DEF Held, KeysTyped
    <2>4. Given' = Given
      BY <2>1 DEF Given
    <2>5. \A n \in Conns : Pending(n)' => n # k /\ Pending(n) /\ conn'[n] = conn[n]
      BY <2>1, <2>2 DEF Pending
    <2> HIDE DEF d, id
    <2> QED
      BY <2>1, <2>3, <2>4, <2>5 DEF IdsApart, id
  <1>4. ASSUME NEW u \in Ops, NEW d \in Devices, UnpairBegin(u, d) PROVE IdsApart'
    <2>1. /\ UNCHANGED <<peers, file, conn, made, out>> /\ peers[d] \in Held(d)
          /\ \A v \in Ops : v # u => op'[v] = op[v]
          /\ op'[u].dev = d /\ op'[u].ids = {peers[d]}
      BY <1>4 DEF UnpairBegin, Held, OpTyped
    <2>2. Given' = Given /\ \A e \in Devices : Held(e)' = Held(e)
      BY <2>1 DEF Given, Held
    <2>3. \A n \in Conns : Pending(n)' <=> Pending(n)
      BY <2>1 DEF Pending
    <2> QED
      BY <2>1, <2>2, <2>3 DEF IdsApart
  <1>5. ASSUME NEW u \in Ops, Revoke(u) PROVE IdsApart'
    <2> DEFINE d == op[u].dev
               ids == op[u].ids \cup ({peers[d]} \ {0})
    <2>1. /\ made'.ids = made.ids /\ d \in Devices
          /\ peers' = [peers EXCEPT ![d] = 0] /\ file' \in {file, peers'}
          /\ out' \subseteq out \cup ids
          /\ \A v \in Ops : v # u => op'[v] = op[v]
          /\ op'[u].ids \subseteq ids /\ (op'[u].ids = {} \/ op'[u].dev = d)
      BY <1>5, FaultMakes DEF Revoke, Saved, OpTyped, NoOp
    <2>2. \A k \in Conns : conn'[k].phase = conn[k].phase /\ conn'[k].id = conn[k].id
      <3>1. conn' = conn \/ conn' = [k \in Conns |-> Notified(k)]
        BY <1>5 DEF Revoke, Fault
      <3>2. \A k \in Conns : Notified(k).phase = conn[k].phase
                            /\ Notified(k).id = conn[k].id
        BY DEF Notified, ConnTyped, ConnType
      <3> QED
        BY <3>1, <3>2
    <2>3. \A e \in Devices : Held(e)' \subseteq Held(e)
      BY <2>1 DEF Held, KeysTyped
    <2>4. Given' = Given /\ \A k \in Conns : Pending(k)' <=> Pending(k)
      BY <2>1, <2>2 DEF Given, Pending
    <2>5. ids \subseteq op[u].ids \cup Held(d)
      BY DEF Held
    <2> HIDE DEF d, ids
    <2> QED
      BY <2>1, <2>2, <2>3, <2>4, <2>5 DEF IdsApart, d
  <1>6. CASE Crash
    <2>1. /\ peers' = file /\ file' = file /\ out' = out /\ made'.ids = made.ids
          /\ \A k \in Conns : ~Pending(k)'
          /\ \A u \in Ops : op'[u].ids = {}
      BY <1>6, FaultMakes DEF Crash, Pending, NoConn, NoOp
    <2>2. Given' = Given /\ \A d \in Devices : Held(d)' \subseteq Held(d)
      BY <2>1 DEF Given, Held
    <2> QED
      BY <2>1, <2>2 DEF IdsApart
  <1> QED
    BY <1>1, <1>2, <1>3, <1>4, <1>5, <1>6, StepIs

-----------------------------------------------------------------------------
(* Who was unpaired stays out *)

\* Unpairing calls come one at a time, or nothing fails.
OneCall == (\A u, v \in Ops : u = v) \/ MaxFaults = 0

\* Nobody is paired under the id, and nobody waits for a frame of it.
Gone(i) ==
    /\ \A d \in Devices : i \notin Held(d)
    /\ \A k \in Conns : Waiting(k) => conn[k].id # i
\* So it is with those told to be out, those about to be told so, and those whose
\* device somebody else removed.
OutGone ==
    /\ \A i \in out : Gone(i)
    /\ \A u \in Ops :
          op[u].phase = "asking" \/ (op[u].phase = "found" /\ peers[op[u].dev] = 0)
          => \A i \in op[u].ids : Gone(i)

\* What is gone stays so, unless a device is paired under it.
LEMMA StaysGone ==
  ASSUME NEW i, Gone(i), i # 0, \A d \in Devices : i \notin Held(d)',
         \A k \in Conns : Waiting(k)' => \/ Waiting(k) /\ conn'[k].id = conn[k].id
                                         \/ \E d \in Devices : peers[d] = conn'[k].id
  PROVE  Gone(i)'
  BY DEF Gone, Held

LEMMA OutStep ==
  ASSUME OneCall, Typed, IdsApart, OutGone, [PairingNext]_pairingVars
  PROVE  OutGone'
  <1> USE Bounds DEF Typed, keyVars, relayVars
  <1>1. 0 \notin out /\ \A u \in Ops : 0 \notin op[u].ids
    BY DEF OutTyped, OpTyped, OpType, Ids
  <1>2. CASE Fades
    <2>1. UNCHANGED peers /\ \A d \in Devices : Held(d)' = Held(d)
      BY <1>2 DEF Fades, Held
    <2>2. ASSUME NEW i, Gone(i), i # 0 PROVE Gone(i)'
      <3>1. \A d \in Devices : i \notin Held(d)'
        BY <2>1, <2>2 DEF Gone
      <3> QED
        BY <1>2, <2>2, <3>1, StaysGone DEF Fades, ConnFades
    <2>3. \A i \in out' : i # 0 /\ Gone(i)
      BY <1>1, <1>2 DEF Fades, OutGone
    <2>4. \A u \in Ops : op'[u] = op[u] \/ op'[u].ids = {}
      BY <1>2 DEF Fades, OpFades, NoOp
    <2> QED
      BY <1>1, <2>1, <2>2, <2>3, <2>4 DEF OutGone
  <1>3. ASSUME NEW k \in Conns, PairTakes(k) PROVE OutGone'
    <2>1. UNCHANGED <<peers, op, out>> /\ \A d \in Devices : Held(d)' = Held(d)
      BY <1>3 DEF PairTakes, Held
    <2>2. \A n \in Conns : Waiting(n)' => Waiting(n) /\ conn'[n].id = conn[n].id
      BY <1>3 DEF PairTakes, Waiting, ConnTyped, ConnType, NoConn
    <2>3. \A i : Gone(i) => Gone(i)'
      BY <2>1, <2>2 DEF Gone
    <2> QED
      BY <2>1, <2>3 DEF OutGone
  <1>4. ASSUME NEW k \in Conns, PairFinish(k) PROVE OutGone'
    <2> DEFINE d == conn[k].dev
               id == conn[k].id
    <2>1. /\ UNCHANGED <<op, out>> /\ d \in Devices /\ Pending(k)
          /\ peers' = [peers EXCEPT ![d] = id] /\ file' \in {file, peers'} /\ id # 0
          /\ \A n \in Conns : n # k => conn'[n] = conn[n]
      BY <1>4 DEF PairFinish, ConnTyped, Pending
    <2>2. ~Waiting(k)'
      <3>1. conn'[k] = NoConn \/ conn'[k] = Session(d, id, "open")
        BY <1>4 DEF PairFinish, ConnTyped
      <3>2. id \in 0..MaxPairings
        BY DEF ConnTyped, ConnType
      <3> QED
        BY <2>1, <3>1, <3>2, NoConnRight, SessionRight DEF Waiting
    <2>3. \A e \in Devices : Held(e)' \subseteq Held(e) \cup {id}
      BY <2>1 DEF Held, KeysTyped
    <2>4. \A i : Gone(i) /\ i # id => Gone(i)'
      BY <2>1, <2>2, <2>3 DEF Gone, Waiting
    <2>5. id \notin out /\ \A u \in Ops : id \notin op[u].ids
      BY <2>1 DEF IdsApart
    <2>6. \A u \in Ops : peers'[op[u].dev] = 0 /\ op[u].phase = "found" => peers[op[u].dev] = 0
      BY <2>1 DEF OpTyped, KeysTyped
    <2> HIDE DEF d, id
    <2> QED
      BY <2>1, <2>4, <2>5, <2>6 DEF OutGone
  <1>5. ASSUME NEW u \in Ops, NEW d \in Devices, UnpairBegin(u, d) PROVE OutGone'
    <2>1. /\ UNCHANGED <<peers, file, conn, out>> /\ peers[d] # 0
          /\ \A v \in Ops : v # u => op'[v] = op[v]
          /\ op'[u].phase = "found" /\ op'[u].dev = d
      BY <1>5 DEF UnpairBegin, OpTyped
    <2>2. \A i : Gone(i)' <=> Gone(i)
      BY <2>1 DEF Gone, Held, Waiting
    <2> QED
      BY <2>1, <2>2 DEF OutGone
  <1>6. ASSUME NEW u \in Ops, Revoke(u) PROVE OutGone'
    <2>0. PICK d : d = op[u].dev
      OBVIOUS
    <2> DEFINE ids == op[u].ids \cup ({peers[d]} \ {0})
    <2>1. d \in Devices /\ op[u].phase = "found" /\ peers' = [peers EXCEPT ![d] = 0]
      BY <1>6, <2>0 DEF Revoke, OpTyped
    <2>2. \A v \in Ops : v # u => op'[v] = op[v]
      BY <1>6 DEF Revoke, OpTyped
    <2>3. \A e \in Devices : e # d => peers'[e] = peers[e]
      BY <2>1
    <2>4. CASE peers[d] # 0 /\ file' = peers' /\ conn' = [k \in Conns |-> Notified(k)]
               /\ op'[u].ids \subseteq ids /\ out' \subseteq out \cup ids
      <3>1. \A k \in Conns : ~Waiting(k)'
        BY <2>4 DEF Notified, Waiting, ConnTyped, ConnType
      <3>2. Held(d)' = {} /\ \A e \in Devices : e # d => Held(e)' \subseteq Held(e)
        <4>1. peers'[d] = 0 /\ file'[d] = 0
          BY <2>1, <2>4 DEF KeysTyped
        <4>2. \A e \in Devices : e # d => peers'[e] = peers[e] /\ file'[e] = peers[e]
          BY <2>3, <2>4
        <4> QED
          BY <4>1, <4>2 DEF Held
      <3>3. ASSUME NEW i, \A e \in Devices : e # d => i \notin Held(e)
            PROVE  Gone(i)'
        <4>1. \A e \in Devices : i \notin Held(e)'
          <5> TAKE e \in Devices
          <5>1. CASE e = d
            BY <3>2, <5>1
          <5>2. CASE e # d
            BY <3>2, <3>3, <5>2
          <5> QED
            BY <5>1, <5>2
        <4> QED
          BY <3>1, <4>1 DEF Gone
      <3>4. \A i \in ids : Gone(i)'
        <4>1. \A i \in ids : i \in op[u].ids \/ i \in Held(d)
          BY DEF Held
        <4> QED
          BY <2>0, <2>1, <3>3, <4>1 DEF IdsApart
      <3>5. \A i : Gone(i) => Gone(i)'
        BY <3>3 DEF Gone
      <3>6. ASSUME NEW v \in Ops, v # u,
                   op[v].phase = "asking" \/ (op[v].phase = "found" /\ peers'[op[v].dev] = 0),
                   NEW i \in op[v].ids
            PROVE  Gone(i)'
        <4>1. CASE op[v].phase = "found" /\ op[v].dev = d
          <5>1. \A e \in Devices : e # d => i \notin Held(e)
            BY <3>6, <4>1 DEF IdsApart
          <5> QED
            BY <3>3, <5>1
        <4>2. CASE op[v].phase = "asking" \/ (op[v].phase = "found" /\ peers[op[v].dev] = 0)
          BY <3>5, <4>2 DEF OutGone
        <4>3. op[v].phase = "found" /\ op[v].dev # d => peers'[op[v].dev] = peers[op[v].dev]
          BY <2>3 DEF OpTyped
        <4> QED
          BY <3>6, <4>1, <4>2, <4>3
      <3> QED
        BY <2>2, <2>4, <3>4, <3>5, <3>6 DEF OutGone
    <2>5. CASE peers[d] = 0 /\ UNCHANGED <<file, conn>>
               /\ op'[u].ids \subseteq ids /\ out' \subseteq out \cup ids
      <3>1. \A i : Gone(i) => Gone(i)'
        BY <2>1, <2>5 DEF Gone, Held, Waiting, KeysTyped
      <3>2. \A i \in ids : Gone(i)
        BY <2>0, <2>1, <2>5 DEF OutGone
      <3>3. \A e \in Devices : peers'[e] = peers[e]
        BY <2>1, <2>5 DEF KeysTyped
      <3> QED
        BY <2>2, <2>5, <3>1, <3>2, <3>3 DEF OutGone, OpTyped
    <2>6. CASE Fault /\ op' = [op EXCEPT ![u] = NoOp] /\ UNCHANGED <<file, conn, out>>
      <3>1. \A v \in Ops : v = u
        BY <2>6 DEF OneCall, Fault, CanFault, MadeTyped, MadeType
      <3>2. \A i : Gone(i) => Gone(i)'
        BY <2>1, <2>6 DEF Gone, Held, Waiting, KeysTyped
      <3>3. \A v \in Ops : op'[v].ids = {}
        BY <2>6, <3>1 DEF NoOp, OpTyped
      <3> QED
        BY <2>6, <3>2, <3>3 DEF OutGone
    <2>7. \/ /\ \/ peers[d] # 0 /\ file' = peers' /\ conn' = [k \in Conns |-> Notified(k)]
                \/ peers[d] = 0 /\ UNCHANGED <<file, conn>>
             /\ op'[u].ids \subseteq ids /\ out' \subseteq out \cup ids
          \/ Fault /\ op' = [op EXCEPT ![u] = NoOp] /\ UNCHANGED <<file, conn, out>>
      BY <1>6, <2>0 DEF Revoke, Saved, OpTyped, NoOp
    <2> QED
      BY <2>4, <2>5, <2>6, <2>7
  <1>7. CASE Crash
    <2>1. /\ peers' = file /\ file' = file /\ out' = out
          /\ \A k \in Conns : ~Waiting(k)'
          /\ \A u \in Ops : op'[u].ids = {}
      BY <1>7 DEF Crash, Waiting, NoConn, NoOp
    <2>2. \A i : Gone(i) => Gone(i)'
      BY <2>1 DEF Gone, Held
    <2> QED
      BY <2>1, <2>2 DEF OutGone
  <1> QED
    BY <1>2, <1>3, <1>4, <1>5, <1>6, <1>7, StepIs

\* What the inductive invariant is made of.
Kept == Typed /\ CodesFresh /\ CodeOnce /\ IdsApart

LEMMA KeptInit == PairingInit => Kept /\ OutGone
  <1> SUFFICES ASSUME PairingInit PROVE Kept /\ OutGone
    OBVIOUS
  <1>1. Typed
    BY TypedInit
  <1>2. CodesFresh /\ CodeOnce
    BY Bounds DEF PairingInit, CodesFresh, CodeOnce, NoCode
  <1>3. \A k \in Conns : ~Pending(k) /\ ~Waiting(k)
    BY DEF PairingInit, NoConn, Pending, Waiting
  <1>4. \A d \in Devices : Held(d) = {}
    BY DEF PairingInit, Held
  <1>5. out = {} /\ \A u \in Ops : op[u].ids = {}
    BY DEF PairingInit, NoOp
  <1> QED
    BY <1>1, <1>2, <1>3, <1>4, <1>5 DEF Kept, IdsApart, OutGone

LEMMA KeptStep == Kept /\ [PairingNext]_pairingVars => Kept'
  BY TypedStep, CodesStep, IdsStep DEF Kept

LEMMA KeptAlways == PairingSpec => []Kept
  BY KeptInit, KeptStep, PTL DEF PairingSpec

\* Values are of their kind, and a code pairs once, whatever fails.
THEOREM CodesPairOnce == PairingSpec => [](PairingTypeOK /\ CodeOnce)
  <1>1. Kept => PairingTypeOK /\ CodeOnce
    BY TypedIs DEF Kept
  <1> QED
    BY <1>1, KeptAlways, PTL

LEMMA OutAlways == ASSUME OneCall PROVE PairingSpec => []OutGone
  <1>1. Kept /\ OutGone /\ [PairingNext]_pairingVars => OutGone'
    BY OutStep DEF Kept
  <1> QED
    BY <1>1, KeptInit, KeptAlways, PTL DEF PairingSpec

\* Who was unpaired is out for good, in memory and in the file, while unpairings
\* come one at a time or nothing fails: of two at once, the one that finds its
\* device removed answers well although the other could not write the file.
THEOREM PairingKept == ASSUME OneCall PROVE PairingSpec => []PairingSound
  <1>1. Kept /\ OutGone => PairingSound
    <2> SUFFICES ASSUME Kept, OutGone PROVE PairingSound
      OBVIOUS
    <2>1. 0 \notin out
      BY DEF Kept, IdsApart, Given
    <2>2. UnpairedForGood
      BY <2>1 DEF UnpairedForGood, OutGone, Gone, Held
    <2> QED
      BY <2>2, TypedIs DEF Kept, PairingSound
  <1> QED
    BY <1>1, KeptAlways, OutAlways, PTL

LEMMA FrameIsTaken ==
  ASSUME Typed, [PairingNext]_pairingVars,
         NEW k \in Conns, conn[k].phase = "waits", conn'[k].phase = "open"
  PROVE  Waiting(k)
  <1> USE DEF Typed, keyVars, relayVars
  <1>1. CASE conn'[k] = conn[k] \/ conn'[k].phase # "open" \/ conn'[k].phase = conn[k].phase
    BY <1>1
  <1>2. CASE \/ RelayTakes \/ Register \/ TakeRegistered \/ ReconcileBegin \/ ReconcileAsk
             \/ TunnelNoticed \/ ShowCode \/ Expire \/ (\E d \in Devices : OperatorUnpairs(d))
             \/ (\E u \in Ops, d \in Devices : UnpairBegin(u, d)) \/ UNCHANGED pairingVars
    BY <1>1, <1>2 DEF RelayTakes, Register, TakeRegistered, ReconcileBegin, ReconcileAsk,
       TunnelNoticed, ShowCode, Expire, OperatorUnpairs, UnpairBegin, pairingVars
  <1>3. CASE TunnelLost \/ Crash
    BY <1>1, <1>3 DEF TunnelLost, Crash, Refused, NoConn
  <1>4. ASSUME NEW w \in Conns \cup Ops \cup {"reconcile"}, Answered(w) \/ RequestFails(w)
        PROVE  Waiting(k)
    <2>1. CASE conn' = [conn EXCEPT ![w].phase = "asked"]
      BY <1>1, <2>1 DEF ConnTyped, ConnType
    <2>2. CASE Refused({w}) \/ UNCHANGED conn
      BY <1>1, <2>2 DEF Refused, NoConn
    <2> QED
      BY <1>4, <2>1, <2>2 DEF Answered, RequestFails
  <1>5. ASSUME NEW n \in Conns, n # k, conn' = [conn EXCEPT ![n] = conn'[n]] PROVE Waiting(k)
    BY <1>1, <1>5 DEF ConnTyped
  <1>6. ASSUME NEW n \in Conns,
               \/ PairFails(n) \/ PairTakes(n) \/ PairFinish(n) \/ PairUnsent(n)
               \/ Open(n) \/ EndConn(n)
        PROVE  Waiting(k)
    <2>1. CASE n = k
      BY <1>6, <2>1, NoConnRight DEF PairFails, PairTakes, PairFinish, PairUnsent, Open, EndConn, ConnTyped
    <2>2. CASE n # k
      <3>1. conn' = [conn EXCEPT ![n] = conn'[n]]
        BY <1>6 DEF PairFails, PairTakes, PairFinish, PairUnsent, Open, EndConn, ConnTyped
      <3> QED
        BY <1>5, <2>2, <3>1
    <2> QED
      BY <2>1, <2>2
  <1>7. ASSUME NEW n \in Conns, Check(n) PROVE Waiting(k)
    <2>1. conn' = [conn EXCEPT ![n] = Checked(n)]
      BY <1>7 DEF Check
    <2>2. Checked(n).phase # "open"
      BY NoConnRight DEF Checked, ConnTyped, ConnType
    <2> QED
      BY <1>1, <2>1, <2>2 DEF ConnTyped
  <1>8. ASSUME NEW n \in Conns, TakeFrame(n) PROVE Waiting(k)
    BY <1>1, <1>8 DEF TakeFrame, Waiting, ConnTyped
  <1>9. ASSUME NEW n \in Conns, NEW d \in Devices,
               Greet(n, d) \/ \E relayed \in BOOLEAN : StartPair(n, d, relayed)
        PROVE  Waiting(k)
    BY <1>1, <1>9 DEF Greet, StartPair, Free, ConnTyped
  <1>10. ASSUME NEW u \in Ops, Revoke(u) PROVE Waiting(k)
    BY <1>1, <1>10 DEF Revoke, Notified, ConnTyped, ConnType
  <1> QED
    BY <1>2, <1>3, <1>4, <1>6, <1>7, <1>8, <1>9, <1>10 DEF PairingNext

\* And the host takes no more frames of it.
THEOREM OutIsOut == ASSUME OneCall PROVE PairingSpec => UnpairedIsOut
  <1>1. Kept /\ OutGone /\ [PairingNext]_pairingVars =>
          [\A k \in Conns : conn[k].phase = "waits" /\ conn'[k].phase = "open"
                            => conn[k].id \notin out]_pairingVars
    BY FrameIsTaken DEF Kept, OutGone, Gone
  <1> QED
    BY <1>1, KeptAlways, OutAlways, PTL DEF PairingSpec, UnpairedIsOut

-----------------------------------------------------------------------------
(* The requests on their way *)

\* The requests about a device, and the last of them.
About(d) == {i \in DOMAIN ctl : ctl[i].dev = d}
Newest(d, i) == i \in About(d) /\ \A j \in About(d) : j <= i
\* Whether the relay lets the device through once it has taken them all.
Due(d) == \/ About(d) = {} /\ d \in through
          \/ \E i \in About(d) : Newest(d, i) /\ ctl[i].what = "paired"
\* The last of them is r.
LastIs(d, r) == \E i \in About(d) : Newest(d, i) /\ ctl[i] = r
Calls(d) == {ctl[i] : i \in About(d)}

LEMMA RemovedAt ==
  ASSUME NEW S, NEW s \in Seq(S), NEW i \in 1..Len(s)
  PROVE  /\ Len(RemoveAt(s, i)) = Len(s) - 1
         /\ \A j \in 1..(Len(s) - 1) : RemoveAt(s, i)[j] = IF j < i THEN s[j] ELSE s[j + 1]
         /\ DOMAIN RemoveAt(s, i) = 1..(Len(s) - 1)
  <1> DEFINE front == SubSeq(s, 1, i - 1)
             back == SubSeq(s, i + 1, Len(s))
             left == front \o back
  <1>1. Len(s) \in Nat /\ i \in Nat /\ 1 <= i /\ i <= Len(s)
    BY LenProperties
  <1>2. /\ front \in Seq(S) /\ Len(front) = i - 1
        /\ \A j \in 1..(i - 1) : front[j] = s[j]
    BY <1>1, SubSeqProperties
  <1>3. /\ back \in Seq(S) /\ Len(back) = Len(s) - i
        /\ \A j \in 1..(Len(s) - i) : back[j] = s[i + j]
    BY <1>1, SubSeqProperties
  <1> HIDE DEF front, back
  <1>4. /\ left \in Seq(S) /\ Len(left) = Len(front) + Len(back)
        /\ \A j \in 1..(Len(front) + Len(back)) :
              left[j] = IF j <= Len(front) THEN front[j] ELSE back[j - Len(front)]
    BY <1>2, <1>3, ConcatProperties
  <1>5. RemoveAt(s, i) = left
    BY DEF RemoveAt, front, back
  <1> HIDE DEF left
  <1>6. Len(left) = Len(s) - 1
    BY <1>1, <1>2, <1>3, <1>4
  <1>7. ASSUME NEW j \in 1..(Len(s) - 1) PROVE left[j] = IF j < i THEN s[j] ELSE s[j + 1]
    <2>1. CASE j < i
      <3>1. j \in 1..(i - 1) /\ j \in 1..(Len(front) + Len(back)) /\ j <= Len(front)
        BY <1>1, <1>2, <1>3, <2>1
      <3> QED
        BY <1>2, <1>4, <2>1, <3>1
    <2>2. CASE ~(j < i)
      <3>1. /\ j \in 1..(Len(front) + Len(back)) /\ ~(j <= Len(front))
            /\ j - Len(front) \in 1..(Len(s) - i) /\ i + (j - Len(front)) = j + 1
        BY <1>1, <1>2, <1>3, <2>2
      <3> QED
        BY <1>3, <1>4, <2>2, <3>1
    <2> QED
      BY <2>1, <2>2
  <1>8. DOMAIN left = 1..(Len(s) - 1)
    BY <1>4, <1>6, LenProperties
  <1> QED
    BY <1>5, <1>6, <1>7, <1>8

\* One request leaves the queue.
LEMMA OneLess ==
  ASSUME CtlTyped, NEW i \in DOMAIN ctl, ctl' = RemoveAt(ctl, i), NEW d
  PROVE  /\ Calls(d)' \subseteq Calls(d)
         /\ ~Newest(d, i) => /\ About(d)' = {} <=> About(d) = {}
                             /\ \A r : LastIs(d, r)' <=> LastIs(d, r)
         /\ Newest(d, i) /\ i = 1 => About(d)' = {}
  <1> DEFINE at(j) == IF j < i THEN j ELSE j + 1
             n == Len(ctl)
  <1>1. /\ n \in Nat /\ DOMAIN ctl = 1..n /\ i \in 1..n
    BY LenProperties DEF CtlTyped
  <1>2. DOMAIN ctl' = 1..(n - 1) /\ \A j \in 1..(n - 1) : ctl'[j] = ctl[at(j)]
    BY <1>1, RemovedAt DEF CtlTyped
  <1>3. /\ \A j \in 1..(n - 1) : at(j) \in 1..n /\ at(j) # i /\ j \in Nat
        /\ \A j, k \in 1..(n - 1) : j <= k <=> at(j) <= at(k)
        /\ \A m \in 1..n : m # i => \E j \in 1..(n - 1) : at(j) = m
    <2>1. ASSUME NEW m \in 1..n, m # i PROVE \E j \in 1..(n - 1) : at(j) = m
      <3>1. CASE m < i
        <4>1. m \in 1..(n - 1) /\ at(m) = m
          BY <1>1, <3>1
        <4> QED
          BY <4>1
      <3>2. CASE ~(m < i)
        <4>1. m - 1 \in 1..(n - 1) /\ at(m - 1) = m
          BY <1>1, <2>1, <3>2
        <4> QED
          BY <4>1
      <3> QED
        BY <3>1, <3>2
    <2> QED
      BY <1>1, <2>1
  <1> HIDE DEF at, n
  <1>4. /\ \A j : j \in About(d)' => j \in 1..(n - 1) /\ at(j) \in About(d) \ {i}
        /\ \A j \in 1..(n - 1) : at(j) \in About(d) => j \in About(d)'
    BY <1>1, <1>2, <1>3 DEF About
  <1>5. About(d) \subseteq 1..n
    BY <1>1 DEF About
  <1>6. Calls(d)' \subseteq Calls(d)
    BY <1>2, <1>4 DEF Calls
  <1>7. ASSUME ~Newest(d, i)
        PROVE  /\ About(d)' = {} <=> About(d) = {}
               /\ \A r : LastIs(d, r)' <=> LastIs(d, r)
    <2>1. ASSUME NEW m, Newest(d, m) PROVE \E j \in 1..(n - 1) : at(j) = m /\ Newest(d, j)'
      <3>1. m \in 1..n /\ m # i
        BY <1>5, <1>7, <2>1 DEF Newest
      <3>2. PICK j \in 1..(n - 1) : at(j) = m
        BY <1>3, <3>1
      <3>3. j \in About(d)' /\ \A k \in About(d)' : k <= j
        BY <1>3, <1>4, <2>1, <3>2 DEF Newest
      <3> QED
        BY <3>2, <3>3 DEF Newest
    <2>2. ASSUME NEW j, Newest(d, j)' PROVE j \in 1..(n - 1) /\ Newest(d, at(j))
      <3>1. j \in About(d)' /\ \A k \in About(d)' : k <= j
        BY <2>2 DEF Newest
      <3>2. j \in 1..(n - 1) /\ at(j) \in About(d)
        BY <1>4, <3>1
      <3>3. ASSUME NEW m \in About(d) \ {i} PROVE m <= at(j)
        <4>1. PICK k \in 1..(n - 1) : at(k) = m
          BY <1>3, <1>5
        <4> QED
          BY <1>3, <1>4, <3>1, <3>2, <4>1
      <3>4. i \in About(d) => i <= at(j)
        <4> SUFFICES ASSUME i \in About(d) PROVE i <= at(j)
          OBVIOUS
        <4>1. PICK m \in About(d) : ~(m <= i)
          BY <1>7 DEF Newest
        <4>2. m <= at(j) /\ m \in 1..n /\ at(j) \in 1..n /\ i \in 1..n
          BY <1>1, <1>3, <1>5, <3>2, <3>3, <4>1
        <4> QED
          BY <1>1, <4>1, <4>2
      <3> QED
        BY <3>2, <3>3, <3>4 DEF Newest
    <2>3. About(d)' = {} <=> About(d) = {}
      <3>1. ASSUME NEW m \in About(d) PROVE About(d)' # {}
        <4>1. PICK k \in About(d) : k # i
          BY <1>1, <1>5, <1>7 DEF Newest
        <4>2. PICK j \in 1..(n - 1) : at(j) = k
          BY <1>3, <1>5, <4>1
        <4> QED
          BY <1>4, <4>2
      <3> QED
        BY <1>4, <3>1
    <2>4. ASSUME NEW r PROVE LastIs(d, r)' <=> LastIs(d, r)
      BY <1>2, <1>4, <2>1, <2>2 DEF LastIs, Newest
    <2> QED
      BY <2>3, <2>4
  <1>8. ASSUME Newest(d, i), i = 1 PROVE About(d)' = {}
    <2>1. \A m \in About(d) : m = i
      BY <1>1, <1>5, <1>8 DEF Newest
    <2> QED
      BY <1>4, <2>1
  <1> QED
    BY <1>6, <1>7, <1>8

\* One more is asked.
LEMMA OneMore ==
  ASSUME CtlTyped, NEW r, ctl' = Append(ctl, r), UNCHANGED through, NEW d
  PROVE  /\ r.dev # d => /\ Calls(d)' = Calls(d) /\ (Due(d)' <=> Due(d))
                         /\ \A q : LastIs(d, q)' <=> LastIs(d, q)
         /\ r.dev = d => /\ Calls(d)' = Calls(d) \cup {r} /\ (Due(d)' <=> r.what = "paired")
                         /\ \A q : LastIs(d, q)' <=> q = r
  <1> DEFINE n == Len(ctl)
  <1>1. /\ n \in Nat /\ DOMAIN ctl = 1..n /\ DOMAIN ctl' = 1..(n + 1)
        /\ ctl'[n + 1] = r /\ \A i \in 1..n : ctl'[i] = ctl[i]
    BY DEF CtlTyped
  <1> HIDE DEF n
  <1>2. /\ About(d) \subseteq 1..n /\ n + 1 \notin 1..n
        /\ About(d)' = About(d) \cup (IF r.dev = d THEN {n + 1} ELSE {})
    BY <1>1 DEF About
  <1>3. CASE r.dev # d
    <2>1. About(d)' = About(d)
      BY <1>2, <1>3
    <2>2. \A i \in About(d) : ctl'[i] = ctl[i]
      BY <1>1, <1>2
    <2>3. \A i : Newest(d, i)' <=> Newest(d, i)
      BY <2>1 DEF Newest
    <2>4. Calls(d)' = Calls(d)
      BY <2>1, <2>2 DEF Calls
    <2>5. Due(d)' <=> Due(d)
      BY <2>1, <2>2, <2>3 DEF Due
    <2>6. \A q : LastIs(d, q)' <=> LastIs(d, q)
      BY <2>1, <2>2, <2>3 DEF LastIs
    <2> QED
      BY <1>3, <2>4, <2>5, <2>6
  <1>4. CASE r.dev = d
    <2>1. About(d)' = About(d) \cup {n + 1}
      BY <1>2, <1>4
    <2>2. \A i : Newest(d, i)' <=> i = n + 1
      <3>1. \A i \in About(d) : i \in Nat /\ i < n + 1
        BY <1>1, <1>2
      <3>2. \A i : Newest(d, i)' <=> i \in About(d)' /\ \A j \in About(d)' : j <= i
        BY DEF Newest
      <3>3. \A i \in About(d) : ~(n + 1 <= i)
        BY <1>1, <3>1
      <3>4. n + 1 <= n + 1 /\ \A j \in About(d) : j <= n + 1
        BY <1>1, <3>1
      <3> QED
        BY <2>1, <3>2, <3>3, <3>4
    <2>3. Calls(d)' = Calls(d) \cup {r}
      BY <1>1, <1>2, <2>1 DEF Calls
    <2>4. Due(d)' <=> r.what = "paired"
      BY <1>1, <2>1, <2>2 DEF Due
    <2>5. \A q : LastIs(d, q)' <=> q = r
      BY <1>1, <2>1, <2>2 DEF LastIs
    <2> QED
      BY <1>4, <2>3, <2>4, <2>5
  <1> QED
    BY <1>3, <1>4

LEMMA DueIs ==
  ASSUME NEW d
  PROVE  Due(d) <=> \/ About(d) = {} /\ d \in through
                    \/ \E r : LastIs(d, r) /\ r.what = "paired"
  BY DEF Due, LastIs

\* The relay takes one: what is due stays so.
LEMMA OneTaken ==
  ASSUME CtlTyped, RelayTakes, NEW d \in Devices
  PROVE  /\ Calls(d)' \subseteq Calls(d) /\ (Due(d)' <=> Due(d))
         /\ \A r : LastIs(d, r)' => LastIs(d, r)
  <1> DEFINE q == ctl[1]
             n == Len(ctl)
  <1>1. /\ n \in Nat /\ 1 \in 1..n /\ DOMAIN ctl = 1..n /\ Head(ctl) = q
        /\ Len(Tail(ctl)) = n - 1 /\ Tail(ctl) \in Seq(CallType)
        /\ \A j \in 1..(n - 1) : Tail(ctl)[j] = ctl[j + 1]
    BY HeadTailProperties, LenProperties DEF RelayTakes, CtlTyped
  <1>2. /\ through' = (IF q.what = "paired" THEN through \cup {q.dev} ELSE through \ {q.dev})
        /\ ctl' = Tail(ctl)
    BY <1>1 DEF RelayTakes
  <1>3. RemoveAt(ctl, 1) = Tail(ctl)
    <2>1. /\ Len(RemoveAt(ctl, 1)) = n - 1 /\ DOMAIN RemoveAt(ctl, 1) = 1..(n - 1)
          /\ \A j \in 1..(n - 1) : RemoveAt(ctl, 1)[j] = ctl[j + 1]
      <3>1. ctl \in Seq(CallType) /\ 1 \in 1..Len(ctl)
        BY <1>1 DEF CtlTyped
      <3>2. /\ Len(RemoveAt(ctl, 1)) = n - 1 /\ DOMAIN RemoveAt(ctl, 1) = 1..(n - 1)
            /\ \A j \in 1..(n - 1) : RemoveAt(ctl, 1)[j] = IF j < 1 THEN ctl[j] ELSE ctl[j + 1]
        BY <3>1, RemovedAt
      <3>3. \A j \in 1..(n - 1) : ~(j < 1)
        BY <1>1
      <3> QED
        BY <1>1, <3>2, <3>3
    <2>2. RemoveAt(ctl, 1) \in Seq(CallType)
      <3>1. SubSeq(ctl, 1, 1 - 1) \in Seq(CallType) /\ SubSeq(ctl, 1 + 1, Len(ctl)) \in Seq(CallType)
        BY <1>1, SubSeqProperties DEF CtlTyped
      <3> QED
        BY <3>1, ConcatProperties DEF RemoveAt
    <2> QED
      BY <1>1, <2>1, <2>2, SeqEqual
  <1> HIDE DEF q, n
  <1>4. /\ Calls(d)' \subseteq Calls(d)
        /\ ~Newest(d, 1) => /\ About(d)' = {} <=> About(d) = {}
                            /\ \A r : LastIs(d, r)' <=> LastIs(d, r)
        /\ Newest(d, 1) => About(d)' = {}
    BY <1>1, <1>2, <1>3, OneLess
  <1>5. CASE Newest(d, 1)
    <2>1. q.dev = d /\ (Due(d) <=> q.what = "paired")
      BY <1>1, <1>5 DEF Newest, Due, About, q
    <2>2. Due(d)' <=> d \in through'
      BY <1>4, <1>5 DEF Due
    <2>3. \A r : ~LastIs(d, r)'
      BY <1>4, <1>5 DEF LastIs
    <2> QED
      BY <1>2, <1>4, <2>1, <2>2, <2>3
  <1>6. CASE ~Newest(d, 1)
    <2>1. About(d) = {} => (d \in through' <=> d \in through)
      BY <1>1, <1>2 DEF About, q
    <2>2. Due(d)' <=> \/ About(d)' = {} /\ d \in through'
                      \/ \E r : LastIs(d, r)' /\ r.what = "paired"
      BY DEF Due, LastIs
    <2> QED
      BY <1>4, <1>6, <2>1, <2>2, DueIs
  <1> QED
    BY <1>5, <1>6

\* One is lost that was not the last about the device: what is due stays so.
LEMMA OneLost ==
  ASSUME CtlTyped, NEW i \in DOMAIN ctl, ctl' = RemoveAt(ctl, i), UNCHANGED through,
         NEW d, ~Newest(d, i)
  PROVE  /\ Calls(d)' \subseteq Calls(d) /\ (Due(d)' <=> Due(d))
         /\ \A r : LastIs(d, r)' <=> LastIs(d, r)
  <1>1. /\ Calls(d)' \subseteq Calls(d) /\ (About(d)' = {} <=> About(d) = {})
        /\ \A r : LastIs(d, r)' <=> LastIs(d, r)
    BY OneLess
  <1>2. Due(d)' <=> \/ About(d)' = {} /\ d \in through'
                    \/ \E r : LastIs(d, r)' /\ r.what = "paired"
    BY DEF Due, LastIs
  <1> QED
    BY <1>1, <1>2, DueIs

-----------------------------------------------------------------------------
(* Host and relay agree *)

\* What reconciling leaves to ask, and what is due after that.
Ends(d) == d \in rec.add \/ (d \notin rec.drop /\ Due(d))
\* A connection pairs the device through this tunnel, or did through an earlier one.
Told(d) == \E k \in Pairs(d) : conn[k].relayed
\* What of it is under way, once the relay has taken the host's tunnel.
DueOK(d) ==
    /\ tunnel = "dialed" => (d \in through <=> d \in rec.listed)
    /\ rec.phase = "spawned" => /\ d \in rec.listed => Due(d)
                                /\ Due(d) => d \in rec.listed \/ d \in Paired \/ Pairs(d) # {}
    /\ tunnel = "up" /\ rec.phase # "spawned" => (Ends(d) <=> d \in Paired \/ Told(d))
    /\ d \in rec.add => d \in Paired
    /\ d \in rec.drop => d \in rec.listed
\* Whoever asked about the device waits for the answer, but for reconciling, whose
\* call may have failed and been overtaken by an unpairing.
CallsOK(d) ==
    /\ \A r \in Calls(d) :
          /\ r.from \in Conns => conn[r.from].dev = d /\ conn[r.from].phase = "asking"
          /\ r.from \in Ops => op[r.from].dev = d /\ op[r.from].phase = "asking"
          /\ rec.phase = "spawned" => r.what = "paired"
    /\ \A r : LastIs(d, r) /\ r.from = "reconcile" =>
          rec.phase = "asking" /\ (d \in rec.listed \/ d \in Paired)
Agreeing == \A d \in Devices : d \in astray \/ (DueOK(d) /\ CallsOK(d))

LEMMA CallsAre ==
  ASSUME CtlTyped, NEW d
  PROVE  /\ Calls(d) \subseteq CallType /\ \A r \in Calls(d) : r.dev = d
         /\ \A r : LastIs(d, r) => r \in Calls(d)
         /\ ctl = <<>> => About(d) = {} /\ Calls(d) = {} /\ (Due(d) <=> d \in through)
                          /\ \A r : ~LastIs(d, r)
         /\ ~\E w : \E r \in Calls(d) : r.from = w /\ ~OnItsWay(w)
  BY LenProperties DEF CtlTyped, Calls, About, LastIs, Due, OnItsWay

\* Nothing of it changes.
LEMMA AgreeQuiet ==
  ASSUME Typed, NEW d \in Devices, DueOK(d), CallsOK(d), UNCHANGED <<rec, tunnel, ctl>>,
         d \in through' <=> d \in through, d \in Paired' <=> d \in Paired, Pairs(d)' = Pairs(d),
         \A k \in Pairs(d) : conn'[k].relayed = conn[k].relayed,
         \A k \in Conns : conn[k].phase = "asking" /\ conn[k].dev = d
                          => conn'[k].phase = "asking" /\ conn'[k].dev = d,
         \A u \in Ops : op[u].phase = "asking" => op'[u] = op[u]
  PROVE  DueOK(d)' /\ CallsOK(d)'
  <1>1. /\ About(d)' = About(d) /\ Calls(d)' = Calls(d) /\ (\A r : LastIs(d, r)' <=> LastIs(d, r))
        /\ (Due(d)' <=> Due(d))
    BY DEF About, Calls, LastIs, Newest, Due
  <1>2. Told(d)' <=> Told(d)
    BY DEF Told
  <1>3. DueOK(d)'
    BY <1>1, <1>2 DEF DueOK, Ends
  <1>4. CallsOK(d)'
    BY <1>1 DEF CallsOK
  <1> QED
    BY <1>3, <1>4

\* Only the connection k changes, which was or is no pairing of the device.
LEMMA PairsStay ==
  ASSUME ConnTyped, NEW k \in Conns, NEW d, \A n \in Conns \ {k} : conn'[n] = conn[n],
         ~(Pending(k) /\ conn[k].dev = d), ~(Pending(k)' /\ conn'[k].dev = d)
  PROVE  /\ Pairs(d)' = Pairs(d) /\ k \notin Pairs(d) /\ (Told(d)' <=> Told(d))
  <1>1. k \notin Pairs(d) /\ k \notin Pairs(d)'
    BY DEF Pairs, Pending
  <1>2. \A n \in Conns \ {k} : n \in Pairs(d)' <=> n \in Pairs(d)
    BY DEF Pairs
  <1>3. Pairs(d)' = Pairs(d)
    BY <1>1, <1>2 DEF Pairs
  <1>4. \A n \in Pairs(d) : conn'[n] = conn[n]
    BY <1>1 DEF Pairs
  <1> QED
    BY <1>1, <1>3, <1>4 DEF Told

\* A step of one connection that is no pairing.
LEMMA AgreeConn ==
  ASSUME Typed, NEW d \in Devices, DueOK(d), CallsOK(d),
         UNCHANGED <<peers, rec, tunnel, ctl, through, op>>,
         NEW k \in Conns, \A n \in Conns \ {k} : conn'[n] = conn[n],
         ~(Pending(k) /\ conn[k].dev = d), ~(Pending(k)' /\ conn'[k].dev = d)
  PROVE  DueOK(d)' /\ CallsOK(d)'
  <1>1. /\ Pairs(d)' = Pairs(d) /\ k \notin Pairs(d)
    BY PairsStay DEF Typed
  <1>2. \A n \in Pairs(d) : conn'[n].relayed = conn[n].relayed
    BY <1>1 DEF Pairs
  <1>3. \A n \in Conns : conn[n].phase = "asking" /\ conn[n].dev = d
                         => conn'[n].phase = "asking" /\ conn'[n].dev = d
    BY DEF Pending
  <1>4. Paired' = Paired
    BY DEF Paired
  <1> QED
    BY <1>1, <1>2, <1>3, <1>4, AgreeQuiet

LEMMA AgreeTunnel ==
  ASSUME Typed, Agreeing,
         \/ RelayTakes \/ Register \/ TakeRegistered \/ TunnelLost \/ TunnelNoticed \/ Crash
  PROVE  Agreeing'
  <1> USE DEF Typed, keyVars, relayVars
  <1>1. CASE RelayTakes
    <2> SUFFICES ASSUME NEW d \in Devices, d \notin astray PROVE DueOK(d)' /\ CallsOK(d)'
      BY <1>1 DEF Agreeing, RelayTakes
    <2>1. /\ Calls(d)' \subseteq Calls(d) /\ (Due(d)' <=> Due(d))
          /\ \A r : LastIs(d, r)' => LastIs(d, r)
      BY <1>1, OneTaken
    <2>2. /\ UNCHANGED <<peers, conn, op, rec, tunnel>> /\ tunnel = "up"
          /\ Pairs(d)' = Pairs(d) /\ (Told(d)' <=> Told(d)) /\ Paired' = Paired
      BY <1>1 DEF RelayTakes, Pairs, Told, Paired
    <2>3. DueOK(d) /\ CallsOK(d)
      BY DEF Agreeing
    <2>4. DueOK(d)'
      BY <2>1, <2>2, <2>3 DEF DueOK, Ends
    <2>5. CallsOK(d)'
      BY <2>1, <2>2, <2>3 DEF CallsOK
    <2> QED
      BY <2>4, <2>5
  <1>2. CASE Register
    <2> SUFFICES ASSUME NEW d \in Devices PROVE DueOK(d)' /\ CallsOK(d)'
      BY DEF Agreeing
    <2>1. ctl' = <<>> /\ CtlTyped'
      BY <1>2 DEF Register, IdleTyped, CtlTyped
    <2>2. Calls(d)' = {} /\ \A r : ~LastIs(d, r)'
      BY <2>1 DEF Calls, About, LastIs
    <2>3. DueOK(d)'
      BY <1>2 DEF Register, DueOK, NoTask
    <2>4. CallsOK(d)'
      BY <2>2 DEF CallsOK
    <2> QED
      BY <2>3, <2>4
  <1>3. CASE TakeRegistered
    <2> SUFFICES ASSUME NEW d \in Devices, d \notin astray PROVE DueOK(d)' /\ CallsOK(d)'
      BY <1>3 DEF Agreeing, TakeRegistered
    <2>1. ctl' = <<>>
      BY <1>3 DEF TakeRegistered, IdleTyped
    <2>2. About(d)' = {}
      BY <2>1 DEF About
    <2>3. Calls(d)' = {} /\ (\A r : ~LastIs(d, r)') /\ (Due(d)' <=> d \in through')
      BY <2>2 DEF Calls, LastIs, Due
    <2>4. DueOK(d)
      BY DEF Agreeing
    <2>5. /\ tunnel = "dialed" /\ tunnel' = "up" /\ through' = through
          /\ rec' = [rec EXCEPT !.phase = "spawned"] /\ rec.phase = "none"
      BY <1>3 DEF TakeRegistered, RecTyped
    <2>6. /\ rec'.phase = "spawned" /\ rec'.listed = rec.listed
          /\ rec'.add = {} /\ rec'.drop = {}
      BY <2>5 DEF RecTyped, RecType
    <2>7. DueOK(d)'
      BY <2>3, <2>4, <2>5, <2>6 DEF DueOK
    <2>8. CallsOK(d)'
      BY <2>3 DEF CallsOK
    <2> QED
      BY <2>7, <2>8
  <1>4. CASE TunnelLost \/ TunnelNoticed \/ Crash
    <2> SUFFICES ASSUME NEW d \in Devices PROVE DueOK(d)' /\ CallsOK(d)'
      BY DEF Agreeing
    <2>1. ctl' = <<>> /\ tunnel' \in {"lost", "down"}
      BY <1>4 DEF TunnelLost, TunnelNoticed, Crash, IdleTyped
    <2>2. Calls(d)' = {} /\ \A r : ~LastIs(d, r)'
      BY <2>1 DEF Calls, About, LastIs
    <2>3. rec'.phase = "none" /\ rec'.add = {} /\ rec'.drop = {}
      BY <1>4 DEF TunnelLost, TunnelNoticed, Crash, NoTask, RecTyped
    <2>4. DueOK(d)'
      BY <2>1, <2>3 DEF DueOK
    <2>5. CallsOK(d)'
      BY <2>2 DEF CallsOK
    <2> QED
      BY <2>4, <2>5
  <1> QED
    BY <1>1, <1>2, <1>3, <1>4

LEMMA AgreeReconcile ==
  ASSUME Typed, Agreeing, ReconcileBegin \/ ReconcileAsk
  PROVE  Agreeing'
  <1> USE DEF Typed, keyVars, relayVars
  <1>1. CASE ReconcileBegin
    <2> SUFFICES ASSUME NEW d \in Devices, d \notin astray, d \in Paired \/ Pairs(d) = {}
                 PROVE  DueOK(d)' /\ CallsOK(d)'
      BY <1>1 DEF Agreeing, ReconcileBegin
    <2>1. DueOK(d) /\ CallsOK(d)
      BY DEF Agreeing
    <2>2. /\ Calls(d)' = Calls(d) /\ (Due(d)' <=> Due(d)) /\ (\A r : LastIs(d, r)' <=> LastIs(d, r))
          /\ Paired' = Paired /\ UNCHANGED <<conn, op, tunnel>> /\ (Told(d)' <=> Told(d))
          /\ Pairs(d)' = Pairs(d)
      BY <1>1 DEF ReconcileBegin, Calls, About, Newest, Due, LastIs, Paired, Told, Pairs
    <2>3. /\ rec'.phase = "asks" /\ rec'.listed = rec.listed
          /\ rec'.add = Paired \ rec.listed /\ rec'.drop = rec.listed \ Paired
          /\ rec.phase = "spawned"
      BY <1>1 DEF ReconcileBegin, ToAsk
    <2>4. Told(d) => Pairs(d) # {}
      BY DEF Told
    <2>5. DueOK(d)'
      <3>1. /\ d \in rec.listed => Due(d)
            /\ Due(d) => d \in rec.listed \/ d \in Paired \/ Pairs(d) # {}
        BY <2>1, <2>3 DEF DueOK
      <3>2. Ends(d)' <=> d \in rec'.add \/ (d \notin rec'.drop /\ Due(d))
        BY <2>2 DEF Ends
      <3>3. Ends(d)' <=> d \in Paired \/ Told(d)
        BY <2>3, <2>4, <3>1, <3>2
      <3>4. tunnel' = "up"
        BY <2>2, <2>3 DEF RecTyped
      <3> QED
        BY <2>2, <2>3, <3>3, <3>4 DEF DueOK
    <2>6. CallsOK(d)'
      BY <2>1, <2>2, <2>3 DEF CallsOK
    <2> QED
      BY <2>5, <2>6
  <1>2. CASE ReconcileAsk
    <2> SUFFICES ASSUME NEW d \in Devices, d \notin astray PROVE DueOK(d)' /\ CallsOK(d)'
      BY <1>2 DEF Agreeing, ReconcileAsk
    <2>1. DueOK(d) /\ CallsOK(d)
      BY DEF Agreeing
    <2>2. /\ UNCHANGED <<peers, conn, op, tunnel, through>> /\ rec.phase = "asks"
          /\ Pairs(d)' = Pairs(d) /\ (Told(d)' <=> Told(d)) /\ Paired' = Paired /\ tunnel = "up"
      BY <1>2 DEF ReconcileAsk, Pairs, Told, Paired, RecTyped
    <2>3. /\ d \in rec.add => d \in Paired
          /\ d \in rec.drop => d \in rec.listed
          /\ Ends(d) <=> d \in Paired \/ Told(d)
          /\ \A r : LastIs(d, r) => r.from # "reconcile"
      BY <2>1, <2>2 DEF DueOK, CallsOK
    <2>4. ASSUME NEW e \in Devices, NEW what \in {"paired", "unpair"},
                 ctl' = Append(ctl, Request("reconcile", what, e)),
                 rec'.phase = "asking", rec'.listed = rec.listed,
                 \/ e \in rec.add /\ what = "paired" /\ rec'.add = rec.add \ {e} /\ rec'.drop = rec.drop
                 \/ e \in rec.drop /\ what = "unpair" /\ rec'.drop = rec.drop \ {e} /\ rec'.add = rec.add
          PROVE  DueOK(d)' /\ CallsOK(d)'
      <3> DEFINE r == Request("reconcile", what, e)
      <3>1. r.from = "reconcile" /\ r.what = what /\ r.dev = e
        BY DEF Request
      <3> HIDE DEF r
      <3>2. rec.add \cap rec.drop = {}
        BY DEF RecTyped
      <3>3. CASE e = d
        <4>1. /\ Calls(d)' = Calls(d) \cup {r} /\ (Due(d)' <=> what = "paired")
              /\ \A q : LastIs(d, q)' <=> q = r
          BY <2>2, <2>4, <3>1, <3>3, OneMore DEF r
        <4>2. Ends(d)' <=> Ends(d)
          BY <2>4, <3>2, <3>3, <4>1 DEF Ends
        <4>3. DueOK(d)'
          BY <2>2, <2>3, <2>4, <4>2 DEF DueOK
        <4>4. CallsOK(d)'
          BY <2>1, <2>2, <2>3, <2>4, <3>1, <3>3, <4>1, Bounds DEF CallsOK
        <4> QED
          BY <4>3, <4>4
      <3>4. CASE e # d
        <4>1. /\ Calls(d)' = Calls(d) /\ (Due(d)' <=> Due(d))
              /\ \A q : LastIs(d, q)' <=> LastIs(d, q)
          BY <2>2, <2>4, <3>1, <3>4, OneMore DEF r
        <4>2. (d \in rec'.add <=> d \in rec.add) /\ (d \in rec'.drop <=> d \in rec.drop)
          BY <2>4, <3>4
        <4>3. DueOK(d)'
          BY <2>2, <2>3, <2>4, <4>1, <4>2 DEF DueOK, Ends
        <4>4. CallsOK(d)'
          BY <2>1, <2>2, <2>3, <2>4, <4>1 DEF CallsOK
        <4> QED
          BY <4>3, <4>4
      <3> QED
        BY <3>3, <3>4
    <2>5. CASE rec.add = {} /\ rec.drop = {} /\ rec' = NoTask /\ UNCHANGED ctl
      <3>1. /\ rec'.phase = "none" /\ rec'.add = {} /\ rec'.drop = {}
        BY <2>5 DEF NoTask
      <3>2. /\ Calls(d)' = Calls(d) /\ (Due(d)' <=> Due(d)) /\ (\A r : LastIs(d, r)' <=> LastIs(d, r))
        BY <2>2, <2>5 DEF Calls, About, Newest, Due, LastIs
      <3>3. DueOK(d)'
        BY <2>2, <2>3, <2>5, <3>1, <3>2 DEF DueOK, Ends
      <3>4. CallsOK(d)'
        BY <2>1, <2>2, <2>3, <3>1, <3>2 DEF CallsOK
      <3> QED
        BY <3>3, <3>4
    <2>6. ASSUME NEW e \in rec.add, ctl' = Append(ctl, Request("reconcile", "paired", e)),
                 rec' = [rec EXCEPT !.phase = "asking", !.add = @ \ {e}]
          PROVE  DueOK(d)' /\ CallsOK(d)'
      <3>1. e \in Devices /\ rec'.phase = "asking" /\ rec'.listed = rec.listed
            /\ rec'.add = rec.add \ {e} /\ rec'.drop = rec.drop
        BY <2>6 DEF RecTyped, RecType
      <3> QED
        BY <2>4, <2>6, <3>1
    <2>7. ASSUME NEW e \in rec.drop, ctl' = Append(ctl, Request("reconcile", "unpair", e)),
                 rec' = [rec EXCEPT !.phase = "asking", !.drop = @ \ {e}]
          PROVE  DueOK(d)' /\ CallsOK(d)'
      <3>1. e \in Devices /\ rec'.phase = "asking" /\ rec'.listed = rec.listed
            /\ rec'.drop = rec.drop \ {e} /\ rec'.add = rec.add
        BY <2>7 DEF RecTyped, RecType
      <3> QED
        BY <2>4, <2>7, <3>1
    <2> QED
      BY <1>2, <2>5, <2>6, <2>7 DEF ReconcileAsk
  <1> QED
    BY <1>1, <1>2

\* Whose call it was, it was about the device only if it is that caller's.
LEMMA CallersAre ==
  ASSUME Typed, NEW d \in Devices, CallsOK(d), NEW r \in Calls(d)
  PROVE  /\ r.from \in Conns => conn[r.from].dev = d /\ conn[r.from].phase = "asking"
         /\ r.from \in Ops => op[r.from].dev = d /\ op[r.from].phase = "asking"
  BY DEF CallsOK

\* The callers' ends, seen from a device no call of theirs is about.
LEMMA RefusedPairs ==
  ASSUME ConnTyped, NEW W, Refused(W), NEW d, \A k \in W \cap Conns : conn[k].dev # d
  PROVE  /\ Pairs(d)' = Pairs(d) /\ (Told(d)' <=> Told(d))
  <1>1. \A k \in Conns : conn'[k] = IF k \in W THEN NoConn ELSE conn[k]
    BY DEF Refused
  <1>2. Pairs(d)' = Pairs(d)
    BY <1>1, NoConnRight DEF Pairs
  <1>3. \A k \in Pairs(d) : conn'[k] = conn[k]
    BY <1>1 DEF Pairs
  <1> QED
    BY <1>2, <1>3 DEF Told

LEMMA AgreeAnswered ==
  ASSUME Typed, Agreeing, NEW w \in Conns \cup Ops \cup {"reconcile"}, Answered(w)
  PROVE  Agreeing'
  <1> USE DEF Typed, keyVars
  <1> SUFFICES ASSUME NEW d \in Devices, d \notin astray PROVE DueOK(d)' /\ CallsOK(d)'
    BY DEF Agreeing, Answered
  <1>1. DueOK(d) /\ CallsOK(d)
    BY DEF Agreeing
  <1>2. /\ UNCHANGED <<peers, tunnel, ctl, through>> /\ w \in Asking /\ ~OnItsWay(w)
    BY DEF Answered
  <1>3. /\ Calls(d)' = Calls(d) /\ (Due(d)' <=> Due(d)) /\ (\A r : LastIs(d, r)' <=> LastIs(d, r))
        /\ Paired' = Paired
    BY <1>2 DEF Calls, About, Newest, Due, LastIs, Paired
  <1>4. \A r \in Calls(d) : r.from # w
    BY <1>2, CallsAre
  <1>5. CASE w \in Conns /\ conn' = [conn EXCEPT ![w].phase = "asked"] /\ UNCHANGED <<op, rec>>
    <2>1. conn[w].phase = "asking"
      BY <1>2, <1>5, Bounds DEF Asking
    <2>2. /\ \A k \in Conns : k # w => conn'[k] = conn[k]
          /\ conn'[w].phase = "asked" /\ conn'[w].dev = conn[w].dev
          /\ conn'[w].relayed = conn[w].relayed
      BY <1>5 DEF ConnTyped, ConnType
    <2>3. Pairs(d)' = Pairs(d)
      BY <2>1, <2>2 DEF Pairs
    <2>4. Told(d)' <=> Told(d)
      BY <2>2, <2>3 DEF Told, Pairs
    <2>5. DueOK(d)'
      BY <1>1, <1>2, <1>3, <1>5, <2>3, <2>4 DEF DueOK, Ends
    <2>6. CallsOK(d)'
      BY <1>1, <1>3, <1>4, <1>5, <2>2 DEF CallsOK
    <2> QED
      BY <2>5, <2>6
  <1>6. CASE w \in Ops /\ Refused({w}) /\ UNCHANGED rec
    <2>1. /\ \A k \in Conns : conn'[k] = conn[k]
          /\ \A u \in Ops : u # w => op'[u] = op[u]
      BY <1>6, Bounds DEF Refused
    <2>2. Pairs(d)' = Pairs(d) /\ (Told(d)' <=> Told(d))
      BY <1>6, RefusedPairs, Bounds
    <2>3. DueOK(d)'
      BY <1>1, <1>2, <1>3, <1>6, <2>2 DEF DueOK, Ends
    <2>4. CallsOK(d)'
      BY <1>1, <1>3, <1>4, <1>6, <2>1 DEF CallsOK
    <2> QED
      BY <2>3, <2>4
  <1>7. CASE w = "reconcile" /\ rec' = [rec EXCEPT !.phase = "asks"] /\ UNCHANGED <<conn, op>>
    <2>1. /\ rec'.phase = "asks" /\ rec'.listed = rec.listed /\ rec'.add = rec.add
          /\ rec'.drop = rec.drop /\ rec.phase = "asking"
      BY <1>2, <1>7, Bounds DEF RecTyped, RecType, Asking
    <2>2. Pairs(d)' = Pairs(d) /\ (Told(d)' <=> Told(d))
      BY <1>7 DEF Pairs, Told
    <2>3. \A r : LastIs(d, r) => r.from # "reconcile"
      BY <1>4, <1>7, CallsAre
    <2>4. DueOK(d)'
      BY <1>1, <1>2, <1>3, <2>1, <2>2 DEF DueOK, Ends
    <2>5. CallsOK(d)'
      BY <1>1, <1>3, <1>7, <2>1, <2>3 DEF CallsOK
    <2> QED
      BY <2>4, <2>5
  <1> QED
    BY <1>5, <1>6, <1>7 DEF Answered

LEMMA AgreeFails ==
  ASSUME Typed, Agreeing, NEW w \in Conns \cup Ops \cup {"reconcile"}, RequestFails(w)
  PROVE  Agreeing'
  <1> USE DEF Typed, keyVars
  <1> SUFFICES ASSUME NEW d \in Devices, d \notin astray, d \notin DevOf(w)
               PROVE  DueOK(d)' /\ CallsOK(d)'
    BY DEF Agreeing, RequestFails
  <1>1. DueOK(d) /\ CallsOK(d)
    BY DEF Agreeing
  <1>2. /\ UNCHANGED <<peers, tunnel, through>> /\ w \in Asking /\ Refused({w})
        /\ Paired' = Paired /\ tunnel = "up"
    BY DEF RequestFails, Paired, IdleTyped, Idle, Asking
  \* None of its calls is about the device, or what it is was overtaken.
  <1>3. ASSUME NEW r \in Calls(d), r.from = w
        PROVE  w = "reconcile" /\ ~LastIs(d, r)
    <2>1. CASE w \in Conns
      BY <1>1, <1>3, <2>1 DEF CallsOK, DevOf
    <2>2. CASE w \in Ops
      BY <1>1, <1>3, <2>2, Bounds DEF CallsOK, DevOf
    <2>3. CASE w = "reconcile"
      BY <1>1, <1>3, <2>3, Bounds DEF CallsOK, DevOf
    <2> QED
      BY <2>1, <2>2, <2>3
  <1>4. /\ Calls(d)' \subseteq Calls(d) /\ (Due(d)' <=> Due(d))
        /\ \A r : LastIs(d, r)' <=> LastIs(d, r)
    <2>1. CASE UNCHANGED ctl
      BY <1>2, <2>1 DEF Calls, About, Newest, Due, LastIs
    <2>2. ASSUME NEW i \in DOMAIN ctl, ctl[i].from = w, ctl' = RemoveAt(ctl, i)
          PROVE  /\ Calls(d)' \subseteq Calls(d) /\ (Due(d)' <=> Due(d))
                 /\ \A r : LastIs(d, r)' <=> LastIs(d, r)
      <3>1. ~Newest(d, i)
        BY <1>3, <2>2 DEF Newest, LastIs, Calls
      <3> QED
        BY <1>2, <2>2, <3>1, OneLost
    <2> QED
      BY <2>1, <2>2 DEF RequestFails
  <1>5. \A k \in {w} \cap Conns : conn[k].dev # d
    BY DEF DevOf
  <1>6. Pairs(d)' = Pairs(d) /\ (Told(d)' <=> Told(d))
    BY <1>2, <1>5, RefusedPairs
  <1>7. /\ rec'.listed = rec.listed /\ rec'.add = rec.add /\ rec'.drop = rec.drop
        /\ rec'.phase = (IF w = "reconcile" THEN "asks" ELSE rec.phase)
        /\ w = "reconcile" => rec.phase = "asking"
    BY Bounds DEF RequestFails, RecTyped, RecType, Asking
  <1>8. /\ \A k \in Conns : k # w => conn'[k] = conn[k]
        /\ \A u \in Ops : u # w => op'[u] = op[u]
    BY <1>2 DEF Refused
  <1>9. DueOK(d)'
    BY <1>1, <1>2, <1>4, <1>6, <1>7 DEF DueOK, Ends
  <1>10. CallsOK(d)'
    <2>1. ASSUME NEW r \in Calls(d)'
          PROVE  /\ r.from \in Conns => conn'[r.from].dev = d /\ conn'[r.from].phase = "asking"
                 /\ r.from \in Ops => op'[r.from].dev = d /\ op'[r.from].phase = "asking"
                 /\ rec'.phase = "spawned" => r.what = "paired"
      <3>1. r \in Calls(d) /\ (r.from = w => w = "reconcile")
        BY <1>3, <1>4
      <3> QED
        BY <1>1, <1>7, <1>8, <3>1, Bounds DEF CallsOK
    <2>2. ASSUME NEW r, LastIs(d, r), r.from = "reconcile"
          PROVE  rec'.phase = "asking" /\ (d \in rec'.listed \/ d \in Paired')
      <3>1. r \in Calls(d)
        BY <2>2, CallsAre
      <3>2. w # "reconcile"
        BY <1>3, <2>2, <3>1
      <3> QED
        BY <1>1, <1>2, <1>7, <2>2, <3>2 DEF CallsOK
    <2> QED
      BY <1>4, <2>1, <2>2 DEF CallsOK
  <1> QED
    BY <1>9, <1>10

LEMMA AgreeAside ==
  ASSUME Typed, Agreeing,
         \/ ShowCode \/ Expire \/ (\E d \in Devices : OperatorUnpairs(d))
         \/ (\E u \in Ops, d \in Devices : UnpairBegin(u, d)) \/ UNCHANGED pairingVars
  PROVE  Agreeing'
  <1> USE DEF Typed, keyVars, relayVars, pairingVars
  <1>1. ASSUME NEW d \in Devices, d \notin astray' PROVE DueOK(d)' /\ CallsOK(d)'
    <2>1. /\ UNCHANGED <<peers, conn, rec, tunnel, ctl>> /\ astray \subseteq astray'
          /\ d \in through' <=> d \in through
          /\ \A u \in Ops : op[u].phase = "asking" => op'[u] = op[u]
      BY <1>1 DEF ShowCode, Expire, OperatorUnpairs, UnpairBegin, OpTyped
    <2>2. DueOK(d) /\ CallsOK(d)
      BY <1>1, <2>1 DEF Agreeing
    <2>3. Paired' = Paired /\ Pairs(d)' = Pairs(d)
      BY <2>1 DEF Paired, Pairs
    <2> QED
      BY <2>1, <2>2, <2>3, AgreeQuiet
  <1> QED
    BY <1>1 DEF Agreeing

LEMMA AgreeSessions ==
  ASSUME Typed, Agreeing, NEW k \in Conns,
         \/ PairFails(k) \/ PairUnsent(k) \/ Open(k) \/ Check(k) \/ TakeFrame(k) \/ EndConn(k)
         \/ \E d \in Devices : Greet(k, d) \/ \E relayed \in BOOLEAN : StartPair(k, d, relayed)
  PROVE  Agreeing'
  <1> USE DEF Typed, keyVars, relayVars
  <1>1. PICK r : conn' = [conn EXCEPT ![k] = r]
    BY DEF PairFails, PairUnsent, Open, Check, TakeFrame, EndConn, Greet, StartPair, ConnTyped
  <1>2. ~Pending(k)'
    <2>1. CASE \/ PairFails(k) \/ PairUnsent(k) \/ Open(k) \/ TakeFrame(k) \/ EndConn(k)
      BY <2>1, NoConnRight DEF PairFails, PairUnsent, Open, TakeFrame, EndConn, Pending,
         ConnTyped, ConnType
    <2>2. CASE Check(k)
      <3>1. conn' = [conn EXCEPT ![k] = Checked(k)]
        BY <2>2 DEF Check
      <3>2. Checked(k).phase \in {"none", "waits"}
        BY NoConnRight DEF Checked, ConnTyped, ConnType
      <3> QED
        BY <3>1, <3>2 DEF ConnTyped, Pending
    <2>3. ASSUME NEW d \in Devices, Greet(k, d) PROVE ~Pending(k)'
      <3>1. Session(d, peers[d], "greeted").phase = "greeted"
        BY SessionRight DEF KeysTyped
      <3> QED
        BY <2>3, <3>1 DEF Greet, ConnTyped, Pending
    <2>4. ASSUME NEW d \in Devices, NEW relayed \in BOOLEAN, StartPair(k, d, relayed) PROVE ~Pending(k)'
      BY <2>4 DEF StartPair, NoConn, ConnTyped, Pending
    <2> QED
      BY <2>1, <2>2, <2>3, <2>4
  <1> SUFFICES ASSUME NEW d \in Devices, d \notin astray' PROVE DueOK(d)' /\ CallsOK(d)'
    BY DEF Agreeing
  <1>3. /\ astray \subseteq astray' /\ (Pending(k) => conn[k].dev \in astray')
        /\ UNCHANGED <<peers, rec, tunnel, ctl, through, op>>
    BY DEF PairFails, PairUnsent, Open, Check, TakeFrame, EndConn, Greet, StartPair, Pending, Free
  <1>4. DueOK(d) /\ CallsOK(d) /\ ~(Pending(k) /\ conn[k].dev = d)
    BY <1>3 DEF Agreeing
  <1>5. \A n \in Conns \ {k} : conn'[n] = conn[n]
    BY <1>1 DEF ConnTyped
  <1> QED
    BY <1>2, <1>3, <1>4, <1>5, AgreeConn

LEMMA AgreeTakes ==
  ASSUME Typed, Agreeing, NEW k \in Conns, PairTakes(k)
  PROVE  Agreeing'
  <1> USE DEF Typed, keyVars
  <1> SUFFICES ASSUME NEW d \in Devices, d \notin astray' PROVE DueOK(d)' /\ CallsOK(d)'
    BY DEF Agreeing
  <1>0. PICK e : e = conn[k].dev
    OBVIOUS
  <1> DEFINE tells == conn[k].relayed /\ tunnel = "up"
             r == Request(k, "paired", e)
  <1>1. DueOK(d) /\ CallsOK(d)
    BY DEF Agreeing, PairTakes
  <1>2. /\ UNCHANGED <<peers, op, rec, tunnel, through>> /\ Paired' = Paired /\ conn[k].phase = "pairs"
        /\ d = e => d \notin rec.drop
        /\ ctl' = IF tells THEN Append(ctl, r) ELSE ctl
    BY <1>0 DEF PairTakes, Paired
  <1>3. \A n \in Conns \ {k} : conn'[n] = conn[n]
    BY DEF PairTakes, ConnTyped
  <1>4. \/ tells /\ conn'[k].phase = "asking" /\ conn'[k].dev = e /\ conn'[k].relayed = TRUE
        \/ ~tells /\ conn'[k].phase = "asked" /\ conn'[k].dev = e /\ conn'[k].relayed = FALSE
        \/ ~tells /\ conn'[k] = NoConn
    BY <1>0 DEF PairTakes, ConnTyped, ConnType
  <1>5. r.from = k /\ r.what = "paired" /\ r.dev = e
    BY DEF Request
  <1>6. \A q \in Calls(d) : q.from # k
    BY <1>1, <1>2 DEF CallsOK
  <1> HIDE DEF r
  <1>7. CASE tells
    <2>1. CASE d = e
      <3>1. /\ Calls(d)' = Calls(d) \cup {r} /\ (Due(d)' <=> TRUE)
            /\ \A q : LastIs(d, q)' <=> q = r
        BY <1>2, <1>5, <1>7, <2>1, OneMore
      <3>2. k \in Pairs(d)' /\ Told(d)'
        BY <1>4, <1>7, <2>1 DEF Pairs, Told
      <3>3. DueOK(d)'
        BY <1>1, <1>2, <1>7, <2>1, <3>1, <3>2 DEF DueOK, Ends
      <3>4. CallsOK(d)'
        BY <1>1, <1>2, <1>3, <1>4, <1>5, <1>6, <1>7, <2>1, <3>1, Bounds DEF CallsOK
      <3> QED
        BY <3>3, <3>4
    <2>2. CASE d # e
      <3>1. /\ Calls(d)' = Calls(d) /\ (Due(d)' <=> Due(d)) /\ \A q : LastIs(d, q)' <=> LastIs(d, q)
        BY <1>2, <1>5, <1>7, <2>2, OneMore
      <3>2. /\ Pairs(d)' = Pairs(d) /\ (Told(d)' <=> Told(d))
        BY <1>0, <1>2, <1>3, <1>4, <1>7, <2>2, PairsStay DEF Pending
      <3>3. DueOK(d)'
        BY <1>1, <1>2, <3>1, <3>2 DEF DueOK, Ends
      <3>4. CallsOK(d)'
        BY <1>1, <1>2, <1>3, <1>6, <3>1 DEF CallsOK
      <3> QED
        BY <3>3, <3>4
    <2> QED
      BY <2>1, <2>2
  <1>8. CASE ~tells
    <2>1. /\ Calls(d)' = Calls(d) /\ (Due(d)' <=> Due(d)) /\ \A q : LastIs(d, q)' <=> LastIs(d, q)
      BY <1>2, <1>8 DEF Calls, About, Newest, Due, LastIs
    <2>2. Pairs(d) \subseteq Pairs(d)' /\ Pairs(d)' \subseteq Pairs(d) \cup {k} /\ k \notin Pairs(d)
      BY <1>2, <1>3 DEF Pairs
    <2>3. ~(k \in Pairs(d)' /\ conn'[k].relayed)
      BY <1>4, <1>8, NoConnRight DEF Pairs
    <2>4. \A n \in Pairs(d) : conn'[n] = conn[n]
      BY <1>3, <2>2 DEF Pairs
    <2>5. Told(d)' <=> Told(d)
      BY <2>2, <2>3, <2>4 DEF Told
    <2>6. DueOK(d)'
      BY <1>1, <1>2, <2>1, <2>2, <2>5 DEF DueOK, Ends
    <2>7. CallsOK(d)'
      BY <1>1, <1>2, <1>3, <1>6, <2>1 DEF CallsOK
    <2> QED
      BY <2>6, <2>7
  <1> QED
    BY <1>7, <1>8

LEMMA AgreeFinish ==
  ASSUME Typed, Agreeing, NEW k \in Conns, PairFinish(k)
  PROVE  Agreeing'
  <1> USE DEF Typed, keyVars, relayVars
  <1> SUFFICES ASSUME NEW d \in Devices, d \notin astray' PROVE DueOK(d)' /\ CallsOK(d)'
    BY DEF Agreeing
  <1>0. PICK e : e = conn[k].dev
    OBVIOUS
  <1>1. DueOK(d) /\ CallsOK(d)
    BY DEF Agreeing, PairFinish
  <1>2. /\ UNCHANGED <<op, rec, tunnel, ctl, through>> /\ conn[k].phase = "asked"
        /\ e \in Devices /\ peers' = [peers EXCEPT ![e] = conn[k].id] /\ conn[k].id # 0
        /\ d = e => ~Untold(k)
        /\ \A n \in Conns \ {k} : conn'[n] = conn[n]
    BY <1>0 DEF PairFinish, ConnTyped
  <1>3. ~Pending(k)'
    <2>1. conn'[k] = NoConn \/ conn'[k] = Session(e, conn[k].id, "open")
      BY <1>0 DEF PairFinish, ConnTyped
    <2>2. conn[k].id \in 0..MaxPairings
      BY DEF ConnTyped, ConnType
    <2> QED
      BY <1>2, <2>1, <2>2, NoConnRight, SessionRight DEF Pending
  <1>4. /\ Calls(d)' = Calls(d) /\ (Due(d)' <=> Due(d)) /\ \A q : LastIs(d, q)' <=> LastIs(d, q)
    BY <1>2 DEF Calls, About, Newest, Due, LastIs
  <1>5. CASE d = e
    <2>1. d \in Paired'
      BY <1>2, <1>5 DEF Paired, KeysTyped
    <2>2. k \in Pairs(d)
      BY <1>0, <1>2, <1>5 DEF Pairs
    <2>3. tunnel = "up" /\ rec.phase # "spawned" => Ends(d)
      BY <1>1, <1>2, <1>5, <2>2 DEF Untold, DueOK, Told
    <2>4. DueOK(d)'
      BY <1>1, <1>2, <1>4, <2>1, <2>3 DEF DueOK, Ends
    <2>5. CallsOK(d)'
      BY <1>1, <1>2, <1>4, <2>1 DEF CallsOK
    <2> QED
      BY <2>4, <2>5
  <1>6. CASE d # e
    <2>1. d \in Paired' <=> d \in Paired
      BY <1>2, <1>6 DEF Paired, KeysTyped
    <2>2. Pairs(d)' = Pairs(d) /\ (Told(d)' <=> Told(d))
      BY <1>0, <1>2, <1>3, <1>6, PairsStay
    <2>3. DueOK(d)'
      BY <1>1, <1>2, <1>4, <2>1, <2>2 DEF DueOK, Ends
    <2>4. CallsOK(d)'
      BY <1>1, <1>2, <1>4, <2>1 DEF CallsOK
    <2> QED
      BY <2>3, <2>4
  <1> QED
    BY <1>5, <1>6

LEMMA AgreeRevoke ==
  ASSUME Typed, Agreeing, NEW u \in Ops, Revoke(u)
  PROVE  Agreeing'
  <1> USE DEF Typed, keyVars, relayVars
  <1> SUFFICES ASSUME NEW d \in Devices, d \notin astray' PROVE DueOK(d)' /\ CallsOK(d)'
    BY DEF Agreeing
  <1>0. PICK e : e = op[u].dev
    OBVIOUS
  <1> DEFINE r == Request(u, "unpair", e)
  <1>1. DueOK(d) /\ CallsOK(d)
    BY DEF Agreeing, Revoke
  <1>2. /\ UNCHANGED <<rec, tunnel, through>> /\ op[u].phase = "found"
        /\ e \in Devices /\ peers' = [peers EXCEPT ![e] = 0]
        /\ \A v \in Ops : v # u => op'[v] = op[v]
    BY <1>0 DEF Revoke, OpTyped
  <1>3. \A n \in Conns : /\ conn'[n].phase = conn[n].phase /\ conn'[n].dev = conn[n].dev
                         /\ conn'[n].relayed = conn[n].relayed
    BY DEF Revoke, Notified, ConnTyped, ConnType
  <1>4. Pairs(d)' = Pairs(d) /\ (Told(d)' <=> Told(d))
    BY <1>3 DEF Pairs, Told
  <1>5. \A q \in Calls(d) : q.from # u
    BY <1>1, <1>2 DEF CallsOK
  <1>6. r.from = u /\ r.what = "unpair" /\ r.dev = e
    BY DEF Request
  <1> HIDE DEF r
  <1>7. CASE d = e
    <2>1. /\ Pairs(d) = {} /\ d \notin rec.add /\ rec.phase # "spawned"
          /\ tunnel = "up" => ctl' = Append(ctl, r) /\ op'[u].phase = "asking" /\ op'[u].dev = d
          /\ tunnel # "up" => ctl' = ctl
      BY <1>0, <1>7 DEF Revoke, Crosses, OpTyped, r
    <2>2. d \notin Paired' /\ ~Told(d)'
      BY <1>2, <1>4, <1>7, <2>1 DEF Paired, KeysTyped, Told
    <2>3. CASE tunnel = "up"
      <3>1. /\ Calls(d)' = Calls(d) \cup {r} /\ (Due(d)' <=> FALSE)
            /\ \A q : LastIs(d, q)' <=> q = r
        BY <1>2, <1>6, <1>7, <2>1, <2>3, OneMore
      <3>2. DueOK(d)'
        BY <1>1, <1>2, <2>1, <2>2, <2>3, <3>1 DEF DueOK, Ends
      <3>3. CallsOK(d)'
        BY <1>1, <1>2, <1>3, <1>5, <1>6, <2>1, <2>3, <3>1, Bounds DEF CallsOK
      <3> QED
        BY <3>2, <3>3
    <2>4. CASE tunnel # "up"
      <3>1. ctl' = <<>>
        BY <2>1, <2>4 DEF IdleTyped
      <3>2. About(d)' = {}
        BY <3>1 DEF About
      <3>3. Calls(d)' = {} /\ \A q : ~LastIs(d, q)'
        BY <3>2 DEF Calls, LastIs
      <3>4. rec.phase = "none" /\ rec.add = {} /\ rec.drop = {}
        BY <2>4 DEF RecTyped
      <3>5. DueOK(d)'
        BY <1>1, <1>2, <2>4, <3>4 DEF DueOK
      <3>6. CallsOK(d)'
        BY <3>3 DEF CallsOK
      <3> QED
        BY <3>5, <3>6
    <2> QED
      BY <2>3, <2>4
  <1>8. CASE d # e
    <2>1. d \in Paired' <=> d \in Paired
      BY <1>2, <1>8 DEF Paired, KeysTyped
    <2>2. ctl' = ctl \/ ctl' = Append(ctl, r)
      BY <1>0 DEF Revoke, r
    <2>3. /\ Calls(d)' = Calls(d) /\ (Due(d)' <=> Due(d)) /\ \A q : LastIs(d, q)' <=> LastIs(d, q)
      <3>1. CASE ctl' = ctl
        BY <1>2, <3>1 DEF Calls, About, Newest, Due, LastIs
      <3>2. CASE ctl' = Append(ctl, r)
        BY <1>2, <1>6, <1>8, <3>2, OneMore
      <3> QED
        BY <2>2, <3>1, <3>2
    <2>4. DueOK(d)'
      BY <1>1, <1>2, <1>4, <2>1, <2>3 DEF DueOK, Ends
    <2>5. CallsOK(d)'
      BY <1>1, <1>2, <1>3, <1>5, <2>1, <2>3 DEF CallsOK
    <2> QED
      BY <2>4, <2>5
  <1> QED
    BY <1>7, <1>8

LEMMA AgreeStep == Typed /\ Agreeing /\ [PairingNext]_pairingVars => Agreeing'
  <1> SUFFICES ASSUME Typed, Agreeing, [PairingNext]_pairingVars PROVE Agreeing'
    OBVIOUS
  <1> QED
    BY AgreeTunnel, AgreeReconcile, AgreeAnswered, AgreeFails, AgreeAside, AgreeSessions, AgreeTakes,
       AgreeFinish, AgreeRevoke DEF PairingNext

\* Once nothing is under way between them, the relay lets through the host's
\* devices and no others, but for those that went astray.
THEOREM HostAndRelayAgree == PairingSpec => []RelayAgrees
  <1>1. PairingInit => Agreeing
    <2> SUFFICES ASSUME PairingInit, NEW d \in Devices PROVE DueOK(d) /\ CallsOK(d)
      BY DEF Agreeing
    <2>1. ctl = <<>> /\ tunnel = "down" /\ rec = NoTask
      BY DEF PairingInit
    <2>2. Calls(d) = {} /\ \A r : ~LastIs(d, r)
      BY <2>1 DEF Calls, About, LastIs
    <2> QED
      BY <2>1, <2>2 DEF DueOK, CallsOK, NoTask
  <1>2. Typed /\ Agreeing => RelayAgrees
    <2> SUFFICES ASSUME Typed, Agreeing, Settled, NEW d \in Devices, d \notin astray
                 PROVE  d \in through <=> peers[d] # 0
      BY DEF RelayAgrees
    <2>1. /\ tunnel = "up" /\ rec.phase = "none" /\ ctl = <<>> /\ ~Told(d)
          /\ rec.add = {} /\ rec.drop = {}
      BY DEF Settled, Told, Typed, RecTyped
    <2>2. Due(d) <=> d \in through
      BY <2>1 DEF Due, About
    <2>3. Ends(d) <=> d \in Paired
      BY <2>1 DEF Agreeing, DueOK
    <2> QED
      BY <2>1, <2>2, <2>3 DEF Ends, Paired
  <1> QED
    BY <1>1, <1>2, AgreeStep, TypedAlways, PTL DEF PairingSpec
=============================================================================
