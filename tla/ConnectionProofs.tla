-------------------------- MODULE ConnectionProofs --------------------------
(***************************************************************************)
(* The host, and the host with its connections.                            *)
(*                                                                         *)
(* First what Host keeps whatever its agents, clients and limits: the      *)
(* types of its state, its turns one at a time in every session, its       *)
(* permission requests each of a turn that runs, no turn let go without a  *)
(* word, and a record with all of its conversation.                        *)
(*                                                                         *)
(* Then, that the host with its connections is the host: every step of     *)
(* Connection is a step of Host, or leaves the host as it is.  So whatever *)
(* connections do, Host's theorems hold of the whole.  What connections do *)
(* follows from what a step of the host says to them, and from what they   *)
(* make of it: a list of prompts that fits the events still queued, a      *)
(* prompt's answer before its turn's end, and of each session what the     *)
(* host has of it.                                                         *)
(***************************************************************************)
EXTENDS Connection, FiniteSetTheorems, SequenceTheorems, TLAPS

-----------------------------------------------------------------------------
(* The operators Host is built from *)

EventSet == [type : {"update", "running", "ended", "answered", "added", "resolved", "closed"},
             key : Key \cup {None}, of : Asks \cup Turns \cup Updates \cup {None}, who : Clients \cup {None}]

\* A choice from a set is in the set.
LEMMA OneOf == ASSUME NEW S, S # {} PROVE One(S) \in S
  BY DEF One

\* Keys, agents and sessions are finitely many.
LEMMA KeyFinite == IsFiniteSet(Key)
  BY FS_Product, HostAssumption DEF HostAssumption, Key

\* A finite set, put in some order.
LEMMA SetToSeqTyped ==
  ASSUME NEW S, IsFiniteSet(S)
  PROVE  /\ SetToSeq(S) \in [1..Cardinality(S) -> S]
         /\ Cardinality(S) \in Nat
  <1>1. Cardinality(S) \in Nat /\ ExistsBijection(1..Cardinality(S), S)
    BY FS_CardinalityType
  <1>2. PICK f \in [1..Cardinality(S) -> S] : IsInjective(f)
    BY <1>1 DEF ExistsBijection, Bijection, Injection
  <1> QED
    BY <1>1, <1>2 DEF SetToSeq

\* What each member of a finite set is mapped to, in some order.
LEMMA ResolvedEventsTyped ==
  ASSUME ask \in [Asks -> AskType], NEW R \in SUBSET Asks
  PROVE  ResolvedEvents(R) \in Seq(EventSet)
  <1> DEFINE s == SetToSeq(R)
             n == Cardinality(R)
             e(i) == ResolvedEvent(s[i])
  <1>1. IsFiniteSet(R)
    BY FS_Subset, HostAssumption DEF HostAssumption
  <1>2. s \in [1..n -> R] /\ n \in Nat
    BY <1>1, SetToSeqTyped
  <1>3. \A a \in R : ResolvedEvent(a) \in EventSet
    BY DEF ResolvedEvent, Event, EventSet, AskType
  <1>4. \A i \in 1..n : e(i) \in EventSet
    BY <1>2, <1>3
  <1> HIDE DEF e
  <1>5. [i \in 1..n |-> e(i)] \in Seq(EventSet)
    BY <1>2, <1>4, IsASeq
  <1> QED
    BY <1>2, <1>5 DEF ResolvedEvents, Each, e

LEMMA IdsTyped ==
  ASSUME ask \in [Asks -> AskType], NEW R \in SUBSET Pending
  PROVE  Each(R, Id) \in Seq(IdType)
  <1> DEFINE s == SetToSeq(R)
             n == Cardinality(R)
             e(i) == Id(s[i])
  <1>1. IsFiniteSet(R)
    BY FS_Subset, HostAssumption DEF HostAssumption, Pending
  <1>2. s \in [1..n -> R] /\ n \in Nat
    BY <1>1, SetToSeqTyped
  <1>3. \A a \in R : Id(a) \in IdType
    BY DEF Id, IdType, AskType, Pending
  <1>4. \A i \in 1..n : e(i) \in IdType
    BY <1>2, <1>3
  <1> HIDE DEF e
  <1>5. [i \in 1..n |-> e(i)] \in Seq(IdType)
    BY <1>2, <1>4, IsASeq
  <1> QED
    BY <1>2, <1>5 DEF Each, e

LEMMA ClosedEventsTyped ==
  ASSUME NEW K \in SUBSET Key
  PROVE  Each(K, ClosedEvent) \in Seq(EventSet)
  <1> DEFINE s == SetToSeq(K)
             n == Cardinality(K)
             e(i) == ClosedEvent(s[i])
  <1>1. IsFiniteSet(K)
    BY FS_Subset, KeyFinite
  <1>2. s \in [1..n -> K] /\ n \in Nat
    BY <1>1, SetToSeqTyped
  <1>3. \A k \in K : ClosedEvent(k) \in EventSet
    BY DEF ClosedEvent, Event, EventSet
  <1>4. \A i \in 1..n : e(i) \in EventSet
    BY <1>2, <1>3
  <1> HIDE DEF e
  <1>5. [i \in 1..n |-> e(i)] \in Seq(EventSet)
    BY <1>2, <1>4, IsASeq
  <1> QED
    BY <1>2, <1>5 DEF Each, e

\* The host remembers ids, and no more of them than it has room for.
LEMMA RememberTyped ==
  ASSUME ask \in [Asks -> AskType], resolved \in Seq(IdType), NEW R \in SUBSET Pending
  PROVE  /\ Remember(R) \in Seq(IdType)
         /\ Len(Remember(R)) <= ResolvedRemembered
  <1> DEFINE all == resolved \o Each(R, Id)
             first == IF Len(all) > ResolvedRemembered
                      THEN Len(all) - ResolvedRemembered + 1 ELSE 1
  <1>1. all \in Seq(IdType) /\ Len(all) \in Nat
    BY IdsTyped, ConcatProperties
  <1>2. first \in Nat /\ first >= 1 /\ Len(all) - first + 1 <= ResolvedRemembered
    BY <1>1, HostAssumption DEF HostAssumption
  <1>3. \A i \in first..Len(all) : all[i] \in IdType
    BY <1>1, <1>2, ElementOfSeq
  <1> HIDE DEF all, first
  <1>4. /\ SubSeq(all, first, Len(all)) \in Seq(IdType)
        /\ Len(SubSeq(all, first, Len(all))) <= ResolvedRemembered
    BY <1>1, <1>2, <1>3, SubSeqProperties, HostAssumption DEF HostAssumption
  <1> QED
    BY <1>4 DEF Remember, all, first

\* What is said moves the host's clock by as many.
LEMMA EmitTyped ==
  ASSUME seq \in Nat, NEW events \in Seq(EventSet), Emit(events)
  PROVE  seq' \in Nat
  BY LenProperties DEF Emit

-----------------------------------------------------------------------------
(* Every variable holds values of its kind *)

\* A call that has an agent open a session holds the `opening` lock, and a
\* replay it asked for is no longer than the conversation.
CallsOK == \A c \in Clients : op[c].do = "open" =>
              HasLock(c) /\ op[c].upto <= Len(hist[op[c].key])

LEMMA SilentTyped == ASSUME seq \in Nat, Silent PROVE seq' = seq
  BY EmptySeq DEF Silent, Emit

LEMMA TouchTyped ==
  ASSUME older \in SUBSET (Key \X Key), NEW k \in Key
  PROVE  Touch(k) \in SUBSET (Key \X Key)
  BY DEF Touch, Held

LEMMA FreshTyped ==
  ASSUME NEW opening \in BOOLEAN
  PROVE  /\ Absent \in SessType
         /\ Fresh(opening, <<>>) \in SessType
  BY EmptySeq DEF Fresh, Absent, SessType

LEMMA InsertTyped ==
  ASSUME TypeOK, NEW k \in Key, NEW s \in SessType, Insert(k, s)
  PROVE  /\ sess' \in [Key -> SessType]
         /\ older' \in SUBSET (Key \X Key)
         /\ closing' \in [Key -> Nat]
         /\ strays' \in [Key -> Seq(Entry)]
  <1> DEFINE r   == [s EXCEPT !.record = strays[k] \o @]
             now == [sess EXCEPT ![k] = r]
  <1>1. r \in SessType
    BY ConcatProperties DEF TypeOK, SessType
  <1>2. now \in [Key -> SessType] /\ Absent \in SessType
    BY <1>1, FreshTyped DEF TypeOK
  <1>3. Touch(k) \in SUBSET (Key \X Key)
    BY TouchTyped DEF TypeOK
  <1> HIDE DEF r
  <1>4. sess' \in [Key -> SessType]
    BY <1>2 DEF Insert, r
  <1>5. older' \in SUBSET (Key \X Key)
    BY <1>3 DEF Insert, Without
  <1>6. closing' \in [Key -> Nat] /\ strays' \in [Key -> Seq(Entry)]
    BY EmptySeq DEF Insert, TypeOK
  <1> QED
    BY <1>4, <1>5, <1>6

LEMMA ForgetTyped ==
  ASSUME TypeOK, NEW K \in SUBSET Key, Forget(K)
  PROVE  /\ sess' \in [Key -> SessType]
         /\ older' \in SUBSET (Key \X Key)
         /\ cut' \in SUBSET Key
  BY FreshTyped DEF TypeOK, Forget, Without

\* A sequence cut to its first n.
LEMMA CutTyped ==
  ASSUME NEW S, NEW s \in Seq(S), NEW n \in Nat, n <= Len(s)
  PROVE  SubSeq(s, 1, n) \in Seq(S)
  <1>1. \A i \in 1..n : s[i] \in S
    BY ElementOfSeq, LenProperties
  <1> QED
    BY <1>1, SubSeqProperties

LEMMA StrayedTyped ==
  ASSUME TypeOK, NEW k \in Key, NEW us \in Seq(Entry)
  PROVE  Strayed(k, us) \in [Key -> Seq(Entry)]
  <1> DEFINE all == strays[k] \o us
             room == IF strays[k] = <<>> /\ Cardinality({j \in Key : strays[j] # <<>>}) >= OpenSessions
                     THEN 0 ELSE MaxStrays
             n == IF Len(all) < room THEN Len(all) ELSE room
  <1>1. all \in Seq(Entry) /\ Len(all) \in Nat
    BY ConcatProperties, LenProperties DEF TypeOK
  <1>2. room \in Nat
    BY HostAssumption DEF HostAssumption
  <1>3. n \in Nat /\ n <= Len(all)
    BY <1>1, <1>2
  <1> HIDE DEF all, n
  <1>4. SubSeq(all, 1, n) \in Seq(Entry)
    BY <1>1, <1>3, CutTyped
  <1>5. [strays EXCEPT ![k] = SubSeq(all, 1, n)] \in [Key -> Seq(Entry)]
    BY <1>4 DEF TypeOK
  <1> QED
    BY <1>5 DEF Strayed, all, n, room

LEMMA OverTyped ==
  ASSUME ask \in [Asks -> AskType], NEW R \in SUBSET Pending,
         NEW outcome \in {"selected", "cancelled", "withdrawn"}
  PROVE  Over(R, outcome) \in [Asks -> AskType]
  BY DEF Over, AskType, Pending

\* A call that starts or ends keeps the calls' types.
LEMMA CallTyped ==
  ASSUME TypeOK, NEW c \in Clients, NEW k \in Key,
         NEW do \in {"new", "wait", "change"},
         NEW how \in {None, "load", "resume", "mode", "close"}, Call(c, do, k, how)
  PROVE  op' \in [Clients -> OpType] /\ calls' \in Nat
  BY DEF TypeOK, Call, OpType

LEMMA DoneTyped ==
  ASSUME TypeOK, NEW c \in Clients, Done(c)
  PROVE  op' \in [Clients -> OpType]
  BY DEF TypeOK, Done, OpType

LEMMA UnlockTyped ==
  ASSUME TypeOK, queue # <<>>, Unlock
  PROVE  queue' \in Seq(Clients)
  BY HeadTailProperties DEF TypeOK, Unlock

LEMMA InitTyped == Init => TypeOK
  <1> SUFFICES ASSUME Init PROVE TypeOK
    OBVIOUS
  <1>1. HostAssumption
    BY HostAssumption
  <1>2. sess \in [Key -> SessType]
    BY FreshTyped DEF Init
  <1>3. turn \in [Turns -> TurnType] /\ ask \in [Asks -> AskType] /\ op \in [Clients -> OpType]
    BY DEF Init, TurnType, AskType, OpType
  <1>4. /\ resolved \in Seq(IdType) /\ Len(resolved) <= ResolvedRemembered
        /\ strays \in [Key -> Seq(Entry)] /\ hist \in [Key -> Seq(Entry)]
        /\ queue \in Seq(Clients)
    BY <1>1, EmptySeq DEF Init, HostAssumption
  <1> QED
    BY <1>1, <1>2, <1>3, <1>4 DEF Init, TypeOK, HostAssumption

LEMMA NewBeginTyped ==
  ASSUME TypeOK, NEW c \in Clients, NEW k \in Key, NewBegin(c, k)
  PROVE  TypeOK'
  <1>1. op' \in [Clients -> OpType] /\ calls' \in Nat
    BY CallTyped DEF NewBegin
  <1>2. seq' = seq
    BY SilentTyped DEF NewBegin, TypeOK
  <1> QED
    BY <1>1, <1>2 DEF TypeOK, NewBegin, rosterVars, heldVars, askVars

LEMMA NewAnsweredTyped ==
  ASSUME TypeOK, NEW c \in Clients, NewAnswered(c)
  PROVE  TypeOK'
  <1>1. op' \in [Clients -> OpType]
    BY DoneTyped DEF NewAnswered, NewOk, NewErr
  <1>2. seq' = seq
    BY SilentTyped DEF NewAnswered, NewOk, NewErr, TypeOK
  <1>3. op[c].key \in Key
    <2>1. op[c].do = "new"
      BY DEF NewAnswered, NewOk, NewErr
    <2> QED
      BY <2>1 DEF TypeOK, OpType, IdleOp
  <1>4. /\ sess' \in [Key -> SessType]
        /\ older' \in SUBSET (Key \X Key)
        /\ closing' \in [Key -> Nat]
        /\ strays' \in [Key -> Seq(Entry)]
    <2>1. CASE Insert(op[c].key, Fresh(FALSE, <<>>))
      BY <1>3, <2>1, InsertTyped, FreshTyped
    <2>2. CASE UNCHANGED heldVars
      BY <2>2 DEF heldVars, TypeOK
    <2> QED
      BY <2>1, <2>2 DEF NewAnswered, NewOk, NewErr
  <1> QED
    BY <1>1, <1>2, <1>4 DEF TypeOK, NewAnswered, NewOk, NewErr, rosterVars, askVars, agentVars

LEMMA OpenFromRecordTyped ==
  ASSUME TypeOK, NEW c \in Clients, NEW k \in Key, NEW how \in Opens, OpenFromRecord(c, k, how)
  PROVE  TypeOK'
  <1>1. older' \in SUBSET (Key \X Key)
    BY TouchTyped DEF OpenFromRecord, TypeOK
  <1>2. seq' = seq
    BY SilentTyped DEF OpenFromRecord, TypeOK
  <1> QED
    BY <1>1, <1>2 DEF TypeOK, OpenFromRecord, rosterVars, askVars, callVars, agentVars

LEMMA OpenWaitTyped ==
  ASSUME TypeOK, NEW c \in Clients, NEW k \in Key, NEW how \in Opens, OpenWait(c, k, how)
  PROVE  TypeOK'
  <1>1. op' \in [Clients -> OpType] /\ calls' \in Nat
    BY CallTyped, HostAssumption DEF OpenWait, HostAssumption
  <1>2. seq' = seq
    BY SilentTyped DEF OpenWait, TypeOK
  <1>3. queue' \in Seq(Clients)
    BY AppendProperties DEF OpenWait, TypeOK
  <1> QED
    BY <1>1, <1>2, <1>3 DEF TypeOK, OpenWait, rosterVars, heldVars, askVars, agentVars

LEMMA OpenLateTyped ==
  ASSUME TypeOK, NEW c \in Clients, OpenLate(c)
  PROVE  TypeOK'
  <1>1. op' \in [Clients -> OpType]
    BY DoneTyped DEF OpenLate
  <1>2. queue' \in Seq(Clients)
    BY UnlockTyped DEF OpenLate, HasLock
  <1>3. op[c].key \in Key
    BY DEF TypeOK, OpenLate, OpType, IdleOp
  <1>4. older' \in SUBSET (Key \X Key)
    BY <1>3, TouchTyped DEF OpenLate, TypeOK
  <1>5. seq' = seq
    BY SilentTyped DEF OpenLate, TypeOK
  <1> QED
    BY <1>1, <1>2, <1>4, <1>5 DEF TypeOK, OpenLate, rosterVars, askVars, agentVars

LEMMA OpenInAgentTyped ==
  ASSUME TypeOK, NEW c \in Clients, OpenInAgent(c)
  PROVE  TypeOK'
  <1> DEFINE k == op[c].key
  <1>1. k \in Key /\ op[c] \in OpType /\ op[c].do = "wait"
    BY DEF TypeOK, OpenInAgent, OpType, IdleOp
  <1>2. sess[k].held \in BOOLEAN /\ Len(hist[k]) \in Nat
    BY <1>1, LenProperties DEF TypeOK, SessType
  <1>3. op' \in [Clients -> OpType]
    <2> DEFINE new == [op[c] EXCEPT !.do = "open", !.was = sess[k].held, !.upto = Len(hist[k])]
    <2>1. new \in OpType
      <3>1. op[c] \in [do : {"new", "wait", "open", "change"}, key : Key,
                        how : {None, "load", "resume", "mode", "close"},
                        was : BOOLEAN, upto : Nat]
        BY <1>1 DEF OpType, IdleOp
      <3> HIDE DEF k
      <3> QED
        BY <1>2, <3>1 DEF OpType
    <2>2. op' = [op EXCEPT ![c] = new]
      BY DEF OpenInAgent
    <2> QED
      BY <2>1, <2>2 DEF TypeOK
  <1>4. seq' = seq
    BY SilentTyped DEF OpenInAgent, TypeOK
  <1>5. /\ sess' \in [Key -> SessType]
        /\ older' \in SUBSET (Key \X Key)
        /\ closing' \in [Key -> Nat]
        /\ strays' \in [Key -> Seq(Entry)]
    <2>1. CASE sess[k].held
      <3> DEFINE cleared == [sess[k] EXCEPT !.record = <<>>, !.opening = TRUE]
      <3>1. cleared \in SessType
        <4>1. sess[k] \in SessType /\ <<>> \in Seq(Entry)
          BY <1>1, EmptySeq DEF TypeOK
        <4> HIDE DEF k
        <4> QED
          BY <4>1 DEF SessType
      <3>2. sess' = [sess EXCEPT ![k] = cleared] /\ UNCHANGED <<older, closing, strays>>
        BY <2>1 DEF OpenInAgent
      <3> QED
        BY <3>1, <3>2 DEF TypeOK
    <2>2. CASE ~sess[k].held
      BY <1>1, <2>2, InsertTyped, FreshTyped DEF OpenInAgent
    <2> QED
      BY <2>1, <2>2
  <1> QED
    BY <1>3, <1>4, <1>5 DEF TypeOK, OpenInAgent, rosterVars, askVars, agentVars

LEMMA OpenOkTyped ==
  ASSUME TypeOK, CallsOK, NEW c \in Clients, OpenOk(c)
  PROVE  TypeOK'
  <1> DEFINE k == op[c].key
             replay == IF op[c].how = "load" THEN SubSeq(hist[k], 1, op[c].upto) ELSE <<>>
  <1>1. k \in Key /\ sess[k] \in SessType
    BY DEF TypeOK, OpenOk, OpType, IdleOp
  <1>2. op' \in [Clients -> OpType]
    BY DoneTyped DEF OpenOk
  <1>3. queue' \in Seq(Clients)
    BY UnlockTyped DEF OpenOk, CallsOK, HasLock
  <1>4. seq' = seq
    BY SilentTyped DEF OpenOk, TypeOK
  <1>5. replay \in Seq(Entry)
    <2>1. hist[k] \in Seq(Entry) /\ op[c].upto \in Nat /\ op[c].upto <= Len(hist[k])
      BY <1>1 DEF TypeOK, CallsOK, OpenOk, OpType, IdleOp
    <2> HIDE DEF k
    <2> QED
      BY <2>1, CutTyped, EmptySeq
  <1>6. /\ sess' \in [Key -> SessType]
        /\ older' \in SUBSET (Key \X Key)
        /\ strays' \in [Key -> Seq(Entry)]
    <2>1. CASE sess[k].held
      <3> DEFINE opened == [sess[k] EXCEPT !.record = @ \o replay, !.opening = FALSE]
      <3> HIDE DEF k, replay
      <3>1. opened \in SessType
        BY <1>1, <1>5, ConcatProperties DEF SessType
      <3>2. sess' = [sess EXCEPT ![k] = opened] /\ older' = Touch(k) /\ UNCHANGED strays
        BY <2>1 DEF OpenOk, k, replay
      <3> QED
        BY <1>1, <3>1, <3>2, TouchTyped DEF TypeOK
    <2>2. CASE ~sess[k].held
      BY <1>1, <1>5, <2>2, StrayedTyped DEF OpenOk, TypeOK
    <2> QED
      BY <2>1, <2>2
  <1>7. live' \subseteq Key
    BY <1>1 DEF OpenOk, TypeOK
  <1> QED
    BY <1>2, <1>3, <1>4, <1>6, <1>7 DEF TypeOK, OpenOk, rosterVars, askVars

LEMMA StillOpenTyped ==
  ASSUME TypeOK, NEW k \in Key, StillOpen(k)
  PROVE  sess' \in [Key -> SessType]
  BY DEF TypeOK, StillOpen, SessType

LEMMA OpenErrTyped ==
  ASSUME TypeOK, CallsOK, NEW c \in Clients, OpenErr(c)
  PROVE  TypeOK'
  <1>1. op[c].key \in Key
    BY DEF TypeOK, OpenErr, OpType, IdleOp
  <1>2. op' \in [Clients -> OpType]
    BY DoneTyped DEF OpenErr
  <1>3. queue' \in Seq(Clients)
    BY UnlockTyped DEF OpenErr, CallsOK, HasLock
  <1>4. seq' = seq
    BY SilentTyped DEF OpenErr, TypeOK
  <1>5. /\ sess' \in [Key -> SessType]
        /\ older' \in SUBSET (Key \X Key)
        /\ cut' \in SUBSET Key
    <2>1. CASE op[c].was
      <3>1. StillOpen(op[c].key) /\ UNCHANGED <<older, cut>>
        BY <2>1 DEF OpenErr, StillOpen
      <3> QED
        BY <1>1, <3>1, StillOpenTyped DEF TypeOK
    <2>2. CASE ~op[c].was
      BY <1>1, <2>2, ForgetTyped DEF OpenErr
    <2> QED
      BY <2>1, <2>2
  <1> QED
    BY <1>2, <1>3, <1>4, <1>5 DEF TypeOK, OpenErr, rosterVars, askVars, agentVars

LEMMA ChangeBeginTyped ==
  ASSUME TypeOK, NEW c \in Clients, NEW k \in Key, NEW method \in {"mode", "close"},
         ChangeBegin(c, k, method)
  PROVE  TypeOK'
  <1>1. op' \in [Clients -> OpType] /\ calls' \in Nat
    BY CallTyped DEF ChangeBegin
  <1>2. seq' = seq
    BY SilentTyped DEF ChangeBegin, TypeOK
  <1> QED
    BY <1>1, <1>2 DEF TypeOK, ChangeBegin, rosterVars, heldVars, askVars, agentVars

LEMMA ChangeErrTyped ==
  ASSUME TypeOK, NEW c \in Clients, ChangeErr(c)
  PROVE  TypeOK'
  <1>1. op' \in [Clients -> OpType]
    BY DoneTyped DEF ChangeErr
  <1>2. seq' = seq
    BY SilentTyped DEF ChangeErr, TypeOK
  <1> QED
    BY <1>1, <1>2 DEF TypeOK, ChangeErr, rosterVars, heldVars, askVars, agentVars

LEMMA RecordTyped ==
  ASSUME TypeOK, NEW k \in Key, NEW u \in Entry, Record(k, u)
  PROVE  sess' \in [Key -> SessType]
  <1>1. Append(sess[k].record, u) \in Seq(Entry)
    BY AppendProperties DEF TypeOK, SessType
  <1> DEFINE more == [sess[k] EXCEPT !.record = Append(sess[k].record, u)]
  <1>2. more \in SessType
    BY <1>1 DEF TypeOK, SessType
  <1>3. \/ sess' = [sess EXCEPT ![k] = more]
        \/ sess' = [sess EXCEPT ![k] = [sess[k] EXCEPT !.record = sess[k].record]]
    BY DEF Record
  <1>4. [sess[k] EXCEPT !.record = sess[k].record] \in SessType
    BY DEF TypeOK, SessType
  <1> HIDE DEF more
  <1> QED
    BY <1>2, <1>3, <1>4 DEF TypeOK

LEMMA UpdateEventsTyped ==
  ASSUME NEW k \in Key, NEW u \in Updates, NEW skip \in Clients \cup {None}
  PROVE  UpdateEvents(k, u, skip) \in Seq(EventSet)
  <1>1. Event("update", k, u, skip) \in EventSet
    BY DEF Event, EventSet
  <1> QED
    BY <1>1, EmptySeq DEF UpdateEvents

LEMMA ModeOkTyped ==
  ASSUME TypeOK, NEW c \in Clients, ModeOk(c)
  PROVE  TypeOK'
  <1> DEFINE k == op[c].key
             u == One(UnusedUpdates)
  <1>1. k \in Key
    BY DEF TypeOK, ModeOk, OpType, IdleOp
  <1>2. u \in Updates
    BY OneOf DEF ModeOk, UnusedUpdates
  <1> HIDE DEF u
  <1>3. op' \in [Clients -> OpType]
    BY DoneTyped DEF ModeOk
  <1>4. sess' \in [Key -> SessType]
    BY <1>1, <1>2, RecordTyped DEF ModeOk, Entry, u
  <1>5. seq' \in Nat
    BY <1>1, <1>2, UpdateEventsTyped, EmitTyped DEF ModeOk, TypeOK, u
  <1>6. Append(hist[k], u) \in Seq(Entry)
    BY <1>1, <1>2, AppendProperties DEF TypeOK, Entry
  <1>7. hist' \in [Key -> Seq(Entry)]
    BY <1>6 DEF ModeOk, TypeOK, u
  <1> QED
    BY <1>3, <1>4, <1>5, <1>7 DEF TypeOK, ModeOk, rosterVars, askVars

\* Requests that are over are remembered and told.
LEMMA OverPendingTyped ==
  ASSUME TypeOK, NEW R \in SUBSET Pending, NEW outcome \in {"selected", "cancelled", "withdrawn"}
  PROVE  /\ Over(R, outcome) \in [Asks -> AskType]
         /\ Remember(R) \in Seq(IdType) /\ Len(Remember(R)) <= ResolvedRemembered
         /\ ResolvedEvents(R) \in Seq(EventSet)
  <1>1. ask \in [Asks -> AskType] /\ resolved \in Seq(IdType) /\ R \in SUBSET Asks
    BY DEF TypeOK, Pending
  <1> QED
    BY <1>1, OverTyped, RememberTyped, ResolvedEventsTyped

LEMMA ResolveTyped ==
  ASSUME TypeOK, NEW a \in Pending, NEW outcome \in {"selected", "cancelled", "withdrawn"},
         Resolve(a, outcome)
  PROVE  /\ ask' \in [Asks -> AskType]
         /\ resolved' \in Seq(IdType) /\ Len(resolved') <= ResolvedRemembered
         /\ seq' \in Nat
  <1>1. seq \in Nat /\ {a} \in SUBSET Pending
    BY DEF TypeOK
  <1> QED
    BY <1>1, OverPendingTyped, EmitTyped DEF Resolve

LEMMA CloseOkTyped ==
  ASSUME TypeOK, NEW c \in Clients, CloseOk(c)
  PROVE  TypeOK'
  <1> DEFINE k == op[c].key
             R == PendingOf(k)
  <1>1. k \in Key
    BY DEF TypeOK, CloseOk, OpType, IdleOp
  <1>2. R \in SUBSET Pending
    BY DEF PendingOf
  <1> HIDE DEF R
  <1>3. op' \in [Clients -> OpType]
    BY DoneTyped DEF CloseOk
  <1>4. /\ ask' \in [Asks -> AskType]
        /\ resolved' \in Seq(IdType) /\ Len(resolved') <= ResolvedRemembered
    BY <1>2, OverPendingTyped DEF CloseOk, R
  <1>5. seq' \in Nat
    <2>1. ClosedEvent(k) \in EventSet
      BY <1>1 DEF ClosedEvent, Event, EventSet
    <2>2. Append(ResolvedEvents(R), ClosedEvent(k)) \in Seq(EventSet)
      BY <1>2, <2>1, OverPendingTyped, AppendProperties
    <2> QED
      BY <2>2, EmitTyped DEF CloseOk, TypeOK, R
  <1>6. /\ sess' \in [Key -> SessType]
        /\ older' \in SUBSET (Key \X Key)
        /\ cut' \in SUBSET Key
    BY <1>1, ForgetTyped DEF CloseOk
  <1> QED
    BY <1>3, <1>4, <1>5, <1>6 DEF TypeOK, CloseOk, rosterVars, agentVars

LEMMA CloseArrivesTyped ==
  ASSUME TypeOK, NEW k \in Key, CloseArrives(k)
  PROVE  TypeOK'
  <1>1. seq' = seq
    BY SilentTyped DEF CloseArrives, TypeOK
  <1>2. closing' \in [Key -> Nat]
    BY DEF CloseArrives, TypeOK
  <1> QED
    BY <1>1, <1>2 DEF TypeOK, CloseArrives, rosterVars, askVars, callVars, agentVars

LEMMA PromptTyped ==
  ASSUME TypeOK, NEW c \in Clients, NEW k \in Key, Prompt(c, k)
  PROVE  TypeOK'
  <1> DEFINE t == One(UnusedTurns)
  <1>1. t \in Turns
    BY OneOf DEF Prompt, UnusedTurns
  <1> HIDE DEF t
  <1>2. turn' \in [Turns -> TurnType]
    BY <1>1 DEF Prompt, TypeOK, TurnType, t
  <1>3. sess' \in [Key -> SessType]
    <2> DEFINE prompted == [sess[k] EXCEPT !.turn = t, !.record = Append(@, t)]
    <2>1. prompted \in SessType
      <3>1. sess[k] \in SessType
        BY DEF TypeOK
      <3>2. Append(sess[k].record, t) \in Seq(Entry)
        BY <1>1, <3>1, AppendProperties DEF SessType, Entry
      <3> QED
        BY <1>1, <3>1, <3>2 DEF SessType
    <2>2. sess' = [sess EXCEPT ![k] = prompted]
      BY DEF Prompt, t
    <2> QED
      BY <2>1, <2>2 DEF TypeOK
  <1>4. hist' \in [Key -> Seq(Entry)]
    <2>1. Append(hist[k], t) \in Seq(Entry)
      BY <1>1, AppendProperties DEF TypeOK, Entry
    <2> QED
      BY <2>1 DEF Prompt, TypeOK, t
  <1>5. seq' \in Nat
    <2>1. Event("running", k, t, None) \in EventSet /\ Event("update", k, t, c) \in EventSet
      BY <1>1 DEF Event, EventSet
    <2> DEFINE events == <<Event("running", k, t, None), Event("update", k, t, c)>>
    <2>2. events \in Seq(EventSet)
      BY <2>1
    <2> QED
      BY <2>2, EmitTyped DEF Prompt, TypeOK, t
  <1> QED
    BY <1>2, <1>3, <1>4, <1>5 DEF TypeOK, Prompt, rosterVars, askVars, callVars

LEMMA EndTyped ==
  ASSUME TypeOK, NEW t \in Turns, End(t)
  PROVE  TypeOK'
  <1> DEFINE k    == turn[t].key
             who  == IF sess[k].turn = None THEN None ELSE turn[sess[k].turn].client
             left == LeftBy(t)
  <1>1. k \in Key
    BY DEF TypeOK, End, Running, TurnType
  <1>2. left \in SUBSET Pending
    BY DEF LeftBy
  <1>3. who \in Clients \cup {None}
    BY <1>1 DEF TypeOK, SessType, TurnType
  <1>4. turn' \in [Turns -> TurnType]
    BY DEF TypeOK, End, Running, TurnType
  <1> HIDE DEF left, who, k
  <1>5. sess' \in [Key -> SessType]
    <2> DEFINE emptied == [sess[k] EXCEPT !.turn = None, !.ended = t]
    <2>1. emptied \in SessType
      BY <1>1 DEF TypeOK, SessType
    <2>2. sess' = IF sess[k].held THEN [sess EXCEPT ![k] = emptied] ELSE sess
      BY DEF End, k
    <2> QED
      BY <2>1, <2>2 DEF TypeOK
  <1>6. /\ ask' \in [Asks -> AskType]
        /\ resolved' \in Seq(IdType) /\ Len(resolved') <= ResolvedRemembered
    BY <1>2, OverPendingTyped DEF End, left
  <1>7. seq' \in Nat
    <2> DEFINE last == <<Event("answered", k, t, who), Event("ended", k, t, None)>>
    <2>1. Event("answered", k, t, who) \in EventSet /\ Event("ended", k, t, None) \in EventSet
      BY <1>1, <1>3 DEF Event, EventSet
    <2>2. last \in Seq(EventSet)
      BY <2>1
    <2> HIDE DEF last
    <2>3. ResolvedEvents(left) \o last \in Seq(EventSet)
      BY <1>2, <2>2, OverPendingTyped, ConcatProperties
    <2> QED
      BY <2>3, EmitTyped DEF End, EndEvents, TypeOK, left, k, who, last
  <1> QED
    BY <1>4, <1>5, <1>6, <1>7 DEF TypeOK, End, rosterVars, callVars, agentVars

LEMMA CancelTyped ==
  ASSUME TypeOK, NEW c \in Clients, NEW k \in Key, Cancel(c, k)
  PROVE  TypeOK'
  <1>1. PendingOf(k) \in SUBSET Pending
    BY DEF PendingOf
  <1>2. seq' \in Nat
    BY <1>1, OverPendingTyped, EmitTyped DEF Cancel, TypeOK
  <1>3. /\ ask' \in [Asks -> AskType]
        /\ resolved' \in Seq(IdType) /\ Len(resolved') <= ResolvedRemembered
    BY <1>1, OverPendingTyped DEF Cancel
  <1> QED
    BY <1>2, <1>3 DEF TypeOK, Cancel, rosterVars, heldVars, callVars, agentVars

LEMMA AnswerTyped ==
  ASSUME TypeOK, NEW c \in Clients, NEW a \in Asks, NEW outcome \in {"selected", "cancelled"},
         Answer(c, a, outcome)
  PROVE  TypeOK'
  <1>1. /\ ask' \in [Asks -> AskType]
        /\ resolved' \in Seq(IdType) /\ Len(resolved') <= ResolvedRemembered
        /\ seq' \in Nat
    BY ResolveTyped DEF Answer
  <1> QED
    BY <1>1 DEF TypeOK, Answer, rosterVars, heldVars, callVars, agentVars

LEMMA WithdrawTyped ==
  ASSUME TypeOK, NEW a \in Asks, Withdraw(a)
  PROVE  TypeOK'
  <1>1. /\ ask' \in [Asks -> AskType]
        /\ resolved' \in Seq(IdType) /\ Len(resolved') <= ResolvedRemembered
        /\ seq' \in Nat
    BY ResolveTyped DEF Withdraw
  <1> QED
    BY <1>1 DEF TypeOK, Withdraw, rosterVars, heldVars, callVars, agentVars

LEMMA AgentUpdatesTyped ==
  ASSUME TypeOK, NEW k \in Key, AgentUpdates(k)
  PROVE  TypeOK'
  <1> DEFINE u == One(UnusedUpdates)
  <1>1. u \in Updates /\ u \in Entry
    BY OneOf DEF AgentUpdates, UnusedUpdates, Entry
  <1> HIDE DEF u
  <1>2. sess' \in [Key -> SessType]
    BY <1>1, RecordTyped DEF AgentUpdates, u
  <1>3. <<u>> \in Seq(Entry)
    BY <1>1
  <1>4. strays' \in [Key -> Seq(Entry)]
    BY <1>3, StrayedTyped DEF AgentUpdates, TypeOK, u
  <1>5. Append(hist[k], u) \in Seq(Entry)
    BY <1>1, AppendProperties DEF TypeOK
  <1>6. hist' \in [Key -> Seq(Entry)]
    BY <1>5 DEF AgentUpdates, TypeOK, u
  <1>7. seq' \in Nat
    BY <1>1, UpdateEventsTyped, EmitTyped DEF AgentUpdates, TypeOK, u
  <1> QED
    BY <1>2, <1>4, <1>6, <1>7 DEF TypeOK, AgentUpdates, rosterVars, askVars, callVars

LEMMA ChangedElsewhereTyped ==
  ASSUME TypeOK, NEW k \in Key, ChangedElsewhere(k)
  PROVE  TypeOK'
  <1> DEFINE u == One(UnusedUpdates)
  <1>1. u \in Entry
    BY OneOf DEF ChangedElsewhere, UnusedUpdates, Entry
  <1> HIDE DEF u
  <1>2. Append(hist[k], u) \in Seq(Entry)
    BY <1>1, AppendProperties DEF TypeOK
  <1>3. hist' \in [Key -> Seq(Entry)]
    BY <1>2 DEF ChangedElsewhere, TypeOK, u
  <1>4. seq' = seq
    BY SilentTyped DEF ChangedElsewhere, TypeOK
  <1> QED
    BY <1>3, <1>4 DEF TypeOK, ChangedElsewhere, rosterVars, heldVars, askVars, callVars

LEMMA AskPermissionTyped ==
  ASSUME TypeOK, NEW k \in Key, NEW call \in Calls, AskPermission(k, call)
  PROVE  TypeOK'
  <1> DEFINE a    == One(UnusedAsks)
             same == SameCall(k, call)
  <1>1. a \in Asks /\ ask[a].state = "none"
    BY OneOf DEF AskPermission, UnusedAsks
  <1>2. same \in SUBSET Pending
    BY DEF SameCall, PendingOf
  <1> HIDE DEF a, same
  <1>3. /\ ask' \in [Asks -> AskType]
        /\ resolved' \in Seq(IdType) /\ Len(resolved') <= ResolvedRemembered
        /\ seq' \in Nat
    <2>1. CASE sess[k].held
      <3>1. PICK n \in 0..MaxPlus :
              /\ ask' = [Over(same, "cancelled") EXCEPT ![a] =
                    [state |-> "pending", key |-> k, turn |-> sess[k].turn,
                     call |-> call, plus |-> n]]
              /\ resolved' = Remember(same)
              /\ Emit(Append(ResolvedEvents(same), Event("added", k, a, None)))
        BY <2>1 DEF AskPermission, a, same
      <3>2. [state |-> "pending", key |-> k, turn |-> sess[k].turn, call |-> call, plus |-> n]
              \in AskType
        BY <3>1, HostAssumption DEF AskType, TypeOK, SessType, HostAssumption
      <3>3. ask' \in [Asks -> AskType]
        BY <1>2, <3>1, <3>2, OverPendingTyped
      <3>4. Event("added", k, a, None) \in EventSet
        BY <1>1 DEF Event, EventSet
      <3>5. Append(ResolvedEvents(same), Event("added", k, a, None)) \in Seq(EventSet)
        BY <1>2, <3>4, OverPendingTyped, AppendProperties
      <3>6. seq' \in Nat
        BY <3>1, <3>5, EmitTyped DEF TypeOK
      <3> QED
        BY <1>2, <3>1, <3>3, <3>6, OverPendingTyped
    <2>2. CASE ~sess[k].held
      <3>1. ask' = [ask EXCEPT ![a].state = "cancelled"] /\ UNCHANGED resolved /\ Silent
        BY <2>2 DEF AskPermission, a
      <3>2. [ask[a] EXCEPT !.state = "cancelled"] \in AskType
        BY <1>1 DEF TypeOK, AskType
      <3> QED
        BY <3>1, <3>2, SilentTyped DEF TypeOK
    <2> QED
      BY <2>1, <2>2
  <1> QED
    BY <1>3 DEF TypeOK, AskPermission, rosterVars, heldVars, callVars, agentVars

LEMMA RemoveSessionsTyped ==
  ASSUME TypeOK, NEW ag \in Agents, RemoveSessions(ag)
  PROVE  TypeOK'
  <1> DEFINE mine == {k \in Held : AgentOf(k) = ag}
             left == UNION {PendingOf(k) : k \in mine}
  <1>1. mine \in SUBSET Key
    BY DEF Held
  <1>2. left \in SUBSET Pending
    BY DEF PendingOf
  <1> HIDE DEF mine, left
  <1>3. /\ ask' \in [Asks -> AskType]
        /\ resolved' \in Seq(IdType) /\ Len(resolved') <= ResolvedRemembered
    BY <1>2, OverPendingTyped DEF RemoveSessions, left, mine
  <1>4. seq' \in Nat
    <2>1. ResolvedEvents(left) \o Each(mine, ClosedEvent) \in Seq(EventSet)
      BY <1>1, <1>2, OverPendingTyped, ClosedEventsTyped, ConcatProperties
    <2> QED
      BY <2>1, EmitTyped DEF RemoveSessions, TypeOK, left, mine
  <1>5. /\ sess' \in [Key -> SessType]
        /\ older' \in SUBSET (Key \X Key)
        /\ cut' \in SUBSET Key
    BY <1>1, ForgetTyped DEF RemoveSessions, mine
  <1> QED
    BY <1>3, <1>4, <1>5 DEF TypeOK, RemoveSessions, callVars, agentVars

LEMMA RemoveFromRosterTyped ==
  ASSUME TypeOK, RemoveFromRoster
  PROVE  TypeOK'
  <1>1. seq' = seq
    BY SilentTyped DEF RemoveFromRoster, TypeOK
  <1> QED
    BY <1>1 DEF TypeOK, RemoveFromRoster, heldVars, askVars, callVars, agentVars

\* Every step keeps the types, and who holds the lock.
LEMMA StepTyped ==
  ASSUME TypeOK, CallsOK, [Next]_hostVars
  PROVE  TypeOK'
  <1>1. ASSUME NEW c \in Clients, ClientCall(c) PROVE TypeOK'
    BY <1>1, NewBeginTyped, PromptTyped, CancelTyped, OpenFromRecordTyped, OpenWaitTyped,
       ChangeBeginTyped DEF ClientCall
  <1>2. ASSUME NEW c \in Clients, ClientStep(c) PROVE TypeOK'
    BY <1>2, NewAnsweredTyped, OpenLateTyped, OpenInAgentTyped, OpenOkTyped, OpenErrTyped,
       ChangeErrTyped, ModeOkTyped, CloseOkTyped DEF ClientStep
  <1>3. ASSUME NEW c \in Clients, ClientAnswer(c) PROVE TypeOK'
    BY <1>3, AnswerTyped DEF ClientAnswer
  <1>4. CASE AgentStep
    BY <1>4, EndTyped, WithdrawTyped, AgentUpdatesTyped, ChangedElsewhereTyped,
       CloseArrivesTyped, AskPermissionTyped DEF AgentStep
  <1>5. CASE RemoveStep
    BY <1>5, RemoveSessionsTyped, RemoveFromRosterTyped DEF RemoveStep
  <1>6. CASE UNCHANGED hostVars
    BY <1>6 DEF hostVars, TypeOK
  <1> QED
    BY <1>1, <1>2, <1>3, <1>4, <1>5, <1>6 DEF Next

\* What a step can do to the lock: nothing, a new one waiting, or the one that
\* has it lets it go.
LEMMA CallsKept ==
  ASSUME TypeOK, CallsOK, UNCHANGED queue,
         \A k \in Key : Len(hist'[k]) >= Len(hist[k]),
         \A c \in Clients : op'[c].do = "open" => op'[c] = op[c]
  PROVE  CallsOK'
  <1> SUFFICES ASSUME NEW c \in Clients, op'[c].do = "open"
               PROVE  HasLock(c)' /\ op'[c].upto <= Len(hist'[op'[c].key])
    BY DEF CallsOK
  <1>1. op'[c] = op[c] /\ op[c].key \in Key /\ op[c].upto \in Nat
    BY DEF TypeOK, OpType, IdleOp
  <1>2. HasLock(c) /\ op[c].upto <= Len(hist[op[c].key])
    BY <1>1 DEF CallsOK
  <1>3. Len(hist[op[c].key]) \in Nat /\ Len(hist'[op[c].key]) >= Len(hist[op[c].key])
    BY <1>1, LenProperties DEF TypeOK
  <1> QED
    BY <1>1, <1>2, <1>3 DEF HasLock

LEMMA UnlockCalls ==
  ASSUME TypeOK, CallsOK, NEW c \in Clients, HasLock(c), Done(c), UNCHANGED hist
  PROVE  CallsOK'
  <1>1. \A d \in Clients : op'[d].do # "open"
    <2> SUFFICES ASSUME NEW d \in Clients, op'[d].do = "open" PROVE FALSE
      OBVIOUS
    <2>1. d # c /\ op[d].do = "open"
      BY DEF Done, TypeOK, IdleOp
    <2> QED
      BY <2>1 DEF CallsOK, HasLock
  <1> QED
    BY <1>1 DEF CallsOK

LEMMA OpenWaitCalls ==
  ASSUME TypeOK, CallsOK, NEW c \in Clients, NEW k \in Key, NEW how \in Opens, OpenWait(c, k, how)
  PROVE  CallsOK'
  <1> SUFFICES ASSUME NEW d \in Clients, op'[d].do = "open"
               PROVE  HasLock(d)' /\ op'[d].upto <= Len(hist'[op'[d].key])
    BY DEF CallsOK
  <1>1. d # c /\ op'[d] = op[d] /\ hist' = hist
    BY DEF OpenWait, Call, TypeOK, agentVars
  <1>2. HasLock(d) /\ op[d].upto <= Len(hist[op[d].key])
    BY <1>1 DEF CallsOK
  <1>3. queue' = Append(queue, c) /\ queue # <<>> /\ queue \in Seq(Clients)
    BY <1>2 DEF OpenWait, TypeOK, HasLock
  <1>4. Head(queue') = Head(queue) /\ queue' # <<>>
    BY <1>3, AppendProperties, EmptySeq, LenProperties
  <1> QED
    BY <1>1, <1>2, <1>4 DEF HasLock

LEMMA OpenInAgentCalls ==
  ASSUME TypeOK, CallsOK, NEW c \in Clients, OpenInAgent(c)
  PROVE  CallsOK'
  <1> SUFFICES ASSUME NEW d \in Clients, op'[d].do = "open"
               PROVE  HasLock(d)' /\ op'[d].upto <= Len(hist'[op'[d].key])
    BY DEF CallsOK
  <1>1. queue' = queue /\ hist' = hist /\ HasLock(c)
    BY DEF OpenInAgent, agentVars
  <1>2. CASE d = c
    <2>1. op'[c] = [op[c] EXCEPT !.do = "open", !.was = sess[op[c].key].held,
                                 !.upto = Len(hist[op[c].key])]
      BY DEF OpenInAgent, TypeOK
    <2>2. op[c].key \in Key /\ op[c] \in [do : {"new", "wait", "open", "change"}, key : Key,
                  how : {None, "load", "resume", "mode", "close"}, was : BOOLEAN, upto : Nat]
      BY DEF OpenInAgent, TypeOK, OpType, IdleOp
    <2>3. op'[c].key = op[c].key /\ op'[c].upto = Len(hist[op[c].key])
      BY <2>1, <2>2
    <2>4. Len(hist[op[c].key]) \in Nat
      BY <2>2, LenProperties DEF TypeOK
    <2> QED
      BY <1>1, <1>2, <2>3, <2>4 DEF HasLock
  <1>3. CASE d # c
    <2>1. op'[d] = op[d]
      BY <1>3 DEF OpenInAgent, TypeOK
    <2> QED
      BY <1>1, <2>1 DEF CallsOK, HasLock
  <1> QED
    BY <1>2, <1>3

LEMMA StepCalls ==
  ASSUME TypeOK, CallsOK, [Next]_hostVars
  PROVE  CallsOK'
  <1>0. \A k \in Key : hist[k] \in Seq(Entry) /\ Len(hist[k]) \in Nat
    BY LenProperties DEF TypeOK
  <1>a. ASSUME UNCHANGED <<queue, hist>>, \A c \in Clients : op'[c].do = "open" => op'[c] = op[c]
        PROVE  CallsOK'
    BY <1>0, <1>a, CallsKept
  <1>b. ASSUME UNCHANGED <<queue, op>>, NEW k \in Key, NEW u \in Entry,
               hist' = [hist EXCEPT ![k] = Append(@, u)]
        PROVE  CallsOK'
    <2>1. \A j \in Key : Len(hist'[j]) >= Len(hist[j])
      BY <1>0, <1>b, AppendProperties DEF TypeOK
    <2> QED
      BY <1>b, <2>1, CallsKept
  <1>1. ASSUME NEW c \in Clients, ClientCall(c) PROVE CallsOK'
    <2>1. ASSUME NEW k \in Key, NewBegin(c, k) PROVE CallsOK'
      BY <1>a, <2>1 DEF NewBegin, Call, TypeOK
    <2>2. ASSUME NEW k \in Key, Prompt(c, k) PROVE CallsOK'
      <3>1. One(UnusedTurns) \in Entry
        BY <2>2, OneOf DEF Prompt, UnusedTurns, Entry
      <3> QED
        BY <1>b, <2>2, <3>1 DEF Prompt, callVars
    <2>3. ASSUME NEW k \in Key, Cancel(c, k) PROVE CallsOK'
      BY <1>a, <2>3 DEF Cancel, callVars, agentVars
    <2>4. ASSUME NEW k \in Key, NEW how \in Opens, OpenFromRecord(c, k, how) PROVE CallsOK'
      BY <1>a, <2>4 DEF OpenFromRecord, callVars, agentVars
    <2>5. ASSUME NEW k \in Key, NEW method \in {"mode", "close"}, ChangeBegin(c, k, method)
          PROVE  CallsOK'
      BY <1>a, <2>5 DEF ChangeBegin, Call, agentVars, TypeOK
    <2> QED
      BY <1>1, <2>1, <2>2, <2>3, <2>4, <2>5, OpenWaitCalls DEF ClientCall
  <1>2. ASSUME NEW c \in Clients, ClientStep(c) PROVE CallsOK'
    <2>1. CASE NewAnswered(c) \/ ChangeErr(c) \/ CloseOk(c)
      <3>1. Done(c) /\ UNCHANGED <<queue, hist>>
        BY <2>1 DEF NewAnswered, NewOk, NewErr, ChangeErr, CloseOk, agentVars
      <3>2. \A d \in Clients : op'[d].do = "open" => op'[d] = op[d]
        BY <3>1 DEF Done, TypeOK, IdleOp
      <3> QED
        BY <1>a, <3>1, <3>2
    <2>2. CASE ModeOk(c)
      <3>1. One(UnusedUpdates) \in Entry /\ op[c].key \in Key
        <4>1. op[c] \in OpType /\ op[c].do = "change"
          BY <2>2 DEF ModeOk, TypeOK
        <4>2. op[c].key \in Key
          BY <4>1 DEF OpType, IdleOp
        <4> QED
          BY <2>2, <4>2, OneOf DEF ModeOk, UnusedUpdates, Entry
      <3>2. \A j \in Key : Len(hist'[j]) >= Len(hist[j])
        BY <1>0, <2>2, <3>1, AppendProperties DEF ModeOk, TypeOK
      <3> QED
        BY <2>2, <3>2, CallsKept DEF ModeOk, Done, TypeOK, IdleOp
    <2>3. CASE OpenLate(c)
      BY <2>3, UnlockCalls DEF OpenLate, agentVars
    <2>4. CASE OpenInAgent(c)
      BY <2>4, OpenInAgentCalls
    <2>5. CASE OpenOk(c) \/ OpenErr(c)
      BY <2>5, UnlockCalls DEF OpenOk, OpenErr, CallsOK, agentVars
    <2> QED
      BY <1>2, <2>1, <2>2, <2>3, <2>4, <2>5 DEF ClientStep
  <1>3. ASSUME NEW c \in Clients, ClientAnswer(c) PROVE CallsOK'
    BY <1>a, <1>3 DEF ClientAnswer, Answer, callVars, agentVars
  <1>4. CASE AgentStep
    <2>1. ASSUME NEW t \in Turns, End(t) PROVE CallsOK'
      BY <1>a, <2>1 DEF End, callVars, agentVars
    <2>2. ASSUME NEW a \in Asks, Withdraw(a) PROVE CallsOK'
      BY <1>a, <2>2 DEF Withdraw, callVars, agentVars
    <2>3. ASSUME NEW k \in Key, AgentUpdates(k) \/ ChangedElsewhere(k) PROVE CallsOK'
      <3>1. One(UnusedUpdates) \in Entry
        BY <2>3, OneOf DEF AgentUpdates, ChangedElsewhere, UnusedUpdates, Entry
      <3> QED
        BY <1>b, <2>3, <3>1 DEF AgentUpdates, ChangedElsewhere, callVars
    <2>4. ASSUME NEW k \in Key, CloseArrives(k) PROVE CallsOK'
      BY <1>a, <2>4 DEF CloseArrives, callVars, agentVars
    <2>5. ASSUME NEW k \in Key, NEW call \in Calls, AskPermission(k, call) PROVE CallsOK'
      BY <1>a, <2>5 DEF AskPermission, callVars, agentVars
    <2> QED
      BY <1>4, <2>1, <2>2, <2>3, <2>4, <2>5 DEF AgentStep
  <1>5. CASE RemoveStep
    BY <1>a, <1>5 DEF RemoveStep, RemoveSessions, RemoveFromRoster, callVars, agentVars
  <1>6. CASE UNCHANGED hostVars
    BY <1>a, <1>6 DEF hostVars
  <1> QED
    BY <1>1, <1>2, <1>3, <1>4, <1>5, <1>6 DEF Next

\* Whatever clients, agents and limits do, every variable holds values of its
\* kind: a call names a session, a pending request its tool call, and no more
\* ids are remembered than there is room for.
THEOREM Typing == Spec => [](TypeOK /\ CallsOK)
  <1>1. Init => TypeOK /\ CallsOK
    <2>1. Init => CallsOK
      BY DEF Init, CallsOK, IdleOp
    <2> QED
      BY <2>1, InitTyped
  <1>2. TypeOK /\ CallsOK /\ [Next]_hostVars => (TypeOK /\ CallsOK)'
    BY StepTyped, StepCalls
  <1> QED
    BY <1>1, <1>2, PTL DEF Spec

-----------------------------------------------------------------------------
(* Turns and openings *)

\* A session being opened is held and idle; a session's slot names a turn that
\* runs in it.
SlotOK ==
    \A k \in Key :
       /\ sess[k].opening => sess[k].held /\ sess[k].turn = None
       /\ sess[k].turn # None => /\ sess[k].held
                                 /\ sess[k].turn \in Running
                                 /\ turn[sess[k].turn].key = k

CoreInv == TypeOK /\ CallsOK /\ SlotOK /\ OpeningHeld

\* The session j is as it was, but for its record and its last turn.
SameSlot(j) == /\ sess'[j].held = sess[j].held
               /\ sess'[j].opening = sess[j].opening
               /\ sess'[j].turn = sess[j].turn

\* What Insert leaves: k as it was given, and others as they were, or any of
\* them let go with nothing running in it.
LEMMA InsertEffect ==
  ASSUME TypeOK, NEW k \in Key, NEW s \in SessType, Insert(k, s)
  PROVE  /\ sess'[k] = Absent \/ /\ sess'[k].held = s.held
                                 /\ sess'[k].opening = s.opening
                                 /\ sess'[k].turn = s.turn
         /\ \A j \in Key \ {k} : \/ sess'[j] = sess[j]
                                 \/ /\ sess'[j] = Absent
                                    /\ sess[j].turn = None
                                    /\ ~sess[j].opening
         /\ s.opening => sess'[k] # Absent
  <1> DEFINE r   == [s EXCEPT !.record = strays[k] \o @]
             now == [sess EXCEPT ![k] = r]
  <1>1. now[k].held = s.held /\ now[k].opening = s.opening /\ now[k].turn = s.turn
    BY DEF TypeOK, SessType
  <1>2. \A j \in Key \ {k} : now[j] = sess[j]
    BY DEF TypeOK
  <1>3. PICK dropped : /\ dropped \subseteq {j \in Held \cup {k} : Droppable(now[j], j)}
                       /\ sess' = [j \in Key |-> IF j \in dropped THEN Absent ELSE now[j]]
    <2> DEFINE idle    == {j \in Held \cup {k} : Droppable(now[j], j)}
               rank(j) == Cardinality({i \in idle : <<i, j>> \in Touch(k)})
               gone    == {j \in idle : rank(j) + OpenSessions < Cardinality(Held \cup {k})}
    <2>1. sess' = [j \in Key |-> IF j \in gone THEN Absent ELSE now[j]]
      BY DEF Insert
    <2>2. gone \subseteq idle
      OBVIOUS
    <2> HIDE DEF gone, now
    <2> QED
      BY <2>1, <2>2
  <1>4. \A j \in dropped : now[j].turn = None /\ ~now[j].opening
    BY <1>3 DEF Droppable
  <1> HIDE DEF now
  <1>5. s.opening => k \notin dropped
    BY <1>1, <1>4
  <1>6. Absent.opening = FALSE
    BY DEF Absent
  <1> QED
    BY <1>1, <1>2, <1>3, <1>4, <1>5, <1>6

LEMMA ForgetEffect ==
  ASSUME TypeOK, NEW K \in SUBSET Key, Forget(K)
  PROVE  \A j \in Key : sess'[j] = IF j \in K THEN Absent ELSE sess[j]
  BY DEF Forget

LEMMA RecordEffect ==
  ASSUME TypeOK, NEW k \in Key, NEW u, Record(k, u)
  PROVE  \A j \in Key : SameSlot(j)
  BY DEF Record, SameSlot, TypeOK, SessType

\* Slots that stay, or that are emptied, stay good.
LEMMA SlotsKept ==
  ASSUME TypeOK, SlotOK, UNCHANGED turn,
         \A j \in Key : \/ SameSlot(j)
                        \/ sess'[j].turn = None /\ (sess'[j].opening => sess'[j].held)
  PROVE  SlotOK'
  BY DEF SlotOK, SameSlot, Running

\* Nothing starts being opened, and who opens goes on.
LEMMA OpeningKept ==
  ASSUME TypeOK, OpeningHeld,
         \A k \in Key : sess'[k].opening => sess[k].opening,
         \A c \in Clients : HasLock(c) /\ op[c].do = "open" => HasLock(c)' /\ op'[c] = op[c]
  PROVE  OpeningHeld'
  <1> SUFFICES ASSUME NEW k \in Key, sess'[k].opening
               PROVE  queue' # <<>> /\ op'[Head(queue')].do = "open" /\ op'[Head(queue')].key = k
    BY DEF OpeningHeld
  <1>1. queue # <<>> /\ op[Head(queue)].do = "open" /\ op[Head(queue)].key = k
    BY DEF OpeningHeld
  <1>2. Head(queue) \in Clients /\ HasLock(Head(queue))
    BY <1>1, HeadTailProperties DEF TypeOK, HasLock
  <1> QED
    BY <1>1, <1>2 DEF HasLock

\* Openings when only client c's call moves on, and it wasn't opening.
LEMMA OtherCalls ==
  ASSUME TypeOK, OpeningHeld, UNCHANGED queue, NEW c \in Clients, op[c].do # "open",
         \A d \in Clients \ {c} : op'[d] = op[d],
         \A k \in Key : sess'[k].opening => sess[k].opening
  PROVE  OpeningHeld'
  <1>1. \A d \in Clients : HasLock(d) /\ op[d].do = "open" => HasLock(d)' /\ op'[d] = op[d]
    BY DEF HasLock
  <1> QED
    BY <1>1, OpeningKept

\* Turns and openings when the sessions are left alone.
LEMMA SlotsUntouched ==
  ASSUME TypeOK, SlotOK, UNCHANGED <<sess, turn>>
  PROVE  SlotOK'
  BY DEF SlotOK, Running

LEMMA CallSlots ==
  ASSUME CoreInv, NEW c \in Clients, NEW k \in Key,
         \/ NewBegin(c, k)
         \/ \E how \in Opens : OpenFromRecord(c, k, how) \/ OpenWait(c, k, how)
         \/ \E method \in {"mode", "close"} : ChangeBegin(c, k, method)
         \/ Cancel(c, k)
  PROVE  SlotOK' /\ OpeningHeld'
  <1>1. UNCHANGED <<sess, turn>>
    BY DEF NewBegin, OpenFromRecord, OpenWait, ChangeBegin, Cancel, heldVars
  <1>2. SlotOK'
    BY <1>1, SlotsUntouched DEF CoreInv
  <1>3. OpeningHeld'
    <2>1. CASE UNCHANGED <<op, queue>>
      BY <1>1, <2>1 DEF CoreInv, OpeningHeld
    <2>2. ASSUME NEW do, NEW how, Call(c, do, k, how), UNCHANGED queue PROVE OpeningHeld'
      BY <1>1, <2>2, OtherCalls DEF CoreInv, Call, Idle, IdleOp, TypeOK
    <2>3. ASSUME NEW how \in Opens, OpenWait(c, k, how) PROVE OpeningHeld'
      <3>1. ASSUME NEW d \in Clients, HasLock(d), op[d].do = "open"
            PROVE  HasLock(d)' /\ op'[d] = op[d]
        <4>1. op'[d] = op[d]
          BY <2>3, <3>1 DEF OpenWait, Call, Idle, IdleOp, CoreInv, TypeOK
        <4>2. queue' = Append(queue, c) /\ queue # <<>> /\ queue \in Seq(Clients)
          BY <2>3, <3>1 DEF OpenWait, HasLock, CoreInv, TypeOK
        <4>3. Head(queue') = Head(queue) /\ queue' # <<>>
          BY <4>2, AppendProperties, EmptySeq, LenProperties
        <4> QED
          BY <3>1, <4>1, <4>3 DEF HasLock
      <3> QED
        BY <1>1, <3>1, OpeningKept DEF CoreInv
    <2> QED
      BY <2>1, <2>2, <2>3 DEF NewBegin, OpenFromRecord, ChangeBegin, Cancel, callVars
  <1> QED
    BY <1>2, <1>3

LEMMA PromptSlots ==
  ASSUME CoreInv, NEW c \in Clients, NEW k \in Key, Prompt(c, k)
  PROVE  SlotOK' /\ OpeningHeld'
  <1> DEFINE t == One(UnusedTurns)
  <1>1. t \in Turns /\ turn[t].state = "none"
    BY OneOf DEF Prompt, UnusedTurns
  <1> HIDE DEF t
  <1>2. turn' = [turn EXCEPT ![t] = [state |-> "running", key |-> k, client |-> c]]
    BY DEF Prompt, t
  <1>3. /\ sess'[k].turn = t /\ sess'[k].held /\ ~sess'[k].opening /\ ~sess[k].opening
        /\ \A j \in Key \ {k} : sess'[j] = sess[j]
    <2>1. sess[k] \in SessType /\ sess[k].held /\ ~sess[k].opening
      BY DEF Prompt, IsOpen, CoreInv, TypeOK
    <2>2. sess' = [sess EXCEPT ![k] = [sess[k] EXCEPT !.turn = t, !.record = Append(@, t)]]
      BY DEF Prompt, t
    <2> QED
      BY <2>1, <2>2 DEF CoreInv, TypeOK, SessType
  <1>4. SlotOK'
    <2> SUFFICES ASSUME NEW j \in Key
                 PROVE  /\ sess'[j].opening => sess'[j].held /\ sess'[j].turn = None
                        /\ sess'[j].turn # None => /\ sess'[j].held
                                                   /\ sess'[j].turn \in Running'
                                                   /\ turn'[sess'[j].turn].key = j
      BY DEF SlotOK
    <2>1. CASE j = k
      BY <1>1, <1>2, <1>3, <2>1 DEF Running, CoreInv, TypeOK
    <2>2. CASE j # k
      BY <1>1, <1>2, <1>3, <2>2 DEF SlotOK, Running, CoreInv, TypeOK
    <2> QED
      BY <2>1, <2>2
  <1>5. OpeningHeld'
    BY <1>3 DEF OpeningHeld, CoreInv, Prompt, callVars
  <1> QED
    BY <1>4, <1>5

LEMMA EndSlots ==
  ASSUME CoreInv, NEW t \in Turns, End(t)
  PROVE  SlotOK' /\ OpeningHeld'
  <1> DEFINE k == turn[t].key
  <1>1. k \in Key /\ t \in Running
    BY DEF CoreInv, TypeOK, End, Running, TurnType
  <1>2. /\ turn'[t].state = "ended" /\ turn'[t].key = k
        /\ \A u \in Turns \ {t} : turn'[u] = turn[u]
    BY DEF CoreInv, TypeOK, End, TurnType
  <1> HIDE DEF k
  <1>3. /\ sess'[k].held = sess[k].held /\ sess'[k].opening = sess[k].opening
        /\ sess[k].held => sess'[k].turn = None
        /\ ~sess[k].held => sess'[k] = sess[k]
        /\ \A j \in Key \ {k} : sess'[j] = sess[j]
    <2>1. sess' = IF sess[k].held
                  THEN [sess EXCEPT ![k] = [sess[k] EXCEPT !.turn = None, !.ended = t]] ELSE sess
      BY DEF End, k
    <2> QED
      BY <1>1, <2>1 DEF CoreInv, TypeOK, SessType
  <1>4. SlotOK'
    <2> SUFFICES ASSUME NEW j \in Key
                 PROVE  /\ sess'[j].opening => sess'[j].held /\ sess'[j].turn = None
                        /\ sess'[j].turn # None => /\ sess'[j].held
                                                   /\ sess'[j].turn \in Running'
                                                   /\ turn'[sess'[j].turn].key = j
      BY DEF SlotOK
    <2>1. CASE j = k
      BY <1>1, <1>3, <2>1 DEF SlotOK, CoreInv
    <2>2. CASE j # k
      <3>1. sess'[j] = sess[j]
        BY <1>3, <2>2
      <3>2. sess[j].turn # None => sess[j].turn # t
        BY <2>2 DEF SlotOK, CoreInv, k
      <3> QED
        BY <1>2, <3>1, <3>2 DEF SlotOK, CoreInv, Running
    <2> QED
      BY <2>1, <2>2
  <1>5. OpeningHeld'
    <2>1. \A j \in Key : sess'[j].opening = sess[j].opening
      BY <1>3
    <2> QED
      BY <2>1 DEF OpeningHeld, CoreInv, End, callVars
  <1> QED
    BY <1>4, <1>5

\* A session forgotten, or let go, is neither opening nor in a turn.
LEMMA AbsentIs == ~Absent.held /\ ~Absent.opening /\ Absent.turn = None
  BY DEF Absent

LEMMA ForgetSlots ==
  ASSUME CoreInv, NEW K \in SUBSET Key, Forget(K), UNCHANGED turn
  PROVE  /\ SlotOK'
         /\ \A j \in Key : sess'[j].opening => sess[j].opening /\ j \notin K
  <1>1. \A j \in Key : sess'[j] = IF j \in K THEN Absent ELSE sess[j]
    BY ForgetEffect DEF CoreInv
  <1> QED
    BY <1>1, AbsentIs, SlotsKept DEF CoreInv, SameSlot

LEMMA InsertSlots ==
  ASSUME CoreInv, NEW k \in Key, NEW opening \in BOOLEAN,
         Insert(k, Fresh(opening, <<>>)), UNCHANGED turn
  PROVE  /\ SlotOK'
         /\ \A j \in Key \ {k} : sess'[j].opening => sess[j].opening
         /\ sess'[k].opening => opening
  <1> DEFINE s == Fresh(opening, <<>>)
  <1>1. s \in SessType /\ s.held /\ s.opening = opening /\ s.turn = None
    BY FreshTyped DEF Fresh, Absent
  <1> HIDE DEF s
  <1>2. Insert(k, s)
    BY DEF s
  <1>3. /\ sess'[k] = Absent \/ /\ sess'[k].held = s.held
                                /\ sess'[k].opening = s.opening
                                /\ sess'[k].turn = s.turn
        /\ \A j \in Key \ {k} : sess'[j] = sess[j] \/ sess'[j] = Absent
    BY <1>1, <1>2, InsertEffect DEF CoreInv
  <1>4. \A j \in Key : \/ SameSlot(j)
                       \/ sess'[j].turn = None /\ (sess'[j].opening => sess'[j].held)
    BY <1>1, <1>3, AbsentIs DEF SameSlot
  <1>5. SlotOK'
    BY <1>4, SlotsKept DEF CoreInv
  <1> QED
    BY <1>1, <1>3, <1>5, AbsentIs

LEMMA AnswerSlots ==
  ASSUME CoreInv, NEW c \in Clients,
         NewAnswered(c) \/ ChangeErr(c) \/ ModeOk(c) \/ CloseOk(c)
  PROVE  SlotOK' /\ OpeningHeld'
  <1>1. op[c].key \in Key /\ op[c].do # "open"
    <2>1. op[c] \in OpType /\ op[c].do \in {"new", "change"}
      BY DEF NewAnswered, NewOk, NewErr, ChangeErr, ModeOk, CloseOk, CoreInv, TypeOK
    <2> QED
      BY <2>1 DEF OpType, IdleOp
  <1>2. /\ UNCHANGED <<turn, queue>>
        /\ \A d \in Clients \ {c} : op'[d] = op[d]
    BY DEF NewAnswered, NewOk, NewErr, ChangeErr, ModeOk, CloseOk, Done, CoreInv, TypeOK
  <1>3. SlotOK' /\ \A k \in Key : sess'[k].opening => sess[k].opening
    <2>1. CASE UNCHANGED sess
      BY <1>2, <2>1, SlotsUntouched DEF CoreInv
    <2>2. CASE Insert(op[c].key, Fresh(FALSE, <<>>))
      BY <1>1, <1>2, <2>2, InsertSlots
    <2>3. CASE ModeOk(c)
      <3>1. \A j \in Key : SameSlot(j)
        BY <1>1, <2>3, RecordEffect DEF ModeOk, CoreInv
      <3> QED
        BY <1>2, <3>1, SlotsKept DEF CoreInv, SameSlot
    <2>4. CASE CloseOk(c)
      BY <1>1, <1>2, <2>4, ForgetSlots DEF CloseOk
    <2> QED
      BY <2>1, <2>2, <2>3, <2>4 DEF NewAnswered, NewOk, NewErr, ChangeErr, heldVars
  <1> QED
    BY <1>1, <1>2, <1>3, OtherCalls DEF CoreInv

LEMMA OpenLateSlots ==
  ASSUME CoreInv, NEW c \in Clients, OpenLate(c)
  PROVE  SlotOK' /\ OpeningHeld'
  <1>1. UNCHANGED <<sess, turn>> /\ HasLock(c) /\ op[c].do = "wait"
    BY DEF OpenLate
  <1>2. \A d \in Clients : ~(HasLock(d) /\ op[d].do = "open")
    BY <1>1 DEF HasLock
  <1> QED
    BY <1>1, <1>2, SlotsUntouched, OpeningKept DEF CoreInv

\* With the lock in hand and the agent not asked yet, no session is opening.
LEMMA NoneOpening ==
  ASSUME CoreInv, NEW c \in Clients, HasLock(c), op[c].do = "wait"
  PROVE  \A k \in Key : ~sess[k].opening
  BY DEF CoreInv, OpeningHeld, HasLock

LEMMA OpenInAgentSlots ==
  ASSUME CoreInv, NEW c \in Clients, OpenInAgent(c)
  PROVE  SlotOK' /\ OpeningHeld'
  <1> DEFINE k == op[c].key
  <1>1. k \in Key
    BY DEF OpenInAgent, CoreInv, TypeOK, OpType, IdleOp
  <1>2. \A j \in Key : ~sess[j].opening
    BY NoneOpening DEF OpenInAgent
  <1>3. UNCHANGED <<turn, queue>> /\ HasLock(c)
    BY DEF OpenInAgent
  <1>4. op'[c].do = "open" /\ op'[c].key = k
    BY DEF OpenInAgent, CoreInv, TypeOK, OpType, IdleOp
  <1>5. SlotOK' /\ \A j \in Key \ {k} : ~sess'[j].opening
    <2>1. CASE sess[k].held
      <3> HIDE DEF k
      <3>1. sess[k].turn = None
        BY <1>1, <1>2, <2>1 DEF OpenInAgent, AnsweredByNow, IsOpen, Busy, k
      <3>2. sess' = [sess EXCEPT ![k] = [sess[k] EXCEPT !.record = <<>>, !.opening = TRUE]]
        BY <2>1 DEF OpenInAgent, k
      <3>3. /\ sess'[k].held /\ sess'[k].turn = None
            /\ \A j \in Key \ {k} : sess'[j] = sess[j]
        BY <1>1, <2>1, <3>1, <3>2 DEF CoreInv, TypeOK, SessType
      <3>4. \A j \in Key : \/ SameSlot(j)
                           \/ sess'[j].turn = None /\ (sess'[j].opening => sess'[j].held)
        BY <3>3 DEF SameSlot
      <3> QED
        BY <1>2, <1>3, <3>3, <3>4, SlotsKept DEF CoreInv
    <2>2. CASE ~sess[k].held
      <3>1. Insert(k, Fresh(TRUE, <<>>))
        BY <2>2 DEF OpenInAgent
      <3> HIDE DEF k
      <3> QED
        BY <1>1, <1>2, <1>3, <3>1, InsertSlots
    <2> QED
      BY <2>1, <2>2
  <1>6. OpeningHeld'
    BY <1>3, <1>4, <1>5 DEF OpeningHeld, HasLock
  <1> QED
    BY <1>5, <1>6

\* The lock's holder is done: nothing is opening any more.
LEMMA OpenOkSlots ==
  ASSUME CoreInv, NEW c \in Clients, OpenOk(c)
  PROVE  SlotOK' /\ OpeningHeld'
  <1> DEFINE k == op[c].key
             replay == IF op[c].how = "load" THEN SubSeq(hist[k], 1, op[c].upto) ELSE <<>>
  <1>1. k \in Key /\ HasLock(c) /\ UNCHANGED turn
    <2>1. op[c] \in OpType /\ op[c].do = "open"
      BY DEF OpenOk, CoreInv, TypeOK
    <2> QED
      BY <2>1 DEF OpType, IdleOp, CoreInv, CallsOK, OpenOk
  <1>2. \A j \in Key \ {k} : ~sess[j].opening
    BY <1>1 DEF CoreInv, OpeningHeld, HasLock
  <1> HIDE DEF k, replay
  <1>3. /\ \A j \in Key \ {k} : sess'[j] = sess[j]
        /\ ~sess'[k].opening /\ sess'[k].turn = sess[k].turn /\ sess'[k].held = sess[k].held
    <2>1. CASE sess[k].held
      <3>1. sess' = [sess EXCEPT ![k] = [sess[k] EXCEPT !.record = @ \o replay, !.opening = FALSE]]
        BY <2>1 DEF OpenOk, k, replay
      <3> QED
        BY <1>1, <3>1 DEF CoreInv, TypeOK, SessType
    <2>2. CASE ~sess[k].held
      <3>1. UNCHANGED sess
        BY <2>2 DEF OpenOk, k
      <3> QED
        BY <1>1, <2>2, <3>1 DEF CoreInv, SlotOK, TypeOK, SessType
    <2> QED
      BY <2>1, <2>2
  <1>4. \A j \in Key : ~sess'[j].opening
    BY <1>2, <1>3
  <1>5. SlotOK'
    BY <1>1, <1>3, <1>4 DEF SlotOK, CoreInv, Running
  <1> QED
    BY <1>4, <1>5 DEF OpeningHeld

LEMMA OpenErrSlots ==
  ASSUME CoreInv, NEW c \in Clients, OpenErr(c)
  PROVE  SlotOK' /\ OpeningHeld'
  <1> DEFINE k == op[c].key
  <1>1. k \in Key /\ HasLock(c) /\ UNCHANGED turn
    <2>1. op[c] \in OpType /\ op[c].do = "open"
      BY DEF OpenErr, CoreInv, TypeOK
    <2> QED
      BY <2>1 DEF OpType, IdleOp, CoreInv, CallsOK, OpenErr
  <1>2. \A j \in Key \ {k} : ~sess[j].opening
    BY <1>1 DEF CoreInv, OpeningHeld, HasLock
  <1> HIDE DEF k
  <1>3. SlotOK' /\ \A j \in Key : ~sess'[j].opening
    <2>1. CASE op[c].was
      <3>1. sess' = [sess EXCEPT ![k] = [sess[k] EXCEPT !.opening = FALSE]]
        BY <2>1 DEF OpenErr, StillOpen, k
      <3>2. /\ \A j \in Key \ {k} : sess'[j] = sess[j]
            /\ ~sess'[k].opening /\ sess'[k].turn = sess[k].turn /\ sess'[k].held = sess[k].held
        BY <1>1, <3>1 DEF CoreInv, TypeOK, SessType
      <3> QED
        BY <1>1, <1>2, <3>2 DEF SlotOK, CoreInv, Running
    <2>2. CASE ~op[c].was
      <3>1. Forget({k})
        BY <2>2 DEF OpenErr, k
      <3> QED
        BY <1>1, <1>2, <3>1, ForgetSlots
    <2> QED
      BY <2>1, <2>2
  <1> QED
    BY <1>3 DEF OpeningHeld

LEMMA AgentSlots ==
  ASSUME CoreInv,
         \/ \E a \in Asks : Withdraw(a)
         \/ \E k \in Key : AgentUpdates(k) \/ ChangedElsewhere(k) \/ CloseArrives(k)
                           \/ \E call \in Calls : AskPermission(k, call)
  PROVE  SlotOK' /\ OpeningHeld'
  <1>1. UNCHANGED <<turn, op, queue>>
    BY DEF Withdraw, AgentUpdates, ChangedElsewhere, CloseArrives, AskPermission, callVars
  <1>2. \A j \in Key : SameSlot(j)
    <2>1. CASE UNCHANGED sess
      BY <2>1 DEF SameSlot
    <2>2. ASSUME NEW k \in Key, AgentUpdates(k) PROVE \A j \in Key : SameSlot(j)
      BY <2>2, RecordEffect DEF AgentUpdates, CoreInv
    <2> QED
      BY <2>1, <2>2 DEF Withdraw, ChangedElsewhere, CloseArrives, AskPermission, heldVars
  <1>3. SlotOK'
    BY <1>1, <1>2, SlotsKept DEF CoreInv, SameSlot
  <1>4. OpeningHeld'
    BY <1>1, <1>2 DEF OpeningHeld, CoreInv, SameSlot
  <1> QED
    BY <1>3, <1>4

LEMMA RemoveSlots ==
  ASSUME CoreInv, RemoveStep
  PROVE  SlotOK' /\ OpeningHeld'
  <1>1. UNCHANGED <<turn, op, queue>>
    BY DEF RemoveStep, RemoveSessions, RemoveFromRoster, callVars
  <1>2. ASSUME NEW ag \in Agents, RemoveSessions(ag) PROVE SlotOK' /\ OpeningHeld'
    <2>1. Forget({k \in Held : AgentOf(k) = ag})
      BY <1>2 DEF RemoveSessions
    <2>2. SlotOK' /\ \A j \in Key : sess'[j].opening => sess[j].opening
      BY <1>1, <2>1, ForgetSlots DEF Held
    <2> QED
      BY <1>1, <2>2, OpeningKept DEF CoreInv, HasLock
  <1>3. CASE RemoveFromRoster
    <2>1. UNCHANGED sess
      BY <1>3 DEF RemoveFromRoster, heldVars
    <2> QED
      BY <1>1, <2>1, SlotsUntouched DEF CoreInv, OpeningHeld
  <1> QED
    BY <1>2, <1>3 DEF RemoveStep

\* The core invariant is inductive.
LEMMA CoreStep ==
  ASSUME CoreInv, [Next]_hostVars
  PROVE  CoreInv'
  <1>1. TypeOK' /\ CallsOK'
    BY StepTyped, StepCalls DEF CoreInv
  <1>2. SlotOK' /\ OpeningHeld'
    <2>1. ASSUME NEW c \in Clients, ClientCall(c) PROVE SlotOK' /\ OpeningHeld'
      BY <2>1, CallSlots, PromptSlots DEF ClientCall
    <2>2. ASSUME NEW c \in Clients, ClientStep(c) PROVE SlotOK' /\ OpeningHeld'
      BY <2>2, AnswerSlots, OpenLateSlots, OpenInAgentSlots, OpenOkSlots, OpenErrSlots
         DEF ClientStep
    <2>3. ASSUME NEW c \in Clients, ClientAnswer(c) PROVE SlotOK' /\ OpeningHeld'
      <3>1. UNCHANGED <<sess, turn, op, queue>>
        BY <2>3 DEF ClientAnswer, Answer, heldVars, callVars
      <3> QED
        BY <3>1, SlotsUntouched DEF CoreInv, OpeningHeld
    <2>4. CASE AgentStep
      BY <2>4, EndSlots, AgentSlots DEF AgentStep
    <2>5. CASE UNCHANGED hostVars
      BY <2>5, SlotsUntouched DEF CoreInv, OpeningHeld, hostVars
    <2> QED
      BY <2>1, <2>2, <2>3, <2>4, <2>5, RemoveSlots DEF Next
  <1> QED
    BY <1>1, <1>2 DEF CoreInv

LEMMA CoreInit == Init => CoreInv
  BY InitTyped, AbsentIs DEF Init, CoreInv, CallsOK, SlotOK, OpeningHeld, IdleOp

LEMMA Core == Spec => []CoreInv
  BY CoreInit, CoreStep, PTL DEF Spec

\* Only the call that holds the `opening` lock has a session being opened, and
\* nothing runs in that session: none is opened twice, or left half open.
THEOREM OpeningsHeld == Spec => [](OpeningHeld /\ OpeningIdle)
  <1>1. CoreInv => OpeningHeld /\ OpeningIdle
    BY DEF CoreInv, SlotOK, OpeningIdle
  <1> QED
    BY <1>1, Core, PTL

-----------------------------------------------------------------------------
(* Permission requests *)

\* Requests that are over, and turns that go on, keep the promises.
LEMMA AsksKept ==
  ASSUME TypeOK, PendingTurnRuns, PendingUnique,
         \A a \in Asks : ask'[a].state = "pending" => ask'[a] = ask[a],
         \A a \in Asks : ask'[a].state = "pending" /\ ask[a].turn # None =>
                           turn'[ask[a].turn] = turn[ask[a].turn]
  PROVE  PendingTurnRuns' /\ PendingUnique'
  <1>1. \A a \in Pending' : a \in Pending /\ ask'[a] = ask[a]
    BY DEF Pending
  <1>2. PendingTurnRuns'
    BY <1>1 DEF PendingTurnRuns, Pending, Running
  <1>3. PendingUnique'
    BY <1>1 DEF PendingUnique, Id
  <1> QED
    BY <1>2, <1>3

LEMMA OverAsks ==
  ASSUME TypeOK, NEW R \in SUBSET Pending, NEW outcome \in {"selected", "cancelled", "withdrawn"},
         ask' = Over(R, outcome)
  PROVE  \A a \in Asks : /\ ask'[a].state = "pending" => ask'[a] = ask[a] /\ a \notin R
                         /\ ask'[a].turn = ask[a].turn
  <1>1. \A a \in Asks : ask'[a] = IF a \in R THEN [ask[a] EXCEPT !.state = outcome] ELSE ask[a]
    BY DEF Over
  <1>2. \A a \in Asks : [ask[a] EXCEPT !.state = outcome].state = outcome
    BY DEF TypeOK, AskType
  <1>3. \A a \in Asks : [ask[a] EXCEPT !.state = outcome].turn = ask[a].turn
    BY DEF TypeOK, AskType
  <1> QED
    BY <1>1, <1>2, <1>3

\* A new request is of its session's turn, and has an id of its own.
LEMMA AskPermissionAsks ==
  ASSUME CoreInv, PendingTurnRuns, PendingUnique,
         NEW k \in Key, NEW call \in Calls, AskPermission(k, call)
  PROVE  PendingTurnRuns' /\ PendingUnique'
  <1> DEFINE same == SameCall(k, call)
             ids  == {Id(b) : b \in Pending \ same}
  <1>1. PICK a \in Asks : a = One(UnusedAsks) /\ ask[a].state = "none"
    BY OneOf DEF AskPermission, UnusedAsks
  <1>2. same \in SUBSET Pending
    BY DEF SameCall, PendingOf
  <1>3. UNCHANGED turn
    BY DEF AskPermission
  <1>4. CASE ~sess[k].held
    <2>1. ask' = [ask EXCEPT ![a].state = "cancelled"]
      BY <1>1, <1>4 DEF AskPermission
    <2>2. \A b \in Asks : ask'[b].state = "pending" => ask'[b] = ask[b]
      BY <1>1, <2>1 DEF CoreInv, TypeOK, AskType
    <2> QED
      BY <1>3, <2>2, AsksKept DEF CoreInv
  <1>5. CASE sess[k].held
    <2>1. PICK n \in 0..MaxPlus :
            /\ NextFree(call, n, ids)
            /\ ask' = [Over(same, "cancelled") EXCEPT ![a] =
                  [state |-> "pending", key |-> k, turn |-> sess[k].turn,
                   call |-> call, plus |-> n]]
      BY <1>1, <1>5 DEF AskPermission
    <2>2. /\ ask'[a] = [state |-> "pending", key |-> k, turn |-> sess[k].turn,
                        call |-> call, plus |-> n]
          /\ \A b \in Asks \ {a} : ask'[b] = Over(same, "cancelled")[b]
      BY <1>1, <2>1 DEF Over
    <2>3. \A b \in Asks \ {a} : ask'[b].state = "pending" => b \in Pending \ same /\ ask'[b] = ask[b]
      <3>1. \A b \in same : [ask[b] EXCEPT !.state = "cancelled"].state = "cancelled"
        BY <1>2 DEF CoreInv, TypeOK, AskType, Pending
      <3> QED
        BY <2>2, <3>1 DEF Over, Pending
    <2>4. PendingTurnRuns'
      <3> SUFFICES ASSUME NEW b \in Pending', ask'[b].turn # None
                   PROVE  ask'[b].turn \in Running' /\ turn'[ask'[b].turn].key = ask'[b].key
        BY DEF PendingTurnRuns
      <3>1. CASE b = a
        BY <1>3, <2>2, <3>1 DEF CoreInv, SlotOK, Running
      <3>2. CASE b # a
        BY <1>3, <2>3, <3>2 DEF PendingTurnRuns, Running, Pending
      <3> QED
        BY <3>1, <3>2
    <2>5. PendingUnique'
      <3>1. \A b \in Pending' \ {a} : b \in Pending \ same /\ ask'[b] = ask[b]
        BY <2>3 DEF Pending
      <3>2. ASSUME NEW b \in Pending' \ {a}
            PROVE  Id(b)' # Id(a)' /\ ~(ask'[b].key = k /\ ask'[b].call = call)
        <4>1. Id(a)' = <<call, n>>
          BY <2>2 DEF Id
        <4>2. <<call, n>> \notin ids
          BY <2>1 DEF NextFree
        <4>3. Id(b)' = Id(b) /\ Id(b) \in ids
          BY <3>1 DEF Id
        <4>4. ~(ask[b].key = k /\ ask[b].call = call)
          BY <3>1 DEF SameCall, PendingOf
        <4> QED
          BY <3>1, <4>1, <4>2, <4>3, <4>4
      <3>3. ASSUME NEW b \in Pending' \ {a}, NEW d \in Pending' \ {a}, b # d
            PROVE  Id(b)' # Id(d)' /\ ~(ask'[b].key = ask'[d].key /\ ask'[b].call = ask'[d].call)
        BY <3>1, <3>3 DEF PendingUnique, Id
      <3> SUFFICES ASSUME NEW b \in Pending', NEW d \in Pending', b # d
                   PROVE  Id(b)' # Id(d)' /\ ~(ask'[b].key = ask'[d].key /\ ask'[b].call = ask'[d].call)
        BY DEF PendingUnique
      <3>4. ask'[a].key = k /\ ask'[a].call = call
        BY <2>2
      <3>5. CASE b = a
        BY <3>2, <3>4, <3>5
      <3>6. CASE d = a
        BY <3>2, <3>4, <3>6
      <3> QED
        BY <3>3, <3>5, <3>6
    <2> QED
      BY <2>4, <2>5
  <1> QED
    BY <1>4, <1>5

\* Requests and turns left alone, or requests over.
LEMMA AsksOver ==
  ASSUME CoreInv, PendingTurnRuns, PendingUnique, UNCHANGED turn,
         \/ UNCHANGED ask
         \/ \E R \in SUBSET Pending, outcome \in {"selected", "cancelled", "withdrawn"} :
               ask' = Over(R, outcome)
  PROVE  PendingTurnRuns' /\ PendingUnique'
  <1>1. \A a \in Asks : ask'[a].state = "pending" => ask'[a] = ask[a]
    BY OverAsks DEF CoreInv
  <1> QED
    BY <1>1, AsksKept DEF CoreInv

LEMMA EndAsks ==
  ASSUME CoreInv, PendingTurnRuns, PendingUnique, NEW t \in Turns, End(t)
  PROVE  PendingTurnRuns' /\ PendingUnique'
  <1>1. LeftBy(t) \in SUBSET Pending /\ ask' = Over(LeftBy(t), "cancelled")
    BY DEF End, LeftBy
  <1>2. \A a \in Asks : ask'[a].state = "pending" => ask'[a] = ask[a] /\ a \notin LeftBy(t)
    BY <1>1, OverAsks DEF CoreInv
  <1>3. \A a \in Asks : ask'[a].state = "pending" => ask[a].turn # t
    BY <1>2 DEF LeftBy, Pending
  <1>4. \A u \in Turns \ {t} : turn'[u] = turn[u]
    BY DEF End, CoreInv, TypeOK
  <1>5. \A a \in Asks : ask'[a].state = "pending" /\ ask[a].turn # None => ask[a].turn \in Turns
    BY DEF CoreInv, TypeOK, AskType
  <1> QED
    BY <1>2, <1>3, <1>4, <1>5, AsksKept DEF CoreInv

LEMMA PromptAsks ==
  ASSUME CoreInv, PendingTurnRuns, PendingUnique, NEW c \in Clients, NEW k \in Key, Prompt(c, k)
  PROVE  PendingTurnRuns' /\ PendingUnique'
  <1> DEFINE t == One(UnusedTurns)
  <1>1. t \in Turns /\ turn[t].state = "none"
    BY OneOf DEF Prompt, UnusedTurns
  <1>2. \A u \in Turns \ {t} : turn'[u] = turn[u]
    BY <1>1 DEF Prompt, CoreInv, TypeOK
  <1> HIDE DEF t
  <1>3. UNCHANGED ask
    BY DEF Prompt, askVars
  <1>4. \A a \in Asks : ask'[a].state = "pending" /\ ask[a].turn # None =>
                          ask[a].turn \in Turns \ {t}
    BY <1>1, <1>3 DEF PendingTurnRuns, Pending, Running
  <1> QED
    BY <1>2, <1>3, <1>4, AsksKept DEF CoreInv

LEMMA AsksStep ==
  ASSUME CoreInv, PendingTurnRuns, PendingUnique, [Next]_hostVars
  PROVE  PendingTurnRuns' /\ PendingUnique'
  <1> DEFINE Goal == PendingTurnRuns' /\ PendingUnique'
  <1>1. ASSUME NEW c \in Clients, ClientCall(c) PROVE Goal
    <2>1. ASSUME NEW k \in Key, Prompt(c, k) PROVE Goal
      BY <2>1, PromptAsks
    <2>2. ASSUME NEW k \in Key, Cancel(c, k) PROVE Goal
      BY <2>2, AsksOver DEF Cancel, PendingOf
    <2>3. ASSUME UNCHANGED <<turn, ask>> PROVE Goal
      BY <2>3, AsksOver
    <2> QED
      BY <1>1, <2>1, <2>2, <2>3
      DEF ClientCall, NewBegin, OpenFromRecord, OpenWait, ChangeBegin, askVars
  <1>2. ASSUME NEW c \in Clients, ClientStep(c) PROVE Goal
    <2>1. CASE CloseOk(c)
      <3>1. UNCHANGED turn /\ PendingOf(op[c].key) \in SUBSET Pending
            /\ ask' = Over(PendingOf(op[c].key), "cancelled")
        BY <2>1 DEF CloseOk, PendingOf
      <3> QED
        BY <3>1, AsksOver
    <2>2. CASE ~CloseOk(c)
      <3>1. UNCHANGED <<turn, ask>>
        BY <1>2, <2>2
        DEF ClientStep, NewAnswered, NewOk, NewErr, OpenLate, OpenInAgent, OpenOk, OpenErr, ChangeErr, ModeOk, askVars
      <3> QED
        BY <3>1, AsksOver
    <2> QED
      BY <2>1, <2>2
  <1>3. ASSUME NEW c \in Clients, ClientAnswer(c) PROVE Goal
    BY <1>3, AsksOver DEF ClientAnswer, Answer, Resolve
  <1>4. CASE AgentStep
    <2>1. ASSUME NEW a \in Asks, Withdraw(a) PROVE Goal
      BY <2>1, AsksOver DEF Withdraw, Resolve
    <2>2. ASSUME NEW k \in Key, AgentUpdates(k) \/ ChangedElsewhere(k) \/ CloseArrives(k) PROVE Goal
      BY <2>2, AsksOver DEF AgentUpdates, ChangedElsewhere, CloseArrives, askVars
    <2> QED
      BY <1>4, <2>1, <2>2, EndAsks, AskPermissionAsks DEF AgentStep
  <1>5. ASSUME NEW ag \in Agents, RemoveSessions(ag) PROVE Goal
    <2> DEFINE left == UNION {PendingOf(k) : k \in {k \in Held : AgentOf(k) = ag}}
    <2>1. UNCHANGED turn /\ left \in SUBSET Pending /\ ask' = Over(left, "cancelled")
      BY <1>5 DEF RemoveSessions, PendingOf
    <2> QED
      BY <2>1, AsksOver
  <1>6. CASE RemoveFromRoster \/ UNCHANGED hostVars
    BY <1>6, AsksOver DEF RemoveFromRoster, askVars, hostVars
  <1> QED
    BY <1>1, <1>2, <1>3, <1>4, <1>5, <1>6 DEF Next, RemoveStep

\* A pending request of a turn is of one that runs, in the same session: a turn
\* that ends leaves none behind.  And an id, like a tool call, has one pending
\* request: host/answer cannot answer another than the client saw.
THEOREM PendingSound == Spec => [](PendingTurnRuns /\ PendingUnique)
  <1> DEFINE Inv == PendingTurnRuns /\ PendingUnique
  <1>1. Init => Inv
    BY DEF Init, PendingTurnRuns, PendingUnique, Pending
  <1>2. CoreInv /\ Inv /\ [Next]_hostVars => Inv'
    BY AsksStep
  <1> QED
    BY <1>1, <1>2, Core, PTL DEF Spec

-----------------------------------------------------------------------------
(* One turn at a time *)

\* A session being made is not held, and no other call knows its id; what is
\* held, or called, an agent has made; and what a call has an agent open is
\* being opened, unless it was let go meanwhile.
NewOK == \A c \in Clients : op[c].do = "new" =>
            /\ ~sess[op[c].key].held
            /\ \A d \in Clients \ {c} : op[d].key # op[c].key
IssuedOK == /\ Held \subseteq issued
            /\ \A c \in Clients : op[c].do # "idle" => op[c].key \in issued
OpenOK == \A c \in Clients : op[c].do = "open" /\ sess[op[c].key].held =>
             sess[op[c].key].opening

TurnInv == NewOK /\ IssuedOK /\ OpenOK /\ TurnsExclusive

\* A step in which no call begins or goes on, and no session comes to be held.
LEMMA CallsLeft ==
  ASSUME CoreInv, NewOK, IssuedOK, OpenOK, issued \subseteq issued',
         \A j \in Key : sess'[j].held => sess[j].held /\ sess'[j].opening = sess[j].opening,
         \A c \in Clients : op'[c] = op[c] \/ op'[c] = IdleOp
  PROVE  NewOK' /\ IssuedOK' /\ OpenOK'
  <1>1. \A c \in Clients : /\ op[c].key \in Key \cup {None}
                           /\ op[c].do # "idle" => op[c].key \in Key
    BY DEF CoreInv, TypeOK, OpType, IdleOp
  <1>2. \A c \in Clients : op'[c].do # "idle" => op'[c] = op[c]
    BY DEF IdleOp
  <1>3. \A c \in Clients : op'[c].key = op[c].key \/ op'[c].key \notin Key
    BY HostAssumption DEF IdleOp, HostAssumption
  <1>4. NewOK'
    BY <1>1, <1>2, <1>3 DEF NewOK
  <1>5. IssuedOK'
    BY <1>1, <1>2 DEF IssuedOK, Held
  <1>6. OpenOK'
    BY <1>1, <1>2 DEF OpenOK
  <1> QED
    BY <1>4, <1>5, <1>6

\* Turns that go on keep their slots when no slot is taken, and a slot is
\* emptied only under no turn or in a session then in `cut`.
LEMMA TurnsKept ==
  ASSUME CoreInv, TurnsExclusive, UNCHANGED turn, cut \subseteq cut',
         \A j \in Key : \/ sess'[j].turn = sess[j].turn
                        \/ sess[j].turn = None
                        \/ j \in cut'
  PROVE  TurnsExclusive'
  <1> SUFFICES ASSUME NEW k \in Key \ cut', NEW t \in Running', turn'[t].key = k
               PROVE  sess'[k].turn = t
    BY DEF TurnsExclusive
  <1>1. t \in Running /\ turn[t].key = k /\ k \notin cut
    BY DEF Running
  <1>2. sess[k].turn = t
    BY <1>1 DEF TurnsExclusive
  <1>3. t # None
    BY HostAssumption DEF HostAssumption, Running
  <1> QED
    BY <1>2, <1>3

LEMMA NoneOpens ==
  ASSUME CoreInv, NEW c \in Clients, HasLock(c),
         \A d \in Clients \ {c} : op'[d] = op[d], op'[c].do # "open"
  PROVE  \A d \in Clients : op'[d].do # "open"
  <1>1. \A d \in Clients \ {c} : op[d].do # "open"
    BY DEF CoreInv, CallsOK, HasLock
  <1> QED
    BY <1>1

\* A call that begins names a session no call to session/new does.
LEMMA BeginCalls ==
  ASSUME CoreInv, ~ListsEarly, NewOK, IssuedOK, OpenOK, NEW c \in Clients, NEW k \in Key,
         \/ NewBegin(c, k)
         \/ \E how \in Opens : OpenWait(c, k, how)
         \/ \E method \in {"mode", "close"} : ChangeBegin(c, k, method)
  PROVE  NewOK' /\ IssuedOK' /\ OpenOK'
  <1>1. UNCHANGED sess /\ \A j \in Key : sess'[j].held = sess[j].held
    BY DEF NewBegin, OpenWait, ChangeBegin, heldVars
  <1>2. op[c] = IdleOp /\ op'[c].key = k /\ op'[c].do \in {"new", "wait", "change"}
        /\ \A d \in Clients \ {c} : op'[d] = op[d]
    <2>1. ASSUME NEW do \in {"new", "wait", "change"}, NEW how, Call(c, do, k, how)
          PROVE  op[c] = IdleOp /\ op'[c].key = k /\ op'[c].do = do
                 /\ \A d \in Clients \ {c} : op'[d] = op[d]
      BY <2>1 DEF Call, Idle, CoreInv, TypeOK
    <2> QED
      BY <2>1 DEF NewBegin, OpenWait, ChangeBegin
  <1>3. issued \subseteq issued' /\ k \in issued'
    <2>1. CASE NewBegin(c, k)
      BY <2>1 DEF NewBegin
    <2>2. CASE \E how \in Opens : OpenWait(c, k, how)
      BY <2>2 DEF OpenWait, agentVars
    <2>3. CASE \E method \in {"mode", "close"} : ChangeBegin(c, k, method)
      BY <2>3 DEF ChangeBegin, agentVars, IssuedOK, Held, IsOpen
    <2> QED
      BY <2>1, <2>2, <2>3
  <1>4. \A d \in Clients \ {c} : op[d].do = "new" => op[d].key # k
    <2>1. CASE NewBegin(c, k)
      BY <2>1 DEF NewBegin
    <2>2. CASE \E how \in Opens : OpenWait(c, k, how)
      BY <2>2 DEF OpenWait, Starting
    <2>3. CASE \E method \in {"mode", "close"} : ChangeBegin(c, k, method)
      BY <2>3 DEF ChangeBegin, IsOpen, NewOK
    <2> QED
      BY <2>1, <2>2, <2>3
  <1>5. op'[c].do = "new" => /\ ~sess[k].held
                             /\ \A d \in Clients : op[d].key # k
    <2>1. CASE NewBegin(c, k)
      BY <2>1 DEF NewBegin, IssuedOK, Held
    <2>2. CASE ~NewBegin(c, k)
      <3>1. ASSUME NEW do \in {"wait", "change"}, NEW how, Call(c, do, k, how) PROVE op'[c].do = do
        BY <3>1 DEF Call, Idle, CoreInv, TypeOK
      <3> QED
        BY <2>2, <3>1 DEF OpenWait, ChangeBegin
    <2> QED
      BY <2>1, <2>2
  <1>6. NewOK'
    BY <1>1, <1>2, <1>4, <1>5 DEF NewOK
  <1>7. IssuedOK'
    BY <1>1, <1>2, <1>3 DEF IssuedOK, Held
  <1>8. OpenOK'
    BY <1>1, <1>2 DEF OpenOK
  <1> QED
    BY <1>6, <1>7, <1>8

LEMMA OpenInAgentInv ==
  ASSUME CoreInv, TurnInv, NEW c \in Clients, OpenInAgent(c)
  PROVE  TurnInv'
  <1> DEFINE k == op[c].key
  <1>1. k \in Key /\ HasLock(c) /\ op[c].do = "wait" /\ UNCHANGED <<turn, issued, cut>>
    BY DEF OpenInAgent, CoreInv, TypeOK, OpType, IdleOp, agentVars
  <1>2. \A j \in Key : ~sess[j].opening
    BY NoneOpening DEF OpenInAgent
  <1>3. /\ op'[c].do = "open" /\ op'[c].key = k
        /\ \A d \in Clients \ {c} : op'[d] = op[d]
    BY DEF OpenInAgent, CoreInv, TypeOK, OpType, IdleOp
  <1>4. \A d \in Clients \ {c} : op'[d].do # "open"
    BY <1>1, <1>3 DEF CoreInv, CallsOK, HasLock
  <1>5. /\ sess[k].turn = None
        /\ sess'[k].held /\ sess'[k].opening
        /\ \A j \in Key \ {k} : \/ sess'[j] = sess[j]
                                \/ sess'[j] = Absent /\ sess[j].turn = None
    <2>1. CASE sess[k].held
      <3> HIDE DEF k
      <3>1. sess[k].turn = None
        BY <1>1, <1>2, <2>1 DEF OpenInAgent, AnsweredByNow, IsOpen, Busy, k
      <3>2. sess' = [sess EXCEPT ![k] = [sess[k] EXCEPT !.record = <<>>, !.opening = TRUE]]
        BY <2>1 DEF OpenInAgent, k
      <3> QED
        BY <1>1, <2>1, <3>1, <3>2 DEF CoreInv, TypeOK, SessType
    <2>2. CASE ~sess[k].held
      <3> DEFINE s == Fresh(TRUE, <<>>)
      <3>1. s \in SessType /\ s.held /\ s.opening
        BY FreshTyped DEF Fresh, Absent
      <3>2. Insert(k, s)
        BY <2>2 DEF OpenInAgent
      <3>3. sess[k].turn = None
        BY <1>1, <2>2 DEF CoreInv, SlotOK
      <3> HIDE DEF k, s
      <3> QED
        BY <1>1, <3>1, <3>2, <3>3, InsertEffect DEF CoreInv
    <2> QED
      BY <2>1, <2>2
  <1> HIDE DEF k
  <1>6. k \in issued
    BY <1>1 DEF TurnInv, IssuedOK, k
  <1>7. \A d \in Clients \ {c} : op[d].do = "new" => op[d].key # k /\ op[d].key \in Key
    BY <1>1 DEF TurnInv, NewOK, k, CoreInv, TypeOK, OpType, IdleOp
  <1>8. NewOK'
    BY <1>3, <1>5, <1>7, AbsentIs DEF TurnInv, NewOK, k
  <1>9. IssuedOK'
    BY <1>1, <1>3, <1>5, <1>6, AbsentIs DEF TurnInv, IssuedOK, Held
  <1>10. OpenOK'
    BY <1>3, <1>4, <1>5 DEF OpenOK
  <1>11. TurnsExclusive'
    BY <1>1, <1>5, TurnsKept DEF TurnInv
  <1> QED
    BY <1>8, <1>9, <1>10, <1>11 DEF TurnInv

LEMMA NewAnsweredInv ==
  ASSUME CoreInv, TurnInv, NEW c \in Clients, NewAnswered(c)
  PROVE  TurnInv'
  <1> DEFINE k == op[c].key
             s == Fresh(FALSE, <<>>)
  <1>1. k \in Key /\ op[c].do = "new" /\ UNCHANGED <<turn, issued, cut>>
    <2>1. op[c].do = "new" /\ UNCHANGED <<turn, issued, cut>>
      BY DEF NewAnswered, NewOk, NewErr, agentVars
    <2> QED
      BY <2>1 DEF CoreInv, TypeOK, OpType, IdleOp
  <1>2. op'[c] = IdleOp /\ \A d \in Clients \ {c} : op'[d] = op[d]
    BY DEF NewAnswered, NewOk, NewErr, Done, CoreInv, TypeOK
  <1>3. CASE UNCHANGED heldVars
    <2>1. UNCHANGED sess
      BY <1>3 DEF heldVars
    <2>2. NewOK' /\ IssuedOK' /\ OpenOK'
      BY <1>1, <1>2, <2>1, CallsLeft DEF TurnInv
    <2>3. TurnsExclusive'
      BY <1>1, <2>1, TurnsKept DEF TurnInv
    <2> QED
      BY <2>2, <2>3 DEF TurnInv
  <1>4. CASE Insert(k, s)
    <2>1. s \in SessType /\ s.held /\ ~s.opening
      BY FreshTyped DEF Fresh, Absent
    <2>2. \A d \in Clients \ {c} : op[d].key # k
      BY <1>1 DEF TurnInv, NewOK
    <2>3. sess[k].turn = None
      BY <1>1 DEF TurnInv, NewOK, CoreInv, SlotOK
    <2>4. k \in issued
      BY <1>1 DEF TurnInv, IssuedOK
    <2>5. \A d \in Clients : op[d].do # "idle" => op[d].key \in Key
      BY DEF CoreInv, TypeOK, OpType, IdleOp
    <2> HIDE DEF k, s
    <2>6. \A j \in Key \ {k} : \/ sess'[j] = sess[j]
                               \/ sess'[j] = Absent /\ sess[j].turn = None
      BY <1>1, <1>4, <2>1, InsertEffect DEF CoreInv
    <2>7. \A d \in Clients : op'[d].do # "idle" => d # c /\ op'[d] = op[d] /\ op[d].key \in Key \ {k}
      BY <1>2, <2>2, <2>5 DEF IdleOp
    <2>8. NewOK'
      <3> SUFFICES ASSUME NEW d \in Clients, op'[d].do = "new"
                   PROVE  /\ ~sess'[op'[d].key].held
                          /\ \A e \in Clients \ {d} : op'[e].key # op'[d].key
        BY DEF NewOK
      <3>1. d # c /\ op'[d] = op[d] /\ op[d].key \in Key \ {k}
        BY <2>7
      <3>2. op'[c].key \notin Key
        BY <1>2, HostAssumption DEF IdleOp, HostAssumption
      <3> QED
        BY <1>2, <2>6, <3>1, <3>2, AbsentIs DEF TurnInv, NewOK
    <2>9. IssuedOK'
      BY <1>1, <2>4, <2>6, <2>7, AbsentIs DEF TurnInv, IssuedOK, Held
    <2>10. OpenOK'
      BY <2>6, <2>7, AbsentIs DEF TurnInv, OpenOK
    <2>11. TurnsExclusive'
      BY <1>1, <2>3, <2>6, TurnsKept DEF TurnInv
    <2> QED
      BY <2>8, <2>9, <2>10, <2>11 DEF TurnInv
  <1> QED
    BY <1>3, <1>4 DEF NewAnswered, NewOk, NewErr

\* The lock's holder is done, and its session is no longer opening.
LEMMA LockDone ==
  ASSUME CoreInv, NewOK, IssuedOK, NEW c \in Clients, HasLock(c), Done(c), UNCHANGED issued,
         \A j \in Key : sess'[j].held => sess[j].held
  PROVE  NewOK' /\ IssuedOK' /\ OpenOK'
  <1>1. op'[c] = IdleOp /\ \A d \in Clients \ {c} : op'[d] = op[d]
    BY DEF Done, CoreInv, TypeOK
  <1>2. OpenOK'
    BY <1>1, NoneOpens DEF OpenOK, IdleOp
  <1>3. \A d \in Clients : op[d].do # "idle" => op[d].key \in Key
    BY DEF CoreInv, TypeOK, OpType, IdleOp
  <1>4. \A d \in Clients : op'[d].do # "idle" => op'[d] = op[d]
    BY <1>1 DEF IdleOp
  <1>5. \A d \in Clients : op'[d].key = op[d].key \/ op'[d].key \notin Key
    BY <1>1, HostAssumption DEF IdleOp, HostAssumption
  <1>6. NewOK'
    BY <1>3, <1>4, <1>5 DEF NewOK
  <1>7. IssuedOK'
    BY <1>3, <1>4 DEF IssuedOK, Held
  <1> QED
    BY <1>2, <1>6, <1>7

LEMMA LockDoneInv ==
  ASSUME CoreInv, TurnInv, NEW c \in Clients, OpenLate(c) \/ OpenOk(c) \/ OpenErr(c)
  PROVE  TurnInv'
  <1> DEFINE k == op[c].key
  <1>1. k \in Key /\ HasLock(c) /\ Done(c) /\ UNCHANGED <<turn, issued>>
    <2>1. op[c] \in OpType /\ op[c].do \in {"wait", "open"}
      BY DEF OpenLate, OpenOk, OpenErr, CoreInv, TypeOK
    <2>2. k \in Key
      BY <2>1 DEF OpType, IdleOp
    <2>3. Done(c) /\ UNCHANGED <<turn, issued>>
      BY DEF OpenLate, OpenOk, OpenErr, agentVars
    <2>4. HasLock(c)
      BY DEF OpenLate, OpenOk, OpenErr, CoreInv, CallsOK
    <2> QED
      BY <2>2, <2>3, <2>4
  <1>2. /\ cut \subseteq cut'
        /\ \A j \in Key : /\ sess'[j].held => sess[j].held
                          /\ sess'[j].turn = sess[j].turn \/ sess[j].turn = None
    <2> HIDE DEF k
    <2>1. CASE OpenLate(c)
      BY <2>1 DEF OpenLate
    <2>2. CASE OpenOk(c)
      <3>1. cut' = cut
        BY <2>2 DEF OpenOk
      <3>2. CASE sess[k].held
        <4> DEFINE replay == IF op[c].how = "load" THEN SubSeq(hist[k], 1, op[c].upto) ELSE <<>>
        <4> HIDE DEF replay
        <4>1. sess' = [sess EXCEPT ![k] = [sess[k] EXCEPT !.record = @ \o replay, !.opening = FALSE]]
          BY <2>2, <3>2 DEF OpenOk, k, replay
        <4> QED
          BY <1>1, <3>1, <4>1 DEF CoreInv, TypeOK, SessType
      <3>3. CASE ~sess[k].held
        BY <2>2, <3>1, <3>3 DEF OpenOk, k
      <3> QED
        BY <3>2, <3>3
    <2>3. CASE OpenErr(c) /\ op[c].was
      <3>1. cut' = cut /\ sess' = [sess EXCEPT ![k] = [sess[k] EXCEPT !.opening = FALSE]]
        BY <2>3 DEF OpenErr, StillOpen, k
      <3> QED
        BY <1>1, <3>1 DEF CoreInv, TypeOK, SessType
    <2>4. CASE OpenErr(c) /\ ~op[c].was
      <3>1. Forget({k}) /\ op[c].do = "open"
        BY <2>4 DEF OpenErr, k
      <3>2. sess[k].turn = None
        BY <1>1, <3>1 DEF TurnInv, OpenOK, CoreInv, SlotOK, k
      <3>3. \A j \in Key : sess'[j] = IF j \in {k} THEN Absent ELSE sess[j]
        BY <1>1, <3>1, ForgetEffect DEF CoreInv
      <3>4. cut \subseteq cut'
        BY <3>1 DEF Forget
      <3> QED
        BY <3>2, <3>3, <3>4, AbsentIs
    <2> QED
      BY <2>1, <2>2, <2>3, <2>4
  <1>3. NewOK' /\ IssuedOK' /\ OpenOK'
    BY <1>1, <1>2, LockDone DEF TurnInv
  <1>4. TurnsExclusive'
    BY <1>1, <1>2, TurnsKept DEF TurnInv
  <1> QED
    BY <1>3, <1>4 DEF TurnInv

LEMMA PromptInv ==
  ASSUME CoreInv, TurnInv, NEW c \in Clients, NEW k \in Key, Prompt(c, k)
  PROVE  TurnInv'
  <1> DEFINE t == One(UnusedTurns)
  <1>1. t \in Turns /\ turn[t].state = "none"
    BY OneOf DEF Prompt, UnusedTurns
  <1> HIDE DEF t
  <1>2. turn' = [turn EXCEPT ![t] = [state |-> "running", key |-> k, client |-> c]]
    BY DEF Prompt, t
  <1>3. /\ sess'[k].turn = t /\ sess'[k].held = sess[k].held /\ sess'[k].opening = sess[k].opening
        /\ sess[k].turn = None
        /\ \A j \in Key \ {k} : sess'[j] = sess[j]
    <2>1. sess' = [sess EXCEPT ![k] = [sess[k] EXCEPT !.turn = t, !.record = Append(@, t)]]
      BY DEF Prompt, t
    <2>2. sess[k].turn = None
      BY DEF Prompt
    <2> QED
      BY <2>1, <2>2 DEF CoreInv, TypeOK, SessType
  <1>4. NewOK' /\ IssuedOK' /\ OpenOK'
    BY <1>3, CallsLeft DEF Prompt, TurnInv, callVars
  <1>5. TurnsExclusive'
    <2> SUFFICES ASSUME NEW j \in Key \ cut', NEW u \in Running', turn'[u].key = j
                 PROVE  sess'[j].turn = u
      BY DEF TurnsExclusive
    <2>1. cut' = cut
      BY DEF Prompt
    <2>2. CASE u = t
      BY <1>1, <1>2, <1>3, <2>2 DEF CoreInv, TypeOK
    <2>3. CASE u # t
      <3>1. u \in Running /\ turn[u].key = j
        BY <1>1, <1>2, <2>3 DEF Running, CoreInv, TypeOK
      <3>2. sess[j].turn = u /\ u # None
        BY <2>1, <3>1, HostAssumption DEF TurnInv, TurnsExclusive, HostAssumption, Running
      <3> QED
        BY <1>3, <3>2
    <2> QED
      BY <2>2, <2>3
  <1> QED
    BY <1>4, <1>5 DEF TurnInv

LEMMA EndInv ==
  ASSUME CoreInv, TurnInv, NEW t \in Turns, End(t)
  PROVE  TurnInv'
  <1> DEFINE k == turn[t].key
  <1>1. k \in Key /\ t \in Running
    BY DEF CoreInv, TypeOK, End, Running, TurnType
  <1>2. turn'[t].state = "ended" /\ \A u \in Turns \ {t} : turn'[u] = turn[u]
    BY DEF CoreInv, TypeOK, End, TurnType
  <1> HIDE DEF k
  <1>3. /\ sess'[k].held = sess[k].held /\ sess'[k].opening = sess[k].opening
        /\ \A j \in Key \ {k} : sess'[j] = sess[j]
    <2>1. sess' = IF sess[k].held
                  THEN [sess EXCEPT ![k] = [sess[k] EXCEPT !.turn = None, !.ended = t]] ELSE sess
      BY DEF End, k
    <2> QED
      BY <1>1, <2>1 DEF CoreInv, TypeOK, SessType
  <1>4. NewOK' /\ IssuedOK' /\ OpenOK'
    <2>1. \A j \in Key : sess'[j].held = sess[j].held /\ sess'[j].opening = sess[j].opening
      BY <1>3
    <2> QED
      BY <2>1, CallsLeft DEF End, TurnInv, callVars, agentVars
  <1>5. TurnsExclusive'
    <2> SUFFICES ASSUME NEW j \in Key \ cut', NEW u \in Running', turn'[u].key = j
                 PROVE  sess'[j].turn = u
      BY DEF TurnsExclusive
    <2>1. cut' = cut /\ u # t /\ u \in Running /\ turn[u].key = j
      BY <1>2 DEF End, Running
    <2>2. sess[j].turn = u
      BY <2>1 DEF TurnInv, TurnsExclusive
    <2>3. j # k
      BY <1>1, <2>1, <2>2 DEF TurnInv, TurnsExclusive, k
    <2> QED
      BY <1>3, <2>2, <2>3
  <1> QED
    BY <1>4, <1>5 DEF TurnInv

\* Sessions forgotten, with their turns put in `cut`.
LEMMA ForgetInv ==
  ASSUME CoreInv, TurnInv, NEW K \in SUBSET Key, Forget(K), UNCHANGED <<turn, issued>>,
         \A c \in Clients : op'[c] = op[c] \/ op'[c] = IdleOp
  PROVE  TurnInv'
  <1>1. \A j \in Key : sess'[j] = IF j \in K THEN Absent ELSE sess[j]
    BY ForgetEffect DEF CoreInv
  <1>2. cut \subseteq cut' /\ \A j \in K : sess[j].turn = None \/ j \in cut'
    BY DEF Forget
  <1>3. NewOK' /\ IssuedOK' /\ OpenOK'
    BY <1>1, AbsentIs, CallsLeft DEF TurnInv
  <1>4. TurnsExclusive'
    BY <1>1, <1>2, TurnsKept DEF TurnInv
  <1> QED
    BY <1>3, <1>4 DEF TurnInv

\* Sessions only recorded in, or left alone.
LEMMA SameInv ==
  ASSUME CoreInv, TurnInv, \A j \in Key : SameSlot(j), UNCHANGED <<turn, issued, cut>>,
         \A c \in Clients : op'[c] = op[c] \/ op'[c] = IdleOp
  PROVE  TurnInv'
  <1>1. NewOK' /\ IssuedOK' /\ OpenOK'
    BY CallsLeft DEF TurnInv, SameSlot
  <1>2. TurnsExclusive'
    BY TurnsKept DEF TurnInv, SameSlot
  <1> QED
    BY <1>1, <1>2 DEF TurnInv

LEMMA TurnStep ==
  ASSUME CoreInv, TurnInv, ~ListsEarly, [Next]_hostVars
  PROVE  TurnInv'
  <1>a. ASSUME UNCHANGED <<sess, turn, issued, cut, op>> PROVE TurnInv'
    BY <1>a, SameInv DEF SameSlot
  <1>1. ASSUME NEW c \in Clients, NEW k \in Key,
               \/ NewBegin(c, k)
               \/ \E how \in Opens : OpenWait(c, k, how)
               \/ \E method \in {"mode", "close"} : ChangeBegin(c, k, method)
        PROVE  TurnInv'
    <2>1. UNCHANGED <<sess, turn, cut>>
      BY <1>1 DEF NewBegin, OpenWait, ChangeBegin, heldVars
    <2> QED
      BY <1>1, <2>1, BeginCalls, TurnsKept DEF TurnInv
  <1>2. ASSUME NEW c \in Clients, ClientCall(c) PROVE TurnInv'
    <2>1. ASSUME NEW k \in Key,
                 Cancel(c, k) \/ \E how \in Opens : OpenFromRecord(c, k, how)
          PROVE  TurnInv'
      BY <1>a, <2>1 DEF Cancel, OpenFromRecord, heldVars, callVars, agentVars
    <2> QED
      BY <1>1, <1>2, <2>1, PromptInv DEF ClientCall
  <1>3. ASSUME NEW c \in Clients, ClientStep(c) PROVE TurnInv'
    <2>1. ASSUME Done(c) PROVE \A d \in Clients : op'[d] = op[d] \/ op'[d] = IdleOp
      BY <2>1 DEF Done, CoreInv, TypeOK
    <2>2. CASE ChangeErr(c)
      BY <2>1, <2>2, SameInv DEF ChangeErr, heldVars, agentVars, SameSlot
    <2>3. CASE ModeOk(c)
      <3>1. op[c].key \in Key /\ UNCHANGED <<turn, issued, cut>> /\ Done(c)
        BY <2>3 DEF ModeOk, CoreInv, TypeOK, OpType, IdleOp
      <3>2. \A j \in Key : SameSlot(j)
        BY <2>3, <3>1, RecordEffect DEF ModeOk, CoreInv
      <3> QED
        BY <2>1, <3>1, <3>2, SameInv
    <2>4. CASE CloseOk(c)
      <3>1. op[c].key \in Key /\ UNCHANGED <<turn, issued>> /\ Done(c) /\ Forget({op[c].key})
        BY <2>4 DEF CloseOk, CoreInv, TypeOK, OpType, IdleOp, agentVars
      <3> QED
        BY <2>1, <3>1, ForgetInv
    <2> QED
      BY <1>3, <2>2, <2>3, <2>4, NewAnsweredInv, OpenInAgentInv, LockDoneInv DEF ClientStep
  <1>4. ASSUME NEW c \in Clients, ClientAnswer(c) PROVE TurnInv'
    BY <1>a, <1>4 DEF ClientAnswer, Answer, heldVars, callVars, agentVars
  <1>5. CASE AgentStep
    <2>1. ASSUME NEW k \in Key, AgentUpdates(k) PROVE TurnInv'
      <3>1. UNCHANGED <<turn, issued, cut, op>>
        BY <2>1 DEF AgentUpdates, callVars
      <3>2. \A j \in Key : SameSlot(j)
        BY <2>1, RecordEffect DEF AgentUpdates, CoreInv
      <3> QED
        BY <3>1, <3>2, SameInv
    <2>2. ASSUME NEW k \in Key,
                 ChangedElsewhere(k) \/ CloseArrives(k) \/ \E call \in Calls : AskPermission(k, call)
          PROVE  TurnInv'
      BY <1>a, <2>2 DEF ChangedElsewhere, CloseArrives, AskPermission, heldVars, callVars, agentVars
    <2>3. ASSUME NEW a \in Asks, Withdraw(a) PROVE TurnInv'
      BY <1>a, <2>3 DEF Withdraw, heldVars, callVars, agentVars
    <2> QED
      BY <1>5, <2>1, <2>2, <2>3, EndInv DEF AgentStep
  <1>6. CASE RemoveStep
    <2>1. ASSUME NEW ag \in Agents, RemoveSessions(ag) PROVE TurnInv'
      <3>1. Forget({k \in Held : AgentOf(k) = ag}) /\ UNCHANGED <<turn, issued, op>>
        BY <2>1 DEF RemoveSessions, callVars, agentVars
      <3> QED
        BY <3>1, ForgetInv DEF Held
    <2>2. CASE RemoveFromRoster
      BY <1>a, <2>2 DEF RemoveFromRoster, heldVars, callVars, agentVars
    <2> QED
      BY <1>6, <2>1, <2>2 DEF RemoveStep
  <1>7. CASE UNCHANGED hostVars
    BY <1>a, <1>7 DEF hostVars
  <1> QED
    BY <1>2, <1>3, <1>4, <1>5, <1>6, <1>7 DEF Next

LEMMA TurnInit == Init => TurnInv
  BY AbsentIs, HostAssumption
  DEF Init, TurnInv, NewOK, IssuedOK, OpenOK, TurnsExclusive, Held, Running, IdleOp

LEMMA Turning ==
  ASSUME ~ListsEarly
  PROVE  Spec => [](CoreInv /\ TurnInv)
  <1>1. Init => CoreInv /\ TurnInv
    BY CoreInit, TurnInit
  <1>2. (CoreInv /\ TurnInv) /\ [Next]_hostVars => (CoreInv /\ TurnInv)'
    BY CoreStep, TurnStep
  <1> QED
    BY <1>1, <1>2, PTL DEF Spec

\* When no agent lists a session before it has answered session/new, a session
\* never closed under a running turn has at most one, and its slot names it,
\* however clients, agents, failed opens and evictions interleave.
THEOREM OneTurn ==
  ASSUME ~ListsEarly
  PROVE  Spec => []TurnsExclusive
  <1>1. CoreInv /\ TurnInv => TurnsExclusive
    BY DEF TurnInv
  <1> QED
    BY <1>1, Turning, PTL

-----------------------------------------------------------------------------
(* No session goes silently under its turn *)

\* A finite set put in order has all its members.
LEMMA SetToSeqOnto ==
  ASSUME NEW S, IsFiniteSet(S)
  PROVE  \A x \in S : \E i \in 1..Cardinality(S) : SetToSeq(S)[i] = x
  <1> DEFINE n == Cardinality(S)
  <1>1. n \in Nat /\ ExistsBijection(1..n, S)
    BY FS_CardinalityType
  <1>2. PICK f \in [1..n -> S] : IsInjective(f)
    BY <1>1 DEF ExistsBijection, Bijection, Injection
  <1>3. SetToSeq(S) \in Injection(1..n, S)
    BY <1>2 DEF SetToSeq, Injection
  <1>4. IsFiniteSet(1..n) /\ Cardinality(1..n) = n
    BY <1>1, FS_Interval
  <1>5. SetToSeq(S) \in Surjection(1..n, S)
    BY <1>3, <1>4, FS_Injection
  <1> QED
    BY <1>5 DEF Surjection

LEMMA ClosedEventsTold ==
  ASSUME NEW K \in SUBSET Key, NEW k \in K
  PROVE  \E i \in 1..Len(Each(K, ClosedEvent)) : Each(K, ClosedEvent)[i] = ClosedEvent(k)
  <1> DEFINE s == SetToSeq(K)
             n == Cardinality(K)
  <1>1. IsFiniteSet(K)
    BY FS_Subset, KeyFinite
  <1>2. s \in [1..n -> K] /\ n \in Nat
    BY <1>1, SetToSeqTyped
  <1>3. PICK i \in 1..n : s[i] = k
    BY <1>1, SetToSeqOnto
  <1>4. Each(K, ClosedEvent) = [j \in 1..n |-> ClosedEvent(s[j])]
    BY <1>2 DEF Each
  <1>5. Each(K, ClosedEvent) \in Seq(EventSet)
    BY ClosedEventsTyped
  <1>6. Len(Each(K, ClosedEvent)) = n
    BY <1>2, <1>4, <1>5, LenProperties
  <1> QED
    BY <1>3, <1>4, <1>6

\* Everybody is told of a session that goes.
LeavesTold == \A k \in Held \ Held' : \E i \in DOMAIN out' : out'[i].event = ClosedEvent(k)

LEMMA CloseOkTells ==
  ASSUME CoreInv, NEW c \in Clients, CloseOk(c)
  PROVE  LeavesTold
  <1> DEFINE k == op[c].key
             R == PendingOf(k)
             told == ResolvedEvents(R)
             events == Append(told, ClosedEvent(k))
  <1>1. k \in Key /\ Forget({k}) /\ Emit(events)
    BY DEF CloseOk, CoreInv, TypeOK, OpType, IdleOp
  <1>2. told \in Seq(EventSet)
    BY OverPendingTyped DEF CoreInv, PendingOf
  <1> HIDE DEF k, told
  <1>3. ClosedEvent(k) \in EventSet
    BY <1>1 DEF ClosedEvent, Event, EventSet
  <1>4. /\ events \in Seq(EventSet)
        /\ Len(told) \in Nat /\ Len(events) = Len(told) + 1
        /\ events[Len(told) + 1] = ClosedEvent(k)
    BY <1>2, <1>3, AppendProperties, LenProperties
  <1>5. Len(told) + 1 \in DOMAIN events
    BY <1>4, LenProperties
  <1> HIDE DEF events
  <1>6. \E i \in DOMAIN out' : out'[i].event = ClosedEvent(k)
    BY <1>1, <1>4, <1>5 DEF Emit
  <1>7. Held \ Held' \subseteq {k}
    BY <1>1, ForgetEffect DEF Held, CoreInv
  <1> QED
    BY <1>6, <1>7 DEF LeavesTold

LEMMA RemoveTells ==
  ASSUME CoreInv, NEW ag \in Agents, RemoveSessions(ag)
  PROVE  LeavesTold
  <1> DEFINE mine == {k \in Held : AgentOf(k) = ag}
             left == UNION {PendingOf(k) : k \in mine}
             first == ResolvedEvents(left)
             then == Each(mine, ClosedEvent)
  <1>1. Forget(mine) /\ Emit(first \o then)
    BY DEF RemoveSessions
  <1>2. mine \in SUBSET Key /\ left \in SUBSET Pending
    BY DEF Held, PendingOf
  <1>3. first \in Seq(EventSet) /\ then \in Seq(EventSet)
    BY <1>2, OverPendingTyped, ClosedEventsTyped DEF CoreInv
  <1>4. \A k \in mine : \E i \in 1..Len(then) : then[i] = ClosedEvent(k)
    BY <1>2, ClosedEventsTold
  <1>5. Held \ Held' \subseteq mine
    BY <1>1, <1>2, ForgetEffect DEF Held, CoreInv
  <1> HIDE DEF mine, left, first, then
  <1>6. /\ Len(first) \in Nat /\ Len(then) \in Nat
        /\ DOMAIN (first \o then) = 1..(Len(first) + Len(then))
        /\ \A i \in 1..Len(then) : (first \o then)[Len(first) + i] = then[i]
    <2>1. Len(first) \in Nat /\ Len(then) \in Nat
      BY <1>3, LenProperties
    <2>2. /\ first \o then \in Seq(EventSet)
          /\ Len(first \o then) = Len(first) + Len(then)
          /\ \A i \in 1..(Len(first) + Len(then)) :
                (first \o then)[i] = IF i <= Len(first) THEN first[i] ELSE then[i - Len(first)]
      BY <1>3, ConcatProperties
    <2>3. DOMAIN (first \o then) = 1..(Len(first) + Len(then))
      BY <2>2, LenProperties
    <2> QED
      BY <2>1, <2>2, <2>3
  <1>7. \A k \in mine : \E i \in DOMAIN out' : out'[i].event = ClosedEvent(k)
    <2> SUFFICES ASSUME NEW k \in mine
                 PROVE  \E i \in DOMAIN out' : out'[i].event = ClosedEvent(k)
      OBVIOUS
    <2>1. PICK i \in 1..Len(then) : then[i] = ClosedEvent(k)
      BY <1>4
    <2>2. Len(first) + i \in DOMAIN (first \o then)
      BY <1>6
    <2>3. (first \o then)[Len(first) + i] = ClosedEvent(k)
      BY <1>6, <2>1
    <2> DEFINE events == first \o then
    <2>4. Emit(events) /\ Len(first) + i \in DOMAIN events /\ events[Len(first) + i] = ClosedEvent(k)
      BY <1>1, <2>2, <2>3
    <2> HIDE DEF events
    <2> QED
      BY <2>4 DEF Emit
  <1> QED
    BY <1>5, <1>7 DEF LeavesTold

\* Any other step lets go only what no turn runs in.
LEMMA StepTells ==
  ASSUME CoreInv, TurnInv, [Next]_hostVars
  PROVE  LeavesSpoken
  <1>a. ASSUME \A j \in Key : SameSlot(j) PROVE LeavesSpoken
    BY <1>a DEF LeavesSpoken, SameSlot, Held
  <1>b. ASSUME UNCHANGED sess PROVE LeavesSpoken
    BY <1>b DEF LeavesSpoken, Held
  <1>c. ASSUME NEW k \in Key, NEW opening \in BOOLEAN, sess[k].turn = None,
               Insert(k, Fresh(opening, <<>>))
        PROVE  LeavesSpoken
    <2>1. Fresh(opening, <<>>) \in SessType
      BY FreshTyped
    <2>2. \A j \in Key \ {k} : sess'[j] = sess[j] \/ sess[j].turn = None
      BY <1>c, <2>1, InsertEffect DEF CoreInv
    <2> QED
      BY <1>c, <2>2 DEF LeavesSpoken, Held
  <1>d. LeavesTold => LeavesSpoken
    BY DEF LeavesTold, LeavesSpoken
  <1>1. ASSUME NEW c \in Clients, NEW k \in Key, Prompt(c, k) PROVE LeavesSpoken
    <2>1. PICK t : sess' = [sess EXCEPT ![k] = [sess[k] EXCEPT !.turn = t, !.record = Append(@, t)]]
      BY <1>1 DEF Prompt
    <2>2. \A j \in Key : sess'[j].held = sess[j].held
      BY <2>1 DEF CoreInv, TypeOK, SessType
    <2> QED
      BY <2>2 DEF LeavesSpoken, Held
  <1>2. ASSUME NEW c \in Clients, ClientCall(c) PROVE LeavesSpoken
    BY <1>b, <1>1, <1>2
    DEF ClientCall, NewBegin, Cancel, OpenFromRecord, OpenWait, ChangeBegin, heldVars
  <1>3. ASSUME NEW c \in Clients, ClientStep(c) PROVE LeavesSpoken
    <2>1. op[c].do # "idle" => op[c].key \in Key
      BY DEF CoreInv, TypeOK, OpType, IdleOp
    <2>2. CASE NewAnswered(c)
      <3>1. op[c].key \in Key /\ sess[op[c].key].turn = None
        BY <2>1, <2>2 DEF NewAnswered, NewOk, NewErr, TurnInv, NewOK, CoreInv, SlotOK
      <3> QED
        BY <1>b, <1>c, <2>2, <3>1 DEF NewAnswered, NewOk, NewErr, heldVars
    <2>3. CASE OpenInAgent(c)
      <3>1. op[c].key \in Key
        BY <2>1, <2>3 DEF OpenInAgent
      <3>2. CASE sess[op[c].key].held
        <4> DEFINE k == op[c].key
        <4>1. sess' = [sess EXCEPT ![k] = [sess[k] EXCEPT !.record = <<>>, !.opening = TRUE]]
          BY <2>3, <3>2 DEF OpenInAgent
        <4> HIDE DEF k
        <4>2. \A j \in Key : sess'[j].held = sess[j].held
          BY <4>1 DEF CoreInv, TypeOK, SessType
        <4> QED
          BY <4>2 DEF LeavesSpoken, Held
      <3>3. CASE ~sess[op[c].key].held
        BY <1>c, <2>3, <3>1, <3>3 DEF OpenInAgent, CoreInv, SlotOK
      <3> QED
        BY <3>2, <3>3
    <2>4. CASE OpenLate(c) \/ ChangeErr(c)
      BY <1>b, <2>4 DEF OpenLate, ChangeErr, heldVars
    <2>5. CASE OpenOk(c)
      <3> DEFINE k == op[c].key
                 replay == IF op[c].how = "load" THEN SubSeq(hist[k], 1, op[c].upto) ELSE <<>>
      <3>1. \/ UNCHANGED sess
            \/ sess' = [sess EXCEPT ![k] = [sess[k] EXCEPT !.record = @ \o replay, !.opening = FALSE]]
        BY <2>5 DEF OpenOk
      <3> HIDE DEF k, replay
      <3>2. CASE UNCHANGED sess
        BY <1>b, <3>2
      <3>3. CASE sess' = [sess EXCEPT ![k] = [sess[k] EXCEPT !.record = @ \o replay, !.opening = FALSE]]
        <4>1. \A j \in Key : sess'[j].held = sess[j].held
          BY <3>3 DEF CoreInv, TypeOK, SessType
        <4> QED
          BY <4>1 DEF LeavesSpoken, Held
      <3> QED
        BY <3>1, <3>2, <3>3
    <2>6. CASE OpenErr(c)
      <3> DEFINE k == op[c].key
      <3>1. k \in Key /\ op[c].do = "open"
        BY <2>1, <2>6 DEF OpenErr
      <3>2. sess[k].held => sess[k].turn = None
        BY <3>1 DEF TurnInv, OpenOK, CoreInv, SlotOK
      <3>3. StillOpen(k) \/ Forget({k})
        BY <2>6 DEF OpenErr
      <3> HIDE DEF k
      <3>4. CASE StillOpen(k)
        <4>1. \A j \in Key : sess'[j].held = sess[j].held
          BY <3>4 DEF StillOpen, CoreInv, TypeOK, SessType
        <4> QED
          BY <4>1 DEF LeavesSpoken, Held
      <3>5. CASE Forget({k})
        <4>1. \A j \in Key : sess'[j] = IF j \in {k} THEN Absent ELSE sess[j]
          BY <3>1, <3>5, ForgetEffect DEF CoreInv
        <4> QED
          BY <3>2, <4>1 DEF LeavesSpoken, Held
      <3> QED
        BY <3>3, <3>4, <3>5
    <2>7. CASE ModeOk(c)
      BY <1>a, <2>1, <2>7, RecordEffect DEF ModeOk, CoreInv
    <2> QED
      BY <1>3, <1>d, <2>2, <2>3, <2>4, <2>5, <2>6, <2>7, CloseOkTells DEF ClientStep
  <1>4. ASSUME NEW c \in Clients, ClientAnswer(c) PROVE LeavesSpoken
    BY <1>b, <1>4 DEF ClientAnswer, Answer, heldVars
  <1>5. CASE AgentStep
    <2>1. ASSUME NEW t \in Turns, End(t) PROVE LeavesSpoken
      <3> DEFINE k == turn[t].key
      <3>1. \/ sess' = [sess EXCEPT ![k] = [sess[k] EXCEPT !.turn = None, !.ended = t]]
            \/ UNCHANGED sess
        BY <2>1 DEF End
      <3> HIDE DEF k
      <3>2. CASE UNCHANGED sess
        BY <1>b, <3>2
      <3>3. CASE sess' = [sess EXCEPT ![k] = [sess[k] EXCEPT !.turn = None, !.ended = t]]
        <4>1. \A j \in Key : sess'[j].held = sess[j].held
          BY <3>3 DEF CoreInv, TypeOK, SessType
        <4> QED
          BY <4>1 DEF LeavesSpoken, Held
      <3> QED
        BY <3>1, <3>2, <3>3
    <2>2. ASSUME NEW k \in Key, AgentUpdates(k) PROVE LeavesSpoken
      BY <1>a, <2>2, RecordEffect DEF AgentUpdates, CoreInv
    <2>3. ASSUME UNCHANGED heldVars PROVE LeavesSpoken
      BY <1>b, <2>3 DEF heldVars
    <2>4. ASSUME NEW k \in Key, CloseArrives(k) PROVE LeavesSpoken
      BY <1>b, <2>4 DEF CloseArrives
    <2> QED
      BY <1>5, <2>1, <2>2, <2>3, <2>4 DEF AgentStep, ChangedElsewhere, Withdraw, AskPermission
  <1>6. CASE RemoveFromRoster \/ UNCHANGED hostVars
    BY <1>b, <1>6 DEF RemoveFromRoster, heldVars, hostVars
  <1> QED
    BY <1>2, <1>3, <1>4, <1>5, <1>6, <1>d, RemoveTells DEF Next, RemoveStep

\* A session is never let go under its turn without its clients being told:
\* limits, failed opens and refreshes only take sessions nothing runs in.
THEOREM NeverDropped ==
  ASSUME ~ListsEarly
  PROVE  Spec => NeverDroppedInTurn
  <1>1. CoreInv /\ TurnInv /\ [Next]_hostVars => [LeavesSpoken]_hostVars
    BY StepTells
  <1> QED
    BY <1>1, Turning, PTL DEF Spec, NeverDroppedInTurn

-----------------------------------------------------------------------------
(* Nothing of a conversation is missing from its record *)

\* Who opens a session loads it, and reads it afresh only if it changes
\* elsewhere; until the agent answers, what the replay won't bring is recorded.
LoadsOK == \A c \in Clients : op[c].do \in {"wait", "open"} => op[c].how = "load"
ReplayOK ==
    \A c \in Clients : op[c].do = "open" /\ AgentOf(op[c].key) \notin shared =>
       /\ ~op[c].was
       /\ sess[op[c].key].held => \A i \in 1..Len(hist[op[c].key]) :
             i <= op[c].upto \/ hist[op[c].key][i] \in ToSet(sess[op[c].key].record)
\* What comes before the answer to session/new waits among the strays.
MadeOK ==
    \A c \in Clients : op[c].do = "new" /\ AgentOf(op[c].key) \notin shared =>
       ToSet(hist[op[c].key]) \subseteq ToSet(strays[op[c].key])
\* Nothing is said in a session no agent has made.
SaidOK == live \subseteq issued /\ \A k \in Key \ issued : hist[k] = <<>>

RecordInv == LoadsOK /\ ReplayOK /\ MadeOK /\ SaidOK /\ RecordWhole

\* While updates may still come, a session being made has room for the next one
\* among the strays (STRAYS of them, of OPEN_SESSIONS sessions).
StraysRoom ==
    \A c \in Clients : op[c].do = "new" /\ AgentOf(op[c].key) \notin shared /\ UnusedUpdates # {} =>
       /\ Len(strays[op[c].key]) < MaxStrays
       /\ strays[op[c].key] = <<>> => Cardinality({j \in Key : strays[j] # <<>>}) < OpenSessions

\* What a sequence with another behind it, or one entry more, says.
LEMMA ConcatSays ==
  ASSUME NEW S, NEW s \in Seq(S), NEW t \in Seq(S)
  PROVE  ToSet(s \o t) = ToSet(s) \cup ToSet(t)
  <1>1. /\ s \o t \in Seq(S) /\ Len(s \o t) = Len(s) + Len(t)
        /\ Len(s) \in Nat /\ Len(t) \in Nat
        /\ \A i \in 1..Len(s) : (s \o t)[i] = s[i]
        /\ \A i \in 1..Len(t) : (s \o t)[Len(s) + i] = t[i]
    BY ConcatProperties, LenProperties
  <1>2. /\ DOMAIN s = 1..Len(s) /\ DOMAIN t = 1..Len(t)
        /\ DOMAIN (s \o t) = 1..(Len(s) + Len(t))
    BY <1>1, LenProperties
  <1>3. ASSUME NEW x \in ToSet(s \o t) PROVE x \in ToSet(s) \cup ToSet(t)
    <2>1. PICK i \in 1..(Len(s) + Len(t)) : x = (s \o t)[i]
      BY <1>2, <1>3 DEF ToSet
    <2>2. CASE i <= Len(s)
      <3>1. i \in 1..Len(s)
        BY <1>1, <2>2
      <3> QED
        BY <1>1, <1>2, <2>1, <3>1 DEF ToSet
    <2>3. CASE i > Len(s)
      <3>1. i - Len(s) \in 1..Len(t) /\ i = Len(s) + (i - Len(s))
        BY <1>1, <2>3
      <3>2. x = t[i - Len(s)]
        BY <1>1, <2>1, <3>1
      <3> QED
        BY <1>2, <3>1, <3>2 DEF ToSet
    <2> QED
      BY <1>1, <2>2, <2>3
  <1>4. ASSUME NEW x \in ToSet(s) PROVE x \in ToSet(s \o t)
    <2>1. PICK i \in 1..Len(s) : x = s[i]
      BY <1>2, <1>4 DEF ToSet
    <2>2. i \in 1..(Len(s) + Len(t)) /\ x = (s \o t)[i]
      BY <1>1, <2>1
    <2> QED
      BY <1>2, <2>2 DEF ToSet
  <1>5. ASSUME NEW x \in ToSet(t) PROVE x \in ToSet(s \o t)
    <2>1. PICK i \in 1..Len(t) : x = t[i]
      BY <1>2, <1>5 DEF ToSet
    <2>2. Len(s) + i \in 1..(Len(s) + Len(t)) /\ x = (s \o t)[Len(s) + i]
      BY <1>1, <2>1
    <2> QED
      BY <1>2, <2>2 DEF ToSet
  <1> QED
    BY <1>3, <1>4, <1>5

LEMMA AppendSays ==
  ASSUME NEW S, NEW s \in Seq(S), NEW u \in S
  PROVE  ToSet(Append(s, u)) = ToSet(s) \cup {u}
  <1>1. /\ Len(s) \in Nat /\ DOMAIN s = 1..Len(s)
        /\ Append(s, u) \in Seq(S) /\ Len(Append(s, u)) = Len(s) + 1
        /\ \A i \in 1..Len(s) : Append(s, u)[i] = s[i]
        /\ Append(s, u)[Len(s) + 1] = u
    BY AppendProperties, LenProperties
  <1>2. DOMAIN Append(s, u) = 1..(Len(s) + 1)
    BY <1>1, LenProperties
  <1>3. 1..(Len(s) + 1) = (1..Len(s)) \cup {Len(s) + 1}
    BY <1>1
  <1> HIDE DEF ToSet
  <1>4. ASSUME NEW x \in ToSet(Append(s, u)) PROVE x \in ToSet(s) \cup {u}
    BY <1>1, <1>2, <1>3, <1>4 DEF ToSet
  <1>5. ASSUME NEW x \in ToSet(s) \cup {u} PROVE x \in ToSet(Append(s, u))
    <2>1. CASE x = u
      BY <1>1, <1>2, <2>1 DEF ToSet
    <2>2. CASE x \in ToSet(s)
      <3>1. PICK i \in 1..Len(s) : x = s[i]
        BY <1>1, <2>2 DEF ToSet
      <3>2. i \in 1..(Len(s) + 1) /\ x = Append(s, u)[i]
        BY <1>1, <3>1
      <3> QED
        BY <1>2, <3>2 DEF ToSet
    <2> QED
      BY <1>5, <2>1, <2>2
  <1> QED
    BY <1>4, <1>5

\* A conversation of which a replay brings the beginning and a record has the
\* rest is in the one followed by the other.
LEMMA ReplaySays ==
  ASSUME NEW S, NEW h \in Seq(S), NEW r \in Seq(S), NEW n \in Nat, n <= Len(h),
         \A i \in 1..Len(h) : i <= n \/ h[i] \in ToSet(r)
  PROVE  /\ SubSeq(h, 1, n) \in Seq(S)
         /\ ToSet(h) \subseteq ToSet(r \o SubSeq(h, 1, n))
  <1> DEFINE p == SubSeq(h, 1, n)
  <1>1. Len(h) \in Nat /\ DOMAIN h = 1..Len(h)
    BY LenProperties
  <1>2. p \in Seq(S)
    BY CutTyped
  <1>3. Len(p) = n /\ \A i \in 1..n : p[i] = h[i]
    BY <1>1, SubSeqProperties
  <1>4. DOMAIN p = 1..n
    BY <1>2, <1>3, LenProperties
  <1> HIDE DEF p
  <1>5. ASSUME NEW x \in ToSet(h) PROVE x \in ToSet(r) \cup ToSet(p)
    <2>1. PICK i \in 1..Len(h) : x = h[i]
      BY <1>1, <1>5 DEF ToSet
    <2>2. CASE i <= n
      <3>1. i \in 1..n
        BY <1>1, <2>2
      <3> QED
        BY <1>3, <1>4, <2>1, <3>1 DEF ToSet
    <2> QED
      BY <2>1, <2>2
  <1>6. ToSet(r \o p) = ToSet(r) \cup ToSet(p)
    BY <1>2, ConcatSays
  <1> QED
    BY <1>2, <1>5, <1>6 DEF p

\* What Insert leaves of records and strays.
LEMMA InsertRecord ==
  ASSUME TypeOK, NEW k \in Key, NEW s \in SessType, s.record = <<>>, Insert(k, s)
  PROVE  /\ sess'[k] = Absent \/ sess'[k].record = strays[k]
         /\ \A j \in Key \ {k} : /\ sess'[j] = sess[j] \/ sess'[j] = Absent
                                /\ strays'[j] = strays[j]
  <1> DEFINE r   == [s EXCEPT !.record = strays[k] \o @]
             now == [sess EXCEPT ![k] = r]
  <1>1. r.record = strays[k]
    <2>1. strays[k] \in Seq(Entry)
      BY DEF TypeOK
    <2> QED
      BY <2>1, ConcatEmptySeq DEF SessType
  <1> HIDE DEF r
  <1>2. now[k] = r /\ \A j \in Key \ {k} : now[j] = sess[j]
    BY DEF TypeOK
  <1>3. \A j \in Key : sess'[j] = Absent \/ sess'[j] = now[j]
    BY DEF Insert, r
  <1>4. \A j \in Key \ {k} : strays'[j] = strays[j]
    BY DEF Insert, TypeOK
  <1> HIDE DEF now
  <1> QED
    BY <1>1, <1>2, <1>3, <1>4

\* A step in which nothing is said: sessions stay as they are or are let go,
\* and calls go on, end, or wait.
LEMMA NothingSaid ==
  ASSUME CoreInv, TurnInv, RecordInv, UNCHANGED <<shared, hist, strays>>,
         issued \subseteq issued', live' \subseteq issued',
         \A j \in Key : sess'[j].held => /\ sess[j].held
                                         /\ sess'[j].opening = sess[j].opening
                                         /\ sess'[j].record = sess[j].record,
         \A c \in Clients : \/ op'[c] = op[c]
                            \/ op'[c].do \in {"idle", "change"}
                            \/ op'[c].do = "wait" /\ op'[c].how = "load"
                            \/ op'[c].do = "new" /\ op'[c].key \in Key \ issued
  PROVE  RecordInv'
  <1>0. \A c \in Clients : op[c].do # "idle" => op[c].key \in Key
    BY DEF CoreInv, TypeOK, OpType, IdleOp
  <1>2. LoadsOK'
    BY DEF RecordInv, LoadsOK
  <1>3. ReplayOK'
    <2> SUFFICES ASSUME NEW c \in Clients, op'[c].do = "open", AgentOf(op'[c].key) \notin shared'
                 PROVE  /\ ~op'[c].was
                        /\ sess'[op'[c].key].held => \A i \in 1..Len(hist'[op'[c].key]) :
                             i <= op'[c].upto \/ hist'[op'[c].key][i] \in ToSet(sess'[op'[c].key].record)
      BY DEF ReplayOK
    <2>1. op'[c] = op[c] /\ op[c].key \in Key /\ AgentOf(op[c].key) \notin shared
      BY <1>0
    <2>2. hist' = hist
      OBVIOUS
    <2> QED
      BY <2>1, <2>2 DEF RecordInv, ReplayOK
  <1>4. MadeOK'
    <2> SUFFICES ASSUME NEW c \in Clients, op'[c].do = "new", AgentOf(op'[c].key) \notin shared'
                 PROVE  ToSet(hist'[op'[c].key]) \subseteq ToSet(strays'[op'[c].key])
      BY DEF MadeOK
    <2>1. hist' = hist /\ strays' = strays
      OBVIOUS
    <2>2. CASE op'[c] = op[c]
      BY <2>1, <2>2 DEF RecordInv, MadeOK
    <2>3. CASE op'[c].key \in Key \ issued
      <3>1. hist[op'[c].key] = <<>>
        BY <2>3 DEF RecordInv, SaidOK
      <3> QED
        BY <2>1, <3>1, EmptySeq DEF ToSet
    <2> QED
      BY <2>2, <2>3
  <1>5. SaidOK'
    BY DEF RecordInv, SaidOK
  <1>6. RecordWhole'
    BY DEF RecordInv, RecordWhole, IsOpen
  <1> QED
    BY <1>2, <1>3, <1>4, <1>5, <1>6 DEF RecordInv

\* A step in which something is said in k, and no call begins or goes on.
LEMMA EntrySaid ==
  ASSUME CoreInv, TurnInv, RecordInv, NEW k \in Key, NEW u \in Entry,
         hist' = [hist EXCEPT ![k] = Append(@, u)], k \in issued,
         UNCHANGED <<shared, issued, live>>,
         \A c \in Clients : op'[c] = op[c] \/ op'[c].do = "idle",
         \A j \in Key \ {k} : sess'[j] = sess[j] /\ strays'[j] = strays[j],
         sess'[k].held = sess[k].held, sess'[k].opening = sess[k].opening,
         AgentOf(k) \notin shared =>
            /\ sess[k].held => sess'[k].record = Append(sess[k].record, u)
            /\ (\E c \in Clients : op[c].do = "new" /\ op[c].key = k) =>
                  strays'[k] = Append(strays[k], u)
  PROVE  RecordInv'
  <1>0. \A c \in Clients : op[c].do # "idle" => op[c].key \in Key
    BY DEF CoreInv, TypeOK, OpType, IdleOp
  <1>a. \A c \in Clients : op'[c].do # "idle" => op'[c] = op[c]
    OBVIOUS
  <1>c. /\ \A j \in Key : /\ hist[j] \in Seq(Entry) /\ strays[j] \in Seq(Entry)
                          /\ sess[j].record \in Seq(Entry)
        /\ hist'[k] = Append(hist[k], u)
        /\ \A j \in Key \ {k} : hist'[j] = hist[j]
    BY DEF CoreInv, TypeOK, SessType
  <1>d. /\ Len(hist[k]) \in Nat /\ Len(hist'[k]) = Len(hist[k]) + 1
        /\ \A i \in 1..Len(hist[k]) : hist'[k][i] = hist[k][i]
        /\ hist'[k][Len(hist[k]) + 1] = u
    BY <1>c, AppendProperties, LenProperties
  <1>e. /\ ToSet(hist'[k]) = ToSet(hist[k]) \cup {u}
        /\ AgentOf(k) \notin shared /\ sess[k].held => ToSet(sess'[k].record) = ToSet(sess[k].record) \cup {u}
        /\ AgentOf(k) \notin shared /\ (\E c \in Clients : op[c].do = "new" /\ op[c].key = k) =>
              ToSet(strays'[k]) = ToSet(strays[k]) \cup {u}
    <2>1. \A s \in Seq(Entry) : ToSet(Append(s, u)) = ToSet(s) \cup {u}
      BY AppendSays
    <2>2. ToSet(hist'[k]) = ToSet(hist[k]) \cup {u}
      BY <1>c, <2>1
    <2>3. ASSUME AgentOf(k) \notin shared, sess[k].held
          PROVE  ToSet(sess'[k].record) = ToSet(sess[k].record) \cup {u}
      <3>1. sess'[k].record = Append(sess[k].record, u) /\ sess[k].record \in Seq(Entry)
        BY <1>c, <2>3
      <3> QED
        BY <2>1, <3>1
    <2>4. ASSUME AgentOf(k) \notin shared, \E c \in Clients : op[c].do = "new" /\ op[c].key = k
          PROVE  ToSet(strays'[k]) = ToSet(strays[k]) \cup {u}
      <3>1. strays'[k] = Append(strays[k], u) /\ strays[k] \in Seq(Entry)
        BY <1>c, <2>4
      <3> QED
        BY <2>1, <3>1
    <2> QED
      BY <2>2, <2>3, <2>4
  <1>2. LoadsOK'
    BY <1>a DEF RecordInv, LoadsOK
  <1>3. ReplayOK'
    <2> SUFFICES ASSUME NEW c \in Clients, op'[c].do = "open", AgentOf(op'[c].key) \notin shared'
                 PROVE  /\ ~op'[c].was
                        /\ sess'[op'[c].key].held => \A i \in 1..Len(hist'[op'[c].key]) :
                             i <= op'[c].upto \/ hist'[op'[c].key][i] \in ToSet(sess'[op'[c].key].record)
      BY DEF ReplayOK
    <2>1. op'[c] = op[c] /\ op[c].key \in Key /\ AgentOf(op[c].key) \notin shared /\ op[c].do = "open"
      BY <1>0, <1>a
    <2>2. CASE op[c].key # k
      <3>1. hist'[op[c].key] = hist[op[c].key] /\ sess'[op[c].key] = sess[op[c].key]
        BY <1>c, <2>1, <2>2
      <3> QED
        BY <2>1, <3>1 DEF RecordInv, ReplayOK
    <2>3. CASE op[c].key = k
      <3>1. /\ ~op[c].was
            /\ sess[k].held => \A i \in 1..Len(hist[k]) :
                 i <= op[c].upto \/ hist[k][i] \in ToSet(sess[k].record)
        BY <2>1, <2>3 DEF RecordInv, ReplayOK
      <3>2. ASSUME sess'[k].held, NEW i \in 1..Len(hist'[k])
            PROVE  i <= op[c].upto \/ hist'[k][i] \in ToSet(sess'[k].record)
        <4>1. ToSet(sess'[k].record) = ToSet(sess[k].record) \cup {u}
          BY <1>e, <2>1, <2>3, <3>2
        <4>2. CASE i \in 1..Len(hist[k])
          BY <1>d, <3>1, <3>2, <4>1, <4>2
        <4>3. CASE i = Len(hist[k]) + 1
          BY <1>d, <4>1, <4>3
        <4> QED
          BY <1>d, <3>2, <4>2, <4>3
      <3> QED
        BY <2>1, <2>3, <3>1, <3>2
    <2> QED
      BY <2>2, <2>3
  <1>4. MadeOK'
    <2> SUFFICES ASSUME NEW c \in Clients, op'[c].do = "new", AgentOf(op'[c].key) \notin shared'
                 PROVE  ToSet(hist'[op'[c].key]) \subseteq ToSet(strays'[op'[c].key])
      BY DEF MadeOK
    <2>1. op'[c] = op[c] /\ op[c].key \in Key /\ AgentOf(op[c].key) \notin shared /\ op[c].do = "new"
      BY <1>0, <1>a
    <2>2. ToSet(hist[op[c].key]) \subseteq ToSet(strays[op[c].key])
      BY <2>1 DEF RecordInv, MadeOK
    <2>3. CASE op[c].key # k
      BY <1>c, <2>1, <2>2, <2>3
    <2>4. CASE op[c].key = k
      BY <1>e, <2>1, <2>2, <2>4
    <2> QED
      BY <2>3, <2>4
  <1>5. SaidOK'
    BY <1>c DEF RecordInv, SaidOK
  <1>6. RecordWhole'
    <2> SUFFICES ASSUME NEW j \in Key, IsOpen(j)', AgentOf(j) \notin shared'
                 PROVE  ToSet(hist'[j]) \subseteq ToSet(sess'[j].record)
      BY DEF RecordWhole
    <2>1. sess[j].held /\ IsOpen(j) /\ AgentOf(j) \notin shared
      BY DEF IsOpen
    <2>2. ToSet(hist[j]) \subseteq ToSet(sess[j].record)
      BY <2>1 DEF RecordInv, RecordWhole
    <2> QED
      BY <1>c, <1>e, <2>1, <2>2
  <1> QED
    BY <1>2, <1>3, <1>4, <1>5, <1>6 DEF RecordInv

\* A step that leaves conversations, strays and sessions, or lets some go.
LEMMA ForgetSaid ==
  ASSUME CoreInv, TurnInv, RecordInv, NEW K \in SUBSET Key, Forget(K),
         UNCHANGED <<shared, hist, strays, issued, live>>,
         \A c \in Clients : op'[c] = op[c] \/ op'[c] = IdleOp
  PROVE  RecordInv'
  <1>1. \A j \in Key : sess'[j] = IF j \in K THEN Absent ELSE sess[j]
    BY ForgetEffect DEF CoreInv
  <1>2. live' \subseteq issued' /\ issued \subseteq issued'
    BY DEF RecordInv, SaidOK
  <1>3. \A c \in Clients : op'[c] = op[c] \/ op'[c].do \in {"idle", "change"}
    BY DEF IdleOp
  <1> QED
    BY <1>1, <1>2, <1>3, AbsentIs, NothingSaid

\* A client's call begins, or is answered at once.
LEMMA CallSaid ==
  ASSUME CoreInv, TurnInv, RecordInv, Opens \subseteq {"load"}, NEW c \in Clients, NEW k \in Key,
         \/ NewBegin(c, k)
         \/ \E how \in Opens : OpenFromRecord(c, k, how) \/ OpenWait(c, k, how)
         \/ \E method \in {"mode", "close"} : ChangeBegin(c, k, method)
         \/ Cancel(c, k)
  PROVE  RecordInv'
  <1>1. UNCHANGED <<shared, sess, hist, strays>>
    BY DEF NewBegin, OpenFromRecord, OpenWait, ChangeBegin, Cancel, rosterVars, heldVars, agentVars
  <1>2. issued \subseteq issued' /\ live' \subseteq issued'
    BY DEF NewBegin, OpenFromRecord, OpenWait, ChangeBegin, Cancel, agentVars, RecordInv, SaidOK
  <1>3. \A d \in Clients : \/ op'[d] = op[d]
                           \/ op'[d].do \in {"idle", "change"}
                           \/ op'[d].do = "wait" /\ op'[d].how = "load"
                           \/ op'[d].do = "new" /\ op'[d].key \in Key \ issued
    <2>1. ASSUME NEW do, NEW how, Call(c, do, k, how)
          PROVE  /\ op'[c].do = do /\ op'[c].how = how /\ op'[c].key = k
                 /\ \A d \in Clients \ {c} : op'[d] = op[d]
      BY <2>1 DEF Call, CoreInv, TypeOK
    <2>2. CASE NewBegin(c, k)
      BY <2>1, <2>2 DEF NewBegin
    <2>3. ASSUME NEW how \in Opens, OpenWait(c, k, how)
          PROVE  \A d \in Clients : op'[d] = op[d] \/ (op'[d].do = "wait" /\ op'[d].how = "load")
      <3>1. Call(c, "wait", k, how) /\ how = "load"
        BY <2>3 DEF OpenWait
      <3> QED
        BY <2>1, <3>1
    <2>4. ASSUME NEW method \in {"mode", "close"}, ChangeBegin(c, k, method)
          PROVE  \A d \in Clients : op'[d] = op[d] \/ op'[d].do = "change"
      BY <2>1, <2>4 DEF ChangeBegin
    <2>5. CASE Cancel(c, k) \/ \E how \in Opens : OpenFromRecord(c, k, how)
      BY <2>5 DEF Cancel, OpenFromRecord, callVars
    <2> QED
      BY <2>2, <2>3, <2>4, <2>5
  <1> QED
    BY <1>1, <1>2, <1>3, NothingSaid

\* The agent's answer to session/new: what came before it is in the record.
LEMMA NewSaid ==
  ASSUME CoreInv, TurnInv, RecordInv, NEW c \in Clients, NewAnswered(c)
  PROVE  RecordInv'
  <1> DEFINE k == op[c].key
             s == Fresh(FALSE, <<>>)
  <1>1. k \in Key /\ op[c].do = "new" /\ UNCHANGED <<shared, hist, issued, live>>
    <2>1. op[c].do = "new" /\ UNCHANGED <<shared, hist, issued, live>>
      BY DEF NewAnswered, NewOk, NewErr, agentVars, rosterVars
    <2> QED
      BY <2>1 DEF CoreInv, TypeOK, OpType, IdleOp
  <1>2. op'[c] = IdleOp /\ \A d \in Clients \ {c} : op'[d] = op[d]
    BY DEF NewAnswered, NewOk, NewErr, Done, CoreInv, TypeOK
  <1>3. live' \subseteq issued' /\ issued \subseteq issued'
    BY <1>1 DEF RecordInv, SaidOK
  <1>4. CASE UNCHANGED heldVars
    <2>1. UNCHANGED <<shared, hist, strays, sess>>
      BY <1>1, <1>4 DEF heldVars
    <2>2. \A d \in Clients : op'[d] = op[d] \/ op'[d].do \in {"idle", "change"}
      BY <1>2 DEF IdleOp
    <2> QED
      BY <1>3, <2>1, <2>2, NothingSaid
  <1>5. CASE Insert(k, s)
    <2>1. s \in SessType /\ s.held /\ ~s.opening /\ s.record = <<>>
      BY FreshTyped DEF Fresh, Absent
    <2>2. \A d \in Clients \ {c} : op[d].key # k
      BY <1>1 DEF TurnInv, NewOK
    <2>3. \A d \in Clients : op[d].do # "idle" => op[d].key \in Key
      BY DEF CoreInv, TypeOK, OpType, IdleOp
    <2>4. \A d \in Clients : op'[d].do # "idle" => d # c /\ op'[d] = op[d] /\ op[d].key \in Key \ {k}
      BY <1>2, <2>2, <2>3 DEF IdleOp
    <2>5. AgentOf(k) \notin shared => ToSet(hist[k]) \subseteq ToSet(strays[k])
      BY <1>1 DEF RecordInv, MadeOK
    <2> HIDE DEF k, s
    <2>6. /\ sess'[k] = Absent \/ sess'[k].record = strays[k]
          /\ \A j \in Key \ {k} : /\ sess'[j] = sess[j] \/ sess'[j] = Absent
                                 /\ strays'[j] = strays[j]
      BY <1>1, <1>5, <2>1, InsertRecord DEF CoreInv
    <2>7. LoadsOK'
      BY <2>4 DEF RecordInv, LoadsOK
    <2>8. ReplayOK'
      <3> SUFFICES ASSUME NEW d \in Clients, op'[d].do = "open", AgentOf(op'[d].key) \notin shared'
                   PROVE  /\ ~op'[d].was
                          /\ sess'[op'[d].key].held => \A i \in 1..Len(hist'[op'[d].key]) :
                               i <= op'[d].upto \/ hist'[op'[d].key][i] \in ToSet(sess'[op'[d].key].record)
        BY DEF ReplayOK
      <3>1. op'[d] = op[d] /\ op[d].key \in Key \ {k} /\ hist' = hist /\ shared' = shared
        BY <1>1, <2>4
      <3>2. sess'[op[d].key].held => sess'[op[d].key] = sess[op[d].key]
        BY <2>6, <3>1, AbsentIs
      <3> QED
        BY <3>1, <3>2 DEF RecordInv, ReplayOK
    <2>9. MadeOK'
      BY <1>1, <2>4, <2>6 DEF RecordInv, MadeOK
    <2>10. SaidOK'
      BY <1>1 DEF RecordInv, SaidOK
    <2>11. RecordWhole'
      BY <1>1, <2>5, <2>6, AbsentIs DEF RecordInv, RecordWhole, IsOpen
    <2> QED
      BY <2>7, <2>8, <2>9, <2>10, <2>11 DEF RecordInv
  <1> QED
    BY <1>4, <1>5 DEF NewAnswered, NewOk, NewErr

\* The agent is asked to load a session: what the conversation has by then
\* the replay will bring.
LEMMA OpenInAgentSaid ==
  ASSUME CoreInv, TurnInv, RecordInv, NEW c \in Clients, OpenInAgent(c)
  PROVE  RecordInv'
  <1> DEFINE k == op[c].key
  <1>1. /\ k \in Key /\ op[c].do = "wait" /\ op[c].how = "load"
        /\ UNCHANGED <<shared, hist, issued, live>>
    <2>1. op[c].do = "wait" /\ UNCHANGED <<shared, hist, issued, live>>
      BY DEF OpenInAgent, agentVars, rosterVars
    <2> QED
      BY <2>1 DEF CoreInv, TypeOK, OpType, IdleOp, RecordInv, LoadsOK
  <1>2. /\ op'[c].do = "open" /\ op'[c].key = k /\ op'[c].how = "load"
        /\ op'[c].was = sess[k].held /\ op'[c].upto = Len(hist[k])
        /\ \A d \in Clients \ {c} : op'[d] = op[d]
    <2>1. op' = [op EXCEPT ![c] = [op[c] EXCEPT !.do = "open", !.was = sess[k].held,
                                                !.upto = Len(hist[k])]]
      BY DEF OpenInAgent
    <2>2. op \in [Clients -> OpType]
          /\ op[c] \in [do : {"new", "wait", "open", "change"}, key : Key,
                       how : {None, "load", "resume", "mode", "close"}, was : BOOLEAN, upto : Nat]
      BY <1>1 DEF CoreInv, TypeOK, OpType, IdleOp
    <2> QED
      BY <1>1, <2>1, <2>2
  <1>3. \A d \in Clients \ {c} : op'[d].do # "open"
    BY <1>2 DEF OpenInAgent, CoreInv, CallsOK, HasLock
  <1>4. \A d \in Clients \ {c} : op[d].do = "new" => op[d].key # k /\ op[d].key \in Key
    <2>1. \A d \in Clients \ {c} : op[d].do = "new" => op[d].key \in Key
      BY DEF CoreInv, TypeOK, OpType, IdleOp
    <2> QED
      BY <1>1, <2>1 DEF TurnInv, NewOK
  <1>5. AgentOf(k) \notin shared => ~sess[k].held
    <2> SUFFICES ASSUME AgentOf(k) \notin shared, sess[k].held PROVE FALSE
      OBVIOUS
    <2>1. ~sess[k].opening
      BY <1>1, NoneOpening DEF OpenInAgent
    <2> QED
      BY <1>1, <2>1 DEF OpenInAgent, AnsweredByNow, IsOpen, Refresh
  <1>6. /\ \A j \in Key \ {k} : /\ sess'[j] = sess[j] \/ sess'[j] = Absent
                               /\ strays'[j] = strays[j]
        /\ sess'[k].held => sess'[k].opening
    <2>1. CASE sess[k].held
      <3>1. /\ sess' = [sess EXCEPT ![k] = [sess[k] EXCEPT !.record = <<>>, !.opening = TRUE]]
            /\ UNCHANGED strays
        BY <2>1 DEF OpenInAgent
      <3> HIDE DEF k
      <3> QED
        BY <1>1, <3>1 DEF CoreInv, TypeOK, SessType
    <2>2. CASE ~sess[k].held
      <3> DEFINE s == Fresh(TRUE, <<>>)
      <3>1. s \in SessType /\ s.opening /\ s.record = <<>>
        BY FreshTyped DEF Fresh, Absent
      <3>2. Insert(k, s)
        BY <2>2 DEF OpenInAgent
      <3> HIDE DEF k, s
      <3>3. \A j \in Key \ {k} : /\ sess'[j] = sess[j] \/ sess'[j] = Absent
                                /\ strays'[j] = strays[j]
        BY <1>1, <3>1, <3>2, InsertRecord DEF CoreInv
      <3>4. sess'[k] = Absent \/ sess'[k].opening
        BY <1>1, <3>1, <3>2, InsertEffect DEF CoreInv
      <3> QED
        BY <3>3, <3>4, AbsentIs
    <2> QED
      BY <2>1, <2>2
  <1>7. Len(hist[k]) \in Nat
    BY <1>1, LenProperties DEF CoreInv, TypeOK
  <1>8. LoadsOK'
    BY <1>2 DEF RecordInv, LoadsOK
  <1>9. ReplayOK'
    <2> SUFFICES ASSUME NEW d \in Clients, op'[d].do = "open", AgentOf(op'[d].key) \notin shared'
                 PROVE  /\ ~op'[d].was
                        /\ sess'[op'[d].key].held => \A i \in 1..Len(hist'[op'[d].key]) :
                             i <= op'[d].upto \/ hist'[op'[d].key][i] \in ToSet(sess'[op'[d].key].record)
      BY DEF ReplayOK
    <2>1. d = c /\ AgentOf(k) \notin shared
      BY <1>1, <1>2, <1>3
    <2>2. \A i \in 1..Len(hist'[op'[d].key]) : i <= op'[d].upto
      BY <1>1, <1>2, <1>7, <2>1
    <2> QED
      BY <1>2, <1>5, <2>1, <2>2
  <1> HIDE DEF k
  <1>10. MadeOK'
    <2>1. \A d \in Clients : op'[d].do = "new" => d # c /\ op'[d] = op[d] /\ op[d].key \in Key \ {k}
      BY <1>2, <1>4
    <2> QED
      BY <1>1, <1>6, <2>1 DEF RecordInv, MadeOK
  <1>11. SaidOK'
    BY <1>1 DEF RecordInv, SaidOK
  <1>12. RecordWhole'
    BY <1>1, <1>6, AbsentIs DEF RecordInv, RecordWhole, IsOpen
  <1> QED
    BY <1>8, <1>9, <1>10, <1>11, <1>12 DEF RecordInv

\* The replay came: what it doesn't have the record had.
LEMMA OpenOkSaid ==
  ASSUME CoreInv, TurnInv, RecordInv, NEW c \in Clients, OpenOk(c)
  PROVE  RecordInv'
  <1> DEFINE k == op[c].key
             replay == IF op[c].how = "load" THEN SubSeq(hist[k], 1, op[c].upto) ELSE <<>>
  <1>1. /\ k \in Key /\ op[c].do = "open" /\ op[c].how = "load" /\ HasLock(c)
        /\ op[c].upto \in Nat /\ op[c].upto <= Len(hist[k])
        /\ live' = live \cup {k} /\ k \in issued
        /\ UNCHANGED <<shared, hist, issued>>
    <2>1. op[c].do = "open" /\ live' = live \cup {k} /\ UNCHANGED <<shared, hist, issued>>
      BY DEF OpenOk, rosterVars
    <2>2. k \in Key /\ op[c].upto \in Nat
      BY <2>1 DEF CoreInv, TypeOK, OpType, IdleOp
    <2> QED
      BY <2>1, <2>2 DEF CoreInv, CallsOK, RecordInv, LoadsOK, TurnInv, IssuedOK
  <1>2. op'[c] = IdleOp /\ \A d \in Clients \ {c} : op'[d] = op[d]
    BY DEF OpenOk, Done, CoreInv, TypeOK
  <1>3. \A d \in Clients : op'[d].do # "open"
    BY <1>1, <1>2, NoneOpens DEF IdleOp
  <1>4. \A d \in Clients \ {c} : op[d].do = "new" => op[d].key \in Key \ {k}
    <2>1. \A d \in Clients \ {c} : op[d].do = "new" => op[d].key \in Key
      BY DEF CoreInv, TypeOK, OpType, IdleOp
    <2> QED
      BY <1>1, <2>1 DEF TurnInv, NewOK
  <1>5. \A j \in Key \ {k} : sess'[j] = sess[j] /\ strays'[j] = strays[j]
    BY <1>1 DEF OpenOk, Strayed, CoreInv, TypeOK
  <1>6. AgentOf(k) \notin shared /\ sess'[k].held => ToSet(hist[k]) \subseteq ToSet(sess'[k].record)
    <2> SUFFICES ASSUME AgentOf(k) \notin shared, sess'[k].held
                 PROVE  ToSet(hist[k]) \subseteq ToSet(sess'[k].record)
      OBVIOUS
    <2>1. sess[k].held
      BY DEF OpenOk
    <2>2. sess' = [sess EXCEPT ![k] = [sess[k] EXCEPT !.record = @ \o replay, !.opening = FALSE]]
      BY <2>1 DEF OpenOk
    <2>3. \A i \in 1..Len(hist[k]) : i <= op[c].upto \/ hist[k][i] \in ToSet(sess[k].record)
      BY <1>1, <2>1 DEF RecordInv, ReplayOK
    <2>4. replay = SubSeq(hist[k], 1, op[c].upto)
      BY <1>1
    <2> HIDE DEF k, replay
    <2>5. sess[k] \in SessType /\ sess'[k].record = sess[k].record \o replay
      BY <1>1, <2>2 DEF CoreInv, TypeOK, SessType
    <2>6. hist[k] \in Seq(Entry) /\ sess[k].record \in Seq(Entry)
      BY <1>1, <2>5 DEF CoreInv, TypeOK, SessType
    <2> QED
      BY <1>1, <2>3, <2>4, <2>5, <2>6, ReplaySays
  <1> HIDE DEF k, replay
  <1>7. LoadsOK'
    BY <1>2 DEF RecordInv, LoadsOK, IdleOp
  <1>8. ReplayOK'
    BY <1>3 DEF ReplayOK
  <1>9. MadeOK'
    <2>1. \A d \in Clients : op'[d].do = "new" => d # c /\ op'[d] = op[d] /\ op[d].key \in Key \ {k}
      BY <1>2, <1>4 DEF IdleOp
    <2> QED
      BY <1>1, <1>5, <2>1 DEF RecordInv, MadeOK
  <1>10. SaidOK'
    BY <1>1 DEF RecordInv, SaidOK
  <1>11. RecordWhole'
    BY <1>1, <1>5, <1>6 DEF RecordInv, RecordWhole, IsOpen
  <1> QED
    BY <1>7, <1>8, <1>9, <1>10, <1>11 DEF RecordInv

\* The agent could not: a session only it speaks in was not open before.
LEMMA OpenErrSaid ==
  ASSUME CoreInv, TurnInv, RecordInv, NEW c \in Clients, OpenErr(c)
  PROVE  RecordInv'
  <1> DEFINE k == op[c].key
  <1>1. /\ k \in Key /\ op[c].do = "open" /\ HasLock(c)
        /\ UNCHANGED <<shared, hist, strays, issued, live>>
    <2>1. op[c].do = "open" /\ UNCHANGED <<shared, hist, strays, issued, live>>
      BY DEF OpenErr, rosterVars, agentVars
    <2> QED
      BY <2>1 DEF CoreInv, TypeOK, OpType, IdleOp, CallsOK
  <1>2. op'[c] = IdleOp /\ \A d \in Clients \ {c} : op'[d] = op[d]
    BY DEF OpenErr, Done, CoreInv, TypeOK
  <1>3. CASE op[c].was
    <2>1. AgentOf(k) \in shared
      BY <1>1, <1>3 DEF RecordInv, ReplayOK
    <2>2. sess' = [sess EXCEPT ![k] = [sess[k] EXCEPT !.opening = FALSE]]
      BY <1>3 DEF OpenErr, StillOpen
    <2> HIDE DEF k
    <2>3. \A j \in Key \ {k} : sess'[j] = sess[j]
      BY <1>1, <2>2 DEF CoreInv, TypeOK
    <2>4. \A d \in Clients : op'[d].do # "open"
      BY <1>1, <1>2, NoneOpens DEF IdleOp
    <2>5. LoadsOK' /\ ReplayOK'
      BY <1>2, <2>4 DEF RecordInv, LoadsOK, ReplayOK, IdleOp
    <2>6. MadeOK'
      <3>1. \A d \in Clients : op'[d].do = "new" => op'[d] = op[d]
        BY <1>2 DEF IdleOp
      <3> QED
        BY <1>1, <3>1 DEF RecordInv, MadeOK
    <2>7. SaidOK'
      BY <1>1 DEF RecordInv, SaidOK
    <2>8. RecordWhole'
      BY <1>1, <2>1, <2>3 DEF RecordInv, RecordWhole, IsOpen
    <2> QED
      BY <2>5, <2>6, <2>7, <2>8 DEF RecordInv
  <1>4. CASE ~op[c].was
    <2>1. Forget({k})
      BY <1>4 DEF OpenErr
    <2> QED
      BY <1>1, <1>2, <2>1, ForgetSaid
  <1> QED
    BY <1>3, <1>4

\* A prompt, or a mode changed, is said and recorded.
LEMMA PromptSaid ==
  ASSUME CoreInv, TurnInv, RecordInv, NEW c \in Clients, NEW k \in Key, Prompt(c, k)
  PROVE  RecordInv'
  <1> DEFINE t == One(UnusedTurns)
  <1>1. t \in Entry
    BY OneOf DEF Prompt, UnusedTurns, Entry
  <1>2. /\ hist' = [hist EXCEPT ![k] = Append(@, t)]
        /\ sess' = [sess EXCEPT ![k] = [sess[k] EXCEPT !.turn = t, !.record = Append(@, t)]]
        /\ sess[k].held /\ UNCHANGED <<shared, issued, live, op, strays>>
    BY DEF Prompt, IsOpen, rosterVars, callVars
  <1> HIDE DEF t
  <1>3. k \in issued /\ ~\E d \in Clients : op[d].do = "new" /\ op[d].key = k
    BY <1>2 DEF TurnInv, IssuedOK, NewOK, Held
  <1>4. /\ sess'[k].held = sess[k].held /\ sess'[k].opening = sess[k].opening
        /\ sess'[k].record = Append(sess[k].record, t)
        /\ \A j \in Key \ {k} : sess'[j] = sess[j]
    BY <1>2 DEF CoreInv, TypeOK, SessType
  <1> QED
    BY <1>1, <1>2, <1>3, <1>4, EntrySaid

LEMMA RecordKeeps ==
  ASSUME TypeOK, NEW k \in Key, NEW u, Record(k, u)
  PROVE  /\ sess'[k].held = sess[k].held /\ sess'[k].opening = sess[k].opening
         /\ sess[k].held => sess'[k].record = Append(sess[k].record, u)
         /\ \A j \in Key \ {k} : sess'[j] = sess[j]
  BY DEF Record, TypeOK, SessType

LEMMA ModeSaid ==
  ASSUME CoreInv, TurnInv, RecordInv, NEW c \in Clients, ModeOk(c)
  PROVE  RecordInv'
  <1> DEFINE k == op[c].key
             u == One(UnusedUpdates)
  <1>1. k \in Key /\ op[c].do = "change"
    BY DEF ModeOk, CoreInv, TypeOK, OpType, IdleOp
  <1>2. u \in Entry
    BY OneOf DEF ModeOk, UnusedUpdates, Entry
  <1>3. /\ hist' = [hist EXCEPT ![k] = Append(@, u)]
        /\ Record(k, u) /\ UNCHANGED <<shared, issued, live, strays>>
    BY DEF ModeOk, rosterVars
  <1>4. \A d \in Clients : op'[d] = op[d] \/ op'[d].do = "idle"
    BY DEF ModeOk, Done, CoreInv, TypeOK, IdleOp
  <1>5. k \in issued /\ ~\E d \in Clients : op[d].do = "new" /\ op[d].key = k
    BY <1>1 DEF TurnInv, IssuedOK, NewOK
  <1> HIDE DEF k, u
  <1>6. /\ sess'[k].held = sess[k].held /\ sess'[k].opening = sess[k].opening
        /\ sess[k].held => sess'[k].record = Append(sess[k].record, u)
        /\ \A j \in Key \ {k} : sess'[j] = sess[j]
    BY <1>1, <1>3, RecordKeeps DEF CoreInv
  <1> QED
    BY <1>1, <1>2, <1>3, <1>4, <1>5, <1>6, EntrySaid

\* The agent speaks in a session: recorded if the host holds it; if it is being
\* made, it waits among the strays.
LEMMA AgentSaid ==
  ASSUME CoreInv, TurnInv, RecordInv, StraysRoom, NEW k \in Key, AgentUpdates(k)
  PROVE  RecordInv'
  <1> DEFINE u == One(UnusedUpdates)
  <1>1. u \in Entry
    BY OneOf DEF AgentUpdates, UnusedUpdates, Entry
  <1>2. /\ hist' = [hist EXCEPT ![k] = Append(@, u)]
        /\ Record(k, u) /\ UNCHANGED <<shared, issued, live, op>>
        /\ k \in issued /\ UnusedUpdates # {}
        /\ strays' = IF sess[k].held THEN strays ELSE Strayed(k, <<u>>)
    BY DEF AgentUpdates, rosterVars, callVars, RecordInv, SaidOK
  <1> HIDE DEF u
  <1>3. /\ sess'[k].held = sess[k].held /\ sess'[k].opening = sess[k].opening
        /\ sess[k].held => sess'[k].record = Append(sess[k].record, u)
        /\ \A j \in Key \ {k} : sess'[j] = sess[j]
    BY <1>2, RecordKeeps DEF CoreInv
  <1>4. \A j \in Key \ {k} : strays'[j] = strays[j]
    BY <1>2 DEF Strayed, CoreInv, TypeOK
  <1>5. ASSUME AgentOf(k) \notin shared, NEW c \in Clients, op[c].do = "new", op[c].key = k
        PROVE  strays'[k] = Append(strays[k], u)
    <2> DEFINE all  == strays[k] \o <<u>>
               full == Cardinality({j \in Key : strays[j] # <<>>}) >= OpenSessions
               room == IF strays[k] = <<>> /\ full THEN 0 ELSE MaxStrays
               n    == IF Len(all) < room THEN Len(all) ELSE room
    <2>1. strays \in [Key -> Seq(Entry)] /\ strays[k] \in Seq(Entry)
      BY DEF CoreInv, TypeOK
    <2>2. all = Append(strays[k], u)
      BY <1>1, <2>1, AppendIsConcat
    <2>3. all \in Seq(Entry) /\ Len(all) = Len(strays[k]) + 1 /\ Len(strays[k]) \in Nat
      BY <1>1, <2>1, <2>2, AppendProperties, LenProperties
    <2>4. Len(strays[k]) < MaxStrays /\ (strays[k] = <<>> => Cardinality({j \in Key : strays[j] # <<>>}) < OpenSessions)
      BY <1>2, <1>5 DEF StraysRoom
    <2>5. Cardinality({j \in Key : strays[j] # <<>>}) \in Nat /\ OpenSessions \in Nat /\ MaxStrays \in Nat
      BY KeyFinite, FS_Subset, FS_CardinalityType, HostAssumption DEF HostAssumption
    <2>6. ~(strays[k] = <<>> /\ full)
      BY <2>4, <2>5
    <2>7. n = Len(all)
      BY <2>3, <2>4, <2>5, <2>6
    <2>8. strays' = [strays EXCEPT ![k] = SubSeq(all, 1, n)]
      BY <1>2, <1>5 DEF TurnInv, NewOK, Strayed
    <2> HIDE DEF all, n
    <2>9. SubSeq(all, 1, Len(all)) = all
      BY <2>3, SubSeqFull
    <2> QED
      BY <2>1, <2>2, <2>7, <2>8, <2>9
  <1> QED
    BY <1>1, <1>2, <1>3, <1>4, <1>5, EntrySaid

LEMMA ElsewhereSaid ==
  ASSUME CoreInv, TurnInv, RecordInv, NEW k \in Key, ChangedElsewhere(k)
  PROVE  RecordInv'
  <1> DEFINE u == One(UnusedUpdates)
  <1>1. u \in Entry
    BY OneOf DEF ChangedElsewhere, UnusedUpdates, Entry
  <1>2. /\ hist' = [hist EXCEPT ![k] = Append(@, u)]
        /\ k \in issued /\ AgentOf(k) \in shared
        /\ UNCHANGED <<shared, issued, live, op, sess, strays>>
    BY DEF ChangedElsewhere, rosterVars, heldVars, callVars
  <1> HIDE DEF u
  <1> QED
    BY <1>1, <1>2, EntrySaid

LEMMA RecordStep ==
  ASSUME CoreInv, TurnInv, RecordInv, StraysRoom, Opens \subseteq {"load"}, [Next]_hostVars
  PROVE  RecordInv'
  <1>a. ASSUME UNCHANGED <<shared, hist, strays, issued, live, sess, op>> PROVE RecordInv'
    <2>1. live' \subseteq issued'
      BY <1>a DEF RecordInv, SaidOK
    <2> QED
      BY <1>a, <2>1, NothingSaid
  <1>1. ASSUME NEW c \in Clients, ClientCall(c) PROVE RecordInv'
    BY <1>1, CallSaid, PromptSaid DEF ClientCall
  <1>2. ASSUME NEW c \in Clients, ClientStep(c) PROVE RecordInv'
    <2>1. ASSUME Done(c) PROVE \A d \in Clients : op'[d] = op[d] \/ op'[d] = IdleOp
      BY <2>1 DEF Done, CoreInv, TypeOK
    <2>2. CASE OpenLate(c) \/ ChangeErr(c)
      <3>1. Done(c) /\ UNCHANGED <<shared, hist, strays, issued, live, sess>>
        BY <2>2 DEF OpenLate, ChangeErr, rosterVars, heldVars, agentVars
      <3>2. \A d \in Clients : op'[d] = op[d] \/ op'[d].do \in {"idle", "change"}
        BY <2>1, <3>1 DEF IdleOp
      <3>3. live' \subseteq issued'
        BY <3>1 DEF RecordInv, SaidOK
      <3> QED
        BY <3>1, <3>2, <3>3, NothingSaid
    <2>3. CASE CloseOk(c)
      <3>1. /\ op[c].key \in Key /\ Done(c) /\ Forget({op[c].key})
            /\ UNCHANGED <<shared, hist, strays, issued, live>>
        BY <2>3 DEF CloseOk, CoreInv, TypeOK, OpType, IdleOp, rosterVars, agentVars
      <3> QED
        BY <2>1, <3>1, ForgetSaid
    <2> QED
      BY <1>2, <2>2, <2>3, NewSaid, OpenInAgentSaid, OpenOkSaid, OpenErrSaid, ModeSaid DEF ClientStep
  <1>3. ASSUME NEW c \in Clients, ClientAnswer(c) PROVE RecordInv'
    BY <1>a, <1>3 DEF ClientAnswer, Answer, rosterVars, heldVars, callVars, agentVars
  <1>4. CASE AgentStep
    <2>1. ASSUME NEW t \in Turns, End(t) PROVE RecordInv'
      <3>1. UNCHANGED <<shared, hist, strays, issued, live, op>> /\ turn[t].key \in Key
        BY <2>1 DEF End, rosterVars, callVars, agentVars, CoreInv, TypeOK, Running, TurnType
      <3>2. \A j \in Key : /\ sess'[j].held = sess[j].held
                           /\ sess'[j].opening = sess[j].opening
                           /\ sess'[j].record = sess[j].record
        BY <2>1, <3>1 DEF End, CoreInv, TypeOK, SessType
      <3>3. live' \subseteq issued'
        BY <3>1 DEF RecordInv, SaidOK
      <3> QED
        BY <3>1, <3>2, <3>3, NothingSaid
    <2>2. ASSUME NEW k \in Key, CloseArrives(k) \/ \E call \in Calls : AskPermission(k, call)
          PROVE  RecordInv'
      BY <1>a, <2>2 DEF CloseArrives, AskPermission, rosterVars, heldVars, callVars, agentVars
    <2>3. ASSUME NEW a \in Asks, Withdraw(a) PROVE RecordInv'
      BY <1>a, <2>3 DEF Withdraw, rosterVars, heldVars, callVars, agentVars
    <2> QED
      BY <1>4, <2>1, <2>2, <2>3, AgentSaid, ElsewhereSaid DEF AgentStep
  <1>5. CASE RemoveStep
    <2>1. ASSUME NEW ag \in Agents, RemoveSessions(ag) PROVE RecordInv'
      <3>1. Forget({k \in Held : AgentOf(k) = ag}) /\ UNCHANGED <<shared, hist, strays, issued, live, op>>
        BY <2>1 DEF RemoveSessions, callVars, agentVars
      <3> QED
        BY <3>1, ForgetSaid DEF Held
    <2>2. CASE RemoveFromRoster
      BY <1>a, <2>2 DEF RemoveFromRoster, heldVars, callVars, agentVars
    <2> QED
      BY <1>5, <2>1, <2>2 DEF RemoveStep
  <1>6. CASE UNCHANGED hostVars
    BY <1>a, <1>6 DEF hostVars
  <1> QED
    BY <1>1, <1>2, <1>3, <1>4, <1>5, <1>6 DEF Next

LEMMA RecordInit == Init => RecordInv
  <1>1. ToSet(<<>>) = {}
    BY EmptySeq DEF ToSet
  <1> QED
    BY <1>1, AbsentIs DEF Init, RecordInv, LoadsOK, ReplayOK, MadeOK, SaidOK, RecordWhole, IsOpen, IdleOp

\* While clients open sessions with session/load only, no agent lists a session
\* it still makes, and one being made has room for what comes before its
\* answer, nothing of a conversation only its agent speaks in is missing from
\* the record of a session that is open.
THEOREM RecordsWhole ==
  ASSUME ~ListsEarly, Opens \subseteq {"load"}
  PROVE  Spec /\ []StraysRoom => []RecordWhole
  <1>1. Init => RecordInv
    BY RecordInit
  <1>2. (CoreInv /\ TurnInv) /\ RecordInv /\ StraysRoom /\ [Next]_hostVars => RecordInv'
    BY RecordStep
  <1>3. RecordInv => RecordWhole
    BY DEF RecordInv
  <1> QED
    BY <1>1, <1>2, <1>3, Turning, PTL DEF Spec

-----------------------------------------------------------------------------
(* The host with its connections *)

UpTyped == up \subseteq Devices

\* A frame is one step of its client in the host.
LEMMA FrameIsStep ==
  ASSUME NEW c \in Clients, Frame(c)
  PROVE  [Next]_hostVars
  <1>1. CASE LoadOpen(c)
    BY <1>1 DEF LoadOpen, Next, ClientCall
  <1>2. CASE LoadLate(c) \/ LoadOk(c) \/ NewAttach(c) \/ CloseDone(c)
    BY <1>2 DEF LoadLate, LoadOk, NewAttach, CloseDone, NewAnswered, Next, ClientStep
  <1>3. CASE Forward(c)
    BY <1>3 DEF Forward, NewAnswered, Next, ClientCall, ClientStep
  <1>4. CASE Change(c)
    BY <1>4 DEF Change, Next, ClientCall
  <1>5. CASE SendPrompt(c)
    BY <1>5 DEF SendPrompt, Next, ClientCall
  <1>6. CASE AnswerById(c)
    BY <1>6 DEF AnswerById, Next
  <1>7. CASE DeclineCopy(c)
    BY <1>7 DEF DeclineCopy
  <1>8. ASSUME NEW a \in Asks, NEW outcome \in {"selected", "cancelled"},
               AnswerCopy(c, a, outcome)
        PROVE  [Next]_hostVars
    BY <1>8 DEF AnswerCopy, Pending, ClientAnswer, Next
  <1> QED
    BY <1>1, <1>2, <1>3, <1>4, <1>5, <1>6, <1>7, <1>8 DEF Frame

\* An event taken leaves the host, and who is connected, as they are.
LEMMA TakeKeeps ==
  ASSUME NEW c \in Clients, TakeEvent(c)
  PROVE  UNCHANGED hostVars /\ UNCHANGED up
  BY DEF TakeEvent, TakeTurn, TakeUpdate, TakeAnswered, TakeAdded, TakeResolved,
         TakeClosed, Take

LEMMA FrameKeepsUp ==
  ASSUME NEW c \in Clients, Frame(c)
  PROVE  UNCHANGED up
  BY DEF Frame, LoadOpen, LoadLate, LoadOk, Attach, NewAttach, Forward, Change, CloseDone,
         SendPrompt, AnswerById, DeclineCopy, AnswerCopy, HostOnly, deviceVars

LEMMA ConnStepIsStep ==
  ASSUME UpTyped, [ConnNext]_vars
  PROVE  [Next]_hostVars /\ UpTyped'
  <1>1. ASSUME NEW c \in up, Frame(c) PROVE [Next]_hostVars /\ UpTyped'
    BY <1>1, FrameIsStep, FrameKeepsUp, DevicesAssumption DEF UpTyped
  <1>2. ASSUME NEW c \in Devices, TakeEvent(c) PROVE [Next]_hostVars /\ UpTyped'
    BY <1>2, TakeKeeps, DevicesAssumption DEF UpTyped
  <1>3. ASSUME NEW c \in Devices, Connect(c) \/ Disconnect(c) PROVE [Next]_hostVars /\ UpTyped'
    BY <1>3 DEF Connect, Disconnect, UpTyped
  <1>6. ASSUME NEW c \in Clients \ Devices, Contract(c) PROVE [Next]_hostVars /\ UpTyped'
    BY <1>6 DEF Contract, HostOnly, deviceVars, Next, UpTyped
  <1>4. CASE (AgentStep \/ RemoveStep) /\ HostOnly
    BY <1>4 DEF Next, HostOnly, deviceVars, UpTyped
  <1>5. CASE UNCHANGED vars
    BY <1>5 DEF vars, deviceVars, UpTyped
  <1> QED
    BY <1>1, <1>2, <1>3, <1>4, <1>5, <1>6 DEF ConnNext

\* The host with its connections implements the host: every behaviour of
\* connections, their devices and their queues is one of the host core.
THEOREM Implements == ConnSpec => Spec
  <1>1. ConnInit => Init /\ UpTyped
    BY DEF ConnInit, UpTyped
  <1>2. UpTyped /\ [ConnNext]_vars => [Next]_hostVars /\ UpTyped'
    BY ConnStepIsStep
  <1> QED
    BY <1>1, <1>2, PTL DEF ConnSpec, Spec

\* Whatever connections do, answer or miss, pending requests have ids and tool
\* calls of their own and none outlives its turn; and no session is half open
\* but in the hands of the call that opens it.
THEOREM HostPromises ==
  ConnSpec => [](PendingTurnRuns /\ PendingUnique /\ OpeningHeld /\ OpeningIdle)
  BY Implements, PendingSound, OpeningsHeld, PTL

\* And while clients load sessions and strays have room (RecordsWhole), a record
\* has all of its conversation whatever connections do.
THEOREM RecordsStayWhole ==
  ASSUME ~ListsEarly, Opens \subseteq {"load"}
  PROVE  ConnSpec /\ []StraysRoom => []RecordWhole
  BY Implements, RecordsWhole, PTL

-----------------------------------------------------------------------------
(* What a step of the host says *)

TurnSaid == [type : {"running", "ended"}, key : Key, of : Turns, who : {None}]
AnswerSaid == [type : {"answered"}, key : Key, of : Turns, who : Clients \cup {None}]
UpdateSaid == [type : {"update"}, key : Key, of : Entry, who : Clients \cup {None}]
QuietSaid == [type : {"added", "resolved"}, key : Key, of : Asks, who : {None}]
             \cup [type : {"closed"}, key : Key, of : {None}, who : {None}]
Said == TurnSaid \cup AnswerSaid \cup UpdateSaid \cup QuietSaid
Stamped == [seq : Nat, event : Said]

\* Events of their kinds, numbered on from the last.
Numbered == /\ out' \in Seq(Stamped)
            /\ seq' = seq + Len(out')
            /\ \A i \in 1..Len(out') : out'[i].seq = seq + i

LEMMA EmitSaid ==
  ASSUME seq \in Nat, NEW events \in Seq(Said), Emit(events)
  PROVE  /\ Numbered
         /\ Len(out') = Len(events)
         /\ DOMAIN out' = 1..Len(events)
         /\ \A i \in 1..Len(events) : out'[i].event = events[i]
  <1>1. Len(events) \in Nat /\ DOMAIN events = 1..Len(events)
    BY LenProperties
  <1>2. \A i \in 1..Len(events) : events[i] \in Said
    BY ElementOfSeq
  <1> DEFINE n == Len(events)
             e(i) == [seq |-> seq + i, event |-> events[i]]
  <1>3. \A i \in 1..n : e(i) \in Stamped
    BY <1>1, <1>2 DEF Stamped
  <1>4. out' = [i \in 1..n |-> e(i)] /\ seq' = seq + n
    BY <1>1 DEF Emit
  <1>5. \A i \in 1..n : e(i).seq = seq + i /\ e(i).event = events[i]
    OBVIOUS
  <1> HIDE DEF n, e
  <1>6. n \in Nat
    BY <1>1 DEF n
  <1>7. out' \in Seq(Stamped)
    BY <1>3, <1>4, <1>6, IsASeq
  <1>8. Len(out') = n /\ DOMAIN out' = 1..n
    BY <1>4, <1>6, <1>7, LenProperties
  <1> QED
    BY <1>4, <1>5, <1>7, <1>8 DEF Numbered, n

LEMMA ResolvedSaid ==
  ASSUME TypeOK, NEW R \in SUBSET Pending
  PROVE  ResolvedEvents(R) \in Seq(QuietSaid)
  <1> DEFINE s == SetToSeq(R)
             n == Cardinality(R)
             e(i) == ResolvedEvent(s[i])
  <1>1. IsFiniteSet(R)
    BY FS_Subset, HostAssumption DEF HostAssumption, Pending
  <1>2. s \in [1..n -> R] /\ n \in Nat
    BY <1>1, SetToSeqTyped
  <1>3. \A a \in R : ResolvedEvent(a) \in QuietSaid
    BY DEF ResolvedEvent, Event, QuietSaid, AskType, Pending, TypeOK
  <1>4. \A i \in 1..n : e(i) \in QuietSaid
    BY <1>2, <1>3
  <1> HIDE DEF e
  <1>5. [i \in 1..n |-> e(i)] \in Seq(QuietSaid)
    BY <1>2, <1>4, IsASeq
  <1> QED
    BY <1>2, <1>5 DEF ResolvedEvents, Each, e

LEMMA ClosedSaid ==
  ASSUME NEW K \in SUBSET Key
  PROVE  Each(K, ClosedEvent) \in Seq(QuietSaid)
  <1> DEFINE s == SetToSeq(K)
             n == Cardinality(K)
             e(i) == ClosedEvent(s[i])
  <1>1. IsFiniteSet(K)
    BY FS_Subset, KeyFinite
  <1>2. s \in [1..n -> K] /\ n \in Nat
    BY <1>1, SetToSeqTyped
  <1>3. \A k \in K : ClosedEvent(k) \in QuietSaid
    BY DEF ClosedEvent, Event, QuietSaid
  <1>4. \A i \in 1..n : e(i) \in QuietSaid
    BY <1>2, <1>3
  <1> HIDE DEF e
  <1>5. [i \in 1..n |-> e(i)] \in Seq(QuietSaid)
    BY <1>2, <1>4, IsASeq
  <1> QED
    BY <1>2, <1>5 DEF Each, e

\* Steps that say nothing of a turn or an update.
Quietly == /\ UNCHANGED turn
           /\ \E events \in Seq(QuietSaid) : Emit(events)
\* Steps that record one update, and say so if its session is open.
Updating == \E k \in Key, u \in Entry, who \in Clients \cup {None} :
               /\ UNCHANGED <<turn, closing>>
               /\ Record(k, u)
               /\ Emit(UpdateEvents(k, u, who))

LEMMA SilentQuietly == ASSUME Silent, UNCHANGED turn PROVE Quietly
  <1>1. <<>> \in Seq(QuietSaid)
    BY EmptySeq
  <1> QED
    BY <1>1 DEF Quietly, Silent

LEMMA UpdateOne ==
  ASSUME UnusedUpdates # {}
  PROVE  One(UnusedUpdates) \in Entry
  BY OneOf DEF UnusedUpdates, Entry

LEMMA CloseQuietly ==
  ASSUME CoreInv, NEW c \in Clients, CloseOk(c)
  PROVE  Quietly
  <1> DEFINE k == op[c].key
             told == ResolvedEvents(PendingOf(k))
  <1>1. k \in Key
    BY DEF CloseOk, CoreInv, TypeOK, OpType, IdleOp
  <1>2. told \in Seq(QuietSaid)
    BY ResolvedSaid DEF PendingOf, CoreInv
  <1>3. ClosedEvent(k) \in QuietSaid
    BY <1>1 DEF ClosedEvent, Event, QuietSaid
  <1>4. Emit(Append(told, ClosedEvent(k))) /\ UNCHANGED turn
    BY DEF CloseOk
  <1> HIDE DEF k, told
  <1>5. Append(told, ClosedEvent(k)) \in Seq(QuietSaid)
    BY <1>2, <1>3, AppendProperties
  <1> QED
    BY <1>4, <1>5 DEF Quietly

LEMMA RemoveQuietly ==
  ASSUME CoreInv, NEW ag \in Agents, RemoveSessions(ag)
  PROVE  Quietly
  <1> DEFINE mine == {k \in Held : AgentOf(k) = ag}
             left == UNION {PendingOf(k) : k \in mine}
             told == ResolvedEvents(left)
             then == Each(mine, ClosedEvent)
  <1>1. Emit(told \o then) /\ UNCHANGED turn
    BY DEF RemoveSessions
  <1>2. told \in Seq(QuietSaid)
    BY ResolvedSaid DEF PendingOf, CoreInv
  <1>3. then \in Seq(QuietSaid)
    BY ClosedSaid DEF Held
  <1> HIDE DEF told, then
  <1>4. told \o then \in Seq(QuietSaid)
    BY <1>2, <1>3, ConcatProperties
  <1> QED
    BY <1>1, <1>4 DEF Quietly

LEMMA ClientQuietly ==
  ASSUME CoreInv, NEW c \in Clients, ClientCall(c) \/ ClientStep(c) \/ ClientAnswer(c)
  PROVE  Quietly \/ Updating \/ \E k \in Key : Prompt(c, k)
  <1> USE DEF CoreInv
  <1>1. ASSUME NEW k \in Key, Cancel(c, k) PROVE Quietly
    <2>1. ResolvedEvents(PendingOf(k)) \in Seq(QuietSaid)
      BY ResolvedSaid DEF PendingOf
    <2> QED
      BY <1>1, <2>1 DEF Cancel, Quietly
  <1>2. CASE ClientCall(c)
    BY <1>1, <1>2, SilentQuietly
    DEF ClientCall, NewBegin, OpenFromRecord, OpenWait, ChangeBegin
  <1>3. CASE ClientAnswer(c)
    <2>1. PICK a \in Pending, outcome \in {"selected", "cancelled"} : Resolve(a, outcome) /\ UNCHANGED turn
      BY <1>3 DEF ClientAnswer, Answer
    <2>2. ResolvedEvents({a}) \in Seq(QuietSaid)
      BY ResolvedSaid
    <2> QED
      BY <2>1, <2>2 DEF Resolve, Quietly
  <1>4. CASE ModeOk(c)
    <2>1. op[c].key \in Key
      BY <1>4 DEF ModeOk, TypeOK, OpType, IdleOp
    <2> QED
      BY <1>4, <2>1, UpdateOne DEF ModeOk, Updating
  <1>5. CASE CloseOk(c)
    BY <1>5, CloseQuietly
  <1>6. CASE \/ NewAnswered(c) \/ OpenLate(c) \/ OpenInAgent(c) \/ OpenOk(c)
             \/ OpenErr(c) \/ ChangeErr(c)
    BY <1>6, SilentQuietly
    DEF NewAnswered, NewOk, NewErr, OpenLate, OpenInAgent, OpenOk, OpenErr, ChangeErr
  <1> QED
    BY <1>2, <1>3, <1>4, <1>5, <1>6 DEF ClientStep

LEMMA AgentQuietly ==
  ASSUME CoreInv, AgentStep \/ RemoveStep
  PROVE  Quietly \/ Updating \/ \E t \in Turns : End(t)
  <1> USE DEF CoreInv
  <1>1. ASSUME NEW a \in Asks, Withdraw(a) PROVE Quietly
    <2>1. ResolvedEvents({a}) \in Seq(QuietSaid)
      BY <1>1, ResolvedSaid DEF Withdraw
    <2> QED
      BY <1>1, <2>1 DEF Withdraw, Resolve, Quietly
  <1>2. ASSUME NEW k \in Key, AgentUpdates(k) PROVE Updating
    BY <1>2, UpdateOne DEF AgentUpdates, Updating
  <1>3. ASSUME NEW k \in Key, ChangedElsewhere(k) \/ CloseArrives(k) PROVE Quietly
    BY <1>3, SilentQuietly DEF ChangedElsewhere, CloseArrives
  <1>4. ASSUME NEW k \in Key, NEW call \in Calls, AskPermission(k, call) PROVE Quietly
    <2> DEFINE a == One(UnusedAsks)
               told == ResolvedEvents(SameCall(k, call))
               added == Event("added", k, a, None)
    <2>1. UNCHANGED turn /\ (Silent \/ Emit(Append(told, added)))
      BY <1>4 DEF AskPermission
    <2>2. told \in Seq(QuietSaid)
      BY ResolvedSaid DEF SameCall, PendingOf
    <2>3. a \in Asks
      BY <1>4, OneOf DEF AskPermission, UnusedAsks
    <2>4. added \in QuietSaid
      BY <2>3 DEF Event, QuietSaid
    <2> HIDE DEF told, added
    <2>5. Append(told, added) \in Seq(QuietSaid)
      BY <2>2, <2>4, AppendProperties
    <2> QED
      BY <2>1, <2>5, SilentQuietly DEF Quietly
  <1>5. CASE RemoveFromRoster
    BY <1>5, SilentQuietly DEF RemoveFromRoster
  <1>6. ASSUME NEW ag \in Agents, RemoveSessions(ag) PROVE Quietly
    BY <1>6, RemoveQuietly
  <1> QED
    BY <1>1, <1>2, <1>3, <1>4, <1>5, <1>6 DEF AgentStep, RemoveStep
LEMMA QuietSays ==
  ASSUME TypeOK, Quietly
  PROVE  Numbered /\ \A i \in DOMAIN out' : out'[i].event \in QuietSaid
  <1>1. PICK events \in Seq(QuietSaid) : Emit(events)
    BY DEF Quietly
  <1>2. events \in Seq(Said) /\ \A i \in 1..Len(events) : events[i] \in QuietSaid
    BY ElementOfSeq, SeqMonotonic DEF Said
  <1> QED
    BY <1>1, <1>2, EmitSaid DEF TypeOK

\* An update is said once, with what was recorded, or its session is not open.
LEMMA UpdateSays ==
  ASSUME TypeOK, NEW k \in Key, NEW u \in Entry, NEW who \in Clients \cup {None},
         Emit(UpdateEvents(k, u, who))
  PROVE  /\ Numbered
         /\ IsOpen(k) => DOMAIN out' = {1} /\ out'[1].event = Event("update", k, u, who)
         /\ ~IsOpen(k) => DOMAIN out' = {}
  <1>1. CASE IsOpen(k)
    <2> DEFINE e == Event("update", k, u, who)
    <2>1. Emit(<<e>>)
      BY <1>1 DEF UpdateEvents
    <2>2. e \in Said
      BY DEF Event, Said, UpdateSaid
    <2> HIDE DEF e
    <2>3. <<e>> \in Seq(Said) /\ Len(<<e>>) = 1 /\ <<e>>[1] = e /\ 1..1 = {1}
      BY <2>2
    <2>4. Numbered /\ DOMAIN out' = {1} /\ out'[1].event = e
      BY <2>1, <2>3, EmitSaid DEF TypeOK
    <2> QED
      BY <1>1, <2>4 DEF e
  <1>2. CASE ~IsOpen(k)
    <2>1. Emit(<<>>)
      BY <1>2 DEF UpdateEvents
    <2>2. <<>> \in Seq(Said) /\ Len(<<>>) = 0 /\ 1..0 = {}
      BY EmptySeq
    <2> QED
      BY <1>2, <2>1, <2>2, EmitSaid DEF TypeOK
  <1> QED
    BY <1>1, <1>2

LEMMA PromptSays ==
  ASSUME CoreInv, NEW c \in Clients, NEW k \in Key, Prompt(c, k)
  PROVE  LET t == One(UnusedTurns)
         IN  /\ Numbered /\ DOMAIN out' = {1, 2} /\ t \in UnusedTurns
             /\ out'[1].event = Event("running", k, t, None)
             /\ out'[2].event = Event("update", k, t, c)
  <1> DEFINE t == One(UnusedTurns)
             e == Event("running", k, t, None)
             f == Event("update", k, t, c)
  <1>1. t \in UnusedTurns /\ t \in Turns
    BY OneOf DEF Prompt, UnusedTurns
  <1>2. Emit(<<e, f>>)
    BY DEF Prompt
  <1>3. e \in Said /\ f \in Said
    BY <1>1 DEF Event, Said, TurnSaid, UpdateSaid, Entry
  <1> HIDE DEF e, f
  <1>4. /\ <<e, f>> \in Seq(Said) /\ Len(<<e, f>>) = 2 /\ 1..2 = {1, 2}
        /\ <<e, f>>[1] = e /\ <<e, f>>[2] = f
    BY <1>3
  <1>5. Numbered /\ DOMAIN out' = {1, 2} /\ out'[1].event = e /\ out'[2].event = f
    BY <1>2, <1>4, EmitSaid DEF CoreInv, TypeOK
  <1> QED
    BY <1>1, <1>5 DEF e, f

\* A turn's end: what it left is resolved, its prompt answered, its end told.
LEMMA EndSays ==
  ASSUME CoreInv, NEW t \in Turns, End(t)
  PROVE  LET k    == turn[t].key
             slot == sess[k].turn
             who  == IF slot = None THEN None ELSE turn[slot].client
         IN  /\ k \in Key /\ who \in Clients \cup {None}
             /\ Numbered
             /\ \E n \in Nat :
                   /\ DOMAIN out' = 1..(n + 2)
                   /\ \A i \in 1..n : out'[i].event \in QuietSaid
                   /\ out'[n + 1].event = Event("answered", k, t, who)
                   /\ out'[n + 2].event = Event("ended", k, t, None)
  <1> DEFINE k    == turn[t].key
             slot == sess[k].turn
             who  == IF slot = None THEN None ELSE turn[slot].client
             told == ResolvedEvents(LeftBy(t))
             e    == Event("answered", k, t, who)
             f    == Event("ended", k, t, None)
  <1>1. k \in Key
    BY DEF End, Running, CoreInv, TypeOK, TurnType
  <1>2. who \in Clients \cup {None}
    <2>1. slot \in Turns \cup {None} /\ (slot # None => slot \in Running)
      BY <1>1 DEF CoreInv, TypeOK, SessType, SlotOK
    <2> QED
      BY <2>1 DEF Running, CoreInv, TypeOK, TurnType
  <1>3. Emit(told \o <<e, f>>)
    BY DEF End, EndEvents
  <1>4. told \in Seq(QuietSaid)
    BY ResolvedSaid DEF LeftBy, CoreInv
  <1>5. e \in Said /\ f \in Said
    BY <1>1, <1>2 DEF Event, Said, TurnSaid, AnswerSaid
  <1> HIDE DEF k, who, told, e, f
  <1>6. told \in Seq(Said) /\ Len(told) \in Nat /\ \A i \in 1..Len(told) : told[i] \in QuietSaid
    BY <1>4, ElementOfSeq, LenProperties, SeqMonotonic DEF Said
  <1>7. /\ <<e, f>> \in Seq(Said) /\ Len(<<e, f>>) = 2
        /\ <<e, f>>[1] = e /\ <<e, f>>[2] = f
    BY <1>5
  <1> DEFINE events == told \o <<e, f>>
             n == Len(told)
  <1>8. /\ events \in Seq(Said) /\ Len(events) = n + 2
        /\ \A i \in 1..n : events[i] \in QuietSaid
        /\ events[n + 1] = e /\ events[n + 2] = f
    <2>1. /\ events \in Seq(Said) /\ Len(events) = n + Len(<<e, f>>)
          /\ \A i \in 1..(n + Len(<<e, f>>)) :
                events[i] = IF i <= n THEN told[i] ELSE <<e, f>>[i - n]
      BY <1>6, <1>7, ConcatProperties
    <2> DEFINE ef == <<e, f>>
    <2>2. n \in Nat /\ (n + 1) - n = 1 /\ (n + 2) - n = 2 /\ ef[1] = e /\ ef[2] = f /\ Len(ef) = 2
      BY <1>6, <1>7
    <2> HIDE DEF events, n, ef
    <2>3. /\ events \in Seq(Said) /\ Len(events) = n + 2
          /\ \A i \in 1..(n + 2) : events[i] = IF i <= n THEN told[i] ELSE ef[i - n]
      BY <2>1, <2>2 DEF ef
    <2>4. \A i \in 1..n : events[i] \in QuietSaid
      BY <1>6, <2>2, <2>3 DEF n
    <2>5. n + 1 \in 1..(n + 2) /\ n + 2 \in 1..(n + 2) /\ ~(n + 1 <= n) /\ ~(n + 2 <= n)
      BY <2>2
    <2>6. events[n + 1] = ef[(n + 1) - n] /\ events[n + 2] = ef[(n + 2) - n]
      BY <2>3, <2>5
    <2> QED
      BY <2>2, <2>3, <2>4, <2>6
  <1> HIDE DEF events, n
  <1>9. n \in Nat
    BY <1>6 DEF n
  <1>10. Emit(events)
    BY <1>3 DEF events
  <1>11. /\ Numbered /\ DOMAIN out' = 1..(n + 2)
         /\ \A i \in 1..(n + 2) : out'[i].event = events[i]
    BY <1>8, <1>10, EmitSaid DEF CoreInv, TypeOK
  <1>12. n + 1 \in 1..(n + 2) /\ n + 2 \in 1..(n + 2) /\ \A i \in 1..n : i \in 1..(n + 2)
    BY <1>9
  <1>13. /\ \A i \in 1..n : out'[i].event \in QuietSaid
         /\ out'[n + 1].event = e /\ out'[n + 2].event = f
    BY <1>8, <1>11, <1>12
  <1> QED
    BY <1>1, <1>2, <1>9, <1>11, <1>13 DEF k, who, e, f

\* The end of t; the answer to c's prompt of t.
EndOf(e, t) == e.type = "ended" /\ e.of = t
AnswerTo(e, t, c) == e.type = "answered" /\ e.of = t /\ e.who = c

\* A turn that was begun stays its client's, in its session, and is never begun
\* again; a step in which it ends says so, and says so once it has ended.
TurnsTold ==
  /\ \A t \in Turns : turn[t].state # "none" =>
        /\ turn'[t].key = turn[t].key /\ turn'[t].client = turn[t].client
        /\ turn'[t].state # "none"
        /\ turn[t].state = "ended" => turn'[t].state = "ended"
  /\ \A t \in Running \ Running' : \E i \in DOMAIN out' : EndOf(out'[i].event, t)
  /\ \A t \in Turns : \A i \in DOMAIN out' : EndOf(out'[i].event, t) =>
        t \in Running /\ turn'[t].state = "ended"

\* Its prompt's answer comes before it, as long as its slot is its own.
EndAnswered ==
  \A t \in Turns : \A i \in DOMAIN out' :
     EndOf(out'[i].event, t) /\ sess[turn[t].key].turn = t =>
        \E j \in 1..(i - 1) : j \in DOMAIN out' /\ AnswerTo(out'[j].event, t, turn[t].client)

LEMMA EndTold ==
  ASSUME CoreInv, NEW t \in Turns, End(t)
  PROVE  Numbered /\ TurnsTold /\ EndAnswered
  <1> DEFINE k    == turn[t].key
             slot == sess[k].turn
             who  == IF slot = None THEN None ELSE turn[slot].client
  <1>1. PICK n \in Nat :
           /\ DOMAIN out' = 1..(n + 2)
           /\ \A i \in 1..n : out'[i].event \in QuietSaid
           /\ out'[n + 1].event = Event("answered", k, t, who)
           /\ out'[n + 2].event = Event("ended", k, t, None)
    BY EndSays
  <1>2. t \in Running /\ turn' = [turn EXCEPT ![t].state = "ended"]
    BY DEF End
  <1>3. /\ turn'[t].key = turn[t].key /\ turn'[t].client = turn[t].client
        /\ turn'[t].state = "ended"
        /\ \A u \in Turns \ {t} : turn'[u] = turn[u]
    BY <1>2 DEF CoreInv, TypeOK, TurnType, Running
  <1>4. \A e \in QuietSaid : e.type # "ended"
    BY DEF QuietSaid
  <1>5. \A i \in DOMAIN out' : out'[i].event.type = "ended" => i = n + 2
    <2> SUFFICES ASSUME NEW i \in 1..(n + 2), out'[i].event.type = "ended" PROVE i = n + 2
      BY <1>1
    <2>1. i \notin 1..n
      BY <1>1, <1>4
    <2>2. i # n + 1
      BY <1>1 DEF Event
    <2> QED
      BY <2>1, <2>2
  <1>6. EndOf(out'[n + 2].event, t) /\ \A u : EndOf(out'[n + 2].event, u) => u = t
    BY <1>1 DEF EndOf, Event
  <1>7. n + 2 \in DOMAIN out' /\ n + 1 \in DOMAIN out' /\ n + 1 \in 1..((n + 2) - 1)
    BY <1>1
  <1>8. TurnsTold
    <2>1. \A u \in Running \ Running' : u = t
      BY <1>3 DEF Running
    <2>2. \A u \in Turns : \A i \in DOMAIN out' : EndOf(out'[i].event, u) => u = t
      BY <1>5, <1>6 DEF EndOf
    <2>3. turn[t].state = "running"
      BY <1>2 DEF Running
    <2> QED
      BY <1>2, <1>3, <1>6, <1>7, <2>1, <2>2, <2>3 DEF TurnsTold
  <1>9. EndAnswered
    <2> SUFFICES ASSUME NEW u \in Turns, NEW i \in DOMAIN out', EndOf(out'[i].event, u),
                        sess[turn[u].key].turn = u
                 PROVE  \E j \in 1..(i - 1) :
                           j \in DOMAIN out' /\ AnswerTo(out'[j].event, u, turn[u].client)
      BY DEF EndAnswered
    <2>1. i = n + 2 /\ u = t
      BY <1>5, <1>6 DEF EndOf
    <2>2. t # None
      BY HostAssumption DEF HostAssumption
    <2>3. who = turn[t].client
      BY <2>1, <2>2
    <2>4. AnswerTo(out'[n + 1].event, t, turn[t].client)
      BY <1>1, <2>3 DEF AnswerTo, Event
    <2> QED
      BY <1>7, <2>1, <2>4
  <1> QED
    BY <1>8, <1>9, EndSays

\* Whatever a step of the host says, it says in order and tells every end.
LEMMA StepTold ==
  ASSUME CoreInv, Next
  PROVE  Numbered /\ TurnsTold /\ EndAnswered
  <1>1. ASSUME Numbered, UNCHANGED turn, \A i \in DOMAIN out' : out'[i].event.type # "ended"
        PROVE  Numbered /\ TurnsTold /\ EndAnswered
    BY <1>1 DEF TurnsTold, EndAnswered, EndOf, Running
  <1>2. CASE Quietly
    <2>1. \A e \in QuietSaid : e.type # "ended"
      BY DEF QuietSaid
    <2> QED
      BY <1>1, <1>2, <2>1, QuietSays DEF Quietly, CoreInv
  <1>3. CASE Updating
    <2>1. PICK k \in Key, u \in Entry, who \in Clients \cup {None} :
             UNCHANGED turn /\ Emit(UpdateEvents(k, u, who))
      BY <1>3 DEF Updating
    <2>2. /\ Numbered
          /\ DOMAIN out' = {} \/ (DOMAIN out' = {1} /\ out'[1].event = Event("update", k, u, who))
      BY <2>1, UpdateSays DEF CoreInv
    <2>3. \A i \in DOMAIN out' : out'[i].event.type # "ended"
      BY <2>2 DEF Event
    <2> QED
      BY <1>1, <2>1, <2>2, <2>3
  <1>4. ASSUME NEW c \in Clients, NEW k \in Key, Prompt(c, k)
        PROVE  Numbered /\ TurnsTold /\ EndAnswered
    <2> DEFINE t == One(UnusedTurns)
    <2>0. /\ Numbered /\ t \in UnusedTurns /\ DOMAIN out' = {1, 2}
          /\ out'[1].event = Event("running", k, t, None)
          /\ out'[2].event = Event("update", k, t, c)
      BY <1>4, PromptSays
    <2>1. /\ Numbered /\ t \in UnusedTurns
          /\ \A i \in DOMAIN out' : out'[i].event.type # "ended"
      BY <2>0 DEF Event
    <2>2. \A u \in Turns : turn[u].state # "none" => turn'[u] = turn[u]
      BY <1>4, <2>1 DEF Prompt, UnusedTurns, CoreInv, TypeOK
    <2> QED
      BY <2>1, <2>2 DEF TurnsTold, EndAnswered, EndOf, Running
  <1> QED
    BY <1>2, <1>3, <1>4, ClientQuietly, AgentQuietly, EndTold DEF Next
-----------------------------------------------------------------------------
(* What connections keep, and the prompts they sent *)

\* Events wait in the host's order, where a connection is up to take them.
InboxOK ==
  /\ inbox \in [Clients -> Seq(Stamped)]
  /\ \A c \in Clients \ up : inbox[c] = <<>>
  /\ \A c \in Clients :
        /\ \A i \in DOMAIN inbox[c] : inbox[c][i].seq <= seq
        /\ \A i, j \in DOMAIN inbox[c] : i < j => inbox[c][i].seq < inbox[c][j].seq

\* What is kept of devices, for those that are connected.
DevicesOK ==
  /\ up \subseteq Devices
  /\ attached \in [Clients -> [Key -> Nat \cup {None}]]
  /\ copies \in [Clients -> SUBSET Asks]
  /\ prompts \in [Clients -> SUBSET Turns]
  /\ seen \in [Clients -> [Key -> Seq(Entry)]]
  /\ shown \in [Clients -> [Key -> ShownType]]
  /\ outlived \subseteq Clients \X Key
  /\ \A c \in Clients \ up : prompts[c] = {} /\ \A k \in Key : attached[c][k] = None

\* c sent the prompt of t, which runs, or has ended and its end is on its way.
Awaits(c, t) ==
  /\ turn[t].state # "none" /\ turn[t].client = c
  /\ t \in Running \/ \E i \in DOMAIN inbox[c] : EndOf(inbox[c][i].event, t)

\* Only ends of turns that ended are on their way, and only prompts that are
\* owed an end are kept.
PromptsOK ==
  \A c \in Clients :
     /\ \A t \in Turns : \A i \in DOMAIN inbox[c] :
           EndOf(inbox[c][i].event, t) => turn[t].state = "ended"
     /\ \A t \in prompts[c] : Awaits(c, t)

SoundInv == InboxOK /\ DevicesOK /\ PromptsOK

\* What is said comes after what waited.
LEMMA TellEffect ==
  ASSUME InboxOK, Numbered, Tell, NEW c \in Clients, c \in up
  PROVE  /\ inbox'[c] \in Seq(Stamped)
         /\ DOMAIN inbox[c] \subseteq DOMAIN inbox'[c]
         /\ \A i \in DOMAIN inbox[c] : inbox'[c][i] = inbox[c][i] /\ i <= Len(inbox[c])
         /\ \A i \in DOMAIN out' : /\ Len(inbox[c]) + i \in DOMAIN inbox'[c]
                                   /\ inbox'[c][Len(inbox[c]) + i] = out'[i]
         /\ \A i \in DOMAIN inbox'[c] :
               i \in DOMAIN inbox[c] \/ \E j \in DOMAIN out' : i = Len(inbox[c]) + j
         /\ Len(inbox[c]) \in Nat /\ DOMAIN out' \subseteq Nat \ {0}
         /\ DOMAIN inbox'[c] \subseteq Nat \ {0}
  <1> DEFINE old == inbox[c]
             new == out'
             n == Len(old)
             m == Len(new)
  <1>1. old \in Seq(Stamped) /\ new \in Seq(Stamped) /\ inbox'[c] = old \o new
    BY DEF InboxOK, Numbered, Tell
  <1> HIDE DEF old, new
  <1>2. n \in Nat /\ m \in Nat /\ DOMAIN old = 1..n /\ DOMAIN new = 1..m
    BY <1>1, LenProperties
  <1>3. /\ old \o new \in Seq(Stamped) /\ Len(old \o new) = n + m
        /\ \A i \in 1..(n + m) : (old \o new)[i] = IF i <= n THEN old[i] ELSE new[i - n]
    BY <1>1, ConcatProperties
  <1> DEFINE all == old \o new
  <1>4. DOMAIN all = 1..(n + m)
    BY <1>3, LenProperties
  <1> HIDE DEF all, n, m
  <1>5. \A i \in 1..n : all[i] = old[i] /\ i <= n /\ i \in 1..(n + m)
    BY <1>2, <1>3 DEF all, n, m
  <1>6. \A i \in 1..m : n + i \in 1..(n + m) /\ all[n + i] = new[i]
    <2> TAKE i \in 1..m
    <2>1. n + i \in 1..(n + m) /\ ~(n + i <= n) /\ (n + i) - n = i
      BY <1>2
    <2>2. all[n + i] = new[(n + i) - n]
      BY <1>3, <2>1 DEF all, n, m
    <2> QED
      BY <2>1, <2>2
  <1>7. \A i \in 1..(n + m) : i \in 1..n \/ \E j \in 1..m : i = n + j
    <2> TAKE i \in 1..(n + m)
    <2>1. i \in 1..n \/ (i - n \in 1..m /\ i = n + (i - n))
      BY <1>2
    <2> QED
      BY <2>1
  <1>8. all \in Seq(Stamped) /\ inbox'[c] = all
    BY <1>1, <1>3 DEF all
  <1>9. 1..m \subseteq Nat \ {0} /\ 1..(n + m) \subseteq Nat \ {0}
    BY <1>2
  <1> QED
    BY <1>2, <1>4, <1>5, <1>6, <1>7, <1>8, <1>9 DEF old, new, n

LEMMA InboxTold ==
  ASSUME seq \in Nat, InboxOK, DevicesOK, Numbered, Tell, UNCHANGED up
  PROVE  InboxOK'
  <1>1. up \subseteq Clients
    BY DevicesAssumption DEF DevicesOK
  <1>2. \A c \in Clients \ up : inbox'[c] = <<>>
    BY DEF Tell
  <1>3. inbox' \in [Clients -> Seq(Stamped)]
    <2>1. \A c \in Clients : inbox'[c] \in Seq(Stamped)
      BY <1>2, TellEffect, EmptySeq
    <2> QED
      BY <2>1 DEF Tell
  <1>4. Len(out') \in Nat /\ DOMAIN out' = 1..Len(out') /\ seq' >= seq
    <2>1. Len(out') \in Nat /\ DOMAIN out' = 1..Len(out')
      BY LenProperties DEF Numbered
    <2> QED
      BY <2>1 DEF Numbered
  <1>5. \A i \in DOMAIN out' : out'[i].seq > seq /\ out'[i].seq <= seq'
    <2> TAKE i \in DOMAIN out'
    <2>1. out'[i].seq = seq + i /\ seq' = seq + Len(out')
      BY <1>4 DEF Numbered
    <2> QED
      BY <1>4, <2>1
  <1>6. \A i, j \in DOMAIN out' : i < j => out'[i].seq < out'[j].seq
    <2> TAKE i, j \in DOMAIN out'
    <2>1. out'[i].seq = seq + i /\ out'[j].seq = seq + j
      BY <1>4 DEF Numbered
    <2> QED
      BY <1>4, <2>1
  <1>7. ASSUME NEW c \in up
        PROVE  /\ \A i \in DOMAIN inbox'[c] : inbox'[c][i].seq <= seq'
               /\ \A i, j \in DOMAIN inbox'[c] : i < j => inbox'[c][i].seq < inbox'[c][j].seq
    <2> DEFINE n == Len(inbox[c])
    <2>1. /\ \A i \in DOMAIN inbox[c] : inbox'[c][i] = inbox[c][i] /\ i <= n
          /\ \A i \in DOMAIN out' : inbox'[c][n + i] = out'[i]
          /\ \A i \in DOMAIN inbox'[c] : i \in DOMAIN inbox[c] \/ \E j \in DOMAIN out' : i = n + j
          /\ n \in Nat /\ DOMAIN out' \subseteq Nat \ {0}
      BY <1>1, <1>7, TellEffect
    <2>2. /\ \A i \in DOMAIN inbox[c] : inbox[c][i].seq <= seq /\ inbox[c][i].seq \in Nat
          /\ \A i, j \in DOMAIN inbox[c] : i < j => inbox[c][i].seq < inbox[c][j].seq
      <3>1. c \in Clients /\ inbox[c] \in Seq(Stamped)
        BY <1>1, <1>7 DEF InboxOK
      <3>2. \A i \in DOMAIN inbox[c] : inbox[c][i] \in Stamped
        BY <3>1, ElementOfSeq, LenProperties
      <3> QED
        BY <3>1, <3>2 DEF InboxOK, Stamped
    <2>3. \A i \in DOMAIN out' : out'[i].seq \in Nat
      BY <1>4, ElementOfSeq DEF Numbered, Stamped
    <2> HIDE DEF n
    <2>4. seq' \in Nat
      BY <1>4 DEF Numbered
    <2>5. \A i \in DOMAIN inbox'[c] : inbox'[c][i].seq <= seq'
      BY <1>4, <1>5, <2>1, <2>2, <2>3, <2>4
    <2>6. ASSUME NEW i \in DOMAIN inbox'[c], NEW j \in DOMAIN inbox'[c], i < j
          PROVE  inbox'[c][i].seq < inbox'[c][j].seq
      <3>1. CASE i \in DOMAIN inbox[c] /\ j \in DOMAIN inbox[c]
        BY <2>1, <2>2, <2>6, <3>1
      <3>2. ASSUME i \in DOMAIN inbox[c], NEW b \in DOMAIN out', j = n + b
            PROVE  inbox'[c][i].seq < inbox'[c][j].seq
        <4>1. inbox'[c][i].seq <= seq /\ inbox'[c][j].seq > seq
          BY <1>5, <2>1, <2>2, <3>2
        <4> QED
          BY <2>1, <2>2, <2>3, <3>2, <4>1
      <3>3. ASSUME NEW a \in DOMAIN out', NEW b \in DOMAIN out', i = n + a, j = n + b
            PROVE  inbox'[c][i].seq < inbox'[c][j].seq
        <4>1. a < b
          BY <2>1, <2>6, <3>3
        <4> QED
          BY <1>6, <2>1, <3>3, <4>1
      <3>4. ASSUME NEW a \in DOMAIN out', i = n + a, j \in DOMAIN inbox[c] PROVE FALSE
        <4>1. j <= n /\ a > 0 /\ j \in Nat
          BY <2>1, <3>4, LenProperties, <1>1, <1>7 DEF InboxOK
        <4> QED
          BY <2>1, <2>6, <3>4, <4>1
      <3> QED
        BY <2>1, <2>6, <3>1, <3>2, <3>3, <3>4
    <2> QED
      BY <2>5, <2>6
  <1>8. ASSUME NEW c \in Clients \ up
        PROVE  /\ \A i \in DOMAIN inbox'[c] : inbox'[c][i].seq <= seq'
               /\ \A i, j \in DOMAIN inbox'[c] : i < j => inbox'[c][i].seq < inbox'[c][j].seq
    <2>1. DOMAIN inbox'[c] = {}
      BY <1>2, <1>8
    <2> QED
      BY <2>1
  <1> QED
    BY <1>2, <1>3, <1>7, <1>8 DEF InboxOK
LEMMA TakeEffect ==
  ASSUME InboxOK, NEW c \in Clients, inbox[c] # <<>>, inbox' = [inbox EXCEPT ![c] = Tail(@)]
  PROVE  /\ inbox'[c] \in Seq(Stamped)
         /\ 1 \in DOMAIN inbox[c] /\ Head(inbox[c]) = inbox[c][1] /\ inbox[c][1] \in Stamped
         /\ DOMAIN inbox[c] \subseteq Nat \ {0} /\ DOMAIN inbox'[c] \subseteq Nat \ {0}
         /\ \A i \in DOMAIN inbox'[c] : i + 1 \in DOMAIN inbox[c] /\ inbox'[c][i] = inbox[c][i + 1]
         /\ \A i \in DOMAIN inbox[c] : i = 1 \/ i - 1 \in DOMAIN inbox'[c]
         /\ \A d \in Clients \ {c} : inbox'[d] = inbox[d]
  <1>1. inbox[c] \in Seq(Stamped) /\ inbox'[c] = Tail(inbox[c])
    BY DEF InboxOK
  <1>2. \A d \in Clients \ {c} : inbox'[d] = inbox[d]
    BY DEF InboxOK
  <1> DEFINE s == inbox[c]
             n == Len(s)
  <1> HIDE DEF s
  <1>3. /\ n \in Nat /\ n # 0 /\ DOMAIN s = 1..n
        /\ Head(s) = s[1] /\ Tail(s) \in Seq(Stamped) /\ Len(Tail(s)) = n - 1
        /\ DOMAIN Tail(s) = 1..(n - 1)
        /\ \A i \in 1..(n - 1) : Tail(s)[i] = s[i + 1]
        /\ s[1] \in Stamped
    BY <1>1 DEF s
  <1> HIDE DEF n
  <1>4. /\ \A i \in 1..(n - 1) : i + 1 \in 1..n
        /\ \A i \in 1..n : i = 1 \/ i - 1 \in 1..(n - 1)
        /\ 1 \in 1..n /\ 1..n \subseteq Nat \ {0} /\ 1..(n - 1) \subseteq Nat \ {0}
    BY <1>3
  <1> QED
    BY <1>1, <1>2, <1>3, <1>4 DEF s

LEMMA InboxTaken ==
  ASSUME seq \in Nat, InboxOK, NEW c \in Clients, inbox[c] # <<>>, UNCHANGED <<seq, up>>,
         inbox' = [inbox EXCEPT ![c] = Tail(@)]
  PROVE  InboxOK'
  <1>1. /\ inbox'[c] \in Seq(Stamped)
        /\ DOMAIN inbox[c] \subseteq Nat \ {0} /\ DOMAIN inbox'[c] \subseteq Nat \ {0}
        /\ \A i \in DOMAIN inbox'[c] : i + 1 \in DOMAIN inbox[c] /\ inbox'[c][i] = inbox[c][i + 1]
        /\ \A d \in Clients \ {c} : inbox'[d] = inbox[d]
    BY TakeEffect
  <1>2. inbox' \in [Clients -> Seq(Stamped)] /\ c \in up
    BY <1>1 DEF InboxOK
  <1>3. /\ \A i \in DOMAIN inbox'[c] : inbox'[c][i].seq <= seq'
        /\ \A i, j \in DOMAIN inbox'[c] : i < j => inbox'[c][i].seq < inbox'[c][j].seq
    <2>1. \A i \in DOMAIN inbox'[c] : inbox'[c][i].seq <= seq'
      BY <1>1 DEF InboxOK
    <2>2. ASSUME NEW i \in DOMAIN inbox'[c], NEW j \in DOMAIN inbox'[c], i < j
          PROVE  inbox'[c][i].seq < inbox'[c][j].seq
      <3>1. i + 1 < j + 1
        BY <1>1, <2>2
      <3> QED
        BY <1>1, <3>1 DEF InboxOK
    <2> QED
      BY <2>1, <2>2
  <1> QED
    BY <1>1, <1>2, <1>3 DEF InboxOK

\* Whatever the host says, prompts that were kept are owed an end.
LEMMA PromptsTold ==
  ASSUME SoundInv, Numbered, TurnsTold, Tell, UNCHANGED up,
         NEW c \in Clients, \A t \in prompts'[c] \ prompts[c] : Awaits(c, t)'
  PROVE  /\ \A t \in Turns : \A i \in DOMAIN inbox'[c] :
               EndOf(inbox'[c][i].event, t) => turn'[t].state = "ended"
         /\ \A t \in prompts'[c] : Awaits(c, t)'
  <1>1. CASE c \notin up
    <2>1. inbox'[c] = <<>> /\ prompts[c] = {}
      BY <1>1 DEF Tell, SoundInv, DevicesOK
    <2> QED
      BY <2>1
  <1>2. CASE c \in up
    <2> DEFINE n == Len(inbox[c])
    <2>1. /\ DOMAIN inbox[c] \subseteq DOMAIN inbox'[c]
          /\ \A i \in DOMAIN inbox[c] : inbox'[c][i] = inbox[c][i]
          /\ \A i \in DOMAIN out' : n + i \in DOMAIN inbox'[c] /\ inbox'[c][n + i] = out'[i]
          /\ \A i \in DOMAIN inbox'[c] : i \in DOMAIN inbox[c] \/ \E j \in DOMAIN out' : i = n + j
      BY <1>2, TellEffect DEF SoundInv
    <2> HIDE DEF n
    <2>2. ASSUME NEW t \in Turns, NEW i \in DOMAIN inbox'[c], EndOf(inbox'[c][i].event, t)
          PROVE  turn'[t].state = "ended"
      <3>1. CASE i \in DOMAIN inbox[c]
        <4>1. turn[t].state = "ended"
          BY <2>1, <2>2, <3>1 DEF SoundInv, PromptsOK
        <4> QED
          BY <4>1 DEF TurnsTold
      <3>2. ASSUME NEW j \in DOMAIN out', i = n + j PROVE turn'[t].state = "ended"
        BY <2>1, <2>2, <3>2 DEF TurnsTold
      <3> QED
        BY <2>1, <3>1, <3>2
    <2>3. ASSUME NEW t \in prompts[c] PROVE Awaits(c, t)'
      <3>1. t \in Turns /\ Awaits(c, t)
        BY DEF SoundInv, DevicesOK, PromptsOK
      <3>2. turn'[t].state # "none" /\ turn'[t].client = c
        BY <3>1 DEF Awaits, TurnsTold
      <3>3. CASE \E i \in DOMAIN inbox[c] : EndOf(inbox[c][i].event, t)
        BY <2>1, <3>2, <3>3 DEF Awaits
      <3>4. CASE t \in Running \ Running'
        <4>1. PICK i \in DOMAIN out' : EndOf(out'[i].event, t)
          BY <3>4 DEF TurnsTold
        <4>2. n + i \in DOMAIN inbox'[c] /\ EndOf(inbox'[c][n + i].event, t)
          BY <2>1, <4>1
        <4> QED
          BY <3>2, <4>2 DEF Awaits
      <3> QED
        BY <3>1, <3>2, <3>3, <3>4 DEF Awaits
    <2> QED
      BY <2>2, <2>3
  <1> QED
    BY <1>1, <1>2

\* A turn's own start makes its client await its end.
LEMMA PromptAwaits ==
  ASSUME CoreInv, NEW c \in Clients, NEW k \in Key, Prompt(c, k),
         NEW t, t = One(UnusedTurns)
  PROVE  t \in Turns /\ Awaits(c, t)'
  <1>1. t \in Turns
    BY OneOf DEF Prompt, UnusedTurns
  <1>2. turn' = [turn EXCEPT ![t] = [state |-> "running", key |-> k, client |-> c]]
    BY DEF Prompt
  <1>3. turn'[t] = [state |-> "running", key |-> k, client |-> c]
    BY <1>1, <1>2 DEF CoreInv, TypeOK
  <1> QED
    BY <1>1, <1>3 DEF Awaits, Running

\* A step of the host, told to all, that leaves the connections as they are but
\* for what a device was sent.
LEMMA HostToldSound ==
  ASSUME CoreInv, SoundInv, Next, Tell, UNCHANGED <<up, prompts>>, DevicesOK'
  PROVE  SoundInv'
  <1>1. Numbered /\ TurnsTold
    BY StepTold
  <1>2. InboxOK'
    BY <1>1, InboxTold DEF SoundInv, CoreInv, TypeOK
  <1>3. PromptsOK'
    <2>1. \A c \in Clients : \A t \in prompts'[c] \ prompts[c] : Awaits(c, t)'
      OBVIOUS
    <2> QED
      BY <1>1, <2>1, PromptsTold DEF PromptsOK
  <1> QED
    BY <1>2, <1>3 DEF SoundInv

LEMMA OutliveTyped ==
  ASSUME DevicesOK, NEW now, Outlive(now)
  PROVE  outlived' \subseteq Clients \X Key
  BY DEF DevicesOK, Outlive

LEMMA HostOnlySound ==
  ASSUME CoreInv, SoundInv, Next, HostOnly
  PROVE  SoundInv'
  <1>1. outlived' \subseteq Clients \X Key
    BY OutliveTyped DEF HostOnly, SoundInv
  <1>2. DevicesOK'
    BY <1>1 DEF SoundInv, DevicesOK, HostOnly, deviceVars, sightVars
  <1> QED
    BY <1>2, HostToldSound DEF HostOnly, deviceVars

LEMMA LatestTyped ==
  ASSUME NEW s \in SessType
  PROVE  Latest(s) \in ShownType
  BY DEF Latest, ShownType, SessType

LEMMA AttachSound ==
  ASSUME CoreInv, TypeOK', SoundInv, Next, NEW c \in Clients, c \in up, NEW k \in Key, NEW how,
         Attach(c, k, how)
  PROVE  SoundInv'
  <1>1. outlived' \subseteq Clients \X Key
    BY OutliveTyped DEF Attach, SoundInv
  <1>2. sess'[k] \in SessType /\ seq' \in Nat
    BY DEF TypeOK
  <1>3. Latest(sess'[k]) \in ShownType /\ sess'[k].record \in Seq(Entry)
    BY <1>2, LatestTyped DEF SessType
  <1>4. (IF how = "load" THEN sess'[k].record ELSE <<>>) \in Seq(Entry)
    BY <1>3, EmptySeq
  <1>5. WithCopies(copies[c], PendingOf(k)) \subseteq Asks
    BY DEF WithCopies, PendingOf, Pending, SoundInv, DevicesOK
  <1>6. UNCHANGED <<up, prompts>> /\ Tell
    BY DEF Attach
  <1>7. CASE UNCHANGED <<attached, copies, sightVars>>
    BY <1>1, <1>6, <1>7, HostToldSound DEF SoundInv, DevicesOK, sightVars
  <1>8. CASE /\ attached' = [attached EXCEPT ![c][k] = seq']
             /\ copies' = [copies EXCEPT ![c] = WithCopies(@, PendingOf(k))]
             /\ seen' = [seen EXCEPT ![c][k] = IF how = "load" THEN sess'[k].record ELSE <<>>]
             /\ shown' = [shown EXCEPT ![c][k] = Latest(sess'[k])]
    <2>1. /\ attached' \in [Clients -> [Key -> Nat \cup {None}]]
          /\ \A d \in Clients \ {c} : attached'[d] = attached[d]
      BY <1>2, <1>8 DEF SoundInv, DevicesOK
    <2>2. copies' \in [Clients -> SUBSET Asks]
      BY <1>5, <1>8 DEF SoundInv, DevicesOK
    <2>3. seen' \in [Clients -> [Key -> Seq(Entry)]]
      BY <1>4, <1>8 DEF SoundInv, DevicesOK
    <2>4. shown' \in [Clients -> [Key -> ShownType]]
      BY <1>3, <1>8 DEF SoundInv, DevicesOK
    <2>5. \A d \in Clients \ up : prompts'[d] = {} /\ \A j \in Key : attached'[d][j] = None
      <3> SUFFICES ASSUME NEW d \in Clients \ up
                   PROVE  prompts'[d] = {} /\ \A j \in Key : attached'[d][j] = None
        OBVIOUS
      <3>1. d # c /\ prompts' = prompts /\ attached'[d] = attached[d]
        BY <1>6, <2>1
      <3>2. prompts[d] = {} /\ \A j \in Key : attached[d][j] = None
        BY DEF SoundInv, DevicesOK
      <3> QED
        BY <3>1, <3>2
    <2>6. up' \subseteq Devices /\ prompts' \in [Clients -> SUBSET Turns] /\ up' = up
      BY <1>6 DEF SoundInv, DevicesOK
    <2>7. DevicesOK'
      BY <1>1, <2>1, <2>2, <2>3, <2>4, <2>5, <2>6 DEF DevicesOK
    <2> QED
      BY <1>6, <2>7, HostToldSound
  <1> QED
    BY <1>7, <1>8 DEF Attach
\* A frame of a device keeps what its connection keeps sound.
LEMMA FrameSound ==
  ASSUME CoreInv, TypeOK', SoundInv, NEW c \in Clients, c \in up, Frame(c)
  PROVE  SoundInv'
  <1> USE DEF CoreInv
  <1>1. ASSUME NEW k \in Key, NEW how \in Opens, OpenFromRecord(c, k, how), Attach(c, k, how)
        PROVE  SoundInv'
    <2>1. Next
      BY <1>1 DEF Next, ClientCall
    <2> QED
      BY <1>1, <2>1, AttachSound
  <1>2. CASE LoadLate(c) \/ LoadOk(c)
    <2>1. op[c].key \in Key
      BY <1>2 DEF LoadLate, LoadOk, OpenLate, OpenOk, TypeOK, OpType, IdleOp
    <2>2. Next
      BY <1>2 DEF LoadLate, LoadOk, Next, ClientStep
    <2> QED
      BY <1>2, <2>1, <2>2, AttachSound DEF LoadLate, LoadOk
  <1>3. CASE NewAttach(c)
    <2> DEFINE k == op[c].key
    <2>1. k \in Key
      BY <1>3 DEF NewAttach, NewOk, TypeOK, OpType, IdleOp
    <2>2. Next /\ Tell /\ UNCHANGED <<up, copies, prompts>>
      BY <1>3 DEF NewAttach, NewAnswered, Next, ClientStep
    <2>3. outlived' \subseteq Clients \X Key
      BY <1>3, OutliveTyped DEF NewAttach, SoundInv
    <2>4. /\ attached' = [attached EXCEPT ![c][k] = 0]
          /\ seen' = [seen EXCEPT ![c][k] = <<>>]
          /\ shown' = [shown EXCEPT ![c][k] = None]
      BY <1>3 DEF NewAttach
    <2> HIDE DEF k
    <2>5. /\ attached' \in [Clients -> [Key -> Nat \cup {None}]]
          /\ \A d \in Clients \ {c} : attached'[d] = attached[d]
          /\ seen' \in [Clients -> [Key -> Seq(Entry)]]
          /\ shown' \in [Clients -> [Key -> ShownType]]
      <3>1. <<>> \in Seq(Entry) /\ None \in ShownType
        BY EmptySeq DEF ShownType
      <3> QED
        BY <2>1, <2>4, <3>1 DEF SoundInv, DevicesOK
    <2>6. \A d \in Clients \ up : \A j \in Key : attached'[d][j] = None
      <3> SUFFICES ASSUME NEW d \in Clients \ up PROVE \A j \in Key : attached'[d][j] = None
        OBVIOUS
      <3>1. d # c /\ attached'[d] = attached[d]
        BY <2>5
      <3> QED
        BY <3>1 DEF SoundInv, DevicesOK
    <2>7. DevicesOK'
      BY <2>2, <2>3, <2>5, <2>6 DEF SoundInv, DevicesOK
    <2> QED
      BY <2>2, <2>7, HostToldSound
  <1>4. CASE Forward(c)
    <2>1. Next /\ HostOnly
      BY <1>4 DEF Forward, NewAnswered, Next, ClientCall, ClientStep
    <2> QED
      BY <2>1, HostOnlySound
  <1>5. CASE Change(c)
    <2>1. Next /\ HostOnly
      BY <1>5 DEF Change, Next, ClientCall
    <2> QED
      BY <2>1, HostOnlySound
  <1>6. CASE AnswerById(c)
    <2>1. Next /\ HostOnly
      BY <1>6 DEF AnswerById, Next
    <2> QED
      BY <2>1, HostOnlySound
  <1>7. ASSUME NEW a \in Asks, NEW outcome \in {"selected", "cancelled"}, AnswerCopy(c, a, outcome)
        PROVE  SoundInv'
    <2>1. Next /\ HostOnly
      BY <1>7 DEF AnswerCopy, Pending, ClientAnswer, Next
    <2> QED
      BY <2>1, HostOnlySound
  <1>8. CASE CloseDone(c)
    <2> DEFINE k == op[c].key
    <2>1. Next /\ Tell /\ UNCHANGED <<up, copies, prompts, sightVars>>
      BY <1>8 DEF CloseDone, Next, ClientStep
    <2>2. outlived' \subseteq Clients \X Key
      BY <1>8, OutliveTyped DEF CloseDone, SoundInv
    <2>3. attached' = [attached EXCEPT ![c][k] = None]
      BY <1>8 DEF CloseDone
    <2> HIDE DEF k
    <2>4. /\ attached' \in [Clients -> [Key -> Nat \cup {None}]]
          /\ \A d \in Clients, j \in Key : attached[d][j] = None => attached'[d][j] = None
      BY <2>3 DEF SoundInv, DevicesOK
    <2>5. DevicesOK'
      BY <2>1, <2>2, <2>4 DEF SoundInv, DevicesOK, sightVars
    <2> QED
      BY <2>1, <2>5, HostToldSound
  <1>9. CASE SendPrompt(c)
    <2>1. PICK k \in Key : Prompt(c, k)
      BY <1>9 DEF SendPrompt
    <2>2. PICK t : t = One(UnusedTurns)
      OBVIOUS
    <2>3. t \in Turns /\ Awaits(c, t)'
      BY <2>1, <2>2, PromptAwaits
    <2>4. Next /\ Tell /\ UNCHANGED <<up, attached, copies, sightVars>>
      BY <1>9, <2>1 DEF SendPrompt, Next, ClientCall
    <2>5. prompts' = [prompts EXCEPT ![c] = @ \cup {t}]
      BY <1>9, <2>2 DEF SendPrompt
    <2>6. outlived' \subseteq Clients \X Key
      BY <1>9, OutliveTyped DEF SendPrompt, SoundInv
    <2>7. DevicesOK'
      <3>1. prompts' \in [Clients -> SUBSET Turns]
        BY <2>3, <2>5 DEF SoundInv, DevicesOK
      <3>2. \A d \in Clients \ up : prompts'[d] = {}
        BY <2>5 DEF SoundInv, DevicesOK
      <3> QED
        BY <2>4, <2>6, <3>1, <3>2 DEF SoundInv, DevicesOK, sightVars
    <2>8. \A d \in Clients : \A u \in prompts'[d] \ prompts[d] : Awaits(d, u)'
      BY <2>3, <2>5 DEF SoundInv, DevicesOK
    <2>9. Numbered /\ TurnsTold
      BY <2>4, StepTold
    <2>10. InboxOK'
      BY <2>4, <2>9, InboxTold DEF SoundInv, TypeOK
    <2>11. PromptsOK'
      BY <2>4, <2>8, <2>9, PromptsTold DEF PromptsOK
    <2> QED
      BY <2>7, <2>10, <2>11 DEF SoundInv
  <1>10. CASE DeclineCopy(c)
    <2>1. copies' \in [Clients -> SUBSET Asks]
      BY <1>10 DEF DeclineCopy, SoundInv, DevicesOK
    <2>2. UNCHANGED <<turn, seq, inbox, outlived, up, attached, prompts, seen, shown>>
      BY <1>10 DEF DeclineCopy, hostVars, sightVars
    <2> QED
      BY <2>1, <2>2 DEF SoundInv, InboxOK, DevicesOK, PromptsOK, Awaits, Running
  <1> QED
    BY <1>1, <1>2, <1>3, <1>4, <1>5, <1>6, <1>7, <1>8, <1>9, <1>10 DEF Frame, LoadOpen

\* One thing of one session of one device changes.
LEMMA OneChanged ==
  ASSUME NEW S, NEW f, f \in [Clients -> [Key -> S]], NEW c \in Clients, NEW k \in Key, NEW v \in S
  PROVE  /\ [f EXCEPT ![c][k] = v] \in [Clients -> [Key -> S]]
         /\ [f EXCEPT ![c][k] = v][c][k] = v
         /\ \A d \in Clients, j \in Key : d # c \/ j # k => [f EXCEPT ![c][k] = v][d][j] = f[d][j]
  OBVIOUS

\* A prompt leaves with its answer, or with its turn's end.
LEMMA TakeSound ==
  ASSUME TypeOK, SoundInv, NEW c \in Clients, TakeEvent(c)
  PROVE  SoundInv'
  <1> DEFINE e == inbox[c][1].event
  <1>1. /\ inbox[c] # <<>> /\ inbox' = [inbox EXCEPT ![c] = Tail(@)]
        /\ UNCHANGED <<turn, seq, out, outlived, up>> /\ c \in up
    BY DEF TakeEvent, TakeTurn, TakeUpdate, TakeAnswered, TakeAdded, TakeResolved, TakeClosed,
           Take, hostVars
  <1>2. /\ e \in Said /\ Taken(c) = e
        /\ \A i \in DOMAIN inbox'[c] : i + 1 \in DOMAIN inbox[c] /\ inbox'[c][i] = inbox[c][i + 1]
        /\ \A i \in DOMAIN inbox[c] : i = 1 \/ i - 1 \in DOMAIN inbox'[c]
        /\ DOMAIN inbox[c] \subseteq Nat \ {0}
        /\ \A d \in Clients \ {c} : inbox'[d] = inbox[d]
    BY <1>1, TakeEffect DEF SoundInv, Taken, Stamped
  <1>3. InboxOK'
    BY <1>1, InboxTaken DEF SoundInv, TypeOK
  <1>4. e.key \in Key
    BY <1>2 DEF Said, TurnSaid, AnswerSaid, UpdateSaid, QuietSaid
  <1>5. /\ prompts' \in [Clients -> SUBSET Turns]
        /\ \A d \in Clients : prompts'[d] \subseteq prompts[d]
        /\ e.type = "ended" => e.of \notin prompts'[c]
    <2>1. CASE TakeTurn(c)
      BY <1>2, <2>1 DEF TakeTurn, PromptsAfter, SoundInv, DevicesOK
    <2>2. CASE TakeAnswered(c)
      BY <1>2, <2>2 DEF TakeAnswered, Take, Taken, SoundInv, DevicesOK
    <2>3. CASE TakeUpdate(c) \/ TakeAdded(c) \/ TakeResolved(c) \/ TakeClosed(c)
      <3>1. UNCHANGED prompts
        BY <2>3 DEF TakeUpdate, TakeAdded, TakeResolved, TakeClosed
      <3>2. e.type # "ended"
        BY <1>2, <2>3 DEF TakeUpdate, TakeAdded, TakeResolved, TakeClosed, Take, Taken
      <3> QED
        BY <3>1, <3>2 DEF SoundInv, DevicesOK
    <2> QED
      BY <2>1, <2>2, <2>3 DEF TakeEvent
  <1>6. PromptsOK'
    <2> SUFFICES ASSUME NEW d \in Clients
                 PROVE  /\ \A t \in Turns : \A i \in DOMAIN inbox'[d] :
                              EndOf(inbox'[d][i].event, t) => turn'[t].state = "ended"
                        /\ \A t \in prompts'[d] : Awaits(d, t)'
      BY DEF PromptsOK
    <2>1. CASE d # c
      BY <1>1, <1>2, <1>5, <2>1 DEF SoundInv, PromptsOK, Awaits, Running
    <2>2. CASE d = c
      <3>1. \A t \in Turns : \A i \in DOMAIN inbox'[c] :
               EndOf(inbox'[c][i].event, t) => turn'[t].state = "ended"
        BY <1>1, <1>2 DEF SoundInv, PromptsOK
      <3>2. ASSUME NEW t \in prompts'[c] PROVE Awaits(c, t)'
        <4>1. Awaits(c, t) /\ t \in prompts[c]
          BY <1>5 DEF SoundInv, PromptsOK
        <4>2. CASE t \in Running
          BY <1>1, <4>1, <4>2 DEF Awaits, Running
        <4>3. ASSUME NEW i \in DOMAIN inbox[c], EndOf(inbox[c][i].event, t) PROVE Awaits(c, t)'
          <5>1. i # 1
            BY <1>5, <3>2, <4>3 DEF EndOf
          <5>2. i - 1 \in DOMAIN inbox'[c] /\ (i - 1) + 1 = i
            BY <1>2, <5>1
          <5>3. inbox'[c][i - 1] = inbox[c][i]
            BY <1>2, <5>2
          <5> QED
            BY <1>1, <4>1, <4>3, <5>2, <5>3 DEF Awaits, Running
        <4> QED
          BY <4>1, <4>2, <4>3 DEF Awaits
      <3> QED
        BY <2>2, <3>1, <3>2
    <2> QED
      BY <2>1, <2>2
  <1>7. /\ attached' \in [Clients -> [Key -> Nat \cup {None}]]
        /\ \A d \in Clients, j \in Key : attached[d][j] = None => attached'[d][j] = None
    <2>1. UNCHANGED attached \/ attached' = [attached EXCEPT ![c][e.key] = None]
      BY <1>2 DEF TakeEvent, TakeTurn, TakeUpdate, TakeAnswered, TakeAdded, TakeResolved, TakeClosed
    <2>2. attached \in [Clients -> [Key -> Nat \cup {None}]] /\ None \in Nat \cup {None}
      BY DEF SoundInv, DevicesOK
    <2> DEFINE k == e.key
    <2> HIDE DEF e, k
    <2>3. k \in Key
      BY <1>4 DEF k
    <2>4. CASE attached' = [attached EXCEPT ![c][k] = None]
      <3>1. /\ attached' \in [Clients -> [Key -> Nat \cup {None}]] /\ attached'[c][k] = None
            /\ \A d \in Clients, j \in Key : d # c \/ j # k => attached'[d][j] = attached[d][j]
        BY <2>2, <2>3, <2>4, OneChanged
      <3> QED
        BY <3>1
    <2> QED
      BY <2>1, <2>2, <2>4 DEF k
  <1>8. copies' \in [Clients -> SUBSET Asks]
    <2>1. CASE TakeAdded(c)
      <3>1. e.of \in Asks
        BY <1>2, <2>1 DEF TakeAdded, Take, Taken, Said, TurnSaid, AnswerSaid, UpdateSaid, QuietSaid
      <3> QED
        BY <1>2, <2>1, <3>1 DEF TakeAdded, WithCopies, SoundInv, DevicesOK
    <2>2. CASE TakeResolved(c)
      BY <2>2 DEF TakeResolved, CopiesLeft, SoundInv, DevicesOK
    <2>3. CASE TakeTurn(c) \/ TakeUpdate(c) \/ TakeAnswered(c) \/ TakeClosed(c)
      BY <2>3 DEF TakeTurn, TakeUpdate, TakeAnswered, TakeClosed, SoundInv, DevicesOK
    <2> QED
      BY <2>1, <2>2, <2>3 DEF TakeEvent
  <1>9. seen' \in [Clients -> [Key -> Seq(Entry)]]
    <2>1. CASE TakeUpdate(c)
      <3>1. e.of \in Entry
        BY <1>2, <2>1 DEF TakeUpdate, Take, Taken, Said, TurnSaid, AnswerSaid, UpdateSaid, QuietSaid
      <3>2. Append(seen[c][e.key], e.of) \in Seq(Entry) /\ seen[c][e.key] \in Seq(Entry)
        BY <1>4, <3>1, AppendProperties DEF SoundInv, DevicesOK
      <3>3. PICK v \in Seq(Entry) : seen' = [seen EXCEPT ![c][e.key] = v]
        BY <1>2, <2>1, <3>2 DEF TakeUpdate
      <3>4. seen \in [Clients -> [Key -> Seq(Entry)]]
        BY DEF SoundInv, DevicesOK
      <3> HIDE DEF e
      <3> QED
        BY <1>4, <3>3, <3>4, OneChanged
    <2>2. CASE UNCHANGED seen
      BY <2>2 DEF SoundInv, DevicesOK
    <2> QED
      BY <2>1, <2>2 DEF TakeEvent, TakeTurn, TakeAnswered, TakeAdded, TakeResolved, TakeClosed, sightVars
  <1>10. shown' \in [Clients -> [Key -> ShownType]]
    <2>1. CASE TakeTurn(c)
      <3>1. <<e.type, e.of>> \in ShownType
        BY <1>2, <2>1 DEF TakeTurn, Take, Taken, Said, TurnSaid, AnswerSaid, UpdateSaid, QuietSaid, ShownType
      <3>2. shown \in [Clients -> [Key -> ShownType]]
        BY DEF SoundInv, DevicesOK
      <3>3. shown[c][e.key] \in ShownType
        BY <1>4, <3>2
      <3>4. PICK v \in ShownType : shown' = [shown EXCEPT ![c][e.key] = v]
        BY <1>2, <2>1, <3>1, <3>3 DEF TakeTurn
      <3> HIDE DEF e
      <3> QED
        BY <1>4, <3>2, <3>4, OneChanged
    <2>2. CASE UNCHANGED shown
      BY <2>2 DEF SoundInv, DevicesOK
    <2> QED
      BY <2>1, <2>2
      DEF TakeEvent, TakeUpdate, TakeAnswered, TakeAdded, TakeResolved, TakeClosed, sightVars
  <1>11. \A d \in Clients \ up : prompts'[d] = {}
    BY <1>5 DEF SoundInv, DevicesOK
  <1>12. DevicesOK'
    BY <1>1, <1>5, <1>7, <1>8, <1>9, <1>10, <1>11 DEF SoundInv, DevicesOK
  <1> QED
    BY <1>3, <1>6, <1>12 DEF SoundInv
LEMMA ConnectSound ==
  ASSUME SoundInv, NEW c \in Devices, Connect(c) \/ Disconnect(c)
  PROVE  SoundInv'
  <1>1. c \in Clients
    BY DevicesAssumption
  <1>2. CASE Connect(c)
    <2>1. UNCHANGED <<turn, seq, inbox, attached, copies, prompts, seen, shown, outlived>>
      BY <1>2 DEF Connect, hostVars, sightVars
    <2>2. up' = up \cup {c}
      BY <1>2 DEF Connect
    <2> QED
      BY <2>1, <2>2 DEF SoundInv, InboxOK, DevicesOK, PromptsOK, Awaits, Running
  <1>3. CASE Disconnect(c)
    <2>1. UNCHANGED <<turn, seq>> /\ up' = up \ {c}
      BY <1>3 DEF Disconnect, hostVars
    <2>2. /\ \A d \in Clients \ {c} : inbox'[d] = inbox[d] /\ prompts'[d] = prompts[d]
          /\ inbox'[c] = <<>> /\ prompts'[c] = {}
          /\ inbox' \in [Clients -> Seq(Stamped)] /\ prompts' \in [Clients -> SUBSET Turns]
      BY <1>1, <1>3, EmptySeq DEF Disconnect, SoundInv, InboxOK, DevicesOK
    <2>3. InboxOK'
      <3>1. \A d \in Clients : \A i \in DOMAIN inbox'[d] : d # c
        BY <2>2
      <3> QED
        BY <2>1, <2>2, <3>1 DEF SoundInv, InboxOK
    <2>4. /\ attached' \in [Clients -> [Key -> Nat \cup {None}]]
          /\ \A d \in Clients \ {c} : attached'[d] = attached[d]
          /\ \A k \in Key : attached'[c][k] = None
      BY <1>1, <1>3 DEF Disconnect, SoundInv, DevicesOK
    <2>5. copies' \in [Clients -> SUBSET Asks] /\ outlived' \subseteq Clients \X Key
      BY <1>1, <1>3 DEF Disconnect, SoundInv, DevicesOK
    <2>6. seen' \in [Clients -> [Key -> Seq(Entry)]] /\ shown' \in [Clients -> [Key -> ShownType]]
      BY <1>1, <1>3, EmptySeq DEF Disconnect, SoundInv, DevicesOK, ShownType
    <2>7. DevicesOK'
      BY <2>1, <2>2, <2>4, <2>5, <2>6 DEF SoundInv, DevicesOK
    <2>8. PromptsOK'
      <3>1. \A d \in Clients : \A i \in DOMAIN inbox'[d] : d # c
        BY <2>2
      <3> QED
        BY <2>1, <2>2, <3>1 DEF SoundInv, PromptsOK, Awaits, Running
    <2> QED
      BY <2>3, <2>7, <2>8 DEF SoundInv
  <1> QED
    BY <1>2, <1>3

LEMMA SoundStep ==
  ASSUME CoreInv, TypeOK', SoundInv, [ConnNext]_vars
  PROVE  SoundInv'
  <1>1. up \subseteq Clients
    BY DevicesAssumption DEF SoundInv, DevicesOK
  <1>2. ASSUME NEW c \in up, Frame(c) PROVE SoundInv'
    BY <1>1, <1>2, FrameSound
  <1>3. ASSUME NEW c \in Devices, TakeEvent(c) PROVE SoundInv'
    BY <1>3, TakeSound, DevicesAssumption DEF CoreInv
  <1>4. ASSUME NEW c \in Clients \ Devices, Contract(c) PROVE SoundInv'
    <2>1. Next /\ HostOnly
      BY <1>4 DEF Contract, Next
    <2> QED
      BY <2>1, HostOnlySound
  <1>5. CASE (AgentStep \/ RemoveStep) /\ HostOnly
    <2>1. Next
      BY <1>5 DEF Next
    <2> QED
      BY <1>5, <2>1, HostOnlySound
  <1>6. CASE UNCHANGED vars
    BY <1>6 DEF vars, hostVars, deviceVars, sightVars, SoundInv, InboxOK, DevicesOK, PromptsOK,
                Awaits, Running
  <1> QED
    BY <1>2, <1>3, <1>4, <1>5, <1>6, ConnectSound DEF ConnNext

LEMMA SoundInit == ConnInit => SoundInv
  <1> SUFFICES ASSUME ConnInit PROVE SoundInv
    OBVIOUS
  <1>1. InboxOK
    <2>1. <<>> \in Seq(Stamped) /\ DOMAIN <<>> = {}
      BY EmptySeq
    <2> QED
      BY <2>1 DEF ConnInit, InboxOK
  <1>2. DevicesOK
    BY EmptySeq DEF ConnInit, DevicesOK, ShownType
  <1>3. PromptsOK
    BY DEF ConnInit, PromptsOK
  <1> QED
    BY <1>1, <1>2, <1>3 DEF SoundInv

LEMMA Sound == ConnSpec => [](CoreInv /\ SoundInv)
  <1>1. CoreInv => TypeOK
    BY DEF CoreInv
  <1>2. ConnSpec => []CoreInv
    BY Implements, Core, PTL
  <1>3. CoreInv /\ TypeOK' /\ SoundInv /\ [ConnNext]_vars => SoundInv'
    BY SoundStep
  <1> QED
    BY <1>1, <1>2, <1>3, SoundInit, PTL DEF ConnSpec

LEMMA SoundIs == CoreInv /\ SoundInv => ConnSound
  <1> SUFFICES ASSUME CoreInv, SoundInv PROVE ConnSound
    OBVIOUS
  <1>1. Stamped \subseteq StampedType
    BY DEF Stamped, StampedType, Said, TurnSaid, AnswerSaid, UpdateSaid, QuietSaid, Entry
  <1>2. Seq(Stamped) \subseteq Seq(StampedType)
    BY <1>1, SeqMonotonic
  <1>3. inbox \in [Clients -> Seq(StampedType)]
    BY <1>2 DEF SoundInv, InboxOK
  <1>4. ConnTypeOK
    BY <1>3 DEF SoundInv, InboxOK, DevicesOK, ConnTypeOK
  <1>5. PromptsRun
    <2> SUFFICES ASSUME NEW c \in Clients, Drained(c), NEW t \in prompts[c] PROVE t \in Running
      BY DEF PromptsRun
    <2>1. Awaits(c, t) /\ DOMAIN inbox[c] = {}
      BY DEF SoundInv, PromptsOK, Drained
    <2> QED
      BY <2>1 DEF Awaits
  <1> QED
    BY <1>4, <1>5 DEF ConnSound

\* Whatever connects, asks, drops and reconnects: what a connection keeps has its
\* types, events wait in the host's order, and a connection that has taken all
\* of them keeps no prompt of a turn that ended (conn.rs, prompts).
THEOREM ConnectionsSound == ConnSpec => []ConnSound
  BY Sound, SoundIs, PTL
-----------------------------------------------------------------------------
(* A prompt's answer comes before its turn's end *)

\* In a session not closed under it, the end of a turn waits behind the answer
\* to its prompt.
AnswersFirst ==
  \A c \in Clients : \A t \in prompts[c] : turn[t].key \notin cut =>
     \A i \in DOMAIN inbox[c] : EndOf(inbox[c][i].event, t) =>
        \E j \in DOMAIN inbox[c] : j < i /\ AnswerTo(inbox[c][j].event, t, c)

\* A session once closed under a turn stays counted so.
LEMMA CutGrows == ASSUME Next PROVE cut \subseteq cut'
  <1>1. ASSUME NEW c \in Clients, ClientCall(c) \/ ClientStep(c) \/ ClientAnswer(c)
        PROVE  cut \subseteq cut'
    BY <1>1
    DEF ClientCall, NewBegin, OpenFromRecord, OpenWait, Prompt, Cancel, ChangeBegin, ClientAnswer,
        Answer, ClientStep, NewAnswered, NewOk, NewErr, OpenLate, OpenInAgent, OpenOk, OpenErr,
        StillOpen, ChangeErr, ModeOk, CloseOk, Forget
  <1>2. CASE AgentStep
    BY <1>2 DEF AgentStep, End, Withdraw, AgentUpdates, ChangedElsewhere, CloseArrives, AskPermission
  <1>3. CASE RemoveStep
    BY <1>3 DEF RemoveStep, RemoveSessions, RemoveFromRoster, Forget
  <1> QED
    BY <1>1, <1>2, <1>3 DEF Next

LEMMA AnswersTold ==
  ASSUME CoreInv, TurnsExclusive, SoundInv, SoundInv', AnswersFirst, Next, Tell, UNCHANGED up,
         \A c \in Clients : \A t \in prompts'[c] \ prompts[c] : t \in Running'
  PROVE  AnswersFirst'
  <1>1. Numbered /\ TurnsTold /\ EndAnswered /\ cut \subseteq cut'
    BY StepTold, CutGrows
  <1> SUFFICES ASSUME NEW c \in Clients, NEW t \in prompts'[c], turn'[t].key \notin cut',
                      NEW i \in DOMAIN inbox'[c], EndOf(inbox'[c][i].event, t)
               PROVE  \E j \in DOMAIN inbox'[c] : j < i /\ AnswerTo(inbox'[c][j].event, t, c)
    BY DEF AnswersFirst
  <1>2. t \in Turns /\ turn'[t].state = "ended"
    BY DEF SoundInv, DevicesOK, PromptsOK
  <1>3. t \in prompts[c]
    BY <1>2 DEF Running
  <1>4. /\ turn[t].state # "none" /\ turn[t].client = c
        /\ turn[t].key \notin cut
    <2>1. turn[t].state # "none" /\ turn[t].client = c
      BY <1>3 DEF SoundInv, PromptsOK, Awaits
    <2> QED
      BY <1>1, <1>2, <2>1 DEF TurnsTold
  <1>5. c \in up
    BY <1>3 DEF SoundInv, DevicesOK
  <1> DEFINE n == Len(inbox[c])
  <1>6. /\ DOMAIN inbox[c] \subseteq DOMAIN inbox'[c]
        /\ \A j \in DOMAIN inbox[c] : inbox'[c][j] = inbox[c][j]
        /\ \A j \in DOMAIN out' : n + j \in DOMAIN inbox'[c] /\ inbox'[c][n + j] = out'[j]
        /\ \A j \in DOMAIN inbox'[c] : j \in DOMAIN inbox[c] \/ \E m \in DOMAIN out' : j = n + m
        /\ n \in Nat /\ DOMAIN out' \subseteq Nat \ {0}
    BY <1>1, <1>5, TellEffect DEF SoundInv
  <1> HIDE DEF n
  <1>7. CASE i \in DOMAIN inbox[c]
    <2>1. PICK j \in DOMAIN inbox[c] : j < i /\ AnswerTo(inbox[c][j].event, t, c)
      BY <1>3, <1>4, <1>6, <1>7 DEF AnswersFirst
    <2> QED
      BY <1>6, <2>1
  <1>8. ASSUME NEW m \in DOMAIN out', i = n + m
        PROVE  \E j \in DOMAIN inbox'[c] : j < i /\ AnswerTo(inbox'[c][j].event, t, c)
    <2>1. EndOf(out'[m].event, t)
      BY <1>6, <1>8
    <2>2. t \in Running /\ turn[t].key \in Key
      BY <1>1, <1>2, <2>1 DEF TurnsTold, Running, CoreInv, TypeOK, TurnType
    <2>3. sess[turn[t].key].turn = t
      BY <1>4, <2>2 DEF TurnsExclusive
    <2>4. PICK j \in 1..(m - 1) : j \in DOMAIN out' /\ AnswerTo(out'[j].event, t, turn[t].client)
      BY <1>1, <1>2, <2>1, <2>3 DEF EndAnswered
    <2>5. n + j \in DOMAIN inbox'[c] /\ inbox'[c][n + j] = out'[j] /\ n + j < i
      BY <1>6, <1>8, <2>4
    <2> QED
      BY <1>4, <2>4, <2>5
  <1> QED
    BY <1>6, <1>7, <1>8

LEMMA AnswersTaken ==
  ASSUME SoundInv, AnswersFirst, NEW c \in Clients, TakeEvent(c)
  PROVE  /\ AnswersFirst'
         /\ \A d \in Clients : \A t \in prompts[d] \ prompts'[d] :
               turn[t].key \notin cut => d = c /\ Answers(d)
  <1> DEFINE e == inbox[c][1].event
  <1>1. /\ inbox[c] # <<>> /\ inbox' = [inbox EXCEPT ![c] = Tail(@)]
        /\ UNCHANGED <<turn, cut>>
    BY DEF TakeEvent, TakeTurn, TakeUpdate, TakeAnswered, TakeAdded, TakeResolved, TakeClosed,
           Take, hostVars
  <1>2. /\ Taken(c) = e /\ 1 \in DOMAIN inbox[c]
        /\ \A i \in DOMAIN inbox'[c] : i + 1 \in DOMAIN inbox[c] /\ inbox'[c][i] = inbox[c][i + 1]
        /\ \A i \in DOMAIN inbox[c] : i = 1 \/ i - 1 \in DOMAIN inbox'[c]
        /\ DOMAIN inbox[c] \subseteq Nat \ {0} /\ DOMAIN inbox'[c] \subseteq Nat \ {0}
        /\ \A d \in Clients \ {c} : inbox'[d] = inbox[d]
    BY <1>1, TakeEffect DEF SoundInv, Taken
  <1>3. /\ \A d \in Clients \ {c} : prompts'[d] = prompts[d]
        /\ \/ e.type = "ended" /\ prompts'[c] = prompts[c] \ {e.of}
           \/ e.type = "answered" /\ prompts'[c] = IF e.who = c THEN prompts[c] \ {e.of} ELSE prompts[c]
           \/ e.type \notin {"ended", "answered"} /\ prompts'[c] = prompts[c]
           \/ e.type = "running" /\ prompts'[c] = prompts[c]
    <2>1. CASE TakeTurn(c)
      BY <1>2, <2>1 DEF TakeTurn, Take, Taken, PromptsAfter, SoundInv, DevicesOK
    <2>2. CASE TakeAnswered(c)
      BY <1>2, <2>2 DEF TakeAnswered, Take, Taken, SoundInv, DevicesOK
    <2>3. CASE TakeUpdate(c) \/ TakeAdded(c) \/ TakeResolved(c) \/ TakeClosed(c)
      BY <1>2, <2>3 DEF TakeUpdate, TakeAdded, TakeResolved, TakeClosed, Take, Taken
    <2> QED
      BY <2>1, <2>2, <2>3 DEF TakeEvent
  <1> HIDE DEF e
  <1>4. ASSUME NEW t \in prompts[c], turn[t].key \notin cut
        PROVE  ~EndOf(e, t)
    <2> SUFFICES ASSUME EndOf(e, t) PROVE FALSE
      OBVIOUS
    <2>1. PICK j \in DOMAIN inbox[c] : j < 1
      BY <1>2, <1>4 DEF AnswersFirst, e
    <2> QED
      BY <1>2, <2>1
  <1>5. AnswersFirst'
    <2> SUFFICES ASSUME NEW d \in Clients, NEW t \in prompts'[d], turn[t].key \notin cut,
                        NEW i \in DOMAIN inbox'[d], EndOf(inbox'[d][i].event, t)
                 PROVE  \E j \in DOMAIN inbox'[d] : j < i /\ AnswerTo(inbox'[d][j].event, t, d)
      BY <1>1 DEF AnswersFirst
    <2>1. CASE d # c
      BY <1>2, <1>3, <2>1 DEF AnswersFirst
    <2>2. CASE d = c
      <3>1. t \in prompts[c]
        BY <1>3, <2>2
      <3>2. i + 1 \in DOMAIN inbox[c] /\ inbox'[c][i] = inbox[c][i + 1]
        BY <1>2, <2>2
      <3>3. PICK j \in DOMAIN inbox[c] : j < i + 1 /\ AnswerTo(inbox[c][j].event, t, c)
        BY <2>2, <3>1, <3>2 DEF AnswersFirst
      <3>4. j # 1
        BY <1>3, <2>2, <3>3 DEF AnswerTo, e
      <3>5. j - 1 \in DOMAIN inbox'[c] /\ j \in Nat /\ i \in Nat
        BY <1>2, <2>2, <3>4
      <3>6. (j - 1) + 1 = j /\ j - 1 < i
        BY <3>3, <3>5
      <3>7. inbox'[c][j - 1] = inbox[c][j]
        BY <1>2, <3>5, <3>6
      <3> QED
        BY <2>2, <3>3, <3>5, <3>6, <3>7
    <2> QED
      BY <2>1, <2>2
  <1>6. ASSUME NEW d \in Clients, NEW t \in prompts[d] \ prompts'[d], turn[t].key \notin cut
        PROVE  d = c /\ Answers(d)
    <2>1. d = c
      BY <1>3, <1>6
    <2>2. ~(e.type = "ended" /\ e.of = t)
      BY <1>4, <1>6, <2>1 DEF EndOf
    <2>3. e.type = "answered"
      BY <1>3, <1>6, <2>1, <2>2
    <2> QED
      BY <1>2, <2>1, <2>3 DEF Answers
  <1> QED
    BY <1>5, <1>6

\* A frame adds prompts only of turns it starts.
LEMMA FramePrompts ==
  ASSUME CoreInv, SoundInv, NEW c \in Clients, Frame(c), ~DeclineCopy(c)
  PROVE  /\ Next /\ Tell /\ UNCHANGED up
         /\ \A d \in Clients : /\ prompts[d] \subseteq prompts'[d]
                               /\ \A t \in prompts'[d] \ prompts[d] : t \in Running'
  <1>1. CASE SendPrompt(c)
    <2>1. PICK k \in Key : Prompt(c, k)
      BY <1>1 DEF SendPrompt
    <2>2. PICK t : t = One(UnusedTurns)
      OBVIOUS
    <2>3. t \in Turns
      BY <2>1, <2>2, OneOf DEF Prompt, UnusedTurns
    <2>4. turn' = [turn EXCEPT ![t] = [state |-> "running", key |-> k, client |-> c]]
      BY <2>1, <2>2 DEF Prompt
    <2>5. t \in Running'
      BY <2>3, <2>4 DEF Running, CoreInv, TypeOK
    <2>6. prompts' = [prompts EXCEPT ![c] = @ \cup {t}]
      BY <1>1, <2>2 DEF SendPrompt
    <2>7. Next /\ Tell /\ UNCHANGED up
      BY <1>1, <2>1 DEF SendPrompt, Next, ClientCall
    <2> QED
      BY <2>5, <2>6, <2>7 DEF SoundInv, DevicesOK
  <1>2. CASE ~SendPrompt(c)
    <2>1. Next
      BY <1>2 DEF Frame, LoadOpen, LoadLate, LoadOk, NewAttach, Forward, Change, CloseDone, AnswerById,
             AnswerCopy, Pending, NewAnswered, Next, ClientCall, ClientStep, ClientAnswer
    <2>2. Tell /\ UNCHANGED <<up, prompts>>
      BY <1>2 DEF Frame, LoadOpen, LoadLate, LoadOk, Attach, NewAttach, Forward, Change, CloseDone,
             AnswerById, AnswerCopy, HostOnly, deviceVars
    <2> QED
      BY <2>1, <2>2
  <1> QED
    BY <1>1, <1>2

LEMMA AnswersStep ==
  ASSUME CoreInv, TurnsExclusive, SoundInv, SoundInv', AnswersFirst, [ConnNext]_vars
  PROVE  /\ AnswersFirst'
         /\ \A c \in Clients, t \in Turns :
               AnswerOwed(c, t) /\ turn[t].key \notin cut => Answers(c)
  <1>1. ASSUME NEW c \in Clients, Frame(c), ~DeclineCopy(c)
        PROVE  AnswersFirst' /\ \A d \in Clients : prompts[d] \subseteq prompts'[d]
    BY <1>1, FramePrompts, AnswersTold
  <1>2. ASSUME NEW c \in Clients, DeclineCopy(c)
        PROVE  AnswersFirst' /\ UNCHANGED prompts
    <2>1. UNCHANGED <<turn, cut, inbox, prompts>>
      BY <1>2 DEF DeclineCopy, hostVars
    <2> QED
      BY <2>1 DEF AnswersFirst
  <1>3. CASE Next /\ HostOnly
    <2>1. UNCHANGED <<up, prompts>> /\ Tell
      BY <1>3 DEF HostOnly, deviceVars
    <2>2. AnswersFirst'
      BY <1>3, <2>1, AnswersTold
    <2> QED
      BY <2>1, <2>2 DEF AnswerOwed
  <1>4. ASSUME NEW c \in Devices, Connect(c) \/ Disconnect(c)
        PROVE  /\ AnswersFirst'
               /\ \A d \in Clients : d \in up' => prompts[d] \subseteq prompts'[d]
    <2>1. CASE Connect(c)
      <3>1. UNCHANGED <<turn, cut, inbox, prompts>>
        BY <2>1 DEF Connect, hostVars
      <3> QED
        BY <3>1 DEF AnswersFirst
    <2>2. CASE Disconnect(c)
      <3>1. /\ UNCHANGED <<turn, cut>> /\ up' = up \ {c}
            /\ \A d \in Clients \ {c} : inbox'[d] = inbox[d] /\ prompts'[d] = prompts[d]
            /\ c \in Clients => prompts'[c] = {}
        BY <2>2 DEF Disconnect, hostVars, SoundInv, InboxOK, DevicesOK
      <3> QED
        BY <3>1 DEF AnswersFirst
    <2> QED
      BY <1>4, <2>1, <2>2
  <1>5. CASE UNCHANGED vars
    <2>1. UNCHANGED <<turn, cut, inbox, prompts>>
      BY <1>5 DEF vars, hostVars, deviceVars
    <2> QED
      BY <2>1 DEF AnswersFirst, AnswerOwed
  <1>6. up \subseteq Clients
    BY DevicesAssumption DEF SoundInv, DevicesOK
  <1>7. ASSUME NEW c \in Clients, TakeEvent(c)
        PROVE  /\ AnswersFirst'
               /\ \A d \in Clients, t \in Turns :
                     AnswerOwed(d, t) /\ turn[t].key \notin cut => Answers(d)
    BY <1>7, AnswersTaken DEF AnswerOwed
  <1>8. ASSUME NEW c \in Clients \ Devices, Contract(c) PROVE Next /\ HostOnly
    BY <1>8 DEF Contract, Next
  <1>9. ASSUME (AgentStep \/ RemoveStep) /\ HostOnly PROVE Next /\ HostOnly
    BY <1>9 DEF Next
  <1>10. ASSUME \A d \in Clients : d \in up' => prompts[d] \subseteq prompts'[d]
         PROVE  \A c \in Clients, t \in Turns : ~AnswerOwed(c, t)
    BY <1>10 DEF AnswerOwed
  <1> QED
    BY <1>1, <1>2, <1>3, <1>4, <1>5, <1>6, <1>7, <1>8, <1>9, <1>10, DevicesAssumption DEF ConnNext

\* A device that sent a prompt is answered by it and not by its turn's end, however
\* other devices, agents and reconnects come between, as long as nobody closed
\* its session under it (conn.rs, "after the session/prompt response").
THEOREM AnsweredBeforeEnd ==
  ASSUME ~ListsEarly
  PROVE  ConnSpec => PromptAnswered
  <1>1. ConnSpec => [](CoreInv /\ TurnInv)
    BY Implements, Turning, PTL
  <1>2. TurnInv => TurnsExclusive
    BY DEF TurnInv
  <1>3. ConnInit => AnswersFirst
    BY DEF ConnInit, AnswersFirst
  <1>4. CoreInv /\ TurnsExclusive /\ SoundInv /\ SoundInv' /\ AnswersFirst /\ [ConnNext]_vars
        => /\ AnswersFirst'
           /\ [\A c \in Clients, t \in Turns :
                 AnswerOwed(c, t) /\ turn[t].key \notin cut => Answers(c)]_vars
    BY AnswersStep
  <1> QED
    BY <1>1, <1>2, <1>3, <1>4, Sound, PTL DEF ConnSpec, PromptAnswered

-----------------------------------------------------------------------------
(* What a step of the host shows of a session that is open *)

TurnTypes == {"running", "ended"}
TurnOf(e, k) == e.key = k /\ e.type \in TurnTypes
UpdateOf(e, k) == e.key = k /\ e.type = "update"

\* Its turn, and its record, are as they were and nothing is said of them; or
\* one event says what they have become.
TurnShown(k) ==
  \/ /\ Latest(sess'[k]) = Latest(sess[k])
     /\ \A i \in DOMAIN out' : ~TurnOf(out'[i].event, k)
  \/ \E m \in DOMAIN out' :
        /\ TurnOf(out'[m].event, k)
        /\ Latest(sess'[k]) = <<out'[m].event.type, out'[m].event.of>>
        /\ \A i \in DOMAIN out' : TurnOf(out'[i].event, k) => i = m
RecordShown(k) ==
  \/ /\ sess'[k].record = sess[k].record
     /\ \A i \in DOMAIN out' : ~UpdateOf(out'[i].event, k)
  \/ \E m \in DOMAIN out' :
        /\ UpdateOf(out'[m].event, k)
        /\ out'[m].event.of \in Entry
        /\ sess'[k].record = Append(sess[k].record, out'[m].event.of)
        /\ \A i \in DOMAIN out' : UpdateOf(out'[i].event, k) => i = m

\* An open session is let go with a word, or closed in its agent, or stays open
\* and is shown.
StepShows(k) ==
  \/ \E i \in DOMAIN out' : out'[i].event = ClosedEvent(k)
  \/ closing'[k] > closing[k]
  \/ IsOpen(k)' /\ TurnShown(k) /\ RecordShown(k)

LEMMA InsertCloses ==
  ASSUME TypeOK, NEW k \in Key, NEW s \in SessType, Insert(k, s)
  PROVE  \A j \in Key \ {k} : sess'[j] = sess[j] \/ closing'[j] > closing[j]
  <1> DEFINE r   == [s EXCEPT !.record = strays[k] \o @]
             now == [sess EXCEPT ![k] = r]
  <1>1. \A j \in Key \ {k} : now[j] = sess[j]
    BY DEF TypeOK
  <1>2. PICK dropped :
           /\ sess' = [j \in Key |-> IF j \in dropped THEN Absent ELSE now[j]]
           /\ closing' = [j \in Key |-> closing[j] + IF j \in dropped THEN 1 ELSE 0]
    BY DEF Insert
  <1> HIDE DEF now
  <1> TAKE j \in Key \ {k}
  <1>3. CASE j \in dropped
    <2>1. closing'[j] = closing[j] + 1 /\ closing[j] \in Nat
      BY <1>2, <1>3 DEF TypeOK
    <2> QED
      BY <2>1
  <1>4. CASE j \notin dropped
    BY <1>1, <1>2, <1>4
  <1> QED
    BY <1>3, <1>4

\* What is not of turns or updates shows nothing.
LEMMA QuietShows ==
  ASSUME NEW k \in Key, IsOpen(k), sess'[k] = sess[k], TypeOK, Quietly
  PROVE  StepShows(k)
  <1>1. \A i \in DOMAIN out' : out'[i].event \in QuietSaid
    BY QuietSays
  <1>2. \A e \in QuietSaid : ~TurnOf(e, k) /\ ~UpdateOf(e, k)
    BY DEF QuietSaid, TurnOf, TurnTypes, UpdateOf
  <1> QED
    BY <1>1, <1>2 DEF StepShows, TurnShown, RecordShown, IsOpen

LEMMA UpdateShows ==
  ASSUME TypeOK, Updating, NEW k \in Key, IsOpen(k)
  PROVE  StepShows(k)
  <1>1. PICK j \in Key, u \in Entry, who \in Clients \cup {None} :
           Record(j, u) /\ Emit(UpdateEvents(j, u, who))
    BY DEF Updating
  <1>2. DOMAIN out' = {} \/ (DOMAIN out' = {1} /\ out'[1].event = Event("update", j, u, who))
    BY <1>1, UpdateSays
  <1>3. CASE j # k
    <2>1. sess'[k] = sess[k]
      BY <1>1, <1>3 DEF Record, TypeOK
    <2>2. \A i \in DOMAIN out' : ~TurnOf(out'[i].event, k) /\ ~UpdateOf(out'[i].event, k)
      BY <1>2, <1>3 DEF Event, TurnOf, UpdateOf
    <2> QED
      BY <2>1, <2>2 DEF StepShows, TurnShown, RecordShown, IsOpen
  <1>4. CASE j = k
    <2>1. sess' = [sess EXCEPT ![k] = [sess[k] EXCEPT !.record = Append(@, u)]]
      BY <1>1, <1>4 DEF Record, IsOpen
    <2>2. sess'[k] = [sess[k] EXCEPT !.record = Append(@, u)] /\ sess[k] \in SessType
      BY <2>1 DEF TypeOK
    <2>3. IsOpen(k)' /\ Latest(sess'[k]) = Latest(sess[k]) /\ sess'[k].record = Append(sess[k].record, u)
      BY <2>2 DEF SessType, IsOpen, Latest
    <2>4. DOMAIN out' = {1} /\ out'[1].event = Event("update", k, u, who)
      BY <1>1, <1>4, UpdateSays
    <2>5. /\ \A i \in DOMAIN out' : ~TurnOf(out'[i].event, k) /\ i = 1
          /\ UpdateOf(out'[1].event, k) /\ out'[1].event.of = u
      BY <2>4 DEF Event, TurnOf, TurnTypes, UpdateOf
    <2>6. TurnShown(k) /\ RecordShown(k)
      BY <2>3, <2>4, <2>5 DEF TurnShown, RecordShown
    <2> QED
      BY <2>3, <2>6 DEF StepShows
  <1> QED
    BY <1>3, <1>4

LEMMA PromptShows ==
  ASSUME CoreInv, NEW c \in Clients, NEW j \in Key, Prompt(c, j), NEW k \in Key, IsOpen(k)
  PROVE  StepShows(k)
  <1> DEFINE t == One(UnusedTurns)
  <1>1. /\ DOMAIN out' = {1, 2} /\ t \in Turns
        /\ out'[1].event = Event("running", j, t, None)
        /\ out'[2].event = Event("update", j, t, c)
    BY PromptSays DEF UnusedTurns
  <1>2. sess' = [sess EXCEPT ![j] = [sess[j] EXCEPT !.turn = t, !.record = Append(@, t)]]
    BY DEF Prompt
  <1> HIDE DEF t
  <1>3. CASE j # k
    <2>1. sess'[k] = sess[k]
      BY <1>2, <1>3 DEF CoreInv, TypeOK
    <2>2. \A i \in DOMAIN out' : ~TurnOf(out'[i].event, k) /\ ~UpdateOf(out'[i].event, k)
      BY <1>1, <1>3 DEF Event, TurnOf, UpdateOf
    <2> QED
      BY <2>1, <2>2 DEF StepShows, TurnShown, RecordShown, IsOpen
  <1>4. CASE j = k
    <2>1. sess'[k] = [sess[k] EXCEPT !.turn = t, !.record = Append(@, t)] /\ sess[k] \in SessType
      BY <1>2, <1>4 DEF CoreInv, TypeOK
    <2>2. t # None
      BY <1>1, HostAssumption DEF HostAssumption
    <2>3. /\ IsOpen(k)' /\ Latest(sess'[k]) = <<"running", t>>
          /\ sess'[k].record = Append(sess[k].record, t)
      BY <2>1, <2>2 DEF SessType, IsOpen, Latest
    <2>4. /\ TurnOf(out'[1].event, k) /\ out'[1].event.type = "running" /\ out'[1].event.of = t
          /\ UpdateOf(out'[2].event, k) /\ out'[2].event.of = t
          /\ ~TurnOf(out'[2].event, k) /\ ~UpdateOf(out'[1].event, k)
      BY <1>1, <1>4 DEF Event, TurnOf, TurnTypes, UpdateOf
    <2>5. TurnShown(k)
      <3>1. 1 \in DOMAIN out' /\ \A i \in DOMAIN out' : TurnOf(out'[i].event, k) => i = 1
        BY <1>1, <2>4
      <3> QED
        BY <2>3, <2>4, <3>1 DEF TurnShown
    <2>6. RecordShown(k)
      <3>1. 2 \in DOMAIN out' /\ \A i \in DOMAIN out' : UpdateOf(out'[i].event, k) => i = 2
        BY <1>1, <2>4
      <3> QED
        BY <1>1, <2>3, <2>4, <3>1 DEF RecordShown, Entry
    <2> QED
      BY <2>3, <2>5, <2>6 DEF StepShows
  <1> QED
    BY <1>3, <1>4

LEMMA EndShows ==
  ASSUME CoreInv, NEW t \in Turns, End(t), NEW k \in Key, IsOpen(k)
  PROVE  StepShows(k)
  <1> DEFINE j    == turn[t].key
             slot == sess[j].turn
             who  == IF slot = None THEN None ELSE turn[slot].client
  <1>1. PICK n \in Nat :
           /\ DOMAIN out' = 1..(n + 2)
           /\ \A i \in 1..n : out'[i].event \in QuietSaid
           /\ out'[n + 1].event = Event("answered", j, t, who)
           /\ out'[n + 2].event = Event("ended", j, t, None)
    BY EndSays
  <1>2. sess' = IF sess[j].held
                THEN [sess EXCEPT ![j] = [sess[j] EXCEPT !.turn = None, !.ended = t]] ELSE sess
    BY DEF End
  <1> HIDE DEF j, who
  <1>3. \A e \in QuietSaid : ~TurnOf(e, k) /\ ~UpdateOf(e, k)
    BY DEF QuietSaid, TurnOf, TurnTypes, UpdateOf
  <1>4. \A i \in DOMAIN out' : ~UpdateOf(out'[i].event, k) /\ (TurnOf(out'[i].event, k) => i = n + 2)
    <2> TAKE i \in DOMAIN out'
    <2>1. CASE i \in 1..n
      BY <1>1, <1>3, <2>1
    <2>2. CASE i = n + 1
      BY <1>1, <2>2 DEF Event, TurnOf, TurnTypes, UpdateOf
    <2>3. CASE i = n + 2
      BY <1>1, <2>3 DEF Event, UpdateOf
    <2> QED
      BY <1>1, <2>1, <2>2, <2>3
  <1>5. n + 2 \in DOMAIN out' /\ (TurnOf(out'[n + 2].event, k) <=> j = k)
        /\ out'[n + 2].event.type = "ended" /\ out'[n + 2].event.of = t
    BY <1>1 DEF Event, TurnOf, TurnTypes
  <1>6. CASE j # k
    <2>1. sess'[k] = sess[k]
      BY <1>2, <1>6 DEF CoreInv, TypeOK
    <2>2. \A i \in DOMAIN out' : ~TurnOf(out'[i].event, k)
      BY <1>4, <1>5, <1>6
    <2> QED
      BY <1>4, <2>1, <2>2 DEF StepShows, TurnShown, RecordShown, IsOpen
  <1>7. CASE j = k
    <2>1. sess'[k] = [sess[k] EXCEPT !.turn = None, !.ended = t] /\ sess[k] \in SessType
      BY <1>2, <1>7 DEF CoreInv, TypeOK, IsOpen
    <2>2. t # None
      BY HostAssumption DEF HostAssumption
    <2>3. /\ IsOpen(k)' /\ Latest(sess'[k]) = <<"ended", t>>
          /\ sess'[k].record = sess[k].record
      BY <2>1, <2>2 DEF SessType, IsOpen, Latest
    <2> QED
      BY <1>4, <1>5, <1>7, <2>3 DEF StepShows, TurnShown, RecordShown
  <1> QED
    BY <1>6, <1>7

\* A session that everybody else's conversation is not in, and that is open, is
\* shown what happens to it.
LEMMA StepShown ==
  ASSUME CoreInv, TurnInv, Next, NEW k \in Key, IsOpen(k), AgentOf(k) \notin shared
  PROVE  StepShows(k)
  <1>a. ASSUME Quietly, UNCHANGED sess PROVE StepShows(k)
    BY <1>a, QuietShows DEF CoreInv
  <1>b. ASSUME Silent, UNCHANGED turn, NEW j \in Key, NEW opening \in BOOLEAN, ~sess[j].held,
               Insert(j, Fresh(opening, <<>>))
        PROVE  StepShows(k)
    <2>1. Fresh(opening, <<>>) \in SessType /\ j # k
      BY <1>b, FreshTyped DEF IsOpen
    <2>2. sess'[k] = sess[k] \/ closing'[k] > closing[k]
      BY <1>b, <2>1, InsertCloses DEF CoreInv
    <2> QED
      BY <1>b, <2>2, QuietShows, SilentQuietly DEF CoreInv, StepShows
  <1>c. ASSUME LeavesTold, Quietly, \A j \in Key : j \notin Held \ Held' => sess'[j] = sess[j]
        PROVE  StepShows(k)
    <2>1. CASE k \in Held \ Held'
      BY <1>c, <2>1 DEF LeavesTold, StepShows
    <2>2. CASE k \notin Held \ Held'
      BY <1>c, <2>2, QuietShows DEF CoreInv
    <2> QED
      BY <2>1, <2>2
  <1>1. ASSUME NEW c \in Clients, ClientCall(c) \/ ClientAnswer(c) PROVE StepShows(k)
    <2>1. CASE \E j \in Key : Prompt(c, j)
      BY <2>1, PromptShows
    <2>2. CASE Updating
      BY <2>2, UpdateShows DEF CoreInv
    <2>3. CASE Quietly /\ ~\E j \in Key : Prompt(c, j)
      BY <1>1, <1>a, <2>3
      DEF ClientCall, NewBegin, Cancel, OpenFromRecord, OpenWait, ChangeBegin, ClientAnswer, Answer,
          heldVars
    <2> QED
      BY <1>1, <2>1, <2>2, <2>3, ClientQuietly
  <1>2. ASSUME NEW c \in Clients, ClientStep(c) PROVE StepShows(k)
    <2>1. op[c].do # "idle" => op[c].key \in Key
      BY DEF CoreInv, TypeOK, OpType, IdleOp
    <2>2. CASE NewAnswered(c)
      <3>1. op[c].key \in Key /\ ~sess[op[c].key].held
        BY <2>1, <2>2 DEF NewAnswered, NewOk, NewErr, TurnInv, NewOK
      <3> QED
        BY <1>a, <1>b, <2>2, <3>1, SilentQuietly DEF NewAnswered, NewOk, NewErr, heldVars
    <2>3. CASE OpenInAgent(c)
      <3>1. op[c].key \in Key /\ Silent /\ UNCHANGED turn
        BY <2>1, <2>3 DEF OpenInAgent
      <3>2. CASE sess[op[c].key].held
        <4> DEFINE j == op[c].key
        <4>1. sess' = [sess EXCEPT ![j] = [sess[j] EXCEPT !.record = <<>>, !.opening = TRUE]]
          BY <2>3, <3>2 DEF OpenInAgent
        <4>2. j # k
          BY <2>3 DEF OpenInAgent, AnsweredByNow, Refresh
        <4> HIDE DEF j
        <4>3. sess'[k] = sess[k]
          BY <4>1, <4>2 DEF CoreInv, TypeOK
        <4> QED
          BY <3>1, <4>3, QuietShows, SilentQuietly DEF CoreInv
      <3>3. CASE ~sess[op[c].key].held
        BY <1>b, <2>3, <3>1, <3>3 DEF OpenInAgent
      <3> QED
        BY <3>2, <3>3
    <2>4. CASE OpenLate(c) \/ ChangeErr(c)
      BY <1>a, <2>4, SilentQuietly DEF OpenLate, ChangeErr, heldVars
    <2>5. CASE OpenOk(c) \/ OpenErr(c)
      <3> DEFINE j == op[c].key
                 replay == IF op[c].how = "load" THEN SubSeq(hist[j], 1, op[c].upto) ELSE <<>>
      <3>1. j \in Key /\ op[c].do = "open" /\ Silent /\ UNCHANGED turn
        BY <2>1, <2>5 DEF OpenOk, OpenErr
      <3>2. j # k
        BY <3>1 DEF TurnInv, OpenOK, IsOpen
      <3>3. \/ UNCHANGED sess
            \/ \E v : sess' = [sess EXCEPT ![j] = v]
            \/ Forget({j})
        <4>1. CASE OpenOk(c)
          <5>1. \/ UNCHANGED sess
                \/ sess' = [sess EXCEPT ![j] = [sess[j] EXCEPT !.record = @ \o replay, !.opening = FALSE]]
            BY <4>1 DEF OpenOk
          <5> QED
            BY <5>1
        <4>2. CASE OpenErr(c)
          <5>1. \/ sess' = [sess EXCEPT ![j] = [sess[j] EXCEPT !.opening = FALSE]]
                \/ Forget({j})
            BY <4>2 DEF OpenErr, StillOpen
          <5> QED
            BY <5>1
        <4> QED
          BY <2>5, <4>1, <4>2
      <3> HIDE DEF j, replay
      <3>4. sess'[k] = sess[k]
        BY <3>1, <3>2, <3>3 DEF Forget, CoreInv, TypeOK
      <3> QED
        BY <3>1, <3>4, QuietShows, SilentQuietly DEF CoreInv
    <2>6. CASE ModeOk(c)
      <3>1. op[c].key \in Key
        BY <2>1, <2>6 DEF ModeOk
      <3>2. Updating
        BY <2>6, <3>1, UpdateOne DEF ModeOk, Updating
      <3> QED
        BY <3>2, UpdateShows DEF CoreInv
    <2>7. CASE CloseOk(c)
      <3>1. op[c].key \in Key /\ Forget({op[c].key}) /\ ~ModeOk(c)
        BY <2>1, <2>7 DEF CloseOk, ModeOk
      <3>2. sess'[op[c].key] = Absent /\ \A j \in Key \ {op[c].key} : sess'[j] = sess[j]
        BY <3>1, ForgetEffect DEF CoreInv
      <3>3. LeavesTold
        BY <2>7, CloseOkTells
      <3>4. CASE op[c].key = k
        <4>1. k \in Held \ Held'
          BY <3>2, <3>4, AbsentIs DEF Held, IsOpen
        <4> QED
          BY <3>3, <4>1 DEF LeavesTold, StepShows
      <3>5. CASE op[c].key # k
        <4>1. sess'[k] = sess[k]
          BY <3>2, <3>5
        <4>2. Quietly
          BY <2>7, CloseQuietly
        <4> QED
          BY <4>1, <4>2, QuietShows DEF CoreInv
      <3> QED
        BY <3>4, <3>5
    <2> QED
      BY <1>2, <2>2, <2>3, <2>4, <2>5, <2>6, <2>7 DEF ClientStep
  <1>3. CASE AgentStep
    <2>1. CASE \E t \in Turns : End(t)
      BY <2>1, EndShows
    <2>2. CASE Updating
      BY <2>2, UpdateShows DEF CoreInv
    <2>3. CASE Quietly /\ ~\E t \in Turns : End(t)
      <3>1. ASSUME NEW j \in Key, AgentUpdates(j) PROVE Updating
        BY <3>1, UpdateOne DEF AgentUpdates, Updating
      <3>2. CASE ~\E j \in Key : AgentUpdates(j)
        BY <1>3, <1>a, <2>3, <3>2
        DEF AgentStep, Withdraw, ChangedElsewhere, CloseArrives, AskPermission, heldVars
      <3> QED
        BY <2>2, <3>1, <3>2
    <2> QED
      BY <1>3, <2>1, <2>2, <2>3, AgentQuietly
  <1>4. CASE RemoveFromRoster
    BY <1>4, <1>a, SilentQuietly DEF RemoveFromRoster, heldVars
  <1>5. ASSUME NEW ag \in Agents, RemoveSessions(ag) PROVE StepShows(k)
    <2>1. LeavesTold
      BY <1>5, RemoveTells
    <2>2. Forget({j \in Held : AgentOf(j) = ag})
      BY <1>5 DEF RemoveSessions
    <2>3. Quietly
      BY <1>5, RemoveQuietly
    <2>4. \A j \in Key : j \notin Held \ Held' => sess'[j] = sess[j]
      BY <2>2, ForgetEffect, AbsentIs DEF Held, CoreInv
    <2> QED
      BY <1>c, <2>1, <2>3, <2>4
  <1> QED
    BY <1>1, <1>2, <1>3, <1>4, <1>5 DEF Next, RemoveStep

\* A session recorded anew is open, or closed in its agent at once.
LEMMA InsertOwn ==
  ASSUME TypeOK, NEW k \in Key, NEW s \in SessType, Insert(k, s),
         s.held, ~s.opening, s.turn = None, s.ended = None
  PROVE  /\ sess'[k] = Absent \/ IsOpen(k)'
         /\ Latest(sess'[k]) = None
         /\ sess'[k] = Absent => closing'[k] > closing[k]
  <1> DEFINE r   == [s EXCEPT !.record = strays[k] \o @]
             now == [sess EXCEPT ![k] = r]
  <1>1. now[k].held /\ ~now[k].opening /\ now[k].turn = None /\ now[k].ended = None
    BY DEF TypeOK, SessType
  <1>2. PICK dropped :
           /\ sess' = [j \in Key |-> IF j \in dropped THEN Absent ELSE now[j]]
           /\ closing' = [j \in Key |-> closing[j] + IF j \in dropped THEN 1 ELSE 0]
    BY DEF Insert
  <1> HIDE DEF now
  <1>3. ~Absent.held /\ Absent.turn = None /\ Absent.ended = None
    BY DEF Absent
  <1>4. CASE k \in dropped
    <2>1. sess'[k] = Absent /\ closing'[k] = closing[k] + 1 /\ closing[k] \in Nat
      BY <1>2, <1>4 DEF TypeOK
    <2> QED
      BY <1>3, <2>1 DEF Latest
  <1>5. CASE k \notin dropped
    BY <1>1, <1>2, <1>3, <1>5 DEF Latest, IsOpen
  <1> QED
    BY <1>4, <1>5

-----------------------------------------------------------------------------
(* Sequences that follow one another *)

\* The sequence s goes up to b in r, and what comes after b in r is what the
\* events of q at U are of, each once and in order.
Reaches(s, r, q, U, b, at) ==
  /\ Len(s) <= b /\ b <= Len(r)
  /\ \A i \in 1..Len(s) : s[i] = r[b - Len(s) + i]
  /\ \A i \in U : b < at[i] /\ at[i] <= Len(r) /\ q[i].event.of = r[at[i]]
  /\ \A i, j \in U : i < j => at[i] < at[j]
  /\ \A p \in (b + 1)..Len(r) : \E i \in U : at[i] = p
Follows(s, r, q, U) == \E b \in Nat : \E at \in [U -> Nat] : Reaches(s, r, q, U, b, at)

LEMMA FollowsAll ==
  ASSUME NEW S, NEW r \in Seq(S), NEW s \in Seq(S), s = r \/ s = <<>>, NEW q
  PROVE  Follows(s, r, q, {})
  <1>1. Len(r) \in Nat /\ Len(s) \in Nat /\ Len(s) <= Len(r)
    BY LenProperties
  <1>2. PICK at \in [{} -> Nat] : TRUE
    <2>1. [i \in {} |-> 0] \in [{} -> Nat]
      OBVIOUS
    <2> QED
      BY <2>1
  <1>3. \A i \in 1..Len(s) : s[i] = r[Len(r) - Len(s) + i]
    <2>1. CASE s = r
      BY <1>1, <2>1
    <2>2. CASE s = <<>>
      BY <2>2
    <2> QED
      BY <2>1, <2>2
  <1>4. Reaches(s, r, q, {}, Len(r), at)
    BY <1>1, <1>3 DEF Reaches
  <1> QED
    BY <1>1, <1>2, <1>4 DEF Follows

LEMMA FollowsSame ==
  ASSUME NEW s, NEW r, NEW q, NEW p, NEW U, Follows(s, r, q, U), \A i \in U : p[i] = q[i]
  PROVE  Follows(s, r, p, U)
  <1>1. PICK b \in Nat, at \in [U -> Nat] : Reaches(s, r, q, U, b, at)
    BY DEF Follows
  <1>2. Reaches(s, r, p, U, b, at)
    BY <1>1 DEF Reaches
  <1> QED
    BY <1>2 DEF Follows

\* One more is recorded, and told last.
LEMMA FollowsMore ==
  ASSUME NEW S, NEW s \in Seq(S), NEW r \in Seq(S), NEW q, NEW p, NEW U, U \subseteq Nat,
         Follows(s, r, q, U), \A i \in U : p[i] = q[i],
         NEW m \in Nat, \A i \in U : i < m, NEW v \in S, p[m].event.of = v
  PROVE  Follows(s, Append(r, v), p, U \cup {m})
  <1>1. PICK b \in Nat, at \in [U -> Nat] : Reaches(s, r, q, U, b, at)
    BY DEF Follows
  <1> DEFINE n == Len(r)
             w == Append(r, v)
             to == [i \in U \cup {m} |-> IF i = m THEN n + 1 ELSE at[i]]
  <1>2. /\ Len(w) = n + 1 /\ n \in Nat /\ Len(s) \in Nat
        /\ w[n + 1] = v /\ \A i \in 1..n : w[i] = r[i]
    BY AppendProperties, LenProperties
  <1>3. to \in [U \cup {m} -> Nat] /\ to[m] = n + 1 /\ \A i \in U : to[i] = at[i] /\ i # m
    BY <1>2
  <1> HIDE DEF n, w, to
  <1>4. /\ Len(s) <= b /\ b <= n
        /\ \A i \in 1..Len(s) : s[i] = r[b - Len(s) + i]
        /\ \A i \in U : b < at[i] /\ at[i] <= n /\ q[i].event.of = r[at[i]]
        /\ \A i, j \in U : i < j => at[i] < at[j]
        /\ \A x \in (b + 1)..n : \E i \in U : at[i] = x
    BY <1>1 DEF Reaches, n
  <1>5. b <= n + 1 /\ \A i \in 1..Len(s) : s[i] = w[b - Len(s) + i]
    <2>1. \A i \in 1..Len(s) : b - Len(s) + i \in 1..n
      BY <1>2, <1>4
    <2> QED
      BY <1>2, <1>4, <2>1
  <1>6. \A i \in U \cup {m} : b < to[i] /\ to[i] <= n + 1 /\ p[i].event.of = w[to[i]]
    <2>1. b < to[m] /\ to[m] <= n + 1 /\ p[m].event.of = w[to[m]]
      BY <1>2, <1>3, <1>4
    <2>2. ASSUME NEW i \in U PROVE b < to[i] /\ to[i] <= n + 1 /\ p[i].event.of = w[to[i]]
      <3>1. at[i] \in 1..n
        BY <1>2, <1>4
      <3> QED
        BY <1>2, <1>3, <1>4, <3>1
    <2> QED
      BY <2>1, <2>2
  <1>7. \A i, j \in U \cup {m} : i < j => to[i] < to[j]
    <2> SUFFICES ASSUME NEW i \in U \cup {m}, NEW j \in U \cup {m}, i < j PROVE to[i] < to[j]
      OBVIOUS
    <2>1. CASE i \in U /\ j \in U
      BY <1>3, <1>4, <2>1
    <2>2. CASE i \in U /\ j = m
      <3>1. at[i] <= n /\ at[i] \in Nat /\ to[i] = at[i] /\ to[j] = n + 1
        BY <1>3, <1>4, <2>2
      <3> QED
        BY <1>2, <3>1
    <2>3. i # m
      <3> SUFFICES ASSUME i = m PROVE FALSE
        OBVIOUS
      <3>1. j \in U \/ j = m
        OBVIOUS
      <3> QED
        BY <3>1
    <2> QED
      BY <2>1, <2>2, <2>3
  <1>8. \A x \in (b + 1)..(n + 1) : \E i \in U \cup {m} : to[i] = x
    <2> TAKE x \in (b + 1)..(n + 1)
    <2>1. CASE x = n + 1
      BY <1>3, <2>1
    <2>2. CASE x # n + 1
      <3>1. x \in (b + 1)..n
        BY <1>2, <2>2
      <3> QED
        BY <1>3, <1>4, <3>1
    <2> QED
      BY <2>1, <2>2
  <1>9. Reaches(s, w, p, U \cup {m}, b, to)
    BY <1>2, <1>4, <1>5, <1>6, <1>7, <1>8 DEF Reaches
  <1> QED
    BY <1>3, <1>9 DEF Follows, w

\* The first event goes, and was none of those.
LEMMA FollowsShift ==
  ASSUME NEW s, NEW r, NEW q, NEW p, NEW U \in SUBSET (Nat \ {0}), Follows(s, r, q, U), 1 \notin U,
         NEW V, V \subseteq Nat, \A i \in Nat : i \in V <=> i + 1 \in U,
         \A i \in V : p[i] = q[i + 1]
  PROVE  Follows(s, r, p, V)
  <1>1. PICK b \in Nat, at \in [U -> Nat] : Reaches(s, r, q, U, b, at)
    BY DEF Follows
  <1> DEFINE to == [i \in V |-> at[i + 1]]
  <1>2. to \in [V -> Nat] /\ \A i \in V : i + 1 \in U /\ to[i] = at[i + 1]
    OBVIOUS
  <1>3. \A i \in U : i - 1 \in V /\ to[i - 1] = at[i]
    <2> TAKE i \in U
    <2>1. i - 1 \in Nat /\ (i - 1) + 1 = i
      OBVIOUS
    <2> QED
      BY <2>1
  <1> HIDE DEF to
  <1>4. \A i, j \in V : i < j => to[i] < to[j]
    <2> SUFFICES ASSUME NEW i \in V, NEW j \in V, i < j PROVE to[i] < to[j]
      OBVIOUS
    <2>1. i + 1 < j + 1
      OBVIOUS
    <2> QED
      BY <1>1, <1>2, <2>1 DEF Reaches
  <1>a. /\ \A i \in U : b < at[i] /\ at[i] <= Len(r) /\ q[i].event.of = r[at[i]]
        /\ \A x \in (b + 1)..Len(r) : \E i \in U : at[i] = x
    BY <1>1 DEF Reaches
  <1>5. \A x \in (b + 1)..Len(r) : \E i \in V : to[i] = x
    <2> TAKE x \in (b + 1)..Len(r)
    <2>1. PICK i \in U : at[i] = x
      BY <1>a
    <2> QED
      BY <1>3, <2>1
  <1>6. \A i \in V : b < to[i] /\ to[i] <= Len(r) /\ p[i].event.of = r[to[i]]
    <2> TAKE i \in V
    <2>1. i + 1 \in U /\ to[i] = at[i + 1] /\ p[i] = q[i + 1]
      BY <1>2
    <2> QED
      BY <1>a, <2>1
  <1>7. Reaches(s, r, p, V, b, to)
    BY <1>1, <1>4, <1>5, <1>6 DEF Reaches
  <1> QED
    BY <1>2, <1>7 DEF Follows

\* The first event goes, and was the first of those.
LEMMA FollowsTake ==
  ASSUME NEW S, NEW s \in Seq(S), NEW r \in Seq(S), NEW q, NEW p, NEW U \in SUBSET (Nat \ {0}),
         Follows(s, r, q, U), 1 \in U, q[1].event.of \in S,
         NEW V, V \subseteq Nat, \A i \in Nat : i \in V <=> i + 1 \in U /\ i # 0,
         \A i \in V : p[i] = q[i + 1]
  PROVE  Follows(Append(s, q[1].event.of), r, p, V)
  <1>1. PICK b \in Nat, at \in [U -> Nat] : Reaches(s, r, q, U, b, at)
    BY DEF Follows
  <1> DEFINE to == [i \in V |-> at[i + 1]]
             v == q[1].event.of
             t == Append(s, v)
             n == Len(s)
  <1>2. to \in [V -> Nat] /\ \A i \in V : i + 1 \in U /\ to[i] = at[i + 1] /\ i # 0
    OBVIOUS
  <1>3. \A i \in U : i # 1 => i - 1 \in V /\ to[i - 1] = at[i]
    <2> SUFFICES ASSUME NEW i \in U, i # 1 PROVE i - 1 \in V /\ to[i - 1] = at[i]
      OBVIOUS
    <2>1. i - 1 \in Nat /\ (i - 1) + 1 = i /\ i - 1 # 0
      OBVIOUS
    <2> QED
      BY <2>1
  <1>4. Len(t) = n + 1 /\ n \in Nat /\ t[n + 1] = v /\ \A i \in 1..n : t[i] = s[i]
    BY AppendProperties, LenProperties
  <1>5. Len(r) \in Nat
    BY LenProperties
  <1> HIDE DEF to, t, n
  <1>6. /\ n <= b /\ b <= Len(r)
        /\ \A i \in 1..n : s[i] = r[b - n + i]
        /\ \A i \in U : b < at[i] /\ at[i] <= Len(r) /\ q[i].event.of = r[at[i]]
        /\ \A i, j \in U : i < j => at[i] < at[j]
        /\ \A x \in (b + 1)..Len(r) : \E i \in U : at[i] = x
    BY <1>1 DEF Reaches, n
  <1>7. at[1] = b + 1
    <2>1. at[1] \in Nat /\ b < at[1] /\ at[1] <= Len(r)
      BY <1>6
    <2>2. b + 1 \in (b + 1)..Len(r)
      BY <1>5, <2>1
    <2>3. PICK i \in U : at[i] = b + 1
      BY <1>6, <2>2
    <2>4. i = 1 \/ 1 < i
      OBVIOUS
    <2>5. CASE 1 < i
      <3>1. at[1] < at[i]
        BY <1>6, <2>5
      <3> QED
        BY <2>1, <2>3, <3>1
    <2> QED
      BY <2>3, <2>4, <2>5
  <1>8. \A i \in 1..(n + 1) : t[i] = r[(b + 1) - (n + 1) + i]
    <2> TAKE i \in 1..(n + 1)
    <2>1. CASE i = n + 1
      <3>1. (b + 1) - (n + 1) + i = b + 1
        BY <1>4, <2>1
      <3>2. v = r[b + 1]
        BY <1>6, <1>7
      <3> QED
        BY <1>4, <2>1, <3>1, <3>2
    <2>2. CASE i # n + 1
      <3>1. i \in 1..n /\ (b + 1) - (n + 1) + i = b - n + i
        BY <1>4, <2>2
      <3> QED
        BY <1>4, <1>6, <3>1
    <2> QED
      BY <2>1, <2>2
  <1>9. \A i \in V : b + 1 < to[i] /\ to[i] <= Len(r) /\ p[i].event.of = r[to[i]]
    <2> TAKE i \in V
    <2>1. i + 1 \in U /\ 1 < i + 1 /\ to[i] = at[i + 1] /\ to[i] \in Nat
      BY <1>2
    <2>2. at[1] < at[i + 1]
      BY <1>6, <2>1
    <2> QED
      BY <1>6, <1>7, <2>1, <2>2
  <1>10. \A i, j \in V : i < j => to[i] < to[j]
    <2> SUFFICES ASSUME NEW i \in V, NEW j \in V, i < j PROVE to[i] < to[j]
      OBVIOUS
    <2>1. i + 1 < j + 1
      OBVIOUS
    <2> QED
      BY <1>2, <1>6, <2>1
  <1>11. \A x \in ((b + 1) + 1)..Len(r) : \E i \in V : to[i] = x
    <2> TAKE x \in ((b + 1) + 1)..Len(r)
    <2>1. x \in (b + 1)..Len(r) /\ x # b + 1
      BY <1>5
    <2>2. PICK i \in U : at[i] = x
      BY <1>6, <2>1
    <2> QED
      BY <1>3, <1>7, <2>1, <2>2
  <1>12. n + 1 <= b + 1 /\ b + 1 <= Len(r)
    BY <1>4, <1>5, <1>6, <1>7
  <1>13. Reaches(t, r, p, V, b + 1, to)
    BY <1>4, <1>8, <1>9, <1>10, <1>11, <1>12 DEF Reaches
  <1> QED
    BY <1>2, <1>13 DEF Follows, t

\* With nothing under way s is the end of r.
LEMMA FollowsSuffix ==
  ASSUME NEW S, NEW s \in Seq(S), NEW r \in Seq(S), NEW q, Follows(s, r, q, {})
  PROVE  IsSuffix(s, r)
  <1>1. PICK b \in Nat, at \in [{} -> Nat] : Reaches(s, r, q, {}, b, at)
    BY DEF Follows
  <1>2. Len(r) \in Nat /\ Len(s) \in Nat
    BY LenProperties
  <1>3. b = Len(r)
    <2>1. b + 1 \notin (b + 1)..Len(r) /\ b <= Len(r)
      BY <1>1 DEF Reaches
    <2> QED
      BY <1>2, <2>1
  <1> DEFINE n == Len(s)
             m == Len(r)
             rs == Reverse(s)
             rr == Reverse(r)
  <1>4. n \in Nat /\ m \in Nat /\ n <= m /\ \A i \in 1..n : s[i] = r[m - n + i]
    BY <1>1, <1>2, <1>3 DEF Reaches
  <1>5. /\ rs \in Seq(S) /\ Len(rs) = n /\ \A i \in 1..n : rs[i] = s[(n - i) + 1]
        /\ rr \in Seq(S) /\ Len(rr) = m /\ \A i \in 1..m : rr[i] = r[(m - i) + 1]
    BY <1>4 DEF Reverse
  <1>6. \A i \in 1..n : rs[i] = rr[i]
    <2> TAKE i \in 1..n
    <2>1. (n - i) + 1 \in 1..n /\ i \in 1..m /\ m - n + ((n - i) + 1) = (m - i) + 1
      BY <1>4
    <2> QED
      BY <1>4, <1>5, <2>1
  <1> HIDE DEF rs, rr, n, m
  <1>7. SubSeq(rs, 1, n) = SubSeq(rr, 1, n)
    <2>1. /\ SubSeq(rs, 1, n) = [i \in 1..n |-> rs[i]]
          /\ SubSeq(rr, 1, n) = [i \in 1..n |-> rr[i]]
      BY <1>4, <1>5
    <2> QED
      BY <1>6, <2>1
  <1> QED
    BY <1>4, <1>5, <1>7 DEF IsSuffix, IsPrefix, rs, rr

-----------------------------------------------------------------------------
(* What a device sees is what the host has *)

\* The agent has made k, and its answer to session/new has come.
Made(k) == k \in issued /\ \A c \in Clients : op[c].do = "new" => op[c].key # k

\* c follows k: attached since the host holds it, no word of its end under way.
Sighted(c, k) ==
  /\ attached[c][k] # None
  /\ <<c, k>> \notin outlived /\ AgentOf(k) \notin shared
  /\ \A i \in DOMAIN inbox[c] : inbox[c][i].event # ClosedEvent(k)

\* The events under way to c that its snapshot of k has not.
After(c, k, types) ==
  {i \in DOMAIN inbox[c] : /\ inbox[c][i].event.key = k /\ inbox[c][i].event.type \in types
                           /\ attached[c][k] < inbox[c][i].seq}

\* The last of the turns' events under way says how k is now, and with none
\* under way c was sent it.
TurnSeen(c, k) ==
  LET T == After(c, k, TurnTypes)
  IN  /\ T = {} => shown[c][k] = Latest(sess[k])
      /\ \A i \in T : (\A j \in T : j <= i) =>
            Latest(sess[k]) = <<inbox[c][i].event.type, inbox[c][i].event.of>>
\* What c was sent, and what is under way, is the end of the record.
RecordSeen(c, k) == Follows(seen[c][k], sess[k].record, inbox[c], After(c, k, {"update"}))
Sees(c, k) == IsOpen(k) /\ TurnSeen(c, k) /\ RecordSeen(c, k)

Sighting(e) == e.type \in TurnTypes \cup {"update"}
MadeInv ==
  /\ \A t \in Turns : turn[t].state # "none" => Made(turn[t].key)
  /\ \A c \in Clients : \A i \in DOMAIN inbox[c] :
        Sighting(inbox[c][i].event) => Made(inbox[c][i].event.key)
\* c is attached to k at a moment past, and sees it if it follows it.
SeenOK(c, k) == /\ attached[c][k] # None => attached[c][k] <= seq
                /\ Sighted(c, k) => Sees(c, k)
SightInv == MadeInv /\ \A c \in Clients, k \in Key : SeenOK(c, k)

\* What is told adds to what is under way.
ToldOf(k, types) == {i \in DOMAIN out' : out'[i].event.key = k /\ out'[i].event.type \in types}

LEMMA AfterTold ==
  ASSUME InboxOK, Numbered, Tell, NEW c \in Clients, c \in up, NEW k \in Key, NEW types,
         seq \in Nat, attached[c][k] \in Nat, attached[c][k] <= seq,
         attached'[c][k] = attached[c][k]
  PROVE  After(c, k, types)' = After(c, k, types) \cup {Len(inbox[c]) + i : i \in ToldOf(k, types)}
  <1> DEFINE n   == Len(inbox[c])
             new == ToldOf(k, types)
  <1> USE DEF ToldOf
  <1>1. /\ DOMAIN inbox[c] \subseteq DOMAIN inbox'[c]
        /\ \A i \in DOMAIN inbox[c] : inbox'[c][i] = inbox[c][i]
        /\ \A i \in DOMAIN out' : n + i \in DOMAIN inbox'[c] /\ inbox'[c][n + i] = out'[i]
        /\ \A i \in DOMAIN inbox'[c] : i \in DOMAIN inbox[c] \/ \E j \in DOMAIN out' : i = n + j
    BY TellEffect
  <1>2. \A i \in DOMAIN out' : attached'[c][k] < out'[i].seq
    <2> TAKE i \in DOMAIN out'
    <2>1. i \in Nat \ {0} /\ out'[i].seq = seq + i
      BY LenProperties DEF Numbered
    <2> QED
      BY <2>1
  <1> HIDE DEF n
  <1>3. \A i \in After(c, k, types)' : i \in After(c, k, types) \/ i \in {n + j : j \in new}
    <2> TAKE i \in After(c, k, types)'
    <2>1. /\ i \in DOMAIN inbox'[c] /\ inbox'[c][i].event.key = k
          /\ inbox'[c][i].event.type \in types /\ attached[c][k] < inbox'[c][i].seq
      BY DEF After
    <2>2. CASE i \in DOMAIN inbox[c]
      BY <1>1, <2>1, <2>2 DEF After
    <2>3. ASSUME NEW j \in DOMAIN out', i = n + j PROVE i \in {n + m : m \in new}
      <3>1. j \in new
        BY <1>1, <2>1, <2>3
      <3> QED
        BY <2>3, <3>1
    <2> QED
      BY <1>1, <2>1, <2>2, <2>3
  <1>4. \A i \in After(c, k, types) : i \in After(c, k, types)'
    BY <1>1 DEF After
  <1>5. \A j \in new : n + j \in After(c, k, types)'
    BY <1>1, <1>2 DEF After
  <1> QED
    BY <1>3, <1>4, <1>5 DEF n

\* A session that is shown what happens to it is seen, once what was told is taken.
LEMMA ShownSees ==
  ASSUME TypeOK, SoundInv, Numbered, Tell, NEW c \in Clients, c \in up, NEW k \in Key,
         attached[c][k] \in Nat, attached[c][k] <= seq, attached'[c][k] = attached[c][k],
         seen'[c][k] = seen[c][k], shown'[c][k] = shown[c][k],
         TurnSeen(c, k), RecordSeen(c, k), TurnShown(k), RecordShown(k)
  PROVE  (TurnSeen(c, k) /\ RecordSeen(c, k))'
  <1> DEFINE n == Len(inbox[c])
             T == After(c, k, TurnTypes)
             U == After(c, k, {"update"})
             newT == ToldOf(k, TurnTypes)
             newU == ToldOf(k, {"update"})
  <1>1. /\ DOMAIN inbox[c] \subseteq Nat \ {0} /\ n \in Nat /\ DOMAIN out' \subseteq Nat \ {0}
        /\ \A i \in DOMAIN inbox[c] : inbox'[c][i] = inbox[c][i] /\ i <= n
        /\ \A i \in DOMAIN out' : inbox'[c][n + i] = out'[i]
    <2>1. inbox[c] \in Seq(Stamped)
      BY DEF SoundInv, InboxOK
    <2> QED
      BY <2>1, TellEffect, LenProperties DEF SoundInv
  <1>2. T' = T \cup {n + i : i \in newT}
    BY AfterTold DEF SoundInv, TypeOK
  <1>3. U' = U \cup {n + i : i \in newU}
    BY AfterTold DEF SoundInv, TypeOK
  <1>4. T \subseteq DOMAIN inbox[c] /\ U \subseteq DOMAIN inbox[c]
    BY DEF After
  <1> HIDE DEF n, T, U
  <1>6. TurnSeen(c, k)'
    <2> SUFFICES /\ T' = {} => shown[c][k] = Latest(sess'[k])
                 /\ \A i \in T' : (\A j \in T' : j <= i) =>
                       Latest(sess'[k]) = <<inbox'[c][i].event.type, inbox'[c][i].event.of>>
      BY DEF TurnSeen, T
    <2>1. /\ T = {} => shown[c][k] = Latest(sess[k])
          /\ \A i \in T : (\A j \in T : j <= i) =>
                Latest(sess[k]) = <<inbox[c][i].event.type, inbox[c][i].event.of>>
      BY DEF TurnSeen, T
    <2>2. CASE /\ Latest(sess'[k]) = Latest(sess[k])
               /\ \A i \in DOMAIN out' : ~TurnOf(out'[i].event, k)
      <3>1. newT = {}
        BY <2>2 DEF TurnOf, ToldOf
      <3>2. T' = T
        BY <1>2, <3>1
      <3> HIDE DEF newT
      <3> QED
        BY <1>1, <1>4, <2>1, <2>2, <3>2
    <2>3. ASSUME NEW m \in DOMAIN out', TurnOf(out'[m].event, k),
                 Latest(sess'[k]) = <<out'[m].event.type, out'[m].event.of>>,
                 \A i \in DOMAIN out' : TurnOf(out'[i].event, k) => i = m
          PROVE  /\ T' # {}
                 /\ \A i \in T' : (\A j \in T' : j <= i) =>
                       Latest(sess'[k]) = <<inbox'[c][i].event.type, inbox'[c][i].event.of>>
      <3>1. newT = {m}
        BY <2>3 DEF TurnOf, ToldOf
      <3>2. T' = T \cup {n + m}
        BY <1>2, <3>1
      <3> HIDE DEF newT
      <3>3. ASSUME NEW i \in T', \A j \in T' : j <= i PROVE i = n + m
        <4>1. n + m <= i
          BY <3>2, <3>3
        <4>2. i \in T => i <= n /\ i \in Nat
          BY <1>1, <1>4
        <4> QED
          BY <1>1, <3>2, <4>1, <4>2
      <3>4. inbox'[c][n + m] = out'[m]
        BY <1>1
      <3> QED
        BY <2>3, <3>2, <3>3, <3>4
    <2> QED
      BY <2>2, <2>3 DEF TurnShown
  <1>7. RecordSeen(c, k)'
    <2> SUFFICES Follows(seen[c][k], sess'[k].record, inbox'[c], U')
      BY DEF RecordSeen, U
    <2>1. Follows(seen[c][k], sess[k].record, inbox[c], U)
      BY DEF RecordSeen, U
    <2>2. \A i \in U : inbox'[c][i] = inbox[c][i] /\ i <= n /\ i \in Nat
      BY <1>1, <1>4
    <2>3. CASE /\ sess'[k].record = sess[k].record
               /\ \A i \in DOMAIN out' : ~UpdateOf(out'[i].event, k)
      <3>1. newU = {}
        BY <2>3 DEF UpdateOf, ToldOf
      <3>2. U' = U
        BY <1>3, <3>1
      <3>3. Follows(seen[c][k], sess[k].record, inbox'[c], U)
        BY <2>1, <2>2, FollowsSame
      <3> QED
        BY <2>3, <3>2, <3>3
    <2>4. ASSUME NEW m \in DOMAIN out', UpdateOf(out'[m].event, k), out'[m].event.of \in Entry,
                 sess'[k].record = Append(sess[k].record, out'[m].event.of),
                 \A i \in DOMAIN out' : UpdateOf(out'[i].event, k) => i = m
          PROVE  Follows(seen[c][k], sess'[k].record, inbox'[c], U')
      <3>1. newU = {m}
        BY <2>4 DEF UpdateOf, ToldOf
      <3>2. U' = U \cup {n + m}
        BY <1>3, <3>1
      <3> HIDE DEF newU
      <3>3. seen[c][k] \in Seq(Entry) /\ sess[k].record \in Seq(Entry)
        BY DEF SoundInv, DevicesOK, TypeOK, SessType
      <3>4. /\ n + m \in Nat /\ U \subseteq Nat /\ \A i \in U : i < n + m
            /\ inbox'[c][n + m].event.of = out'[m].event.of
        BY <1>1, <2>2
      <3> DEFINE s == seen[c][k]
                 r == sess[k].record
                 v == out'[m].event.of
                 x == n + m
      <3>5. v \in Entry /\ s \in Seq(Entry) /\ r \in Seq(Entry) /\ x \in Nat
        BY <2>4, <3>3, <3>4
      <3>6. Follows(s, r, inbox[c], U) /\ inbox'[c][x].event.of = v /\ \A i \in U : i < x
        BY <2>1, <3>4
      <3> HIDE DEF s, r, v, x
      <3>7. Follows(s, Append(r, v), inbox'[c], U \cup {x})
        BY <2>2, <3>4, <3>5, <3>6, FollowsMore
      <3> QED
        BY <2>4, <3>2, <3>7 DEF s, r, v, x
    <2> QED
      BY <2>3, <2>4 DEF RecordShown
  <1> QED
    BY <1>6, <1>7

LEMMA OpenMade ==
  ASSUME TurnInv, NEW k \in Key, IsOpen(k)
  PROVE  Made(k)
  BY DEF TurnInv, NewOK, IssuedOK, Held, IsOpen, Made

\* What an agent has made and answered for stays so.
LEMMA MadeStays ==
  ASSUME CoreInv, NEW k \in Key, Made(k), Next
  PROVE  Made(k)'
  <1>1. ASSUME issued \subseteq issued', UNCHANGED op PROVE Made(k)'
    BY <1>1 DEF Made
  <1>2. ASSUME issued \subseteq issued', NEW c \in Clients, \A d \in Clients \ {c} : op'[d] = op[d],
               op'[c].do # "new" \/ op'[c].key # k
        PROVE  Made(k)'
    BY <1>2 DEF Made
  <1>3. ASSUME NEW c \in Clients, NEW do, NEW j, NEW how, Call(c, do, j, how)
        PROVE  op'[c].do = do /\ op'[c].key = j /\ \A d \in Clients \ {c} : op'[d] = op[d]
    BY <1>3 DEF Call, CoreInv, TypeOK
  <1>4. ASSUME NEW c \in Clients, ClientCall(c) PROVE Made(k)'
    <2>1. ASSUME NEW j \in Key, NewBegin(c, j) PROVE Made(k)'
      <3>1. j # k /\ issued \subseteq issued' /\ Call(c, "new", j, None)
        BY <2>1 DEF NewBegin, Made
      <3> QED
        BY <1>2, <1>3, <3>1
    <2>2. ASSUME NEW j \in Key, NEW how \in Opens, OpenWait(c, j, how) PROVE Made(k)'
      <3>1. issued \subseteq issued' /\ Call(c, "wait", j, how)
        BY <2>2 DEF OpenWait, agentVars
      <3> QED
        BY <1>2, <1>3, <3>1
    <2>3. ASSUME NEW j \in Key, NEW method \in {"mode", "close"}, ChangeBegin(c, j, method)
          PROVE  Made(k)'
      <3>1. issued \subseteq issued' /\ Call(c, "change", j, method)
        BY <2>3 DEF ChangeBegin, agentVars
      <3> QED
        BY <1>2, <1>3, <3>1
    <2>4. ASSUME NEW j \in Key,
                 Prompt(c, j) \/ Cancel(c, j) \/ \E how \in Opens : OpenFromRecord(c, j, how)
          PROVE  Made(k)'
      BY <1>1, <2>4 DEF Prompt, Cancel, OpenFromRecord, callVars, agentVars
    <2> QED
      BY <1>4, <2>1, <2>2, <2>3, <2>4 DEF ClientCall
  <1>5. ASSUME NEW c \in Clients, ClientStep(c) PROVE Made(k)'
    <2>1. CASE OpenInAgent(c)
      <3> DEFINE held == sess[op[c].key].held
                 upto == Len(hist[op[c].key])
      <3>1. /\ issued \subseteq issued'
            /\ op' = [op EXCEPT ![c] = [op[c] EXCEPT !.do = "open", !.was = held, !.upto = upto]]
        BY <2>1 DEF OpenInAgent, agentVars
      <3> HIDE DEF held, upto
      <3>2. op[c].do = "wait"
        BY <2>1 DEF OpenInAgent
      <3>3. op'[c].do = "open" /\ \A d \in Clients \ {c} : op'[d] = op[d]
        BY <3>1, <3>2 DEF CoreInv, TypeOK, OpType, IdleOp
      <3> QED
        BY <1>2, <3>1, <3>3
    <2>2. CASE ~OpenInAgent(c)
      <3>1. Done(c) /\ issued \subseteq issued'
        BY <1>5, <2>2 DEF ClientStep, NewAnswered, NewOk, NewErr, OpenLate, OpenOk, OpenErr,
           ChangeErr, ModeOk, CloseOk, agentVars
      <3>2. op'[c] = IdleOp /\ \A d \in Clients \ {c} : op'[d] = op[d]
        BY <3>1 DEF Done, CoreInv, TypeOK
      <3> QED
        BY <1>2, <3>1, <3>2 DEF IdleOp
    <2> QED
      BY <2>1, <2>2
  <1>6. CASE (\E c \in Clients : ClientAnswer(c)) \/ AgentStep \/ RemoveStep
    BY <1>1, <1>6
    DEF ClientAnswer, Answer, AgentStep, End, Withdraw, AgentUpdates, ChangedElsewhere, CloseArrives,
        AskPermission, RemoveStep, RemoveSessions, RemoveFromRoster, callVars, agentVars
  <1> QED
    BY <1>4, <1>5, <1>6 DEF Next

LEMMA SharedStays == ASSUME Next PROVE UNCHANGED shared
  <1>1. ASSUME NEW c \in Clients, ClientCall(c) \/ ClientStep(c) \/ ClientAnswer(c)
        PROVE  UNCHANGED shared
    BY <1>1
    DEF ClientCall, NewBegin, OpenFromRecord, OpenWait, Prompt, Cancel, ChangeBegin, ClientAnswer,
        Answer, ClientStep, NewAnswered, NewOk, NewErr, OpenLate, OpenInAgent, OpenOk, OpenErr,
        ChangeErr, ModeOk, CloseOk, rosterVars
  <1>2. CASE AgentStep
    BY <1>2 DEF AgentStep, End, Withdraw, AgentUpdates, ChangedElsewhere, CloseArrives, AskPermission,
        rosterVars
  <1>3. CASE RemoveStep
    BY <1>3 DEF RemoveStep, RemoveSessions, RemoveFromRoster
  <1> QED
    BY <1>1, <1>2, <1>3 DEF Next

\* Turns are of sessions made, and what is said of a turn or of an update is of
\* a session made before.
LEMMA MadeTold ==
  ASSUME CoreInv, TurnInv, \A t \in Turns : turn[t].state # "none" => Made(turn[t].key), Next
  PROVE  /\ \A t \in Turns : turn'[t].state # "none" => Made(turn'[t].key)
         /\ \A i \in DOMAIN out' : Sighting(out'[i].event) => Made(out'[i].event.key)
  <1>1. \A e \in QuietSaid : ~Sighting(e)
    BY DEF QuietSaid, Sighting, TurnTypes
  <1>2. CASE Quietly
    BY <1>1, <1>2, QuietSays DEF Quietly, CoreInv
  <1>3. CASE Updating
    <2>1. PICK k \in Key, u \in Entry, who \in Clients \cup {None} :
             UNCHANGED turn /\ Emit(UpdateEvents(k, u, who))
      BY <1>3 DEF Updating
    <2>2. IF IsOpen(k) THEN DOMAIN out' = {1} /\ out'[1].event = Event("update", k, u, who)
                       ELSE DOMAIN out' = {}
      BY <2>1, UpdateSays DEF CoreInv
    <2> QED
      BY <2>1, <2>2, OpenMade DEF Event
  <1>4. ASSUME NEW c \in Clients, NEW k \in Key, Prompt(c, k)
        PROVE  /\ \A t \in Turns : turn'[t].state # "none" => Made(turn'[t].key)
               /\ \A i \in DOMAIN out' : Sighting(out'[i].event) => Made(out'[i].event.key)
    <2> DEFINE t == One(UnusedTurns)
    <2>1. /\ DOMAIN out' = {1, 2}
          /\ out'[1].event = Event("running", k, t, None)
          /\ out'[2].event = Event("update", k, t, c)
      BY <1>4, PromptSays
    <2>2. turn' = [turn EXCEPT ![t] = [state |-> "running", key |-> k, client |-> c]] /\ Made(k)
      BY <1>4, OpenMade DEF Prompt
    <2> HIDE DEF t
    <2>3. \A u \in Turns : u = t => turn'[u].key = k
      BY <2>2 DEF CoreInv, TypeOK
    <2>4. \A u \in Turns : u # t => turn'[u] = turn[u]
      BY <2>2 DEF CoreInv, TypeOK
    <2> QED
      BY <2>1, <2>2, <2>3, <2>4 DEF Event
  <1>5. ASSUME NEW t \in Turns, End(t)
        PROVE  /\ \A u \in Turns : turn'[u].state # "none" => Made(turn'[u].key)
               /\ \A i \in DOMAIN out' : Sighting(out'[i].event) => Made(out'[i].event.key)
    <2>1. t \in Running /\ turn' = [turn EXCEPT ![t].state = "ended"]
      BY <1>5 DEF End
    <2>2. Made(turn[t].key)
      BY <2>1 DEF Running
    <2>3. \A u \in Turns : turn'[u].state # "none" => turn'[u].key = turn[u].key /\ turn[u].state # "none"
      BY <2>1 DEF CoreInv, TypeOK, TurnType, Running
    <2> DEFINE k    == turn[t].key
               slot == sess[k].turn
               who  == IF slot = None THEN None ELSE turn[slot].client
    <2>4. PICK n \in Nat :
             /\ DOMAIN out' = 1..(n + 2)
             /\ \A i \in 1..n : out'[i].event \in QuietSaid
             /\ out'[n + 1].event = Event("answered", k, t, who)
             /\ out'[n + 2].event = Event("ended", k, t, None)
      BY <1>5, EndSays
    <2> HIDE DEF k, who
    <2>5. ASSUME NEW i \in DOMAIN out', Sighting(out'[i].event) PROVE out'[i].event.key = k
      <3>1. i \notin 1..n
        BY <1>1, <2>4, <2>5
      <3>2. i = n + 1 \/ i = n + 2
        BY <2>4, <3>1
      <3> QED
        BY <2>4, <3>2 DEF Event
    <2> QED
      BY <2>2, <2>3, <2>5 DEF k
  <1> QED
    BY <1>2, <1>3, <1>4, <1>5, ClientQuietly, AgentQuietly DEF Next

LEMMA MadeStep ==
  ASSUME CoreInv, TypeOK', TurnInv, SoundInv, SoundInv', MadeInv, Next, Tell, UNCHANGED up
  PROVE  MadeInv'
  <1>1. /\ \A t \in Turns : turn'[t].state # "none" => Made(turn'[t].key)
        /\ \A i \in DOMAIN out' : Sighting(out'[i].event) => Made(out'[i].event.key)
    BY MadeTold DEF MadeInv
  <1>2. \A t \in Turns : turn'[t].state # "none" => turn'[t].key \in Key
    BY DEF TypeOK, TurnType
  <1>3. \A t \in Turns : turn'[t].state # "none" => Made(turn[t].key)'
    <2> SUFFICES ASSUME NEW t \in Turns, turn'[t].state # "none" PROVE Made(turn[t].key)'
      OBVIOUS
    <2>1. PICK k \in Key : k = turn'[t].key
      BY <1>2
    <2>2. Made(k)'
      BY <1>1, <2>1, MadeStays
    <2> QED
      BY <2>1, <2>2 DEF Made
  <1>4. ASSUME NEW c \in Clients, NEW i \in DOMAIN inbox'[c], Sighting(inbox'[c][i].event)
        PROVE  Made(inbox[c][i].event.key)'
    <2>1. PICK k \in Key : k = inbox'[c][i].event.key
      <3>1. inbox'[c] \in Seq(Stamped)
        BY DEF SoundInv, InboxOK
      <3>2. inbox'[c][i] \in Stamped
        BY <1>4, <3>1, ElementOfSeq, LenProperties
      <3> QED
        BY <3>2 DEF Stamped, Said, TurnSaid, AnswerSaid, UpdateSaid, QuietSaid
    <2>2. c \in up
      BY <1>4 DEF Tell
    <2>3. Made(k)
      <3>1. Numbered
        BY StepTold
      <3>2. /\ \A j \in DOMAIN inbox[c] : inbox'[c][j] = inbox[c][j]
            /\ \A j \in DOMAIN out' : inbox'[c][Len(inbox[c]) + j] = out'[j]
            /\ i \in DOMAIN inbox[c] \/ \E j \in DOMAIN out' : i = Len(inbox[c]) + j
        BY <1>4, <2>2, <3>1, TellEffect DEF SoundInv
      <3> QED
        BY <1>1, <1>4, <2>1, <3>2 DEF MadeInv
    <2>4. Made(k)'
      BY <2>3, MadeStays
    <2> QED
      BY <2>1, <2>4 DEF Made
  <1> QED
    BY <1>3, <1>4 DEF MadeInv, Sighting

\* A step of the host that leaves what c was sent of k.
LEMMA ToldSees ==
  ASSUME CoreInv, TurnInv, SoundInv, Next, Tell, UNCHANGED up, NEW now, Outlive(now),
         NEW c \in Clients, NEW k \in Key, SeenOK(c, k), <<c, k>> \notin now,
         attached'[c][k] = attached[c][k], seen'[c][k] = seen[c][k], shown'[c][k] = shown[c][k]
  PROVE  SeenOK(c, k)'
  <1>1. CASE attached[c][k] = None
    BY <1>1 DEF SeenOK, Sighted
  <1>2. CASE attached[c][k] # None
    <2>1. /\ c \in up /\ attached[c][k] \in Nat /\ attached[c][k] <= seq /\ seq \in Nat
      BY <1>2 DEF SoundInv, DevicesOK, SeenOK, CoreInv, TypeOK
    <2>2. Numbered
      BY StepTold
    <2>3. seq <= seq'
      BY <2>1, <2>2, LenProperties DEF Numbered
    <2>4. attached'[c][k] <= seq'
      BY <2>1, <2>2, <2>3, LenProperties DEF Numbered
    <2>5. ASSUME Sighted(c, k)' PROVE Sees(c, k)'
      <3>1. /\ DOMAIN inbox[c] \subseteq DOMAIN inbox'[c]
            /\ \A i \in DOMAIN inbox[c] : inbox'[c][i] = inbox[c][i]
            /\ \A i \in DOMAIN out' : /\ Len(inbox[c]) + i \in DOMAIN inbox'[c]
                                      /\ inbox'[c][Len(inbox[c]) + i] = out'[i]
        BY <2>1, <2>2, TellEffect DEF SoundInv
      <3>2. /\ <<c, k>> \notin outlived
            /\ ~(closing'[k] > closing[k])
        BY <2>5 DEF Sighted, Outlive
      <3>3. \A i \in DOMAIN out' : out'[i].event # ClosedEvent(k)
        <4> SUFFICES ASSUME NEW i \in DOMAIN out', out'[i].event = ClosedEvent(k) PROVE FALSE
          OBVIOUS
        <4>1. inbox'[c][Len(inbox[c]) + i].event = ClosedEvent(k)
          BY <3>1
        <4> QED
          BY <2>5, <3>1, <4>1 DEF Sighted, ClosedEvent, Event
      <3>4. \A i \in DOMAIN inbox[c] : inbox[c][i].event # ClosedEvent(k)
        BY <2>5, <3>1 DEF Sighted, ClosedEvent, Event
      <3>5. Sighted(c, k)
        BY <1>2, <2>5, <3>2, <3>4, SharedStays DEF Sighted
      <3>6. Sees(c, k) /\ AgentOf(k) \notin shared
        BY <3>5 DEF SeenOK, Sighted
      <3>7. IsOpen(k)' /\ TurnShown(k) /\ RecordShown(k)
        BY <3>2, <3>3, <3>6, StepShown DEF StepShows, Sees
      <3>8. (TurnSeen(c, k) /\ RecordSeen(c, k))'
        BY <2>1, <2>2, <3>6, <3>7, ShownSees DEF Sees, CoreInv
      <3> QED
        BY <3>7, <3>8 DEF Sees
    <2> QED
      BY <2>4, <2>5 DEF SeenOK
  <1> QED
    BY <1>1, <1>2

\* A device that attaches now sees what it is sent, with nothing under way.
LEMMA SnapshotSees ==
  ASSUME TypeOK', SoundInv', NEW c \in Clients, NEW k \in Key, NEW from \in Nat,
         attached'[c][k] = from, from <= seq',
         \A i \in DOMAIN inbox'[c] : Sighting(inbox'[c][i].event) /\ inbox'[c][i].event.key = k
            => inbox'[c][i].seq <= from,
         seen'[c][k] = sess'[k].record \/ seen'[c][k] = <<>>,
         shown'[c][k] = Latest(sess'[k]),
         Sighted(c, k)' => IsOpen(k)'
  PROVE  SeenOK(c, k)'
  <1> DEFINE T == After(c, k, TurnTypes)
             U == After(c, k, {"update"})
  <1>1. \A i \in DOMAIN inbox'[c] : inbox'[c][i].seq \in Nat
    <2>1. inbox'[c] \in Seq(Stamped)
      BY DEF SoundInv, InboxOK
    <2>2. \A i \in DOMAIN inbox'[c] : inbox'[c][i] \in Stamped
      BY <2>1, ElementOfSeq, LenProperties
    <2> QED
      BY <2>2 DEF Stamped
  <1>2. T' = {} /\ U' = {}
    BY <1>1 DEF After, Sighting
  <1>3. TurnSeen(c, k)'
    BY <1>2 DEF TurnSeen
  <1>4. RecordSeen(c, k)'
    <2> DEFINE r == sess'[k].record
               s == seen'[c][k]
               q == inbox'[c]
    <2>1. r \in Seq(Entry) /\ s \in Seq(Entry) /\ (s = r \/ s = <<>>)
      BY DEF TypeOK, SessType, SoundInv, DevicesOK
    <2> HIDE DEF r, s, q
    <2>2. Follows(s, r, q, {})
      BY <2>1, FollowsAll
    <2> QED
      BY <1>2, <2>2 DEF RecordSeen, r, s, q
  <1>5. attached'[c][k] <= seq'
    OBVIOUS
  <1> QED
    BY <1>3, <1>4, <1>5 DEF SeenOK, Sees

\* One thing of one session of one device changed.
LEMMA OthersKept ==
  ASSUME NEW S, NEW f \in [Clients -> [Key -> S]], NEW c \in Clients, NEW k \in Key, NEW v,
         NEW g, g = [f EXCEPT ![c][k] = v]
  PROVE  g[c][k] = v /\ \A d \in Clients, j \in Key : <<d, j>> # <<c, k>> => g[d][j] = f[d][j]
  OBVIOUS

LEMMA AttachSees ==
  ASSUME CoreInv, TypeOK', TurnInv, SoundInv, SoundInv', Next, NEW c \in Clients, NEW k \in Key,
         NEW how, Attach(c, k, how), \A d \in Clients, j \in Key : SeenOK(d, j)
  PROVE  \A d \in Clients, j \in Key : SeenOK(d, j)'
  <1>1. Tell /\ UNCHANGED up
    BY DEF Attach
  <1>2. CASE UNCHANGED <<attached, sightVars>> /\ Outlive({})
    <2> TAKE d \in Clients, j \in Key
    <2> DEFINE now == {}
    <2>1. <<d, j>> \notin now /\ Outlive(now)
      BY <1>2
    <2>2. attached'[d][j] = attached[d][j] /\ seen'[d][j] = seen[d][j] /\ shown'[d][j] = shown[d][j]
      BY <1>2 DEF sightVars
    <2>3. SeenOK(d, j)
      OBVIOUS
    <2> HIDE DEF now
    <2> QED
      BY <1>1, <2>1, <2>2, <2>3, ToldSees
  <1>3. CASE /\ IsOpen(k)'
             /\ attached' = [attached EXCEPT ![c][k] = seq']
             /\ seen' = [seen EXCEPT ![c][k] = IF how = "load" THEN sess'[k].record ELSE <<>>]
             /\ shown' = [shown EXCEPT ![c][k] = Latest(sess'[k])]
             /\ Outlive({<<c, k>>})
    <2> DEFINE s == IF how = "load" THEN sess'[k].record ELSE <<>>
               l == Latest(sess'[k])
    <2>1. /\ attached \in [Clients -> [Key -> Nat \cup {None}]]
          /\ seen \in [Clients -> [Key -> Seq(Entry)]]
          /\ shown \in [Clients -> [Key -> ShownType]]
      BY DEF SoundInv, DevicesOK
    <2>2. /\ attached' = [attached EXCEPT ![c][k] = seq']
          /\ seen' = [seen EXCEPT ![c][k] = s] /\ shown' = [shown EXCEPT ![c][k] = l]
      BY <1>3
    <2>3. s = sess'[k].record \/ s = <<>>
      OBVIOUS
    <2> HIDE DEF s
    <2> HIDE DEF l
    <2>4. /\ attached'[c][k] = seq' /\ seen'[c][k] = s /\ shown'[c][k] = l
          /\ \A d \in Clients, j \in Key : <<d, j>> # <<c, k>> =>
                attached'[d][j] = attached[d][j] /\ seen'[d][j] = seen[d][j] /\ shown'[d][j] = shown[d][j]
      <3>1. attached'[c][k] = seq' /\ \A d \in Clients, j \in Key : <<d, j>> # <<c, k>> =>
               attached'[d][j] = attached[d][j]
        BY <2>1, <2>2, OthersKept
      <3>2. seen'[c][k] = s /\ \A d \in Clients, j \in Key : <<d, j>> # <<c, k>> =>
               seen'[d][j] = seen[d][j]
        BY <2>1, <2>2, OthersKept
      <3>3. shown'[c][k] = l /\ \A d \in Clients, j \in Key : <<d, j>> # <<c, k>> =>
               shown'[d][j] = shown[d][j]
        BY <2>1, <2>2, OthersKept
      <3> QED
        BY <3>1, <3>2, <3>3
    <2>5. SeenOK(c, k)'
      <3>1. /\ seq' \in Nat /\ seq' <= seq'
            /\ \A i \in DOMAIN inbox'[c] : inbox'[c][i].seq <= seq'
        BY DEF SoundInv, InboxOK, TypeOK
      <3> QED
        BY <1>3, <2>3, <2>4, <3>1, SnapshotSees DEF l
    <2>6. ASSUME NEW d \in Clients, NEW j \in Key, <<d, j>> # <<c, k>> PROVE SeenOK(d, j)'
      <3> DEFINE now == {<<c, k>>}
      <3>1. <<d, j>> \notin now /\ Outlive(now)
        BY <1>3, <2>6
      <3>2. attached'[d][j] = attached[d][j] /\ seen'[d][j] = seen[d][j] /\ shown'[d][j] = shown[d][j]
        BY <2>4, <2>6
      <3>3. SeenOK(d, j)
        OBVIOUS
      <3> HIDE DEF now
      <3> QED
        BY <1>1, <3>1, <3>2, <3>3, ToldSees
    <2> QED
      BY <2>5, <2>6
  <1> QED
    BY <1>2, <1>3 DEF Attach, IsOpen

LEMMA NewAttachSees ==
  ASSUME CoreInv, TypeOK', TurnInv, SoundInv, SoundInv', MadeInv, NEW c \in Clients, c \in up, NewAttach(c),
         \A d \in Clients, j \in Key : SeenOK(d, j)
  PROVE  \A d \in Clients, j \in Key : SeenOK(d, j)'
  <1>k. PICK k : k = op[c].key
    OBVIOUS
  <1> DEFINE s == Fresh(FALSE, <<>>)
  <1>1. /\ Next /\ Tell /\ UNCHANGED up /\ Outlive({<<c, k>>})
        /\ Silent /\ Insert(k, s) /\ op[c].do = "new"
    BY <1>k DEF NewAttach, NewOk, NewAnswered, Next, ClientStep
  <1>2. k \in Key
    BY <1>1, <1>k DEF CoreInv, TypeOK, OpType, IdleOp
  <1>3. /\ attached' = [attached EXCEPT ![c][k] = 0]
        /\ seen' = [seen EXCEPT ![c][k] = <<>>] /\ shown' = [shown EXCEPT ![c][k] = None]
    BY <1>k DEF NewAttach
  <1>4. ~Made(k)
    BY <1>1, <1>k DEF Made
  <1>5. s \in SessType /\ s.held /\ ~s.opening /\ s.turn = None /\ s.ended = None
    BY FreshTyped DEF Fresh, Absent
  <1> HIDE DEF s
  <1>6. /\ attached \in [Clients -> [Key -> Nat \cup {None}]]
        /\ seen \in [Clients -> [Key -> Seq(Entry)]]
        /\ shown \in [Clients -> [Key -> ShownType]]
    BY DEF SoundInv, DevicesOK
  <1>7. /\ attached'[c][k] = 0 /\ seen'[c][k] = <<>> /\ shown'[c][k] = None
        /\ \A d \in Clients, j \in Key : <<d, j>> # <<c, k>> =>
              attached'[d][j] = attached[d][j] /\ seen'[d][j] = seen[d][j] /\ shown'[d][j] = shown[d][j]
    <2>1. attached'[c][k] = 0 /\ \A d \in Clients, j \in Key : <<d, j>> # <<c, k>> =>
             attached'[d][j] = attached[d][j]
      BY <1>2, <1>3, <1>6, OthersKept
    <2>2. seen'[c][k] = <<>> /\ \A d \in Clients, j \in Key : <<d, j>> # <<c, k>> =>
             seen'[d][j] = seen[d][j]
      BY <1>2, <1>3, <1>6, OthersKept
    <2>3. shown'[c][k] = None /\ \A d \in Clients, j \in Key : <<d, j>> # <<c, k>> =>
             shown'[d][j] = shown[d][j]
      BY <1>2, <1>3, <1>6, OthersKept
    <2> QED
      BY <2>1, <2>2, <2>3
  <1>8. \A i \in DOMAIN inbox'[c] : Sighting(inbox'[c][i].event) => inbox'[c][i].event.key # k
    <2>1. Quietly
      BY <1>1, SilentQuietly DEF NewAttach, NewOk
    <2>2. Numbered /\ \A i \in DOMAIN out' : out'[i].event \in QuietSaid
      BY <2>1, QuietSays DEF CoreInv
    <2>3. \A e \in QuietSaid : ~Sighting(e)
      BY DEF QuietSaid, Sighting, TurnTypes
    <2>4. /\ \A i \in DOMAIN inbox[c] : inbox'[c][i] = inbox[c][i]
          /\ \A i \in DOMAIN out' : inbox'[c][Len(inbox[c]) + i] = out'[i]
          /\ \A i \in DOMAIN inbox'[c] :
                i \in DOMAIN inbox[c] \/ \E j \in DOMAIN out' : i = Len(inbox[c]) + j
      BY <1>1, <2>2, TellEffect DEF SoundInv
    <2> SUFFICES ASSUME NEW i \in DOMAIN inbox'[c], Sighting(inbox'[c][i].event)
                 PROVE  inbox'[c][i].event.key # k
      OBVIOUS
    <2>5. i \in DOMAIN inbox[c] /\ inbox'[c][i] = inbox[c][i]
      BY <2>2, <2>3, <2>4
    <2> QED
      BY <1>4, <2>5 DEF MadeInv
  <1>9. (sess'[k] = Absent \/ IsOpen(k)') /\ Latest(sess'[k]) = None
        /\ (sess'[k] = Absent => closing'[k] > closing[k])
    BY <1>1, <1>2, <1>5, InsertOwn DEF CoreInv
  <1>10. SeenOK(c, k)'
    <2>1. Sighted(c, k)' => IsOpen(k)'
      BY <1>1, <1>2, <1>9 DEF Sighted, Outlive
    <2>2. 0 <= seq' /\ 0 \in Nat
      BY DEF TypeOK
    <2> QED
      BY <1>2, <1>7, <1>8, <1>9, <2>1, <2>2, SnapshotSees
  <1>11. ASSUME NEW d \in Clients, NEW j \in Key, <<d, j>> # <<c, k>> PROVE SeenOK(d, j)'
    <2> DEFINE now == {<<c, k>>}
    <2>1. <<d, j>> \notin now /\ Outlive(now)
      BY <1>1, <1>11
    <2>2. attached'[d][j] = attached[d][j] /\ seen'[d][j] = seen[d][j] /\ shown'[d][j] = shown[d][j]
      BY <1>7, <1>11
    <2>3. SeenOK(d, j)
      OBVIOUS
    <2> HIDE DEF now
    <2> QED
      BY <1>1, <2>1, <2>2, <2>3, ToldSees
  <1> QED
    BY <1>10, <1>11

\* Nothing of what c was sent of k, or is under way to it, changes.
LEMMA SameSees ==
  ASSUME NEW c \in Clients, NEW k \in Key, SeenOK(c, k), UNCHANGED <<sess, seq, shared>>,
         <<c, k>> \in outlived' <=> <<c, k>> \in outlived,
         inbox'[c] = inbox[c], attached'[c][k] = attached[c][k], seen'[c][k] = seen[c][k],
         shown'[c][k] = shown[c][k]
  PROVE  SeenOK(c, k)'
  BY DEF SeenOK, Sighted, Sees, IsOpen, TurnSeen, RecordSeen, After

\* What taking its oldest event makes of what c was sent of k.
LEMMA TakeSends ==
  ASSUME SoundInv, NEW c \in Clients, TakeEvent(c), NEW k \in Key, attached[c][k] \in Nat \ {None},
         NEW e, e = inbox[c][1].event
  PROVE  /\ e = ClosedEvent(k) => attached'[c][k] = None
         /\ attached'[c][k] = attached[c][k] \/ attached'[c][k] = None
         /\ shown'[c][k] = IF 1 \in After(c, k, TurnTypes) THEN <<e.type, e.of>> ELSE shown[c][k]
         /\ seen'[c][k] = IF 1 \in After(c, k, {"update"}) THEN Append(seen[c][k], e.of)
                                                           ELSE seen[c][k]
  <1>1. inbox[c] # <<>> /\ inbox' = [inbox EXCEPT ![c] = Tail(@)]
    BY DEF TakeEvent, TakeTurn, TakeUpdate, TakeAnswered, TakeAdded, TakeResolved, TakeClosed, Take
  <1>2. /\ 1 \in DOMAIN inbox[c] /\ Head(inbox[c]) = inbox[c][1] /\ inbox[c][1] \in Stamped
        /\ Taken(c) = e
    BY <1>1, TakeEffect DEF SoundInv, Taken
  <1>3. e.key \in Key /\ inbox[c][1].seq \in Nat
    BY <1>2 DEF Stamped, Said, TurnSaid, AnswerSaid, UpdateSaid, QuietSaid
  <1>4. /\ 1 \in After(c, k, TurnTypes) <=>
              e.key = k /\ e.type \in TurnTypes /\ attached[c][k] < inbox[c][1].seq
        /\ 1 \in After(c, k, {"update"}) <=>
              e.key = k /\ e.type = "update" /\ attached[c][k] < inbox[c][1].seq
    BY <1>2 DEF After
  <1>5. e.key = k => (Watching(c) <=> attached[c][k] < inbox[c][1].seq)
    BY <1>2, <1>3 DEF Watching
  <1>6. /\ attached \in [Clients -> [Key -> Nat \cup {None}]]
        /\ seen \in [Clients -> [Key -> Seq(Entry)]]
        /\ shown \in [Clients -> [Key -> ShownType]]
    BY DEF SoundInv, DevicesOK
  <1>7. CASE TakeTurn(c)
    <2>1. /\ e.type \in TurnTypes /\ UNCHANGED <<attached, seen>>
          /\ shown' = [shown EXCEPT ![c][e.key] = IF Watching(c) THEN <<e.type, e.of>> ELSE @]
      BY <1>2, <1>7 DEF TakeTurn, Take, Taken, TurnTypes
    <2>2. e # ClosedEvent(k) /\ e.type # "update"
      BY <2>1 DEF ClosedEvent, Event, TurnTypes
    <2>3. shown'[c][k] = IF e.key = k /\ Watching(c) THEN <<e.type, e.of>> ELSE shown[c][k]
      BY <1>3, <1>6, <2>1
    <2> QED
      BY <1>4, <1>5, <2>1, <2>2, <2>3
  <1>8. CASE TakeUpdate(c)
    <2>1. /\ e.type = "update" /\ UNCHANGED <<attached, shown>>
          /\ seen' = [seen EXCEPT ![c][e.key] = IF Watching(c) THEN Append(@, e.of) ELSE @]
      BY <1>2, <1>8 DEF TakeUpdate, Take, Taken
    <2>2. e # ClosedEvent(k) /\ e.type \notin TurnTypes
      BY <2>1 DEF ClosedEvent, Event, TurnTypes
    <2>3. seen'[c][k] = IF e.key = k /\ Watching(c) THEN Append(seen[c][k], e.of) ELSE seen[c][k]
      BY <1>3, <1>6, <2>1
    <2> QED
      BY <1>4, <1>5, <2>1, <2>2, <2>3
  <1>9. CASE TakeAnswered(c) \/ TakeAdded(c) \/ TakeResolved(c)
    <2>1. e.type \in {"answered", "added", "resolved"} /\ UNCHANGED <<attached, seen, shown>>
      BY <1>2, <1>9 DEF TakeAnswered, TakeAdded, TakeResolved, Take, Taken, sightVars
    <2>2. e # ClosedEvent(k) /\ e.type \notin TurnTypes /\ e.type # "update"
      BY <2>1 DEF ClosedEvent, Event, TurnTypes
    <2> QED
      BY <1>4, <2>1, <2>2
  <1>10. CASE TakeClosed(c)
    <2>1. /\ e.type = "closed" /\ UNCHANGED <<seen, shown>>
          /\ attached' = [attached EXCEPT ![c][e.key] = None]
      BY <1>2, <1>10 DEF TakeClosed, Take, Taken, sightVars
    <2>2. e.type \notin TurnTypes /\ e.type # "update"
      BY <2>1 DEF TurnTypes
    <2>3. attached'[c][k] = IF e.key = k THEN None ELSE attached[c][k]
      BY <1>3, <1>6, <2>1
    <2>4. e = ClosedEvent(k) => e.key = k
      BY DEF ClosedEvent, Event
    <2> QED
      BY <1>4, <2>1, <2>2, <2>3, <2>4
  <1> QED
    BY <1>7, <1>8, <1>9, <1>10 DEF TakeEvent

\* Other devices keep what they were sent.
LEMMA TakeOthers ==
  ASSUME SoundInv, NEW c \in Clients, TakeEvent(c), NEW d \in Clients \ {c}, NEW k \in Key
  PROVE  /\ attached'[d][k] = attached[d][k]
         /\ seen'[d][k] = seen[d][k]
         /\ shown'[d][k] = shown[d][k]
  <1> DEFINE j == Taken(c).key
  <1>1. \/ UNCHANGED attached
        \/ attached' = [attached EXCEPT ![c][j] = None]
    BY DEF TakeEvent, TakeTurn, TakeUpdate, TakeAnswered, TakeAdded, TakeResolved, TakeClosed
  <1>2. UNCHANGED seen \/ \E v : seen' = [seen EXCEPT ![c][j] = v]
    BY DEF TakeEvent, TakeTurn, TakeUpdate, TakeAnswered, TakeAdded, TakeResolved, TakeClosed, sightVars
  <1>3. UNCHANGED shown \/ \E v : shown' = [shown EXCEPT ![c][j] = v]
    BY DEF TakeEvent, TakeTurn, TakeUpdate, TakeAnswered, TakeAdded, TakeResolved, TakeClosed, sightVars
  <1> HIDE DEF j
  <1>4. /\ attached \in [Clients -> [Key -> Nat \cup {None}]]
        /\ seen \in [Clients -> [Key -> Seq(Entry)]]
        /\ shown \in [Clients -> [Key -> ShownType]]
    BY DEF SoundInv, DevicesOK
  <1> QED
    BY <1>1, <1>2, <1>3, <1>4

\* An event taken leaves c with what it says, and seen if it was sighted.
LEMMA TakeSees ==
  ASSUME CoreInv, SoundInv, NEW c \in Clients, TakeEvent(c), NEW k \in Key, SeenOK(c, k)
  PROVE  SeenOK(c, k)'
  <1> DEFINE e == inbox[c][1].event
             T == After(c, k, TurnTypes)
             U == After(c, k, {"update"})
  <1>1. /\ inbox[c] # <<>> /\ inbox' = [inbox EXCEPT ![c] = Tail(@)]
        /\ UNCHANGED <<sess, seq, shared, outlived>>
    BY DEF TakeEvent, TakeTurn, TakeUpdate, TakeAnswered, TakeAdded, TakeResolved, TakeClosed,
           Take, hostVars
  <1>2. /\ 1 \in DOMAIN inbox[c] /\ inbox[c][1] \in Stamped
        /\ DOMAIN inbox[c] \subseteq Nat \ {0} /\ DOMAIN inbox'[c] \subseteq Nat \ {0}
        /\ \A i \in DOMAIN inbox'[c] : i + 1 \in DOMAIN inbox[c] /\ inbox'[c][i] = inbox[c][i + 1]
        /\ \A i \in DOMAIN inbox[c] : i = 1 \/ i - 1 \in DOMAIN inbox'[c]
    BY <1>1, TakeEffect DEF SoundInv
  <1>3. CASE attached[c][k] = None \/ attached'[c][k] = None
    <2>1. attached'[c][k] = None
      <3>1. CASE attached[c][k] = None
        <4>1. UNCHANGED attached \/ attached' = [attached EXCEPT ![c][Taken(c).key] = None]
          BY DEF TakeEvent, TakeTurn, TakeUpdate, TakeAnswered, TakeAdded, TakeResolved, TakeClosed
        <4>2. attached \in [Clients -> [Key -> Nat \cup {None}]]
          BY DEF SoundInv, DevicesOK
        <4> DEFINE j == Taken(c).key
        <4> HIDE DEF j
        <4>3. UNCHANGED attached \/ attached' = [attached EXCEPT ![c][j] = None]
          BY <4>1 DEF j
        <4> QED
          BY <3>1, <4>2, <4>3
      <3> QED
        BY <1>3, <3>1
    <2> QED
      BY <2>1 DEF SeenOK, Sighted
  <1>4. CASE attached[c][k] # None /\ attached'[c][k] # None
    <2>1. attached[c][k] \in Nat \ {None}
      BY <1>4 DEF SoundInv, DevicesOK
    <2>2. /\ e # ClosedEvent(k)
          /\ attached'[c][k] = attached[c][k]
          /\ shown'[c][k] = IF 1 \in T THEN <<e.type, e.of>> ELSE shown[c][k]
          /\ seen'[c][k] = IF 1 \in U THEN Append(seen[c][k], e.of) ELSE seen[c][k]
      BY <1>4, <2>1, TakeSends
    <2>3. attached'[c][k] <= seq'
      BY <1>1, <1>4, <2>2 DEF SeenOK
    <2>4. ASSUME Sighted(c, k)' PROVE Sees(c, k)'
      <3>1. \A i \in DOMAIN inbox[c] : inbox[c][i].event # ClosedEvent(k)
        <4> SUFFICES ASSUME NEW i \in DOMAIN inbox[c], inbox[c][i].event = ClosedEvent(k)
                     PROVE  FALSE
          OBVIOUS
        <4>1. i # 1 /\ i - 1 \in DOMAIN inbox'[c] /\ (i - 1) + 1 = i
          BY <1>2, <2>2
        <4>2. inbox'[c][i - 1] = inbox[c][i]
          BY <1>2, <4>1
        <4> QED
          BY <2>4, <4>1, <4>2 DEF Sighted, ClosedEvent, Event
      <3>2. Sees(c, k)
        BY <1>1, <1>4, <2>2, <2>4, <3>1 DEF Sighted, SeenOK
      <3>3. \A i \in Nat : /\ i \in T' <=> i + 1 \in T /\ i # 0
                           /\ i \in U' <=> i + 1 \in U /\ i # 0
        <4> TAKE i \in Nat
        <4>1. i \in DOMAIN inbox'[c] <=> i + 1 \in DOMAIN inbox[c] /\ i # 0
          <5>1. (i + 1) - 1 = i /\ (i + 1 = 1 <=> i = 0)
            OBVIOUS
          <5> QED
            BY <1>2, <5>1
        <4> QED
          BY <1>2, <2>2, <4>1 DEF After
      <3>4. /\ T \subseteq DOMAIN inbox[c] /\ U \subseteq DOMAIN inbox[c]
            /\ T' \subseteq DOMAIN inbox'[c] /\ U' \subseteq DOMAIN inbox'[c]
        BY DEF After
      <3>5. \A i \in DOMAIN inbox'[c] : inbox'[c][i] = inbox[c][i + 1] /\ i \in Nat
        BY <1>2
      <3>6. /\ T = {} => shown[c][k] = Latest(sess[k])
            /\ \A i \in T : (\A j \in T : j <= i) =>
                  Latest(sess[k]) = <<inbox[c][i].event.type, inbox[c][i].event.of>>
            /\ Follows(seen[c][k], sess[k].record, inbox[c], U)
        BY <3>2 DEF Sees, TurnSeen, RecordSeen
      <3>7. 1 \in U => e.of \in Entry
        BY <1>2 DEF After, Stamped, Said, TurnSaid, AnswerSaid, UpdateSaid, QuietSaid
      <3>8. seen[c][k] \in Seq(Entry) /\ sess[k].record \in Seq(Entry)
        BY DEF SoundInv, DevicesOK, CoreInv, TypeOK, SessType
      <3>9. TurnSeen(c, k)'
        <4> HIDE DEF T
        <4> SUFFICES /\ T' = {} => shown'[c][k] = Latest(sess[k])
                     /\ \A i \in T' : (\A j \in T' : j <= i) =>
                           Latest(sess[k]) = <<inbox'[c][i].event.type, inbox'[c][i].event.of>>
          BY <1>1 DEF TurnSeen, T
        <4>1. \A i \in T : i \in Nat \ {0} /\ (i = 1 \/ (i - 1 \in T' /\ (i - 1) + 1 = i))
          <5> TAKE i \in T
          <5>1. i \in Nat \ {0}
            BY <1>2, <3>4
          <5>2. i # 1 => i - 1 \in Nat /\ (i - 1) + 1 = i /\ i - 1 # 0
            BY <5>1
          <5> QED
            BY <3>3, <5>1, <5>2
        <4>2. ASSUME T' = {} PROVE shown'[c][k] = Latest(sess[k])
          <5>1. \A i \in T : i = 1
            BY <4>1, <4>2
          <5>2. CASE 1 \in T
            BY <2>2, <3>6, <5>1, <5>2
          <5>3. CASE 1 \notin T
            BY <2>2, <3>6, <5>1, <5>3
          <5> QED
            BY <5>2, <5>3
        <4>3. ASSUME NEW i \in T', \A j \in T' : j <= i
              PROVE  Latest(sess[k]) = <<inbox'[c][i].event.type, inbox'[c][i].event.of>>
          <5>1. i \in Nat /\ i + 1 \in T /\ inbox'[c][i] = inbox[c][i + 1]
            BY <3>3, <3>4, <3>5
          <5>2. ASSUME NEW j \in T PROVE j <= i + 1
            <6>1. j \in Nat /\ (j = 1 \/ (j - 1 \in T' /\ (j - 1) + 1 = j))
              BY <4>1
            <6>2. j - 1 \in T' => j - 1 <= i
              BY <4>3
            <6> QED
              BY <5>1, <6>1, <6>2
          <5> QED
            BY <3>6, <5>1, <5>2
        <4> QED
          BY <4>2, <4>3
      <3>10. RecordSeen(c, k)'
        <4> DEFINE s == seen[c][k]
                   r == sess[k].record
                   q == inbox[c]
                   p == inbox'[c]
                   V == U'
        <4>1. /\ s \in Seq(Entry) /\ r \in Seq(Entry) /\ Follows(s, r, q, U)
              /\ U \in SUBSET (Nat \ {0}) /\ V \subseteq Nat
              /\ \A i \in V : p[i] = q[i + 1]
              /\ \A i \in Nat : i \in V <=> i + 1 \in U /\ i # 0
              /\ e = q[1].event
          BY <1>2, <3>3, <3>4, <3>5, <3>6, <3>8
        <4> SUFFICES Follows(seen'[c][k], r, p, V)
          BY <1>1 DEF RecordSeen
        <4>2. seen'[c][k] = IF 1 \in U THEN Append(s, e.of) ELSE s
          BY <2>2
        <4> HIDE DEF s, r, q, p, V, U, e
        <4>3. CASE 1 \in U
          <5>1. Follows(Append(s, q[1].event.of), r, p, V)
            BY <3>7, <4>1, <4>3, FollowsTake
          <5> QED
            BY <4>1, <4>2, <4>3, <5>1
        <4>4. CASE 1 \notin U
          <5>1. \A i \in Nat : i \in V <=> i + 1 \in U
            <6> TAKE i \in Nat
            <6>1. i = 0 => i + 1 = 1
              OBVIOUS
            <6> QED
              BY <4>1, <4>4, <6>1
          <5>2. Follows(s, r, p, V)
            BY <4>1, <4>4, <5>1, FollowsShift
          <5> QED
            BY <4>2, <4>4, <5>2
        <4> QED
          BY <4>3, <4>4
      <3> QED
        BY <1>1, <3>2, <3>9, <3>10 DEF Sees, IsOpen
    <2> QED
      BY <2>3, <2>4 DEF SeenOK
  <1> QED
    BY <1>3, <1>4

\* A step of the host that leaves what devices were sent.
LEMMA HostOnlySees ==
  ASSUME CoreInv, TurnInv, SoundInv, Next, HostOnly, \A c \in Clients, k \in Key : SeenOK(c, k)
  PROVE  \A c \in Clients, k \in Key : SeenOK(c, k)'
  <1> TAKE c \in Clients, k \in Key
  <1> DEFINE now == {}
  <1>1. /\ Tell /\ UNCHANGED <<up, attached, seen, shown>> /\ Outlive(now)
        /\ <<c, k>> \notin now /\ SeenOK(c, k)
    BY DEF HostOnly, deviceVars, sightVars
  <1> HIDE DEF now
  <1> QED
    BY <1>1, ToldSees

\* A frame leaves devices attached as they were, or sends c a snapshot.
LEMMA FrameSees ==
  ASSUME CoreInv, TypeOK', TurnInv, SoundInv, SoundInv', MadeInv, NEW c \in Clients, c \in up, Frame(c),
         \A d \in Clients, j \in Key : SeenOK(d, j)
  PROVE  \A d \in Clients, j \in Key : SeenOK(d, j)'
  <1>1. ASSUME NEW k \in Key, NEW how \in Opens, OpenFromRecord(c, k, how), Attach(c, k, how)
        PROVE  \A d \in Clients, j \in Key : SeenOK(d, j)'
    <2>1. Next
      BY <1>1 DEF Next, ClientCall
    <2> QED
      BY <1>1, <2>1, AttachSees
  <1>2. CASE LoadLate(c) \/ LoadOk(c)
    <2>0. op[c].key \in Key /\ Attach(c, op[c].key, op[c].how)
      BY <1>2 DEF LoadLate, LoadOk, OpenLate, OpenOk, CoreInv, TypeOK, OpType, IdleOp
    <2>a. PICK k \in Key : k = op[c].key
      BY <2>0
    <2>b. PICK how : how = op[c].how
      OBVIOUS
    <2>1. Attach(c, k, how)
      BY <2>0, <2>a, <2>b
    <2>2. Next
      BY <1>2 DEF LoadLate, LoadOk, Next, ClientStep
    <2> QED
      BY <2>1, <2>2, AttachSees
  <1>3. CASE NewAttach(c)
    BY <1>3, NewAttachSees
  <1>4. CASE CloseDone(c)
    <2>0. op[c].key \in Key
      BY <1>4 DEF CloseDone, CloseOk, CoreInv, TypeOK, OpType, IdleOp
    <2>1. PICK k \in Key : k = op[c].key
      BY <2>0
    <2> DEFINE now == {}
    <2>2. /\ Next /\ Tell /\ Outlive(now) /\ UNCHANGED <<up, seen, shown>>
          /\ attached' = [attached EXCEPT ![c][k] = None]
      BY <1>4, <2>1 DEF CloseDone, Next, ClientStep, sightVars
    <2> TAKE d \in Clients, j \in Key
    <2>3. attached'[c][k] = None /\ (<<d, j>> # <<c, k>> => attached'[d][j] = attached[d][j])
      BY <2>2 DEF SoundInv, DevicesOK
    <2>4. <<d, j>> \notin now /\ SeenOK(d, j)
      OBVIOUS
    <2> HIDE DEF now
    <2>5. CASE <<d, j>> # <<c, k>>
      BY <2>2, <2>3, <2>4, <2>5, ToldSees
    <2>6. CASE d = c /\ j = k
      BY <2>3, <2>6 DEF SeenOK, Sighted
    <2> QED
      BY <2>5, <2>6
  <1>5. CASE SendPrompt(c)
    <2> TAKE d \in Clients, j \in Key
    <2> DEFINE now == {}
    <2>1. /\ Next /\ Tell /\ Outlive(now) /\ UNCHANGED <<up, attached, seen, shown>>
          /\ <<d, j>> \notin now /\ SeenOK(d, j)
      BY <1>5 DEF SendPrompt, Next, ClientCall, sightVars
    <2> HIDE DEF now
    <2> QED
      BY <2>1, ToldSees
  <1>6. CASE \/ Forward(c) \/ Change(c) \/ AnswerById(c)
             \/ \E a \in Asks, outcome \in {"selected", "cancelled"} : AnswerCopy(c, a, outcome)
    <2>1. Next /\ HostOnly
      BY <1>6 DEF Forward, Change, AnswerById, AnswerCopy, Pending, NewAnswered, Next, ClientCall,
         ClientStep, ClientAnswer
    <2> QED
      BY <2>1, HostOnlySees
  <1>7. CASE DeclineCopy(c)
    <2>1. UNCHANGED <<sess, seq, shared, outlived, inbox, attached, seen, shown>>
      BY <1>7 DEF DeclineCopy, hostVars, sightVars
    <2> QED
      BY <2>1, SameSees
  <1> QED
    BY <1>1, <1>2, <1>3, <1>4, <1>5, <1>6, <1>7 DEF Frame, LoadOpen

LEMMA SeesStep ==
  ASSUME CoreInv, TypeOK', TurnInv, SoundInv, SoundInv', MadeInv, [ConnNext]_vars,
         \A c \in Clients, k \in Key : SeenOK(c, k)
  PROVE  \A c \in Clients, k \in Key : SeenOK(c, k)'
  <1>1. up \subseteq Clients
    BY DevicesAssumption DEF SoundInv, DevicesOK
  <1>2. ASSUME NEW c \in up, Frame(c) PROVE \A d \in Clients, k \in Key : SeenOK(d, k)'
    BY <1>1, <1>2, FrameSees
  <1>3. ASSUME NEW c \in Devices, TakeEvent(c) PROVE \A d \in Clients, k \in Key : SeenOK(d, k)'
    <2> TAKE d \in Clients, k \in Key
    <2>1. c \in Clients
      BY DevicesAssumption
    <2>2. CASE d = c
      BY <1>3, <2>1, <2>2, TakeSees
    <2>3. CASE d # c
      <3>1. /\ UNCHANGED <<sess, seq, shared, outlived>>
            /\ inbox' = [inbox EXCEPT ![c] = Tail(@)]
        BY <1>3 DEF TakeEvent, TakeTurn, TakeUpdate, TakeAnswered, TakeAdded, TakeResolved, TakeClosed,
           Take, hostVars
      <3>2. inbox'[d] = inbox[d]
        BY <2>3, <3>1 DEF SoundInv, InboxOK
      <3>3. attached'[d][k] = attached[d][k] /\ seen'[d][k] = seen[d][k] /\ shown'[d][k] = shown[d][k]
        BY <1>3, <2>1, <2>3, TakeOthers
      <3> QED
        BY <3>1, <3>2, <3>3, SameSees
    <2> QED
      BY <2>2, <2>3
  <1>4. ASSUME NEW c \in Devices, Connect(c) PROVE \A d \in Clients, k \in Key : SeenOK(d, k)'
    <2>1. UNCHANGED <<sess, seq, shared, outlived, inbox, attached, seen, shown>>
      BY <1>4 DEF Connect, hostVars, sightVars
    <2> QED
      BY <2>1, SameSees
  <1>5. ASSUME NEW c \in Devices, Disconnect(c) PROVE \A d \in Clients, k \in Key : SeenOK(d, k)'
    <2> TAKE d \in Clients, k \in Key
    <2>1. UNCHANGED <<sess, seq, shared>> /\ outlived' = {p \in outlived : p[1] # c}
      BY <1>5 DEF Disconnect, hostVars
    <2>2. CASE d = c
      <3>1. attached'[d][k] = None
        BY <1>5, <2>2 DEF Disconnect, SoundInv, DevicesOK
      <3> QED
        BY <3>1 DEF SeenOK, Sighted
    <2>3. CASE d # c
      <3>1. /\ inbox'[d] = inbox[d] /\ attached'[d][k] = attached[d][k]
            /\ seen'[d][k] = seen[d][k] /\ shown'[d][k] = shown[d][k]
        BY <1>5, <2>3 DEF Disconnect, SoundInv, InboxOK, DevicesOK
      <3>2. <<d, k>> \in outlived' <=> <<d, k>> \in outlived
        BY <2>1, <2>3
      <3> QED
        BY <2>1, <3>1, <3>2, SameSees
    <2> QED
      BY <2>2, <2>3
  <1>6. ASSUME NEW c \in Clients \ Devices, Contract(c)
        PROVE  \A d \in Clients, k \in Key : SeenOK(d, k)'
    <2>1. Next /\ HostOnly
      BY <1>6 DEF Contract, Next
    <2> QED
      BY <2>1, HostOnlySees
  <1>7. CASE (AgentStep \/ RemoveStep) /\ HostOnly
    <2>1. Next
      BY <1>7 DEF Next
    <2> QED
      BY <1>7, <2>1, HostOnlySees
  <1>8. CASE UNCHANGED vars
    <2>1. UNCHANGED <<sess, seq, shared, outlived, inbox, attached, seen, shown>>
      BY <1>8 DEF vars, hostVars, deviceVars, sightVars
    <2> QED
      BY <2>1, SameSees
  <1> QED
    BY <1>2, <1>3, <1>4, <1>5, <1>6, <1>7, <1>8 DEF ConnNext

LEMMA MadeAlways ==
  ASSUME CoreInv, TypeOK', TurnInv, SoundInv, SoundInv', MadeInv, [ConnNext]_vars
  PROVE  MadeInv'
  <1>1. CASE Next /\ Tell /\ UNCHANGED up
    BY <1>1, MadeStep
  <1>2. ASSUME UNCHANGED <<turn, issued, op>>,
               \A c \in Clients : inbox'[c] = inbox[c] \/ inbox'[c] = <<>>
        PROVE  MadeInv'
    <2>1. DOMAIN <<>> = {}
      OBVIOUS
    <2> QED
      BY <1>2, <2>1 DEF MadeInv, Made
  <1>3. ASSUME NEW c \in up, Frame(c) PROVE MadeInv'
    <2>1. c \in Clients
      BY <1>3, DevicesAssumption DEF SoundInv, DevicesOK
    <2>2. CASE DeclineCopy(c)
      BY <1>2, <2>2 DEF DeclineCopy, hostVars
    <2> QED
      BY <1>1, <1>3, <2>1, <2>2, FramePrompts
  <1>4. ASSUME NEW c \in Devices, TakeEvent(c) PROVE MadeInv'
    <2>1. /\ inbox[c] # <<>> /\ inbox' = [inbox EXCEPT ![c] = Tail(@)]
          /\ UNCHANGED <<turn, issued, op>> /\ c \in Clients
      BY <1>4, DevicesAssumption DEF TakeEvent, TakeTurn, TakeUpdate, TakeAnswered, TakeAdded,
         TakeResolved, TakeClosed, Take, hostVars
    <2>2. /\ \A i \in DOMAIN inbox'[c] : i + 1 \in DOMAIN inbox[c] /\ inbox'[c][i] = inbox[c][i + 1]
          /\ \A d \in Clients \ {c} : inbox'[d] = inbox[d]
      BY <2>1, TakeEffect DEF SoundInv
    <2>3. ASSUME NEW d \in Clients, NEW i \in DOMAIN inbox'[d], Sighting(inbox'[d][i].event)
          PROVE  Made(inbox[d][i].event.key)'
      <3>1. CASE d = c
        <4>1. Made(inbox[c][i + 1].event.key) /\ inbox'[d][i] = inbox[c][i + 1]
          BY <2>2, <2>3, <3>1 DEF MadeInv
        <4> QED
          BY <2>1, <4>1 DEF Made
      <3>2. CASE d # c
        <4>1. Made(inbox[d][i].event.key) /\ inbox'[d][i] = inbox[d][i]
          BY <2>2, <2>3, <3>2 DEF MadeInv
        <4> QED
          BY <2>1, <4>1 DEF Made
      <3> QED
        BY <3>1, <3>2
    <2>4. ASSUME NEW t \in Turns, turn'[t].state # "none" PROVE Made(turn[t].key)'
      BY <2>1, <2>4 DEF MadeInv, Made
    <2> QED
      BY <2>3, <2>4 DEF MadeInv, Sighting
  <1>5. ASSUME NEW c \in Devices, Connect(c) \/ Disconnect(c) PROVE MadeInv'
    <2>1. /\ UNCHANGED <<turn, issued, op>>
          /\ UNCHANGED inbox \/ inbox' = [inbox EXCEPT ![c] = <<>>]
      BY <1>5 DEF Connect, Disconnect, hostVars
    <2> QED
      BY <1>2, <2>1 DEF SoundInv, InboxOK
  <1>6. ASSUME NEW c \in Clients \ Devices, Contract(c) PROVE MadeInv'
    BY <1>1, <1>6 DEF Contract, HostOnly, deviceVars, Next
  <1>7. CASE (AgentStep \/ RemoveStep) /\ HostOnly
    BY <1>1, <1>7 DEF HostOnly, deviceVars, Next
  <1>8. CASE UNCHANGED vars
    BY <1>2, <1>8 DEF vars, hostVars
  <1> QED
    BY <1>3, <1>4, <1>5, <1>6, <1>7, <1>8 DEF ConnNext

LEMMA SightInit == ConnInit => SightInv
  <1> SUFFICES ASSUME ConnInit PROVE SightInv
    OBVIOUS
  <1>1. /\ \A t \in Turns : turn[t].state = "none"
        /\ \A c \in Clients : inbox[c] = <<>> /\ \A k \in Key : attached[c][k] = None
    BY DEF ConnInit, Init
  <1>2. DOMAIN <<>> = {}
    OBVIOUS
  <1> QED
    BY <1>1, <1>2 DEF SightInv, MadeInv, SeenOK, Sighted

LEMMA SightIs == CoreInv /\ SoundInv /\ SightInv => SeesHost
  <1> SUFFICES ASSUME CoreInv, SoundInv, SightInv, NEW c \in Clients, NEW k \in Key,
                      Drained(c), Firm(c, k)
               PROVE  IsSuffix(seen[c][k], sess[k].record) /\ shown[c][k] = Latest(sess[k])
    BY DEF SeesHost, SeesRecord, SeesTurn
  <1>1. inbox[c] = <<>> /\ DOMAIN inbox[c] = {}
    BY DEF Drained
  <1>2. TurnSeen(c, k) /\ RecordSeen(c, k)
    BY <1>1 DEF Firm, Sighted, SightInv, SeenOK, Sees
  <1>3. \A types : After(c, k, types) = {}
    BY <1>1 DEF After
  <1>4. seen[c][k] \in Seq(Entry) /\ sess[k].record \in Seq(Entry)
    BY DEF SoundInv, DevicesOK, CoreInv, TypeOK, SessType
  <1>5. IsSuffix(seen[c][k], sess[k].record)
    <2> DEFINE s == seen[c][k]
               r == sess[k].record
    <2>1. Follows(s, r, inbox[c], {}) /\ s \in Seq(Entry) /\ r \in Seq(Entry)
      BY <1>2, <1>3, <1>4 DEF RecordSeen
    <2> HIDE DEF s, r
    <2>2. IsSuffix(s, r)
      BY <2>1, FollowsSuffix
    <2> QED
      BY <2>2 DEF s, r
  <1> QED
    BY <1>2, <1>3, <1>5 DEF TurnSeen

\* Whatever runs between its snapshot of an unshared session and the events it
\* then takes, a device that has taken them all was sent the whole of what was
\* recorded since it attached, once and in order, and the session's latest turn
\* (host.rs, "skips the events its snapshot already holds").
THEOREM DevicesSee ==
  ASSUME ~ListsEarly
  PROVE  ConnSpec => []SeesHost
  <1>1. ConnSpec => [](CoreInv /\ TurnInv)
    BY Implements, Turning, PTL
  <1>2. CoreInv => TypeOK
    BY DEF CoreInv
  <1>3. CoreInv /\ TypeOK' /\ TurnInv /\ SoundInv /\ SoundInv' /\ SightInv /\ [ConnNext]_vars => SightInv'
    BY MadeAlways, SeesStep DEF SightInv
  <1> QED
    BY <1>1, <1>2, <1>3, Sound, SightInit, SightIs, PTL DEF ConnSpec

=============================================================================
