----------------------------- MODULE AcpProofs -----------------------------
(***************************************************************************)
(* What Acp promises for any requests, sessions and methods: its variables *)
(* hold values of their kind, its locks are held by who is at what they    *)
(* guard, once shutdown has stopped the agent nothing of it runs, and no   *)
(* conversation it had open is forgotten.                                  *)
(***************************************************************************)
EXTENDS Acp, FiniteSetTheorems, TLAPS

\* Requests name conversations, and sessions once they are looked up.
NamesOK ==
    \A r \in Reqs :
        /\ req[r].phase # "idle" /\ req[r].does # "new" => req[r].conv \in Sessions
        /\ req[r].phase \in {"opening", "reopening"} => req[r].target \in Sessions
        /\ req[r].phase = "sent" /\ req[r].does # "new" => req[r].target \in Sessions
        /\ req[r].phase \in {"close", "closing", "closed"} => req[r].does = "close"

AcpInv == AcpTypeOK /\ NamesOK

\* A request of a kind, changed to another of the kind.
LEMMA BecomesTyped ==
  ASSUME req \in [Reqs -> ReqType], NEW r \in Reqs, NEW q \in ReqType, Becomes(r, q)
  PROVE  /\ req' \in [Reqs -> ReqType] /\ req'[r] = q
         /\ \A o \in Reqs : o # r => req'[o] = req[o]
  BY DEF Becomes

\* No request.
LEMMA IdleTyped == Idle \in ReqType /\ Idle.phase = "idle" /\ Idle.on = "none"
  BY DEF Idle, ReqType, Phases

On == {"none", "slot", "taken", "gone"}
\* A request of the kind, some of its fields changed.
LEMMA EditTyped ==
  ASSUME NEW x \in ReqType, NEW p \in Phases, NEW on \in On, NEW t \in Sessions \cup {None},
         NEW n \in Sessions \cup {None}, NEW todo \in SUBSET Sessions
  PROVE  /\ [x EXCEPT !.phase = p] \in ReqType
         /\ [x EXCEPT !.phase = p, !.on = on] \in ReqType
         /\ [x EXCEPT !.phase = p, !.target = t] \in ReqType
         /\ [x EXCEPT !.phase = p, !.target = t, !.note = n] \in ReqType
         /\ [x EXCEPT !.phase = p, !.on = on, !.todo = todo] \in ReqType
  BY DEF ReqType, On

\* A conversation's moves, forgotten or without their note.
LEMMA MovesTyped ==
  ASSUME moves \in [Sessions -> MoveType], NEW c \in Sessions
  PROVE  /\ [moves EXCEPT ![c] = Unmoved(c)] \in [Sessions -> MoveType]
         /\ [moves EXCEPT ![c].note = None] \in [Sessions -> MoveType]
         /\ SessionsOf(c) \subseteq Sessions /\ Target(c) \in Sessions
         /\ moves[c].note \in Sessions \cup {None}
  BY DEF Unmoved, MoveType, SessionsOf, Target

\* Requests left on another process are otherwise what they were.
LEMMA LeftTyped ==
  ASSUME req \in [Reqs -> ReqType], NEW from, NEW to \in {"taken", "gone"}
  PROVE  /\ Left(from, to) \in [Reqs -> ReqType]
         /\ \A r \in Reqs : /\ Left(from, to)[r].phase = req[r].phase
                            /\ Left(from, to)[r].does = req[r].does
                            /\ Left(from, to)[r].conv = req[r].conv
                            /\ Left(from, to)[r].target = req[r].target
  BY DEF Left, ReqType

\* What belongs to sessions are sessions.
LEMMA Belong ==
  ASSUME NEW S \in SUBSET Sessions
  PROVE  ConversationsOf(S) \subseteq Sessions
  BY DEF ConversationsOf

\* The prompts a pause counts.
LEMMA CountTyped == Cardinality(AllPrompts) \in 0..Cardinality(Reqs)
  <1>1. AllPrompts \subseteq Reqs
    BY DEF AllPrompts, Prompts
  <1> QED
    BY <1>1, FS_Subset, FS_CardinalityType, AcpAssumption DEF AcpAssumption

\* A lock nobody holds.
LEMMA FreeTyped == Free \in LockType /\ Free.by = None /\ Free.does = "none"
  <1>1. 0 \in 0..Cardinality(Reqs)
    BY FS_CardinalityType, AcpAssumption DEF AcpAssumption
  <1> QED
    BY <1>1 DEF Free, LockType

\* The variables are typed, and requests name conversations, from the start.
LEMMA AcpInitInv == AcpInit => AcpInv
  <1> SUFFICES ASSUME AcpInit PROVE AcpInv
    OBVIOUS
  <1>1. \A r \in Reqs : req[r] = Idle /\ req[r].phase = "idle"
    BY IdleTyped DEF AcpInit
  <1>2. moves \in [Sessions -> MoveType]
    BY DEF AcpInit, Unmoved, MoveType
  <1>3. req \in [Reqs -> ReqType]
    BY IdleTyped DEF AcpInit
  <1>4. LocksHeld /\ NamesOK
    BY <1>1, FreeTyped, AcpAssumption DEF AcpInit, LocksHeld, NamesOK, AcpAssumption
  <1> QED
    BY <1>2, <1>3, <1>4, FreeTyped, AcpAssumption DEF AcpInit, AcpInv, AcpTypeOK, AcpAssumption

\* A request r goes on as q, and the locks with it.
Goes(r, q) ==
    /\ Becomes(r, q)
    /\ opening' \in Reqs \cup {None}
    /\ \A o \in Reqs \ {r} : opening' = o <=> opening = o
    /\ opening' = r <=> q.phase \in {"reopening", "closing", "closed"}
    /\ \A o \in Reqs \ {r} : lock'.by = o <=> lock.by = o
    /\ lock'.by = r <=> q.phase \in {"starting", "stopping"}
    /\ lock'.does \in {"start", "stop"} => slot' = "none"
    /\ q.phase # "idle" /\ q.does # "new" => q.conv \in Sessions
    /\ q.phase \in {"opening", "reopening"} => q.target \in Sessions
    /\ q.phase = "sent" /\ q.does # "new" => q.target \in Sessions
    /\ q.phase \in {"close", "closing", "closed"} => q.does = "close"

\* Such a step keeps requests of their kind, the locks held and names known.
LEMMA GoesOn ==
  ASSUME AcpInv, NEW r \in Reqs, NEW q \in ReqType, Goes(r, q)
  PROVE  req' \in [Reqs -> ReqType] /\ LocksHeld' /\ NamesOK'
  <1>1. /\ req' \in [Reqs -> ReqType] /\ req'[r] = q
        /\ \A o \in Reqs : o # r => req'[o] = req[o]
    BY BecomesTyped DEF AcpInv, AcpTypeOK, Goes
  <1>2. LocksHeld'
    BY <1>1 DEF AcpInv, AcpTypeOK, LocksHeld, Goes
  <1>3. NamesOK'
    BY <1>1 DEF AcpInv, NamesOK, Goes
  <1> QED
    BY <1>1, <1>2, <1>3

\* Requests change otherwise than in where they stand, and the lock does not
\* change hands among them.
LEMMA StandsStill ==
  ASSUME AcpInv, NEW f \in [Reqs -> ReqType], req' = f,
         \A r \in Reqs : /\ f[r].phase = req[r].phase /\ f[r].does = req[r].does
                         /\ f[r].conv = req[r].conv /\ f[r].target = req[r].target,
         UNCHANGED opening, \A r \in Reqs : lock'.by = r <=> lock.by = r,
         lock'.does \in {"start", "stop"} => slot' = "none"
  PROVE  req' \in [Reqs -> ReqType] /\ LocksHeld' /\ NamesOK'
  BY DEF AcpInv, AcpTypeOK, LocksHeld, NamesOK

\* A request is sent, for a session unless it is for a new one.
LEMMA Sending ==
  ASSUME AcpInv, NEW r \in Reqs, NEW t \in Sessions \cup {None}, Send(r, t),
         req[r].phase \notin {"idle", "starting", "stopping"},
         req[r].does = "new" \/ t \in Sessions,
         opening' \in Reqs \cup {None} /\ opening' # r,
         \A o \in Reqs \ {r} : opening' = o <=> opening = o,
         UNCHANGED process
  PROVE  /\ req' \in [Reqs -> ReqType] /\ LocksHeld' /\ NamesOK'
         /\ cancelled' \in [Sessions -> {"no", "recent", "old"}] /\ tools' \subseteq Sessions
  <1> DEFINE n == IF req[r].does = "prompt" THEN moves[req[r].conv].note ELSE None
             q == [req[r] EXCEPT !.phase = "sent", !.target = t, !.note = n]
  <1>1. n \in Sessions \cup {None}
    BY MovesTyped DEF AcpInv, AcpTypeOK, NamesOK
  <1>2. q \in ReqType
    <2> HIDE DEF n
    <2>1. "none" \in On /\ "sent" \in Phases /\ req[r] \in ReqType
      BY DEF On, Phases, AcpInv, AcpTypeOK
    <2> QED
      BY <1>1, <2>1, EditTyped
  <1>3. Becomes(r, q)
    BY DEF Send
  <1>4. /\ q.phase = "sent" /\ q.target = t /\ q.does = req[r].does /\ q.conv = req[r].conv
    BY DEF AcpInv, AcpTypeOK, ReqType
  <1>5. Goes(r, q)
    <2> HIDE DEF q
    <2> QED
      BY <1>3, <1>4 DEF Goes, AcpInv, AcpTypeOK, LocksHeld, NamesOK, process
  <1>6. req' \in [Reqs -> ReqType] /\ LocksHeld' /\ NamesOK'
    <2> HIDE DEF q
    <2> QED
      BY <1>2, <1>5, GoesOn
  <1> QED
    BY <1>6 DEF Send, AcpInv, AcpTypeOK

\* The steps of a request that change no other request.
OwnStep(r) ==
    \/ GetLive(r) \/ RefuseLive(r) \/ LiveStarted(r) \/ LiveFailed(r)
    \/ FreshLook(r) \/ FreshStays(r) \/ Route(r) \/ Reopen(r)
    \/ CloseStart(r) \/ CloseLive(r) \/ CloseEnd(r) \/ Reopened(r)
    \/ ReopenFailed(r) \/ Refused(r) \/ AnswerNew(r) \/ AnswerLoad(r)
    \/ AnswerSet(r) \/ AnswerPrompt(r) \/ AnswerDelete(r) \/ AnswerMove(r)
    \/ CloseFailed(r)

\* Each step of a request that changes its own standing only.
LEMMA RequestInv ==
  ASSUME AcpInv, NEW r \in Reqs, OwnStep(r)
  PROVE  AcpInv'
  <1> USE AcpAssumption DEF AcpAssumption, process, state, conversations, life
  <1>1. CASE GetLive(r)
    <2> DEFINE q == [req[r] EXCEPT !.on = "slot",
                     !.phase = IF @ = "live" /\ req[r].does = "prompt" /\ suspect
                               THEN "fresh" ELSE "got"]
    <2>a. q \in ReqType
      <3> DEFINE p == IF req[r].phase = "live" /\ req[r].does = "prompt" /\ suspect
                      THEN "fresh" ELSE "got"
      <3>1. p \in Phases /\ "slot" \in On /\ req[r] \in ReqType
        BY DEF On, Phases, AcpInv, AcpTypeOK
      <3>2. q = [req[r] EXCEPT !.phase = p, !.on = "slot"]
        BY <3>1 DEF ReqType
      <3> HIDE DEF p, q
      <3> QED
        BY <3>1, <3>2, EditTyped
    <2>b. Becomes(r, q)
      BY <1>1 DEF GetLive
    <2>c. Goes(r, q)
      BY <1>1, <2>b, FreeTyped DEF GetLive, Goes, AcpInv, AcpTypeOK, LocksHeld, NamesOK, ReqType
    <2>1. req' \in [Reqs -> ReqType] /\ LocksHeld' /\ NamesOK'
      <3> HIDE DEF q
      <3> QED
        BY <2>a, <2>c, GoesOn
    <2> QED
      BY <1>1, <2>1, FreeTyped DEF GetLive, AcpInv, AcpTypeOK
  <1>2. CASE RefuseLive(r)
    <2>1. req'[r] \in ReqType /\ Goes(r, req'[r])
      BY <1>2, IdleTyped, FreeTyped
      DEF RefuseLive, Ends, Becomes, Goes, AcpInv, AcpTypeOK, LocksHeld, NamesOK, ReqType, Phases
    <2>2. req' \in [Reqs -> ReqType] /\ LocksHeld' /\ NamesOK'
      BY <2>1, GoesOn
    <2> QED
      BY <2>2, <1>2, IdleTyped, FreeTyped DEF RefuseLive, Ends, AcpInv, AcpTypeOK, LockType
  <1>3. CASE LiveStarted(r)
    <2> DEFINE q == [req[r] EXCEPT !.phase = "got", !.on = "slot"]
    <2>a. q \in ReqType
      BY EditTyped DEF On, Phases, AcpInv, AcpTypeOK
    <2>b. Becomes(r, q)
      BY <1>3 DEF LiveStarted, Started
    <2>c. Goes(r, q)
      BY <1>3, <2>b, FreeTyped DEF LiveStarted, Started, Goes, AcpInv, AcpTypeOK, LocksHeld, NamesOK, ReqType
    <2>1. req' \in [Reqs -> ReqType] /\ LocksHeld' /\ NamesOK'
      <3> HIDE DEF q
      <3> QED
        BY <2>a, <2>c, GoesOn
    <2> QED
      BY <1>3, <2>1, FreeTyped DEF LiveStarted, Started, AcpInv, AcpTypeOK
  <1>4. CASE LiveFailed(r)
    <2>1. req'[r] \in ReqType /\ Goes(r, req'[r])
      BY <1>4, IdleTyped, FreeTyped
      DEF LiveFailed, NotStarted, Ends, Becomes, Goes, AcpInv, AcpTypeOK, LocksHeld, NamesOK, ReqType, Phases
    <2>2. req' \in [Reqs -> ReqType] /\ LocksHeld' /\ NamesOK'
      BY <2>1, GoesOn
    <2> QED
      BY <2>2, <1>4, IdleTyped, FreeTyped DEF LiveFailed, NotStarted, Ends, AcpInv, AcpTypeOK, LockType
  <1>5. CASE FreshLook(r)
    <2>a. req'[r] \in ReqType /\ req'[r] = [req[r] EXCEPT !.phase = "stopping"]
          /\ Becomes(r, req'[r])
      BY <1>5 DEF FreshLook, ToPhase, Becomes, AcpInv, AcpTypeOK, ReqType, Phases
    <2>b. lock'.by = r /\ lock'.does = "look" /\ lock.by = None
      BY <1>5, FreeTyped DEF FreshLook, Look, Free
    <2>c. Goes(r, req'[r])
      BY <1>5, <2>a, <2>b DEF FreshLook, Goes, AcpInv, AcpTypeOK, LocksHeld, NamesOK, ReqType
    <2>2. req' \in [Reqs -> ReqType] /\ LocksHeld' /\ NamesOK'
      BY <2>a, <2>c, GoesOn
    <2> QED
      BY <2>2, <1>5, CountTyped DEF FreshLook, Look, Free, AcpInv, AcpTypeOK, LockType
  <1>6. CASE FreshStays(r)
    <2>1. req'[r] \in ReqType /\ Goes(r, req'[r])
      BY <1>6, IdleTyped, FreeTyped
      DEF FreshStays, ToPhase, Becomes, Goes, AcpInv, AcpTypeOK, LocksHeld, NamesOK, ReqType, Phases
    <2>2. req' \in [Reqs -> ReqType] /\ LocksHeld' /\ NamesOK'
      BY <2>1, GoesOn
    <2> QED
      BY <2>2, <1>6, IdleTyped, FreeTyped DEF FreshStays, ToPhase, AcpInv, AcpTypeOK, LockType
  <1>7. CASE Route(r)
    <2> DEFINE t == IF req[r].conv = None THEN None ELSE Target(req[r].conv)
               q == [req[r] EXCEPT !.phase = "opening", !.target = t]
    <2>1. t \in Sessions \cup {None} /\ (req[r].does = "new" \/ t \in Sessions)
      <3>1. req[r].conv \in Sessions \cup {None} /\ (req[r].does = "new" \/ req[r].conv \in Sessions)
        BY <1>7 DEF Route, AcpInv, AcpTypeOK, NamesOK, ReqType
      <3>2. CASE req[r].conv = None
        BY <3>1, <3>2
      <3>3. CASE req[r].conv \in Sessions
        BY <3>3, MovesTyped DEF AcpInv, AcpTypeOK
      <3> QED
        BY <3>1, <3>2, <3>3
    <2>2. CASE Send(r, t)
      <3> HIDE DEF t
      <3>1. opening # r
        BY <1>7 DEF Route, AcpInv, AcpTypeOK, LocksHeld
      <3>2. /\ req' \in [Reqs -> ReqType] /\ LocksHeld' /\ NamesOK'
            /\ cancelled' \in [Sessions -> {"no", "recent", "old"}] /\ tools' \subseteq Sessions
        BY <1>7, <2>1, <2>2, <3>1, Sending DEF Route, AcpInv, AcpTypeOK
      <3> QED
        BY <1>7, <3>2 DEF Route, AcpInv, AcpTypeOK
    <2>3. CASE /\ Becomes(r, q)
               /\ req[r].does \notin {"new", "load", "move"}
               /\ UNCHANGED <<cancelled, tools>>
      <3> HIDE DEF t
      <3>a. "opening" \in Phases /\ "none" \in On /\ req[r] \in ReqType
        BY DEF On, Phases, AcpInv, AcpTypeOK
      <3>1. q \in ReqType
        BY <2>1, <3>a, EditTyped
      <3>2. Goes(r, q)
        BY <1>7, <3>a, <2>1, <2>3 DEF Route, Goes, AcpInv, AcpTypeOK, LocksHeld, NamesOK, ReqType
      <3>3. req' \in [Reqs -> ReqType] /\ LocksHeld' /\ NamesOK'
        <4> HIDE DEF q
        <4> QED
          BY <3>1, <3>2, GoesOn
      <3> QED
        BY <1>7, <2>3, <3>3 DEF Route, AcpInv, AcpTypeOK
    <2> QED
      BY <1>7, <2>2, <2>3 DEF Route
  <1>8. CASE Reopen(r)
    <2>a. req[r].phase = "opening"
      BY <1>8 DEF Reopen
    <2>1. req[r].target \in Sessions
      BY <2>a DEF AcpInv, NamesOK
    <2>2. CASE Send(r, req[r].target) /\ UNCHANGED opening
      <3>1. /\ req' \in [Reqs -> ReqType] /\ LocksHeld' /\ NamesOK'
            /\ cancelled' \in [Sessions -> {"no", "recent", "old"}] /\ tools' \subseteq Sessions
        BY <1>8, <2>1, <2>2, Sending DEF Reopen, AcpInv, AcpTypeOK
      <3> QED
        BY <1>8, <2>2, <3>1 DEF Reopen, AcpInv, AcpTypeOK
    <2>3. CASE opening' = r /\ ToPhase(r, "reopening") /\ UNCHANGED <<cancelled, tools>>
      <3>1. req'[r] \in ReqType /\ Goes(r, req'[r])
        BY <1>8, <2>1, <2>3
        DEF Reopen, ToPhase, Becomes, Goes, AcpInv, AcpTypeOK, LocksHeld, NamesOK, ReqType, Phases
      <3>2. req' \in [Reqs -> ReqType] /\ LocksHeld' /\ NamesOK'
        BY <3>1, GoesOn
      <3> QED
        BY <1>8, <2>3, <3>2 DEF Reopen, AcpInv, AcpTypeOK
    <2> QED
      BY <1>8, <2>2, <2>3 DEF Reopen
  <1>9. CASE CloseStart(r)
    <2>1. req'[r] \in ReqType /\ Goes(r, req'[r])
      BY <1>9, IdleTyped, FreeTyped
      DEF CloseStart, ToPhase, Becomes, Goes, AcpInv, AcpTypeOK, LocksHeld, NamesOK, ReqType, Phases
    <2>2. req' \in [Reqs -> ReqType] /\ LocksHeld' /\ NamesOK'
      BY <2>1, GoesOn
    <2> QED
      BY <2>2, <1>9, IdleTyped, FreeTyped DEF CloseStart, ToPhase, AcpInv, AcpTypeOK, LockType
  <1>10. CASE CloseLive(r)
    <2> DEFINE q == [req[r] EXCEPT !.phase = "closed", !.on = IF Running THEN "slot" ELSE "none",
                               !.todo = IF Running THEN SessionsOf(req[r].conv) ELSE {}]
    <2>e. req[r].conv \in Sessions
      BY <1>10 DEF CloseLive, AcpInv, NamesOK
    <2>d. SessionsOf(req[r].conv) \subseteq Sessions
      BY <2>e, MovesTyped DEF AcpInv, AcpTypeOK
    <2>a. q \in ReqType
      <3> DEFINE on == IF Running THEN "slot" ELSE "none"
                 todo == IF Running THEN SessionsOf(req[r].conv) ELSE {}
      <3>1. on \in On /\ "closed" \in Phases /\ req[r] \in ReqType
        BY DEF On, Phases, AcpInv, AcpTypeOK
      <3>2. todo \in SUBSET Sessions
        BY <2>d
      <3>3. q = [req[r] EXCEPT !.phase = "closed", !.on = on, !.todo = todo]
        OBVIOUS
      <3> HIDE DEF on, todo, q
      <3> QED
        BY <3>1, <3>2, <3>3, EditTyped
    <2>b. Becomes(r, q)
      BY <1>10 DEF CloseLive
    <2>c. Goes(r, q)
      BY <1>10, <2>b, FreeTyped DEF CloseLive, Goes, AcpInv, AcpTypeOK, LocksHeld, NamesOK, ReqType
    <2>1. req' \in [Reqs -> ReqType] /\ LocksHeld' /\ NamesOK'
      <3> HIDE DEF q
      <3> QED
        BY <2>a, <2>c, GoesOn
    <2> QED
      BY <1>10, <2>1, FreeTyped DEF CloseLive, AcpInv, AcpTypeOK
  <1>11. CASE CloseEnd(r)
    <2>1. req'[r] \in ReqType /\ Goes(r, req'[r])
      BY <1>11, IdleTyped, FreeTyped
      DEF CloseEnd, Ends, LetGo, Unmoved, MoveType, Becomes, Goes, AcpInv, AcpTypeOK, LocksHeld, NamesOK, ReqType, Phases
    <2>2. req' \in [Reqs -> ReqType] /\ LocksHeld' /\ NamesOK'
      BY <2>1, GoesOn
    <2>a. req[r].conv \in Sessions
      BY <1>11 DEF CloseEnd, AcpInv, NamesOK
    <2>3. moves' \in [Sessions -> MoveType]
      BY <1>11, <2>a, MovesTyped DEF CloseEnd, AcpInv, AcpTypeOK
    <2> QED
      BY <1>11, <2>2, <2>3 DEF CloseEnd, LetGo, AcpInv, AcpTypeOK
  <1>12. CASE Reopened(r)
    <2>a. req[r].phase = "reopening"
      BY <1>12 DEF Reopened
    <2>b. req[r].target \in Sessions
      BY <2>a DEF AcpInv, NamesOK
    <2>1. req[r].target \in Sessions /\ opening = r
      BY <2>a, <2>b DEF AcpInv, AcpTypeOK, LocksHeld
    <2>2. /\ req' \in [Reqs -> ReqType] /\ LocksHeld' /\ NamesOK'
          /\ cancelled' \in [Sessions -> {"no", "recent", "old"}] /\ tools' \subseteq Sessions
      BY <1>12, <2>1, Sending DEF Reopened, AcpInv, AcpTypeOK
    <2> QED
      BY <1>12, <2>1, <2>2 DEF Reopened, OpenedIn, AcpInv, AcpTypeOK
  <1>13. CASE ReopenFailed(r)
    <2>1. req'[r] \in ReqType /\ Goes(r, req'[r])
      BY <1>13, IdleTyped, FreeTyped
      DEF ReopenFailed, Ends, LetGo, Becomes, Goes, AcpInv, AcpTypeOK, LocksHeld, NamesOK, ReqType, Phases
    <2>2. req' \in [Reqs -> ReqType] /\ LocksHeld' /\ NamesOK'
      BY <2>1, GoesOn
    <2> QED
      BY <2>2, <1>13, IdleTyped, FreeTyped DEF ReopenFailed, Ends, LetGo, AcpInv, AcpTypeOK, LockType
  <1>14. CASE Refused(r)
    <2>1. req'[r] \in ReqType /\ Goes(r, req'[r])
      BY <1>14, IdleTyped, FreeTyped
      DEF Refused, Ends, TurnEnded, Becomes, Goes, AcpInv, AcpTypeOK, LocksHeld, NamesOK, ReqType, Phases
    <2>2. req' \in [Reqs -> ReqType] /\ LocksHeld' /\ NamesOK'
      BY <2>1, GoesOn
    <2>3. tools' \subseteq Sessions /\ cancelled' \in [Sessions -> {"no", "recent", "old"}]
      BY <1>14 DEF Refused, TurnEnded, AcpInv, AcpTypeOK
    <2> QED
      BY <1>14, <2>2, <2>3 DEF Refused, AcpInv, AcpTypeOK
  <1>15. CASE AnswerNew(r)
    <2>1. req'[r] \in ReqType /\ Goes(r, req'[r])
      BY <1>15, IdleTyped, FreeTyped
      DEF AnswerNew, Ends, Fresh, OpenedIn, Becomes, Goes, AcpInv, AcpTypeOK, LocksHeld, NamesOK, ReqType, Phases
    <2>2. req' \in [Reqs -> ReqType] /\ LocksHeld' /\ NamesOK'
      BY <2>1, GoesOn
    <2> QED
      BY <2>2, <1>15, IdleTyped, FreeTyped DEF AnswerNew, Ends, Fresh, OpenedIn, AcpInv, AcpTypeOK, LockType
  <1>16. CASE AnswerLoad(r)
    <2>1. req'[r] \in ReqType /\ Goes(r, req'[r])
      BY <1>16, IdleTyped, FreeTyped
      DEF AnswerLoad, Ends, OpenedIn, Becomes, Goes, AcpInv, AcpTypeOK, LocksHeld, NamesOK, ReqType, Phases
    <2>2. req' \in [Reqs -> ReqType] /\ LocksHeld' /\ NamesOK'
      BY <2>1, GoesOn
    <2>3. req[r].target \in Sessions
      BY <1>16 DEF AnswerLoad, AcpInv, NamesOK
    <2> QED
      BY <1>16, <2>2, <2>3 DEF AnswerLoad, OpenedIn, AcpInv, AcpTypeOK
  <1>17. CASE AnswerSet(r)
    <2>1. req'[r] \in ReqType /\ Goes(r, req'[r])
      BY <1>17, IdleTyped, FreeTyped
      DEF AnswerSet, Ends, Becomes, Goes, AcpInv, AcpTypeOK, LocksHeld, NamesOK, ReqType, Phases
    <2>2. req' \in [Reqs -> ReqType] /\ LocksHeld' /\ NamesOK'
      BY <2>1, GoesOn
    <2> QED
      BY <2>2, <1>17, IdleTyped, FreeTyped DEF AnswerSet, Ends, AcpInv, AcpTypeOK, LockType
  <1>18. CASE AnswerPrompt(r)
    <2>1. req'[r] \in ReqType /\ Goes(r, req'[r])
      BY <1>18, IdleTyped, FreeTyped
      DEF AnswerPrompt, Ends, TurnEnded, MoveType, Becomes, Goes, AcpInv, AcpTypeOK, LocksHeld, NamesOK, ReqType, Phases
    <2>2. req' \in [Reqs -> ReqType] /\ LocksHeld' /\ NamesOK'
      BY <2>1, GoesOn
    <2>3. tools' \subseteq Sessions /\ cancelled' \in [Sessions -> {"no", "recent", "old"}]
      BY <1>18 DEF AnswerPrompt, TurnEnded, AcpInv, AcpTypeOK
    <2>4. moves' \in [Sessions -> MoveType]
      BY <1>18, MovesTyped DEF AnswerPrompt, AcpInv, AcpTypeOK, NamesOK
    <2>5. suspect' \in BOOLEAN
      BY <1>18 DEF AnswerPrompt, AcpInv, AcpTypeOK
    <2> QED
      BY <1>18, <2>2, <2>3, <2>4, <2>5 DEF AnswerPrompt, AcpInv, AcpTypeOK
  <1>19. CASE AnswerDelete(r)
    <2>1. req'[r] \in ReqType /\ Goes(r, req'[r])
      BY <1>19, IdleTyped, FreeTyped
      DEF AnswerDelete, Ends, Unmoved, MoveType, Becomes, Goes, AcpInv, AcpTypeOK, LocksHeld, NamesOK, ReqType, Phases
    <2>2. req' \in [Reqs -> ReqType] /\ LocksHeld' /\ NamesOK'
      BY <2>1, GoesOn
    <2>3. moves' \in [Sessions -> MoveType]
      BY <1>19, MovesTyped DEF AnswerDelete, AcpInv, AcpTypeOK, NamesOK
    <2> QED
      BY <1>19, <2>2, <2>3 DEF AnswerDelete, AcpInv, AcpTypeOK
  <1>20. CASE AnswerMove(r)
    <2>1. req'[r] \in ReqType /\ Goes(r, req'[r])
      BY <1>20, IdleTyped, FreeTyped
      DEF AnswerMove, Ends, Fresh, OpenedIn, MoveType, Becomes, Goes, AcpInv, AcpTypeOK, LocksHeld, NamesOK, ReqType, Phases
    <2>2. req' \in [Reqs -> ReqType] /\ LocksHeld' /\ NamesOK'
      BY <2>1, GoesOn
    <2>3. PICK s \in Fresh :
             /\ used' = used \cup {s}
             /\ OpenedIn(r, {s})
             /\ moves' = [moves EXCEPT ![req[r].conv] =
                             [session |-> s, note |-> s, earlier |-> @.earlier \cup {@.session}]]
      BY <1>20 DEF AnswerMove
    <2>4. s \in Sessions
      BY DEF Fresh
    <2>5. moves' \in [Sessions -> MoveType]
      BY <2>3, <2>4 DEF MoveType, AcpInv, AcpTypeOK
    <2> QED
      BY <1>20, <2>2, <2>3, <2>4, <2>5 DEF AnswerMove, OpenedIn, AcpInv, AcpTypeOK
  <1>21. CASE CloseFailed(r)
    <2>1. req'[r] \in ReqType /\ Goes(r, req'[r])
      BY <1>21, IdleTyped, FreeTyped
      DEF CloseFailed, Ends, LetGo, Becomes, Goes, AcpInv, AcpTypeOK, LocksHeld, NamesOK, ReqType, Phases
    <2>2. req' \in [Reqs -> ReqType] /\ LocksHeld' /\ NamesOK'
      BY <2>1, GoesOn
    <2> QED
      BY <2>2, <1>21, IdleTyped, FreeTyped DEF CloseFailed, Ends, LetGo, AcpInv, AcpTypeOK, LockType
  <1> QED
    BY <1>1, <1>2, <1>3, <1>4, <1>5, <1>6, <1>7, <1>8, <1>9, <1>10, <1>11, <1>12, <1>13, <1>14, <1>15, <1>16, <1>17, <1>18, <1>19, <1>20, <1>21 DEF OwnStep

\* Requests are left on another process, as f has them, and one of them goes on
\* with no lock but that of the process.
Elsewhere(r, p, f) ==
    /\ p \in {"starting", "again"}
    /\ f \in [Reqs -> ReqType] /\ req' = [f EXCEPT ![r].phase = p]
    /\ \A o \in Reqs : /\ f[o].phase = req[o].phase /\ f[o].does = req[o].does
                       /\ f[o].conv = req[o].conv /\ f[o].target = req[o].target
    /\ req[r].phase \in {"live", "again", "starting", "stopping"} /\ opening' = opening
    /\ \A o \in Reqs \ {r} : lock'.by = o <=> lock.by = o
    /\ lock'.by = r <=> p = "starting"
    /\ lock'.does \in {"start", "stop"} => slot' = "none"

\* Such a step keeps them so too.
LEMMA GoesOnElsewhere ==
  ASSUME AcpInv, NEW r \in Reqs, NEW p, NEW f, Elsewhere(r, p, f)
  PROVE  req' \in [Reqs -> ReqType] /\ LocksHeld' /\ NamesOK'
  <1>1. req' \in [Reqs -> ReqType]
    BY DEF Elsewhere, ReqType, Phases
  <1>2. /\ req'[r].phase = p /\ req'[r].does = req[r].does /\ req'[r].conv = req[r].conv
        /\ \A o \in Reqs \ {r} : req'[o] = f[o]
    BY DEF Elsewhere, ReqType
  <1>3. LocksHeld'
    BY <1>2 DEF Elsewhere, AcpInv, AcpTypeOK, LocksHeld
  <1>4. NamesOK'
    BY <1>2 DEF Elsewhere, AcpInv, NamesOK
  <1> QED
    BY <1>1, <1>3, <1>4

\* A process is taken away, whoever holds the lock.
LEMMA TakenTyped ==
  ASSUME AcpInv, NEW by \in Reqs \cup {"watch", "stop"}, TakeAway(by)
  PROVE  /\ lock' \in LockType /\ lock'.by = by /\ lock'.does = "stop" /\ slot' = "none"
         /\ open' \subseteq Sessions /\ suspect' \in BOOLEAN
         /\ cancelled' \in [Sessions -> {"no", "recent", "old"}]
         /\ tools' \subseteq Sessions /\ asks' \subseteq Sessions
  <1>1. ConversationsOf(open) \subseteq Sessions
    BY Belong DEF AcpInv, AcpTypeOK
  <1> QED
    BY <1>1, FreeTyped DEF TakeAway, Forget, Free, LockType

\* A process is started, whoever takes the lock.
LEMMA StartTyped ==
  ASSUME AcpInv, NEW by \in Reqs \cup {"probe"}, Start(by)
  PROVE  /\ lock' \in LockType /\ lock'.by = by /\ lock.by = None /\ slot' = "none"
         /\ paused' \subseteq Sessions
         /\ open' \subseteq Sessions /\ suspect' \in BOOLEAN
         /\ cancelled' \in [Sessions -> {"no", "recent", "old"}]
         /\ tools' \subseteq Sessions /\ asks' \subseteq Sessions
  <1>1. ConversationsOf(open) \subseteq Sessions
    BY Belong DEF AcpInv, AcpTypeOK
  <1> QED
    BY <1>1, FreeTyped DEF Start, MayStart, Forget, Free, LockType, AcpInv, AcpTypeOK

\* The steps of a request that touch others, or are not its own.
SharedStep(r) ==
    \/ \E m \in Methods, c \in Sessions \cup {None} : Ask(r, m, c)
    \/ StartLive(r) \/ FreshPause(r) \/ \E s \in Sessions : CloseOne(r, s)

\* A request is asked, starts or stops the process, or has a session closed.
LEMMA SharedInv ==
  ASSUME AcpInv, NEW r \in Reqs, SharedStep(r)
  PROVE  AcpInv'
  <1> USE AcpAssumption DEF AcpAssumption, process, state, conversations, life
  <1>1. ASSUME NEW m \in Methods, NEW c \in Sessions \cup {None}, Ask(r, m, c)
        PROVE  AcpInv'
    <2> DEFINE p == IF m = "close" THEN "close" ELSE "live"
               q == [Idle EXCEPT !.phase = p, !.does = m, !.conv = c]
    <2>1. /\ q \in ReqType /\ q.phase = p /\ q.does = m /\ q.conv = c
          /\ p \in {"close", "live"}
      BY DEF Idle, ReqType, Phases
    <2>2. Becomes(r, q) /\ req[r].phase = "idle" /\ (m = "new" <=> c = None)
      BY <1>1, IdleTyped DEF Ask
    <2>3. Goes(r, q)
      <3> HIDE DEF q
      <3> QED
        BY <1>1, <2>1, <2>2 DEF Ask, Goes, AcpInv, AcpTypeOK, LocksHeld
    <2>4. req' \in [Reqs -> ReqType] /\ LocksHeld' /\ NamesOK'
      <3> HIDE DEF q
      <3> QED
        BY <2>1, <2>3, GoesOn
    <2> QED
      BY <1>1, <2>4 DEF Ask, AcpInv, AcpTypeOK
  <1>2. CASE StartLive(r)
    <2>1. /\ lock' \in LockType /\ lock'.by = r /\ lock.by = None /\ slot' = "none"
          /\ paused' \subseteq Sessions
          /\ open' \subseteq Sessions /\ suspect' \in BOOLEAN
          /\ cancelled' \in [Sessions -> {"no", "recent", "old"}]
          /\ tools' \subseteq Sessions /\ asks' \subseteq Sessions
      BY <1>2, StartTyped DEF StartLive
    <2> DEFINE f == Left("slot", "gone")
    <2>2. /\ f \in [Reqs -> ReqType]
          /\ \A o \in Reqs : /\ f[o].phase = req[o].phase /\ f[o].does = req[o].does
                             /\ f[o].conv = req[o].conv /\ f[o].target = req[o].target
      BY LeftTyped DEF AcpInv, AcpTypeOK
    <2>3. Elsewhere(r, "starting", f)
      <3>1. req' = [f EXCEPT ![r].phase = "starting"] /\ req[r].phase \in {"live", "again"}
            /\ UNCHANGED opening
        BY <1>2 DEF StartLive
      <3> HIDE DEF f
      <3> QED
        BY <2>1, <2>2, <3>1 DEF Elsewhere
    <2>4. req' \in [Reqs -> ReqType] /\ LocksHeld' /\ NamesOK'
      <3> HIDE DEF f
      <3> QED
        BY <2>3, GoesOnElsewhere
    <2> QED
      BY <1>2, <2>1, <2>4 DEF StartLive, AcpInv, AcpTypeOK
  <1>3. CASE FreshPause(r)
    <2>1. CASE TakeAway(r) /\ req' = Left("slot", "taken")
      <3>1. /\ Left("slot", "taken") \in [Reqs -> ReqType]
            /\ \A o \in Reqs : /\ Left("slot", "taken")[o].phase = req[o].phase
                               /\ Left("slot", "taken")[o].does = req[o].does
                               /\ Left("slot", "taken")[o].conv = req[o].conv
                               /\ Left("slot", "taken")[o].target = req[o].target
        BY LeftTyped DEF AcpInv, AcpTypeOK
      <3>2. /\ lock' \in LockType /\ lock'.by = r /\ lock'.does = "stop" /\ slot' = "none"
            /\ open' \subseteq Sessions /\ suspect' \in BOOLEAN
            /\ cancelled' \in [Sessions -> {"no", "recent", "old"}]
            /\ tools' \subseteq Sessions /\ asks' \subseteq Sessions
        BY <2>1, TakenTyped
      <3>3. UNCHANGED opening /\ lock.by = r
        BY <1>3 DEF FreshPause
      <3>4. req' \in [Reqs -> ReqType] /\ LocksHeld' /\ NamesOK'
        BY <2>1, <3>1, <3>2, <3>3, StandsStill
      <3> QED
        BY <1>3, <3>2, <3>4 DEF FreshPause, AcpInv, AcpTypeOK
    <2>2. CASE lock' = Free /\ ToPhase(r, "got") /\ UNCHANGED <<slot, state>>
      <3>1. req[r].phase \in {"starting", "stopping"}
        BY <1>3 DEF FreshPause, AcpInv, AcpTypeOK, LocksHeld
      <3>2. req'[r] \in ReqType /\ Becomes(r, req'[r]) /\ req'[r] = [req[r] EXCEPT !.phase = "got"]
        BY <2>2 DEF ToPhase, Becomes, AcpInv, AcpTypeOK, ReqType, Phases
      <3>3. Goes(r, req'[r])
        <4>1. /\ lock.by = r /\ lock'.by = None /\ lock'.does = "none" /\ UNCHANGED opening
              /\ None \notin Reqs
          BY <1>3, <2>2, FreeTyped DEF FreshPause
        <4>2. /\ req'[r].phase = "got" /\ req'[r].does = req[r].does
              /\ req'[r].conv = req[r].conv /\ req[r].does # "new" => req[r].conv \in Sessions
          BY <3>1, <3>2 DEF AcpInv, AcpTypeOK, NamesOK, ReqType
        <4> QED
          BY <3>1, <3>2, <4>1, <4>2 DEF Goes, AcpInv, AcpTypeOK, LocksHeld
      <3>4. req' \in [Reqs -> ReqType] /\ LocksHeld' /\ NamesOK'
        BY <3>2, <3>3, GoesOn
      <3> QED
        BY <1>3, <2>2, <3>4, FreeTyped DEF FreshPause, AcpInv, AcpTypeOK
    <2> QED
      BY <1>3, <2>1, <2>2 DEF FreshPause
  <1>4. ASSUME NEW s \in Sessions, CloseOne(r, s)
        PROVE  AcpInv'
    <2> DEFINE q == [req[r] EXCEPT !.todo = @ \ {s}]
    <2>1. q \in ReqType /\ q.phase = req[r].phase /\ q.does = req[r].does /\ q.conv = req[r].conv
          /\ q.target = req[r].target /\ req[r].phase = "closed"
      BY <1>4 DEF CloseOne, AcpInv, AcpTypeOK, ReqType
    <2>2. Becomes(r, q)
      BY <1>4 DEF CloseOne
    <2>3. Goes(r, q)
      <3> HIDE DEF q
      <3> QED
        BY <1>4, <2>1, <2>2 DEF CloseOne, Goes, AcpInv, AcpTypeOK, LocksHeld, NamesOK
    <2>4. req' \in [Reqs -> ReqType] /\ LocksHeld' /\ NamesOK'
      <3> HIDE DEF q
      <3> QED
        BY <2>1, <2>3, GoesOn
    <2> QED
      BY <1>4, <2>4 DEF CloseOne, AcpInv, AcpTypeOK
  <1> QED
    BY <1>1, <1>2, <1>3, <1>4 DEF SharedStep

\* The steps that are no request's.
OtherStep ==
    \/ \E c \in Sessions : Cancel(c) \/ TellCancel(c) \/ GraceOver(c) \/ OwnWork(c)
    \/ LookWedged \/ Die \/ Stopped \/ WatchLook \/ WatchPause
    \/ Probe \/ ProbeLive \/ ProbeStarted \/ Shutdown \/ ShutdownPause

\* The watch, the probe, shutdown, cancels and what the agent does by itself.
LEMMA OtherInv ==
  ASSUME AcpInv, OtherStep
  PROVE  AcpInv'
  <1> USE AcpAssumption DEF AcpAssumption, process, state, conversations, life
  <1>l. \A from, to : to \in {"taken", "gone"} =>
          /\ Left(from, to) \in [Reqs -> ReqType]
          /\ \A r \in Reqs : /\ Left(from, to)[r].phase = req[r].phase
                             /\ Left(from, to)[r].does = req[r].does
                             /\ Left(from, to)[r].conv = req[r].conv
                             /\ Left(from, to)[r].target = req[r].target
    BY LeftTyped DEF AcpInv, AcpTypeOK
  <1>s. ASSUME UNCHANGED <<req, opening>>, \A r \in Reqs : lock'.by = r <=> lock.by = r,
               lock'.does \in {"start", "stop"} => slot' = "none"
        PROVE  req' \in [Reqs -> ReqType] /\ LocksHeld' /\ NamesOK'
    BY <1>s, StandsStill DEF AcpInv, AcpTypeOK
  <1>1. ASSUME NEW c \in Sessions, Cancel(c) PROVE AcpInv'
    <2> DEFINE f == [r \in Reqs |-> IF req[r].does = "prompt" /\ req[r].conv = c
                              THEN [req[r] EXCEPT !.told = "asked"] ELSE req[r]]
    <2>1. /\ f \in [Reqs -> ReqType]
          /\ \A r \in Reqs : /\ f[r].phase = req[r].phase /\ f[r].does = req[r].does
                             /\ f[r].conv = req[r].conv /\ f[r].target = req[r].target
      BY DEF AcpInv, AcpTypeOK, ReqType
    <2>2. req' = f /\ UNCHANGED <<opening, lock, slot>>
      BY <1>1 DEF Cancel
    <2>3. req' \in [Reqs -> ReqType] /\ LocksHeld' /\ NamesOK'
      <3> HIDE DEF f
      <3> QED
        BY <2>1, <2>2, StandsStill DEF AcpInv, AcpTypeOK, LocksHeld
    <2> QED
      BY <1>1, <2>3 DEF Cancel, AcpInv, AcpTypeOK
  <1>2. ASSUME NEW c \in Sessions, TellCancel(c) PROVE AcpInv'
    <2> DEFINE f == [r \in Reqs |-> IF Running /\ r \in Prompts(c)
                              THEN [req[r] EXCEPT !.told = "told"] ELSE req[r]]
    <2>1. /\ f \in [Reqs -> ReqType]
          /\ \A r \in Reqs : /\ f[r].phase = req[r].phase /\ f[r].does = req[r].does
                             /\ f[r].conv = req[r].conv /\ f[r].target = req[r].target
      BY DEF AcpInv, AcpTypeOK, ReqType
    <2>2. req' = f /\ UNCHANGED <<opening, lock, slot>>
      BY <1>2 DEF TellCancel
    <2>3. req' \in [Reqs -> ReqType] /\ LocksHeld' /\ NamesOK'
      <3> HIDE DEF f
      <3> QED
        BY <2>1, <2>2, StandsStill DEF AcpInv, AcpTypeOK, LocksHeld
    <2> QED
      BY <1>2, <2>3 DEF TellCancel, AcpInv, AcpTypeOK
  <1>3. ASSUME NEW c \in Sessions, GraceOver(c) \/ OwnWork(c) PROVE AcpInv'
    <2>1. UNCHANGED <<req, opening, lock, slot>>
      BY <1>3 DEF GraceOver, OwnWork
    <2>2. req' \in [Reqs -> ReqType] /\ LocksHeld' /\ NamesOK'
      BY <2>1, <1>s DEF AcpInv, AcpTypeOK, LocksHeld
    <2> QED
      BY <1>3, <2>2 DEF GraceOver, OwnWork, AcpInv, AcpTypeOK
  <1>4. CASE LookWedged \/ Die \/ Probe \/ Shutdown
    <2>1. UNCHANGED <<req, opening, lock>> /\ (lock.does \in {"start", "stop"} => slot' = "none")
      BY <1>4 DEF LookWedged, Die, Probe, Shutdown, Running, AcpInv, AcpTypeOK, LocksHeld
    <2>2. req' \in [Reqs -> ReqType] /\ LocksHeld' /\ NamesOK'
      BY <2>1, <1>s
    <2> QED
      BY <1>4, <2>2 DEF LookWedged, Die, Probe, Shutdown, AcpInv, AcpTypeOK
  <1>5. CASE Stopped
    <2>1. paused' \subseteq Sessions /\ lock' = Free /\ UNCHANGED <<opening, slot>>
      BY <1>5 DEF Stopped, AcpInv, AcpTypeOK, LockType
    <2>2. ASSUME NEW r \in Reqs, lock.by = r PROVE AcpInv'
      <3> DEFINE f == Left("taken", "gone")
      <3>1. req' = [f EXCEPT ![r].phase = "again"]
        BY <1>5, <2>2 DEF Stopped
      <3>2. req[r].phase \in {"starting", "stopping"}
        BY <2>2 DEF AcpInv, AcpTypeOK, LocksHeld
      <3>3. /\ f \in [Reqs -> ReqType]
            /\ \A o \in Reqs : /\ f[o].phase = req[o].phase /\ f[o].does = req[o].does
                               /\ f[o].conv = req[o].conv /\ f[o].target = req[o].target
        BY <1>l
      <3>4. lock'.by = None /\ lock'.does = "none"
        BY <2>1, FreeTyped
      <3>5. Elsewhere(r, "again", f)
        <4> HIDE DEF f
        <4> QED
          BY <2>1, <2>2, <3>1, <3>2, <3>3, <3>4 DEF Elsewhere
      <3>6. req' \in [Reqs -> ReqType] /\ LocksHeld' /\ NamesOK'
        <4> HIDE DEF f
        <4> QED
          BY <3>5, GoesOnElsewhere
      <3> QED
        BY <1>5, <2>1, <3>6, FreeTyped DEF Stopped, AcpInv, AcpTypeOK
    <2>3. CASE lock.by \notin Reqs
      <3>1. req' = Left("taken", "gone") /\ lock'.by = None /\ lock'.does = "none"
        BY <1>5, <2>1, <2>3, FreeTyped DEF Stopped
      <3>2. req' \in [Reqs -> ReqType] /\ LocksHeld' /\ NamesOK'
        BY <1>l, <2>1, <2>3, <3>1, StandsStill
      <3> QED
        BY <1>5, <2>1, <3>2, FreeTyped DEF Stopped, AcpInv, AcpTypeOK
    <2> QED
      BY <2>2, <2>3
  <1>6. CASE WatchLook
    <2>1. /\ UNCHANGED <<req, opening, slot>>
          /\ lock'.by = "watch" /\ lock'.does = "look" /\ lock.by = None
      BY <1>6, FreeTyped DEF WatchLook, Look, Free
    <2>2. req' \in [Reqs -> ReqType] /\ LocksHeld' /\ NamesOK'
      BY <2>1, <1>s
    <2> QED
      BY <1>6, <2>2, CountTyped DEF WatchLook, Look, Free, LockType, AcpInv, AcpTypeOK
  <1>7. CASE WatchPause
    <2>1. CASE TakeAway("watch") /\ req' = Left("slot", "taken")
      <3>1. /\ lock' \in LockType /\ lock'.by = "watch" /\ lock'.does = "stop" /\ slot' = "none"
            /\ open' \subseteq Sessions /\ suspect' \in BOOLEAN
            /\ cancelled' \in [Sessions -> {"no", "recent", "old"}]
            /\ tools' \subseteq Sessions /\ asks' \subseteq Sessions
        BY <2>1, TakenTyped
      <3>2. UNCHANGED opening /\ lock.by = "watch"
        BY <1>7 DEF WatchPause
      <3>3. req' \in [Reqs -> ReqType] /\ LocksHeld' /\ NamesOK'
        BY <1>l, <2>1, <3>1, <3>2, StandsStill
      <3> QED
        BY <1>7, <3>1, <3>3 DEF WatchPause, AcpInv, AcpTypeOK
    <2>2. CASE lock' = Free /\ UNCHANGED <<slot, state, req>>
      <3>1. /\ UNCHANGED <<req, opening, slot>>
            /\ lock'.by = None /\ lock'.does = "none" /\ lock.by = "watch"
        BY <1>7, <2>2, FreeTyped DEF WatchPause
      <3>2. req' \in [Reqs -> ReqType] /\ LocksHeld' /\ NamesOK'
        BY <3>1, <1>s
      <3> QED
        BY <1>7, <2>2, <3>2, FreeTyped DEF WatchPause, AcpInv, AcpTypeOK
    <2> QED
      BY <1>7, <2>1, <2>2 DEF WatchPause
  <1>8. CASE ProbeLive
    <2>1. CASE UNCHANGED <<slot, lock, state, paused, req>> /\ probe' = "idle"
      <3>1. req' \in [Reqs -> ReqType] /\ LocksHeld' /\ NamesOK'
        BY <1>8, <2>1, <1>s DEF ProbeLive, AcpInv, AcpTypeOK, LocksHeld
      <3> QED
        BY <1>8, <2>1, <3>1 DEF ProbeLive, AcpInv, AcpTypeOK
    <2>2. CASE Start("probe") /\ req' = Left("slot", "gone") /\ probe' = "starting"
      <3>1. /\ lock' \in LockType /\ lock'.by = "probe" /\ lock.by = None /\ slot' = "none"
            /\ paused' \subseteq Sessions
            /\ open' \subseteq Sessions /\ suspect' \in BOOLEAN
            /\ cancelled' \in [Sessions -> {"no", "recent", "old"}]
            /\ tools' \subseteq Sessions /\ asks' \subseteq Sessions
        BY <2>2, StartTyped
      <3>2. UNCHANGED opening
        BY <1>8 DEF ProbeLive
      <3>3. req' \in [Reqs -> ReqType] /\ LocksHeld' /\ NamesOK'
        BY <1>l, <2>2, <3>1, <3>2, StandsStill
      <3> QED
        BY <1>8, <2>2, <3>1, <3>3 DEF ProbeLive, AcpInv, AcpTypeOK
    <2> QED
      BY <1>8, <2>1, <2>2 DEF ProbeLive
  <1>9. CASE ProbeStarted
    <2>1. /\ UNCHANGED <<req, opening>> /\ lock' = Free
          /\ lock'.by = None /\ lock'.does = "none" /\ lock.by = "probe"
      BY <1>9, FreeTyped DEF ProbeStarted, Started, NotStarted
    <2>2. req' \in [Reqs -> ReqType] /\ LocksHeld' /\ NamesOK'
      BY <2>1, <1>s
    <2> QED
      BY <1>9, <2>1, <2>2, FreeTyped DEF ProbeStarted, Started, NotStarted, AcpInv, AcpTypeOK
  <1>10. CASE ShutdownPause
    <2>1. CASE TakeAway("stop") /\ req' = Left("slot", "taken")
      <3>1. /\ lock' \in LockType /\ lock'.by = "stop" /\ lock'.does = "stop" /\ slot' = "none"
            /\ open' \subseteq Sessions /\ suspect' \in BOOLEAN
            /\ cancelled' \in [Sessions -> {"no", "recent", "old"}]
            /\ tools' \subseteq Sessions /\ asks' \subseteq Sessions
        BY <2>1, TakenTyped
      <3>2. UNCHANGED opening /\ lock.by = None
        BY <1>10, FreeTyped DEF ShutdownPause
      <3>3. req' \in [Reqs -> ReqType] /\ LocksHeld' /\ NamesOK'
        BY <1>l, <2>1, <3>1, <3>2, StandsStill
      <3> QED
        BY <1>10, <3>1, <3>3 DEF ShutdownPause, AcpInv, AcpTypeOK
    <2>2. CASE UNCHANGED <<slot, lock, state, req>>
      <3>1. req' \in [Reqs -> ReqType] /\ LocksHeld' /\ NamesOK'
        BY <1>10, <2>2, <1>s DEF ShutdownPause, AcpInv, AcpTypeOK, LocksHeld
      <3> QED
        BY <1>10, <2>2, <3>1 DEF ShutdownPause, AcpInv, AcpTypeOK
    <2> QED
      BY <1>10, <2>1, <2>2 DEF ShutdownPause
  <1> QED
    BY <1>1, <1>2, <1>3, <1>4, <1>5, <1>6, <1>7, <1>8, <1>9, <1>10 DEF OtherStep

\* Every step of the agent is one of these, or stutters.
LEMMA AcpStepInv == AcpInv /\ [AcpNext]_acpVars => AcpInv'
  <1> SUFFICES ASSUME AcpInv, [AcpNext]_acpVars PROVE AcpInv'
    OBVIOUS
  <1>1. ASSUME NEW r \in Reqs, OwnStep(r) \/ SharedStep(r) PROVE AcpInv'
    BY <1>1, RequestInv, SharedInv
  <1>2. CASE OtherStep
    BY <1>2, OtherInv
  <1>3. CASE UNCHANGED acpVars
    BY <1>3 DEF acpVars, AcpInv, AcpTypeOK, LocksHeld, NamesOK
  <1>4. AcpNext => OtherStep \/ \E r \in Reqs : OwnStep(r) \/ SharedStep(r)
    BY DEF AcpNext, ReqStep, AgentStep, OtherStep, OwnStep, SharedStep
  <1> QED
    BY <1>1, <1>2, <1>3, <1>4

\* Whatever is asked, and however starts, pauses, reopens, moves, cancels and the
\* end of a process interleave, what the agent's client keeps is of its kind, and
\* its two locks are held by the requests at what they guard, and by no other.
THEOREM AgentTyped == AcpSpec => []AcpTypeOK
  <1>1. AcpInv => AcpTypeOK
    BY DEF AcpInv
  <1> QED
    BY <1>1, AcpInitInv, AcpStepInv, PTL DEF AcpSpec

-----------------------------------------------------------------------------
(* Shutting down *)

\* Shutdown's task runs once the agent is closing, and that is final.
StopOK == closing \in BOOLEAN /\ (stop # "none" => closing) /\ StopsForGood

\* No step starts a process once it closes, and nothing that was starting one
\* outlives the stop, which waits for the lock.
LEMMA StopStep == StopOK /\ [AcpNext]_acpVars => StopOK'
  <1> SUFFICES ASSUME StopOK, [AcpNext]_acpVars PROVE StopOK'
    OBVIOUS
  <1> USE DEF process, state, conversations, life, Running, StopOK, StopsForGood
  <1>f. Free.does = "none"
    BY DEF Free
  <1>t. ASSUME NEW by, TakeAway(by) PROVE lock'.does = "stop" /\ slot' = "none"
    BY <1>t DEF TakeAway, Free
  <1>1. ASSUME NEW r \in Reqs, OwnStep(r) PROVE StopOK'
    BY <1>1 DEF OwnStep, GetLive, RefuseLive, LiveStarted, LiveFailed, Started, NotStarted,
       FreshLook, FreshStays, Look, Route, Reopen, CloseStart, CloseLive, CloseEnd, Reopened,
       ReopenFailed, Refused, AnswerNew, AnswerLoad, AnswerSet, AnswerPrompt, AnswerDelete,
       AnswerMove, CloseFailed, Free
  <1>2. ASSUME NEW r \in Reqs, SharedStep(r) PROVE StopOK'
    <2>1. ASSUME NEW m \in Methods, NEW c \in Sessions \cup {None}, Ask(r, m, c) PROVE StopOK'
      BY <2>1 DEF Ask
    <2>2. CASE StartLive(r)
      BY <2>2 DEF StartLive, Start, MayStart
    <2>3. CASE FreshPause(r)
      BY <2>3, <1>f, <1>t DEF FreshPause
    <2>4. ASSUME NEW s \in Sessions, CloseOne(r, s) PROVE StopOK'
      BY <2>4 DEF CloseOne
    <2> QED
      BY <1>2, <2>1, <2>2, <2>3, <2>4 DEF SharedStep
  <1>3. CASE OtherStep
    <2>1. ASSUME NEW c \in Sessions, Cancel(c) \/ TellCancel(c) \/ GraceOver(c) \/ OwnWork(c)
          PROVE  StopOK'
      BY <2>1 DEF Cancel, TellCancel, GraceOver, OwnWork
    <2>2. CASE LookWedged \/ Die \/ Stopped \/ Probe \/ Shutdown
      <3>1. CASE LookWedged
        BY <3>1 DEF LookWedged
      <3>2. CASE Die
        BY <3>2 DEF Die
      <3>3. CASE Stopped
        BY <3>3, <1>f DEF Stopped
      <3>4. CASE Probe
        BY <3>4 DEF Probe
      <3>5. CASE Shutdown
        BY <3>5 DEF Shutdown
      <3> QED
        BY <2>2, <3>1, <3>2, <3>3, <3>4, <3>5
    <2>3. CASE WatchLook \/ WatchPause
      <3>1. CASE WatchLook
        BY <3>1 DEF WatchLook, Look, Free
      <3>2. CASE WatchPause
        BY <3>2, <1>f, <1>t DEF WatchPause
      <3> QED
        BY <2>3, <3>1, <3>2
    <2>4. CASE ProbeLive \/ ProbeStarted
      BY <2>4 DEF ProbeLive, Start, MayStart, ProbeStarted, Started, NotStarted, Free
    <2>5. CASE ShutdownPause
      BY <2>5, <1>f, <1>t DEF ShutdownPause
    <2> QED
      BY <1>3, <2>1, <2>2, <2>3, <2>4, <2>5 DEF OtherStep
  <1>4. CASE UNCHANGED acpVars
    BY <1>4 DEF acpVars
  <1>5. AcpNext => OtherStep \/ \E r \in Reqs : OwnStep(r) \/ SharedStep(r)
    BY DEF AcpNext, ReqStep, AgentStep, OtherStep, OwnStep, SharedStep
  <1> QED
    BY <1>1, <1>2, <1>3, <1>4, <1>5

\* Once shutdown has stopped the agent no process of it runs and none is being
\* started, whichever requests, probes or pauses were on their way.
THEOREM StopsStay == AcpSpec => []StopsForGood
  <1>1. AcpInit => StopOK
    BY DEF AcpInit, StopOK, StopsForGood
  <1>2. StopOK => StopsForGood
    BY DEF StopOK
  <1> QED
    BY <1>1, <1>2, StopStep, PTL DEF AcpSpec

-----------------------------------------------------------------------------
(* No conversation is forgotten *)

\* Sessions are known once the agent gave them out, conversations moved into them
\* alone, and only a process that stops has any apart.
KnownOK ==
    /\ open \cup paused \cup lock.open \cup MovedTo \subseteq used
    /\ \A c \in Sessions : SessionsOf(c) \ {c} # {} => c \in used
    /\ \A r \in Reqs : /\ req[r].conv # None => req[r].conv \in used \ MovedTo
                       /\ req[r].target # None => req[r].target \in used
    /\ lock.does # "stop" => lock.open = {}

Kept == \A c \in Held \ Held' : \E r \in Reqs : Ending(r) /\ c \in For(r)

\* Conversations as long as none moves.
LEMMA ConversationsStay ==
  ASSUME UNCHANGED moves
  PROVE  /\ MovedTo' = MovedTo /\ \A c \in Sessions : SessionsOf(c)' = SessionsOf(c)
         /\ ConversationsOf(open)' = ConversationsOf(open')
  BY DEF MovedTo, SessionsOf, ConversationsOf

\* More sessions are of more conversations.
LEMMA ConversationsGrow ==
  ASSUME NEW S, NEW T, S \subseteq T
  PROVE  ConversationsOf(S) \subseteq ConversationsOf(T)
  BY DEF ConversationsOf

\* Sessions taken away take away no conversations but their own.
LEMMA ConversationsShrink ==
  ASSUME NEW S, NEW T
  PROVE  ConversationsOf(S) \subseteq ConversationsOf(S \ T) \cup ConversationsOf(T)
  BY DEF ConversationsOf

\* Conversations of known sessions are known.
LEMMA ConversationsKnown ==
  ASSUME KnownOK, NEW S, S \subseteq used
  PROVE  ConversationsOf(S) \subseteq used
  BY DEF KnownOK, ConversationsOf

\* What a step needs that moves no conversation.
LEMMA KnownKeeps ==
  ASSUME KnownOK, UNCHANGED moves, used \subseteq used',
         open' \subseteq used', paused' \subseteq used', lock'.open \subseteq used',
         lock'.does # "stop" => lock'.open = {},
         \A r \in Reqs : /\ req'[r].conv = None \/ req'[r].conv \in used \ MovedTo
                         /\ req'[r].target = None \/ req'[r].target \in used
  PROVE  KnownOK'
  BY ConversationsStay DEF KnownOK

\* What a process that goes had open is recorded, or noted to be.
LEMMA StartKept ==
  ASSUME AcpInv, KnownOK, NEW by, Start(by), UNCHANGED <<moves, used>>,
         \A r \in Reqs : req'[r].conv = req[r].conv /\ req'[r].target = req[r].target
  PROVE  KnownOK' /\ Kept
  <1>1. /\ open' = {} /\ paused' = paused \cup ConversationsOf(open)
        /\ lock'.open = {} /\ lock.open = {}
    BY DEF Start, MayStart, Forget, Free
  <1>2. ConversationsOf(open) \subseteq used
    BY ConversationsKnown DEF KnownOK
  <1>3. KnownOK'
    BY <1>1, <1>2, KnownKeeps DEF KnownOK
  <1>4. Held \subseteq Held'
    BY <1>1 DEF Held
  <1> QED
    BY <1>3, <1>4 DEF Kept

LEMMA TakenKept ==
  ASSUME AcpInv, KnownOK, NEW by, TakeAway(by), lock.does # "stop",
         UNCHANGED <<moves, used, paused>>,
         \A r \in Reqs : req'[r].conv = req[r].conv /\ req'[r].target = req[r].target
  PROVE  KnownOK' /\ Kept
  <1>1. /\ open' = {} /\ lock'.does = "stop" /\ lock'.open = ConversationsOf(open)
        /\ lock.open = {}
    BY DEF TakeAway, Forget, Free, KnownOK
  <1>2. ConversationsOf(open) \subseteq used
    BY ConversationsKnown DEF KnownOK
  <1>3. KnownOK'
    BY <1>1, <1>2, KnownKeeps DEF KnownOK
  <1>4. Held \subseteq Held'
    BY <1>1 DEF Held
  <1> QED
    BY <1>3, <1>4 DEF Kept

\* A step that opens, pauses and moves nothing.
LEMMA QuietKept ==
  ASSUME AcpInv, KnownOK, UNCHANGED <<open, moves, used, paused>>,
         lock'.open = lock.open, lock'.does # "stop" \/ lock'.does = lock.does,
         lock.does # "stop" \/ lock'.does = lock.does,
         \A r \in Reqs : /\ req'[r].conv = None \/ req'[r].conv \in used \ MovedTo
                         /\ req'[r].target = None \/ req'[r].target \in used
  PROVE  KnownOK' /\ Kept
  <1>1. KnownOK'
    BY KnownKeeps DEF KnownOK
  <1>2. Held' = Held
    BY ConversationsStay DEF Held
  <1> QED
    BY <1>1, <1>2 DEF Kept

\* A request's own fields, as it is, is over, or goes on.
LEMMA NamedKept ==
  ASSUME AcpInv, KnownOK, NEW r \in Reqs, NEW q, Becomes(r, q),
         q.conv = None \/ q.conv \in used \ MovedTo,
         q.target = None \/ q.target \in used
  PROVE  \A o \in Reqs : /\ req'[o].conv = None \/ req'[o].conv \in used \ MovedTo
                         /\ req'[o].target = None \/ req'[o].target \in used
  BY DEF AcpInv, AcpTypeOK, Becomes, KnownOK

\* A request of the kind keeps what a step does not change.
LEMMA EditNamed ==
  ASSUME NEW x \in ReqType, NEW p, NEW on, NEW t, NEW n, NEW todo
  PROVE  /\ [x EXCEPT !.phase = p].conv = x.conv /\ [x EXCEPT !.phase = p].target = x.target
         /\ [x EXCEPT !.phase = p, !.on = on].conv = x.conv
         /\ [x EXCEPT !.phase = p, !.on = on].target = x.target
         /\ [x EXCEPT !.on = on, !.phase = p].conv = x.conv
         /\ [x EXCEPT !.on = on, !.phase = p].target = x.target
         /\ [x EXCEPT !.phase = p, !.target = t].conv = x.conv
         /\ [x EXCEPT !.phase = p, !.target = t].target = t
         /\ [x EXCEPT !.phase = p, !.target = t, !.note = n].conv = x.conv
         /\ [x EXCEPT !.phase = p, !.target = t, !.note = n].target = t
         /\ [x EXCEPT !.phase = p, !.on = on, !.todo = todo].conv = x.conv
         /\ [x EXCEPT !.phase = p, !.on = on, !.todo = todo].target = x.target
  BY DEF ReqType

\* Where a conversation continues is known.
LEMMA TargetKnown ==
  ASSUME KnownOK, NEW c \in used \cap Sessions
  PROVE  Target(c) \in used
  BY DEF KnownOK, Target, MovedTo, SessionsOf

\* The steps of a request that neither open, pause nor move anything.
QuietStep(r) ==
    \/ GetLive(r) \/ RefuseLive(r) \/ LiveStarted(r) \/ LiveFailed(r)
    \/ FreshLook(r) \/ FreshStays(r) \/ Route(r) \/ Reopen(r)
    \/ CloseStart(r) \/ CloseLive(r) \/ ReopenFailed(r) \/ Refused(r)
    \/ AnswerSet(r) \/ CloseFailed(r)

LEMMA QuietStepKept ==
  ASSUME AcpInv, KnownOK, NEW r \in Reqs, QuietStep(r)
  PROVE  KnownOK' /\ Kept
  <1> USE DEF process, state, conversations, life
  <1>i. Idle.conv = None /\ Idle.target = None
    BY DEF Idle
  <1>r. /\ req \in [Reqs -> ReqType] /\ req[r] \in ReqType
        /\ req[r].conv = None \/ req[r].conv \in used \ MovedTo
        /\ req[r].target = None \/ req[r].target \in used
    BY DEF AcpInv, AcpTypeOK, KnownOK
  <1>t. DEFINE t == IF req[r].conv = None THEN None ELSE Target(req[r].conv)
  <1>1. t = None \/ t \in used
    BY <1>r, TargetKnown DEF ReqType
  <1>2. /\ UNCHANGED <<open, moves, used, paused>> /\ lock'.open = lock.open
        /\ lock'.does # "stop" \/ lock'.does = lock.does
        /\ lock.does # "stop" \/ lock'.does = lock.does
    <2>1. lock.does # "stop" => lock.open = {}
      BY DEF KnownOK
    <2>2. CASE LiveStarted(r) \/ LiveFailed(r)
      BY <2>1, <2>2 DEF LiveStarted, LiveFailed, Started, NotStarted, Free
    <2>3. CASE FreshLook(r)
      BY <2>1, <2>3 DEF FreshLook, Look, Free
    <2>4. CASE GetLive(r) \/ RefuseLive(r) \/ FreshStays(r) \/ Route(r) \/ Reopen(r)
      BY <2>4 DEF GetLive, RefuseLive, FreshStays, Route, Reopen
    <2>5. CASE CloseStart(r) \/ CloseLive(r) \/ ReopenFailed(r) \/ Refused(r) \/ AnswerSet(r) \/ CloseFailed(r)
      BY <2>5 DEF CloseStart, CloseLive, ReopenFailed, Refused, AnswerSet, CloseFailed
    <2> QED
      BY <2>2, <2>3, <2>4, <2>5 DEF QuietStep
  <1>3. /\ req'[r].conv = None \/ req'[r].conv \in used \ MovedTo
        /\ req'[r].target = None \/ req'[r].target \in used
        /\ \A o \in Reqs \ {r} : req'[o] = req[o]
    <2> HIDE DEF t
    <2>s. ASSUME NEW u, Send(r, u)
          PROVE  req'[r].conv = req[r].conv /\ req'[r].target = u /\ \A o \in Reqs \ {r} : req'[o] = req[o]
      BY <2>s, <1>r, EditNamed DEF Send, Becomes
    <2>p. ASSUME NEW p, ToPhase(r, p)
          PROVE  /\ req'[r].conv = req[r].conv /\ req'[r].target = req[r].target
                 /\ \A o \in Reqs \ {r} : req'[o] = req[o]
      BY <2>p, <1>r, EditNamed DEF ToPhase, Becomes
    <2>1. CASE Route(r)
      <3>1. CASE Send(r, t)
        BY <2>s, <3>1, <1>r, <1>1
      <3>2. CASE Becomes(r, [req[r] EXCEPT !.phase = "opening", !.target = t])
        BY <3>2, <1>r, <1>1, EditNamed DEF Becomes
      <3> QED
        BY <2>1, <3>1, <3>2 DEF Route, t
    <2>2. CASE Reopen(r)
      BY <2>2, <2>s, <2>p, <1>r DEF Reopen
    <2>3. CASE GetLive(r) \/ LiveStarted(r) \/ FreshLook(r) \/ FreshStays(r) \/ CloseStart(r) \/ CloseLive(r)
      <3>1. CASE FreshLook(r) \/ FreshStays(r) \/ CloseStart(r)
        BY <3>1, <2>p, <1>r DEF FreshLook, FreshStays, CloseStart
      <3>2. CASE LiveStarted(r)
        BY <3>2, <1>r, EditNamed DEF LiveStarted, Becomes
      <3>3. CASE GetLive(r)
        <4> DEFINE p == IF req[r].phase = "live" /\ req[r].does = "prompt" /\ suspect
                        THEN "fresh" ELSE "got"
        <4>1. req'[r] = [req[r] EXCEPT !.on = "slot", !.phase = p] /\ \A o \in Reqs \ {r} : req'[o] = req[o]
          BY <3>3, <1>r DEF GetLive, Becomes, ReqType
        <4> HIDE DEF p
        <4> QED
          BY <4>1, <1>r, EditNamed
      <3>4. CASE CloseLive(r)
        <4> DEFINE on == IF Running THEN "slot" ELSE "none"
                   todo == IF Running THEN SessionsOf(req[r].conv) ELSE {}
        <4>1. req'[r] = [req[r] EXCEPT !.phase = "closed", !.on = on, !.todo = todo]
              /\ \A o \in Reqs \ {r} : req'[o] = req[o]
          BY <3>4, <1>r DEF CloseLive, Becomes
        <4> HIDE DEF on, todo
        <4> QED
          BY <4>1, <1>r, EditNamed
      <3> QED
        BY <2>3, <3>1, <3>2, <3>3, <3>4
    <2>4. CASE RefuseLive(r) \/ LiveFailed(r) \/ ReopenFailed(r) \/ Refused(r) \/ AnswerSet(r) \/ CloseFailed(r)
      BY <2>4, <1>r, <1>i DEF RefuseLive, LiveFailed, ReopenFailed, Refused, AnswerSet, CloseFailed,
         Ends, Becomes
    <2> QED
      BY <2>1, <2>2, <2>3, <2>4 DEF QuietStep
  <1> QED
    BY <1>2, <1>3, QuietKept DEF KnownOK

\* A session of a request that is reopened or answered is open from then on.
LEMMA OpenedKept ==
  ASSUME AcpInv, KnownOK, NEW r \in Reqs, NEW S, S \subseteq used',
         OpenedIn(r, S), UNCHANGED <<moves, lock>>, used \subseteq used',
         NEW P, paused' = paused \ P,
         \A o \in Reqs : /\ req'[o].conv = None \/ req'[o].conv \in used \ MovedTo
                         /\ req'[o].target = None \/ req'[o].target \in used,
         \A c \in P \cap paused : \/ req[r].on = "slot" /\ c \in ConversationsOf(S)
                                  \/ Ending(r) /\ c \in For(r)
  PROVE  KnownOK' /\ Kept
  <1>1. open \subseteq open' /\ open' \subseteq open \cup S
        /\ (req[r].on = "slot" => S \subseteq open')
    BY DEF OpenedIn
  <1>2. KnownOK'
    BY <1>1, KnownKeeps DEF KnownOK
  <1>3. ConversationsOf(open) \subseteq ConversationsOf(open')
        /\ (req[r].on = "slot" => ConversationsOf(S) \subseteq ConversationsOf(open'))
    BY <1>1, ConversationsGrow
  <1>4. Held' = ConversationsOf(open') \cup lock.open \cup (paused \ P)
    BY ConversationsStay DEF Held
  <1>5. \A c \in Held \ Held' : c \in P \cap paused /\ ~(req[r].on = "slot" /\ c \in ConversationsOf(S))
    BY <1>3, <1>4 DEF Held
  <1> QED
    BY <1>2, <1>5 DEF Kept

\* A request in flight is on the slot's process, on the one that stops, or gone.
LEMMA AnsweredOn ==
  ASSUME NEW r \in Reqs, Answers(r)
  PROVE  req[r].on = "slot" \/ req[r].on = "taken"
  BY DEF Answers

\* The steps that open a session.
LEMMA OpensKept ==
  ASSUME AcpInv, KnownOK, NEW r \in Reqs, Reopened(r) \/ AnswerNew(r) \/ AnswerLoad(r)
  PROVE  KnownOK' /\ Kept
  <1> USE DEF process, state, conversations, life
  <1>i. Idle.conv = None /\ Idle.target = None
    BY DEF Idle
  <1>r. /\ req \in [Reqs -> ReqType] /\ req[r] \in ReqType
        /\ req[r].conv = None \/ req[r].conv \in used \ MovedTo
        /\ req[r].target = None \/ req[r].target \in used
        /\ None \notin Sessions
    BY AcpAssumption DEF AcpInv, AcpTypeOK, KnownOK, AcpAssumption
  <1>e. Ends(r) => \A o \in Reqs : /\ req'[o].conv = None \/ req'[o].conv \in used \ MovedTo
                                   /\ req'[o].target = None \/ req'[o].target \in used
    BY <1>i, NamedKept DEF Ends
  <1>1. CASE Reopened(r)
    <2> DEFINE t == req[r].target
    <2>1. /\ t \in used /\ OpenedIn(r, {t}) /\ UNCHANGED <<moves, lock, used>>
          /\ paused' = paused \ ConversationsOf({t})
      BY <1>1, <1>r DEF Reopened, AcpInv, NamesOK
    <2>2. \A o \in Reqs : /\ req'[o].conv = None \/ req'[o].conv \in used \ MovedTo
                          /\ req'[o].target = None \/ req'[o].target \in used
      <3>1. req'[r].conv = req[r].conv /\ req'[r].target = req[r].target
            /\ \A o \in Reqs \ {r} : req'[o] = req[o]
        BY <1>1, <1>r DEF Reopened, Send, Becomes, ReqType
      <3> QED
        BY <3>1 DEF KnownOK
    <2>3. \A c \in ConversationsOf({t}) \cap paused :
             \/ req[r].on = "slot" /\ c \in ConversationsOf({t})
             \/ Ending(r) /\ c \in For(r)
      <3>1. req[r].on = "slot" \/ req[r].on = "taken"
        BY <1>1, AnsweredOn DEF Reopened
      <3>2. ConversationsOf({t}) \subseteq For(r)
        <4>1. ConversationsOf({t}) \subseteq ConversationsOf({t} \cup req[r].todo)
          BY ConversationsGrow
        <4> QED
          BY <4>1 DEF For
      <3> QED
        BY <3>1, <3>2 DEF Ending
    <2> HIDE DEF t
    <2>4. {t} \subseteq used' /\ used \subseteq used'
      BY <2>1
    <2> QED
      BY <2>1, <2>2, <2>3, <2>4, OpenedKept
  <1>2. CASE AnswerNew(r)
    <2>1. PICK s \in Fresh : /\ used' = used \cup {s} /\ OpenedIn(r, {s}) /\ paused' = paused \ {s}
      BY <1>2 DEF AnswerNew
    <2>2. {s} \cap paused = {} /\ {s} \subseteq used' /\ used \subseteq used'
      BY <2>1 DEF Fresh, KnownOK
    <2>3. UNCHANGED <<moves, lock>> /\ Ends(r)
      BY <1>2 DEF AnswerNew
    <2>4. \A c \in {s} \cap paused : \/ req[r].on = "slot" /\ c \in ConversationsOf({s})
                                     \/ Ending(r) /\ c \in For(r)
      BY <2>2
    <2> QED
      BY <1>e, <2>1, <2>2, <2>3, <2>4, OpenedKept
  <1>3. CASE AnswerLoad(r)
    <2> DEFINE t == req[r].target
               c == req[r].conv
    <2>1. /\ t \in used /\ c \in used \ MovedTo /\ c \in Sessions
          /\ OpenedIn(r, {t}) /\ UNCHANGED <<moves, lock, used>>
          /\ paused' = paused \ {c} /\ Ends(r)
      BY <1>3, <1>r DEF AnswerLoad, AcpInv, NamesOK
    <2>2. \/ req[r].on = "slot" /\ c \in ConversationsOf({t})
          \/ Ending(r) /\ c \in For(r)
      <3>1. req[r].on = "slot" \/ req[r].on = "taken"
        BY <1>3, AnsweredOn DEF AnswerLoad
      <3>2. t \in SessionsOf(c) => c \in ConversationsOf({t})
        BY <2>1 DEF ConversationsOf
      <3> QED
        BY <1>3, <3>1, <3>2 DEF Ending, For, AnswerLoad
    <2> HIDE DEF t, c
    <2>3. {t} \subseteq used' /\ used \subseteq used'
      BY <2>1
    <2>4. \A d \in {c} \cap paused : \/ req[r].on = "slot" /\ d \in ConversationsOf({t})
                                     \/ Ending(r) /\ d \in For(r)
      BY <2>2
    <2> QED
      BY <1>e, <2>1, <2>3, <2>4, OpenedKept
  <1> QED
    BY <1>1, <1>2, <1>3

\* A conversation's handoff is done with, which moves none.
LEMMA AnswerPromptKept ==
  ASSUME AcpInv, KnownOK, NEW r \in Reqs, AnswerPrompt(r)
  PROVE  KnownOK' /\ Kept
  <1> USE DEF process, state, conversations, life
  <1>1. \A c \in Sessions : moves'[c].session = moves[c].session /\ moves'[c].earlier = moves[c].earlier
    BY DEF AnswerPrompt, AcpInv, AcpTypeOK, MoveType
  <1>2. MovedTo' = MovedTo /\ \A c \in Sessions : SessionsOf(c)' = SessionsOf(c)
    BY <1>1 DEF MovedTo, SessionsOf
  <1>3. UNCHANGED <<open, paused, used, lock>>
    BY DEF AnswerPrompt
  <1>4. \A o \in Reqs : /\ req'[o].conv = None \/ req'[o].conv \in used \ MovedTo
                        /\ req'[o].target = None \/ req'[o].target \in used
    <2>1. Idle.conv = None /\ Idle.target = None
      BY DEF Idle
    <2> QED
      BY <2>1, NamedKept DEF AnswerPrompt, Ends
  <1>5. KnownOK'
    BY <1>2, <1>3, <1>4 DEF KnownOK
  <1>6. Held' = Held
    BY <1>2, <1>3 DEF Held, ConversationsOf
  <1> QED
    BY <1>5, <1>6 DEF Kept

\* A conversation's moves are forgotten: the others are what they were.
LEMMA Forgotten ==
  ASSUME AcpInv, NEW c \in Sessions, moves' = [moves EXCEPT ![c] = Unmoved(c)]
  PROVE  /\ \A d \in Sessions \ {c} : SessionsOf(d)' = SessionsOf(d)
         /\ (SessionsOf(c) \ {c})' = {}
         /\ MovedTo' \subseteq MovedTo
         /\ \A S \in SUBSET Sessions : S = open' => ConversationsOf(S) \ {c} \subseteq ConversationsOf(open)'
  <1>1. /\ \A d \in Sessions \ {c} : SessionsOf(d)' = SessionsOf(d)
        /\ (SessionsOf(c) \ {c})' = {}
    BY DEF SessionsOf, Unmoved, AcpInv, AcpTypeOK
  <1>2. MovedTo' \subseteq MovedTo
    BY <1>1 DEF MovedTo
  <1>3. ASSUME NEW S \in SUBSET Sessions, S = open'
        PROVE  ConversationsOf(S) \ {c} \subseteq ConversationsOf(open)'
    BY <1>1, <1>2, <1>3 DEF ConversationsOf
  <1> QED
    BY <1>1, <1>2, <1>3

\* A conversation is closed or deleted: the others are held as they were.
LEMMA EndedKept ==
  ASSUME AcpInv, KnownOK, NEW r \in Reqs, AnswerDelete(r) \/ CloseEnd(r)
  PROVE  KnownOK' /\ Kept
  <1> USE DEF process, state, conversations, life
  <1> DEFINE c == req[r].conv
             t == req[r].target
  <1>r. /\ c \in Sessions /\ open \subseteq Sessions
        /\ req[r].does \in {"delete", "close"} /\ UNCHANGED <<lock, used>>
        /\ moves' = [moves EXCEPT ![c] = Unmoved(c)]
        /\ Ends(r) /\ open' \subseteq open /\ paused' \subseteq paused
    BY DEF AnswerDelete, CloseEnd, AcpInv, AcpTypeOK, NamesOK
  <1>1. \A o \in Reqs : /\ req'[o].conv = None \/ req'[o].conv \in used \ MovedTo
                        /\ req'[o].target = None \/ req'[o].target \in used
    <2>1. Idle.conv = None /\ Idle.target = None
      BY DEF Idle
    <2> QED
      BY <1>r, <2>1, NamedKept DEF Ends
  <1>2. KnownOK'
    <2> HIDE DEF c
    <2> QED
      BY <1>r, <1>1, Forgotten DEF KnownOK
  <1>3. ConversationsOf(open') \ {c} \subseteq ConversationsOf(open)'
    <2> HIDE DEF c
    <2> QED
      BY <1>r, Forgotten
  <1>4. paused \ paused' \subseteq {c} /\ open \ open' \subseteq {t}
    BY DEF AnswerDelete, CloseEnd
  <1>5. ConversationsOf(open) \subseteq ConversationsOf(open') \cup For(r)
    <2>1. ConversationsOf(open) \subseteq ConversationsOf(open \ {t}) \cup ConversationsOf({t})
      BY ConversationsShrink
    <2>2. ConversationsOf(open \ {t}) \subseteq ConversationsOf(open')
      BY <1>4, ConversationsGrow
    <2>3. ConversationsOf({t}) \subseteq ConversationsOf({t} \cup req[r].todo)
      BY ConversationsGrow
    <2> QED
      BY <2>1, <2>2, <2>3 DEF For
  <1>6. Held \ Held' \subseteq For(r)
    <2>1. c \in For(r)
      BY DEF For
    <2> HIDE DEF c
    <2> QED
      BY <1>r, <1>3, <1>4, <1>5, <2>1 DEF Held
  <1> QED
    BY <1>2, <1>6, <1>r DEF Kept, Ending

\* A session is closed in the agent.
LEMMA CloseOneKept ==
  ASSUME AcpInv, KnownOK, NEW r \in Reqs, NEW s \in Sessions, CloseOne(r, s)
  PROVE  KnownOK' /\ Kept
  <1> USE DEF process, state, conversations, life
  <1>1. /\ UNCHANGED <<moves, used, paused, lock>> /\ open' = open \ {s}
        /\ s \in req[r].todo /\ req[r].does = "close"
    BY DEF CloseOne, AcpInv, NamesOK
  <1>2. \A o \in Reqs : /\ req'[o].conv = None \/ req'[o].conv \in used \ MovedTo
                        /\ req'[o].target = None \/ req'[o].target \in used
    <2>1. req'[r].conv = req[r].conv /\ req'[r].target = req[r].target
          /\ \A o \in Reqs \ {r} : req'[o] = req[o]
      BY DEF CloseOne, Becomes, AcpInv, AcpTypeOK, ReqType
    <2> QED
      BY <2>1 DEF KnownOK
  <1>3. KnownOK'
    BY <1>1, <1>2, KnownKeeps DEF KnownOK
  <1>4. ConversationsOf(open) \subseteq ConversationsOf(open') \cup For(r)
    <2>1. ConversationsOf(open) \subseteq ConversationsOf(open \ {s}) \cup ConversationsOf({s})
      BY ConversationsShrink
    <2>2. ConversationsOf({s}) \subseteq ConversationsOf({req[r].target} \cup req[r].todo)
      BY <1>1, ConversationsGrow
    <2> QED
      BY <1>1, <2>1, <2>2 DEF For
  <1>5. Held \ Held' \subseteq For(r)
    BY <1>1, <1>4, ConversationsStay DEF Held
  <1> QED
    BY <1>1, <1>3, <1>5 DEF Kept, Ending

\* A conversation continues in another session, which was nobody's.
LEMMA AnswerMoveKept ==
  ASSUME AcpInv, KnownOK, NEW r \in Reqs, AnswerMove(r)
  PROVE  KnownOK' /\ Kept
  <1> USE DEF process, state, conversations, life
  <1>0. req[r].conv \in Sessions
    BY DEF AnswerMove, AcpInv, NamesOK
  <1>c. PICK c \in Sessions : c = req[r].conv
    BY <1>0
  <1>1. PICK s \in Fresh :
          /\ used' = used \cup {s} /\ OpenedIn(r, {s})
          /\ moves' = [moves EXCEPT ![c] = [session |-> s, note |-> s,
                                            earlier |-> @.earlier \cup {@.session}]]
    BY <1>c DEF AnswerMove
  <1>2. /\ c \in Sessions /\ c \in used \ MovedTo /\ s \in Sessions \ used
        /\ UNCHANGED <<paused, lock>> /\ Ends(r)
        /\ moves \in [Sessions -> MoveType]
        /\ open \subseteq open' /\ open' \subseteq open \cup {s}
    BY <1>c, <1>1, AcpAssumption DEF AnswerMove, Fresh, OpenedIn, AcpInv, AcpTypeOK, NamesOK, KnownOK, AcpAssumption
  <1>3. /\ \A d \in Sessions \ {c} : SessionsOf(d)' = SessionsOf(d)
        /\ SessionsOf(c)' = SessionsOf(c) \cup {s}
    <2>1. /\ moves'[c].session = s
          /\ moves'[c].earlier = moves[c].earlier \cup {moves[c].session}
          /\ \A d \in Sessions \ {c} : moves'[d] = moves[d]
      BY <1>1, <1>2
    <2> QED
      BY <2>1 DEF SessionsOf
  <1>4. MovedTo' = MovedTo \cup {s}
    <2>1. s # c
      BY <1>2
    <2>2. \A x : x \in MovedTo' <=> \E d \in Sessions : x \in SessionsOf(d)' /\ x # d
      BY DEF MovedTo
    <2>3. \A x : x \in MovedTo <=> \E d \in Sessions : x \in SessionsOf(d) /\ x # d
      BY DEF MovedTo
    <2>4. \A x : \A d \in Sessions : x \in SessionsOf(d)' <=> x \in SessionsOf(d) \/ (d = c /\ x = s)
      BY <1>3
    <2> QED
      BY <1>2, <2>1, <2>2, <2>3, <2>4
  <1>5. \A o \in Reqs : /\ req'[o].conv = None \/ req'[o].conv \in used \ MovedTo
                        /\ req'[o].target = None \/ req'[o].target \in used
    <2>1. Idle.conv = None /\ Idle.target = None
      BY DEF Idle
    <2> QED
      BY <1>2, <2>1, NamedKept DEF Ends
  <1>6. KnownOK'
    <2>1. \A d \in Sessions : SessionsOf(d)' \ {d} # {} => d \in used
      BY <1>2, <1>3 DEF KnownOK
    <2> QED
      BY <1>1, <1>2, <1>4, <1>5, <2>1 DEF KnownOK
  <1>7. ConversationsOf(open) \subseteq ConversationsOf(open)'
    <2>1. s \notin open
      BY <1>2 DEF KnownOK
    <2>2. \A d \in Sessions : SessionsOf(d) \subseteq SessionsOf(d)'
      BY <1>3
    <2>3. open \ MovedTo \subseteq open' \ MovedTo'
      BY <1>2, <1>4, <2>1
    <2> QED
      BY <1>2, <2>2, <2>3 DEF ConversationsOf
  <1>8. Held \subseteq Held'
    BY <1>2, <1>7 DEF Held
  <1> QED
    BY <1>6, <1>8 DEF Kept

\* The process stopped: what it had open is recorded.
LEMMA StoppedKept ==
  ASSUME AcpInv, KnownOK, Stopped
  PROVE  KnownOK' /\ Kept
  <1> USE DEF process, state, conversations, life
  <1>1. /\ UNCHANGED <<open, moves, used>> /\ paused' = paused \cup lock.open
        /\ lock'.open = {}
    BY DEF Stopped, Free
  <1>2. \A o \in Reqs : req'[o].conv = req[o].conv /\ req'[o].target = req[o].target
    <2>1. Left("taken", "gone") \in [Reqs -> ReqType]
          /\ \A o \in Reqs : /\ Left("taken", "gone")[o].conv = req[o].conv
                             /\ Left("taken", "gone")[o].target = req[o].target
      BY LeftTyped DEF AcpInv, AcpTypeOK
    <2>2. \A o \in Reqs : req'[o] = Left("taken", "gone")[o]
                          \/ req'[o] = [Left("taken", "gone")[o] EXCEPT !.phase = "again"]
      BY <2>1 DEF Stopped
    <2>3. ASSUME NEW o \in Reqs, NEW x \in ReqType, x = Left("taken", "gone")[o]
          PROVE  req'[o].conv = x.conv /\ req'[o].target = x.target
      <3>1. req'[o] = x \/ req'[o] = [x EXCEPT !.phase = "again"]
        BY <2>2, <2>3
      <3>2. [x EXCEPT !.phase = "again"].conv = x.conv /\ [x EXCEPT !.phase = "again"].target = x.target
        BY EditNamed
      <3> QED
        BY <3>1, <3>2
    <2> QED
      BY <2>1, <2>3
  <1>3. KnownOK'
    BY <1>1, <1>2, KnownKeeps DEF KnownOK
  <1>4. Held \subseteq Held'
    BY <1>1, ConversationsStay DEF Held
  <1> QED
    BY <1>3, <1>4 DEF Kept

\* A request is asked, starts or stops the process, or has a session closed.
LEMMA SharedKept ==
  ASSUME AcpInv, KnownOK, NEW r \in Reqs, SharedStep(r)
  PROVE  KnownOK' /\ Kept
  <1> USE DEF process, state, conversations, life
  <1>l. ASSUME NEW to \in {"taken", "gone"}
        PROVE  \A o \in Reqs : /\ Left("slot", to)[o].conv = req[o].conv
                               /\ Left("slot", to)[o].target = req[o].target
                               /\ [Left("slot", to) EXCEPT ![r].phase = "starting"][o].conv = req[o].conv
                               /\ [Left("slot", to) EXCEPT ![r].phase = "starting"][o].target = req[o].target
    <2>1. /\ Left("slot", to) \in [Reqs -> ReqType]
          /\ \A o \in Reqs : /\ Left("slot", to)[o].conv = req[o].conv
                             /\ Left("slot", to)[o].target = req[o].target
      BY LeftTyped DEF AcpInv, AcpTypeOK
    <2> QED
      BY <2>1 DEF ReqType
  <1>1. ASSUME NEW m \in Methods, NEW c \in Sessions \cup {None}, Ask(r, m, c)
        PROVE  KnownOK' /\ Kept
    <2> DEFINE q == [Idle EXCEPT !.phase = IF m = "close" THEN "close" ELSE "live",
                                 !.does = m, !.conv = c]
    <2>1. Becomes(r, q) /\ q.conv = c /\ q.target = None
      BY <1>1 DEF Ask, Idle
    <2>2. c = None \/ c \in used \ MovedTo
      BY <1>1 DEF Ask
    <2> HIDE DEF q
    <2>3. \A o \in Reqs : /\ req'[o].conv = None \/ req'[o].conv \in used \ MovedTo
                          /\ req'[o].target = None \/ req'[o].target \in used
      BY <2>1, <2>2, NamedKept
    <2>4. UNCHANGED <<open, moves, used, paused, lock>>
      BY <1>1 DEF Ask
    <2> QED
      BY <2>3, <2>4, QuietKept
  <1>2. CASE StartLive(r)
    <2>1. \A o \in Reqs : req'[o].conv = req[o].conv /\ req'[o].target = req[o].target
      BY <1>l, <1>2 DEF StartLive
    <2> QED
      BY <1>2, <2>1, StartKept DEF StartLive
  <1>3. CASE FreshPause(r)
    <2>1. CASE TakeAway(r) /\ req' = Left("slot", "taken")
      <3>1. \A o \in Reqs : req'[o].conv = req[o].conv /\ req'[o].target = req[o].target
        BY <1>l, <2>1
      <3> QED
        BY <1>3, <2>1, <3>1, TakenKept DEF FreshPause
    <2>2. CASE lock' = Free /\ ToPhase(r, "got") /\ UNCHANGED <<slot, state>>
      <3>1. req'[r].conv = req[r].conv /\ req'[r].target = req[r].target
            /\ \A o \in Reqs \ {r} : req'[o] = req[o]
        BY <2>2 DEF ToPhase, Becomes, AcpInv, AcpTypeOK, ReqType
      <3>2. lock.does = "look" /\ lock.open = {} /\ lock'.open = {} /\ lock'.does = "none"
        BY <1>3, <2>2 DEF FreshPause, Free, KnownOK
      <3> QED
        BY <1>3, <2>2, <3>1, <3>2, QuietKept DEF FreshPause, KnownOK
    <2> QED
      BY <1>3, <2>1, <2>2 DEF FreshPause
  <1>4. ASSUME NEW s \in Sessions, CloseOne(r, s) PROVE KnownOK' /\ Kept
    BY <1>4, CloseOneKept
  <1> QED
    BY <1>1, <1>2, <1>3, <1>4 DEF SharedStep

\* The watch, the probe, shutdown, cancels and what the agent does by itself.
LEMMA OtherKept ==
  ASSUME AcpInv, KnownOK, OtherStep
  PROVE  KnownOK' /\ Kept
  <1> USE DEF process, state, conversations, life
  <1>l. ASSUME NEW to \in {"taken", "gone"}
        PROVE  \A o \in Reqs : /\ Left("slot", to)[o].conv = req[o].conv
                               /\ Left("slot", to)[o].target = req[o].target
    BY LeftTyped DEF AcpInv, AcpTypeOK
  <1>1. ASSUME NEW c \in Sessions, Cancel(c) \/ TellCancel(c) \/ GraceOver(c) \/ OwnWork(c)
        PROVE  KnownOK' /\ Kept
    <2>1. UNCHANGED <<open, moves, used, paused, lock>>
      BY <1>1 DEF Cancel, TellCancel, GraceOver, OwnWork
    <2>2. \A o \in Reqs : req'[o].conv = req[o].conv /\ req'[o].target = req[o].target
      BY <1>1 DEF Cancel, TellCancel, GraceOver, OwnWork, AcpInv, AcpTypeOK, ReqType
    <2> QED
      BY <2>1, <2>2, QuietKept DEF KnownOK
  <1>2. CASE LookWedged \/ Die \/ WatchLook \/ Probe \/ ProbeStarted \/ Shutdown
    <2>1. UNCHANGED <<open, moves, used, paused, req>>
      BY <1>2 DEF LookWedged, Die, WatchLook, Probe, ProbeStarted, Shutdown
    <2>2. /\ lock'.open = lock.open
          /\ lock'.does # "stop" \/ lock'.does = lock.does
          /\ lock.does # "stop" \/ lock'.does = lock.does
      <3>1. lock.does # "stop" => lock.open = {}
        BY DEF KnownOK
      <3>2. CASE LookWedged \/ Die \/ Probe \/ Shutdown
        BY <3>2 DEF LookWedged, Die, Probe, Shutdown
      <3>3. CASE WatchLook
        BY <3>1, <3>3 DEF WatchLook, Look, Free
      <3>4. CASE ProbeStarted
        BY <3>1, <3>4 DEF ProbeStarted, Started, NotStarted, Free
      <3> QED
        BY <1>2, <3>2, <3>3, <3>4
    <2> QED
      BY <2>1, <2>2, QuietKept DEF KnownOK
  <1>3. CASE Stopped
    BY <1>3, StoppedKept
  <1>4. CASE WatchPause
    <2>1. CASE TakeAway("watch") /\ req' = Left("slot", "taken")
      <3>1. \A o \in Reqs : req'[o].conv = req[o].conv /\ req'[o].target = req[o].target
        BY <1>l, <2>1
      <3> QED
        BY <1>4, <2>1, <3>1, TakenKept DEF WatchPause
    <2>2. CASE lock' = Free /\ UNCHANGED <<slot, state, req>>
      <3>1. lock.does = "look" /\ lock.open = {} /\ lock'.open = {} /\ lock'.does = "none"
        BY <1>4, <2>2 DEF WatchPause, Free, KnownOK
      <3> QED
        BY <1>4, <2>2, <3>1, QuietKept DEF WatchPause, KnownOK
    <2> QED
      BY <1>4, <2>1, <2>2 DEF WatchPause
  <1>5. CASE ProbeLive
    <2>1. CASE UNCHANGED <<slot, lock, state, paused, req>>
      BY <1>5, <2>1, QuietKept DEF ProbeLive, KnownOK
    <2>2. CASE Start("probe") /\ req' = Left("slot", "gone")
      <3>1. \A o \in Reqs : req'[o].conv = req[o].conv /\ req'[o].target = req[o].target
        BY <1>l, <2>2
      <3> QED
        BY <1>5, <2>2, <3>1, StartKept DEF ProbeLive
    <2> QED
      BY <1>5, <2>1, <2>2 DEF ProbeLive
  <1>6. CASE ShutdownPause
    <2>1. CASE TakeAway("stop") /\ req' = Left("slot", "taken")
      <3>1. \A o \in Reqs : req'[o].conv = req[o].conv /\ req'[o].target = req[o].target
        BY <1>l, <2>1
      <3>2. lock.does # "stop"
        BY <1>6, FreeTyped DEF ShutdownPause
      <3> QED
        BY <1>6, <2>1, <3>1, <3>2, TakenKept DEF ShutdownPause
    <2>2. CASE UNCHANGED <<slot, lock, state, req>>
      BY <1>6, <2>2, QuietKept DEF ShutdownPause, KnownOK
    <2> QED
      BY <1>6, <2>1, <2>2 DEF ShutdownPause
  <1> QED
    BY <1>1, <1>2, <1>3, <1>4, <1>5, <1>6 DEF OtherStep

\* A conversation the agent had open is open or recorded as paused from then on,
\* through pauses, ends of its process, moves, failed reopenings and shutdown,
\* until it is closed or deleted; what a process that is being stopped still
\* answers is the exception.
THEOREM NoConversationForgotten == AcpSpec => NoneForgotten
  <1> DEFINE Inv == AcpInv /\ KnownOK
  <1>1. AcpInit => Inv
    <2> SUFFICES ASSUME AcpInit PROVE KnownOK
      BY AcpInitInv
    <2>1. \A c \in Sessions : SessionsOf(c) = {c}
      BY DEF AcpInit, SessionsOf, Unmoved
    <2>2. MovedTo = {}
      BY <2>1 DEF MovedTo
    <2> QED
      BY <2>1, <2>2 DEF AcpInit, KnownOK, Idle, Free
  <1>2. Inv /\ [AcpNext]_acpVars => KnownOK' /\ Kept
    <2> SUFFICES ASSUME AcpInv, KnownOK, [AcpNext]_acpVars PROVE KnownOK' /\ Kept
      OBVIOUS
    <2>1. ASSUME NEW r \in Reqs, OwnStep(r) PROVE KnownOK' /\ Kept
      BY <2>1, QuietStepKept, OpensKept, AnswerPromptKept, EndedKept, AnswerMoveKept
      DEF OwnStep, QuietStep
    <2>2. ASSUME NEW r \in Reqs, SharedStep(r) PROVE KnownOK' /\ Kept
      BY <2>2, SharedKept
    <2>3. CASE OtherStep
      BY <2>3, OtherKept
    <2>4. CASE UNCHANGED acpVars
      BY <2>4, QuietKept DEF acpVars, KnownOK
    <2>5. AcpNext => OtherStep \/ \E r \in Reqs : OwnStep(r) \/ SharedStep(r)
      BY DEF AcpNext, ReqStep, AgentStep, OtherStep, OwnStep, SharedStep
    <2> QED
      BY <2>1, <2>2, <2>3, <2>4, <2>5
  <1>3. Inv /\ [AcpNext]_acpVars => Inv' /\ [Kept]_acpVars
    BY <1>2, AcpStepInv
  <1> QED
    BY <1>1, <1>3, PTL DEF AcpSpec, NoneForgotten, Kept
=============================================================================
