--------------------------- MODULE ClientProofs ---------------------------
(***************************************************************************)
(* What the app is shown is what the host recorded: each update once, in   *)
(* order, and a prompt's turn whole, whatever connections drop; and once   *)
(* the frames are in, the app and the host agree.                          *)
(*                                                                         *)
(* The first invariant (ClientInv) says where the frames under way stand   *)
(* to what the app took: one load or lookup of a resume at a time, the     *)
(* updates in order, of a replay first those the app has, and a turn's end *)
(* after all its agent said in it.  The second (AgreeInv) says that where  *)
(* the app and the host differ, what settles it is under way.              *)
(***************************************************************************)
EXTENDS Client, SequenceTheorems, FiniteSetTheorems, TLAPS

-----------------------------------------------------------------------------
(* Sequences *)

IsSeq(s) == \E S : s \in Seq(S)

LEMMA SeqLength ==
  ASSUME NEW s, IsSeq(s)
  PROVE  /\ Len(s) \in Nat /\ DOMAIN s = 1..Len(s)
         /\ s = <<>> <=> Len(s) = 0
         /\ \A i \in DOMAIN s : i \in Nat \ {0}
  BY DEF IsSeq

\* A frame of an empty queue: there is none.
LEMMA NoFrames == IsSeq(<<>>) /\ DOMAIN <<>> = {} /\ Len(<<>>) = 0
  <1>1. <<>> \in Seq({})
    OBVIOUS
  <1> QED
    BY <1>1 DEF IsSeq

\* r is u after s; s without its oldest: the others move up.
Joins(r, s, u) ==
  /\ IsSeq(r) /\ Len(r) = Len(s) + Len(u)
  /\ \A i \in DOMAIN s : i \in DOMAIN r /\ r[i] = s[i]
  /\ \A i \in DOMAIN u : Len(s) + i \in DOMAIN r /\ r[Len(s) + i] = u[i]
  /\ \A i \in DOMAIN r : i \in DOMAIN s \/ \E j \in DOMAIN u : i = Len(s) + j
  /\ \A i \in DOMAIN s, j \in DOMAIN u : i < Len(s) + j
Takes(r, s) ==
  /\ IsSeq(r) /\ 1 \in DOMAIN s /\ Head(s) = s[1]
  /\ \A i \in DOMAIN r : i \in Nat \ {0} /\ i + 1 \in DOMAIN s /\ r[i] = s[i + 1]
  /\ \A i \in DOMAIN s : i \in Nat \ {0} /\ (i # 1 => i - 1 \in DOMAIN r /\ r[i - 1] = s[i])

LEMMA Joined ==
  ASSUME NEW s, NEW u, IsSeq(s), IsSeq(u)
  PROVE  Joins(s \o u, s, u)
  <1> DEFINE r == s \o u
  <1>1. PICK S : s \in Seq(S)
    BY DEF IsSeq
  <1>2. PICK U : u \in Seq(U)
    BY DEF IsSeq
  <1>3. s \in Seq(S \cup U) /\ u \in Seq(S \cup U)
    BY <1>1, <1>2
  <1>4. r \in Seq(S \cup U) /\ Len(r) = Len(s) + Len(u)
    BY <1>3
  <1>5. Len(s) \in Nat /\ Len(u) \in Nat /\ DOMAIN s = 1..Len(s) /\ DOMAIN u = 1..Len(u)
        /\ DOMAIN r = 1..(Len(s) + Len(u))
    BY <1>3, <1>4
  <1>6. \A i \in 1..(Len(s) + Len(u)) : r[i] = IF i <= Len(s) THEN s[i] ELSE u[i - Len(s)]
    BY <1>3, <1>5, ConcatProperties
  <1>7. \A i \in DOMAIN u : Len(s) + i \in DOMAIN r /\ r[Len(s) + i] = u[i]
    <2> TAKE i \in DOMAIN u
    <2>1. i \in Nat /\ 1 <= i /\ i <= Len(u)
      BY <1>5
    <2>2. ~(Len(s) + i <= Len(s)) /\ (Len(s) + i) - Len(s) = i /\ Len(s) + i \in 1..(Len(s) + Len(u))
      BY <1>5, <2>1
    <2> QED
      BY <1>5, <1>6, <2>2
  <1>8. \A i \in DOMAIN r : i \in DOMAIN s \/ \E j \in DOMAIN u : i = Len(s) + j
    <2> TAKE i \in DOMAIN r
    <2>1. CASE i > Len(s)
      <3>1. i - Len(s) \in DOMAIN u /\ i = Len(s) + (i - Len(s))
        BY <1>5, <2>1
      <3> QED
        BY <3>1
    <2> QED
      BY <1>5, <2>1
  <1> QED
    BY <1>4, <1>5, <1>6, <1>7, <1>8 DEF IsSeq, Joins

LEMMA One ==
  ASSUME NEW x
  PROVE  /\ IsSeq(<<x>>) /\ DOMAIN <<x>> = {1} /\ <<x>>[1] = x /\ Len(<<x>>) = 1
  <1>1. <<x>> \in Seq({x}) /\ 1..1 = {1}
    OBVIOUS
  <1>2. IsSeq(<<x>>)
    BY <1>1 DEF IsSeq
  <1> QED
    BY <1>1, <1>2

LEMMA Taken ==
  ASSUME NEW s, IsSeq(s), s # <<>>
  PROVE  Takes(Tail(s), s)
  <1> DEFINE r == Tail(s)
  <1>1. PICK S : s \in Seq(S)
    BY DEF IsSeq
  <1>2. r \in Seq(S) /\ Len(r) = Len(s) - 1 /\ Len(s) \in Nat \ {0}
    BY <1>1
  <1>3. DOMAIN s = 1..Len(s) /\ DOMAIN r = 1..(Len(s) - 1)
    BY <1>1, <1>2
  <1>4. \A i \in 1..(Len(s) - 1) : r[i] = s[i + 1]
    BY <1>1, <1>2
  <1>5. \A i \in DOMAIN s : i # 1 => i - 1 \in DOMAIN r /\ (i - 1) + 1 = i
    BY <1>2, <1>3
  <1>6. \A i \in DOMAIN s : i # 1 => r[i - 1] = s[i]
    BY <1>3, <1>4, <1>5
  <1> QED
    BY <1>1, <1>2, <1>3, <1>4, <1>5, <1>6 DEF IsSeq, Takes

\* The members of a finite set, in some order.
LEMMA EachAskFrames ==
  ASSUME NEW S \in SUBSET Asks, NEW t
  PROVE  /\ IsSeq(EachAsk(S, t))
         /\ \A i \in DOMAIN EachAsk(S, t) :
               \E q \in S : EachAsk(S, t)[i] = Frame(t, q, None)
  <1> DEFINE s == SetToSeq(S)
             n == Cardinality(S)
             e(i) == Frame(t, s[i], None)
  <1>1. IsFiniteSet(S)
    BY FS_Subset, ClientAssumption DEF ClientAssumption
  <1>2. n \in Nat /\ ExistsBijection(1..n, S)
    BY <1>1, FS_CardinalityType
  <1>3. PICK f \in [1..n -> S] : IsInjective(f)
    BY <1>2 DEF ExistsBijection, Bijection, Injection
  <1>4. s \in [1..n -> S]
    BY <1>2, <1>3 DEF SetToSeq
  <1> DEFINE E == {e(i) : i \in 1..n}
  <1> HIDE DEF e
  <1>5. [i \in 1..n |-> e(i)] \in Seq(E)
    BY <1>2, IsASeq
  <1>6. EachAsk(S, t) = [i \in 1..n |-> e(i)]
    BY <1>4 DEF EachAsk, e
  <1>7. \A i \in 1..n : s[i] \in S /\ e(i) = Frame(t, s[i], None)
    BY <1>4 DEF e
  <1> QED
    BY <1>5, <1>6, <1>7 DEF IsSeq
-----------------------------------------------------------------------------
(* What the host, the app and the frames between them keep *)

Replays == [first : BOOLEAN, index : Nat, sawRunning : BOOLEAN]
Ends == {"done", "error"}
Object == [local : BOOLEAN, id : Nat \cup {None}, sent : Nat \cup {None}, awaits : BOOLEAN,
           ended : Ends \cup {None}, answer : Ends \cup {None}, finished : Ends \cup {None},
           saw : SUBSET Nat]

HostOK ==
  /\ record \in Seq([by : {"agent", "app", "other"}, turn : Nat])
  /\ \A p \in DOMAIN record : record[p].turn \in DOMAIN owner
  /\ owner \in Seq([of : Nat, at : Nat])
  /\ running \in DOMAIN owner \cup {None}
  /\ last \in [of : DOMAIN owner, how : Ends] \cup {None}
  /\ asked \in [Asks -> {"none", "pending", "over"}]
  /\ attached \in BOOLEAN
  /\ losses \in Nat

AppOK ==
  /\ link \in {"away", "resuming", "online", "stuck", "failed", "closed"}
  /\ opened \in {"no", "opening", "open"}
  /\ obj \in Seq(Object)
  /\ cur \in 0..Len(obj)
  /\ replay \in Replays \cup {None}
  /\ ids \subseteq requests /\ requests \subseteq Asks
  /\ \A i \in DOMAIN obj : /\ obj[i].id \in DOMAIN owner \cup {None}
                           /\ obj[i].saw \subseteq DOMAIN record
                           /\ obj[i].finished = "done" => obj[i].ended # None
                           /\ obj[i].ended # None => obj[i].id # None
                           /\ obj[i].local => opened = "open"
  /\ \A n \in DOMAIN owner : owner[n].of = 0 \/ owner[n].of \in Prompts

FromHost == {"update", "running", "ended", "loaded", "prompted", "pending", "answered",
             "ask", "added", "resolved"}
AppFrame(f) ==
  /\ f.t \in FromHost
  /\ f.t = "update" => f.of \in DOMAIN record
  /\ f.t \in {"running", "ended"} => f.of \in DOMAIN owner
  /\ f.t \in {"ended", "prompted"} => f.how \in Ends
  /\ f.t = "loaded" => f.how \in {"ok", "error"}
  /\ f.t = "prompted" => f.of \in Prompts
  /\ f.t = "pending" => f.of \subseteq Asks /\ f.how \in {"find", "resume"}
  /\ f.t \in {"ask", "added"} => f.of \in Asks
HostFrame(f) ==
  /\ f.t \in {"load", "prompt", "pending", "answer"}
  /\ f.t = "prompt" => f.of \in Prompts
  /\ f.t = "pending" => f.how \in {"find", "resume"}
FramesOK ==
  /\ IsSeq(toApp) /\ IsSeq(toHost)
  /\ \A i \in DOMAIN toApp : AppFrame(toApp[i])
  /\ \A i \in DOMAIN toHost : HostFrame(toHost[i])

\* A load or a lookup of a resume, and its answer: one at a time.
Loading(f) == f.t \in {"load", "loaded"}
Looking(f) == f.t = "pending" /\ f.how = "resume"
Stage(f) == Loading(f) \/ Looking(f)
StageOK ==
  /\ ~Up => toHost = <<>> /\ toApp = <<>> /\ ~attached
  /\ replay # None => IF replay.first THEN opened = "opening" /\ link = "online"
                      ELSE opened = "open" /\ link \in {"resuming", "stuck"}
  /\ opened = "opening" => replay # None /\ replay.first
  /\ \A i, j \in DOMAIN toHost : Stage(toHost[i]) /\ Stage(toHost[j]) => i = j
  /\ \A i, j \in DOMAIN toApp : Stage(toApp[i]) /\ Stage(toApp[j]) => i = j
  /\ \A i \in DOMAIN toHost, j \in DOMAIN toApp : ~(Stage(toHost[i]) /\ Stage(toApp[j]))
  /\ \A i \in DOMAIN toHost :
        /\ Loading(toHost[i]) => replay # None /\ ~attached
        /\ Looking(toHost[i]) => link = "resuming" /\ replay = None
  /\ \A i \in DOMAIN toApp :
        /\ Loading(toApp[i]) => replay # None /\ (toApp[i].how = "error" => ~attached)
        /\ Looking(toApp[i]) => link = "resuming" /\ replay = None

\* The updates under way, and how they follow those the app took.
IsUpdate(i) == toApp[i].t = "update"
Said(p) == record[p].by = "agent"
Fresh == \A i \in DOMAIN toApp : IsUpdate(i) => \A j \in DOMAIN log : log[j] < toApp[i].of
Behind ==
  /\ replay.index < Len(log)
  /\ \A j \in DOMAIN log : j > replay.index =>
        \E i \in DOMAIN toApp : IsUpdate(i) /\ toApp[i].of = log[j]
  /\ \A i \in DOMAIN toApp : IsUpdate(i) =>
        \A j \in DOMAIN log : j <= replay.index => log[j] < toApp[i].of
UpdatesOK ==
  /\ log \in Seq(Nat) /\ shown \in Seq(Nat)
  /\ ToSet(log) \subseteq DOMAIN record /\ ToSet(shown) \subseteq ToSet(log)
  /\ \A i, j \in DOMAIN log : i < j => log[i] < log[j]
  /\ ShownOnce
  /\ ~attached => /\ \A i \in DOMAIN toApp : toApp[i].t \notin {"update", "running", "ended"}
                  /\ replay # None /\ Up => replay.index = 0
  /\ (opened = "no" \/ (opened = "opening" /\ ~attached)) /\ link # "closed" => ~attached /\ log = <<>> /\ shown = <<>>
  /\ \A i, j \in DOMAIN toApp : IsUpdate(i) /\ IsUpdate(j) /\ i < j => toApp[i].of < toApp[j].of
  /\ \A i, j \in DOMAIN toApp : toApp[i].t = "loaded" /\ IsUpdate(j) /\ i < j =>
        \A k \in DOMAIN log : log[k] < toApp[j].of
  /\ Fresh \/ (replay # None /\ ~replay.first /\ Behind)
  /\ attached => \A p \in DOMAIN record : Said(p) =>
        p \in ToSet(log) \/ \E i \in DOMAIN toApp : IsUpdate(i) /\ toApp[i].of = p
  /\ \A p \in DOMAIN record, k \in DOMAIN log : Said(p) /\ p < log[k] => p \in ToSet(log)

\* What the agent said in turn n is in the log, or comes before j.
Of(n) == {p \in DOMAIN record : Said(p) /\ record[p].turn = n}
Before(n, j) == \A p \in Of(n) :
   p \in ToSet(log) \/ \E i \in DOMAIN toApp : i < j /\ IsUpdate(i) /\ toApp[i].of = p
Over(n, j) == running # n /\ Before(n, j)
EndedOK == \A j \in DOMAIN toApp : toApp[j].t = "ended" => Over(toApp[j].of, j)
LoadedOK ==
  \A j \in DOMAIN toApp : toApp[j].t = "loaded" /\ toApp[j].how = "ok" =>
     \/ replay.sawRunning
     \/ \E i \in DOMAIN toApp : i < j /\ toApp[i].t = "running"
     \/ \A i \in DOMAIN obj : obj[i].id # None => Over(obj[i].id, j)
SeenOK ==
  \A n \in DOMAIN owner : LET i == owner[n].of IN i # 0 =>
     /\ i = cur /\ obj[i].ended = None /\ obj[i].id \in {None, n} =>
           Of(n) \cap ToSet(log) \subseteq obj[i].saw
     /\ obj[i].ended # None /\ obj[i].id = n => running # n /\ Of(n) \subseteq obj[i].saw
TurnsOK == EndedOK /\ LoadedOK /\ SeenOK

ClientInv == HostOK /\ AppOK /\ FramesOK /\ StageOK /\ UpdatesOK /\ TurnsOK
-----------------------------------------------------------------------------
(* What the host says *)

\* The frames a load is answered with: the record, the turn, and the answer.
Replayed == [p \in DOMAIN record |-> Frame("update", p, None)] \o Latest
            \o <<Frame("loaded", None, "ok")>> \o EachAsk(Pending, "ask")

LEMMA Snapshot ==
  ASSUME HostOK, NEW F, F = Replayed
  PROVE  /\ IsSeq(F)
         /\ \E m \in DOMAIN F :
               /\ F[m] = Frame("loaded", None, "ok")
               /\ \A i \in DOMAIN F : F[i].t = "loaded" => i = m
               /\ \A p \in DOMAIN record : p < m
               /\ running # None => \E i \in DOMAIN F : i < m /\ F[i].t = "running"
         /\ \A p \in DOMAIN record : p \in DOMAIN F /\ F[p] = Frame("update", p, None)
         /\ \A i \in DOMAIN F :
               /\ F[i].t \in {"update", "running", "ended", "loaded", "ask"}
               /\ F[i].t = "update" => i \in DOMAIN record /\ F[i].of = i
               /\ F[i].t = "running" => running # None /\ F[i].of = running
               /\ F[i].t = "ended" => /\ running = None /\ last # None
                                      /\ F[i] = Frame("ended", last.of, last.how)
                                      /\ \A p \in DOMAIN record : p < i
               /\ F[i].t = "ask" => F[i].of \in Pending
  <1> DEFINE A == [p \in DOMAIN record |-> Frame("update", p, None)]
             L == Latest
             C == <<Frame("loaded", None, "ok")>>
             D == EachAsk(Pending, "ask")
             B == A \o L
             E == B \o C
             n == Len(record)
  <1>1. IsSeq(A) /\ Len(A) = n /\ DOMAIN A = DOMAIN record /\ n \in Nat /\ DOMAIN record = 1..n
        /\ \A p \in DOMAIN record : A[p] = Frame("update", p, None)
    <2>1. n \in Nat /\ DOMAIN record = 1..n
      BY DEF HostOK
    <2> DEFINE U == {Frame("update", p, None) : p \in 1..n}
               g(p) == Frame("update", p, None)
    <2> HIDE DEF g
    <2>2. [p \in 1..n |-> g(p)] \in Seq({g(p) : p \in 1..n})
      BY <2>1, IsASeq
    <2>3. A = [p \in 1..n |-> g(p)]
      BY <2>1 DEF g
    <2>4. Len(A) = n
      BY <2>1, <2>2, <2>3
    <2> QED
      BY <2>1, <2>2, <2>3, <2>4 DEF IsSeq, g
  <1>2. /\ IsSeq(L) /\ DOMAIN L \subseteq {1}
        /\ running # None => 1 \in DOMAIN L /\ L[1] = Frame("running", running, None)
        /\ running = None => \A i \in DOMAIN L : last # None /\ L[i] = Frame("ended", last.of, last.how)
    <2>1. CASE running # None
      BY <2>1, One DEF Latest
    <2>2. CASE running = None /\ last # None
      BY <2>2, One DEF Latest
    <2>3. CASE running = None /\ last = None
      BY <2>3, NoFrames DEF Latest
    <2> QED
      BY <2>1, <2>2, <2>3
  <1>3. IsSeq(C) /\ DOMAIN C = {1} /\ C[1] = Frame("loaded", None, "ok") /\ Len(C) = 1
    BY One
  <1>4. /\ IsSeq(D)
        /\ \A i \in DOMAIN D : \E q \in Pending : D[i] = Frame("ask", q, None)
    BY EachAskFrames DEF Pending
  <1>a. B = A \o L /\ E = B \o C /\ F = E \o D
    BY DEF Replayed
  <1> HIDE DEF A, L, C, D, B, E
  <1>b. Joins(B, A, L)
    BY <1>1, <1>2, <1>a, Joined
  <1>c. Joins(E, B, C)
    <2>1. IsSeq(B)
      BY <1>b DEF Joins
    <2> QED
      BY <1>3, <1>a, <2>1, Joined
  <1>d. Joins(F, E, D)
    <2>1. IsSeq(E)
      BY <1>c DEF Joins
    <2> QED
      BY <1>4, <1>a, <2>1, Joined
  <1> USE DEF Joins
  <1>5. /\ Len(L) \in Nat /\ DOMAIN L = 1..Len(L) /\ Len(B) \in Nat /\ DOMAIN B = 1..Len(B)
    BY <1>2, <1>b, SeqLength
  <1>6. /\ Len(B) + 1 \in DOMAIN E /\ E[Len(B) + 1] = C[1]
        /\ \A i \in DOMAIN E : i \in DOMAIN B \/ i = Len(B) + 1
    BY <1>3, <1>c
  <1>8. \A i \in DOMAIN F : i \in DOMAIN E \/ \E j \in DOMAIN D : i = Len(E) + j /\ F[i] = D[j]
    BY <1>d
  <1> DEFINE m == Len(B) + 1
  <1>9. /\ m \in DOMAIN F /\ F[m] = Frame("loaded", None, "ok")
        /\ \A p \in DOMAIN record : p < m /\ p \in DOMAIN F /\ F[p] = Frame("update", p, None)
    <2>1. \A p \in DOMAIN record : p \in DOMAIN A /\ p < m
      BY <1>1, <1>5, <1>b
    <2>2. \A p \in DOMAIN record : p \in DOMAIN F /\ F[p] = A[p]
      BY <1>b, <1>c, <1>d, <2>1
    <2>3. m \in DOMAIN F /\ F[m] = C[1]
      BY <1>d, <1>6
    <2> QED
      BY <1>1, <1>3, <2>1, <2>2, <2>3
  <1>10. running # None => /\ n + 1 \in DOMAIN F /\ F[n + 1] = Frame("running", running, None)
                           /\ n + 1 < m
    <2> SUFFICES ASSUME running # None
                 PROVE  /\ n + 1 \in DOMAIN F /\ F[n + 1] = Frame("running", running, None)
                        /\ n + 1 < m
      OBVIOUS
    <2>1. 1 \in DOMAIN L /\ n + 1 \in DOMAIN B /\ B[n + 1] = L[1] /\ 1 <= Len(L)
      BY <1>1, <1>2, <1>5, <1>b
    <2>2. n + 1 \in DOMAIN F /\ F[n + 1] = B[n + 1]
      BY <1>c, <1>d, <2>1
    <2> QED
      BY <1>1, <1>2, <1>5, <1>b, <2>1, <2>2
  <1>11. ASSUME NEW i \in DOMAIN F
         PROVE  \/ i \in DOMAIN record /\ F[i] = Frame("update", i, None)
                \/ i = n + 1 /\ 1 \in DOMAIN L /\ F[i] = L[1]
                \/ i = m /\ F[i] = Frame("loaded", None, "ok")
                \/ \E q \in Pending : F[i] = Frame("ask", q, None)
    <2>1. CASE i \in DOMAIN A
      BY <1>1, <1>9, <2>1
    <2>2. ASSUME NEW j \in DOMAIN L, i = n + j PROVE i = n + 1 /\ 1 \in DOMAIN L /\ F[i] = L[1]
      BY <1>1, <1>2, <1>b, <1>c, <1>d, <2>2
    <2>3. CASE i = m
      BY <1>9, <2>3
    <2>4. ASSUME NEW j \in DOMAIN D, F[i] = D[j] PROVE \E q \in Pending : F[i] = Frame("ask", q, None)
      BY <1>4, <2>4
    <2> QED
      BY <1>1, <1>6, <1>8, <1>b, <1>11, <2>1, <2>2, <2>3, <2>4
  <1>12. \A i \in DOMAIN F :
            \/ i \in DOMAIN record /\ F[i] = Frame("update", i, None)
            \/ running # None /\ F[i] = Frame("running", running, None)
            \/ running = None /\ last # None /\ i = n + 1 /\ F[i] = Frame("ended", last.of, last.how)
            \/ i = m /\ F[i] = Frame("loaded", None, "ok")
            \/ \E q \in Pending : F[i] = Frame("ask", q, None)
    BY <1>2, <1>11
  <1>13. \A p \in DOMAIN record : p < n + 1
    BY <1>1
  <1> HIDE DEF m, n
  <1>14. /\ m \in DOMAIN F /\ F[m] = Frame("loaded", None, "ok")
         /\ \A i \in DOMAIN F : F[i].t = "loaded" => i = m
         /\ \A p \in DOMAIN record : p < m
         /\ running # None => \E i \in DOMAIN F : i < m /\ F[i].t = "running"
    <2>1. \A i \in DOMAIN F : F[i].t = "loaded" => i = m
      BY <1>12 DEF Frame
    <2>2. running # None => n + 1 \in DOMAIN F /\ F[n + 1].t = "running" /\ n + 1 < m
      BY <1>10 DEF Frame
    <2> QED
      BY <1>9, <2>1, <2>2
  <1>15. ASSUME NEW i \in DOMAIN F
         PROVE /\ F[i].t \in {"update", "running", "ended", "loaded", "ask"}
               /\ F[i].t = "update" => i \in DOMAIN record /\ F[i].of = i
               /\ F[i].t = "running" => running # None /\ F[i].of = running
               /\ F[i].t = "ended" => /\ running = None /\ last # None
                                      /\ F[i] = Frame("ended", last.of, last.how)
                                      /\ \A p \in DOMAIN record : p < i
               /\ F[i].t = "ask" => F[i].of \in Pending
    <2>1. \/ i \in DOMAIN record /\ F[i] = Frame("update", i, None)
          \/ running # None /\ F[i] = Frame("running", running, None)
          \/ running = None /\ last # None /\ i = n + 1 /\ F[i] = Frame("ended", last.of, last.how)
          \/ F[i] = Frame("loaded", None, "ok")
          \/ \E q \in Pending : F[i] = Frame("ask", q, None)
      BY <1>12
    <2> QED
      BY <1>13, <2>1 DEF Frame
  <1> QED
    BY <1>d, <1>9, <1>14, <1>15
-----------------------------------------------------------------------------
(* The turns the app holds *)

\* r is o further on: the same turn, which has not ended since.
Same(o, r) ==
  /\ r \in Object
  /\ r.local = o.local /\ r.id = o.id /\ r.ended = o.ended /\ r.saw = o.saw
  /\ r.finished = "done" => r.ended # None
\* r is o, whose turn n ended.
Closed(o, r, n) ==
  /\ r \in Object
  /\ r.local = o.local /\ r.id = n /\ r.ended \in Ends /\ r.saw = o.saw
Sound(o) == o \in Object /\ (o.finished = "done" => o.ended # None)

LEMMA NoneIs == None \notin Nat /\ None \notin Ends /\ \A r \in Replays : r # None
  BY ClientAssumption DEF ClientAssumption, Ends, Replays

LEMMA Settles ==
  ASSUME NEW o, Sound(o)
  PROVE  Same(o, Settled(o))
  <1> USE DEF Sound, Object, Same, Ends
  <1>1. CASE o.finished # None
    BY <1>1 DEF Settled
  <1>2. CASE o.finished = None /\ o.answer = "error" /\ o.id = None
    BY <1>2 DEF Settled
  <1>3. CASE o.finished = None /\ ~(o.answer = "error" /\ o.id = None) /\ (o.ended = None \/ o.awaits)
    BY <1>3 DEF Settled
  <1>4. CASE o.finished = None /\ ~(o.answer = "error" /\ o.id = None) /\ ~(o.ended = None \/ o.awaits)
    <2>1. Settled(o) = [o EXCEPT !.finished = IF o.answer = "error" THEN "error" ELSE o.ended]
      BY <1>4 DEF Settled
    <2> QED
      BY <1>4, <2>1
  <1> QED
    BY <1>1, <1>2, <1>3, <1>4

LEMMA Goes_on ==
  ASSUME NEW o, Sound(o)
  PROVE  /\ Same(o, o) /\ Same(o, Failed(o)) /\ Same(o, Lost(o))
         /\ \A how \in Ends : Same(o, Responded(o, how))
         /\ \A x \in Nat : Same(o, [o EXCEPT !.sent = x])
  <1> USE DEF Sound, Object, Same, Ends
  <1>1. Same(o, o)
    OBVIOUS
  <1>2. Same(o, Failed(o))
    BY DEF Failed
  <1>3. Same(o, Lost(o))
    BY DEF Lost
  <1>4. \A how \in Ends : Same(o, Responded(o, how))
    <2> TAKE how \in Ends
    <2> DEFINE r == [o EXCEPT !.answer = how, !.awaits = FALSE]
    <2>1. Sound(r) /\ r.local = o.local /\ r.id = o.id /\ r.ended = o.ended /\ r.saw = o.saw
      OBVIOUS
    <2>2. Same(r, Settled(r))
      BY <2>1, Settles
    <2> QED
      BY <2>1, <2>2 DEF Responded
  <1>5. \A x \in Nat : Same(o, [o EXCEPT !.sent = x])
    OBVIOUS
  <1> QED
    BY <1>1, <1>2, <1>3, <1>4, <1>5

LEMMA Closes ==
  ASSUME NEW o, Sound(o), NEW n \in Nat, NEW how \in Ends
  PROVE  Closed(o, Ended([o EXCEPT !.id = n], how), n)
  <1> DEFINE r == [[o EXCEPT !.id = n] EXCEPT !.ended = how]
  <1>1. Sound(r) /\ r.local = o.local /\ r.id = n /\ r.ended \in Ends /\ r.saw = o.saw
    BY NoneIs DEF Sound, Object, Ends
  <1>2. Same(r, Settled(r))
    BY <1>1, Settles
  <1> QED
    BY <1>1, <1>2 DEF Ended, Closed, Same

LEMMA Starting ==
  ASSUME NEW local \in BOOLEAN, NEW id \in Nat \cup {None}
  PROVE  LET o == NewTurn(local, id)
         IN  /\ Sound(o) /\ o.local = local /\ o.id = id /\ o.ended = None /\ o.saw = {}
             /\ o.finished = None
  BY NoneIs DEF NewTurn, Sound, Object, Ends

\* The turns the app holds go on, or one not yet known to the host joins them.
TurnsGoOn ==
  /\ obj' \in Seq(Object) /\ Len(obj) <= Len(obj')
  /\ cur' \in 0..Len(obj')
  /\ cur' \in DOMAIN obj => cur' = cur
  /\ \A i \in DOMAIN obj : i \in DOMAIN obj' /\ Same(obj[i], obj'[i])
  /\ \A i \in DOMAIN obj' : i \notin DOMAIN obj =>
        /\ obj'[i].id = None /\ obj'[i].ended = None /\ obj'[i].finished # "done"
        /\ obj'[i].saw = {} /\ opened' = "open"

LEMMA EachSound ==
  ASSUME AppOK
  PROVE  /\ obj \in Seq(Object) /\ Len(obj) \in Nat /\ DOMAIN obj = 1..Len(obj)
         /\ cur \in Nat /\ (cur # 0 => cur \in DOMAIN obj)
         /\ \A i \in DOMAIN obj : Sound(obj[i])
  BY DEF AppOK, Sound

LEMMA EachOwner ==
  ASSUME HostOK
  PROVE  /\ Len(owner) \in Nat /\ DOMAIN owner = 1..Len(owner)
         /\ Len(record) \in Nat /\ DOMAIN record = 1..Len(record)
         /\ \A n \in DOMAIN owner : n \in Nat
  <1>1. Len(owner) \in Nat /\ DOMAIN owner = 1..Len(owner)
    BY DEF HostOK
  <1>2. Len(record) \in Nat /\ DOMAIN record = 1..Len(record)
    BY DEF HostOK
  <1> QED
    BY <1>1, <1>2

LEMMA TurnsStay ==
  ASSUME AppOK, UNCHANGED obj, cur' \in {0, cur}
  PROVE  TurnsGoOn
  <1>1. \A i \in DOMAIN obj : Same(obj[i], obj[i])
    BY EachSound, Goes_on
  <1> QED
    BY <1>1, EachSound DEF TurnsGoOn

\* A map of the turns.
LEMMA TurnsMapped ==
  ASSUME AppOK, obj' = [i \in DOMAIN obj |-> obj'[i]], cur' \in {0, cur},
         \A i \in DOMAIN obj : Same(obj[i], obj'[i])
  PROVE  TurnsGoOn
  <1>1. \A i \in DOMAIN obj : obj'[i] \in Object
    BY DEF Same
  <1>2. DOMAIN obj' = 1..Len(obj) /\ Len(obj) \in Nat
    BY EachSound
  <1>3. [i \in 1..Len(obj) |-> obj'[i]] \in Seq(Object)
    BY <1>1, <1>2, EachSound, IsASeq
  <1>4. obj' \in Seq(Object) /\ Len(obj') = Len(obj)
    BY <1>2, <1>3, EachSound
  <1> QED
    BY <1>2, <1>4, EachSound DEF TurnsGoOn

\* One turn replaced.
LEMMA TurnReplaced ==
  ASSUME AppOK, NEW i \in DOMAIN obj, NEW r, Same(obj[i], r),
         obj' = [obj EXCEPT ![i] = r], cur' \in {0, cur}
  PROVE  TurnsGoOn
  <1>1. \A j \in DOMAIN obj : Same(obj[j], obj[j])
    BY EachSound, Goes_on
  <1>2. \A j \in DOMAIN obj : Same(obj[j], obj'[j])
    BY <1>1, EachSound
  <1>3. obj' = [j \in DOMAIN obj |-> obj'[j]]
    BY EachSound
  <1> QED
    BY <1>2, <1>3, TurnsMapped

\* A turn of the app's.
LEMMA TurnAdded ==
  ASSUME AppOK, opened' = "open", cur' \in {cur, Len(obj) + 1}, NEW x, Same(NewTurn(TRUE, None), x),
         obj' = Append(obj, x)
  PROVE  TurnsGoOn
  <1>1. x \in Object /\ x.id = None /\ x.ended = None /\ x.saw = {} /\ x.finished # "done"
    BY Starting DEF Same
  <1>2. obj' \in Seq(Object) /\ Len(obj') = Len(obj) + 1 /\ Len(obj) \in Nat /\ DOMAIN obj = 1..Len(obj)
        /\ DOMAIN obj' = 1..(Len(obj) + 1) /\ obj'[Len(obj) + 1] = x
        /\ \A i \in DOMAIN obj : obj'[i] = obj[i]
    BY <1>1, EachSound
  <1>3. \A i \in DOMAIN obj : Same(obj[i], obj[i])
    BY EachSound, Goes_on
  <1>4. \A i \in DOMAIN obj' : i \notin DOMAIN obj => i = Len(obj) + 1
    BY <1>2
  <1>5. cur' \in 0..Len(obj') /\ (cur' \in DOMAIN obj => cur' = cur)
    BY <1>2, EachSound
  <1> QED
    BY <1>1, <1>2, <1>3, <1>4, <1>5 DEF TurnsGoOn

LEMMA BecomeCur ==
  ASSUME NEW now, Become(now)
  PROVE  obj' = now /\ cur' \in {0, cur}
  BY DEF Become
-----------------------------------------------------------------------------
(* What a step leaves as it was *)

Grows ==
  /\ DOMAIN record \subseteq DOMAIN record' /\ DOMAIN owner \subseteq DOMAIN owner'
  /\ Prompts \subseteq Prompts'

LEMMA PromptsGrow ==
  ASSUME TurnsGoOn
  PROVE  Prompts \subseteq Prompts'
  BY DEF TurnsGoOn, Prompts, Same

\* The app goes on: its turns, what it tracks, and the host's unchanged.
LEMMA AppGoesOn ==
  ASSUME AppOK, TurnsGoOn, UNCHANGED <<record, owner>>,
         link' \in {"away", "resuming", "online", "stuck", "failed", "closed"},
         opened' \in {"no", "opening", "open"}, opened = "open" => opened' = "open",
         replay' \in Replays \cup {None}, ids' \subseteq requests', requests' \subseteq Asks
  PROVE  AppOK'
  <1>1. obj' \in Seq(Object) /\ cur' \in 0..Len(obj')
    BY DEF TurnsGoOn
  <1>2. ASSUME NEW i \in DOMAIN obj'
        PROVE  /\ obj'[i].id \in DOMAIN owner \cup {None}
               /\ obj'[i].saw \subseteq DOMAIN record
               /\ obj'[i].finished = "done" => obj'[i].ended # None
               /\ obj'[i].ended # None => obj'[i].id # None
               /\ obj'[i].local => opened' = "open"
    <2>1. CASE i \in DOMAIN obj
      BY <2>1 DEF TurnsGoOn, Same, AppOK
    <2>2. CASE i \notin DOMAIN obj
      BY <1>2, <2>2 DEF TurnsGoOn
    <2> QED
      BY <2>1, <2>2
  <1>3. \A n \in DOMAIN owner : owner[n].of = 0 \/ owner[n].of \in Prompts'
    BY PromptsGrow DEF AppOK
  <1> QED
    BY <1>1, <1>2, <1>3 DEF AppOK

LEMMA FramesKept ==
  ASSUME FramesOK, Grows, IsSeq(toApp'), IsSeq(toHost'),
         \A i \in DOMAIN toApp' : AppFrame(toApp[i])' \/ \E j \in DOMAIN toApp : toApp'[i] = toApp[j],
         \A i \in DOMAIN toHost' : HostFrame(toHost[i])' \/ \E j \in DOMAIN toHost : toHost'[i] = toHost[j]
  PROVE  FramesOK'
  <1>1. ASSUME NEW i \in DOMAIN toApp' PROVE AppFrame(toApp[i])'
    <2>1. CASE \E j \in DOMAIN toApp : toApp'[i] = toApp[j]
      <3>1. PICK j \in DOMAIN toApp : toApp'[i] = toApp[j]
        BY <2>1
      <3>2. AppFrame(toApp[j])
        BY DEF FramesOK
      <3> QED
        BY <3>1, <3>2 DEF AppFrame, Grows
    <2> QED
      BY <2>1
  <1>2. ASSUME NEW i \in DOMAIN toHost' PROVE HostFrame(toHost[i])'
    <2>1. CASE \E j \in DOMAIN toHost : toHost'[i] = toHost[j]
      <3>1. PICK j \in DOMAIN toHost : toHost'[i] = toHost[j]
        BY <2>1
      <3>2. HostFrame(toHost[j])
        BY DEF FramesOK
      <3> QED
        BY <3>1, <3>2 DEF HostFrame, Grows
    <2> QED
      BY <2>1
  <1> QED
    BY <1>1, <1>2 DEF FramesOK

\* What a resume and a first load wait for is unchanged.
StageStays ==
  /\ UNCHANGED <<link, opened, attached>>
  /\ replay' = None <=> replay = None
  /\ replay # None => replay'.first = replay.first

LEMMA StageShift ==
  ASSUME StageOK, FramesOK, StageStays, NEW a \in {0, 1}, NEW b \in {0, 1},
         IsSeq(toApp'), IsSeq(toHost'),
         ~Up => toHost' = <<>> /\ toApp' = <<>>,
         \A i \in DOMAIN toHost' : Stage(toHost'[i]) =>
            i + a \in DOMAIN toHost /\ toHost[i + a] = toHost'[i],
         \A i \in DOMAIN toApp' : Stage(toApp'[i]) =>
            i + b \in DOMAIN toApp /\ toApp[i + b] = toApp'[i]
  PROVE  StageOK'
  <1>1. Up' = Up /\ link' = link /\ opened' = opened /\ attached' = attached
    BY DEF StageStays, Up
  <1>2. /\ ~Up' => toHost' = <<>> /\ toApp' = <<>> /\ ~attached'
        /\ replay' # None => IF replay'.first THEN opened' = "opening" /\ link' = "online"
                             ELSE opened' = "open" /\ link' \in {"resuming", "stuck"}
        /\ opened' = "opening" => replay' # None /\ replay'.first
    BY <1>1 DEF StageOK, StageStays
  <1>3. /\ \A i \in DOMAIN toHost' : i \in Nat
        /\ \A i \in DOMAIN toApp' : i \in Nat
    BY SeqLength
  <1>4. \A i, j \in DOMAIN toHost' : Stage(toHost'[i]) /\ Stage(toHost'[j]) => i = j
    <2> SUFFICES ASSUME NEW i \in DOMAIN toHost', NEW j \in DOMAIN toHost',
                        Stage(toHost'[i]), Stage(toHost'[j])
                 PROVE  i = j
      OBVIOUS
    <2>1. i + a = j + a
      BY DEF StageOK
    <2> QED
      BY <1>3, <2>1
  <1>5. \A i, j \in DOMAIN toApp' : Stage(toApp'[i]) /\ Stage(toApp'[j]) => i = j
    <2> SUFFICES ASSUME NEW i \in DOMAIN toApp', NEW j \in DOMAIN toApp',
                        Stage(toApp'[i]), Stage(toApp'[j])
                 PROVE  i = j
      OBVIOUS
    <2>1. i + b = j + b
      BY DEF StageOK
    <2> QED
      BY <1>3, <2>1
  <1>6. \A i \in DOMAIN toHost', j \in DOMAIN toApp' : ~(Stage(toHost'[i]) /\ Stage(toApp'[j]))
    BY DEF StageOK
  <1>7. \A i \in DOMAIN toHost' :
           /\ Loading(toHost'[i]) => replay' # None /\ ~attached'
           /\ Looking(toHost'[i]) => link' = "resuming" /\ replay' = None
    BY <1>1 DEF StageOK, StageStays, Stage
  <1>8. \A i \in DOMAIN toApp' :
           /\ Loading(toApp'[i]) => replay' # None /\ (toApp'[i].how = "error" => ~attached')
           /\ Looking(toApp'[i]) => link' = "resuming" /\ replay' = None
    BY <1>1 DEF StageOK, StageStays, Stage
  <1> QED
    BY <1>2, <1>4, <1>5, <1>6, <1>7, <1>8 DEF StageOK, Stage, Loading, Looking
-----------------------------------------------------------------------------
(* The updates *)

Unopened == (opened = "no" \/ (opened = "opening" /\ ~attached)) /\ link # "closed"

LEMMA UpdatesStay ==
  ASSUME UpdatesOK, UNCHANGED <<record, log, shown, attached, toApp, replay, opened, link>>
  PROVE  UpdatesOK'
  BY DEF UpdatesOK, ShownOnce, IsUpdate, Said, Fresh, Behind, Up

LEMMA UpdatesGone ==
  ASSUME UpdatesOK, UNCHANGED record, toApp' = <<>>, attached' = FALSE,
         UNCHANGED <<log, shown>> \/ (log' = <<>> /\ shown' = <<>>),
         replay' # None /\ Up' => replay'.index = 0,
         Unopened' => log' = <<>> /\ shown' = <<>>
  PROVE  UpdatesOK'
  <1>1. DOMAIN toApp' = {} /\ DOMAIN <<>> = {} /\ <<>> \in Seq(Nat)
    BY NoFrames
  <1>2. Fresh'
    BY <1>1 DEF Fresh
  <1>3. ToSet(<<>>) = {}
    BY <1>1 DEF ToSet
  <1>4. CASE UNCHANGED <<log, shown>>
    <2>1. Unopened' => ~attached' /\ log' = <<>> /\ shown' = <<>>
      OBVIOUS
    <2> QED
      BY <1>1, <1>2, <1>4, <2>1 DEF UpdatesOK, ShownOnce, Said, IsUpdate, Unopened
  <1>5. CASE log' = <<>> /\ shown' = <<>>
    BY <1>1, <1>2, <1>3, <1>5 DEF UpdatesOK, ShownOnce, Said, IsUpdate
  <1> QED
    BY <1>4, <1>5

\* Frames F of the host's, of which one may be the update now recorded.
Tells(F) ==
  /\ UNCHANGED <<log, shown, replay, opened, link, attached>>
  /\ Joins(toApp', toApp, F)
  /\ DOMAIN record \subseteq DOMAIN record' /\ DOMAIN record' \subseteq Nat
  /\ \A p \in DOMAIN record : record'[p] = record[p]
  /\ \A p \in DOMAIN record' : p \notin DOMAIN record =>
        /\ \A k \in DOMAIN record : k < p
        /\ attached /\ record'[p].by = "agent" =>
              \E i \in DOMAIN F : F[i].t = "update" /\ F[i].of = p
  /\ \A i, j \in DOMAIN F : F[i].t = "update" /\ F[j].t = "update" => i = j
  /\ \A i, j \in DOMAIN F : F[i].t = "loaded" => F[j].t # "update"
  /\ \A i \in DOMAIN F : F[i].t = "update" => F[i].of \in DOMAIN record' \ DOMAIN record
  /\ ~attached => \A i \in DOMAIN F : F[i].t \notin {"update", "running", "ended"}

LEMMA UpdatesTold ==
  ASSUME UpdatesOK, FramesOK, HostOK, NEW F, IsSeq(F), Tells(F)
  PROVE  UpdatesOK'
  <1> USE DEF Joins
  <1>a. /\ log' = log /\ shown' = shown /\ replay' = replay /\ attached' = attached
        /\ opened' = opened /\ link' = link /\ Up' = Up
        /\ \A i \in DOMAIN toApp : i \in Nat
        /\ \A i \in DOMAIN F : i \in Nat
        /\ Len(toApp) \in Nat
    BY SeqLength DEF Tells, Up, FramesOK
  <1>b. \A i \in DOMAIN toApp : i \in DOMAIN toApp' /\ toApp'[i] = toApp[i]
    BY DEF Tells
  <1>c. \A j \in DOMAIN toApp' : j \in DOMAIN toApp
           \/ \E i \in DOMAIN F : /\ j = Len(toApp) + i /\ toApp'[j] = F[i]
                                  /\ \A k \in DOMAIN toApp : k < j
    BY DEF Tells
  <1>d. \A k \in DOMAIN log : log[k] \in DOMAIN record
    BY DEF UpdatesOK, ToSet
  <1>e. \A i \in DOMAIN toApp : IsUpdate(i) => toApp[i].of \in DOMAIN record
    BY DEF FramesOK, AppFrame, IsUpdate
  \* An update is one told before, or the one recorded now.
  <1>f. \A j \in DOMAIN toApp' : IsUpdate(j)' =>
           \/ j \in DOMAIN toApp /\ IsUpdate(j)
           \/ /\ \A k \in DOMAIN toApp : k < j
              /\ toApp'[j].of \in DOMAIN record' /\ \A k \in DOMAIN record : k < toApp'[j].of
    BY <1>b, <1>c DEF IsUpdate, Tells
  <1>g. \A i \in DOMAIN toApp : IsUpdate(i)' <=> IsUpdate(i)
    BY <1>b DEF IsUpdate
  <1>1. ToSet(log') \subseteq DOMAIN record' /\ ToSet(shown') \subseteq ToSet(log')
    BY <1>a DEF UpdatesOK, Tells
  <1>2. ~attached' => /\ \A i \in DOMAIN toApp' : toApp'[i].t \notin {"update", "running", "ended"}
                      /\ replay' # None /\ Up' => replay'.index = 0
    BY <1>a, <1>b, <1>c DEF UpdatesOK, Tells
  <1>3. \A i, j \in DOMAIN toApp' : IsUpdate(i)' /\ IsUpdate(j)' /\ i < j => toApp'[i].of < toApp'[j].of
    <2> SUFFICES ASSUME NEW i \in DOMAIN toApp', NEW j \in DOMAIN toApp', IsUpdate(i)', IsUpdate(j)', i < j
                 PROVE  toApp'[i].of < toApp'[j].of
      OBVIOUS
    <2>1. CASE i \in DOMAIN toApp /\ j \in DOMAIN toApp
      BY <1>b, <1>g, <2>1 DEF UpdatesOK
    <2>2. CASE i \in DOMAIN toApp /\ j \notin DOMAIN toApp
      BY <1>b, <1>e, <1>f, <1>g, <2>2
    <2>3. CASE i \notin DOMAIN toApp /\ j \in DOMAIN toApp
      BY <1>a, <1>c, <2>3
    <2>4. CASE i \notin DOMAIN toApp /\ j \notin DOMAIN toApp
      <3>1. PICK x \in DOMAIN F : i = Len(toApp) + x /\ toApp'[i] = F[x]
        BY <1>c, <2>4
      <3>2. PICK y \in DOMAIN F : j = Len(toApp) + y /\ toApp'[j] = F[y]
        BY <1>c, <2>4
      <3>3. x = y
        BY <3>1, <3>2 DEF Tells, IsUpdate
      <3> QED
        BY <1>a, <3>1, <3>2, <3>3
    <2> QED
      BY <2>1, <2>2, <2>3, <2>4
  <1>4. \A i, j \in DOMAIN toApp' : toApp'[i].t = "loaded" /\ IsUpdate(j)' /\ i < j =>
           \A k \in DOMAIN log : log[k] < toApp'[j].of
    <2> SUFFICES ASSUME NEW i \in DOMAIN toApp', NEW j \in DOMAIN toApp', toApp'[i].t = "loaded",
                        IsUpdate(j)', i < j, NEW k \in DOMAIN log
                 PROVE  log[k] < toApp'[j].of
      OBVIOUS
    <2>1. CASE i \in DOMAIN toApp /\ j \in DOMAIN toApp
      BY <1>b, <1>g, <2>1 DEF UpdatesOK
    <2>2. CASE j \notin DOMAIN toApp
      BY <1>d, <1>f, <2>2
    <2>3. CASE i \notin DOMAIN toApp /\ j \in DOMAIN toApp
      BY <1>a, <1>c, <2>3
    <2> QED
      BY <2>1, <2>2, <2>3
  <1>5. Fresh' \/ (replay' # None /\ ~replay'.first /\ Behind')
    <2>1. CASE Fresh
      <3>1. ASSUME NEW j \in DOMAIN toApp', IsUpdate(j)', NEW k \in DOMAIN log
            PROVE  log[k] < toApp'[j].of
        <4>1. CASE j \in DOMAIN toApp /\ IsUpdate(j)
          BY <1>b, <2>1, <4>1 DEF Fresh
        <4> QED
          BY <1>d, <1>f, <3>1, <4>1
      <3> QED
        BY <1>a, <3>1 DEF Fresh
    <2>2. CASE replay # None /\ ~replay.first /\ Behind
      <3>1. replay'.index < Len(log')
        BY <1>a, <2>2 DEF Behind
      <3>2. ASSUME NEW j \in DOMAIN log, j > replay.index
            PROVE  \E i \in DOMAIN toApp' : IsUpdate(i)' /\ toApp'[i].of = log[j]
        <4>1. PICK i \in DOMAIN toApp : IsUpdate(i) /\ toApp[i].of = log[j]
          BY <2>2, <3>2 DEF Behind
        <4> QED
          BY <1>b, <1>g, <4>1
      <3>3. ASSUME NEW j \in DOMAIN toApp', IsUpdate(j)', NEW k \in DOMAIN log, k <= replay.index
            PROVE  log[k] < toApp'[j].of
        <4>1. CASE j \in DOMAIN toApp /\ IsUpdate(j)
          BY <1>b, <2>2, <3>3, <4>1 DEF Behind
        <4> QED
          BY <1>d, <1>f, <3>3, <4>1
      <3>4. Behind'
        BY <1>a, <3>1, <3>2, <3>3 DEF Behind
      <3> QED
        BY <1>a, <2>2, <3>4
    <2> QED
      BY <2>1, <2>2 DEF UpdatesOK
  <1>6. ASSUME attached, NEW p \in DOMAIN record', Said(p)'
        PROVE  p \in ToSet(log) \/ \E i \in DOMAIN toApp' : IsUpdate(i)' /\ toApp'[i].of = p
    <2>1. CASE p \in DOMAIN record
      <3>1. Said(p)
        BY <1>6, <2>1 DEF Said, Tells
      <3>2. CASE \E i \in DOMAIN toApp : IsUpdate(i) /\ toApp[i].of = p
        BY <1>b, <1>g, <3>2
      <3> QED
        BY <1>6, <2>1, <3>1, <3>2 DEF UpdatesOK
    <2>2. CASE p \notin DOMAIN record
      <3>1. PICK i \in DOMAIN F : F[i].t = "update" /\ F[i].of = p
        BY <1>6, <2>2 DEF Said, Tells
      <3>2. Len(toApp) + i \in DOMAIN toApp' /\ toApp'[Len(toApp) + i] = F[i]
        BY DEF Tells
      <3> QED
        BY <3>1, <3>2 DEF IsUpdate
    <2> QED
      BY <2>1, <2>2
  <1>7. ASSUME NEW p \in DOMAIN record', NEW k \in DOMAIN log, Said(p)', p < log[k]
        PROVE  p \in ToSet(log)
    <2>1. p \in DOMAIN record
      <3> SUFFICES ASSUME p \notin DOMAIN record PROVE FALSE
        OBVIOUS
      <3>1. log[k] < p /\ log[k] \in Nat
        BY <1>d DEF Tells, HostOK
      <3>2. p \in Nat
        BY DEF Tells
      <3> QED
        BY <1>7, <3>1, <3>2
    <2> QED
      BY <1>7, <2>1 DEF UpdatesOK, Said, Tells
  <1> QED
    BY <1>a, <1>1, <1>2, <1>3, <1>4, <1>5, <1>6, <1>7 DEF UpdatesOK, ShownOnce, Said, IsUpdate

\* A frame taken that is no update.
Passes ==
  /\ Takes(toApp', toApp) /\ UNCHANGED <<record, attached>>
  /\ toApp[1].t # "update"
  /\ UNCHANGED <<log, shown>> \/ (~attached /\ log' = <<>> /\ shown' = <<>>)
  /\ Up' => Up
  /\ \/ replay' = None /\ (replay = None \/ toApp[1].t = "loaded")
     \/ replay # None /\ replay' # None /\ replay'.first = replay.first /\ replay'.index = replay.index
  /\ Unopened' => log' = <<>> /\ shown' = <<>> /\ ~attached

LEMMA TakesFrames ==
  ASSUME FramesOK, toApp # <<>>
  PROVE  Takes(Tail(toApp), toApp)
  BY Taken DEF FramesOK

LEMMA UpdatesPassed ==
  ASSUME UpdatesOK, FramesOK, Passes
  PROVE  UpdatesOK'
  <1>a. /\ UNCHANGED <<record, attached>>
        /\ \A i \in DOMAIN toApp' : i \in Nat /\ i + 1 \in DOMAIN toApp /\ toApp'[i] = toApp[i + 1]
        /\ \A i \in DOMAIN toApp : i \in Nat /\ (i # 1 => i - 1 \in DOMAIN toApp' /\ toApp'[i - 1] = toApp[i])
        /\ 1 \in DOMAIN toApp /\ \A i \in DOMAIN toApp' : 1 < i + 1
    BY DEF Passes, Takes
  <1>b. \A i \in DOMAIN toApp' : IsUpdate(i)' <=> IsUpdate(i + 1)
    BY <1>a DEF IsUpdate
  <1>c. \A i \in DOMAIN toApp : IsUpdate(i) => i # 1 /\ IsUpdate(i - 1)'
    BY <1>a DEF IsUpdate, Passes
  <1>d. \A i, j \in DOMAIN toApp' : i < j => i + 1 < j + 1
    BY <1>a
  <1>1. \A i, j \in DOMAIN toApp' : IsUpdate(i)' /\ IsUpdate(j)' /\ i < j => toApp'[i].of < toApp'[j].of
    BY <1>a, <1>b, <1>d DEF UpdatesOK
  <1>2. ~attached' => /\ \A i \in DOMAIN toApp' : toApp'[i].t \notin {"update", "running", "ended"}
                      /\ replay' # None /\ Up' => replay'.index = 0
    <2>1. ~attached => \A i \in DOMAIN toApp' : toApp'[i].t \notin {"update", "running", "ended"}
      BY <1>a DEF UpdatesOK
    <2>2. ~attached /\ replay' # None /\ Up' => replay'.index = 0
      BY DEF Passes, UpdatesOK
    <2> QED
      BY <1>a, <2>1, <2>2
  <1>3. CASE UNCHANGED <<log, shown>>
    <2>1. \A i, j \in DOMAIN toApp' : toApp'[i].t = "loaded" /\ IsUpdate(j)' /\ i < j =>
             \A k \in DOMAIN log : log[k] < toApp'[j].of
      BY <1>a, <1>b, <1>d DEF UpdatesOK
    <2>2. Fresh' \/ (replay' # None /\ ~replay'.first /\ Behind')
      <3>1. CASE Fresh
        <4>1. Fresh'
          BY <1>3, <1>a, <1>b, <3>1 DEF Fresh
        <4> QED
          BY <4>1
      <3>2. CASE toApp[1].t = "loaded"
        <4>1. Fresh'
          <5> SUFFICES ASSUME NEW i \in DOMAIN toApp', IsUpdate(i)', NEW j \in DOMAIN log
                       PROVE  log[j] < toApp'[i].of
            BY <1>3 DEF Fresh
          <5>1. IsUpdate(i + 1) /\ i + 1 \in DOMAIN toApp /\ 1 < i + 1 /\ 1 \in DOMAIN toApp
            BY <1>a, <1>b
          <5>2. log[j] < toApp[i + 1].of
            BY <3>2, <5>1 DEF UpdatesOK
          <5> QED
            BY <1>a, <5>2
        <4> QED
          BY <4>1
      <3>3. CASE replay # None /\ ~replay.first /\ Behind /\ toApp[1].t # "loaded"
        <4>1. replay' # None /\ ~replay'.first /\ replay'.index = replay.index
          BY <3>3 DEF Passes
        <4>2. \A j \in DOMAIN log : j > replay.index =>
                 \E i \in DOMAIN toApp' : IsUpdate(i)' /\ toApp'[i].of = log[j]
          <5> SUFFICES ASSUME NEW j \in DOMAIN log, j > replay.index
                       PROVE  \E i \in DOMAIN toApp' : IsUpdate(i)' /\ toApp'[i].of = log[j]
            OBVIOUS
          <5>1. PICK i \in DOMAIN toApp : IsUpdate(i) /\ toApp[i].of = log[j]
            BY <3>3 DEF Behind
          <5> QED
            BY <1>a, <1>c, <5>1
        <4>3. \A i \in DOMAIN toApp' : IsUpdate(i)' =>
                 \A j \in DOMAIN log : j <= replay.index => log[j] < toApp'[i].of
          BY <1>a, <1>b, <3>3 DEF Behind
        <4>4. Behind'
          BY <1>3, <3>3, <4>1, <4>2, <4>3 DEF Behind
        <4> QED
          BY <4>1, <4>4
      <3> QED
        BY <3>1, <3>2, <3>3 DEF UpdatesOK, Passes
    <2>3. attached => \A p \in DOMAIN record : Said(p) =>
             p \in ToSet(log) \/ \E i \in DOMAIN toApp' : IsUpdate(i)' /\ toApp'[i].of = p
      <3> SUFFICES ASSUME attached, NEW p \in DOMAIN record, Said(p), p \notin ToSet(log)
                   PROVE  \E i \in DOMAIN toApp' : IsUpdate(i)' /\ toApp'[i].of = p
        OBVIOUS
      <3>1. PICK i \in DOMAIN toApp : IsUpdate(i) /\ toApp[i].of = p
        BY DEF UpdatesOK
      <3> QED
        BY <1>a, <1>c, <3>1
    <2>4. Unopened' => ~attached' /\ log' = <<>> /\ shown' = <<>>
      BY DEF Passes
    <2> QED
      BY <1>a, <1>1, <1>2, <1>3, <2>1, <2>2, <2>3, <2>4 DEF UpdatesOK, ShownOnce, Said, IsUpdate, Unopened
  <1>4. CASE ~attached /\ log' = <<>> /\ shown' = <<>>
    <2>1. DOMAIN log' = {} /\ DOMAIN shown' = {} /\ <<>> \in Seq(Nat) /\ ToSet(<<>>) = {}
      BY <1>4, NoFrames DEF ToSet
    <2>2. Fresh'
      BY <2>1 DEF Fresh
    <2>3. ~attached'
      BY <1>4, <1>a
    <2> QED
      BY <1>1, <1>2, <1>4, <2>1, <2>2, <2>3 DEF UpdatesOK, ShownOnce
  <1> QED
    BY <1>3, <1>4 DEF Passes

\* An update taken: the app has it, or the agent never said it.
LEMMA UpdateTaken ==
  ASSUME UpdatesOK, FramesOK, StageOK, HostOK, AppOK, Up, Takes(toApp', toApp), toApp[1].t = "update",
         UNCHANGED <<record, attached, opened, link>>, Update(toApp[1].of)
  PROVE  /\ UpdatesOK'
         /\ Said(toApp[1].of) => toApp[1].of \in ToSet(log')
         /\ ToSet(log) \subseteq ToSet(log') /\ ToSet(log') \subseteq ToSet(log) \cup {toApp[1].of}
         /\ log' # log => ~Replaying \/ Said(toApp[1].of)
  <1> DEFINE p == toApp[1].of
  <1>a. /\ \A i \in DOMAIN toApp' : i \in Nat /\ i + 1 \in DOMAIN toApp /\ toApp'[i] = toApp[i + 1]
        /\ \A i \in DOMAIN toApp : i \in Nat /\ (i # 1 => i - 1 \in DOMAIN toApp' /\ toApp'[i - 1] = toApp[i])
        /\ 1 \in DOMAIN toApp /\ \A i \in DOMAIN toApp' : 1 < i + 1
        /\ \A i \in DOMAIN toApp : i # 1 => 1 < i
    BY DEF Takes
  <1>b. \A i \in DOMAIN toApp' : IsUpdate(i)' <=> IsUpdate(i + 1)
    BY <1>a DEF IsUpdate
  <1>c. \A i \in DOMAIN toApp : i # 1 => (IsUpdate(i) <=> IsUpdate(i - 1)')
    BY <1>a DEF IsUpdate
  <1>d. \A i, j \in DOMAIN toApp' : i < j => i + 1 < j + 1
    BY <1>a
  <1>e. IsUpdate(1) /\ attached /\ p \in DOMAIN record /\ p \in Nat /\ DOMAIN record \subseteq Nat
    <2>1. IsUpdate(1) /\ p \in DOMAIN record
      BY <1>a DEF FramesOK, AppFrame, IsUpdate
    <2>2. attached
      BY <1>a DEF UpdatesOK
    <2>3. Len(record) \in Nat /\ DOMAIN record = 1..Len(record)
      BY DEF HostOK
    <2> QED
      BY <2>1, <2>2, <2>3
  <1>f. \A i \in DOMAIN toApp : IsUpdate(i) /\ i # 1 => p < toApp[i].of
    BY <1>a, <1>e DEF UpdatesOK
  <1>g. /\ log \in Seq(Nat) /\ Len(log) \in Nat /\ DOMAIN log = 1..Len(log)
        /\ \A k \in DOMAIN log : k \in Nat /\ log[k] \in Nat
        /\ \A i, j \in DOMAIN log : i < j => log[i] < log[j]
    <2>1. log \in Seq(Nat)
      BY DEF UpdatesOK
    <2> QED
      BY <2>1 DEF UpdatesOK
  <1>1. \A i, j \in DOMAIN toApp' : IsUpdate(i)' /\ IsUpdate(j)' /\ i < j => toApp'[i].of < toApp'[j].of
    BY <1>a, <1>b, <1>d DEF UpdatesOK
  <1>2. \A i, j \in DOMAIN toApp' : toApp'[i].t = "loaded" /\ IsUpdate(j)' /\ i < j =>
             \A k \in DOMAIN log : log[k] < toApp'[j].of
    BY <1>a, <1>b, <1>d DEF UpdatesOK
  \* What is behind is later than this one, or this one.
  <1>3. ASSUME Behind, replay # None, replay \in Replays
        PROVE  /\ replay.index + 1 \in DOMAIN log
               /\ p <= log[replay.index + 1]
               /\ \A j \in DOMAIN log : j <= replay.index => log[j] < p
    <2>1. replay.index \in Nat /\ replay.index + 1 \in DOMAIN log /\ replay.index + 1 > replay.index
      BY <1>3, <1>g DEF Behind, Replays
    <2>2. PICK i \in DOMAIN toApp : IsUpdate(i) /\ toApp[i].of = log[replay.index + 1]
      BY <1>3, <2>1 DEF Behind
    <2>3. p <= log[replay.index + 1]
      BY <1>e, <1>f, <1>g, <2>1, <2>2
    <2>4. \A j \in DOMAIN log : j <= replay.index => log[j] < p
      BY <1>3, <1>a, <1>e DEF Behind
    <2> QED
      BY <2>1, <2>3, <2>4
  <1>4. replay # None => replay \in Replays
    BY DEF AppOK
  <1>5. CASE Repeated(p)
    <2>1. /\ replay # None /\ ~replay.first /\ replay.index < Len(log) /\ p = log[replay.index + 1]
          /\ replay' = [replay EXCEPT !.index = @ + 1] /\ UNCHANGED <<log, shown>>
      BY <1>5 DEF Repeated, Replaying, Update
    <2>2. /\ replay.index \in Nat /\ replay' # None /\ replay'.index = replay.index + 1
          /\ replay'.first = replay.first /\ replay' \in Replays
          /\ replay.index + 1 \in DOMAIN log
      BY <1>4, <1>g, <2>1, NoneIs DEF Replays
    <2>3. Behind
      BY <1>a, <1>e, <1>g, <2>1, <2>2 DEF UpdatesOK, Fresh
    <2>4. \A j \in DOMAIN log : j > replay.index + 1 =>
             \E i \in DOMAIN toApp' : IsUpdate(i)' /\ toApp'[i].of = log[j]
      <3> SUFFICES ASSUME NEW j \in DOMAIN log, j > replay.index + 1
                   PROVE  \E i \in DOMAIN toApp' : IsUpdate(i)' /\ toApp'[i].of = log[j]
        OBVIOUS
      <3>0. j > replay.index
        BY <1>g, <2>2
      <3>1. PICK i \in DOMAIN toApp : IsUpdate(i) /\ toApp[i].of = log[j]
        BY <2>3, <3>0 DEF Behind
      <3>2. log[replay.index + 1] < log[j] /\ log[replay.index + 1] \in Nat
        BY <1>g, <2>2
      <3>3. i # 1
        BY <2>1, <3>1, <3>2
      <3> QED
        BY <1>a, <1>c, <3>1, <3>3
    <2>5. \A i \in DOMAIN toApp' : IsUpdate(i)' =>
             \A j \in DOMAIN log : j <= replay.index + 1 => log[j] < toApp'[i].of
      <3> SUFFICES ASSUME NEW i \in DOMAIN toApp', IsUpdate(i)', NEW j \in DOMAIN log, j <= replay.index + 1
                   PROVE  log[j] < toApp'[i].of
        OBVIOUS
      <3>1. IsUpdate(i + 1) /\ i + 1 \in DOMAIN toApp /\ i + 1 # 1 /\ toApp'[i] = toApp[i + 1]
        BY <1>a, <1>b
      <3>2. CASE j <= replay.index
        BY <2>3, <3>1, <3>2 DEF Behind
      <3>3. CASE j = replay.index + 1
        BY <1>f, <2>1, <3>1, <3>3
      <3> QED
        BY <1>g, <2>2, <3>2, <3>3
    <2>6. Fresh' \/ (replay' # None /\ ~replay'.first /\ Behind')
      <3>1. CASE replay.index + 1 = Len(log)
        <4>1. \A j \in DOMAIN log : j <= replay.index + 1
          BY <1>g, <3>1
        <4>2. Fresh'
          BY <2>1, <2>5, <4>1 DEF Fresh
        <4> QED
          BY <4>2
      <3>2. CASE replay.index + 1 < Len(log)
        <4>1. Behind'
          BY <2>1, <2>2, <2>4, <2>5, <3>2 DEF Behind
        <4> QED
          BY <2>1, <2>2, <4>1
      <3> QED
        BY <1>g, <2>1, <2>2, <3>1, <3>2
    <2>7. p \in ToSet(log)
      BY <2>1, <2>2 DEF ToSet
    <2>8. \A q \in DOMAIN record : Said(q) =>
             q \in ToSet(log) \/ \E i \in DOMAIN toApp' : IsUpdate(i)' /\ toApp'[i].of = q
      <3> SUFFICES ASSUME NEW q \in DOMAIN record, Said(q), q \notin ToSet(log)
                   PROVE  \E i \in DOMAIN toApp' : IsUpdate(i)' /\ toApp'[i].of = q
        OBVIOUS
      <3>1. PICK i \in DOMAIN toApp : IsUpdate(i) /\ toApp[i].of = q
        BY <1>e DEF UpdatesOK
      <3>2. i # 1
        BY <2>7, <3>1
      <3> QED
        BY <1>a, <1>c, <3>1, <3>2
    <2>9. UpdatesOK'
      BY <1>1, <1>2, <1>e, <2>1, <2>6, <2>8 DEF UpdatesOK, ShownOnce, Said, IsUpdate
    <2> QED
      BY <2>1, <2>7, <2>9
  <1>6. CASE ~Repeated(p) /\ Echo(p)
    <2>1. UNCHANGED <<replay, log, shown>> /\ ~Said(p)
      BY <1>6 DEF Update, Echo, Said
    <2>2. \A q \in DOMAIN record : Said(q) =>
             q \in ToSet(log) \/ \E i \in DOMAIN toApp' : IsUpdate(i)' /\ toApp'[i].of = q
      <3> SUFFICES ASSUME NEW q \in DOMAIN record, Said(q), q \notin ToSet(log)
                   PROVE  \E i \in DOMAIN toApp' : IsUpdate(i)' /\ toApp'[i].of = q
        OBVIOUS
      <3>1. PICK i \in DOMAIN toApp : IsUpdate(i) /\ toApp[i].of = q
        BY <1>e DEF UpdatesOK
      <3>2. i # 1
        BY <2>1, <3>1
      <3> QED
        BY <1>a, <1>c, <3>1, <3>2
    <2>3. Fresh' \/ (replay' # None /\ ~replay'.first /\ Behind')
      <3>1. CASE Fresh
        <4>1. Fresh'
          BY <1>a, <1>b, <2>1, <3>1 DEF Fresh
        <4> QED
          BY <4>1
      <3>2. CASE replay # None /\ ~replay.first /\ Behind
        <4>1. p # log[replay.index + 1] /\ replay.index + 1 \in DOMAIN log /\ p <= log[replay.index + 1]
              /\ replay.index \in Nat
          BY <1>3, <1>4, <1>6, <3>2 DEF Repeated, Echo, Replays
        <4>2. \A j \in DOMAIN log : j > replay.index => p < log[j]
          <5> SUFFICES ASSUME NEW j \in DOMAIN log, j > replay.index PROVE p < log[j]
            OBVIOUS
          <5>1. CASE j = replay.index + 1
            BY <1>e, <1>g, <4>1, <5>1
          <5>2. CASE j > replay.index + 1
            <6>1. log[replay.index + 1] < log[j]
              BY <1>g, <4>1, <5>2
            <6> QED
              BY <1>e, <1>g, <4>1, <6>1
          <5> QED
            BY <1>g, <4>1, <5>1, <5>2
        <4>3. \A j \in DOMAIN log : j > replay.index =>
                 \E i \in DOMAIN toApp' : IsUpdate(i)' /\ toApp'[i].of = log[j]
          <5> SUFFICES ASSUME NEW j \in DOMAIN log, j > replay.index
                       PROVE  \E i \in DOMAIN toApp' : IsUpdate(i)' /\ toApp'[i].of = log[j]
            OBVIOUS
          <5>1. PICK i \in DOMAIN toApp : IsUpdate(i) /\ toApp[i].of = log[j]
            BY <3>2 DEF Behind
          <5>2. i # 1
            BY <1>e, <1>g, <4>2, <5>1
          <5> QED
            BY <1>a, <1>c, <5>1, <5>2
        <4>4. \A i \in DOMAIN toApp' : IsUpdate(i)' =>
                 \A j \in DOMAIN log : j <= replay.index => log[j] < toApp'[i].of
          BY <1>a, <1>b, <3>2 DEF Behind
        <4>5. Behind'
          BY <2>1, <3>2, <4>3, <4>4 DEF Behind
        <4> QED
          BY <2>1, <3>2, <4>5
      <3> QED
        BY <3>1, <3>2 DEF UpdatesOK
    <2>4. UpdatesOK'
      BY <1>1, <1>2, <1>e, <2>1, <2>2, <2>3 DEF UpdatesOK, ShownOnce, Said, IsUpdate
    <2> QED
      BY <2>1, <2>4
  <1>7. CASE ~Repeated(p) /\ ~Echo(p)
    <2>1. /\ log' = Append(log, p) /\ replay' = replay
          /\ shown' = Append(shown, p) \/ shown' = shown
      BY <1>7 DEF Update
    <2>2. Fresh
      <3> SUFFICES ASSUME replay # None, ~replay.first, Behind PROVE Fresh
        BY DEF UpdatesOK
      <3>1. /\ replay.index + 1 \in DOMAIN log /\ p <= log[replay.index + 1]
            /\ \A j \in DOMAIN log : j <= replay.index => log[j] < p
            /\ replay.index \in Nat
        BY <1>3, <1>4 DEF Replays
      <3>2. p # log[replay.index + 1] /\ Said(p)
        BY <1>7 DEF Repeated, Echo, Replaying, Behind, Said
      <3>3. p < log[replay.index + 1]
        BY <1>e, <1>g, <3>1, <3>2
      <3>4. p \in ToSet(log)
        BY <1>e, <3>1, <3>2, <3>3 DEF UpdatesOK
      <3>5. PICK j \in DOMAIN log : p = log[j]
        BY <3>4 DEF ToSet
      <3>6. j > replay.index + 1
        BY <1>g, <3>1, <3>3, <3>5
      <3>7. log[replay.index + 1] < log[j]
        BY <1>g, <3>1, <3>6
      <3> QED
        BY <1>e, <1>g, <3>1, <3>3, <3>5, <3>7
    <2>3. \A k \in DOMAIN log : log[k] < p
      BY <1>a, <1>e, <2>2 DEF Fresh
    <2>4. /\ log' \in Seq(Nat) /\ Len(log') = Len(log) + 1 /\ DOMAIN log' = 1..(Len(log) + 1)
          /\ \A k \in DOMAIN log : log'[k] = log[k]
          /\ log'[Len(log) + 1] = p
      BY <1>e, <1>g, <2>1
    <2>5. \A k \in DOMAIN log' : k \in DOMAIN log \/ k = Len(log) + 1
      BY <1>g, <2>4
    <2>6. ToSet(log') = ToSet(log) \cup {p} /\ p \in ToSet(log')
      BY <1>g, <2>4, <2>5 DEF ToSet
    <2>7. \A i, j \in DOMAIN log' : i < j => log'[i] < log'[j]
      <3> SUFFICES ASSUME NEW i \in DOMAIN log', NEW j \in DOMAIN log', i < j PROVE log'[i] < log'[j]
        OBVIOUS
      <3>1. i \in DOMAIN log
        BY <1>g, <2>4
      <3> QED
        BY <1>g, <2>3, <2>4, <2>5, <3>1
    <2>8. /\ shown' \in Seq(Nat) /\ ToSet(shown') \subseteq ToSet(log')
          /\ \A i, j \in DOMAIN shown' : i < j => shown'[i] < shown'[j]
      <3>1. CASE shown' = shown
        BY <2>6, <3>1 DEF UpdatesOK, ShownOnce
      <3>2. CASE shown' = Append(shown, p)
        <4>1. /\ shown \in Seq(Nat) /\ \A k \in DOMAIN shown : shown[k] < p
          <5>0. \A k \in DOMAIN shown : shown[k] \in ToSet(log)
            BY DEF UpdatesOK, ToSet
          <5>1. \A k \in DOMAIN shown : \E j \in DOMAIN log : shown[k] = log[j]
            BY <5>0 DEF ToSet
          <5> QED
            BY <2>3, <5>1 DEF UpdatesOK
        <4>2. /\ shown' \in Seq(Nat) /\ Len(shown) \in Nat /\ DOMAIN shown = 1..Len(shown)
              /\ DOMAIN shown' = 1..(Len(shown) + 1)
              /\ \A k \in DOMAIN shown : shown'[k] = shown[k]
              /\ shown'[Len(shown) + 1] = p
          BY <1>e, <3>2, <4>1
        <4>3. \A k \in DOMAIN shown' : k \in DOMAIN shown \/ k = Len(shown) + 1
          BY <4>2
        <4>4. ToSet(shown') \subseteq ToSet(log')
          <5>1. \A k \in DOMAIN shown : shown[k] \in ToSet(shown)
            BY DEF ToSet
          <5>2. \A k \in DOMAIN shown' : shown'[k] \in ToSet(log')
            BY <2>6, <4>2, <4>3, <5>1 DEF UpdatesOK
          <5> QED
            BY <5>2 DEF ToSet
        <4>5. ASSUME NEW i \in DOMAIN shown', NEW j \in DOMAIN shown', i < j PROVE shown'[i] < shown'[j]
          <5>1. i \in DOMAIN shown
            BY <4>2, <4>5
          <5> QED
            BY <4>1, <4>2, <4>3, <4>5, <5>1 DEF UpdatesOK, ShownOnce
        <4> QED
          BY <4>2, <4>4, <4>5
      <3> QED
        BY <2>1, <3>1, <3>2
    <2>9. \A i \in DOMAIN toApp' : IsUpdate(i)' => \A k \in DOMAIN log' : log'[k] < toApp'[i].of
      <3> SUFFICES ASSUME NEW i \in DOMAIN toApp', IsUpdate(i)', NEW k \in DOMAIN log'
                   PROVE  log'[k] < toApp'[i].of
        OBVIOUS
      <3>1. IsUpdate(i + 1) /\ i + 1 \in DOMAIN toApp /\ i + 1 # 1 /\ toApp'[i] = toApp[i + 1]
        BY <1>a, <1>b
      <3>2. p < toApp'[i].of
        BY <1>f, <3>1
      <3>3. k \in DOMAIN log => log[k] < toApp'[i].of
        BY <2>2, <3>1 DEF Fresh
      <3> QED
        BY <2>4, <2>5, <3>2, <3>3
    <2>10. Fresh'
      BY <2>9 DEF Fresh
    <2>11. \A q \in DOMAIN record : Said(q) =>
             q \in ToSet(log') \/ \E i \in DOMAIN toApp' : IsUpdate(i)' /\ toApp'[i].of = q
      <3> SUFFICES ASSUME NEW q \in DOMAIN record, Said(q), q \notin ToSet(log')
                   PROVE  \E i \in DOMAIN toApp' : IsUpdate(i)' /\ toApp'[i].of = q
        OBVIOUS
      <3>1. PICK i \in DOMAIN toApp : IsUpdate(i) /\ toApp[i].of = q
        BY <1>e, <2>6 DEF UpdatesOK
      <3>2. i # 1
        BY <2>6, <3>1
      <3> QED
        BY <1>a, <1>c, <3>1, <3>2
    <2>12. \A q \in DOMAIN record, k \in DOMAIN log' : Said(q) /\ q < log'[k] => q \in ToSet(log')
      <3> SUFFICES ASSUME NEW q \in DOMAIN record, NEW k \in DOMAIN log', Said(q), q < log'[k],
                          q \notin ToSet(log')
                   PROVE  FALSE
        OBVIOUS
      <3>1. k = Len(log) + 1
        BY <2>4, <2>5, <2>6 DEF UpdatesOK
      <3>2. q < p /\ q \in Nat
        BY <1>e, <2>4, <3>1
      <3>3. PICK i \in DOMAIN toApp : IsUpdate(i) /\ toApp[i].of = q
        BY <1>e, <2>6 DEF UpdatesOK
      <3> QED
        BY <1>e, <1>f, <3>2, <3>3
    <2>13. ToSet(log') \subseteq DOMAIN record
      BY <1>e, <2>6 DEF UpdatesOK
    <2>14. UpdatesOK'
      BY <1>1, <1>e, <2>4, <2>7, <2>8, <2>9, <2>10, <2>11, <2>12, <2>13
         DEF UpdatesOK, ShownOnce, Said, IsUpdate
    <2>15. ~Replaying \/ Said(p)
      BY <1>7 DEF Echo, Said
    <2> QED
      BY <2>6, <2>14, <2>15
  <1> QED
    BY <1>5, <1>6, <1>7

\* A session opened for the first time: nothing of it is known.
LEMMA UpdatesOpened ==
  ASSUME UpdatesOK, UNCHANGED <<record, log, shown, attached, toApp, link>>,
         opened = "no", opened' = "opening", link = "online",
         replay' = [first |-> TRUE, index |-> 0, sawRunning |-> FALSE]
  PROVE  UpdatesOK'
  <1>1. log = <<>> /\ shown = <<>> /\ ~attached
    BY DEF UpdatesOK
  <1>2. DOMAIN log' = {}
    BY <1>1, NoFrames
  <1>3. Fresh'
    BY <1>2 DEF Fresh
  <1> QED
    BY <1>1, <1>3 DEF UpdatesOK, ShownOnce, IsUpdate, Said

\* The host replays the session.
LEMMA UpdatesReplayed ==
  ASSUME UpdatesOK, FramesOK, HostOK, StageOK, AppOK, Up, toHost # <<>>, toHost[1].t = "load",
         UNCHANGED <<record, log, shown, replay, opened, link>>, attached' = TRUE,
         NEW F, F = Replayed, Joins(toApp', toApp, F)
  PROVE  UpdatesOK'
  <1>0. 1 \in DOMAIN toHost /\ Stage(toHost[1]) /\ Loading(toHost[1])
    BY Taken DEF Takes, FramesOK, Stage, Loading
  <1>1. replay # None /\ ~attached /\ replay.index = 0
        /\ \A i \in DOMAIN toApp : ~IsUpdate(i) /\ toApp[i].t # "loaded"
    BY <1>0 DEF StageOK, UpdatesOK, IsUpdate, Stage, Loading
  <1>2. /\ IsSeq(F)
        /\ \E m \in DOMAIN F :
               /\ F[m] = Frame("loaded", None, "ok")
               /\ \A i \in DOMAIN F : F[i].t = "loaded" => i = m
               /\ \A p \in DOMAIN record : p < m
        /\ \A p \in DOMAIN record : p \in DOMAIN F /\ F[p] = Frame("update", p, None)
        /\ \A i \in DOMAIN F : F[i].t = "update" => i \in DOMAIN record /\ F[i].of = i
    <2> HIDE DEF Replayed
    <2> QED
      BY Snapshot
  <1>3. PICK m \in DOMAIN F :
               /\ F[m] = Frame("loaded", None, "ok")
               /\ \A i \in DOMAIN F : F[i].t = "loaded" => i = m
               /\ \A p \in DOMAIN record : p < m
    BY <1>2
  <1> DEFINE L == Len(toApp)
  <1>4. /\ L \in Nat /\ \A i \in DOMAIN F : i \in Nat
        /\ Len(record) \in Nat /\ DOMAIN record = 1..Len(record)
    BY <1>2, SeqLength DEF FramesOK, HostOK
  <1>5. \A j \in DOMAIN toApp' : (IsUpdate(j)' \/ toApp'[j].t = "loaded") =>
           \E i \in DOMAIN F : j = L + i /\ toApp'[j] = F[i]
    BY <1>1 DEF Joins, IsUpdate
  <1>6. \A j \in DOMAIN toApp' : IsUpdate(j)' => toApp'[j].of \in DOMAIN record /\ j = L + toApp'[j].of
    BY <1>2, <1>5 DEF IsUpdate
  <1>7. \A j \in DOMAIN toApp' : toApp'[j].t = "loaded" => j = L + m
    BY <1>3, <1>5
  <1>8. \A p \in DOMAIN record : \E i \in DOMAIN toApp' : IsUpdate(i)' /\ toApp'[i].of = p
    <2> TAKE p \in DOMAIN record
    <2>1. p \in DOMAIN F /\ F[p].t = "update" /\ F[p].of = p
      <3>1. p \in DOMAIN F /\ F[p] = Frame("update", p, None)
        BY <1>2
      <3> QED
        BY <3>1 DEF Frame
    <2>2. Len(toApp) + p \in DOMAIN toApp' /\ toApp'[Len(toApp) + p] = F[p]
      BY <2>1 DEF Joins
    <2> QED
      BY <2>1, <2>2 DEF IsUpdate
  <1> HIDE DEF L, Replayed
  <1>9. \A i, j \in DOMAIN toApp' : IsUpdate(i)' /\ IsUpdate(j)' /\ i < j => toApp'[i].of < toApp'[j].of
    BY <1>4, <1>6
  <1>10. \A i, j \in DOMAIN toApp' : toApp'[i].t = "loaded" /\ IsUpdate(j)' => ~(i < j)
    BY <1>3, <1>4, <1>6, <1>7
  <1>11. \A k \in DOMAIN log : log[k] \in DOMAIN record /\ k \in Nat /\ Len(log) \in Nat /\ k <= Len(log)
    <2>1. \A k \in DOMAIN log : log[k] \in ToSet(log)
      BY DEF ToSet
    <2>2. log \in Seq(Nat)
      BY DEF UpdatesOK
    <2> QED
      BY <2>1, <2>2 DEF UpdatesOK
  <1>12. Fresh' \/ (replay' # None /\ ~replay'.first /\ Behind')
    <2>1. CASE DOMAIN log = {}
      <3>1. Fresh'
        BY <2>1 DEF Fresh
      <3> QED
        BY <3>1
    <2>2. CASE DOMAIN log # {}
      <3>1. log # <<>>
        BY <2>2, NoFrames
      <3>2. ~replay.first
        BY <1>1, <3>1 DEF UpdatesOK, StageOK
      <3>3. replay.index < Len(log)
        BY <1>1, <1>11, <2>2, <3>1 DEF UpdatesOK
      <3>4. Behind'
        <4>1. \A j \in DOMAIN log : ~(j <= 0)
          <5>1. log \in Seq(Nat)
            BY DEF UpdatesOK
          <5> QED
            BY <5>1
        <4> QED
          BY <1>1, <1>8, <1>11, <3>3, <4>1 DEF Behind
      <3> QED
        BY <1>1, <3>2, <3>4
    <2> QED
      BY <2>1, <2>2
  <1> QED
    <2>1. opened # "no"
      BY <1>1 DEF StageOK
    <2> QED
      BY <1>8, <1>9, <1>10, <1>12, <2>1 DEF UpdatesOK, ShownOnce, IsUpdate, Said
-----------------------------------------------------------------------------
(* The ends of turns *)

LEMMA SeenKept ==
  ASSUME SeenOK, AppOK, TurnsGoOn, UNCHANGED <<record, running, owner>>,
         ToSet(log') \subseteq ToSet(log)
  PROVE  SeenOK'
  <1> SUFFICES ASSUME NEW n \in DOMAIN owner, NEW i, i = owner[n].of, i # 0
               PROVE  /\ i = cur' /\ obj'[i].ended = None /\ obj'[i].id \in {None, n} =>
                            Of(n)' \cap ToSet(log') \subseteq obj'[i].saw
                      /\ obj'[i].ended # None /\ obj'[i].id = n =>
                            running' # n /\ Of(n)' \subseteq obj'[i].saw
    BY DEF SeenOK
  <1>1. Of(n)' = Of(n)
    BY DEF Of, Said
  <1>2. i \in DOMAIN obj
    BY DEF AppOK, Prompts
  <1>3. i \in DOMAIN obj' /\ Same(obj[i], obj'[i]) /\ (i = cur' => i = cur)
    BY <1>2 DEF TurnsGoOn
  <1> QED
    BY <1>1, <1>3 DEF SeenOK, Same

LEMMA TurnsQuiet ==
  ASSUME TurnsOK, AppOK, StageOK, TurnsGoOn, UNCHANGED <<record, running, owner>>,
         \/ UNCHANGED <<toApp, log>> /\ replay \in {replay', None}
         \/ toApp' = <<>> /\ log' \in {log, <<>>}
  PROVE  TurnsOK'
  <1>1. ToSet(log') \subseteq ToSet(log)
    BY NoFrames DEF ToSet
  <1>2. SeenOK'
    BY <1>1, SeenKept DEF TurnsOK
  <1>3. CASE toApp' = <<>>
    BY <1>2, <1>3, NoFrames DEF TurnsOK, EndedOK, LoadedOK
  <1>4. CASE UNCHANGED <<toApp, log>> /\ replay \in {replay', None}
    <2>1. \A n, j : Over(n, j)' <=> Over(n, j)
      BY <1>4 DEF Over, Before, Of, Said, IsUpdate
    <2>2. EndedOK'
      BY <1>4, <2>1 DEF EndedOK, TurnsOK
    <2>3. \A i \in DOMAIN obj' : obj'[i].id # None => i \in DOMAIN obj /\ obj'[i].id = obj[i].id
      BY DEF TurnsGoOn, Same
    <2>4. ASSUME NEW j \in DOMAIN toApp, toApp[j].t = "loaded" PROVE replay' = replay
      <3>1. replay # None
        BY <2>4 DEF StageOK, Loading
      <3> QED
        BY <1>4, <3>1
    <2>5. LoadedOK'
      <3> SUFFICES ASSUME NEW j \in DOMAIN toApp, toApp[j].t = "loaded", toApp[j].how = "ok"
                   PROVE  \/ replay'.sawRunning
                          \/ \E i \in DOMAIN toApp : i < j /\ toApp[i].t = "running"
                          \/ \A i \in DOMAIN obj' : obj'[i].id # None => Over(obj[i].id, j)'
        BY <1>4 DEF LoadedOK
      <3>1. \/ replay.sawRunning
            \/ \E i \in DOMAIN toApp : i < j /\ toApp[i].t = "running"
            \/ \A i \in DOMAIN obj : obj[i].id # None => Over(obj[i].id, j)
        BY DEF TurnsOK, LoadedOK
      <3>2. CASE \A i \in DOMAIN obj : obj[i].id # None => Over(obj[i].id, j)
        <4>1. \A i \in DOMAIN obj' : obj'[i].id # None => Over(obj'[i].id, j)
          BY <2>3, <3>2
        <4>2. \A i \in DOMAIN obj' : obj'[i].id # None => Over(obj[i].id, j)'
          BY <1>4, <4>1 DEF Over, Before, Of, Said, IsUpdate
        <4> QED
          BY <4>2
      <3> QED
        BY <2>4, <3>1, <3>2
    <2> QED
      BY <1>2, <2>2, <2>5 DEF TurnsOK
  <1> QED
    BY <1>3, <1>4

\* What the host tells of a turn that is over comes after what was said in it.
Heard(n, F, j) ==
  /\ running' # n
  /\ \A p \in Of(n)' : \/ p \in ToSet(log)
                       \/ \E i \in DOMAIN toApp : IsUpdate(i) /\ toApp[i].of = p
                       \/ \E i \in DOMAIN F : i < j /\ F[i].t = "update" /\ F[i].of = p
Reports(F) ==
  /\ UNCHANGED <<log, replay, obj, cur>>
  /\ Joins(toApp', toApp, F)
  /\ DOMAIN owner \subseteq DOMAIN owner' /\ \A n \in DOMAIN owner : owner'[n] = owner[n]
  /\ \A n \in DOMAIN owner' : n \in Nat /\ (owner'[n].of = 0 \/ owner'[n].of \in Prompts)
  /\ DOMAIN record \subseteq DOMAIN record' /\ \A p \in DOMAIN record : record'[p] = record[p]
  /\ \A n \in DOMAIN owner : running # n =>
        running' # n /\ \A p \in DOMAIN record' \ DOMAIN record : record'[p].turn # n
  /\ \A j \in DOMAIN F : F[j].t = "ended" => Heard(F[j].of, F, j)
  /\ \A j \in DOMAIN F : F[j].t = "loaded" /\ F[j].how = "ok" =>
        \/ \E i \in DOMAIN F : i < j /\ F[i].t = "running"
        \/ \A i \in DOMAIN obj : obj[i].id # None => Heard(obj[i].id, F, j)

LEMMA TurnsTold ==
  ASSUME TurnsOK, HostOK, AppOK, FramesOK, ToSet(log) \subseteq DOMAIN record,
         NEW F, IsSeq(F), Reports(F)
  PROVE  TurnsOK'
  <1>a. /\ log' = log /\ replay' = replay /\ obj' = obj /\ cur' = cur
        /\ \A i \in DOMAIN toApp : i \in Nat
        /\ \A i \in DOMAIN F : i \in Nat
        /\ Len(toApp) \in Nat
    BY SeqLength DEF Reports, FramesOK
  <1>b. \A i \in DOMAIN toApp : i \in DOMAIN toApp' /\ toApp'[i] = toApp[i] /\ (IsUpdate(i)' <=> IsUpdate(i))
    BY DEF Reports, Joins, IsUpdate
  <1>c. \A j \in DOMAIN toApp' : j \in DOMAIN toApp
           \/ \E i \in DOMAIN F : j = Len(toApp) + i /\ toApp'[j] = F[i]
    BY DEF Reports, Joins
  <1>d. \A i \in DOMAIN F : Len(toApp) + i \in DOMAIN toApp' /\ toApp'[Len(toApp) + i] = F[i]
    BY DEF Reports, Joins
  <1>e. \A i \in DOMAIN toApp, j \in DOMAIN F : i < Len(toApp) + j
    BY DEF Reports, Joins
  \* A turn that is over stays so.
  <1>1. ASSUME NEW n \in DOMAIN owner, running # n
        PROVE  running' # n /\ Of(n)' = Of(n)
    BY <1>1 DEF Reports, Of, Said
  <1>2. ASSUME NEW n \in DOMAIN owner, NEW j \in DOMAIN toApp, Over(n, j)
        PROVE  Over(n, j)'
    <2>1. running' # n /\ Of(n)' = Of(n)
      BY <1>1, <1>2 DEF Over
    <2>2. Before(n, j)
      BY <1>2 DEF Over
    <2>3. Before(n, j)'
      BY <1>a, <1>b, <2>1, <2>2 DEF Before
    <2> QED
      BY <2>1, <2>3 DEF Over
  <1>3. ASSUME NEW n, NEW j \in DOMAIN F, Heard(n, F, j), NEW k, k = Len(toApp) + j
        PROVE  Over(n, k)'
    <2>1. ASSUME NEW p \in Of(n)', p \notin ToSet(log)
          PROVE  \E i \in DOMAIN toApp' : i < k /\ IsUpdate(i)' /\ toApp'[i].of = p
      <3>1. CASE \E i \in DOMAIN toApp : IsUpdate(i) /\ toApp[i].of = p
        BY <1>3, <1>b, <1>e, <3>1
      <3>2. CASE \E i \in DOMAIN F : i < j /\ F[i].t = "update" /\ F[i].of = p
        <4>1. PICK i \in DOMAIN F : i < j /\ F[i].t = "update" /\ F[i].of = p
          BY <3>2
        <4>2. Len(toApp) + i < k
          BY <1>3, <1>a, <4>1
        <4> DEFINE x == Len(toApp) + i
        <4>3. x \in DOMAIN toApp' /\ toApp'[x] = F[i] /\ x < k
          BY <1>d, <4>2
        <4> HIDE DEF x
        <4>4. PICK y \in DOMAIN toApp' : toApp'[y] = F[i] /\ y < k
          BY <4>3
        <4> QED
          BY <4>1, <4>4 DEF IsUpdate
      <3> QED
        BY <1>3, <2>1, <3>1, <3>2 DEF Heard
    <2>2. running' # n
      BY <1>3 DEF Heard
    <2>3. Before(n, k)'
      BY <1>a, <2>1 DEF Before
    <2> QED
      BY <2>2, <2>3 DEF Over
  <1>4. EndedOK'
    <2> SUFFICES ASSUME NEW j \in DOMAIN toApp', toApp'[j].t = "ended", NEW n, n = toApp'[j].of
                 PROVE  Over(n, j)'
      BY DEF EndedOK, Over, Before, Of, IsUpdate, Said
    <2>1. CASE j \in DOMAIN toApp
      <3>1. n \in DOMAIN owner /\ Over(n, j)
        BY <1>b, <2>1 DEF TurnsOK, EndedOK, FramesOK, AppFrame
      <3> QED
        BY <1>2, <2>1, <3>1
    <2>2. CASE j \notin DOMAIN toApp
      <3>1. PICK i \in DOMAIN F : j = Len(toApp) + i /\ toApp'[j] = F[i]
        BY <1>c, <2>2
      <3>2. Heard(n, F, i)
        BY <3>1 DEF Reports
      <3> QED
        BY <1>3, <3>1, <3>2
    <2> QED
      BY <2>1, <2>2
  <1>5. LoadedOK'
    <2> SUFFICES ASSUME NEW j \in DOMAIN toApp', toApp'[j].t = "loaded", toApp'[j].how = "ok"
                 PROVE  \/ replay.sawRunning
                        \/ \E i \in DOMAIN toApp' : i < j /\ toApp'[i].t = "running"
                        \/ \A i \in DOMAIN obj : obj[i].id # None => Over(obj[i].id, j)'
      BY <1>a DEF LoadedOK
    <2>0. ASSUME \A i \in DOMAIN obj : obj[i].id # None =>
                    \A n : n = obj[i].id => Over(n, j)'
          PROVE  \A i \in DOMAIN obj : obj[i].id # None => Over(obj[i].id, j)'
      BY <1>a, <2>0 DEF Over, Before, Of, IsUpdate, Said
    <2>1. CASE j \in DOMAIN toApp
      <3>1. toApp[j].t = "loaded" /\ toApp[j].how = "ok"
        BY <1>b, <2>1
      <3>2. CASE \A i \in DOMAIN obj : obj[i].id # None => Over(obj[i].id, j)
        <4>1. ASSUME NEW i \in DOMAIN obj, obj[i].id # None, NEW n, n = obj[i].id
              PROVE  Over(n, j)'
          <5>1. n \in DOMAIN owner /\ Over(n, j)
            BY <3>2, <4>1 DEF AppOK
          <5> QED
            BY <1>2, <2>1, <5>1
        <4> QED
          BY <2>0, <4>1
      <3>3. CASE \E i \in DOMAIN toApp : i < j /\ toApp[i].t = "running"
        BY <1>b, <3>3
      <3> QED
        BY <2>1, <3>1, <3>2, <3>3 DEF TurnsOK, LoadedOK
    <2>2. CASE j \notin DOMAIN toApp
      <3>1. PICK x \in DOMAIN F : j = Len(toApp) + x /\ toApp'[j] = F[x]
        BY <1>c, <2>2
      <3>2. CASE \A i \in DOMAIN obj : obj[i].id # None => Heard(obj[i].id, F, x)
        <4>1. ASSUME NEW i \in DOMAIN obj, obj[i].id # None, NEW n, n = obj[i].id
              PROVE  Over(n, j)'
          BY <1>3, <3>1, <3>2, <4>1
        <4> QED
          BY <2>0, <4>1
      <3>3. CASE \E i \in DOMAIN F : i < x /\ F[i].t = "running"
        <4>1. PICK i \in DOMAIN F : i < x /\ F[i].t = "running"
          BY <3>3
        <4>2. PICK y \in DOMAIN toApp' : y = Len(toApp) + i /\ toApp'[y] = F[i]
          BY <1>d
        <4>3. y < j
          BY <1>a, <3>1, <4>1, <4>2
        <4> QED
          BY <4>1, <4>2, <4>3
      <3> QED
        BY <3>1, <3>2, <3>3 DEF Reports
    <2> QED
      BY <2>1, <2>2
  <1>6. SeenOK'
    <2> SUFFICES ASSUME NEW n \in DOMAIN owner', NEW i, i = owner'[n].of, i # 0
                 PROVE  /\ i = cur /\ obj[i].ended = None /\ obj[i].id \in {None, n} =>
                              Of(n)' \cap ToSet(log) \subseteq obj[i].saw
                        /\ obj[i].ended # None /\ obj[i].id = n =>
                              running' # n /\ Of(n)' \subseteq obj[i].saw
      BY <1>a DEF SeenOK
    <2>1. Of(n)' \cap ToSet(log) = Of(n) \cap ToSet(log)
      BY DEF Reports, Of, Said
    <2>2. CASE n \in DOMAIN owner
      <3>1. i = owner[n].of
        BY <2>2 DEF Reports
      <3>2. obj[i].ended # None /\ obj[i].id = n => running # n /\ Of(n) \subseteq obj[i].saw
        BY <2>2, <3>1 DEF TurnsOK, SeenOK
      <3>3. i = cur /\ obj[i].ended = None /\ obj[i].id \in {None, n} =>
               Of(n) \cap ToSet(log) \subseteq obj[i].saw
        BY <2>2, <3>1 DEF TurnsOK, SeenOK
      <3> QED
        BY <1>1, <2>1, <2>2, <3>2, <3>3
    <2>3. CASE n \notin DOMAIN owner
      <3>1. Of(n) = {}
        BY <2>3 DEF Of, HostOK
      <3>2. i \in DOMAIN obj /\ n \in Nat
        BY DEF Reports, Prompts
      <3>3. obj[i].id # n
        BY <2>3, <3>2, NoneIs DEF AppOK
      <3> QED
        BY <2>1, <3>1, <3>3
    <2> QED
      BY <2>2, <2>3
  <1> QED
    BY <1>4, <1>5, <1>6 DEF TurnsOK

\* A frame taken: what was told of ends before it, and is in the log.
LEMMA EndsTaken ==
  ASSUME TurnsOK, FramesOK, Takes(toApp', toApp), UNCHANGED <<record, running>>,
         ToSet(log) \subseteq ToSet(log'),
         toApp[1].t = "update" /\ Said(toApp[1].of) => toApp[1].of \in ToSet(log'),
         \A j \in DOMAIN toApp' : toApp'[j].t = "loaded" =>
            (replay.sawRunning \/ toApp[1].t = "running" => replay'.sawRunning),
         \A i \in DOMAIN obj' : obj'[i].id # None =>
            \/ i \in DOMAIN obj /\ obj'[i].id = obj[i].id
            \/ \A n : n = obj'[i].id => Over(n, 1)
            \/ toApp[1].t = "running"
  PROVE  EndedOK' /\ LoadedOK'
  <1>a. /\ \A i \in DOMAIN toApp' : i \in Nat \ {0} /\ i + 1 \in DOMAIN toApp /\ toApp'[i] = toApp[i + 1]
        /\ \A i \in DOMAIN toApp : i \in Nat \ {0} /\ (i # 1 => i - 1 \in DOMAIN toApp' /\ toApp'[i - 1] = toApp[i])
        /\ 1 \in DOMAIN toApp
    BY DEF Takes
  <1>1. ASSUME NEW n, NEW k \in Nat, Over(n, k), NEW j \in DOMAIN toApp', k <= j + 1
        PROVE  Over(n, j)'
    <2>1. Of(n)' = Of(n) /\ running' = running
      BY DEF Of, Said
    <2>2. ASSUME NEW p \in Of(n), p \notin ToSet(log')
          PROVE  \E i \in DOMAIN toApp' : i < j /\ IsUpdate(i)' /\ toApp'[i].of = p
      <3>1. PICK i \in DOMAIN toApp : i < k /\ IsUpdate(i) /\ toApp[i].of = p
        BY <1>1, <2>2 DEF Over, Before
      <3>2. Said(p)
        BY DEF Of
      <3>3. i # 1
        BY <2>2, <3>1, <3>2 DEF IsUpdate
      <3>4. i - 1 \in DOMAIN toApp' /\ toApp'[i - 1] = toApp[i] /\ i - 1 < j
        BY <1>1, <1>a, <3>1, <3>3
      <3> QED
        BY <3>1, <3>4 DEF IsUpdate
    <2>3. Before(n, j)'
      BY <2>1, <2>2 DEF Before
    <2> QED
      BY <1>1, <2>1, <2>3 DEF Over
  <1>2. EndedOK'
    <2> SUFFICES ASSUME NEW j \in DOMAIN toApp', toApp'[j].t = "ended", NEW n, n = toApp'[j].of
                 PROVE  Over(n, j)'
      BY DEF EndedOK, Over, Before, Of, IsUpdate, Said
    <2>1. j + 1 \in DOMAIN toApp /\ j + 1 \in Nat /\ j + 1 <= j + 1 /\ toApp[j + 1].t = "ended" /\ n = toApp[j + 1].of
      BY <1>a
    <2>2. Over(n, j + 1)
      BY <2>1 DEF TurnsOK, EndedOK
    <2> QED
      BY <1>1, <2>1, <2>2
  <1>3. LoadedOK'
    <2> SUFFICES ASSUME NEW j \in DOMAIN toApp', toApp'[j].t = "loaded", toApp'[j].how = "ok",
                        ~replay'.sawRunning,
                        ~\E i \in DOMAIN toApp' : i < j /\ toApp'[i].t = "running",
                        NEW i \in DOMAIN obj', obj'[i].id # None, NEW n, n = obj'[i].id
                 PROVE  Over(n, j)'
      BY DEF LoadedOK, Over, Before, Of, IsUpdate, Said
    <2>1. j + 1 \in DOMAIN toApp /\ j + 1 \in Nat /\ j + 1 <= j + 1 /\ 1 <= j + 1 /\ j \in Nat
          /\ toApp[j + 1].t = "loaded" /\ toApp[j + 1].how = "ok"
      BY <1>a
    <2>2. ~replay.sawRunning /\ toApp[1].t # "running"
      OBVIOUS
    <2>3. ~\E x \in DOMAIN toApp : x < j + 1 /\ toApp[x].t = "running"
      <3> SUFFICES ASSUME NEW x \in DOMAIN toApp, x < j + 1, toApp[x].t = "running" PROVE FALSE
        OBVIOUS
      <3>1. x # 1
        BY <2>2
      <3>2. x - 1 \in DOMAIN toApp' /\ toApp'[x - 1] = toApp[x] /\ x - 1 < j
        BY <1>a, <2>1, <3>1
      <3> QED
        BY <3>2
    <2>4. \A x \in DOMAIN obj : obj[x].id # None => Over(obj[x].id, j + 1)
      BY <2>1, <2>2, <2>3 DEF TurnsOK, LoadedOK
    <2>5. CASE i \in DOMAIN obj /\ obj'[i].id = obj[i].id
      <3>1. Over(n, j + 1)
        BY <2>4, <2>5
      <3> QED
        BY <1>1, <2>1, <3>1
    <2>6. CASE \A m : m = obj'[i].id => Over(m, 1)
      <3>1. Over(n, 1)
        BY <2>6
      <3> QED
        BY <1>1, <2>1, <3>1
    <2> QED
      BY <2>2, <2>5, <2>6
  <1> QED
    BY <1>2, <1>3

LEMMA CurOwns ==
  ASSUME AppOK, NEW n \in DOMAIN owner, owner[n].of # 0
  PROVE  owner[n].of \in DOMAIN obj /\ obj[owner[n].of].local /\ opened = "open"
  BY DEF AppOK, Prompts

\* An update streams into the session's turn.
LEMMA SeenStreams ==
  ASSUME SeenOK, AppOK, UNCHANGED <<record, running, owner, cur>>, NEW p,
         ToSet(log') \subseteq ToSet(log) \cup {p},
         IF opened = "opening" THEN UNCHANGED obj ELSE Streams(p)
  PROVE  SeenOK'
  <1> SUFFICES ASSUME NEW n \in DOMAIN owner, NEW i, i = owner[n].of, i # 0
               PROVE  /\ i = cur /\ obj'[i].ended = None /\ obj'[i].id \in {None, n} =>
                            Of(n)' \cap ToSet(log') \subseteq obj'[i].saw
                      /\ obj'[i].ended # None /\ obj'[i].id = n =>
                            running' # n /\ Of(n)' \subseteq obj'[i].saw
    BY DEF SeenOK
  <1>1. Of(n)' = Of(n)
    BY DEF Of, Said
  <1>2. i \in DOMAIN obj /\ opened = "open"
    BY CurOwns
  <1>3. obj[i] \in Object
    BY <1>2, EachSound DEF Sound
  <1>4. CASE i # cur
    <2>1. obj'[i] = obj[i]
      BY <1>2, <1>4 DEF Streams
    <2> QED
      BY <1>1, <1>4, <2>1 DEF SeenOK
  <1>5. CASE i = cur
    <2>1. obj'[i] = [obj[i] EXCEPT !.saw = @ \cup {p}]
      BY <1>2, <1>5, EachSound DEF Streams
    <2>2. obj'[i].saw = obj[i].saw \cup {p} /\ obj'[i].id = obj[i].id /\ obj'[i].ended = obj[i].ended
      BY <1>3, <2>1 DEF Object
    <2> QED
      BY <1>1, <1>5, <2>2 DEF SeenOK
  <1> QED
    BY <1>4, <1>5

LEMMA TurnAppended ==
  ASSUME AppOK, NEW x \in Object, obj' = Append(obj, x)
  PROVE  /\ obj' \in Seq(Object) /\ Len(obj') = Len(obj) + 1 /\ Len(obj) \in Nat
         /\ DOMAIN obj = 1..Len(obj) /\ DOMAIN obj' = 1..(Len(obj) + 1)
         /\ obj'[Len(obj) + 1] = x /\ \A i \in DOMAIN obj : obj'[i] = obj[i] /\ i # Len(obj) + 1
  BY EachSound

\* A turn runs: the session's, or one of another device.
LEMMA SeenRuns ==
  ASSUME SeenOK, AppOK, HostOK, UNCHANGED <<record, running, owner, log>>, NEW n \in DOMAIN owner,
         IF Mine(n) THEN obj' = [obj EXCEPT ![cur].id = n] /\ UNCHANGED cur
         ELSE obj' = Append(obj, NewTurn(FALSE, n)) /\ cur' = Len(obj) + 1
  PROVE  SeenOK'
  <1> SUFFICES ASSUME NEW m \in DOMAIN owner, NEW i, i = owner[m].of, i # 0
               PROVE  /\ i = cur' /\ obj'[i].ended = None /\ obj'[i].id \in {None, m} =>
                            Of(m)' \cap ToSet(log') \subseteq obj'[i].saw
                      /\ obj'[i].ended # None /\ obj'[i].id = m =>
                            running' # m /\ Of(m)' \subseteq obj'[i].saw
    BY DEF SeenOK
  <1>1. Of(m)' = Of(m)
    BY DEF Of, Said
  <1>2. i \in DOMAIN obj /\ obj[i] \in Object
    BY CurOwns, EachSound DEF Sound
  <1>3. CASE Mine(n) /\ i = cur
    <2>1. obj'[i] = [obj[i] EXCEPT !.id = n] /\ cur' = cur
      BY <1>2, <1>3, EachSound
    <2>2. obj'[i].saw = obj[i].saw /\ obj'[i].id = n /\ obj'[i].ended = obj[i].ended
      BY <1>2, <2>1 DEF Object
    <2>3. obj[i].id = None => obj[i].ended = None
      BY <1>2 DEF AppOK
    <2>4. obj[i].id \in {None, n}
      BY <1>3 DEF Mine
    <2>5. n # None
      BY NoneIs, EachOwner
    <2> QED
      BY <1>1, <1>3, <2>1, <2>2, <2>3, <2>4, <2>5 DEF SeenOK
  <1>4. CASE ~(Mine(n) /\ i = cur)
    <2>1. obj'[i] = obj[i] /\ (cur' = i => cur = i)
      <3>1. CASE Mine(n)
        BY <1>2, <1>4, <3>1, EachSound
      <3>2. CASE ~Mine(n)
        <4>1. NewTurn(FALSE, n) \in Object
          BY EachOwner, Starting DEF Sound
        <4> QED
          BY <1>2, <3>2, <4>1, TurnAppended
      <3> QED
        BY <3>1, <3>2
    <2> QED
      BY <1>1, <2>1 DEF SeenOK
  <1> QED
    BY <1>3, <1>4

\* The session's turn ended, and all that was said in it is in the log.
LEMMA SeenCloses ==
  ASSUME SeenOK, AppOK, UNCHANGED <<record, running, owner, log>>, NEW n \in DOMAIN owner,
         cur # 0, obj[cur].id \in {None, n}, NEW r, Closed(obj[cur], r, n),
         running # n, Of(n) \subseteq ToSet(log),
         obj' = [obj EXCEPT ![cur] = r], cur' \in {0, cur}
  PROVE  SeenOK'
  <1> SUFFICES ASSUME NEW m \in DOMAIN owner, NEW i, i = owner[m].of, i # 0
               PROVE  /\ i = cur' /\ obj'[i].ended = None /\ obj'[i].id \in {None, m} =>
                            Of(m)' \cap ToSet(log') \subseteq obj'[i].saw
                      /\ obj'[i].ended # None /\ obj'[i].id = m =>
                            running' # m /\ Of(m)' \subseteq obj'[i].saw
    BY DEF SeenOK
  <1>1. Of(m)' = Of(m)
    BY DEF Of, Said
  <1>2. i \in DOMAIN obj /\ obj[i] \in Object
    BY CurOwns, EachSound DEF Sound
  <1>3. CASE i = cur
    <2>1. obj'[i] = r
      BY <1>2, <1>3, EachSound
    <2>2. r.id = n /\ r.saw = obj[i].saw /\ r.ended # None
      BY <1>3, NoneIs DEF Closed
    <2>3. obj[i].id = None => obj[i].ended = None
      BY <1>2 DEF AppOK
    <2>4. ASSUME m = n PROVE Of(m) \subseteq obj[i].saw
      BY <1>3, <2>3, <2>4 DEF SeenOK
    <2> QED
      BY <1>1, <2>1, <2>2, <2>4
  <1>4. CASE i # cur
    <2>1. obj'[i] = obj[i]
      BY <1>2, <1>4, EachSound
    <2>2. cur' # i
      BY <1>4
    <2> QED
      BY <1>1, <2>1, <2>2 DEF SeenOK
  <1> QED
    BY <1>3, <1>4

\* One turn becomes r.
LEMMA AppTurn ==
  ASSUME AppOK, UNCHANGED <<record, owner, requests, ids, link, opened>>, NEW c \in DOMAIN obj, NEW r,
         obj' = [obj EXCEPT ![c] = r], cur' \in {0, cur}, replay' \in Replays \cup {None},
         Sound(r), r.local = obj[c].local, r.id \in DOMAIN owner \cup {None},
         r.saw \subseteq DOMAIN record, r.ended # None => r.id # None
  PROVE  AppOK' /\ Grows
  <1>1. obj' \in Seq(Object) /\ Len(obj') = Len(obj) /\ DOMAIN obj' = DOMAIN obj
    BY EachSound DEF Sound
  <1>2. \A i \in DOMAIN obj : obj'[i] = IF i = c THEN r ELSE obj[i]
    BY EachSound
  <1>3. Prompts' = Prompts
    BY <1>1, <1>2 DEF Prompts
  <1>4. ASSUME NEW i \in DOMAIN obj'
        PROVE  /\ obj'[i].id \in DOMAIN owner \cup {None}
               /\ obj'[i].saw \subseteq DOMAIN record
               /\ obj'[i].finished = "done" => obj'[i].ended # None
               /\ obj'[i].ended # None => obj'[i].id # None
               /\ obj'[i].local => opened' = "open"
    BY <1>1, <1>2 DEF AppOK, Sound
  <1>5. cur' \in 0..Len(obj')
    BY <1>1, EachSound
  <1>6. AppOK'
    BY <1>1, <1>3, <1>4, <1>5 DEF AppOK
  <1> QED
    BY <1>3, <1>6 DEF Grows

\* Another device's turn joins.
LEMMA AppJoins ==
  ASSUME AppOK, HostOK, UNCHANGED <<record, owner, requests, ids, link, opened>>, NEW n \in DOMAIN owner,
         obj' = Append(obj, NewTurn(FALSE, n)), cur' = Len(obj) + 1, replay' \in Replays \cup {None}
  PROVE  AppOK' /\ Grows
  <1> DEFINE x == NewTurn(FALSE, n)
  <1>0. obj' = Append(obj, x)
    OBVIOUS
  <1>1. /\ x \in Object /\ ~x.local /\ x.id = n /\ x.ended = None /\ x.saw = {} /\ x.finished = None
    BY EachOwner, Starting DEF Sound
  <1> HIDE DEF x
  <1>2. obj' \in Seq(Object) /\ Len(obj') = Len(obj) + 1 /\ Len(obj) \in Nat /\ DOMAIN obj = 1..Len(obj)
        /\ DOMAIN obj' = 1..(Len(obj) + 1) /\ obj'[Len(obj) + 1] = x
        /\ \A i \in DOMAIN obj : obj'[i] = obj[i]
    BY <1>0, <1>1, TurnAppended
  <1>3. \A i \in DOMAIN obj' : i \in DOMAIN obj \/ i = Len(obj) + 1
    BY <1>2
  <1>4. Prompts' = Prompts
    <2>1. \A i \in DOMAIN obj' : obj'[i].local => i \in DOMAIN obj /\ obj[i].local
      BY <1>1, <1>2, <1>3
    <2>2. \A i \in DOMAIN obj : i \in DOMAIN obj' /\ obj'[i] = obj[i]
      BY <1>2
    <2> QED
      BY <2>1, <2>2 DEF Prompts
  <1>5. ASSUME NEW i \in DOMAIN obj'
        PROVE  /\ obj'[i].id \in DOMAIN owner \cup {None}
               /\ obj'[i].saw \subseteq DOMAIN record
               /\ obj'[i].finished = "done" => obj'[i].ended # None
               /\ obj'[i].ended # None => obj'[i].id # None
               /\ obj'[i].local => opened' = "open"
    <2>1. CASE i \in DOMAIN obj
      BY <1>2, <2>1 DEF AppOK
    <2>2. CASE i = Len(obj) + 1
      <3>1. obj'[i] = x
        BY <1>2, <2>2
      <3> QED
        BY <1>1, <3>1, NoneIs DEF Ends
    <2> QED
      BY <1>3, <2>1, <2>2
  <1>6. cur' \in 0..Len(obj')
    BY <1>2
  <1>7. AppOK'
    BY <1>2, <1>4, <1>5, <1>6 DEF AppOK
  <1> QED
    BY <1>4, <1>7 DEF Grows
-----------------------------------------------------------------------------
(* The app's steps *)

LEMMA HostStays ==
  ASSUME HostOK, UNCHANGED <<record, running, last, owner, asked>>, attached' \in BOOLEAN, losses' \in Nat
  PROVE  HostOK'
  BY DEF HostOK

LEMMA Bound ==
  ASSUME ClientInv
  PROVE  /\ IsSeq(toApp) /\ IsSeq(toHost) /\ attached \in BOOLEAN /\ losses \in Nat
         /\ replay \in Replays \cup {None} /\ ids \subseteq requests /\ requests \subseteq Asks
         /\ link \in {"away", "resuming", "online", "stuck", "failed", "closed"}
         /\ opened \in {"no", "opening", "open"}
         /\ HostOK /\ AppOK /\ FramesOK /\ StageOK /\ UpdatesOK /\ TurnsOK
         /\ ToSet(log) \subseteq DOMAIN record
  <1>1. HostOK /\ AppOK /\ FramesOK /\ StageOK /\ UpdatesOK /\ TurnsOK
    BY DEF ClientInv
  <1> QED
    BY <1>1 DEF HostOK, AppOK, FramesOK, UpdatesOK

LEMMA Sent ==
  ASSUME IsSeq(toHost), NEW f, toHost' = toHost \o <<f>>
  PROVE  /\ IsSeq(toHost')
         /\ \A i \in DOMAIN toHost : i \in Nat /\ i \in DOMAIN toHost' /\ toHost'[i] = toHost[i]
         /\ \A i \in DOMAIN toHost' : \/ i \in DOMAIN toHost /\ toHost'[i] = toHost[i]
                                      \/ i = Len(toHost) + 1 /\ toHost'[i] = f
  <1>1. Joins(toHost', toHost, <<f>>)
    BY One, Joined
  <1>2. \A i \in DOMAIN toHost : i \in Nat
    BY SeqLength
  <1> QED
    BY <1>1, <1>2, One DEF Joins

\* The app, or a timer, goes on; it may send the host a frame.
Quietly ==
  /\ TurnsGoOn
  /\ UNCHANGED <<hostVars, toApp, link, opened, log, replay, shown, losses>>
  /\ requests' = requests /\ ids' = ids
  /\ \/ UNCHANGED toHost
     \/ Up /\ \E f : HostFrame(f)' /\ ~Stage(f) /\ toHost' = toHost \o <<f>>

LEMMA QuietStep ==
  ASSUME ClientInv, Quietly
  PROVE  ClientInv'
  <1>0. HostOK /\ AppOK /\ FramesOK /\ StageOK /\ UpdatesOK /\ TurnsOK
    BY Bound
  <1>a. /\ TurnsGoOn /\ UNCHANGED <<record, running, last, owner, asked, attached, losses>>
        /\ UNCHANGED <<toApp, link, opened, log, replay, shown, requests, ids>>
    BY DEF Quietly, hostVars
  <1>1. HostOK'
    BY <1>0, <1>a, HostStays, Bound
  <1>2. AppOK' /\ Grows
    <2>1. AppOK'
      BY <1>0, <1>a, AppGoesOn, Bound
    <2> QED
      BY <2>1, <1>a, PromptsGrow DEF Grows
  <1>b. /\ IsSeq(toApp') /\ IsSeq(toHost')
        /\ \A i \in DOMAIN toHost' : \/ i \in DOMAIN toHost /\ toHost'[i] = toHost[i]
                                     \/ HostFrame(toHost[i])' /\ ~Stage(toHost'[i])
        /\ ~Up => toHost' = toHost
    <2>1. CASE UNCHANGED toHost
      BY <1>a, <2>1, Bound
    <2>2. CASE Up /\ \E f : HostFrame(f)' /\ ~Stage(f) /\ toHost' = toHost \o <<f>>
      <3>1. PICK f : HostFrame(f)' /\ ~Stage(f) /\ toHost' = toHost \o <<f>>
        BY <2>2
      <3>2. \A i \in DOMAIN toHost' : toHost'[i] = f => HostFrame(toHost[i])'
        BY <3>1 DEF HostFrame
      <3> QED
        BY <1>a, <2>2, <3>1, <3>2, Sent, Bound
    <2> QED
      BY <2>1, <2>2 DEF Quietly
  <1>3. FramesOK'
    BY <1>0, <1>2, <1>a, <1>b, FramesKept
  <1>4. StageOK'
    <2>1. StageStays
      BY <1>a DEF StageStays
    <2>2. \A i \in DOMAIN toHost' : Stage(toHost'[i]) => i + 0 \in DOMAIN toHost /\ toHost[i + 0] = toHost'[i]
      <3>1. \A i \in DOMAIN toHost : i + 0 = i
        BY SeqLength, Bound
      <3> QED
        BY <1>b, <3>1
    <2>3. \A i \in DOMAIN toApp' : Stage(toApp'[i]) => i + 0 \in DOMAIN toApp /\ toApp[i + 0] = toApp'[i]
      <3>1. \A i \in DOMAIN toApp : i + 0 = i
        BY SeqLength, Bound
      <3> QED
        BY <1>a, <3>1
    <2>4. ~Up => toHost' = <<>> /\ toApp' = <<>>
      BY <1>0, <1>a, <1>b DEF StageOK
    <2> QED
      BY <1>0, <1>b, <2>1, <2>2, <2>3, <2>4, StageShift
  <1>5. UpdatesOK'
    BY <1>0, <1>a, UpdatesStay
  <1>6. TurnsOK'
    BY <1>0, <1>a, TurnsQuiet
  <1> QED
    BY <1>1, <1>2, <1>3, <1>4, <1>5, <1>6 DEF ClientInv

LEMMA PromptStep ==
  ASSUME ClientInv, Prompt
  PROVE  ClientInv'
  <1> DEFINE o == NewTurn(TRUE, None)
             x == IF link \in {"failed", "closed"} THEN Responded(o, "error")
                  ELSE [o EXCEPT !.sent = IF link = "online" THEN losses ELSE None]
  <1>0. AppOK /\ losses \in Nat
    BY Bound
  <1>1. Sound(o) /\ o.id = None
    BY Starting
  <1>2. Same(o, x)
    <2>1. CASE link \in {"failed", "closed"}
      <3>1. Same(o, Responded(o, "error"))
        BY <1>1, Goes_on DEF Ends
      <3> QED
        BY <2>1, <3>1
    <2>2. CASE link \notin {"failed", "closed"}
      <3>1. x = [o EXCEPT !.sent = IF link = "online" THEN losses ELSE None]
        BY <2>2
      <3> HIDE DEF o, x
      <3> QED
        BY <1>0, <1>1, <3>1 DEF Sound, Same, Object
    <2> QED
      BY <2>1, <2>2
  <1>3. /\ obj' = Append(obj, x) /\ cur' \in {cur, Len(obj) + 1}
        /\ opened = "open" /\ opened' = opened
        /\ UNCHANGED toHost \/ (Up /\ toHost' = toHost \o <<Frame("prompt", Len(obj) + 1, None)>>)
        /\ UNCHANGED <<hostVars, toApp, link, opened, log, replay, shown, losses>>
        /\ requests' = requests /\ ids' = ids
    <2>1. CASE link \in {"failed", "closed"}
      BY <2>1 DEF Prompt, askVars
    <2>2. CASE link \notin {"failed", "closed"}
      BY <2>2 DEF Prompt, askVars, Sends, Up
    <2> QED
      BY <2>1, <2>2
  <1> HIDE DEF x, o
  <1>4. TurnsGoOn
    BY <1>0, <1>2, <1>3, TurnAdded DEF o
  <1>5. Len(obj) + 1 \in Prompts'
    <2>1. x \in Object /\ x.local
      BY <1>2, Starting DEF Same, o
    <2>2. Len(obj) + 1 \in DOMAIN obj' /\ obj'[Len(obj) + 1] = x
      BY <1>0, <1>3, <2>1, TurnAppended
    <2> QED
      BY <2>1, <2>2 DEF Prompts
  <1>6. Quietly
    <2>1. CASE UNCHANGED toHost
      BY <1>3, <1>4, <2>1 DEF Quietly
    <2>2. CASE Up /\ toHost' = toHost \o <<Frame("prompt", Len(obj) + 1, None)>>
      <3> DEFINE f == Frame("prompt", Len(obj) + 1, None)
      <3>1. \A g : g = f => HostFrame(g)' /\ ~Stage(g)
        BY <1>5 DEF HostFrame, Frame, Stage, Loading, Looking
      <3>2. \E g : HostFrame(g)' /\ ~Stage(g) /\ toHost' = toHost \o <<g>>
        BY <2>2, <3>1
      <3> QED
        BY <1>3, <1>4, <2>2, <3>2 DEF Quietly
    <2> QED
      BY <1>3, <2>1, <2>2
  <1> QED
    BY <1>6, QuietStep

LEMMA SendWaitingStep ==
  ASSUME ClientInv, NEW i \in Prompts, SendWaiting(i)
  PROVE  ClientInv'
  <1>0. AppOK /\ losses \in Nat /\ i \in DOMAIN obj
    BY Bound DEF Prompts
  <1>1. obj' = [obj EXCEPT ![i] = [obj[i] EXCEPT !.sent = losses]] /\ cur' = cur
    BY DEF SendWaiting
  <1>2. Same(obj[i], [obj[i] EXCEPT !.sent = losses])
    BY <1>0, EachSound, Goes_on
  <1>3. TurnsGoOn
    BY <1>0, <1>1, <1>2, TurnReplaced
  <1>4. \A f : f = Frame("prompt", i, None) => HostFrame(f)' /\ ~Stage(f)
    BY <1>3, PromptsGrow DEF HostFrame, Frame, Stage, Loading, Looking
  <1>5. Up /\ \E f : HostFrame(f)' /\ ~Stage(f) /\ toHost' = toHost \o <<f>>
    BY <1>4 DEF SendWaiting, Sends, Up
  <1>6. Quietly
    BY <1>3, <1>5 DEF Quietly, SendWaiting, askVars
  <1> QED
    BY <1>6, QuietStep

LEMMA GraceOverStep ==
  ASSUME ClientInv, NEW i \in Prompts, GraceOver(i)
  PROVE  ClientInv'
  <1>0. AppOK /\ i \in DOMAIN obj
    BY Bound DEF Prompts
  <1>1. obj' = [obj EXCEPT ![i] = Responded(obj[i], "error")] /\ cur' \in {0, cur}
    BY BecomeCur DEF GraceOver
  <1>2. Same(obj[i], Responded(obj[i], "error"))
    BY <1>0, EachSound, Goes_on DEF Ends
  <1>3. TurnsGoOn
    BY <1>0, <1>1, <1>2, TurnReplaced
  <1>4. Quietly
    BY <1>3 DEF Quietly, GraceOver, askVars
  <1> QED
    BY <1>4, QuietStep

LEMMA ChooseSteps ==
  ASSUME ClientInv, \/ ChooseSends \/ ChooseGivesUp \/ \E q \in Asks : Choose(q)
  PROVE  ClientInv'
  <1>0. TurnsGoOn
    BY TurnsStay, Bound DEF ChooseSends, ChooseGivesUp, Choose, sessVars
  <1>1. CASE ChooseSends
    <2>1. \A f : f \in {Frame("answer", choosing.of, None), Frame("pending", None, "find")} =>
             HostFrame(f)' /\ ~Stage(f)
      BY DEF HostFrame, Frame, Stage, Loading, Looking
    <2>2. Up /\ \E f : HostFrame(f)' /\ ~Stage(f) /\ toHost' = toHost \o <<f>>
      BY <1>1, <2>1 DEF ChooseSends, Sends, Up
    <2>3. Quietly
      BY <1>0, <1>1, <2>2 DEF ChooseSends, Quietly, sessVars
    <2> QED
      BY <2>3, QuietStep
  <1>2. CASE ChooseGivesUp \/ \E q \in Asks : Choose(q)
    <2>1. Quietly
      BY <1>0, <1>2 DEF ChooseGivesUp, Choose, Quietly, sessVars
    <2> QED
      BY <2>1, QuietStep
  <1> QED
    BY <1>1, <1>2

LEMMA OpenStep ==
  ASSUME ClientInv, OpenSession
  PROVE  ClientInv'
  <1>0. HostOK /\ AppOK /\ FramesOK /\ StageOK /\ UpdatesOK /\ TurnsOK /\ IsSeq(toApp) /\ IsSeq(toHost)
    BY Bound
  <1>a. /\ opened = "no" /\ opened' = "opening" /\ link = "online" /\ Up /\ replay = None
        /\ replay' = [first |-> TRUE, index |-> 0, sawRunning |-> FALSE]
        /\ UNCHANGED <<record, running, last, owner, asked, attached, losses>>
        /\ UNCHANGED <<toApp, link, obj, cur, log, shown, requests, ids>>
        /\ toHost' = toHost \o <<Frame("load", None, None)>>
    BY <1>0 DEF OpenSession, hostVars, askVars, Sends, Up, StageOK
  <1>b. replay' \in Replays /\ replay' # None /\ replay'.first /\ ~attached
    BY <1>0, <1>a, NoneIs DEF Replays, UpdatesOK
  <1>1. HostOK'
    BY <1>0, <1>a, HostStays, Bound
  <1>c. TurnsGoOn
    BY <1>0, <1>a, TurnsStay
  <1>2. AppOK' /\ Grows
    <2>1. AppOK'
      BY <1>0, <1>a, <1>b, <1>c, AppGoesOn, Bound
    <2> QED
      BY <2>1, <1>a, <1>c, PromptsGrow DEF Grows
  <1>d. \A f : f = Frame("load", None, None) => HostFrame(f)' /\ Loading(f) /\ ~Looking(f)
    BY DEF HostFrame, Frame, Loading, Looking
  <1>e. /\ IsSeq(toHost')
        /\ \A i \in DOMAIN toHost' : \/ i \in DOMAIN toHost /\ toHost'[i] = toHost[i]
                                     \/ i = Len(toHost) + 1 /\ toHost'[i] = Frame("load", None, None)
    BY <1>0, <1>a, Sent
  <1>3. FramesOK'
    <2>1. \A i \in DOMAIN toHost' : HostFrame(toHost[i])' \/ \E j \in DOMAIN toHost : toHost'[i] = toHost[j]
      <3>1. \A i \in DOMAIN toHost' : toHost'[i] = Frame("load", None, None) => HostFrame(toHost[i])'
        BY DEF HostFrame, Frame
      <3> QED
        BY <1>e, <3>1
    <2> QED
      BY <1>0, <1>2, <1>a, <1>e, <2>1, FramesKept
  <1>4. StageOK'
    <2>1. \A i \in DOMAIN toHost : ~Stage(toHost[i])
      BY <1>0, <1>a DEF StageOK, Stage
    <2>2. \A i \in DOMAIN toApp : ~Stage(toApp[i])
      BY <1>0, <1>a DEF StageOK, Stage
    <2>3. \A i \in DOMAIN toHost' : Stage(toHost'[i]) => i = Len(toHost) + 1 /\ ~Looking(toHost'[i])
      BY <1>d, <1>e, <2>1
    <2> QED
      BY <1>a, <1>b, <2>2, <2>3 DEF StageOK, Stage, Up, Loading, Looking
  <1>5. UpdatesOK'
    BY <1>0, <1>a, UpdatesOpened
  <1>6. TurnsOK'
    BY <1>0, <1>a, <1>c, TurnsQuiet
  <1> QED
    BY <1>1, <1>2, <1>3, <1>4, <1>5, <1>6 DEF ClientInv
-----------------------------------------------------------------------------
(* The link's steps *)

\* The frames under way are gone; a new connection sends its first.
Drops ==
  /\ TurnsGoOn
  /\ UNCHANGED <<record, running, last, owner, asked>>
  /\ attached' = FALSE /\ toApp' = <<>> /\ losses' \in Nat
  /\ link' \in {"away", "resuming", "online", "stuck", "failed", "closed"}
  /\ opened' \in {"no", "opening", "open"} /\ (opened = "open" => opened' = "open")
  /\ replay' \in Replays \cup {None}
  /\ ids' \subseteq ids /\ requests' = requests
  /\ UNCHANGED <<log, shown>> \/ (log' = <<>> /\ shown' = <<>>)
  /\ opened' # "open" /\ link' # "closed" => log' = <<>> /\ shown' = <<>>
  /\ replay' # None => ~replay'.first /\ opened' = "open" /\ link' \in {"resuming", "stuck"}
  /\ replay' # None /\ Up' => replay'.index = 0
  /\ opened' # "opening"
  /\ \/ toHost' = <<>>
     \/ \E f : /\ toHost' = <<f>> /\ Up' /\ HostFrame(f)'
               /\ Loading(f) => replay' # None
               /\ Looking(f) => link' = "resuming" /\ replay' = None

LEMMA DropStep ==
  ASSUME ClientInv, Drops
  PROVE  ClientInv'
  <1>0. HostOK /\ AppOK /\ FramesOK /\ StageOK /\ UpdatesOK /\ TurnsOK
    BY Bound
  <1>1. HostOK'
    BY <1>0, HostStays DEF Drops
  <1>2. AppOK' /\ Grows
    <2>1. ids' \subseteq requests' /\ requests' \subseteq Asks
      BY Bound DEF Drops
    <2>2. AppOK'
      BY <1>0, <2>1, AppGoesOn DEF Drops
    <2> QED
      BY <2>2, PromptsGrow DEF Grows, Drops
  <1>3. /\ IsSeq(toHost') /\ DOMAIN toHost' \subseteq {1}
        /\ \A i \in DOMAIN toHost' : /\ Up' /\ HostFrame(toHost[i])'
                                     /\ Loading(toHost'[i]) => replay' # None
                                     /\ Looking(toHost'[i]) => link' = "resuming" /\ replay' = None
        /\ ~Up' => toHost' = <<>>
    <2>1. CASE toHost' = <<>>
      BY <2>1, NoFrames
    <2>2. CASE toHost' # <<>>
      <3>1. PICK f : /\ toHost' = <<f>> /\ Up' /\ HostFrame(f)'
                     /\ Loading(f) => replay' # None
                     /\ Looking(f) => link' = "resuming" /\ replay' = None
        BY <2>2 DEF Drops
      <3>2. HostFrame(f)' => \A i : toHost'[i] = f => HostFrame(toHost[i])'
        BY DEF HostFrame
      <3>3. IsSeq(toHost') /\ DOMAIN toHost' = {1} /\ toHost'[1] = f
        BY <3>1, One
      <3> QED
        BY <3>1, <3>2, <3>3
    <2> QED
      BY <2>1, <2>2
  <1>4. IsSeq(toApp') /\ DOMAIN toApp' = {}
    BY NoFrames DEF Drops
  <1>5. FramesOK'
    BY <1>3, <1>4 DEF FramesOK
  <1>6. StageOK'
    <2>1. ~attached' /\ toApp' = <<>> /\ opened' # "opening"
          /\ (replay' # None => ~replay'.first /\ opened' = "open" /\ link' \in {"resuming", "stuck"})
      BY DEF Drops
    <2> QED
      BY <1>3, <1>4, <2>1 DEF StageOK, Stage, Loading, Looking
  <1>7. UpdatesOK'
    BY <1>0, UpdatesGone DEF Drops, Unopened
  <1>8. TurnsOK'
    BY <1>0, TurnsQuiet DEF Drops
  <1> QED
    BY <1>1, <1>2, <1>5, <1>6, <1>7, <1>8 DEF ClientInv

LEMMA CloseStep ==
  ASSUME ClientInv, Close
  PROVE  ClientInv'
  <1>0. AppOK /\ StageOK
    BY Bound
  <1> DEFINE now == [i \in DOMAIN obj |->
                       IF i = cur THEN Failed(obj[i])
                       ELSE IF i \in Waiting \cup InFlight THEN Responded(obj[i], "error")
                       ELSE obj[i]]
  <1>1. obj' = now /\ cur' \in {0, cur}
    BY BecomeCur DEF Close
  <1>2. ASSUME NEW i \in DOMAIN obj PROVE Same(obj[i], now[i])
    <2>1. /\ Same(obj[i], obj[i]) /\ Same(obj[i], Failed(obj[i]))
          /\ Same(obj[i], Responded(obj[i], "error"))
      BY <1>0, EachSound, Goes_on DEF Ends
    <2> QED
      BY <2>1
  <1>3. TurnsGoOn
    BY <1>0, <1>1, <1>2, TurnsMapped
  <1>4. opened' \in {"no", "open"} /\ (opened = "open" => opened' = "open")
    BY Bound DEF Close
  <1>5. Drops
    BY <1>3, <1>4, Bound DEF Drops, Close, Gone
  <1> QED
    BY <1>5, DropStep

\* While online nothing is replayed but to a session being opened.
LEMMA NoReplay ==
  ASSUME StageOK, link \in {"online", "away"}, opened # "opening"
  PROVE  replay = None
  BY DEF StageOK

LEMMA LoseStep ==
  ASSUME ClientInv, Lose
  PROVE  ClientInv'
  <1>0. AppOK /\ StageOK /\ UpdatesOK /\ losses' \in Nat
    BY Bound DEF Lose
  <1>1. CASE link = "resuming"
    <2>1. link' = "stuck" /\ UNCHANGED <<opened, obj, cur, log, replay, shown, requests, ids>>
      BY <1>1 DEF Lose, sessVars, askVars
    <2>2. TurnsGoOn
      BY <1>0, <2>1, TurnsStay
    <2>3. opened # "opening" /\ (replay # None => ~replay.first /\ opened = "open")
      BY <1>0, <1>1 DEF StageOK
    <2>4. opened = "no" => log = <<>> /\ shown = <<>>
      BY <1>0, <1>1 DEF UpdatesOK
    <2>5. Drops
      BY <1>0, <2>1, <2>2, <2>3, <2>4, Bound DEF Drops, Lose, Gone, Up
    <2> QED
      BY <2>5, DropStep
  <1>2. CASE link = "online"
    <2>1. /\ link' = "away"
          /\ obj' = [i \in DOMAIN obj |-> IF i = cur THEN Lost(obj[i]) ELSE obj[i]]
          /\ Abandon(UNCHANGED cur) /\ ids' \subseteq ids /\ requests' = requests
      BY <1>2 DEF Lose, ChoiceLost
    <2>2. /\ replay' = None
          /\ opened' \in {"no", "open"} /\ (opened = "open" => opened' = "open")
          /\ UNCHANGED <<log, shown>> \/ (log' = <<>> /\ shown' = <<>>)
          /\ opened' # "open" => log' = <<>> /\ shown' = <<>>
          /\ cur' \in {0, cur}
      <3>1. CASE opened = "opening"
        BY <2>1, <3>1 DEF Abandon
      <3>2. CASE opened # "opening"
        <4>1. UNCHANGED <<opened, replay, log, shown, cur>>
          BY <2>1, <3>2 DEF Abandon
        <4>2. replay = None
          BY <1>0, <1>2, <3>2, NoReplay
        <4>3. opened = "no" => log = <<>> /\ shown = <<>>
          BY <1>0, <1>2 DEF UpdatesOK
        <4> QED
          BY <3>2, <4>1, <4>2, <4>3, Bound
      <3> QED
        BY <3>1, <3>2
    <2>3. ASSUME NEW i \in DOMAIN obj PROVE Same(obj[i], obj'[i])
      <3>1. Same(obj[i], obj[i]) /\ Same(obj[i], Lost(obj[i]))
        BY <1>0, EachSound, Goes_on
      <3> QED
        BY <2>1, <3>1
    <2>4. TurnsGoOn
      BY <1>0, <2>1, <2>2, <2>3, TurnsMapped
    <2>5. Drops
      BY <1>0, <2>1, <2>2, <2>4, Bound DEF Drops, Lose, Gone, Up
    <2> QED
      BY <2>5, DropStep
  <1> QED
    BY <1>1, <1>2 DEF Lose, Up

LEMMA UnpairedStep ==
  ASSUME ClientInv, Unpaired
  PROVE  ClientInv'
  <1>0. AppOK /\ StageOK /\ UpdatesOK /\ losses' \in Nat
    BY Bound DEF Unpaired
  <1>1. /\ link' = "failed" /\ link \in {"online", "away"}
        /\ obj' = [i \in DOMAIN obj |-> IF i \in Waiting \cup InFlight
                                         THEN Responded(obj[i], "error") ELSE obj[i]]
        /\ ids' = ids /\ requests' = requests
    BY DEF Unpaired
  <1>2. /\ replay' = None
        /\ opened' \in {"no", "open"} /\ (opened = "open" => opened' = "open")
        /\ UNCHANGED <<log, shown>> \/ (log' = <<>> /\ shown' = <<>>)
        /\ opened' # "open" => log' = <<>> /\ shown' = <<>>
        /\ cur' \in {0, cur}
    <3>1. CASE opened = "opening"
      BY <3>1 DEF Abandon, Unpaired
    <3>2. CASE opened # "opening"
      <4>1. UNCHANGED <<opened, replay, log, shown>> /\ cur' \in {0, cur}
        BY <3>2 DEF Abandon, Unpaired
      <4>2. replay = None
        BY <1>0, <1>1, <3>2, NoReplay
      <4>3. opened = "no" => log = <<>> /\ shown = <<>>
        BY <1>0, <1>1 DEF UpdatesOK
      <4> QED
        BY <3>2, <4>1, <4>2, <4>3, Bound
    <3> QED
      BY <3>1, <3>2
  <1>3. ASSUME NEW i \in DOMAIN obj PROVE Same(obj[i], obj'[i])
    <2>1. Same(obj[i], obj[i]) /\ Same(obj[i], Responded(obj[i], "error"))
      BY <1>0, EachSound, Goes_on DEF Ends
    <2> QED
      BY <1>1, <2>1
  <1>4. TurnsGoOn
    BY <1>0, <1>1, <1>2, <1>3, TurnsMapped
  <1>5. Drops
    BY <1>0, <1>1, <1>2, <1>4, Bound DEF Drops, Unpaired, Gone, Up
  <1> QED
    BY <1>5, DropStep

LEMMA ConnectStep ==
  ASSUME ClientInv, Connect
  PROVE  ClientInv'
  <1>0. AppOK /\ StageOK /\ UpdatesOK
    BY Bound
  <1>1. /\ link = "away" /\ ~Up /\ ~attached /\ toApp' = <<>>
        /\ UNCHANGED <<record, running, last, owner, asked, attached, losses>>
        /\ UNCHANGED <<opened, obj, cur, log, shown, requests, ids>>
    BY <1>0 DEF Connect, hostVars, askVars, Up, StageOK
  <1>2. TurnsGoOn
    BY <1>0, <1>1, TurnsStay
  <1>3. opened # "opening" /\ replay = None /\ (opened = "no" => log = <<>> /\ shown = <<>>)
    BY <1>0, <1>1 DEF StageOK, UpdatesOK
  <1>4. opened # "open" => log = <<>> /\ shown = <<>>
    BY <1>3, Bound
  <1>5. CASE opened = "open"
    <2>1. link' = "resuming" /\ replay' = NewReplay /\ toHost' = <<Frame("load", None, None)>>
      BY <1>5 DEF Connect, Load
    <2>2. NewReplay \in Replays /\ ~NewReplay.first /\ NewReplay.index = 0
      BY DEF NewReplay, Replays
    <2>3. replay' # None /\ Up'
      BY <2>1, <2>2, NoneIs DEF Up
    <2>4. \A f : f = Frame("load", None, None) => HostFrame(f)' /\ ~Looking(f)
      BY DEF HostFrame, Frame, Looking
    <2>5. \E f : /\ toHost' = <<f>> /\ Up' /\ HostFrame(f)'
                 /\ Loading(f) => replay' # None
                 /\ Looking(f) => link' = "resuming" /\ replay' = None
      BY <2>1, <2>3, <2>4
    <2>6. Drops
      BY <1>1, <1>2, <1>5, <2>1, <2>2, <2>5, Bound DEF Drops
    <2> QED
      BY <2>6, DropStep
  <1>6. CASE opened # "open" /\ requests # {}
    <2>1. link' = "resuming" /\ replay' = None /\ toHost' = <<Frame("pending", None, "resume")>> /\ Up'
      BY <1>3, <1>6 DEF Connect, Up
    <2>2. \A f : f = Frame("pending", None, "resume") => HostFrame(f)' /\ ~Loading(f)
      BY DEF HostFrame, Frame, Loading
    <2>3. \E f : /\ toHost' = <<f>> /\ Up' /\ HostFrame(f)'
                 /\ Loading(f) => replay' # None
                 /\ Looking(f) => link' = "resuming" /\ replay' = None
      BY <2>1, <2>2
    <2>4. Drops
      BY <1>1, <1>2, <1>3, <1>4, <1>6, <2>1, <2>3, Bound DEF Drops
    <2> QED
      BY <2>4, DropStep
  <1>7. CASE opened # "open" /\ requests = {}
    <2>1. link' = "online" /\ replay' = None /\ toHost' = <<>>
      BY <1>3, <1>7 DEF Connect
    <2>2. Drops
      BY <1>1, <1>2, <1>3, <1>4, <1>7, <2>1, Bound DEF Drops
    <2> QED
      BY <2>2, DropStep
  <1> QED
    BY <1>5, <1>6, <1>7
-----------------------------------------------------------------------------
(* The host's steps *)

\* The host goes on, of itself or with a frame of the app's, and tells F.
Speaks(F) ==
  /\ IsSeq(F) /\ toApp' = toApp \o F /\ (~Up => F = <<>>)
  /\ UNCHANGED <<link, opened, obj, cur, log, replay, shown, requests, ids, losses>>
  /\ UNCHANGED toHost \/ (Up /\ IsSeq(toHost') /\ Takes(toHost', toHost))
  /\ \A i \in DOMAIN F : AppFrame(F[i])'
\* No load or lookup of a resume is taken, or answered.
Plainly(F) ==
  /\ UNCHANGED toHost \/ ~Stage(toHost[1])
  /\ \A i \in DOMAIN F : ~Stage(F[i])

LEMMA FramesSpoken ==
  ASSUME ClientInv, NEW F, Speaks(F)
  PROVE  /\ Joins(toApp', toApp, F) /\ IsSeq(toApp') /\ IsSeq(toHost')
         /\ \A i \in DOMAIN toApp' : \/ i \in DOMAIN toApp /\ i + 0 = i /\ toApp'[i] = toApp[i]
                                     \/ \E j \in DOMAIN F : i = Len(toApp) + j /\ toApp'[i] = F[j]
         /\ \E a \in {0, 1} :
               /\ \A i \in DOMAIN toHost' : i + a \in DOMAIN toHost /\ toHost[i + a] = toHost'[i]
               /\ a = 0 => UNCHANGED toHost
               /\ a = 1 => 1 \in DOMAIN toHost /\ \A i \in DOMAIN toHost' : i + a # 1
         /\ ~Up => toApp' = <<>> /\ toHost' = <<>>
  <1>0. IsSeq(toApp) /\ IsSeq(toHost) /\ IsSeq(F) /\ StageOK
    BY Bound DEF Speaks
  <1>1. Joins(toApp', toApp, F)
    BY <1>0, Joined DEF Speaks
  <1>2. IsSeq(toApp')
    BY <1>1 DEF Joins
  <1>3. \A i \in DOMAIN toApp' : \/ i \in DOMAIN toApp /\ i + 0 = i /\ toApp'[i] = toApp[i]
                                 \/ \E j \in DOMAIN F : i = Len(toApp) + j /\ toApp'[i] = F[j]
    <2>1. \A i \in DOMAIN toApp : i + 0 = i
      BY <1>0, SeqLength
    <2> QED
      BY <1>1, <2>1 DEF Joins
  <1>4. IsSeq(toHost') /\ \E a \in {0, 1} :
               /\ \A i \in DOMAIN toHost' : i + a \in DOMAIN toHost /\ toHost[i + a] = toHost'[i]
               /\ a = 0 => UNCHANGED toHost
               /\ a = 1 => 1 \in DOMAIN toHost /\ \A i \in DOMAIN toHost' : i + a # 1
    <2>1. CASE UNCHANGED toHost
      <3>1. \A i \in DOMAIN toHost : i + 0 = i
        BY <1>0, SeqLength
      <3> QED
        BY <1>0, <2>1, <3>1
    <2>2. CASE IsSeq(toHost') /\ Takes(toHost', toHost)
      <3>1. \A i \in DOMAIN toHost' : i \in Nat \ {0} /\ i + 1 \in DOMAIN toHost /\ toHost[i + 1] = toHost'[i]
        BY <2>2 DEF Takes
      <3>2. 1 \in DOMAIN toHost /\ \A i \in DOMAIN toHost' : i + 1 # 1
        BY <2>2, <3>1 DEF Takes
      <3> QED
        BY <2>2, <3>1, <3>2
    <2> QED
      BY <2>1, <2>2 DEF Speaks
  <1>5. ~Up => toApp' = <<>> /\ toHost' = <<>>
    <2> SUFFICES ASSUME ~Up PROVE toApp' = <<>> /\ toHost' = <<>>
      OBVIOUS
    <2>1. toApp = <<>> /\ toHost = <<>> /\ F = <<>>
      BY <1>0 DEF Speaks, StageOK
    <2>2. Len(toApp') = 0
      BY <1>1, <2>1, NoFrames DEF Joins
    <2>3. toApp' = <<>>
      BY <1>2, <2>2, SeqLength
    <2> QED
      BY <2>1, <2>3 DEF Speaks
  <1> QED
    BY <1>1, <1>2, <1>3, <1>4, <1>5

LEMMA StageSpoken ==
  ASSUME ClientInv, NEW F, Speaks(F), Plainly(F), UNCHANGED attached
  PROVE  StageOK'
  <1>0. StageOK /\ FramesOK
    BY Bound
  <1>1. StageStays
    BY DEF StageStays, Speaks
  <1>2. IsSeq(toApp') /\ IsSeq(toHost') /\ (~Up => toHost' = <<>> /\ toApp' = <<>>)
    BY FramesSpoken
  <1>3. PICK a \in {0, 1} : \A i \in DOMAIN toHost' : i + a \in DOMAIN toHost /\ toHost[i + a] = toHost'[i]
    BY FramesSpoken
  <1>4. \A i \in DOMAIN toApp' : \/ i \in DOMAIN toApp /\ i + 0 = i /\ toApp'[i] = toApp[i]
                                 \/ \E j \in DOMAIN F : toApp'[i] = F[j]
    BY FramesSpoken
  <1>5. \A i \in DOMAIN toApp' : Stage(toApp'[i]) => i + 0 \in DOMAIN toApp /\ toApp[i + 0] = toApp'[i]
    <2> SUFFICES ASSUME NEW i \in DOMAIN toApp', Stage(toApp'[i])
                 PROVE  i + 0 \in DOMAIN toApp /\ toApp[i + 0] = toApp'[i]
      OBVIOUS
    <2>1. ~\E j \in DOMAIN F : toApp'[i] = F[j]
      BY DEF Plainly
    <2> QED
      BY <1>4, <2>1
  <1> QED
    BY <1>0, <1>1, <1>2, <1>3, <1>5, StageShift

LEMMA SayStep ==
  ASSUME ClientInv, HostOK', NEW F, Speaks(F), StageOK', UpdatesOK', Reports(F),
         DOMAIN record \subseteq DOMAIN record', DOMAIN owner \subseteq DOMAIN owner',
         \A n \in DOMAIN owner' : owner'[n].of = 0 \/ owner'[n].of \in Prompts
  PROVE  ClientInv'
  <1>0. HostOK /\ AppOK /\ FramesOK /\ StageOK /\ UpdatesOK /\ TurnsOK /\ ToSet(log) \subseteq DOMAIN record
    BY Bound
  <1>1. AppOK' /\ Grows
    <2>1. Prompts' = Prompts
      BY DEF Prompts, Speaks
    <2>2. AppOK'
      BY <1>0, <2>1 DEF AppOK, Speaks
    <2> QED
      BY <2>1, <2>2 DEF Grows
  <1>2. FramesOK'
    <2>1. IsSeq(toApp') /\ IsSeq(toHost')
      BY FramesSpoken
    <2>2. \A i \in DOMAIN toApp' : AppFrame(toApp[i])' \/ \E j \in DOMAIN toApp : toApp'[i] = toApp[j]
      <3> SUFFICES ASSUME NEW i \in DOMAIN toApp', ~\E j \in DOMAIN toApp : toApp'[i] = toApp[j]
                   PROVE  AppFrame(toApp[i])'
        OBVIOUS
      <3>1. PICK j \in DOMAIN F : toApp'[i] = F[j]
        BY FramesSpoken
      <3>2. AppFrame(F[j])'
        BY DEF Speaks
      <3> QED
        BY <3>1, <3>2 DEF AppFrame
    <2>3. \A i \in DOMAIN toHost' : \E j \in DOMAIN toHost : toHost'[i] = toHost[j]
      BY FramesSpoken
    <2> QED
      BY <1>0, <1>1, <2>1, <2>2, <2>3, FramesKept
  <1>3. TurnsOK'
    BY <1>0, TurnsTold DEF Speaks
  <1> QED
    BY <1>1, <1>2, <1>3 DEF ClientInv

\* A step that only says something of the requests, or answers one of the app's.
Notices == {"prompted", "pending", "answered", "ask", "added", "resolved"}
LEMMA NoticeSaid ==
  ASSUME ClientInv, NEW F, Speaks(F), StageOK', \A i \in DOMAIN F : F[i].t \in Notices \/ (F[i].t = "loaded" /\ F[i].how = "error"),
         UNCHANGED <<record, running, last, owner, attached>>,
         asked' \in [Asks -> {"none", "pending", "over"}]
  PROVE  ClientInv'
  <1>0. HostOK /\ AppOK /\ FramesOK /\ UpdatesOK
    BY Bound
  <1>1. HostOK'
    BY <1>0 DEF HostOK, Speaks
  <1>a. \A i \in DOMAIN F : F[i].t \notin {"update", "running", "ended"} /\ (F[i].t = "loaded" => F[i].how = "error")
    BY DEF Notices
  <1>b. DOMAIN record \subseteq Nat /\ \A n \in DOMAIN owner : n \in Nat /\ (owner[n].of = 0 \/ owner[n].of \in Prompts)
    BY <1>0, EachOwner DEF AppOK
  <1>c. Joins(toApp', toApp, F)
    BY FramesSpoken
  <1>3. UpdatesOK'
    <2>1. Tells(F)
      BY <1>a, <1>b, <1>c DEF Tells, Speaks
    <2> QED
      BY <1>0, <2>1, UpdatesTold DEF Speaks
  <1>4. Reports(F)
    BY <1>a, <1>b, <1>c DEF Reports, Speaks
  <1> QED
    BY <1>1, <1>3, <1>4, <1>b, SayStep

LEMMA NoticeStep ==
  ASSUME ClientInv, NEW F, Speaks(F), Plainly(F), \A i \in DOMAIN F : F[i].t \in Notices,
         UNCHANGED <<record, running, last, owner, attached>>,
         asked' \in [Asks -> {"none", "pending", "over"}]
  PROVE  ClientInv'
  <1>1. StageOK'
    BY StageSpoken
  <1> QED
    BY <1>1, NoticeSaid

\* A notice of a request, or an answer.
Notice(f) == AppFrame(f)' /\ ~Stage(f) /\ f.t \in Notices

LEMMA NoticeFrames ==
  ASSUME NEW t \in {"ask", "added"}, NEW q \in Asks
  PROVE  Notice(Frame(t, q, None))
  BY DEF Notice, Notices, AppFrame, FromHost, Frame, Stage, Loading, Looking

LEMMA AnswerFrames ==
  ASSUME NEW t \in {"answered", "resolved"}, NEW q
  PROVE  Notice(Frame(t, q, None))
  BY DEF Notice, Notices, AppFrame, FromHost, Frame, Stage, Loading, Looking

LEMMA PromptedFrames ==
  ASSUME UNCHANGED obj, NEW i \in Prompts, NEW how \in Ends
  PROVE  Notice(Frame("prompted", i, how))
  <1>1. Prompts' = Prompts
    BY DEF Prompts
  <1> QED
    BY <1>1 DEF Notice, Notices, AppFrame, FromHost, Frame, Stage, Loading, Looking

LEMMA PendingFrames ==
  ASSUME NEW S \in SUBSET Asks
  PROVE  Notice(Frame("pending", S, "find"))
  BY DEF Notice, Notices, AppFrame, FromHost, Frame, Stage, Loading, Looking

\* The host goes on of itself.
LEMMA GoesOn ==
  ASSUME NEW F, IsSeq(F), toApp' = toApp \o F, ~Up => F = <<>>,
         UNCHANGED <<toHost, link, sessVars, askVars, losses>>,
         \A i \in DOMAIN F : AppFrame(F[i])' /\ ~Stage(F[i])
  PROVE  Speaks(F) /\ Plainly(F)
  BY DEF Speaks, Plainly, sessVars, askVars

\* The host answers a frame of the app's.
LEMMA Answered ==
  ASSUME ClientInv, NEW F, IsSeq(F), toApp' = toApp \o F, Up, toHost # <<>>, toHost' = Tail(toHost),
         UNCHANGED <<link, sessVars, askVars, losses>>, ~Stage(toHost[1]),
         \A i \in DOMAIN F : AppFrame(F[i])' /\ ~Stage(F[i])
  PROVE  Speaks(F) /\ Plainly(F)
  <1>1. IsSeq(Tail(toHost)) /\ Takes(Tail(toHost), toHost)
    BY Taken, Bound DEF Takes
  <1> QED
    BY <1>1 DEF Speaks, Plainly, sessVars, askVars

LEMMA AsksStep ==
  ASSUME ClientInv, NEW q \in Asks, Goes(AgentAsks(q))
  PROVE  ClientInv'
  <1> DEFINE G == <<Frame("added", q, None)>>
  <1>a. PICK H : H = IF attached THEN <<Frame("ask", q, None)>> ELSE <<>>
    OBVIOUS
  <1>b. PICK F : F = IF Up THEN G \o H ELSE <<>>
    OBVIOUS
  <1>0. HostOK
    BY Bound
  <1>1. /\ toApp' = toApp \o F
        /\ UNCHANGED <<toHost, link, sessVars, askVars, losses>>
        /\ UNCHANGED <<record, running, last, owner, attached>>
        /\ asked' = [asked EXCEPT ![q] = "pending"]
    BY <1>a, <1>b DEF Goes, AgentAsks, Announced, Answers
  <1>2. IsSeq(G) /\ \A i \in DOMAIN G : Notice(G[i])
    BY One, NoticeFrames
  <1>3. IsSeq(H) /\ \A i \in DOMAIN H : Notice(H[i])
    BY <1>a, One, NoFrames, NoticeFrames
  <1>4. IsSeq(F) /\ (~Up => F = <<>>) /\ \A i \in DOMAIN F : Notice(F[i])
    <2>1. Joins(G \o H, G, H)
      BY <1>2, <1>3, Joined
    <2> HIDE DEF G
    <2> QED
      BY <1>2, <1>3, <1>b, <2>1, NoFrames DEF Joins
  <1>5. Speaks(F) /\ Plainly(F) /\ \A i \in DOMAIN F : F[i].t \in Notices
    BY <1>1, <1>4, GoesOn DEF Notice
  <1>6. asked' \in [Asks -> {"none", "pending", "over"}]
    BY <1>0, <1>1 DEF HostOK
  <1> QED
    BY <1>1, <1>5, <1>6, NoticeStep

LEMMA OtherAnswersStep ==
  ASSUME ClientInv, NEW q \in Asks, Goes(OtherAnswers(q))
  PROVE  ClientInv'
  <1>b. PICK F : F = IF Up THEN <<Frame("resolved", q, None)>> ELSE <<>>
    OBVIOUS
  <1>0. HostOK
    BY Bound
  <1>1. /\ toApp' = toApp \o F
        /\ UNCHANGED <<toHost, link, sessVars, askVars, losses>>
        /\ UNCHANGED <<record, running, last, owner, attached>>
        /\ asked' = [asked EXCEPT ![q] = "over"]
    BY <1>b DEF Goes, OtherAnswers, Announced, Answers
  <1>4. IsSeq(F) /\ (~Up => F = <<>>) /\ \A i \in DOMAIN F : Notice(F[i])
    BY <1>b, One, NoFrames, AnswerFrames
  <1>5. Speaks(F) /\ Plainly(F) /\ \A i \in DOMAIN F : F[i].t \in Notices
    BY <1>1, <1>4, GoesOn DEF Notice
  <1>6. asked' \in [Asks -> {"none", "pending", "over"}]
    BY <1>0, <1>1 DEF HostOK
  <1> QED
    BY <1>1, <1>5, <1>6, NoticeStep

\* The record grows by an entry of the turn that runs, or now starts.
LEMMA Recorded ==
  ASSUME HostOK, NEW e \in [by : {"agent", "app", "other"}, turn : Nat], record' = Append(record, e)
  PROVE  LET p == Len(record) + 1
         IN  /\ record' \in Seq([by : {"agent", "app", "other"}, turn : Nat])
             /\ Len(record') = p /\ DOMAIN record' = DOMAIN record \cup {p} /\ p \notin DOMAIN record
             /\ record'[p] = e
             /\ \A k \in DOMAIN record : record'[k] = record[k] /\ k < p
             /\ DOMAIN record' \subseteq Nat
  <1>1. Len(record) \in Nat /\ DOMAIN record = 1..Len(record)
    BY EachOwner
  <1>2. record' \in Seq([by : {"agent", "app", "other"}, turn : Nat]) /\ Len(record') = Len(record) + 1
        /\ record'[Len(record) + 1] = e /\ \A k \in DOMAIN record : record'[k] = record[k]
        /\ DOMAIN record' = 1..(Len(record) + 1)
    BY <1>1 DEF HostOK
  <1> QED
    BY <1>1, <1>2

LEMMA SaysStep ==
  ASSUME ClientInv, Goes(AgentSays)
  PROVE  ClientInv'
  <1>a. PICK p : p = Len(record) + 1
    OBVIOUS
  <1>b. PICK e : e = [by |-> "agent", turn |-> running]
    OBVIOUS
  <1> DEFINE u == Frame("update", p, None)
  <1>d. PICK F : F = IF attached THEN <<u>> ELSE <<>>
    OBVIOUS
  <1>0. HostOK /\ AppOK /\ StageOK /\ FramesOK /\ UpdatesOK
    BY Bound
  <1>1. running \in DOMAIN owner /\ running \in Nat /\ running # None
    <2>1. running \in DOMAIN owner /\ running # None
      BY <1>0 DEF HostOK, Goes, AgentSays
    <2> QED
      BY <1>0, <2>1, EachOwner
  <1>2. record' = Append(record, e) /\ e \in [by : {"agent", "app", "other"}, turn : Nat]
    BY <1>1, <1>b DEF Goes, AgentSays
  <1>3. /\ record' \in Seq([by : {"agent", "app", "other"}, turn : Nat])
        /\ Len(record') = p /\ DOMAIN record' = DOMAIN record \cup {p} /\ p \notin DOMAIN record
        /\ record'[p] = e
        /\ \A k \in DOMAIN record : record'[k] = record[k] /\ k < p
        /\ DOMAIN record' \subseteq Nat
    BY <1>0, <1>2, <1>a, Recorded
  <1>4. /\ toApp' = toApp \o F
        /\ UNCHANGED <<toHost, link, sessVars, askVars, losses>>
        /\ UNCHANGED <<running, last, owner, asked, attached>>
    BY <1>3, <1>d DEF Goes, AgentSays, Told, Answers
  <1>5. \A f : f = u => AppFrame(f)' /\ ~Stage(f) /\ f.t = "update" /\ f.of = p
    BY <1>3 DEF AppFrame, FromHost, Frame, Stage, Loading, Looking
  <1>6. /\ IsSeq(F) /\ \A i \in DOMAIN F : i = 1 /\ F[i] = u
        /\ attached => 1 \in DOMAIN F
        /\ ~attached => F = <<>>
    BY <1>d, One, NoFrames
  <1>7. ~Up => F = <<>>
    BY <1>0, <1>6 DEF StageOK
  <1> HIDE DEF u
  <1>8. Speaks(F) /\ Plainly(F)
    BY <1>4, <1>5, <1>6, <1>7, GoesOn
  <1>9. HostOK'
    <2>1. ASSUME NEW k \in DOMAIN record' PROVE record'[k].turn \in DOMAIN owner
      <3>1. CASE k \in DOMAIN record
        <4>1. record[k].turn \in DOMAIN owner
          BY <1>0, <3>1 DEF HostOK
        <4> QED
          BY <1>3, <3>1, <4>1
      <3>2. CASE k = p
        BY <1>1, <1>3, <1>b, <3>2
      <3> QED
        BY <1>3, <3>1, <3>2
    <2> QED
      BY <1>0, <1>3, <1>4, <2>1 DEF HostOK
  <1>10. StageOK'
    BY <1>4, <1>8, StageSpoken
  <1>c. Joins(toApp', toApp, F)
    BY <1>8, FramesSpoken
  <1>11. UpdatesOK'
    <2>1. ~attached => \A i \in DOMAIN F : FALSE
      BY <1>6, NoFrames
    <2>2. attached => \E i \in DOMAIN F : F[i].t = "update" /\ F[i].of = p
      BY <1>5, <1>6
    <2>3. \A i \in DOMAIN F : i = 1 /\ F[i].t = "update" /\ F[i].of = p
      BY <1>5, <1>6
    <2>4. Tells(F)
      BY <1>3, <1>4, <1>c, <2>1, <2>2, <2>3 DEF Tells, sessVars
    <2> QED
      BY <1>0, <1>6, <2>4, UpdatesTold
  <1>12. Reports(F)
    <2>1. \A n \in DOMAIN owner : n \in Nat /\ (owner[n].of = 0 \/ owner[n].of \in Prompts)
      BY <1>0, EachOwner DEF AppOK
    <2>2. \A k \in DOMAIN record' \ DOMAIN record : record'[k].turn = running
      BY <1>3, <1>b
    <2>3. \A i \in DOMAIN F : F[i].t = "update"
      BY <1>5, <1>6
    <2> QED
      BY <1>3, <1>4, <1>c, <2>1, <2>2, <2>3 DEF Reports, sessVars
  <1> QED
    BY <1>0, <1>3, <1>4, <1>8, <1>9, <1>10, <1>11, <1>12, SayStep DEF AppOK

\* What is under way to the host stays, or the host takes the first, no load or
\* lookup of a resume.
Hears == \/ UNCHANGED toHost
         \/ Up /\ toHost # <<>> /\ toHost' = Tail(toHost) /\ ~Stage(toHost[1])

LEMMA Spoken ==
  ASSUME ClientInv, Hears, NEW F, IsSeq(F), toApp' = toApp \o F, ~Up => F = <<>>,
         UNCHANGED <<link, sessVars, askVars, losses>>,
         \A i \in DOMAIN F : AppFrame(F[i])' /\ ~Stage(F[i])
  PROVE  Speaks(F) /\ Plainly(F)
  <1>1. CASE UNCHANGED toHost
    BY <1>1, GoesOn
  <1>2. CASE Up /\ toHost # <<>> /\ toHost' = Tail(toHost) /\ ~Stage(toHost[1])
    BY <1>2, Answered
  <1> QED
    BY <1>1, <1>2 DEF Hears

LEMMA StartsStep ==
  ASSUME ClientInv, NEW i, i = 0 \/ i \in Prompts, Starts(i), Hears,
         UNCHANGED <<link, sessVars, askVars, losses>>
  PROVE  ClientInv'
  <1>a. PICK p : p = Len(record) + 1
    OBVIOUS
  <1>b. PICK n : n = Len(owner) + 1
    OBVIOUS
  <1>c. PICK e : e = [by |-> IF i = 0 THEN "other" ELSE "app", turn |-> n]
    OBVIOUS
  <1> DEFINE r == Frame("running", n, None)
             u == Frame("update", p, None)
             G == <<r>>
             H == IF i = 0 THEN <<u>> ELSE <<>>
  <1>d. PICK F : F = IF attached THEN G \o H ELSE <<>>
    OBVIOUS
  <1>0. HostOK /\ AppOK /\ StageOK /\ FramesOK /\ UpdatesOK /\ losses \in Nat
    BY Bound
  <1>1. /\ running = None /\ running' = n
        /\ record' = Append(record, e)
        /\ owner' = Append(owner, [of |-> i, at |-> losses])
        /\ UNCHANGED <<last, asked, attached>>
    BY <1>b, <1>c DEF Starts, Entry
  <1>2. /\ i \in Nat
        /\ n \in Nat /\ DOMAIN owner' = DOMAIN owner \cup {n} /\ n \notin DOMAIN owner
        /\ owner' \in Seq([of : Nat, at : Nat])
        /\ owner'[n].of = i /\ \A k \in DOMAIN owner : owner'[k] = owner[k]
    <2>1. i \in Nat
      BY <1>0, EachSound DEF Prompts
    <2>2. [of |-> i, at |-> losses] \in [of : Nat, at : Nat]
      BY <1>0, <2>1
    <2>3. Len(owner) \in Nat /\ DOMAIN owner = 1..Len(owner) /\ owner \in Seq([of : Nat, at : Nat])
      BY <1>0, EachOwner DEF HostOK
    <2>4. /\ owner' \in Seq([of : Nat, at : Nat]) /\ Len(owner') = n /\ DOMAIN owner' = 1..n
          /\ owner'[n] = [of |-> i, at |-> losses] /\ \A k \in DOMAIN owner : owner'[k] = owner[k]
      BY <1>1, <1>b, <2>2, <2>3
    <2> QED
      BY <1>b, <2>1, <2>3, <2>4
  <1>3. /\ record' \in Seq([by : {"agent", "app", "other"}, turn : Nat])
        /\ Len(record') = p /\ DOMAIN record' = DOMAIN record \cup {p} /\ p \notin DOMAIN record
        /\ record'[p] = e
        /\ \A k \in DOMAIN record : record'[k] = record[k] /\ k < p
        /\ DOMAIN record' \subseteq Nat
    <2>1. e \in [by : {"agent", "app", "other"}, turn : Nat]
      BY <1>2, <1>c
    <2> QED
      BY <1>0, <1>1, <1>a, <2>1, Recorded
  <1>4. toApp' = toApp \o F
    BY <1>1, <1>3, <1>d DEF Starts, Told, Answers
  <1>5. /\ \A f : f = r => AppFrame(f)' /\ ~Stage(f) /\ f.t = "running"
        /\ \A f : f = u => AppFrame(f)' /\ ~Stage(f) /\ f.t = "update" /\ f.of = p
    BY <1>2, <1>3 DEF AppFrame, FromHost, Frame, Stage, Loading, Looking
  <1>6. /\ IsSeq(F)
        /\ \A k \in DOMAIN F : (k = 1 /\ F[k] = r) \/ (k = 2 /\ F[k] = u)
        /\ ~attached => F = <<>>
    <2>1. IsSeq(G) /\ DOMAIN G = {1} /\ Len(G) = 1 /\ G[1] = r
      BY One
    <2>2. IsSeq(H) /\ \A k \in DOMAIN H : k = 1 /\ H[k] = u
      BY One, NoFrames
    <2> HIDE DEF G, H
    <2>3. Joins(G \o H, G, H)
      BY <2>1, <2>2, Joined
    <2> QED
      BY <1>d, <2>1, <2>2, <2>3, NoFrames DEF Joins
  <1>7. ~Up => F = <<>>
    BY <1>0, <1>6 DEF StageOK
  <1> HIDE DEF u, r, G, H
  <1>e. /\ \A k \in DOMAIN F : AppFrame(F[k])' /\ ~Stage(F[k]) /\ F[k].t \in {"running", "update"}
        /\ \A k \in DOMAIN F : F[k].t = "update" => k = 2 /\ F[k].of = p
    <2>1. r # u /\ \A k \in DOMAIN F : F[k] = r => F[k].t = "running"
      BY <1>5 DEF r, u, Frame
    <2> QED
      BY <1>5, <1>6, <2>1
  <1>8. Speaks(F) /\ Plainly(F)
    BY <1>4, <1>6, <1>7, <1>e, Spoken
  <1>9. HostOK'
    <2>1. ASSUME NEW k \in DOMAIN record' PROVE record'[k].turn \in DOMAIN owner'
      <3>1. CASE k \in DOMAIN record
        <4>1. record[k].turn \in DOMAIN owner
          BY <1>0, <3>1 DEF HostOK
        <4> QED
          BY <1>2, <1>3, <3>1, <4>1
      <3>2. CASE k = p
        BY <1>2, <1>3, <1>c, <3>2
      <3> QED
        BY <1>3, <3>1, <3>2
    <2>2. last \in [of : DOMAIN owner', how : Ends] \cup {None}
      BY <1>0, <1>2 DEF HostOK
    <2> QED
      BY <1>0, <1>1, <1>2, <1>3, <2>1, <2>2 DEF HostOK
  <1>10. StageOK'
    BY <1>1, <1>8, StageSpoken
  <1>f. Joins(toApp', toApp, F)
    BY <1>8, FramesSpoken
  <1>11. UpdatesOK'
    <2>1. ~attached => \A k \in DOMAIN F : FALSE
      BY <1>6, NoFrames
    <2>2. record'[p].by # "agent"
      BY <1>3, <1>c
    <2>3. UNCHANGED <<log, shown, replay, opened, link, attached>>
      BY <1>1 DEF sessVars
    <2>4. Tells(F)
      BY <1>3, <1>e, <1>f, <2>1, <2>2, <2>3 DEF Tells
    <2> QED
      BY <1>0, <1>6, <2>4, UpdatesTold
  <1>g. \A k \in DOMAIN owner' : k \in Nat /\ (owner'[k].of = 0 \/ owner'[k].of \in Prompts)
    BY <1>0, <1>2, EachOwner DEF AppOK
  <1>12. Reports(F)
    <2>1. \A k \in DOMAIN record' \ DOMAIN record : record'[k].turn = n
      BY <1>3, <1>c
    <2>2. \A k \in DOMAIN owner : running' # k
      BY <1>1, <1>2
    <2>3. UNCHANGED <<log, replay, obj, cur>>
      BY DEF sessVars
    <2> QED
      BY <1>2, <1>3, <1>e, <1>f, <1>g, <2>1, <2>2, <2>3 DEF Reports
  <1> QED
    BY <1>2, <1>3, <1>8, <1>9, <1>10, <1>11, <1>12, <1>g, SayStep

LEMMA EndsStep ==
  ASSUME ClientInv, Goes(TurnEnds)
  PROVE  ClientInv'
  <1>0. HostOK /\ AppOK /\ StageOK /\ FramesOK /\ UpdatesOK
    BY Bound
  <1>a. PICK how \in Ends :
           /\ last' = [of |-> running, how |-> how]
           /\ Announced(EachAsk(Pending, "resolved") \o PromptFrames(how)
                        \o IF attached THEN <<Frame("ended", running, how)>> ELSE <<>>)
    BY DEF Goes, TurnEnds, Ends
  <1>b. PICK n : n = running
    OBVIOUS
  <1>1. n \in DOMAIN owner /\ n \in Nat /\ n # None /\ running = n
    <2>1. n \in DOMAIN owner /\ n # None
      BY <1>0, <1>b DEF HostOK, Goes, TurnEnds
    <2> QED
      BY <1>0, <1>b, <2>1, EachOwner
  <1>2. /\ running' = None
        /\ asked' = [q \in Asks |-> IF asked[q] = "pending" THEN "over" ELSE asked[q]]
        /\ UNCHANGED <<record, owner, attached>>
        /\ UNCHANGED <<toHost, link, sessVars, askVars, losses>>
    BY DEF Goes, TurnEnds
  <1>c. PICK A : A = EachAsk(Pending, "resolved")
    OBVIOUS
  <1>d. PICK B : B = PromptFrames(how)
    OBVIOUS
  <1>e. PICK C : C = IF attached THEN <<Frame("ended", n, how)>> ELSE <<>>
    OBVIOUS
  <1>f. PICK D : D = A \o B
    OBVIOUS
  <1>g. PICK F : F = IF Up THEN D \o C ELSE <<>>
    OBVIOUS
  <1>3. toApp' = toApp \o F
    BY <1>a, <1>b, <1>c, <1>d, <1>e, <1>f, <1>g DEF Announced, Answers
  <1>4. IsSeq(A) /\ \A k \in DOMAIN A : Notice(A[k])
    <2>1. IsSeq(A) /\ \A k \in DOMAIN A : \E q \in Pending : A[k] = Frame("resolved", q, None)
      BY <1>c, EachAskFrames DEF Pending
    <2> QED
      BY <2>1, AnswerFrames
  <1>5. IsSeq(B) /\ \A k \in DOMAIN B : Notice(B[k])
    <2>1. PICK o : o = owner[n]
      OBVIOUS
    <2>2. B = IF o.of # 0 /\ o.at = losses THEN <<Frame("prompted", o.of, how)>> ELSE <<>>
      BY <1>1, <1>d, <2>1 DEF PromptFrames
    <2>3. CASE o.of # 0 /\ o.at = losses
      <3>1. o.of \in Prompts
        BY <1>0, <1>1, <2>1, <2>3 DEF AppOK
      <3>2. Notice(Frame("prompted", o.of, how))
        BY <1>2, <3>1, PromptedFrames DEF sessVars
      <3> QED
        BY <2>2, <2>3, <3>2, One
    <2>4. CASE ~(o.of # 0 /\ o.at = losses)
      BY <2>2, <2>4, NoFrames
    <2> QED
      BY <2>3, <2>4
  <1>6. /\ IsSeq(C) /\ \A k \in DOMAIN C : C[k] = Frame("ended", n, how)
        /\ ~attached => DOMAIN C = {}
    BY <1>e, One, NoFrames
  <1>7. IsSeq(D) /\ \A k \in DOMAIN D : Notice(D[k])
    <2>1. Joins(D, A, B)
      BY <1>4, <1>5, <1>f, Joined
    <2> QED
      BY <1>4, <1>5, <2>1 DEF Joins
  <1>8. /\ IsSeq(F) /\ (~Up => F = <<>>)
        /\ \A k \in DOMAIN F : Notice(F[k]) \/ (attached /\ F[k] = Frame("ended", n, how))
    <2>1. Joins(D \o C, D, C)
      BY <1>6, <1>7, Joined
    <2> QED
      BY <1>6, <1>7, <1>g, <2>1, NoFrames DEF Joins
  <1>9. \A f : f = Frame("ended", n, how) =>
           AppFrame(f)' /\ ~Stage(f) /\ f.t = "ended" /\ f.of = n
    BY <1>1, <1>2 DEF AppFrame, FromHost, Frame, Stage, Loading, Looking
  <1>10. \A k \in DOMAIN F : /\ AppFrame(F[k])' /\ ~Stage(F[k])
                             /\ F[k].t \in Notices \cup {"ended"}
                             /\ F[k].t = "ended" => attached /\ F[k].of = n
    BY <1>8, <1>9 DEF Notice, Notices
  <1>11. Speaks(F) /\ Plainly(F)
    BY <1>2, <1>3, <1>8, <1>10, GoesOn
  <1>12. HostOK'
    <2>1. last' \in [of : DOMAIN owner, how : Ends]
      BY <1>1, <1>a
    <2>2. asked' \in [Asks -> {"none", "pending", "over"}]
      BY <1>0, <1>2 DEF HostOK
    <2> QED
      BY <1>0, <1>2, <2>1, <2>2 DEF HostOK
  <1>13. StageOK'
    BY <1>2, <1>11, StageSpoken
  <1>h. Joins(toApp', toApp, F)
    BY <1>11, FramesSpoken
  <1>i. \A k \in DOMAIN owner : k \in Nat /\ (owner[k].of = 0 \/ owner[k].of \in Prompts)
    BY <1>0, EachOwner DEF AppOK
  <1>14. UpdatesOK'
    <2>1. \A k \in DOMAIN F : /\ F[k].t \notin {"update", "running", "loaded"}
                              /\ ~attached => F[k].t # "ended"
      BY <1>10 DEF Notices
    <2>2. DOMAIN record \subseteq Nat
      BY <1>0, EachOwner
    <2>3. Tells(F)
      BY <1>2, <1>h, <2>1, <2>2 DEF Tells, sessVars
    <2> QED
      BY <1>0, <1>8, <2>3, UpdatesTold
  <1>15. Reports(F)
    <2>1. ASSUME NEW k \in DOMAIN F, F[k].t = "ended" PROVE Heard(F[k].of, F, k)
      <3>1. attached /\ F[k].of = n
        BY <1>10, <2>1
      <3>2. \A x \in Of(n)' : \/ x \in ToSet(log)
                              \/ \E j \in DOMAIN toApp : IsUpdate(j) /\ toApp[j].of = x
        BY <1>0, <1>2, <3>1 DEF Of, Said, UpdatesOK
      <3>3. running' # n
        BY <1>1, <1>2
      <3> QED
        BY <3>1, <3>2, <3>3 DEF Heard
    <2>2. \A k \in DOMAIN F : F[k].t # "loaded"
      BY <1>10 DEF Notices
    <2>3. \A k \in DOMAIN owner : running' # k
      BY <1>2, <1>i, NoneIs
    <2> QED
      BY <1>2, <1>h, <1>i, <2>1, <2>2, <2>3 DEF Reports, sessVars
  <1> QED
    BY <1>2, <1>11, <1>12, <1>13, <1>14, <1>15, <1>i, SayStep

\* A load or a lookup of a resume is answered.
LEMMA StageAnswered ==
  ASSUME ClientInv, NEW F, Speaks(F), Up, Takes(toHost', toHost), Stage(toHost[1]),
         attached' \in BOOLEAN,
         \A i, j \in DOMAIN F : Stage(F[i]) /\ Stage(F[j]) => i = j,
         \A i \in DOMAIN F :
            /\ Loading(F[i]) => replay # None /\ (F[i].how = "error" => ~attached')
            /\ Looking(F[i]) => link = "resuming" /\ replay = None
  PROVE  StageOK'
  <1>0. StageOK /\ IsSeq(F)
    BY Bound DEF Speaks
  <1>1. 1 \in DOMAIN toHost /\ \A j \in DOMAIN toApp : ~Stage(toApp[j])
    BY <1>0 DEF StageOK, Takes
  <1>2. \A i \in DOMAIN toHost' : ~Stage(toHost'[i])
    <2> SUFFICES ASSUME NEW i \in DOMAIN toHost', Stage(toHost'[i]) PROVE FALSE
      OBVIOUS
    <2>1. i + 1 \in DOMAIN toHost /\ toHost[i + 1] = toHost'[i] /\ i \in Nat \ {0}
      BY DEF Takes
    <2>2. i + 1 = 1
      BY <1>0, <1>1, <2>1 DEF StageOK
    <2> QED
      BY <2>1, <2>2
  <1>3. \A i \in DOMAIN toApp' : Stage(toApp'[i]) =>
           \E j \in DOMAIN F : i = Len(toApp) + j /\ toApp'[i] = F[j]
    BY <1>1, FramesSpoken
  <1>4. \A i, j \in DOMAIN toApp' : Stage(toApp'[i]) /\ Stage(toApp'[j]) => i = j
    <2> SUFFICES ASSUME NEW i \in DOMAIN toApp', NEW j \in DOMAIN toApp', Stage(toApp'[i]), Stage(toApp'[j])
                 PROVE  i = j
      OBVIOUS
    <2>1. PICK x \in DOMAIN F : i = Len(toApp) + x /\ toApp'[i] = F[x]
      BY <1>3
    <2>2. PICK y \in DOMAIN F : j = Len(toApp) + y /\ toApp'[j] = F[y]
      BY <1>3
    <2>3. x = y
      BY <2>1, <2>2
    <2> QED
      BY <2>1, <2>2, <2>3
  <1>5. \A i \in DOMAIN toApp' :
           /\ Loading(toApp'[i]) => replay # None /\ (toApp'[i].how = "error" => ~attached')
           /\ Looking(toApp'[i]) => link = "resuming" /\ replay = None
    BY <1>3 DEF Stage
  <1>6. link' = link /\ opened' = opened /\ replay' = replay
    BY DEF Speaks
  <1>7. /\ Up'
        /\ replay # None => IF replay.first THEN opened = "opening" /\ link = "online"
                            ELSE opened = "open" /\ link \in {"resuming", "stuck"}
        /\ opened = "opening" => replay # None /\ replay.first
    BY <1>0, <1>6 DEF StageOK, Up
  <1> QED
    BY <1>2, <1>4, <1>5, <1>6, <1>7 DEF StageOK, Stage, Loading, Looking

\* The frame the host takes.
LEMMA HostFirst ==
  ASSUME ClientInv, toHost # <<>>
  PROVE  /\ 1 \in DOMAIN toHost /\ Head(toHost) = toHost[1] /\ HostFrame(toHost[1])
         /\ IsSeq(Tail(toHost)) /\ Takes(Tail(toHost), toHost)
  <1>1. IsSeq(toHost) /\ FramesOK
    BY Bound
  <1>2. IsSeq(Tail(toHost)) /\ Takes(Tail(toHost), toHost)
    BY <1>1, Taken DEF Takes
  <1> QED
    BY <1>1, <1>2 DEF Takes, FramesOK

\* One frame is the answer.
LEMMA OneSpoken ==
  ASSUME ClientInv, Up, toHost # <<>>, toHost' = Tail(toHost), NEW f, AppFrame(f)',
         toApp' = toApp \o <<f>>, UNCHANGED <<link, sessVars, askVars, losses>>
  PROVE  Speaks(<<f>>) /\ \A i \in DOMAIN <<f>> : <<f>>[i] = f
  <1>1. IsSeq(<<f>>) /\ \A i \in DOMAIN <<f>> : i = 1 /\ <<f>>[i] = f
    BY One
  <1>2. \A i \in DOMAIN <<f>> : AppFrame(<<f>>[i])'
    BY <1>1 DEF AppFrame
  <1> QED
    BY <1>1, <1>2, HostFirst DEF Speaks, sessVars, askVars

LEMMA LoadFailsStep ==
  ASSUME ClientInv, Up, toHost # <<>>, toHost' = Tail(toHost), toHost[1].t = "load",
         attached' = FALSE, Answers(<<Frame("loaded", None, "error")>>),
         UNCHANGED <<record, running, last, owner, asked>>,
         UNCHANGED <<link, sessVars, askVars, losses>>
  PROVE  ClientInv'
  <1> DEFINE f == Frame("loaded", None, "error")
             F == <<f>>
  <1>0. StageOK /\ HostOK
    BY Bound
  <1>1. 1 \in DOMAIN toHost /\ Loading(toHost[1]) /\ Stage(toHost[1]) /\ Takes(toHost', toHost)
    BY HostFirst DEF Loading, Stage
  <1>2. replay # None /\ ~attached
    BY <1>0, <1>1 DEF StageOK, Loading
  <1>3. \A g : g = f => AppFrame(g)' /\ Loading(g) /\ ~Looking(g) /\ g.t = "loaded" /\ g.how = "error"
    BY DEF AppFrame, FromHost, Frame, Loading, Looking
  <1>4. Speaks(F) /\ \A i \in DOMAIN F : i = 1 /\ F[i] = f
    <2>1. AppFrame(f)'
      BY <1>3
    <2>2. Speaks(F)
      BY <2>1, OneSpoken DEF Answers
    <2> HIDE DEF f
    <2> QED
      BY <2>2, One
  <1> HIDE DEF f, F
  <1>5. StageOK'
    BY <1>1, <1>2, <1>3, <1>4, StageAnswered
  <1>6. asked' \in [Asks -> {"none", "pending", "over"}]
    BY <1>0 DEF HostOK
  <1> QED
    <2>1. attached' = attached
      BY <1>2, Bound
    <2>2. \A i \in DOMAIN F : F[i].t = "loaded" /\ F[i].how = "error"
      BY <1>3, <1>4
    <2> QED
      BY <1>4, <1>5, <1>6, <2>1, <2>2, NoticeSaid

LEMMA LoadStep ==
  ASSUME ClientInv, Up, toHost # <<>>, toHost' = Tail(toHost), toHost[1].t = "load",
         attached' = TRUE, NEW F, F = Replayed, Answers(F),
         UNCHANGED <<record, running, last, owner, asked>>,
         UNCHANGED <<link, sessVars, askVars, losses>>
  PROVE  ClientInv'
  <1>0. StageOK /\ HostOK /\ AppOK /\ FramesOK /\ UpdatesOK
    BY Bound
  <1>1. 1 \in DOMAIN toHost /\ Loading(toHost[1]) /\ Stage(toHost[1]) /\ Takes(toHost', toHost)
    BY HostFirst DEF Loading, Stage
  <1>2. replay # None /\ ~attached
    BY <1>0, <1>1 DEF StageOK, Loading
  <1>3. /\ IsSeq(F)
        /\ \A p \in DOMAIN record : p \in DOMAIN F /\ F[p] = Frame("update", p, None)
        /\ \A i \in DOMAIN F :
              /\ F[i].t \in {"update", "running", "ended", "loaded", "ask"}
              /\ F[i].t = "update" => i \in DOMAIN record /\ F[i].of = i
              /\ F[i].t = "running" => running # None /\ F[i].of = running
              /\ F[i].t = "ended" => /\ running = None /\ last # None
                                     /\ F[i] = Frame("ended", last.of, last.how)
                                     /\ \A p \in DOMAIN record : p < i
              /\ F[i].t = "ask" => F[i].of \in Pending
    BY <1>0, Snapshot
  <1>4. PICK m \in DOMAIN F :
               /\ F[m] = Frame("loaded", None, "ok")
               /\ \A i \in DOMAIN F : F[i].t = "loaded" => i = m
               /\ \A p \in DOMAIN record : p < m
               /\ running # None => \E i \in DOMAIN F : i < m /\ F[i].t = "running"
    BY <1>0, Snapshot
  <1>5. F[m].t = "loaded" /\ F[m].how = "ok"
    BY <1>4 DEF Frame
  <1>6. \A i \in DOMAIN F : /\ F[i].t = "loaded" => F[i].how = "ok"
                            /\ ~Looking(F[i]) /\ (Stage(F[i]) => i = m)
    BY <1>3, <1>4, <1>5 DEF Looking, Stage, Loading
  <1>7. ASSUME NEW i \in DOMAIN F PROVE AppFrame(F[i])'
    <2>1. F[i].t = "ended" => F[i].of \in DOMAIN owner /\ F[i].how \in Ends
      <3>1. ASSUME F[i].t = "ended" PROVE F[i].of \in DOMAIN owner /\ F[i].how \in Ends
        <4>1. F[i] = Frame("ended", last.of, last.how) /\ last # None
          BY <1>3, <3>1
        <4>2. last.of \in DOMAIN owner /\ last.how \in Ends
          BY <1>0, <4>1 DEF HostOK
        <4> QED
          BY <4>1, <4>2 DEF Frame
      <3> QED
        BY <3>1
    <2>2. F[i].t = "running" => F[i].of \in DOMAIN owner
      BY <1>0, <1>3 DEF HostOK
    <2>3. F[i].t = "update" => F[i].of \in DOMAIN record
      BY <1>3
    <2>4. F[i].t = "ask" => F[i].of \in Asks
      BY <1>3 DEF Pending
    <2>5. F[i].t \in {"update", "running", "ended", "loaded", "ask"} /\ (F[i].t = "loaded" => F[i].how = "ok")
      BY <1>3, <1>6
    <2> QED
      BY <2>1, <2>2, <2>3, <2>4, <2>5 DEF AppFrame, FromHost
  <1>8. Speaks(F)
    BY <1>3, <1>7, HostFirst DEF Speaks, Answers, sessVars, askVars
  <1>9. HostOK'
    BY <1>0, HostStays, Bound
  <1>10. StageOK'
    <2>1. \A i \in DOMAIN F : Loading(F[i]) => F[i].how # "error"
      BY <1>3, <1>6 DEF Loading
    <2> QED
      BY <1>1, <1>2, <1>6, <1>8, <2>1, StageAnswered
  <1>a. Joins(toApp', toApp, F)
    BY <1>8, FramesSpoken
  <1>11. UpdatesOK'
    BY <1>0, <1>8, <1>a, UpdatesReplayed DEF Speaks
  <1>b. \A k \in DOMAIN owner : k \in Nat /\ (owner[k].of = 0 \/ owner[k].of \in Prompts)
    BY <1>0, EachOwner DEF AppOK
  \* A turn that does not run: all that was said in it comes before.
  <1>12. ASSUME NEW n, running # n, NEW j \in DOMAIN F, \A p \in DOMAIN record : p < j
         PROVE  Heard(n, F, j)
    <2>1. running' # n /\ Of(n)' = Of(n)
      BY <1>12 DEF Of, Said
    <2>2. \A p \in Of(n) : \E i \in DOMAIN F : i < j /\ F[i].t = "update" /\ F[i].of = p
      <3> TAKE p \in Of(n)
      <3>1. p \in DOMAIN record
        BY DEF Of
      <3>2. F[p] = Frame("update", p, None) /\ p \in DOMAIN F /\ p < j
        BY <1>3, <1>12, <3>1
      <3>3. F[p].t = "update" /\ F[p].of = p
        BY <3>2 DEF Frame
      <3> QED
        BY <3>2, <3>3
    <2> QED
      BY <2>1, <2>2 DEF Heard
  <1>13. Reports(F)
    <2>1. ASSUME NEW j \in DOMAIN F, F[j].t = "ended" PROVE Heard(F[j].of, F, j)
      <3>1. F[j] = Frame("ended", last.of, last.how) /\ last # None /\ running = None
            /\ \A p \in DOMAIN record : p < j
        BY <1>3, <2>1
      <3>2. last.of \in DOMAIN owner
        BY <1>0, <3>1 DEF HostOK
      <3>3. running # F[j].of
        BY <1>b, <3>1, <3>2, NoneIs DEF Frame
      <3> QED
        BY <1>12, <3>1, <3>3
    <2>2. ASSUME NEW j \in DOMAIN F, F[j].t = "loaded", running = None,
                 NEW i \in DOMAIN obj, obj[i].id # None
          PROVE  Heard(obj[i].id, F, j)
      BY <1>4, <1>12, <2>2
    <2>3. \A j \in DOMAIN F : F[j].t = "loaded" =>
             \/ \E i \in DOMAIN F : i < j /\ F[i].t = "running"
             \/ \A i \in DOMAIN obj : obj[i].id # None => Heard(obj[i].id, F, j)
      BY <1>4, <2>2
    <2> QED
      BY <1>8, <1>a, <1>b, <2>1, <2>3 DEF Reports, Speaks
  <1> QED
    BY <1>8, <1>9, <1>10, <1>11, <1>13, <1>b, SayStep

LEMMA ResumeLookedUp ==
  ASSUME ClientInv, Up, toHost # <<>>, toHost' = Tail(toHost), toHost[1].t = "pending",
         toHost[1].how = "resume", Answers(<<Frame("pending", Pending, "resume")>>),
         UNCHANGED hostVars, UNCHANGED <<link, sessVars, askVars, losses>>
  PROVE  ClientInv'
  <1>a. PICK S : S = Pending
    OBVIOUS
  <1>b. PICK f : f = Frame("pending", S, "resume")
    OBVIOUS
  <1>c. PICK F : F = <<f>>
    OBVIOUS
  <1>0. StageOK /\ HostOK /\ attached \in BOOLEAN
    BY Bound
  <1>1. 1 \in DOMAIN toHost /\ Looking(toHost[1]) /\ Stage(toHost[1]) /\ Takes(toHost', toHost)
    BY HostFirst DEF Looking, Stage
  <1>2. replay = None /\ link = "resuming"
    BY <1>0, <1>1 DEF StageOK, Looking
  <1>3. AppFrame(f)' /\ ~Loading(f) /\ Looking(f) /\ f.t = "pending"
    BY <1>a, <1>b DEF AppFrame, FromHost, Frame, Loading, Looking, Pending
  <1>4. Speaks(F) /\ \A i \in DOMAIN F : i = 1 /\ F[i] = f
    <2>1. toApp' = toApp \o <<f>>
      BY <1>a, <1>b DEF Answers
    <2>2. Speaks(F)
      BY <1>3, <1>c, <2>1, OneSpoken
    <2> QED
      BY <1>c, <2>2, One
  <1>d. UNCHANGED <<record, running, last, owner, asked, attached>>
    BY DEF hostVars
  <1>5. StageOK'
    BY <1>0, <1>1, <1>2, <1>3, <1>4, <1>d, StageAnswered
  <1>6. asked' \in [Asks -> {"none", "pending", "over"}]
    BY <1>0, <1>d DEF HostOK
  <1>7. \A i \in DOMAIN F : F[i].t \in Notices
    BY <1>3, <1>4 DEF Notices
  <1> QED
    BY <1>4, <1>5, <1>6, <1>7, <1>d, NoticeSaid

\* A prompt refused, a lookup for a choice: one notice.
LEMMA OneNotice ==
  ASSUME ClientInv, Up, toHost # <<>>, toHost' = Tail(toHost), ~Stage(toHost[1]),
         NEW f, Notice(f), toApp' = toApp \o <<f>>,
         UNCHANGED hostVars, UNCHANGED <<link, sessVars, askVars, losses>>
  PROVE  ClientInv'
  <1>1. HostOK /\ UNCHANGED <<record, running, last, owner, asked, attached>>
    BY Bound DEF hostVars
  <1>2. PICK F : F = <<f>>
    OBVIOUS
  <1>3. \A i \in DOMAIN F : F[i] = f
    BY <1>2, One
  <1>4. AppFrame(f)' /\ ~Stage(f) /\ f.t \in Notices
    BY DEF Notice
  <1>5. Speaks(F)
    BY <1>2, <1>4, OneSpoken
  <1>6. Plainly(F)
    BY <1>3, <1>4 DEF Plainly
  <1>7. asked' \in [Asks -> {"none", "pending", "over"}]
    BY <1>1 DEF HostOK
  <1> QED
    BY <1>1, <1>3, <1>4, <1>5, <1>6, <1>7, NoticeStep

LEMMA AnswerStep ==
  ASSUME ClientInv, Up, toHost # <<>>, toHost' = Tail(toHost), toHost[1].t = "answer",
         NEW q, HostAnswer(q), UNCHANGED <<record, running, last, owner, attached>>,
         UNCHANGED <<link, sessVars, askVars, losses>>
  PROVE  ClientInv'
  <1>0. HostOK
    BY Bound
  <1>a. PICK G : G = IF asked[q] = "pending" THEN <<Frame("resolved", q, None)>> ELSE <<>>
    OBVIOUS
  <1> DEFINE H == <<Frame("answered", q, None)>>
  <1>b. PICK F : F = G \o H
    OBVIOUS
  <1>1. toApp' = toApp \o F /\ asked' = [asked EXCEPT ![q] = "over"]
    BY <1>a, <1>b DEF HostAnswer, Answers
  <1>2. IsSeq(G) /\ \A i \in DOMAIN G : Notice(G[i])
    BY <1>a, One, NoFrames, AnswerFrames
  <1>3. IsSeq(H) /\ \A i \in DOMAIN H : Notice(H[i])
    BY One, AnswerFrames
  <1> HIDE DEF H
  <1>4. IsSeq(F) /\ \A i \in DOMAIN F : Notice(F[i])
    <2>1. Joins(F, G, H)
      BY <1>2, <1>3, <1>b, Joined
    <2> QED
      BY <1>2, <1>3, <2>1 DEF Joins
  <1>5. ~Stage(toHost[1])
    BY DEF Stage, Loading, Looking
  <1>6. \A i \in DOMAIN F : AppFrame(F[i])' /\ ~Stage(F[i]) /\ F[i].t \in Notices
    BY <1>4 DEF Notice
  <1>7. Speaks(F) /\ Plainly(F)
    BY <1>1, <1>4, <1>5, <1>6, Answered
  <1>8. asked' \in [Asks -> {"none", "pending", "over"}]
    BY <1>0, <1>1 DEF HostOK
  <1> QED
    BY <1>6, <1>7, <1>8, NoticeStep

LEMMA HostTakesStep ==
  ASSUME ClientInv, HostTakes
  PROVE  ClientInv'
  <1>a. PICK f : f = toHost[1]
    OBVIOUS
  <1>1. /\ Up /\ toHost # <<>> /\ toHost' = Tail(toHost)
        /\ UNCHANGED <<link, sessVars, askVars, losses>>
    BY DEF HostTakes
  <1>2. Head(toHost) = f /\ HostFrame(f)
    BY <1>1, <1>a, HostFirst
  <1>3. \/ f.t = "load" /\ HostLoad /\ UNCHANGED <<record, running, last, owner, asked>>
        \/ f.t = "prompt" /\ HostPrompt(f.of)
        \/ /\ f.t = "pending" /\ Answers(<<Frame("pending", Pending, f.how)>>)
           /\ UNCHANGED hostVars
        \/ /\ f.t = "answer" /\ HostAnswer(f.of)
           /\ UNCHANGED <<record, running, last, owner, attached>>
    BY <1>2 DEF HostTakes
  <1>4. CASE f.t = "load" /\ HostLoad /\ UNCHANGED <<record, running, last, owner, asked>>
    <2>1. CASE attached' = TRUE /\ Answers(Replayed)
      <3>1. PICK F : F = Replayed
        OBVIOUS
      <3>2. Answers(F)
        BY <2>1, <3>1 DEF Answers
      <3> QED
        BY <1>1, <1>4, <1>a, <2>1, <3>1, <3>2, LoadStep
    <2>2. CASE attached' = FALSE /\ Answers(<<Frame("loaded", None, "error")>>)
      BY <1>1, <1>4, <1>a, <2>2, LoadFailsStep
    <2> QED
      BY <1>4, <2>1, <2>2 DEF HostLoad, Replayed
  <1>5. CASE f.t = "prompt" /\ HostPrompt(f.of)
    <2>1. f.of \in Prompts /\ ~Stage(f)
      BY <1>2, <1>5 DEF HostFrame, Stage, Loading, Looking
    <2>2. CASE attached /\ Starts(f.of)
      <3>1. Hears
        BY <1>1, <1>a, <2>1 DEF Hears
      <3> QED
        BY <1>1, <2>1, <2>2, <3>1, StartsStep
    <2>3. CASE Answers(<<Frame("prompted", f.of, "error")>>) /\ UNCHANGED hostVars
      <3>1. PICK g : g = Frame("prompted", f.of, "error")
        OBVIOUS
      <3>2. Notice(Frame("prompted", f.of, "error"))
        BY <1>1, <2>1, PromptedFrames DEF sessVars, Ends
      <3>3. toApp' = toApp \o <<g>>
        BY <2>3, <3>1 DEF Answers
      <3> QED
        BY <1>1, <1>a, <2>1, <2>3, <3>1, <3>2, <3>3, OneNotice
    <2> QED
      BY <1>5, <2>2, <2>3 DEF HostPrompt
  <1>6. CASE f.t = "pending" /\ Answers(<<Frame("pending", Pending, f.how)>>) /\ UNCHANGED hostVars
    <2>1. CASE f.how = "resume"
      BY <1>1, <1>6, <1>a, <2>1, ResumeLookedUp
    <2>2. CASE f.how = "find"
      <3>1. PICK S : S = Pending
        OBVIOUS
      <3>2. PICK g : g = Frame("pending", S, "find")
        OBVIOUS
      <3>3. Notice(g)
        <4>1. S \in SUBSET Asks
          BY <3>1 DEF Pending
        <4> QED
          BY <3>2, <4>1, PendingFrames
      <3>4. toApp' = toApp \o <<g>>
        BY <1>6, <2>2, <3>1, <3>2 DEF Answers
      <3>5. ~Stage(toHost[1])
        BY <1>6, <1>a, <2>2 DEF Stage, Loading, Looking
      <3> QED
        BY <1>1, <1>6, <3>3, <3>4, <3>5, OneNotice
    <2> QED
      BY <1>2, <1>6, <2>1, <2>2 DEF HostFrame
  <1>7. CASE /\ f.t = "answer" /\ HostAnswer(f.of)
             /\ UNCHANGED <<record, running, last, owner, attached>>
    BY <1>1, <1>7, <1>a, AnswerStep
  <1> QED
    BY <1>3, <1>4, <1>5, <1>6, <1>7

LEMMA ElsewhereStep ==
  ASSUME ClientInv, Elsewhere
  PROVE  ClientInv'
  <1>1. CASE Goes(OtherPrompts)
    <2>1. Starts(0) /\ Hears /\ UNCHANGED <<link, sessVars, askVars, losses>>
      BY <1>1 DEF Goes, OtherPrompts, Hears
    <2> QED
      BY <2>1, StartsStep
  <1>2. CASE Goes(AgentSays)
    BY <1>2, SaysStep
  <1>3. CASE Goes(TurnEnds)
    BY <1>3, EndsStep
  <1>4. ASSUME NEW q \in Asks, Goes(AgentAsks(q)) PROVE ClientInv'
    BY <1>4, AsksStep
  <1>5. ASSUME NEW q \in Asks, Goes(OtherAnswers(q)) PROVE ClientInv'
    BY <1>5, OtherAnswersStep
  <1> QED
    BY <1>1, <1>2, <1>3, <1>4, <1>5 DEF Elsewhere
-----------------------------------------------------------------------------
(* The frames the app takes *)

\* The app takes the first frame, f; the host and its queue stay.
Picks(f) ==
  /\ Up /\ toApp # <<>> /\ f = toApp[1] /\ toApp' = Tail(toApp)
  /\ UNCHANGED <<hostVars, losses>>

LEMMA AppFirst ==
  ASSUME ClientInv, NEW f, Picks(f)
  PROVE  /\ Takes(toApp', toApp) /\ IsSeq(toApp') /\ 1 \in DOMAIN toApp /\ Head(toApp) = f
         /\ f = toApp[1] /\ AppFrame(f) /\ Up
         /\ UNCHANGED <<record, running, last, owner, asked, attached, losses>>
         /\ HostOK /\ AppOK /\ FramesOK /\ StageOK /\ UpdatesOK /\ TurnsOK /\ HostOK'
         /\ \A i \in DOMAIN toApp' : i \in Nat \ {0} /\ i + 1 \in DOMAIN toApp /\ toApp'[i] = toApp[i + 1]
  <1>1. HostOK /\ AppOK /\ FramesOK /\ StageOK /\ UpdatesOK /\ TurnsOK
        /\ attached \in BOOLEAN /\ losses \in Nat
    BY Bound
  <1>2. UNCHANGED <<record, running, last, owner, asked, attached, losses>>
    BY DEF Picks, hostVars
  <1>3. Takes(toApp', toApp)
    BY <1>1, TakesFrames DEF Picks
  <1>4. 1 \in DOMAIN toApp /\ Head(toApp) = f /\ f = toApp[1] /\ Up
    BY <1>3 DEF Takes, Picks
  <1>5. AppFrame(f)
    BY <1>1, <1>4 DEF FramesOK
  <1>6. HostOK'
    BY <1>1, <1>2, HostStays
  <1> QED
    BY <1>1, <1>2, <1>3, <1>4, <1>5, <1>6 DEF Takes

\* The parts of the invariant, once a frame is taken.
LEMMA Picked ==
  ASSUME ClientInv, NEW f, Picks(f), AppOK', Grows, StageOK', UpdatesOK',
         EndedOK' /\ LoadedOK', SeenOK', IsSeq(toHost'),
         \A i \in DOMAIN toHost' : HostFrame(toHost[i])' \/ \E j \in DOMAIN toHost : toHost'[i] = toHost[j]
  PROVE  ClientInv'
  <1>1. FramesOK /\ HostOK' /\ IsSeq(toApp')
        /\ \A i \in DOMAIN toApp' : \E j \in DOMAIN toApp : toApp'[i] = toApp[j]
    BY AppFirst
  <1>2. FramesOK'
    BY <1>1, FramesKept
  <1> QED
    BY <1>1, <1>2 DEF ClientInv, TurnsOK

LEMMA QueueStays ==
  ASSUME ClientInv, UNCHANGED toHost
  PROVE  /\ IsSeq(toHost')
         /\ \A i \in DOMAIN toHost' : HostFrame(toHost[i])' \/ \E j \in DOMAIN toHost : toHost'[i] = toHost[j]
  BY Bound

LEMMA StagePicked ==
  ASSUME ClientInv, NEW f, Picks(f), UNCHANGED <<toHost, link, opened>>,
         replay' = None <=> replay = None, replay # None => replay'.first = replay.first
  PROVE  StageOK'
  <1>1. StageOK /\ FramesOK /\ StageStays /\ IsSeq(toApp') /\ Up
        /\ \A i \in DOMAIN toApp' : i + 1 \in DOMAIN toApp /\ toApp[i + 1] = toApp'[i]
    BY AppFirst DEF StageStays
  <1>2. \A i \in DOMAIN toHost' : i + 0 \in DOMAIN toHost /\ toHost[i + 0] = toHost'[i]
    BY Bound, SeqLength
  <1>3. IsSeq(toHost')
    BY QueueStays
  <1> QED
    BY <1>1, <1>2, <1>3, StageShift

\* The frame a resume or an opening waits for: no other is under way.
LEMMA LastStage ==
  ASSUME ClientInv, NEW f, Picks(f), Stage(f)
  PROVE  /\ \A i \in DOMAIN toApp' : ~Stage(toApp'[i])
         /\ \A i \in DOMAIN toHost : ~Stage(toHost[i])
         /\ Loading(f) => replay # None /\ (f.how = "error" => ~attached)
         /\ Looking(f) => link = "resuming" /\ replay = None
  <1>1. StageOK /\ 1 \in DOMAIN toApp /\ f = toApp[1]
        /\ \A i \in DOMAIN toApp' : i \in Nat \ {0} /\ i + 1 \in DOMAIN toApp /\ toApp'[i] = toApp[i + 1]
    BY AppFirst
  <1>2. ASSUME NEW i \in DOMAIN toApp', Stage(toApp'[i]) PROVE FALSE
    <2>1. i + 1 = 1
      BY <1>1, <1>2 DEF StageOK
    <2> QED
      BY <1>1, <2>1
  <1>3. \A i \in DOMAIN toHost : ~Stage(toHost[i])
    BY <1>1 DEF StageOK
  <1> QED
    BY <1>1, <1>2, <1>3 DEF StageOK

LEMMA Staged ==
  ASSUME Up', replay' = None, opened' # "opening",
         \A i \in DOMAIN toApp' : ~Stage(toApp'[i]),
         \A i, j \in DOMAIN toHost' : Stage(toHost'[i]) /\ Stage(toHost'[j]) => i = j,
         \A i \in DOMAIN toHost' : ~Loading(toHost'[i]) /\ (Looking(toHost'[i]) => link' = "resuming")
  PROVE  StageOK'
  <1>1. \A i \in DOMAIN toApp' : ~Loading(toApp'[i]) /\ ~Looking(toApp'[i])
    BY DEF Stage
  <1> QED
    BY <1>1 DEF StageOK, Stage, Loading, Looking

LEMMA Passed ==
  ASSUME ClientInv, NEW f, Picks(f), f.t # "update", UNCHANGED <<log, shown>>, Up',
         opened' # "opening" \/ opened = "opening", opened' # "no" \/ opened = "no",
         \/ replay' = None /\ (replay = None \/ f.t = "loaded")
         \/ replay # None /\ replay' # None /\ replay'.first = replay.first /\ replay'.index = replay.index
  PROVE  UpdatesOK'
  <1>1. Takes(toApp', toApp) /\ UpdatesOK /\ FramesOK /\ Up /\ UNCHANGED <<record, attached>>
        /\ toApp[1] = f
    BY AppFirst
  <1>2. Unopened' => log' = <<>> /\ shown' = <<>> /\ ~attached
    <2>1. Unopened' => Unopened
      BY <1>1 DEF Unopened, Up
    <2> QED
      BY <1>1, <2>1 DEF UpdatesOK, Unopened
  <1>3. Passes
    BY <1>1, <1>2 DEF Passes
  <1> QED
    BY <1>1, <1>3, UpdatesPassed
\* A frame that leaves the turns as they were, but for what they wait for.
LEMMA PassStep ==
  ASSUME ClientInv, NEW f, Picks(f), f.t \notin {"update", "running", "loaded"}, TurnsGoOn,
         UNCHANGED <<toHost, opened, log, replay, shown>>, StageOK', Up',
         ids' \subseteq requests', requests' \subseteq Asks
  PROVE  ClientInv'
  <1>1. /\ Takes(toApp', toApp) /\ toApp[1] = f
        /\ UNCHANGED <<record, running, last, owner, asked, attached, losses>>
        /\ AppOK /\ FramesOK /\ StageOK /\ TurnsOK
        /\ \A i \in DOMAIN toApp' : i + 1 \in DOMAIN toApp /\ toApp'[i] = toApp[i + 1]
    BY AppFirst
  <1>2. AppOK' /\ Grows
    <2>1. /\ link' \in {"away", "resuming", "online", "stuck", "failed", "closed"}
          /\ opened' \in {"no", "opening", "open"} /\ replay' \in Replays \cup {None}
      BY Bound DEF Up
    <2>2. AppOK'
      BY <1>1, <2>1, AppGoesOn
    <2> QED
      BY <1>1, <2>2, PromptsGrow DEF Grows
  <1>3. UpdatesOK'
    <2>1. \/ replay' = None /\ replay = None
          \/ replay # None /\ replay' # None /\ replay'.first = replay.first /\ replay'.index = replay.index
      OBVIOUS
    <2> QED
      BY <2>1, Passed
  <1>4. EndedOK' /\ LoadedOK'
    <2>1. \A i \in DOMAIN obj' : obj'[i].id # None => i \in DOMAIN obj /\ obj'[i].id = obj[i].id
      BY DEF TurnsGoOn, Same
    <2> QED
      BY <1>1, <2>1, EndsTaken
  <1>5. SeenOK'
    BY <1>1, SeenKept DEF TurnsOK
  <1> QED
    BY <1>2, <1>3, <1>4, <1>5, QueueStays, Picked

\* The session's turn ended.
LEMMA ClosedStep ==
  ASSUME ClientInv, NEW f, Picks(f), f.t \in {"ended", "loaded"}, NEW n \in DOMAIN owner, Over(n, 1),
         cur # 0, obj[cur].id \in {None, n}, NEW r, Closed(obj[cur], r, n),
         obj' = [obj EXCEPT ![cur] = r], cur' \in {0, cur},
         UNCHANGED <<opened, log, shown, requests, ids>>,
         \/ f.t = "ended" /\ UNCHANGED <<link, replay>>
         \/ f.t = "loaded" /\ replay' = None /\ link' \in {link, "online"},
         StageOK', Up', IsSeq(toHost'),
         \A i \in DOMAIN toHost' : HostFrame(toHost[i])' \/ \E j \in DOMAIN toHost : toHost'[i] = toHost[j]
  PROVE  ClientInv'
  <1>1. /\ Takes(toApp', toApp) /\ toApp[1] = f
        /\ UNCHANGED <<record, running, last, owner, asked, attached, losses>>
        /\ HostOK /\ AppOK /\ FramesOK /\ StageOK /\ TurnsOK
        /\ \A i \in DOMAIN toApp' : i + 1 \in DOMAIN toApp /\ toApp'[i] = toApp[i + 1]
        /\ \A i \in DOMAIN toApp : i \in Nat \ {0}
    BY AppFirst DEF Takes
  <1>2. cur \in DOMAIN obj /\ n \in Nat /\ n # None
    BY <1>1, EachSound, EachOwner, NoneIs
  <1>3. /\ Sound(r) /\ r.local = obj[cur].local /\ r.id = n /\ r.saw = obj[cur].saw /\ r \in Object
    BY NoneIs DEF Closed, Sound
  <1>4. AppOK' /\ Grows
    <2>1. r.saw \subseteq DOMAIN record /\ (obj[cur].local => opened = "open")
      BY <1>1, <1>2, <1>3 DEF AppOK
    <2>2. /\ \A i \in DOMAIN obj : i \in DOMAIN obj' /\ obj'[i] = IF i = cur THEN r ELSE obj[i]
          /\ DOMAIN obj' = DOMAIN obj /\ obj' \in Seq(Object) /\ Len(obj') = Len(obj)
      BY <1>1, <1>2, <1>3, EachSound
    <2>3. Prompts' = Prompts
      BY <1>3, <2>2 DEF Prompts
    <2>4. /\ link' \in {"away", "resuming", "online", "stuck", "failed", "closed"}
          /\ replay' \in Replays \cup {None} /\ opened' \in {"no", "opening", "open"}
          /\ cur' \in 0..Len(obj')
      BY <1>1, <2>2, Bound DEF AppOK
    <2>5. \A i \in DOMAIN obj' : /\ obj'[i].id \in DOMAIN owner \cup {None}
                                 /\ obj'[i].saw \subseteq DOMAIN record
                                 /\ obj'[i].finished = "done" => obj'[i].ended # None
                                 /\ obj'[i].ended # None => obj'[i].id # None
                                 /\ obj'[i].local => opened = "open"
      BY <1>1, <1>2, <1>3, <2>1, <2>2 DEF AppOK, Sound
    <2>6. AppOK'
      BY <1>1, <2>2, <2>3, <2>4, <2>5 DEF AppOK
    <2> QED
      BY <1>1, <2>3, <2>6 DEF Grows
  <1>5. UpdatesOK'
    <2>1. \/ replay' = None /\ (replay = None \/ f.t = "loaded")
          \/ replay # None /\ replay' # None /\ replay'.first = replay.first /\ replay'.index = replay.index
      OBVIOUS
    <2> QED
      BY <2>1, Passed
  <1>6. EndedOK' /\ LoadedOK'
    <2>1. \A i \in DOMAIN obj' : obj'[i].id # None =>
             \/ i \in DOMAIN obj /\ obj'[i].id = obj[i].id
             \/ \A m : m = obj'[i].id => Over(m, 1)
      BY <1>2, <1>3
    <2>2. f.t = "loaded" => \A j \in DOMAIN toApp' : toApp'[j].t # "loaded"
      BY LastStage DEF Stage, Loading
    <2>3. \A j \in DOMAIN toApp' : toApp'[j].t = "loaded" =>
             (replay.sawRunning \/ toApp[1].t = "running" => replay'.sawRunning)
      BY <1>1, <2>2
    <2> QED
      BY <1>1, <2>1, <2>3, EndsTaken
  <1>7. SeenOK'
    <2>1. running # n /\ Before(n, 1)
      BY DEF Over
    <2>2. ~\E i \in DOMAIN toApp : i < 1
      BY <1>1
    <2>3. Of(n) \subseteq ToSet(log)
      BY <2>1, <2>2 DEF Before
    <2> QED
      BY <1>1, <2>1, <2>3, SeenCloses DEF TurnsOK
  <1> QED
    BY <1>4, <1>5, <1>6, <1>7, Picked

LEMMA EndedTaken ==
  ASSUME ClientInv, NEW f, Picks(f), f.t = "ended", EndedNotice(f.of, f.how),
         UNCHANGED <<toHost, link, opened, log, replay, shown, askVars>>
  PROVE  ClientInv'
  <1>a. PICK n : n = f.of
    OBVIOUS
  <1>b. PICK how : how = f.how
    OBVIOUS
  <1>1. /\ n \in DOMAIN owner /\ how \in Ends /\ AppOK /\ HostOK /\ TurnsOK
        /\ 1 \in DOMAIN toApp /\ toApp[1] = f
    BY <1>a, <1>b, AppFirst DEF AppFrame
  <1>2. Up' /\ UNCHANGED <<requests, ids>> /\ requests \subseteq Asks /\ ids \subseteq requests
    BY AppFirst, Bound DEF Up, askVars
  <1>3. StageOK'
    BY StagePicked
  <1>4. CASE Mine(n)
    <2>1. cur # 0 /\ obj[cur].id \in {None, n} /\ cur \in DOMAIN obj /\ Sound(obj[cur])
      BY <1>1, <1>4, EachSound DEF Mine
    <2>2. n \in Nat
      BY <1>1, EachOwner
    <2>3. PICK r : r = Ended([obj[cur] EXCEPT !.id = n], how)
      OBVIOUS
    <2>4. Closed(obj[cur], r, n)
      BY <1>1, <2>1, <2>2, <2>3, Closes
    <2>5. obj' = [obj EXCEPT ![cur] = r] /\ cur' \in {0, cur}
      <3>1. Become([obj EXCEPT ![cur] = r])
        BY <1>4, <1>a, <1>b, <2>3 DEF EndedNotice
      <3> QED
        BY <3>1, BecomeCur
    <2>6. Over(n, 1)
      BY <1>1, <1>a DEF TurnsOK, EndedOK
    <2> QED
      BY <1>1, <1>2, <1>3, <2>1, <2>4, <2>5, <2>6, QueueStays, ClosedStep
  <1>5. CASE ~Mine(n)
    <2>1. UNCHANGED <<obj, cur>>
      BY <1>5, <1>a DEF EndedNotice
    <2>2. TurnsGoOn
      BY <1>1, <2>1, TurnsStay
    <2> QED
      BY <1>2, <1>3, <2>2, PassStep
  <1> QED
    BY <1>4, <1>5

LEMMA RunningTaken ==
  ASSUME ClientInv, NEW f, Picks(f), f.t = "running", Running(f.of),
         UNCHANGED <<toHost, link, opened, log, shown, askVars>>
  PROVE  ClientInv'
  <1>a. PICK n : n = f.of
    OBVIOUS
  <1>1. /\ n \in DOMAIN owner /\ AppOK /\ HostOK /\ TurnsOK /\ StageOK /\ FramesOK
        /\ toApp[1] = f /\ Takes(toApp', toApp)
        /\ UNCHANGED <<record, running, last, owner, asked, attached, losses>>
        /\ \A i \in DOMAIN toApp' : i + 1 \in DOMAIN toApp /\ toApp'[i] = toApp[i + 1]
    BY <1>a, AppFirst DEF AppFrame
  <1>2. Up' /\ UNCHANGED <<requests, ids>> /\ replay \in Replays \cup {None}
    BY AppFirst, Bound DEF Up, askVars
  <1>3. replay' = IF replay = None THEN None ELSE [replay EXCEPT !.sawRunning = TRUE]
    BY DEF Running
  <1>4. replay # None => /\ replay' \in Replays /\ replay'.first = replay.first
                         /\ replay'.index = replay.index /\ replay'.sawRunning
    BY <1>2, <1>3 DEF Replays
  <1>5. /\ replay = None <=> replay' = None
        /\ replay' \in Replays \cup {None}
    BY <1>3, <1>4, NoneIs
  <1>6. StageOK'
    BY <1>4, <1>5, StagePicked
  <1>7. UpdatesOK'
    BY <1>2, <1>4, <1>5, Passed
  <1>8. IF Mine(n) THEN obj' = [obj EXCEPT ![cur].id = n] /\ UNCHANGED cur
        ELSE obj' = Append(obj, NewTurn(FALSE, n)) /\ cur' = Len(obj) + 1
    BY <1>a DEF Running
  <1>9. SeenOK'
    BY <1>1, <1>8, SeenRuns DEF TurnsOK
  <1>10. EndedOK' /\ LoadedOK'
    <2>1. \A j \in DOMAIN toApp' : toApp'[j].t = "loaded" => replay'.sawRunning
      <3> SUFFICES ASSUME NEW j \in DOMAIN toApp', toApp'[j].t = "loaded" PROVE replay # None
        BY <1>4
      <3> QED
        BY <1>1 DEF StageOK, Loading
    <2> QED
      BY <1>1, <2>1, EndsTaken
  <1>11. AppOK' /\ Grows
    <2>1. CASE Mine(n)
      <3>1. cur \in DOMAIN obj /\ Sound(obj[cur]) /\ n \in Nat /\ n # None
        BY <1>1, <2>1, EachSound, EachOwner, NoneIs DEF Mine
      <3>2. PICK r : r = [obj[cur] EXCEPT !.id = n]
        OBVIOUS
      <3>3. /\ Sound(r) /\ r.local = obj[cur].local /\ r.id = n
            /\ r.saw = obj[cur].saw
        BY <3>1, <3>2 DEF Sound, Object
      <3>4. obj' = [obj EXCEPT ![cur] = r] /\ cur' \in {0, cur} /\ r.saw \subseteq DOMAIN record
        BY <1>1, <1>8, <2>1, <3>1, <3>2, <3>3 DEF AppOK
      <3> QED
        BY <1>1, <1>2, <1>5, <3>1, <3>3, <3>4, AppTurn
    <2>2. CASE ~Mine(n)
      BY <1>1, <1>2, <1>5, <1>8, <2>2, AppJoins
    <2> QED
      BY <2>1, <2>2
  <1> QED
    BY <1>6, <1>7, <1>9, <1>10, <1>11, QueueStays, Picked
LEMMA UpdateStep ==
  ASSUME ClientInv, NEW f, Picks(f), f.t = "update", Update(f.of),
         UNCHANGED <<toHost, link, opened, cur, askVars>>
  PROVE  ClientInv'
  <1>a. PICK p : p = f.of
    OBVIOUS
  <1>1. /\ p \in DOMAIN record /\ AppOK /\ HostOK /\ TurnsOK /\ StageOK /\ FramesOK /\ UpdatesOK
        /\ toApp[1] = f /\ Takes(toApp', toApp) /\ Up
        /\ UNCHANGED <<record, running, last, owner, asked, attached, losses>>
        /\ \A i \in DOMAIN toApp' : i + 1 \in DOMAIN toApp /\ toApp'[i] = toApp[i + 1]
    BY <1>a, AppFirst DEF AppFrame
  <1>2. UNCHANGED <<requests, ids>> /\ replay \in Replays \cup {None}
    BY Bound DEF askVars
  <1>3. /\ UpdatesOK'
        /\ Said(p) => p \in ToSet(log')
        /\ ToSet(log) \subseteq ToSet(log') /\ ToSet(log') \subseteq ToSet(log) \cup {p}
    BY <1>1, <1>a, UpdateTaken
  <1>4. \/ UNCHANGED replay
        \/ replay # None /\ replay' = [replay EXCEPT !.index = @ + 1]
    BY <1>a DEF Update, Repeated, Replaying
  <1>5. /\ replay = None <=> replay' = None
        /\ replay' \in Replays \cup {None}
        /\ replay # None => replay'.first = replay.first /\ replay'.sawRunning = replay.sawRunning
    <2>1. CASE UNCHANGED replay
      BY <1>2, <2>1
    <2>2. CASE replay # None /\ replay' = [replay EXCEPT !.index = @ + 1]
      <3>1. replay' \in Replays /\ replay'.first = replay.first /\ replay'.sawRunning = replay.sawRunning
        BY <1>2, <2>2 DEF Replays
      <3> QED
        BY <2>2, <3>1, NoneIs
    <2> QED
      BY <1>4, <2>1, <2>2
  <1>6. StageOK'
    BY <1>5, StagePicked
  <1>7. \/ UNCHANGED <<log, obj>>
        \/ IF opened = "opening" THEN UNCHANGED obj ELSE Streams(p)
    <2>1. (replay # None /\ replay.first) <=> opened = "opening"
      BY <1>1 DEF StageOK
    <2> QED
      BY <1>a, <2>1 DEF Update
  <1>8. UNCHANGED obj \/ (cur # 0 /\ obj' = [obj EXCEPT ![cur].saw = @ \cup {p}])
    BY <1>7 DEF Streams
  <1>9. AppOK' /\ Grows /\ \A i \in DOMAIN obj' : i \in DOMAIN obj /\ obj'[i].id = obj[i].id
    <2>1. CASE UNCHANGED obj
      <3>1. TurnsGoOn
        BY <1>1, <2>1, TurnsStay
      <3>2. /\ link' \in {"away", "resuming", "online", "stuck", "failed", "closed"}
            /\ opened' \in {"no", "opening", "open"} /\ ids' \subseteq requests' /\ requests' \subseteq Asks
        BY <1>2, Bound
      <3>3. AppOK'
        BY <1>1, <1>5, <3>1, <3>2, AppGoesOn
      <3> QED
        BY <1>1, <2>1, <3>1, <3>3, PromptsGrow DEF Grows
    <2>2. CASE cur # 0 /\ obj' = [obj EXCEPT ![cur].saw = @ \cup {p}]
      <3>1. cur \in DOMAIN obj /\ Sound(obj[cur]) /\ p \in Nat
        BY <1>1, <2>2, EachSound, EachOwner
      <3>2. PICK r : r = [obj[cur] EXCEPT !.saw = @ \cup {p}]
        OBVIOUS
      <3>3. /\ Sound(r) /\ r.local = obj[cur].local /\ r.id = obj[cur].id /\ r.ended = obj[cur].ended
            /\ r.saw = obj[cur].saw \cup {p}
        BY <3>1, <3>2 DEF Sound, Object
      <3>4. /\ r.saw \subseteq DOMAIN record /\ r.id \in DOMAIN owner \cup {None}
            /\ r.ended # None => r.id # None
        BY <1>1, <3>1, <3>3 DEF AppOK
      <3>5. obj' = [obj EXCEPT ![cur] = r] /\ cur' \in {0, cur}
        BY <2>2, <3>2
      <3>6. AppOK' /\ Grows
        BY <1>1, <1>2, <1>5, <3>1, <3>3, <3>4, <3>5, AppTurn
      <3> QED
        BY <3>1, <3>3, <3>5, <3>6
    <2> QED
      BY <1>8, <2>1, <2>2
  <1>10. EndedOK' /\ LoadedOK'
    <2>1. \A j \in DOMAIN toApp' : toApp'[j].t = "loaded" =>
             (replay.sawRunning \/ toApp[1].t = "running" => replay'.sawRunning)
      <3> SUFFICES ASSUME NEW j \in DOMAIN toApp', toApp'[j].t = "loaded" PROVE replay # None
        BY <1>1, <1>5
      <3> QED
        BY <1>1 DEF StageOK, Loading
    <2> QED
      BY <1>1, <1>3, <1>9, <1>a, <2>1, EndsTaken
  <1>11. SeenOK'
    <2>1. CASE UNCHANGED <<log, obj>>
      <3>1. TurnsGoOn
        BY <1>1, <2>1, TurnsStay
      <3> QED
        BY <1>1, <2>1, <3>1, SeenKept DEF TurnsOK
    <2>2. CASE IF opened = "opening" THEN UNCHANGED obj ELSE Streams(p)
      BY <1>1, <1>3, <2>2, SeenStreams DEF TurnsOK
    <2> QED
      BY <1>7, <2>1, <2>2
  <1> QED
    BY <1>3, <1>6, <1>9, <1>10, <1>11, QueueStays, Picked

\* An answer to a load that ends no turn.
LEMMA OpenedStep ==
  ASSUME ClientInv, NEW f, Picks(f), f.t = "loaded", TurnsGoOn, replay' = None,
         link' \in {link, "online"}, StageOK', Up', UNCHANGED <<requests, ids>>,
         opened' \in {"open", "no"}, opened = "open" => opened' = "open",
         IF opened' = "open" THEN UNCHANGED <<log, shown>>
         ELSE opened = "opening" /\ ~attached /\ log' = <<>> /\ shown' = <<>>,
         IsSeq(toHost'),
         \A i \in DOMAIN toHost' : HostFrame(toHost[i])' \/ \E j \in DOMAIN toHost : toHost'[i] = toHost[j]
  PROVE  ClientInv'
  <1>1. /\ Takes(toApp', toApp) /\ toApp[1] = f /\ Up
        /\ UNCHANGED <<record, running, last, owner, asked, attached, losses>>
        /\ AppOK /\ FramesOK /\ StageOK /\ UpdatesOK /\ TurnsOK
    BY AppFirst
  <1>2. AppOK' /\ Grows
    <2>1. /\ link' \in {"away", "resuming", "online", "stuck", "failed", "closed"}
          /\ opened' \in {"no", "opening", "open"} /\ ids' \subseteq requests' /\ requests' \subseteq Asks
          /\ replay' \in Replays \cup {None}
      BY Bound
    <2>2. AppOK'
      BY <1>1, <2>1, AppGoesOn
    <2> QED
      BY <1>1, <2>2, PromptsGrow DEF Grows
  <1>3. log' # log => log = <<>>
    BY <1>1 DEF UpdatesOK, Up
  <1>4. UpdatesOK'
    <2>1. CASE opened' = "open"
      BY <2>1, Passed
    <2>2. CASE opened' = "no"
      <3>1. Passes
        BY <1>1, <2>2 DEF Passes
      <3> QED
        BY <1>1, <3>1, UpdatesPassed
    <2> QED
      BY <2>1, <2>2
  <1>5. ToSet(log) \subseteq ToSet(log') /\ ToSet(log') \subseteq ToSet(log)
    <2>1. CASE log' = log
      BY <2>1
    <2>2. CASE log' # log
      <3>1. log = <<>> /\ log' = <<>>
        BY <1>3, <2>2
      <3> QED
        BY <3>1
    <2> QED
      BY <2>1, <2>2
  <1>6. EndedOK' /\ LoadedOK'
    <2>1. \A i \in DOMAIN obj' : obj'[i].id # None => i \in DOMAIN obj /\ obj'[i].id = obj[i].id
      BY DEF TurnsGoOn, Same
    <2>2. \A j \in DOMAIN toApp' : toApp'[j].t # "loaded"
      BY LastStage DEF Stage, Loading
    <2> QED
      BY <1>1, <1>5, <2>1, <2>2, EndsTaken
  <1>7. SeenOK'
    BY <1>1, <1>5, SeenKept DEF TurnsOK
  <1> QED
    BY <1>2, <1>4, <1>6, <1>7, Picked

LEMMA LoadedTaken ==
  ASSUME ClientInv, NEW f, Picks(f), f.t = "loaded", Loaded(f.how), UNCHANGED askVars
  PROVE  ClientInv'
  <1>1. /\ Takes(toApp', toApp) /\ toApp[1] = f /\ Up /\ f.how \in {"ok", "error"}
        /\ AppOK /\ HostOK /\ StageOK /\ TurnsOK /\ 1 \in DOMAIN toApp
        /\ \A i \in DOMAIN toApp : i \in Nat \ {0}
    BY AppFirst DEF AppFrame, Takes
  <1>2. Stage(f) /\ Loading(f)
    BY DEF Stage, Loading
  <1>3. /\ \A i \in DOMAIN toApp' : ~Stage(toApp'[i])
        /\ \A i \in DOMAIN toHost : ~Stage(toHost[i])
        /\ replay # None /\ (f.how = "error" => ~attached)
    BY <1>2, LastStage
  <1>4. replay' = None /\ UNCHANGED <<requests, ids>>
    BY DEF Loaded, askVars
  <1>5. CASE link = "resuming"
    <2>1. /\ LoadedTurn(f.how) /\ UNCHANGED <<opened, log, shown>> /\ opened = "open"
          /\ \/ Sends(<<Frame("pending", None, "resume")>>) /\ UNCHANGED link
             \/ link' = "online" /\ UNCHANGED toHost
      BY <1>1, <1>3, <1>5 DEF Loaded, StageOK
    <2>2. PICK g : g = Frame("pending", None, "resume")
      OBVIOUS
    <2>3. HostFrame(g)' /\ ~Loading(g) /\ HostFrame(g)
      BY <2>2 DEF HostFrame, Frame, Loading
    <2>4. /\ IsSeq(toHost')
          /\ \A i \in DOMAIN toHost' : HostFrame(toHost[i])' \/ \E j \in DOMAIN toHost : toHost'[i] = toHost[j]
          /\ StageOK' /\ Up' /\ link' \in {link, "online"}
      <3>1. CASE Sends(<<Frame("pending", None, "resume")>>) /\ UNCHANGED link
        <4>1. toHost' = toHost \o <<g>> /\ IsSeq(toHost)
          BY <2>2, <3>1, Bound DEF Sends
        <4>2. /\ IsSeq(toHost')
              /\ \A i \in DOMAIN toHost' : \/ i \in DOMAIN toHost /\ toHost'[i] = toHost[i]
                                           \/ i = Len(toHost) + 1 /\ toHost'[i] = g
          BY <4>1, Sent
        <4>3. \A i \in DOMAIN toHost' : toHost'[i] = g => HostFrame(toHost[i])'
          BY <2>3 DEF HostFrame
        <4>4. /\ \A i, j \in DOMAIN toHost' : Stage(toHost'[i]) /\ Stage(toHost'[j]) => i = j
              /\ \A i \in DOMAIN toHost' : ~Loading(toHost'[i])
          BY <1>3, <2>3, <4>2 DEF Stage
        <4>5. StageOK'
          BY <1>3, <1>4, <1>5, <2>1, <3>1, <4>4, Staged DEF Up
        <4> QED
          BY <1>5, <3>1, <4>2, <4>3, <4>5 DEF Up
      <3>2. CASE link' = "online" /\ UNCHANGED toHost
        <4>1. /\ \A i, j \in DOMAIN toHost' : Stage(toHost'[i]) /\ Stage(toHost'[j]) => i = j
              /\ \A i \in DOMAIN toHost' : ~Loading(toHost'[i]) /\ ~Looking(toHost'[i])
          BY <1>3, <3>2 DEF Stage
        <4>2. Up'
          BY <3>2 DEF Up
        <4>3. StageOK'
          BY <1>3, <1>4, <2>1, <4>1, <4>2, Staged
        <4> QED
          BY <3>2, <4>2, <4>3, QueueStays
      <3> QED
        BY <2>1, <3>1, <3>2
    <2>5. CASE TurnsGoOn
      BY <1>4, <2>1, <2>4, <2>5, OpenedStep
    <2>6. CASE cur # 0 /\ f.how = "ok" /\ ~replay.sawRunning /\ obj[cur].id # None
      <3>1. PICK o : o = obj[cur]
        OBVIOUS
      <3>2. PICK n : n = o.id
        OBVIOUS
      <3>3. cur \in DOMAIN obj /\ Sound(o)
        BY <1>1, <2>6, <3>1, EachSound
      <3>4. n \in DOMAIN owner /\ n \in Nat
        BY <1>1, <2>6, <3>1, <3>2, <3>3, EachOwner DEF AppOK
      <3>5. Over(n, 1)
        <4>1. ~\E i \in DOMAIN toApp : i < 1 /\ toApp[i].t = "running"
          BY <1>1
        <4>2. \A i \in DOMAIN obj : obj[i].id # None => Over(obj[i].id, 1)
          BY <1>1, <2>6, <4>1 DEF TurnsOK, LoadedOK
        <4> QED
          BY <2>6, <3>1, <3>2, <3>3, <4>2
      <3>6. PICK r : r = Ended(o, "done")
        OBVIOUS
      <3>7. Closed(o, r, n)
        <4>1. [o EXCEPT !.id = n] = o
          BY <3>2, <3>3 DEF Sound, Object
        <4> QED
          BY <3>3, <3>4, <3>6, <4>1, Closes DEF Ends
      <3>8. obj' = [obj EXCEPT ![cur] = r] /\ cur' \in {0, cur}
        <4>1. Become([obj EXCEPT ![cur] = r])
          BY <2>1, <2>6, <3>1, <3>6 DEF LoadedTurn, ResumedTurn
        <4> QED
          BY <4>1, BecomeCur
      <3> QED
        BY <1>4, <2>1, <2>4, <2>6, <3>1, <3>2, <3>4, <3>5, <3>7, <3>8, ClosedStep
    <2>7. CASE cur = 0 \/ (f.how = "ok" /\ replay.sawRunning)
      <3>1. UNCHANGED <<obj, cur>>
        BY <2>1, <2>7 DEF LoadedTurn
      <3>2. TurnsGoOn
        BY <1>1, <3>1, TurnsStay
      <3> QED
        BY <2>5, <3>2
    <2>8. CASE cur # 0 /\ (f.how = "error" \/ (~replay.sawRunning /\ obj[cur].id = None))
      <3>1. Become([obj EXCEPT ![cur] = Failed(obj[cur])])
        BY <2>1, <2>8 DEF LoadedTurn, ResumedTurn
      <3>2. PICK r : r = Failed(obj[cur])
        OBVIOUS
      <3>3. cur \in DOMAIN obj /\ Same(obj[cur], r)
        BY <1>1, <2>8, <3>2, EachSound, Goes_on
      <3>4. obj' = [obj EXCEPT ![cur] = r] /\ cur' \in {0, cur}
        BY <3>1, <3>2, BecomeCur
      <3>5. TurnsGoOn
        BY <1>1, <3>3, <3>4, TurnReplaced
      <3> QED
        BY <2>5, <3>5
    <2> QED
      BY <1>1, <2>6, <2>7, <2>8
  <1>6. CASE link # "resuming"
    <2>1. /\ UNCHANGED <<link, toHost, obj>> /\ cur' \in {0, cur} /\ opened = "opening"
          /\ IF f.how = "ok" THEN opened' = "open" /\ UNCHANGED <<log, shown>>
             ELSE opened' = "no" /\ log' = <<>> /\ shown' = <<>>
      BY <1>1, <1>3, <1>6 DEF Loaded, StageOK, Up
    <2>2. TurnsGoOn
      BY <1>1, <2>1, TurnsStay
    <2>3. Up'
      BY <1>1, <2>1 DEF Up
    <2>4. StageOK'
      <3>1. /\ \A i, j \in DOMAIN toHost' : Stage(toHost'[i]) /\ Stage(toHost'[j]) => i = j
            /\ \A i \in DOMAIN toHost' : ~Loading(toHost'[i]) /\ ~Looking(toHost'[i])
        BY <1>3, <2>1 DEF Stage
      <3>2. opened' # "opening"
        BY <2>1
      <3> QED
        BY <1>3, <1>4, <2>3, <3>1, <3>2, Staged
    <2>5. /\ opened' \in {"open", "no"} /\ (opened = "open" => opened' = "open")
          /\ IF opened' = "open" THEN UNCHANGED <<log, shown>>
             ELSE opened = "opening" /\ ~attached /\ log' = <<>> /\ shown' = <<>>
      BY <1>1, <1>3, <2>1
    <2> QED
      BY <1>4, <2>1, <2>2, <2>3, <2>4, <2>5, QueueStays, OpenedStep
  <1> QED
    BY <1>5, <1>6
LEMMA PromptedTaken ==
  ASSUME ClientInv, NEW f, Picks(f), f.t = "prompted",
         Become([obj EXCEPT ![f.of] = Responded(@, f.how)]),
         UNCHANGED <<toHost, link, opened, log, replay, shown, askVars>>
  PROVE  ClientInv'
  <1>a. PICK i : i = f.of
    OBVIOUS
  <1>1. i \in DOMAIN obj /\ f.how \in Ends /\ AppOK
    BY <1>a, AppFirst DEF AppFrame, Prompts
  <1>2. PICK r : r = Responded(obj[i], f.how)
    OBVIOUS
  <1>3. Same(obj[i], r)
    BY <1>1, <1>2, EachSound, Goes_on
  <1>4. obj' = [obj EXCEPT ![i] = r] /\ cur' \in {0, cur}
    <2>1. Become([obj EXCEPT ![i] = r])
      BY <1>2, <1>a
    <2> QED
      BY <2>1, BecomeCur
  <1>5. TurnsGoOn
    BY <1>1, <1>3, <1>4, TurnReplaced
  <1>6. StageOK' /\ Up' /\ ids' \subseteq requests' /\ requests' \subseteq Asks
    BY StagePicked, AppFirst, Bound DEF Up, askVars
  <1> QED
    BY <1>5, <1>6, PassStep

LEMMA PendingTaken ==
  ASSUME ClientInv, NEW f, Picks(f), f.t = "pending", PendingAnswer(f.of, f.how),
         UNCHANGED <<toHost, sessVars>>
  PROVE  ClientInv'
  <1>1. /\ f.of \subseteq Asks /\ f.how \in {"find", "resume"} /\ AppOK /\ Up /\ StageOK
        /\ ids \subseteq requests /\ requests \subseteq Asks
    BY AppFirst, Bound DEF AppFrame
  <1>2. UNCHANGED <<opened, obj, cur, log, replay, shown>>
    BY DEF sessVars
  <1>3. TurnsGoOn
    BY <1>1, <1>2, TurnsStay
  <1>4. ids' \subseteq requests' /\ requests' \subseteq Asks
    BY <1>1 DEF PendingAnswer, Reconciled
  <1>5. StageOK' /\ Up'
    <2>1. CASE f.how = "find"
      <3>1. UNCHANGED link
        BY <2>1 DEF PendingAnswer
      <3> QED
        BY <1>1, <1>2, <3>1, StagePicked DEF Up
    <2>2. CASE f.how = "resume"
      <3>1. link' = "online" /\ Up'
        BY <2>2 DEF PendingAnswer, Up
      <3>2. Stage(f) /\ Looking(f)
        BY <2>2 DEF Stage, Looking
      <3>3. /\ \A i \in DOMAIN toApp' : ~Stage(toApp'[i])
            /\ \A i \in DOMAIN toHost : ~Stage(toHost[i])
            /\ replay = None
        BY <3>2, LastStage
      <3>4. opened # "opening"
        BY <1>1, <3>3 DEF StageOK
      <3>5. /\ \A i, j \in DOMAIN toHost' : Stage(toHost'[i]) /\ Stage(toHost'[j]) => i = j
            /\ \A i \in DOMAIN toHost' : ~Loading(toHost'[i]) /\ ~Looking(toHost'[i])
        BY <3>3 DEF Stage
      <3> QED
        BY <1>2, <3>1, <3>3, <3>4, <3>5, Staged
    <2> QED
      BY <1>1, <2>1, <2>2
  <1> QED
    BY <1>2, <1>3, <1>4, <1>5, PassStep

LEMMA InboxTaken ==
  ASSUME ClientInv, NEW f, Picks(f), UNCHANGED <<toHost, link, sessVars>>,
         \/ f.t = "answered" /\ UNCHANGED <<requests, ids>>
         \/ f.t \in {"ask", "added", "resolved"} /\ AskFrame(f)
  PROVE  ClientInv'
  <1>1. AppOK /\ Up /\ ids \subseteq requests /\ requests \subseteq Asks
        /\ (f.t \in {"ask", "added"} => f.of \in Asks)
    BY AppFirst, Bound DEF AppFrame
  <1>2. UNCHANGED <<opened, obj, cur, log, replay, shown>>
    BY DEF sessVars
  <1>3. TurnsGoOn
    BY <1>1, <1>2, TurnsStay
  <1>4. ids' \subseteq requests' /\ requests' \subseteq Asks
    BY <1>1 DEF AskFrame
  <1>5. StageOK' /\ Up'
    BY <1>1, <1>2, StagePicked DEF Up
  <1> QED
    BY <1>2, <1>3, <1>4, <1>5, PassStep

LEMMA TakeStep ==
  ASSUME ClientInv, Take
  PROVE  ClientInv'
  <1>1. PICK f : f = toApp[1]
    OBVIOUS
  <1>2. Picks(f)
    BY <1>1 DEF Take, Picks
  <1>3. Head(toApp) = f
    BY <1>2, AppFirst
  <1>4. \/ f.t = "update" /\ Update(f.of) /\ UNCHANGED <<toHost, link, opened, cur, askVars>>
        \/ f.t = "running" /\ Running(f.of) /\ UNCHANGED <<toHost, link, opened, log, shown, askVars>>
        \/ /\ f.t = "ended" /\ EndedNotice(f.of, f.how)
           /\ UNCHANGED <<toHost, link, opened, log, replay, shown, askVars>>
        \/ f.t = "loaded" /\ Loaded(f.how) /\ UNCHANGED askVars
        \/ /\ f.t = "prompted" /\ Become([obj EXCEPT ![f.of] = Responded(@, f.how)])
           /\ UNCHANGED <<toHost, link, opened, log, replay, shown, askVars>>
        \/ f.t = "pending" /\ PendingAnswer(f.of, f.how) /\ UNCHANGED <<toHost, sessVars>>
        \/ /\ f.t = "answered" /\ UNCHANGED <<toHost, link, sessVars, requests, ids>>
        \/ /\ f.t \in {"ask", "added", "resolved"} /\ AskFrame(f)
           /\ UNCHANGED <<toHost, link, sessVars, choosing>>
    BY <1>3 DEF Take
  <1>5. CASE f.t = "update" /\ Update(f.of) /\ UNCHANGED <<toHost, link, opened, cur, askVars>>
    BY <1>2, <1>5, UpdateStep
  <1>6. CASE f.t = "running" /\ Running(f.of) /\ UNCHANGED <<toHost, link, opened, log, shown, askVars>>
    BY <1>2, <1>6, RunningTaken
  <1>7. CASE /\ f.t = "ended" /\ EndedNotice(f.of, f.how)
             /\ UNCHANGED <<toHost, link, opened, log, replay, shown, askVars>>
    BY <1>2, <1>7, EndedTaken
  <1>8. CASE f.t = "loaded" /\ Loaded(f.how) /\ UNCHANGED askVars
    BY <1>2, <1>8, LoadedTaken
  <1>9. CASE /\ f.t = "prompted" /\ Become([obj EXCEPT ![f.of] = Responded(@, f.how)])
             /\ UNCHANGED <<toHost, link, opened, log, replay, shown, askVars>>
    BY <1>2, <1>9, PromptedTaken
  <1>10. CASE f.t = "pending" /\ PendingAnswer(f.of, f.how) /\ UNCHANGED <<toHost, sessVars>>
    BY <1>2, <1>10, PendingTaken
  <1>11. CASE f.t = "answered" /\ UNCHANGED <<toHost, link, sessVars, requests, ids>>
    BY <1>2, <1>11, InboxTaken
  <1>12. CASE /\ f.t \in {"ask", "added", "resolved"} /\ AskFrame(f)
              /\ UNCHANGED <<toHost, link, sessVars, choosing>>
    BY <1>2, <1>12, InboxTaken
  <1> QED
    BY <1>4, <1>5, <1>6, <1>7, <1>8, <1>9, <1>10, <1>11, <1>12

-----------------------------------------------------------------------------
(* The theorem *)

LEMMA InitInv ==
  ASSUME ClientInit
  PROVE  ClientInv
  <1>a. /\ record = <<>> /\ running = None /\ last = None /\ owner = <<>>
        /\ asked = [q \in Asks |-> "none"] /\ attached = FALSE
        /\ toHost = <<>> /\ toApp = <<>> /\ link = "online" /\ opened = "no"
        /\ obj = <<>> /\ cur = 0 /\ log = <<>> /\ replay = None /\ shown = <<>>
        /\ requests = {} /\ ids = {} /\ losses = 0
    BY DEF ClientInit
  <1>b. /\ DOMAIN record = {} /\ DOMAIN owner = {} /\ DOMAIN toHost = {} /\ DOMAIN toApp = {}
        /\ DOMAIN obj = {} /\ DOMAIN log = {} /\ DOMAIN shown = {} /\ Len(obj) = 0 /\ Len(log) = 0
    BY <1>a, NoFrames
  <1>1. HostOK
    <2>1. /\ record \in Seq([by : {"agent", "app", "other"}, turn : Nat])
          /\ owner \in Seq([of : Nat, at : Nat])
      BY <1>a
    <2>2. asked \in [Asks -> {"none", "pending", "over"}]
      BY <1>a
    <2> QED
      BY <1>a, <1>b, <2>1, <2>2 DEF HostOK
  <1>2. AppOK
    BY <1>a, <1>b DEF AppOK
  <1>3. FramesOK
    BY <1>a, <1>b, NoFrames DEF FramesOK
  <1>4. StageOK
    BY <1>a, <1>b DEF StageOK, Up
  <1>5. UpdatesOK
    <2>1. ToSet(log) = {} /\ ToSet(shown) = {}
      BY <1>b DEF ToSet
    <2> QED
      BY <1>a, <1>b, <2>1 DEF UpdatesOK, ShownOnce, Fresh
  <1>6. TurnsOK
    BY <1>a, <1>b DEF TurnsOK, EndedOK, LoadedOK, SeenOK
  <1> QED
    BY <1>1, <1>2, <1>3, <1>4, <1>5, <1>6 DEF ClientInv

LEMMA NextInv ==
  ASSUME ClientInv, [ClientNext]_vars
  PROVE  ClientInv'
  <1>1. CASE App
    <2>1. CASE OpenSession
      BY <2>1, OpenStep
    <2>2. CASE Prompt
      BY <2>2, PromptStep
    <2>3. CASE Close
      BY <2>3, CloseStep
    <2>4. CASE ChooseSends \/ ChooseGivesUp \/ \E q \in Asks : Choose(q)
      BY <2>4, ChooseSteps
    <2>5. ASSUME NEW i \in Prompts, SendWaiting(i) \/ GraceOver(i) PROVE ClientInv'
      BY <2>5, SendWaitingStep, GraceOverStep
    <2> QED
      BY <1>1, <2>1, <2>2, <2>3, <2>4, <2>5 DEF App
  <1>2. CASE Connect
    BY <1>2, ConnectStep
  <1>3. CASE Lose
    BY <1>3, LoseStep
  <1>4. CASE Unpaired
    BY <1>4, UnpairedStep
  <1>5. CASE Take
    BY <1>5, TakeStep
  <1>6. CASE HostTakes
    BY <1>6, HostTakesStep
  <1>7. CASE Elsewhere
    BY <1>7, ElsewhereStep
  <1>8. CASE UNCHANGED vars
    <2>1. /\ UNCHANGED <<hostVars, toApp, link, opened, obj, cur, log, replay, shown, losses>>
          /\ requests' = requests /\ ids' = ids /\ UNCHANGED toHost
      BY <1>8 DEF vars, sessVars, askVars
    <2>2. TurnsGoOn
      BY <2>1, Bound, TurnsStay
    <2>3. Quietly
      BY <2>1, <2>2 DEF Quietly
    <2> QED
      BY <2>3, QuietStep
  <1> QED
    BY <1>1, <1>2, <1>3, <1>4, <1>5, <1>6, <1>7, <1>8 DEF ClientNext

LEMMA InvSound ==
  ASSUME ClientInv
  PROVE  ClientSound
  <1>0. HostOK /\ AppOK /\ StageOK /\ UpdatesOK /\ TurnsOK
    BY DEF ClientInv
  <1>1. ClientTypeOK
    <2>1. \A i \in DOMAIN obj : obj[i].finished \in {None, "done", "error"}
      BY <1>0, EachSound DEF Sound, Object, Ends
    <2> QED
      BY <1>0, <2>1 DEF ClientTypeOK, AppOK, UpdatesOK, StageOK
  <1>2. ShownOnce
    BY <1>0 DEF UpdatesOK
  <1>3. TurnWhole
    <2> SUFFICES ASSUME NEW i \in Prompts, obj[i].finished = "done", obj[i].id # None,
                        NEW n, n = obj[i].id, owner[n].of = i,
                        NEW p \in DOMAIN record, record[p].by = "agent", record[p].turn = n
                 PROVE  p \in obj[i].saw
      BY DEF TurnWhole
    <2>1. i \in DOMAIN obj /\ i # 0 /\ n \in DOMAIN owner /\ obj[i].ended # None
      BY <1>0, EachSound DEF Prompts, AppOK
    <2>2. Of(n) \subseteq obj[i].saw
      BY <1>0, <2>1 DEF TurnsOK, SeenOK
    <2> QED
      BY <2>2 DEF Of, Said
  <1> QED
    BY <1>1, <1>2, <1>3 DEF ClientSound

(* Whatever connections drop, and whenever the app, the host and the other *)
(* devices go on, the app is shown each update of its session once and in  *)
(* the order of the host's record, and a prompt's turn that is done got    *)
(* every update its agent said in it (client.ts, Session._update,          *)
(* _turnNotice, _loaded).                                                  *)
THEOREM ClientShows == ClientSpec => []ClientSound
  <1>1. ClientInit => ClientInv
    BY InitInv
  <1>2. ClientInv /\ [ClientNext]_vars => ClientInv'
    BY NextInv
  <1>3. ClientInv => ClientSound
    BY InvSound
  <1> QED
    BY <1>1, <1>2, <1>3, PTL DEF ClientSpec
-----------------------------------------------------------------------------
(* Once the link is ready and the frames are in, the app agrees with the   *)
(* host.                                                                   *)

\* A frame that says a request waits, or that one is over.
Adding(f, q) == (f.t \in {"ask", "added"} /\ f.of = q) \/ (f.t = "pending" /\ q \in f.of)
Removing(f, q) == f.t = "resolved" /\ f.of = q
Lacks(f, q) == Looking(f) /\ q \notin f.of
\* What clears a request the host has no more: it is under way, or a lookup is.
Clears(q) ==
  \/ ~Up \/ (link = "resuming" /\ replay # None)
  \/ \E i \in DOMAIN toHost : Looking(toHost[i])
  \/ \E i \in DOMAIN toApp : Removing(toApp[i], q) \/ Lacks(toApp[i], q)
InboxOK ==
  /\ attached => \A q \in Pending :
        /\ q \in requests \/ \E i \in DOMAIN toApp : Adding(toApp[i], q)
        /\ \A i \in DOMAIN toApp : Lacks(toApp[i], q) =>
              \E j \in DOMAIN toApp : i < j /\ Adding(toApp[j], q)
  /\ \A q \in Asks, i \in DOMAIN toApp :
        /\ Removing(toApp[i], q) => asked[q] = "over"
        /\ Adding(toApp[i], q) /\ asked[q] # "pending" =>
              \E j \in DOMAIN toApp : i < j /\ Removing(toApp[j], q)
  /\ \A q \in requests : asked[q] # "pending" => Clears(q)

\* A replay is expected while a load or its answer is under way.
LoadComes == \/ \E i \in DOMAIN toHost : Loading(toHost[i])
             \/ \E i \in DOMAIN toApp : Loading(toApp[i])
LoadsOK == replay # None /\ Up => LoadComes /\ (~attached => ~replay.sawRunning)

\* The session's turn waits for the resume to settle it; o goes on at the
\* host, or its end or its prompt's answer is to come.
Alive == link \in {"away", "resuming", "online"}
Resumes == ~Up \/ (replay # None /\ ~replay.sawRunning)
EndComes(n) == \E i \in DOMAIN toApp : toApp[i].t = "ended" /\ toApp[i].of = n
Steady(o) ==
  \/ o.awaits /\ (o.id = None \/ o.ended # None)
  \/ o.id # None /\ attached /\ (o.id = running \/ EndComes(o.id))
AnswerComes(i) ==
  \/ i \in Waiting
  \/ \E k \in DOMAIN toHost : toHost[k].t = "prompt" /\ toHost[k].of = i
  \/ \E k \in DOMAIN toApp : toApp[k].t = "prompted" /\ toApp[k].of = i
  \/ running # None /\ owner[running].of = i /\ owner[running].at = losses
CurOK == cur # 0 =>
  /\ obj[cur].finished = None
  /\ link = "closed" \/ opened = "open" \/ (opened = "opening" /\ Up /\ replay.sawRunning)
  /\ Resumes \/ Steady(obj[cur])
  /\ Alive /\ obj[cur].awaits => AnswerComes(cur)
  /\ obj[cur].id = None => obj[cur].local

\* A turn that ended runs no more; one of this connection's is told of.
OwnOK ==
  /\ \A i \in DOMAIN obj : obj[i].ended # None => obj[i].id # running
  /\ Alive /\ running # None /\ owner[running].of # 0 /\ owner[running].at = losses => attached
  /\ \A n \in DOMAIN owner : owner[n].at <= losses

\* The turn that runs is the app's, or on its way to it; one that does no
\* more is followed by its end, and by the one that runs.
Runs(i, n) == toApp[i].t = "running" /\ toApp[i].of = n
RunOK ==
  /\ attached /\ running # None => \/ cur # 0 /\ obj[cur].id = running
                                   \/ \E i \in DOMAIN toApp : Runs(i, running)
  /\ \A i \in DOMAIN toApp : toApp[i].t = "running" /\ toApp[i].of # running =>
        /\ \E k \in DOMAIN toApp : i < k /\ toApp[k].t = "ended" /\ toApp[k].of = toApp[i].of
        /\ running # None => \E k \in DOMAIN toApp : i < k /\ Runs(k, running)
  /\ \A k \in DOMAIN toApp : toApp[k].t = "prompted" /\ toApp[k].how = "done" /\ toApp[k].of = cur
        /\ obj[cur].id = None => \E j \in DOMAIN toApp : j < k /\ toApp[j].t = "running"

AgreeInv == InboxOK /\ LoadsOK /\ CurOK /\ OwnOK /\ RunOK

-----------------------------------------------------------------------------
(* The turns, in detail *)

LEMMA Responds ==
  ASSUME NEW o, Sound(o), NEW how \in Ends, NEW r, r = Responded(o, how)
  PROVE  /\ r.id = o.id /\ r.ended = o.ended /\ r.local = o.local /\ ~r.awaits
         /\ o.finished # None => r.finished # None
         /\ o.ended # None => r.finished # None
         /\ o.id = None /\ how = "error" => r.finished # None
         /\ o.finished = None /\ o.ended = None /\ o.id # None => r.finished = None
  <1> USE DEF Sound, Object, Ends
  <1> DEFINE p == [o EXCEPT !.answer = how, !.awaits = FALSE]
  <1>0. r = Settled(p) /\ p \in Object /\ p.finished = o.finished /\ p.ended = o.ended
        /\ p.id = o.id /\ p.local = o.local /\ p.awaits = FALSE /\ p.answer = how
    BY DEF Responded
  <1>z. None \notin Ends
    BY NoneIs
  <1> HIDE DEF p
  <1>1. CASE p.finished # None
    BY <1>0, <1>1 DEF Settled
  <1>2. CASE p.finished = None /\ p.answer = "error" /\ p.id = None
    BY <1>0, <1>2, <1>z DEF Settled
  <1>3. CASE p.finished = None /\ ~(p.answer = "error" /\ p.id = None) /\ p.ended = None
    BY <1>0, <1>3 DEF Settled
  <1>4. CASE p.finished = None /\ ~(p.answer = "error" /\ p.id = None) /\ p.ended # None
    <2>1. r = [p EXCEPT !.finished = IF p.answer = "error" THEN "error" ELSE p.ended]
      BY <1>0, <1>4 DEF Settled
    <2> QED
      BY <1>0, <1>4, <1>z, <2>1
  <1> QED
    BY <1>1, <1>2, <1>3, <1>4

LEMMA EndsNow ==
  ASSUME NEW o, Sound(o), NEW n \in Nat, NEW how \in Ends, NEW r, r = Ended([o EXCEPT !.id = n], how)
  PROVE  /\ r.id = n /\ r.ended # None /\ r.local = o.local /\ r.awaits = o.awaits
         /\ r.sent = o.sent /\ r.answer = o.answer
         /\ r.finished = None => o.awaits
  <1> USE DEF Sound, Object, Ends
  <1> DEFINE p == [[o EXCEPT !.id = n] EXCEPT !.ended = how]
  <1>0. r = Settled(p) /\ p \in Object /\ p.finished = o.finished /\ p.ended = how
        /\ p.id = n /\ p.local = o.local /\ p.awaits = o.awaits /\ p.answer = o.answer /\ p.sent = o.sent
    BY DEF Ended
  <1>z. None \notin Ends /\ None \notin Nat
    BY NoneIs
  <1> HIDE DEF p
  <1>1. CASE p.finished # None
    BY <1>0, <1>1, <1>z DEF Settled
  <1>2. CASE p.finished = None /\ p.awaits
    BY <1>0, <1>2, <1>z DEF Settled
  <1>3. CASE p.finished = None /\ ~p.awaits
    <2>1. r = [p EXCEPT !.finished = IF p.answer = "error" THEN "error" ELSE p.ended]
      BY <1>0, <1>3, <1>z DEF Settled
    <2> QED
      BY <1>0, <1>3, <1>z, <2>1
  <1> QED
    BY <1>1, <1>2, <1>3

LEMMA Fails ==
  ASSUME NEW o, Sound(o)
  PROVE  Failed(o).finished # None
  BY NoneIs DEF Sound, Object, Ends, Failed

LEMMA LostIs ==
  ASSUME NEW o, Sound(o)
  PROVE  /\ Lost(o).id = o.id /\ Lost(o).finished = o.finished /\ ~Lost(o).awaits
         /\ Lost(o).local = o.local
  BY DEF Lost, Sound, Object

LEMMA NewIs ==
  ASSUME NEW local \in BOOLEAN, NEW id, NEW o, o = NewTurn(local, id)
  PROVE  /\ o.local = local /\ o.id = id /\ o.awaits = local /\ o.ended = None
         /\ o.finished = None /\ o.sent = None /\ o.answer = None
  BY DEF NewTurn

LEMMA EachAskAll ==
  ASSUME NEW S \in SUBSET Asks, NEW t, NEW q \in S
  PROVE  \E i \in DOMAIN EachAsk(S, t) : EachAsk(S, t)[i] = Frame(t, q, None)
  <1> DEFINE s == SetToSeq(S)
             n == Cardinality(S)
  <1>1. IsFiniteSet(S)
    BY FS_Subset, ClientAssumption DEF ClientAssumption
  <1>2. n \in Nat /\ ExistsBijection(1..n, S)
    BY <1>1, FS_CardinalityType
  <1>3. PICK f \in [1..n -> S] : IsInjective(f)
    BY <1>2 DEF ExistsBijection, Bijection, Injection
  <1>4. s \in [1..n -> S] /\ IsInjective(s)
    BY <1>2, <1>3 DEF SetToSeq
  <1> HIDE DEF s, n
  <1>5. s \in Injection(1..n, S)
    BY <1>4 DEF Injection
  <1>6. Cardinality(1..n) = n
    BY <1>2, FS_Interval
  <1>7. s \in Surjection(1..n, S)
    BY <1>1, <1>5, <1>6, FS_Injection DEF n
  <1>8. PICK i \in 1..n : s[i] = q
    BY <1>7 DEF Surjection
  <1>9. DOMAIN s = 1..n
    BY <1>4
  <1> QED
    BY <1>8, <1>9 DEF EachAsk, s
-----------------------------------------------------------------------------
(* The app's steps *)

\* The app, or a timer, goes on: what is under way to the host stays.
KeepsHost == \A i \in DOMAIN toHost : \E j \in DOMAIN toHost' : toHost'[j] = toHost[i]

LEMMA InboxStays ==
  ASSUME InboxOK, UNCHANGED <<asked, attached, toApp, requests, link>>,
         UNCHANGED replay \/ link # "resuming", KeepsHost, requests \subseteq Asks
  PROVE  InboxOK'
  <1>1. Pending' = Pending
    BY DEF Pending
  <1>2. \A q \in Asks : Clears(q) => Clears(q)'
    BY DEF Clears, KeepsHost, Looking, Removing, Lacks, Up
  <1>5. attached' => \A q \in Pending' :
        /\ q \in requests' \/ \E i \in DOMAIN toApp' : Adding(toApp'[i], q)
        /\ \A i \in DOMAIN toApp' : Lacks(toApp'[i], q) =>
              \E j \in DOMAIN toApp' : i < j /\ Adding(toApp'[j], q)
    BY <1>1 DEF InboxOK
  <1>6. \A q \in Asks, i \in DOMAIN toApp' :
        /\ Removing(toApp'[i], q) => asked'[q] = "over"
        /\ Adding(toApp'[i], q) /\ asked'[q] # "pending" =>
              \E j \in DOMAIN toApp' : i < j /\ Removing(toApp'[j], q)
    BY DEF InboxOK
  <1>7. \A q \in requests' : asked'[q] # "pending" => Clears(q)'
    BY <1>2 DEF InboxOK
  <1> QED
    BY <1>5, <1>6, <1>7 DEF InboxOK

LEMMA LoadsStay ==
  ASSUME LoadsOK, UNCHANGED <<attached, toApp, link, replay>>, KeepsHost
  PROVE  LoadsOK'
  BY DEF LoadsOK, LoadComes, KeepsHost, Up, Loading

LEMMA OwnStays ==
  ASSUME OwnOK, HostOK, TurnsGoOn, UNCHANGED <<running, owner, attached, link, losses>>
  PROVE  OwnOK'
  <1>1. \A i \in DOMAIN obj' : obj'[i].ended # None => obj'[i].id # running
    BY DEF OwnOK, TurnsGoOn, Same
  <1> QED
    BY <1>1 DEF OwnOK, Alive

LEMMA RunStays ==
  ASSUME RunOK, AppOK, FramesOK, TurnsGoOn, UNCHANGED <<running, attached, toApp>>,
         running # None /\ cur # 0 /\ obj[cur].id = running => cur' = cur
  PROVE  RunOK'
  <1>0. cur \in Nat /\ (cur # 0 => cur \in DOMAIN obj)
    BY EachSound
  <1>1. attached /\ running # None => \/ cur' # 0 /\ obj'[cur'].id = running
                                      \/ \E i \in DOMAIN toApp : Runs(i, running)
    BY <1>0 DEF RunOK, TurnsGoOn, Same
  <1>2. ASSUME NEW k \in DOMAIN toApp, toApp[k].t = "prompted", toApp[k].how = "done", toApp[k].of = cur',
               obj'[cur'].id = None
        PROVE  \E j \in DOMAIN toApp : j < k /\ toApp[j].t = "running"
    <2>1. cur' \in DOMAIN obj
      BY <1>2 DEF FramesOK, AppFrame, Prompts
    <2>2. cur' = cur /\ obj[cur].id = None
      BY <1>2, <2>1 DEF TurnsGoOn, Same
    <2> QED
      BY <1>2, <2>2 DEF RunOK
  <1> QED
    BY <1>1, <1>2 DEF RunOK, Runs

\* The parts, once the app went on.
LEMMA AppStays ==
  ASSUME ClientInv, AgreeInv, TurnsGoOn, KeepsHost, CurOK',
         UNCHANGED <<hostVars, toApp, link, opened, replay, requests, losses>>,
         running # None /\ cur # 0 /\ obj[cur].id = running => cur' = cur
  PROVE  AgreeInv'
  <1>1. HostOK /\ AppOK /\ FramesOK
    BY Bound
  <1>2. UNCHANGED <<running, owner, asked, attached>>
    BY DEF hostVars
  <1> QED
    BY <1>1, <1>2, Bound, InboxStays, LoadsStay, OwnStays, RunStays DEF AgreeInv

LEMMA KeepsAll ==
  ASSUME IsSeq(toHost), UNCHANGED toHost \/ \E f : toHost' = toHost \o <<f>>
  PROVE  KeepsHost
  BY Sent DEF KeepsHost

\* The answer that is to come still is.
LEMMA AnswerStays ==
  ASSUME NEW i, AnswerComes(i), KeepsHost, UNCHANGED <<toApp, running, owner, losses>>,
         i \in Waiting => i \in Waiting' \/ \E k \in DOMAIN toHost' : toHost'[k].t = "prompt" /\ toHost'[k].of = i
  PROVE  AnswerComes(i)'
  BY DEF AnswerComes, KeepsHost

LEMMA PromptAgrees ==
  ASSUME ClientInv, AgreeInv, Prompt
  PROVE  AgreeInv'
  <1> DEFINE o == NewTurn(TRUE, None)
             y == [o EXCEPT !.sent = IF link = "online" THEN losses ELSE None]
             x == IF link \in {"failed", "closed"} THEN Responded(o, "error") ELSE y
             f == Frame("prompt", Len(obj) + 1, None)
  <1>0. AppOK /\ losses \in Nat /\ IsSeq(toHost) /\ IsSeq(toApp)
    BY Bound
  <1>1. Sound(o) /\ o.id = None /\ o.local
    BY Starting
  <1>2. Same(o, x) /\ x \in Object
    <2>1. CASE link \in {"failed", "closed"}
      <3>1. Same(o, Responded(o, "error"))
        BY <1>1, Goes_on DEF Ends
      <3> QED
        BY <2>1, <3>1 DEF Same
    <2>2. CASE link \notin {"failed", "closed"}
      <3>1. x = y
        BY <2>2
      <3> HIDE DEF o, x
      <3> QED
        BY <1>0, <1>1, <3>1 DEF Sound, Same, Object
    <2> QED
      BY <2>1, <2>2
  <1>3. /\ obj' = Append(obj, x) /\ cur = 0
        /\ opened = "open" /\ opened' = opened
        /\ UNCHANGED <<hostVars, toApp, link, opened, log, replay, shown, losses>>
        /\ requests' = requests
    <2>1. CASE link \in {"failed", "closed"}
      BY <2>1 DEF Prompt, askVars
    <2>2. CASE link \notin {"failed", "closed"}
      BY <2>2 DEF Prompt, askVars, Sends, Up
    <2> QED
      BY <2>1, <2>2
  <1>4. /\ link \in {"failed", "closed"} => cur' = 0 /\ UNCHANGED toHost
        /\ link \notin {"failed", "closed"} =>
              /\ cur' = Len(obj) + 1
              /\ IF link = "online" THEN toHost' = toHost \o <<f>> ELSE UNCHANGED toHost
    BY <1>3 DEF Prompt, Sends
  <1>y. /\ y.id = None /\ y.finished = None /\ y.awaits /\ y.local /\ y.answer = None
        /\ y.sent = (IF link = "online" THEN losses ELSE None)
    <2>1. o.awaits /\ o.finished = None /\ o.answer = None
      BY NewIs
    <2> HIDE DEF o
    <2> QED
      BY <1>1, <2>1 DEF Sound, Object
  <1> HIDE DEF x, o, y
  <1>5. TurnsGoOn
    BY <1>0, <1>2, <1>3, <1>4, TurnAdded DEF o
  <1>6. KeepsHost
    BY <1>0, <1>4, KeepsAll
  <1>7. CurOK'
    <2> SUFFICES ASSUME link \notin {"failed", "closed"} PROVE CurOK'
      BY <1>4 DEF CurOK
    <2>0. x = y
      BY DEF x
    <2> DEFINE i == Len(obj) + 1
    <2>1. cur' = i /\ i \in DOMAIN obj' /\ obj'[i] = y
      BY <1>0, <1>2, <1>3, <1>4, <2>0, TurnAppended
    <2>2. AnswerComes(cur)'
      <3>1. CASE link = "online"
        <4>1. toHost' = toHost \o <<f>>
          BY <1>4, <3>1
        <4>2. Joins(toHost', toHost, <<f>>)
          BY <1>0, <4>1, One, Joined
        <4>3. \E k \in DOMAIN toHost' : toHost'[k] = f
          BY <4>2, One DEF Joins
        <4>4. f.t = "prompt" /\ f.of = i
          BY DEF Frame
        <4> HIDE DEF i, f
        <4> QED
          BY <2>1, <4>3, <4>4 DEF AnswerComes
      <3>2. CASE link # "online"
        <4>1. y.sent = None /\ i \in Waiting'
          BY <1>y, <2>1, <3>2 DEF Waiting, Prompts
        <4> QED
          BY <2>1, <4>1 DEF AnswerComes
      <3> QED
        BY <3>1, <3>2
    <2> HIDE DEF i
    <2> QED
      BY <1>3, <1>y, <2>1, <2>2 DEF CurOK, Steady
  <1> QED
    BY <1>3, <1>5, <1>6, <1>7, AppStays

LEMMA SendWaitingAgrees ==
  ASSUME ClientInv, AgreeInv, NEW i \in Prompts, SendWaiting(i)
  PROVE  AgreeInv'
  <1> DEFINE f == Frame("prompt", i, None)
  <1>0. AppOK /\ losses \in Nat /\ i \in DOMAIN obj /\ IsSeq(toHost)
    BY Bound DEF Prompts
  <1>1. obj' = [obj EXCEPT ![i] = [obj[i] EXCEPT !.sent = losses]] /\ cur' = cur
        /\ toHost' = toHost \o <<f>>
        /\ UNCHANGED <<hostVars, toApp, link, opened, replay, losses>> /\ requests' = requests
    BY DEF SendWaiting, Sends, askVars
  <1>2. Same(obj[i], [obj[i] EXCEPT !.sent = losses])
    BY <1>0, EachSound, Goes_on
  <1>3. TurnsGoOn
    BY <1>0, <1>1, <1>2, TurnReplaced
  <1>4. KeepsHost
    BY <1>0, <1>1, KeepsAll
  <1>5. CurOK'
    <2> SUFFICES ASSUME cur # 0 PROVE CurOK'
      BY <1>1 DEF CurOK
    <2>1. cur \in DOMAIN obj /\ obj[cur] \in Object /\ DOMAIN obj' = DOMAIN obj
          /\ \A k \in DOMAIN obj : k # i => obj'[k] = obj[k]
      BY <1>0, <1>1, EachSound DEF Sound
    <2>2. /\ obj'[cur].finished = obj[cur].finished /\ obj'[cur].awaits = obj[cur].awaits
          /\ obj'[cur].id = obj[cur].id /\ obj'[cur].ended = obj[cur].ended
          /\ obj'[cur].local = obj[cur].local
      BY <1>0, <1>1, <2>1 DEF Object
    <2>3. cur \in Waiting => cur \in Waiting' \/ \E k \in DOMAIN toHost' : toHost'[k].t = "prompt" /\ toHost'[k].of = cur
      <3>1. CASE cur = i
        <4>2. Joins(toHost', toHost, <<f>>)
          BY <1>0, <1>1, One, Joined
        <4>3. \E k \in DOMAIN toHost' : toHost'[k] = f
          BY <4>2, One DEF Joins
        <4>4. f.t = "prompt" /\ f.of = i
          BY DEF Frame
        <4> HIDE DEF f
        <4> QED
          BY <3>1, <4>3, <4>4
      <3>2. CASE cur # i
        BY <2>1, <3>2 DEF Waiting, Prompts
      <3> QED
        BY <3>1, <3>2
    <2>4. AnswerComes(cur) => AnswerComes(cur)'
      <3> SUFFICES ASSUME NEW c, c = cur, AnswerComes(c) PROVE AnswerComes(c)'
        BY <1>1
      <3>1. c \in Waiting => c \in Waiting' \/ \E k \in DOMAIN toHost' : toHost'[k].t = "prompt" /\ toHost'[k].of = c
        BY <2>3
      <3> QED
        BY <1>1, <1>4, <3>1, AnswerStays DEF hostVars
    <2>5. CurOK
      BY DEF AgreeInv
    <2>6. Resumes' = Resumes /\ Alive' = Alive /\ UNCHANGED <<running, attached, toApp, link, opened, cur, replay>> /\ Up' = Up
      BY <1>1 DEF Resumes, Alive, Up, hostVars
    <2> QED
      BY <2>2, <2>4, <2>5, <2>6 DEF CurOK, Steady, EndComes
  <1> QED
    BY <1>1, <1>3, <1>4, <1>5, AppStays

LEMMA GraceOverAgrees ==
  ASSUME ClientInv, AgreeInv, NEW i \in Prompts, GraceOver(i)
  PROVE  AgreeInv'
  <1>0. AppOK /\ i \in DOMAIN obj /\ HostOK /\ IsSeq(toHost)
    BY Bound DEF Prompts
  <1> DEFINE r == Responded(obj[i], "error")
  <1>1. /\ obj' = [obj EXCEPT ![i] = r]
        /\ cur' = IF cur # 0 /\ obj'[cur].finished # None THEN 0 ELSE cur
        /\ UNCHANGED <<hostVars, toHost, toApp, link, opened, replay, losses>> /\ requests' = requests
        /\ link # "online"
    BY DEF GraceOver, Become, askVars
  <1>2. Same(obj[i], r) /\ Sound(obj[i])
    BY <1>0, EachSound, Goes_on DEF Ends
  <1>b. /\ r.id = obj[i].id /\ r.ended = obj[i].ended /\ r.local = obj[i].local /\ ~r.awaits
        /\ obj[i].ended # None => r.finished # None
        /\ obj[i].id = None => r.finished # None
        /\ obj[i].finished = None /\ obj[i].ended = None /\ obj[i].id # None => r.finished = None
    BY <1>2, Responds DEF Ends
  <1> HIDE DEF r
  <1>3. TurnsGoOn
    BY <1>0, <1>1, <1>2, TurnReplaced
  <1>4. KeepsHost
    BY <1>0, <1>1, KeepsAll
  <1>a. /\ cur \in Nat /\ (cur # 0 => cur \in DOMAIN obj)
        /\ obj'[i] = r /\ \A k \in DOMAIN obj : k # i => obj'[k] = obj[k]
    BY <1>0, <1>1, EachSound
  <1>c. CurOK /\ OwnOK
    BY DEF AgreeInv
  <1>5. CurOK'
    <2> SUFFICES ASSUME cur # 0, cur' = cur, obj'[cur].finished = None PROVE CurOK'
      BY <1>1 DEF CurOK
    <2>6. Resumes' = Resumes /\ Alive' = Alive /\ UNCHANGED <<running, attached, toApp, link, opened, cur, replay>> /\ Up' = Up
      BY <1>1 DEF Resumes, Alive, Up, hostVars
    <2>1. CASE cur = i
      <3>1. ~obj'[cur].awaits /\ obj[cur].id # None /\ obj[cur].ended = None
            /\ obj'[cur].id = obj[cur].id
        BY <1>a, <1>b, <2>1
      <3> QED
        BY <1>c, <2>6, <3>1 DEF CurOK, Steady, EndComes
    <2>2. CASE cur # i
      <3>1. obj'[cur] = obj[cur]
        BY <1>a, <2>2
      <3>2. cur \in Waiting => cur \in Waiting'
        BY <1>1, <1>a, <3>1 DEF Waiting, Prompts
      <3>3. AnswerComes(cur) => AnswerComes(cur)'
        <4> SUFFICES ASSUME NEW c, c = cur, AnswerComes(c) PROVE AnswerComes(c)'
          BY <2>6
        <4>1. c \in Waiting => c \in Waiting'
          BY <3>2
        <4> QED
          BY <1>1, <1>4, <4>1, AnswerStays DEF hostVars
      <3> QED
        BY <1>c, <2>6, <3>1, <3>3 DEF CurOK, Steady, EndComes
    <2> QED
      BY <2>1, <2>2
  <1>6. ASSUME running # None, cur # 0, obj[cur].id = running PROVE cur' = cur
    <2>1. obj[cur].ended = None /\ obj[cur].finished = None
      BY <1>a, <1>c, <1>6 DEF CurOK, OwnOK
    <2>2. obj'[cur].finished = None
      BY <1>a, <1>b, <1>6, <2>1
    <2> QED
      BY <1>1, <2>2
  <1> QED
    BY <1>1, <1>3, <1>4, <1>5, <1>6, AppStays

\* A step that leaves the turns, and what is under way to the app.
LEMMA TurnsAgree ==
  ASSUME ClientInv, AgreeInv, KeepsHost, UNCHANGED <<hostVars, toApp, link, sessVars, requests, losses>>
  PROVE  AgreeInv'
  <1>1. UNCHANGED <<opened, obj, cur, replay>> /\ UNCHANGED <<running, owner, attached>>
    BY DEF sessVars, hostVars
  <1>2. TurnsGoOn
    BY <1>1, TurnsStay, Bound
  <1>3. CurOK'
    <2>1. AnswerComes(cur) => AnswerComes(cur)'
      <3> SUFFICES ASSUME NEW c, c = cur, AnswerComes(c) PROVE AnswerComes(c)'
        BY <1>1
      <3>1. Waiting' = Waiting
        BY <1>1 DEF Waiting, Prompts
      <3> QED
        BY <1>1, <3>1, AnswerStays
    <2>2. CurOK
      BY DEF AgreeInv
    <2> QED
      BY <1>1, <2>1, <2>2 DEF CurOK, Steady, EndComes, Resumes, Alive, Up
  <1> QED
    BY <1>1, <1>2, <1>3, AppStays

LEMMA ChooseAgrees ==
  ASSUME ClientInv, AgreeInv, \/ ChooseSends \/ ChooseGivesUp \/ \E q \in Asks : Choose(q)
  PROVE  AgreeInv'
  <1>1. UNCHANGED <<hostVars, toApp, link, sessVars, requests, losses>>
    BY DEF ChooseSends, ChooseGivesUp, Choose
  <1>2. UNCHANGED toHost \/ \E f : toHost' = toHost \o <<f>>
    BY DEF ChooseSends, ChooseGivesUp, Choose, Sends
  <1>3. KeepsHost
    BY <1>2, Bound, KeepsAll
  <1> QED
    BY <1>1, <1>3, TurnsAgree

LEMMA OpenAgrees ==
  ASSUME ClientInv, AgreeInv, OpenSession
  PROVE  AgreeInv'
  <1> DEFINE f == Frame("load", None, None)
  <1>0. HostOK /\ AppOK /\ FramesOK /\ IsSeq(toHost) /\ requests \subseteq Asks
    BY Bound
  <1>1. /\ opened = "no" /\ link = "online"
        /\ replay' = [first |-> TRUE, index |-> 0, sawRunning |-> FALSE]
        /\ UNCHANGED <<running, owner, asked, attached, losses>>
        /\ UNCHANGED <<toApp, link, obj, cur, requests>>
        /\ toHost' = toHost \o <<f>>
    BY DEF OpenSession, hostVars, askVars, Sends
  <1>2. KeepsHost
    BY <1>0, <1>1, KeepsAll
  <1>3. TurnsGoOn
    BY <1>0, <1>1, TurnsStay
  <1>4. cur = 0
    BY <1>1 DEF AgreeInv, CurOK
  <1>5. InboxOK'
    BY <1>0, <1>1, <1>2, InboxStays DEF AgreeInv
  <1>6. LoadsOK'
    <2>1. Joins(toHost', toHost, <<f>>)
      BY <1>0, <1>1, One, Joined
    <2>2. \E k \in DOMAIN toHost' : toHost'[k] = f
      BY <2>1, One DEF Joins
    <2>3. f.t = "load"
      BY DEF Frame
    <2> HIDE DEF f
    <2>4. ~replay'.sawRunning
      BY <1>1
    <2> QED
      BY <2>2, <2>3, <2>4 DEF LoadsOK, LoadComes, Loading
  <1>7. OwnOK' /\ RunOK' /\ CurOK'
    <2>1. OwnOK'
      BY <1>0, <1>1, <1>3, OwnStays DEF AgreeInv
    <2>2. RunOK'
      BY <1>0, <1>1, <1>3, RunStays DEF AgreeInv
    <2> QED
      BY <1>1, <1>4, <2>1, <2>2 DEF CurOK
  <1> QED
    BY <1>5, <1>6, <1>7 DEF AgreeInv
-----------------------------------------------------------------------------
(* The link's steps *)

\* The frames under way are gone, and what is looked up again is not settled.
LEMMA DropAgrees ==
  ASSUME ClientInv, AgreeInv, TurnsGoOn, CurOK', toApp' = <<>>, attached' = FALSE,
         UNCHANGED <<running, owner, asked, requests>>, losses' \in {losses, losses + 1},
         \/ ~Up' \/ (link' = "resuming" /\ replay' # None) \/ requests = {}
         \/ \E i \in DOMAIN toHost' : Looking(toHost'[i]),
         replay' # None /\ Up' => ~replay'.sawRunning /\ \E i \in DOMAIN toHost' : Loading(toHost'[i]),
         Alive' => losses' = losses + 1 \/ (Alive /\ ~attached /\ losses' = losses)
  PROVE  AgreeInv'
  <1>0. HostOK /\ AppOK /\ losses \in Nat /\ InboxOK /\ LoadsOK /\ CurOK /\ OwnOK /\ RunOK
    BY Bound DEF AgreeInv
  <1>1. DOMAIN toApp' = {}
    BY NoFrames
  <1>2. InboxOK'
    <2>1. \A q \in requests' : Clears(q)'
      BY DEF Clears
    <2> QED
      BY <1>1, <2>1 DEF InboxOK
  <1>3. LoadsOK'
    BY DEF LoadsOK, LoadComes
  <1>4. RunOK'
    BY <1>1 DEF RunOK
  <1>5. OwnOK'
    <2>1. \A i \in DOMAIN obj' : obj'[i].ended # None => obj'[i].id # running
      BY <1>0 DEF OwnOK, TurnsGoOn, Same
    <2>2. \A n \in DOMAIN owner : owner[n].at \in Nat /\ owner[n].at <= losses
      <3>1. owner \in Seq([of : Nat, at : Nat])
        BY <1>0 DEF HostOK
      <3>2. \A n \in DOMAIN owner : n \in 1..Len(owner)
        BY <1>0, EachOwner
      <3>3. \A n \in DOMAIN owner : owner[n] \in [of : Nat, at : Nat]
        BY <3>1, <3>2, ElementOfSeq
      <3> QED
        BY <1>0, <3>3 DEF OwnOK
    <2>3. \A n \in DOMAIN owner : owner[n].at <= losses' /\ (losses' = losses + 1 => owner[n].at # losses')
      BY <1>0, <2>2
    <2>4. running # None => running \in DOMAIN owner
      BY <1>0 DEF HostOK
    <2>5. ~(Alive' /\ running # None /\ owner[running].of # 0 /\ owner[running].at = losses')
      BY <1>0, <2>3, <2>4 DEF OwnOK
    <2> QED
      BY <2>1, <2>3, <2>5 DEF OwnOK
  <1> QED
    BY <1>2, <1>3, <1>4, <1>5 DEF AgreeInv

LEMMA CloseAgrees ==
  ASSUME ClientInv, AgreeInv, Close
  PROVE  AgreeInv'
  <1>0. AppOK /\ losses \in Nat
    BY Bound
  <1> DEFINE now == [i \in DOMAIN obj |->
                       IF i = cur THEN Failed(obj[i])
                       ELSE IF i \in Waiting \cup InFlight THEN Responded(obj[i], "error")
                       ELSE obj[i]]
  <1>1. obj' = now /\ cur' \in {0, cur} /\ (cur' # 0 => cur' = cur /\ now[cur].finished = None)
    BY DEF Close, Become
  <1>2. ASSUME NEW i \in DOMAIN obj PROVE Same(obj[i], now[i])
    <2>1. /\ Same(obj[i], obj[i]) /\ Same(obj[i], Failed(obj[i]))
          /\ Same(obj[i], Responded(obj[i], "error"))
      BY <1>0, EachSound, Goes_on DEF Ends
    <2> QED
      BY <2>1
  <1>3. TurnsGoOn
    BY <1>0, <1>1, <1>2, TurnsMapped
  <1>4. CurOK'
    <2>1. cur # 0 => now[cur].finished # None
      BY <1>0, EachSound, Fails
    <2>2. cur' = 0
      BY <1>1, <2>1
    <2> QED
      BY <2>2 DEF CurOK
  <1>5. ~Up' /\ ~Alive'
    BY DEF Close, Up, Alive
  <1>6. toApp' = <<>> /\ attached' = FALSE /\ UNCHANGED <<running, owner, asked, requests, losses>>
    BY DEF Close, Gone
  <1> QED
    BY <1>3, <1>4, <1>5, <1>6, DropAgrees

LEMMA LoseAgrees ==
  ASSUME ClientInv, AgreeInv, Lose
  PROVE  AgreeInv'
  <1>0. AppOK /\ StageOK /\ losses \in Nat /\ CurOK
    BY Bound DEF AgreeInv
  <1>1. toApp' = <<>> /\ attached' = FALSE /\ losses' = losses + 1
        /\ UNCHANGED <<running, owner, asked, requests>>
    BY DEF Lose, Gone, askVars
  <1>2. CASE link = "resuming"
    <2>1. link' = "stuck" /\ UNCHANGED <<opened, obj, cur, replay>>
      BY <1>2 DEF Lose, sessVars
    <2>2. TurnsGoOn
      BY <1>0, <2>1, TurnsStay
    <2>3. opened # "opening"
      BY <1>0, <1>2 DEF StageOK
    <2>4. ~Up' /\ ~Alive'
      BY <2>1 DEF Up, Alive
    <2>5. CurOK'
      BY <1>0, <1>2, <2>1, <2>3, <2>4 DEF CurOK, Resumes
    <2> QED
      BY <1>1, <2>2, <2>4, <2>5, DropAgrees
  <1>3. CASE link = "online"
    <2>1. /\ link' = "away"
          /\ obj' = [i \in DOMAIN obj |-> IF i = cur THEN Lost(obj[i]) ELSE obj[i]]
          /\ Abandon(UNCHANGED cur)
      BY <1>3 DEF Lose
    <2>2. /\ cur' \in {0, cur}
          /\ opened = "opening" => cur' = 0
          /\ opened # "opening" => opened' = opened
      BY <2>1 DEF Abandon
    <2>3. ASSUME NEW i \in DOMAIN obj PROVE Same(obj[i], obj'[i])
      <3>1. Same(obj[i], obj[i]) /\ Same(obj[i], Lost(obj[i]))
        BY <1>0, EachSound, Goes_on
      <3> QED
        BY <2>1, <3>1
    <2>4. TurnsGoOn
      BY <1>0, <2>1, <2>2, <2>3, TurnsMapped
    <2>5. ~Up'
      BY <2>1 DEF Up
    <2>6. CurOK'
      <3> SUFFICES ASSUME cur' # 0 PROVE CurOK'
        BY DEF CurOK
      <3>1. cur' = cur /\ cur # 0 /\ opened' = "open" /\ cur \in DOMAIN obj /\ Sound(obj[cur])
        BY <1>0, <1>3, <2>2, EachSound DEF CurOK
      <3>2. obj'[cur] = Lost(obj[cur])
        BY <2>1, <3>1
      <3>3. /\ obj'[cur].id = obj[cur].id /\ obj'[cur].finished = obj[cur].finished
            /\ ~obj'[cur].awaits /\ obj'[cur].local = obj[cur].local
        BY <3>1, <3>2, LostIs
      <3> QED
        BY <1>0, <2>5, <3>1, <3>3 DEF CurOK, Resumes
    <2> QED
      BY <1>1, <2>1, <2>4, <2>5, <2>6, DropAgrees DEF LoadsOK
  <1> QED
    BY <1>2, <1>3 DEF Lose, Up

LEMMA UnpairedAgrees ==
  ASSUME ClientInv, AgreeInv, Unpaired
  PROVE  AgreeInv'
  <1>0. AppOK /\ losses \in Nat /\ CurOK
    BY Bound DEF AgreeInv
  <1>1. /\ link' = "failed" /\ link \in {"online", "away"}
        /\ obj' = [i \in DOMAIN obj |-> IF i \in Waiting \cup InFlight
                                         THEN Responded(obj[i], "error") ELSE obj[i]]
        /\ toApp' = <<>> /\ attached' = FALSE /\ losses' = losses + 1
        /\ UNCHANGED <<running, owner, asked, requests>>
    BY DEF Unpaired, Gone
  <1>2. /\ cur' \in {0, cur}
        /\ cur' # 0 => opened # "opening" /\ opened' = opened /\ cur' = cur /\ obj'[cur].finished = None
    BY DEF Abandon, Unpaired
  <1>3. ASSUME NEW i \in DOMAIN obj PROVE Same(obj[i], obj'[i])
    <2>1. Same(obj[i], obj[i]) /\ Same(obj[i], Responded(obj[i], "error"))
      BY <1>0, EachSound, Goes_on DEF Ends
    <2> QED
      BY <1>1, <2>1
  <1>4. TurnsGoOn
    BY <1>0, <1>1, <1>2, <1>3, TurnsMapped
  <1>5. ~Up' /\ ~Alive'
    BY <1>1 DEF Up, Alive
  <1>6. CurOK'
    <2> SUFFICES ASSUME cur' # 0 PROVE CurOK'
      BY DEF CurOK
    <2>1. cur' = cur /\ cur # 0 /\ cur \in DOMAIN obj /\ opened' = "open"
      BY <1>0, <1>1, <1>2, EachSound DEF CurOK
    <2>2. obj'[cur].id = obj[cur].id /\ obj'[cur].local = obj[cur].local
      BY <1>3, <2>1 DEF Same
    <2> QED
      BY <1>0, <1>2, <1>5, <2>1, <2>2 DEF CurOK, Resumes
  <1> QED
    BY <1>1, <1>4, <1>5, <1>6, DropAgrees

LEMMA ConnectAgrees ==
  ASSUME ClientInv, AgreeInv, Connect
  PROVE  AgreeInv'
  <1>0. AppOK /\ StageOK /\ losses \in Nat /\ attached \in BOOLEAN /\ CurOK /\ OwnOK
    BY Bound DEF AgreeInv
  <1>1. /\ link = "away" /\ ~Up /\ Alive /\ ~attached /\ toApp' = <<>> /\ attached' = FALSE
        /\ toApp = <<>> /\ toHost = <<>>
        /\ UNCHANGED <<running, last, owner, asked, attached, losses>>
        /\ UNCHANGED <<opened, obj, cur, requests>>
    BY <1>0 DEF Connect, hostVars, askVars, Up, Alive, StageOK
  <1>2. TurnsGoOn
    BY <1>0, <1>1, TurnsStay
  <1>3. opened # "opening" /\ replay = None
    BY <1>0, <1>1 DEF StageOK
  <1>4. ASSUME cur # 0
        PROVE  /\ opened = "open" /\ obj[cur].finished = None /\ (obj[cur].id = None => obj[cur].local)
               /\ obj[cur].awaits => AnswerComes(cur)'
    <2>1. opened = "open"
      BY <1>0, <1>1, <1>3, <1>4 DEF CurOK
    <2>2. ASSUME obj[cur].awaits PROVE AnswerComes(cur)'
      <3>1. AnswerComes(cur)
        BY <1>0, <1>1, <1>4, <2>2 DEF CurOK
      <3>2. ~(running # None /\ owner[running].of = cur /\ owner[running].at = losses)
        BY <1>0, <1>1, <1>4 DEF OwnOK
      <3>3. cur \in Waiting
        BY <1>1, <3>1, <3>2, NoFrames DEF AnswerComes
      <3>4. cur \in Waiting'
        BY <1>1, <3>3 DEF Waiting, Prompts
      <3> QED
        BY <1>1, <3>4 DEF AnswerComes
    <2> QED
      BY <1>0, <1>4, <2>1, <2>2 DEF CurOK
  <1>5. CASE opened = "open"
    <2>1. link' = "resuming" /\ replay' = NewReplay /\ toHost' = <<Frame("load", None, None)>>
      BY <1>5 DEF Connect, Load
    <2>2. NewReplay \in Replays /\ ~NewReplay.sawRunning
      BY DEF NewReplay, Replays
    <2>3. replay' # None /\ ~replay'.sawRunning /\ Up'
      BY <2>1, <2>2, NoneIs DEF Up
    <2>4. \E i \in DOMAIN toHost' : Loading(toHost'[i])
      <3>1. toHost'[1].t = "load" /\ 1 \in DOMAIN toHost'
        BY <2>1, One DEF Frame
      <3> QED
        BY <3>1 DEF Loading
    <2>5. Resumes'
      BY <2>3 DEF Resumes
    <2>6. CurOK'
      BY <1>1, <1>4, <1>5, <2>5 DEF CurOK
    <2> QED
      BY <1>1, <1>2, <2>1, <2>3, <2>4, <2>6, DropAgrees
  <1>6. CASE opened # "open"
    <2>1. cur' = 0 /\ replay' = None
      BY <1>1, <1>3, <1>4, <1>6 DEF Connect
    <2>2. CurOK'
      BY <2>1 DEF CurOK
    <2>3. requests = {} \/ \E i \in DOMAIN toHost' : Looking(toHost'[i])
      <3> SUFFICES ASSUME requests # {} PROVE \E i \in DOMAIN toHost' : Looking(toHost'[i])
        OBVIOUS
      <3>1. toHost' = <<Frame("pending", None, "resume")>>
        BY <1>6 DEF Connect
      <3>2. 1 \in DOMAIN toHost' /\ toHost'[1] = Frame("pending", None, "resume")
        BY <3>1, One
      <3> QED
        BY <3>2 DEF Looking, Frame
    <2> QED
      BY <1>1, <1>2, <2>1, <2>2, <2>3, DropAgrees
  <1> QED
    BY <1>5, <1>6
-----------------------------------------------------------------------------
(* The host's steps *)

Kept(i) == \E j \in DOMAIN toHost' : toHost'[j] = toHost[i]

\* F tells of the requests what became of them...
InboxTold(F) ==
  /\ \A q \in Asks :
        /\ asked'[q] = "pending" /\ attached' =>
              (attached /\ asked[q] = "pending") \/ \E i \in DOMAIN F : Adding(F[i], q)
        /\ asked[q] = "over" => asked'[q] = "over"
        /\ asked[q] = "pending" /\ asked'[q] # "pending" /\ Up => \E i \in DOMAIN F : Removing(F[i], q)
        /\ \A i \in DOMAIN F : /\ Removing(F[i], q) => asked'[q] = "over"
                               /\ Adding(F[i], q) => asked'[q] = "pending"
                               /\ Looking(F[i]) => (q \in F[i].of <=> asked'[q] = "pending")
  /\ \A i \in DOMAIN toHost : Looking(toHost[i]) => Kept(i) \/ \E j \in DOMAIN F : Looking(F[j])

\* ... and of the turns: the one that starts, the one that ends and its prompt's
\* answer.
TurnTold(F) ==
  /\ attached => attached'
  /\ running' \in {running, None} \/ running' \notin DOMAIN owner
  /\ attached' /\ running' # None /\ (running' # running \/ ~attached) =>
        \E i \in DOMAIN F : F[i].t = "running" /\ F[i].of = running'
  /\ attached /\ running # None /\ running' # running =>
        /\ \E i \in DOMAIN F : F[i].t = "ended" /\ F[i].of = running
        /\ owner[running].of # 0 /\ owner[running].at = losses =>
              \E i \in DOMAIN F : F[i].t = "prompted" /\ F[i].of = owner[running].of
  /\ \A n \in DOMAIN owner : owner'[n] = owner[n]
  /\ \A n \in DOMAIN owner' : owner'[n].at <= losses
  /\ running' \notin {running, None} => owner'[running'].of = 0 \/ attached'
  /\ \A i \in DOMAIN F :
        /\ F[i].t = "running" => F[i].of = running'
        /\ F[i].t = "prompted" /\ F[i].how = "done" =>
              running # None /\ owner[running].of = F[i].of /\ owner[running].at = losses
  /\ \A i \in DOMAIN toHost :
        /\ Loading(toHost[i]) => Kept(i) \/ \E j \in DOMAIN F : Loading(F[j])
        /\ toHost[i].t = "prompt" =>
              \/ Kept(i) \/ \E j \in DOMAIN F : F[j].t = "prompted" /\ F[j].of = toHost[i].of
              \/ running' # None /\ owner'[running'].of = toHost[i].of /\ owner'[running'].at = losses

LEMMA InboxSaid ==
  ASSUME ClientInv, AgreeInv, NEW F, Speaks(F), InboxTold(F)
  PROVE  InboxOK'
  <1>0. InboxOK /\ StageOK /\ IsSeq(toApp) /\ requests \subseteq Asks
    BY Bound DEF AgreeInv
  <1>1. /\ \A i \in DOMAIN toApp : i \in DOMAIN toApp' /\ toApp'[i] = toApp[i]
        /\ \A j \in DOMAIN F : Len(toApp) + j \in DOMAIN toApp' /\ toApp'[Len(toApp) + j] = F[j]
        /\ \A i \in DOMAIN toApp, j \in DOMAIN F : i < Len(toApp) + j
        /\ \A i \in DOMAIN toApp' : i \in DOMAIN toApp \/ \E j \in DOMAIN F : i = Len(toApp) + j
    BY FramesSpoken DEF Joins
  <1>2. ~Up => DOMAIN toApp = {}
    BY <1>0, NoFrames DEF StageOK
  <1>3. UNCHANGED <<link, replay, requests>>
    BY DEF Speaks
  <1>4. ASSUME attached', NEW q \in Asks, asked'[q] = "pending"
        PROVE  /\ q \in requests \/ \E i \in DOMAIN toApp' : Adding(toApp'[i], q)
               /\ \A i \in DOMAIN toApp' : Lacks(toApp'[i], q) =>
                     \E j \in DOMAIN toApp' : i < j /\ Adding(toApp'[j], q)
    <2>a. \A j \in DOMAIN F : ~Lacks(F[j], q)
      BY <1>4 DEF InboxTold, Lacks
    <2>1. CASE \E j \in DOMAIN F : Adding(F[j], q)
      <3>1. PICK j \in DOMAIN F : Adding(F[j], q)
        BY <2>1
      <3>2. Len(toApp) + j \in DOMAIN toApp' /\ Adding(toApp'[Len(toApp) + j], q)
        BY <1>1, <3>1
      <3>3. \A i \in DOMAIN toApp' : Lacks(toApp'[i], q) => i \in DOMAIN toApp
        BY <1>1, <2>a
      <3> QED
        BY <1>1, <3>2, <3>3
    <2>2. CASE ~\E j \in DOMAIN F : Adding(F[j], q)
      <3>1. attached /\ q \in Pending
        BY <1>4, <2>2 DEF InboxTold, Pending
      <3>2. /\ q \in requests \/ \E i \in DOMAIN toApp : Adding(toApp[i], q)
            /\ \A i \in DOMAIN toApp : Lacks(toApp[i], q) =>
                  \E j \in DOMAIN toApp : i < j /\ Adding(toApp[j], q)
        BY <1>0, <3>1 DEF InboxOK
      <3>3. q \in requests \/ \E i \in DOMAIN toApp' : Adding(toApp'[i], q)
        BY <1>1, <3>2
      <3>4. ASSUME NEW i \in DOMAIN toApp', Lacks(toApp'[i], q)
            PROVE  \E j \in DOMAIN toApp' : i < j /\ Adding(toApp'[j], q)
        <4>1. i \in DOMAIN toApp /\ Lacks(toApp[i], q)
          BY <1>1, <2>a, <3>4
        <4> QED
          BY <1>1, <3>2, <4>1
      <3> QED
        BY <3>3, <3>4
    <2> QED
      BY <2>1, <2>2
  <1>5. ASSUME NEW q \in Asks, NEW i \in DOMAIN toApp'
        PROVE  /\ Removing(toApp'[i], q) => asked'[q] = "over"
               /\ Adding(toApp'[i], q) /\ asked'[q] # "pending" =>
                     \E j \in DOMAIN toApp' : i < j /\ Removing(toApp'[j], q)
    <2>1. CASE i \in DOMAIN toApp
      <3>1. toApp'[i] = toApp[i] /\ Up
        BY <1>1, <1>2, <2>1
      <3>2. Removing(toApp[i], q) => asked[q] = "over"
        BY <1>0, <2>1 DEF InboxOK
      <3>3. ASSUME Adding(toApp[i], q), asked'[q] # "pending"
            PROVE  \E j \in DOMAIN toApp' : i < j /\ Removing(toApp'[j], q)
        <4>1. CASE asked[q] = "pending"
          BY <1>1, <2>1, <3>1, <3>3, <4>1 DEF InboxTold
        <4>2. CASE asked[q] # "pending"
          <5>1. \E j \in DOMAIN toApp : i < j /\ Removing(toApp[j], q)
            BY <1>0, <2>1, <3>3, <4>2 DEF InboxOK
          <5> QED
            BY <1>1, <5>1
        <4> QED
          BY <4>1, <4>2
      <3> QED
        BY <3>1, <3>2, <3>3 DEF InboxTold
    <2>2. CASE i \notin DOMAIN toApp
      <3>1. PICK j \in DOMAIN F : toApp'[i] = F[j]
        BY <1>1, <2>2
      <3> QED
        BY <3>1 DEF InboxTold
    <2> QED
      BY <2>1, <2>2
  <1>6. ASSUME NEW q \in requests, asked'[q] # "pending"
        PROVE  \/ ~Up \/ (link = "resuming" /\ replay # None)
               \/ \E i \in DOMAIN toHost' : Looking(toHost'[i])
               \/ \E i \in DOMAIN toApp' : Removing(toApp'[i], q) \/ Lacks(toApp'[i], q)
    <2> SUFFICES ASSUME Up PROVE \/ (link = "resuming" /\ replay # None)
                                 \/ \E i \in DOMAIN toHost' : Looking(toHost'[i])
                                 \/ \E i \in DOMAIN toApp' : Removing(toApp'[i], q) \/ Lacks(toApp'[i], q)
      OBVIOUS
    <2>0. q \in Asks
      BY <1>0
    <2>1. CASE asked[q] = "pending"
      BY <1>1, <1>6, <2>0, <2>1 DEF InboxTold
    <2>2. CASE asked[q] # "pending"
      <3>1. Clears(q)
        BY <1>0, <2>2 DEF InboxOK
      <3>2. ASSUME NEW i \in DOMAIN toHost, Looking(toHost[i])
            PROVE  \/ \E k \in DOMAIN toHost' : Looking(toHost'[k])
                   \/ \E k \in DOMAIN toApp' : Lacks(toApp'[k], q)
        <4>1. CASE Kept(i)
          BY <3>2, <4>1 DEF Kept
        <4>2. CASE \E j \in DOMAIN F : Looking(F[j])
          <5>1. PICK j \in DOMAIN F : Looking(F[j])
            BY <4>2
          <5>2. Lacks(F[j], q)
            BY <1>6, <2>0, <5>1 DEF InboxTold, Lacks
          <5> QED
            BY <1>1, <5>2
        <4> QED
          BY <3>2, <4>1, <4>2 DEF InboxTold
      <3>3. \A i \in DOMAIN toApp : Removing(toApp[i], q) \/ Lacks(toApp[i], q) =>
               \E k \in DOMAIN toApp' : Removing(toApp'[k], q) \/ Lacks(toApp'[k], q)
        BY <1>1
      <3> QED
        BY <3>1, <3>2, <3>3 DEF Clears
    <2> QED
      BY <2>1, <2>2
  <1>7. \A q \in requests' : asked'[q] # "pending" => Clears(q)'
    BY <1>3, <1>6 DEF Clears, Up
  <1>8. attached' => \A q \in Pending' :
        /\ q \in requests' \/ \E i \in DOMAIN toApp' : Adding(toApp'[i], q)
        /\ \A i \in DOMAIN toApp' : Lacks(toApp'[i], q) =>
              \E j \in DOMAIN toApp' : i < j /\ Adding(toApp'[j], q)
    BY <1>3, <1>4 DEF Pending
  <1> QED
    BY <1>5, <1>7, <1>8 DEF InboxOK

LEMMA TurnsSaid ==
  ASSUME ClientInv, AgreeInv, NEW F, Speaks(F), TurnTold(F), attached' \in BOOLEAN
  PROVE  LoadsOK' /\ CurOK' /\ OwnOK' /\ RunOK'
  <1>0. /\ HostOK /\ AppOK /\ FramesOK /\ StageOK /\ UpdatesOK /\ losses \in Nat /\ attached \in BOOLEAN
        /\ LoadsOK /\ CurOK /\ OwnOK /\ RunOK
    BY Bound DEF AgreeInv
  <1>1. /\ \A i \in DOMAIN toApp : i \in DOMAIN toApp' /\ toApp'[i] = toApp[i]
        /\ \A j \in DOMAIN F : Len(toApp) + j \in DOMAIN toApp' /\ toApp'[Len(toApp) + j] = F[j]
        /\ \A i \in DOMAIN toApp, j \in DOMAIN F : i < Len(toApp) + j
        /\ \A i \in DOMAIN toApp' : i \in DOMAIN toApp \/ \E j \in DOMAIN F : i = Len(toApp) + j
    BY FramesSpoken DEF Joins
  <1>2. /\ UNCHANGED <<link, opened, obj, cur, replay, losses>>
        /\ Up' = Up /\ Alive' = Alive /\ Resumes' = Resumes /\ Waiting' = Waiting
    BY DEF Speaks, Up, Alive, Resumes, Waiting, Prompts
  <1>3. /\ ~Up => ~attached /\ DOMAIN toApp = {} /\ DOMAIN toHost = {} /\ DOMAIN F = {}
        /\ Up => Alive
    BY <1>0, NoFrames DEF StageOK, Speaks, Up, Alive
  <1>4. /\ attached => attached'
        /\ running' # running /\ running' # None => running' \notin DOMAIN owner
        /\ running # None => running \in DOMAIN owner
        /\ \A n \in DOMAIN owner : owner'[n] = owner[n]
    BY <1>0 DEF TurnTold, HostOK
  <1>5. LoadsOK'
    <2>1. LoadComes => LoadComes'
      <3>1. ASSUME NEW i \in DOMAIN toHost, Loading(toHost[i]) PROVE LoadComes'
        <4>1. Kept(i) \/ \E j \in DOMAIN F : Loading(F[j])
          BY <3>1 DEF TurnTold
        <4>2. CASE Kept(i)
          <5>1. \E j \in DOMAIN toHost' : Loading(toHost'[j])
            BY <3>1, <4>2 DEF Kept
          <5> QED
            BY <5>1 DEF LoadComes, Loading
        <4>3. CASE \E j \in DOMAIN F : Loading(F[j])
          <5>1. \E j \in DOMAIN toApp' : Loading(toApp'[j])
            BY <1>1, <4>3
          <5> QED
            BY <5>1 DEF LoadComes, Loading
        <4> QED
          BY <4>1, <4>2, <4>3
      <3>2. ASSUME NEW i \in DOMAIN toApp, Loading(toApp[i]) PROVE LoadComes'
        <4>1. \E j \in DOMAIN toApp' : Loading(toApp'[j])
          BY <1>1, <3>2
        <4> QED
          BY <4>1 DEF LoadComes, Loading
      <3> QED
        BY <3>1, <3>2 DEF LoadComes
    <2> QED
      BY <1>0, <1>2, <1>4, <2>1 DEF LoadsOK
  <1>6. ASSUME NEW n, EndComes(n) PROVE \E i \in DOMAIN toApp' : toApp'[i].t = "ended" /\ toApp'[i].of = n
    BY <1>1, <1>6 DEF EndComes
  <1>7. ASSUME cur # 0, obj[cur].id # None, attached, obj[cur].id = running \/ EndComes(obj[cur].id)
        PROVE  attached' /\ (obj[cur].id = running' \/ \E i \in DOMAIN toApp' : toApp'[i].t = "ended" /\ toApp'[i].of = obj[cur].id)
    <2>1. CASE EndComes(obj[cur].id)
      BY <1>4, <1>6, <1>7, <2>1
    <2>2. CASE obj[cur].id = running /\ running' # running
      <3>1. \E i \in DOMAIN F : F[i].t = "ended" /\ F[i].of = running
        BY <1>7, <2>2 DEF TurnTold
      <3> QED
        BY <1>1, <1>4, <1>7, <2>2, <3>1
    <2> QED
      BY <1>4, <1>7, <2>1, <2>2
  <1>8. ASSUME NEW c, c = cur, c # 0, Alive, AnswerComes(c)
        PROVE  \/ c \in Waiting
               \/ \E k \in DOMAIN toHost' : toHost'[k].t = "prompt" /\ toHost'[k].of = c
               \/ \E k \in DOMAIN toApp' : toApp'[k].t = "prompted" /\ toApp'[k].of = c
               \/ running' # None /\ owner'[running'].of = c /\ owner'[running'].at = losses
    <2>1. ASSUME NEW i \in DOMAIN toHost, toHost[i].t = "prompt", toHost[i].of = c
          PROVE  \/ \E k \in DOMAIN toHost' : toHost'[k].t = "prompt" /\ toHost'[k].of = c
                 \/ \E k \in DOMAIN toApp' : toApp'[k].t = "prompted" /\ toApp'[k].of = c
                 \/ running' # None /\ owner'[running'].of = c /\ owner'[running'].at = losses
      <3>1. CASE Kept(i)
        BY <2>1, <3>1 DEF Kept
      <3>2. CASE \E j \in DOMAIN F : F[j].t = "prompted" /\ F[j].of = c
        BY <1>1, <3>2
      <3> QED
        BY <2>1, <3>1, <3>2 DEF TurnTold
    <2>2. ASSUME running # None, owner[running].of = c, owner[running].at = losses
          PROVE  \/ \E k \in DOMAIN toApp' : toApp'[k].t = "prompted" /\ toApp'[k].of = c
                 \/ running' # None /\ owner'[running'].of = c /\ owner'[running'].at = losses
      <3>1. CASE running' = running
        BY <1>4, <2>2, <3>1
      <3>2. CASE running' # running
        <4>1. attached
          BY <1>0, <1>8, <2>2 DEF OwnOK
        <4>2. \E i \in DOMAIN F : F[i].t = "prompted" /\ F[i].of = c
          BY <1>8, <2>2, <3>2, <4>1 DEF TurnTold
        <4> QED
          BY <1>1, <4>2
      <3> QED
        BY <3>1, <3>2
    <2>3. \A k \in DOMAIN toApp : toApp[k].t = "prompted" /\ toApp[k].of = c =>
             k \in DOMAIN toApp' /\ toApp'[k].t = "prompted" /\ toApp'[k].of = c
      BY <1>1
    <2> QED
      BY <1>8, <2>1, <2>2, <2>3 DEF AnswerComes
  <1>9. CurOK'
    <2> SUFFICES ASSUME cur # 0 PROVE CurOK'
      BY <1>2 DEF CurOK
    <2>1. Resumes \/ Steady(obj[cur])'
      <3>1. Resumes \/ Steady(obj[cur])
        BY <1>0 DEF CurOK
      <3> QED
        BY <1>2, <1>7, <3>1 DEF Steady, EndComes
    <2>2. Alive /\ obj[cur].awaits => AnswerComes(cur)'
      <3>1. Alive /\ obj[cur].awaits => AnswerComes(cur)
        BY <1>0 DEF CurOK
      <3> QED
        BY <1>2, <1>8, <3>1 DEF AnswerComes
    <2> QED
      BY <1>0, <1>2, <2>1, <2>2 DEF CurOK
  <1>10. OwnOK'
    <2>1. \A i \in DOMAIN obj : obj[i].ended # None => obj[i].id # running'
      <3>1. \A i \in DOMAIN obj : obj[i].ended # None => obj[i].id \in DOMAIN owner /\ obj[i].id # None /\ obj[i].id # running
        BY <1>0 DEF AppOK, OwnOK
      <3> QED
        BY <1>4, <3>1
    <2>2. ASSUME Alive, running' # None, owner'[running'].of # 0, owner'[running'].at = losses
          PROVE  attached'
      <3>1. CASE running' = running
        BY <1>0, <1>4, <2>2, <3>1 DEF OwnOK
      <3>2. CASE running' # running
        BY <2>2, <3>2 DEF TurnTold
      <3> QED
        BY <3>1, <3>2
    <2>3. \A n \in DOMAIN owner' : owner'[n].at <= losses
      BY DEF TurnTold
    <2> QED
      BY <1>2, <2>1, <2>2, <2>3 DEF OwnOK
  <1>11. ASSUME attached', running' # None, running' # running \/ ~attached
         PROVE  \E j \in DOMAIN F : F[j].t = "running" /\ F[j].of = running'
    BY <1>11 DEF TurnTold
  <1>12. RunOK'
    <2>1. attached' /\ running' # None =>
             \/ cur # 0 /\ obj[cur].id = running'
             \/ \E i \in DOMAIN toApp' : toApp'[i].t = "running" /\ toApp'[i].of = running'
      <3> SUFFICES ASSUME attached', running' # None
                   PROVE  \/ cur # 0 /\ obj[cur].id = running'
                          \/ \E i \in DOMAIN toApp' : toApp'[i].t = "running" /\ toApp'[i].of = running'
        OBVIOUS
      <3>1. CASE running' = running /\ attached
        BY <1>0, <1>1, <3>1 DEF RunOK, Runs
      <3>2. CASE running' # running \/ ~attached
        BY <1>1, <1>11, <3>2
      <3> QED
        BY <1>0, <3>1, <3>2
    <2>2. ASSUME NEW i \in DOMAIN toApp', toApp'[i].t = "running", toApp'[i].of # running'
          PROVE  /\ \E k \in DOMAIN toApp' : i < k /\ toApp'[k].t = "ended" /\ toApp'[k].of = toApp'[i].of
                 /\ running' # None => \E k \in DOMAIN toApp' : i < k /\ toApp'[k].t = "running" /\ toApp'[k].of = running'
      <3>1. i \in DOMAIN toApp /\ toApp'[i] = toApp[i]
        BY <1>1, <2>2 DEF TurnTold
      <3>2. attached /\ toApp[i].of \in DOMAIN owner /\ toApp[i].of # None
        <4>1. attached
          BY <1>0, <2>2, <3>1 DEF UpdatesOK
        <4>2. toApp[i].of \in DOMAIN owner
          BY <1>0, <2>2, <3>1 DEF FramesOK, AppFrame
        <4> QED
          BY <1>0, <4>1, <4>2, EachOwner, NoneIs
      <3>3. running' # None /\ running' # running => \E k \in DOMAIN toApp' : i < k /\ toApp'[k].t = "running" /\ toApp'[k].of = running'
        BY <1>1, <1>4, <1>11, <3>1, <3>2
      <3>4. CASE toApp[i].of = running
        <4>1. \E j \in DOMAIN F : F[j].t = "ended" /\ F[j].of = running
          BY <2>2, <3>1, <3>2, <3>4 DEF TurnTold
        <4> QED
          BY <1>1, <2>2, <3>1, <3>3, <3>4, <4>1
      <3>5. CASE toApp[i].of # running
        <4>1. /\ \E k \in DOMAIN toApp : i < k /\ toApp[k].t = "ended" /\ toApp[k].of = toApp[i].of
              /\ running # None => \E k \in DOMAIN toApp : i < k /\ toApp[k].t = "running" /\ toApp[k].of = running
          BY <1>0, <2>2, <3>1, <3>5 DEF RunOK, Runs
        <4> QED
          BY <1>1, <3>1, <3>3, <4>1
      <3> QED
        BY <3>4, <3>5
    <2>3. ASSUME NEW k \in DOMAIN toApp', toApp'[k].t = "prompted", toApp'[k].how = "done",
                 toApp'[k].of = cur, obj[cur].id = None
          PROVE  \E j \in DOMAIN toApp' : j < k /\ toApp'[j].t = "running"
      <3>1. CASE k \in DOMAIN toApp
        <4>1. \E j \in DOMAIN toApp : j < k /\ toApp[j].t = "running"
          BY <1>0, <1>1, <2>3, <3>1 DEF RunOK
        <4> QED
          BY <1>1, <4>1
      <3>2. CASE k \notin DOMAIN toApp
        <4>1. PICK j \in DOMAIN F : k = Len(toApp) + j /\ toApp'[k] = F[j]
          BY <1>1, <3>2
        <4>2. running # None /\ owner[running].of = cur /\ owner[running].at = losses
          BY <2>3, <4>1 DEF TurnTold
        <4>3. cur # 0
          <5>1. AppFrame(F[j])'
            BY DEF Speaks
          <5>2. F[j].of \in Prompts'
            BY <2>3, <4>1, <5>1 DEF AppFrame
          <5> QED
            BY <1>0, <1>2, <2>3, <4>1, <5>2, EachSound DEF Prompts
        <4>4. Alive /\ attached
          BY <1>0, <1>3, <4>2, <4>3 DEF OwnOK
        <4>5. PICK x \in DOMAIN toApp : toApp[x].t = "running"
          BY <1>0, <2>3, <4>2, <4>4 DEF RunOK, Runs
        <4> QED
          BY <1>1, <4>1, <4>5
      <3> QED
        BY <3>1, <3>2
    <2> QED
      BY <1>2, <2>1, <2>2, <2>3 DEF RunOK, Runs
  <1> QED
    BY <1>5, <1>9, <1>10, <1>12

\* The host says F, of itself or to the app's first frame.
HostTook == Up /\ toHost # <<>> /\ toHost' = Tail(toHost)
HostSays(F) ==
  /\ IsSeq(F) /\ toApp' = toApp \o F
  /\ UNCHANGED <<link, sessVars, askVars, losses>>
  /\ UNCHANGED toHost \/ HostTook

LEMMA SaidAgrees ==
  ASSUME ClientInv, AgreeInv, ClientInv', NEW F, HostSays(F), InboxTold(F), TurnTold(F)
  PROVE  AgreeInv'
  <1>0. IsSeq(toApp) /\ IsSeq(F) /\ StageOK /\ StageOK' /\ FramesOK' /\ attached' \in BOOLEAN
    BY Bound DEF HostSays, ClientInv, HostOK
  <1>1. Joins(toApp', toApp, F)
    BY <1>0, Joined DEF HostSays
  <1>2. ~Up => F = <<>>
    <2> SUFFICES ASSUME ~Up PROVE F = <<>>
      OBVIOUS
    <2>1. toApp = <<>> /\ toApp' = <<>>
      BY <1>0 DEF StageOK, HostSays, Up
    <2>2. Len(F) \in Nat /\ Len(toApp') = Len(toApp) + Len(F) /\ Len(toApp) = 0 /\ Len(toApp') = 0
      BY <1>0, <1>1, <2>1, SeqLength, NoFrames DEF Joins
    <2>3. Len(F) = 0
      BY <2>2
    <2> QED
      BY <1>0, <2>3, SeqLength
  <1>3. \A i \in DOMAIN F : AppFrame(F[i])'
    <2> TAKE i \in DOMAIN F
    <2>1. PICK j \in DOMAIN toApp' : toApp'[j] = F[i]
      BY <1>1 DEF Joins
    <2>2. AppFrame(toApp[j])'
      BY <1>0, <2>1 DEF FramesOK
    <2> QED
      BY <2>1, <2>2 DEF AppFrame
  <1>4. Speaks(F)
    BY <1>0, <1>2, <1>3, HostFirst DEF HostSays, HostTook, Speaks, sessVars, askVars
  <1>5. InboxOK'
    BY <1>4, InboxSaid
  <1> QED
    BY <1>0, <1>4, <1>5, TurnsSaid DEF AgreeInv

LEMMA QueueKept ==
  ASSUME ClientInv, UNCHANGED toHost \/ HostTook
  PROVE  /\ \A i \in DOMAIN toHost : Kept(i) \/ (i = 1 /\ HostTook)
         /\ UNCHANGED toHost => \A i \in DOMAIN toHost : Kept(i)
  <1>1. CASE UNCHANGED toHost
    BY <1>1 DEF Kept
  <1>2. CASE HostTook
    <2>1. Takes(toHost', toHost)
      BY <1>2, HostFirst DEF HostTook
    <2>2. ASSUME NEW i \in DOMAIN toHost, i # 1 PROVE Kept(i)
      BY <2>1, <2>2 DEF Takes, Kept
    <2> QED
      BY <1>2, <2>2 DEF Kept
  <1> QED
    BY <1>1, <1>2

\* F tells nothing of the requests, or of the turns.
LEMMA InboxSame ==
  ASSUME UNCHANGED asked, attached' => attached, NEW F,
         \A i \in DOMAIN F : F[i].t \notin {"ask", "added", "resolved", "pending"},
         \A i \in DOMAIN toHost : Looking(toHost[i]) => Kept(i)
  PROVE  InboxTold(F)
  <1>1. \A q \in Asks, i \in DOMAIN F : ~Adding(F[i], q) /\ ~Removing(F[i], q) /\ ~Looking(F[i])
    BY DEF Adding, Removing, Looking
  <1> QED
    BY <1>1 DEF InboxTold

LEMMA TurnSame ==
  ASSUME AgreeInv, UNCHANGED <<running, owner, attached>>, NEW F,
         \A i \in DOMAIN F : F[i].t # "running" /\ (F[i].t = "prompted" => F[i].how # "done"),
         \A i \in DOMAIN toHost :
            /\ Loading(toHost[i]) => Kept(i) \/ \E j \in DOMAIN F : Loading(F[j])
            /\ toHost[i].t = "prompt" =>
                  Kept(i) \/ \E j \in DOMAIN F : F[j].t = "prompted" /\ F[j].of = toHost[i].of
  PROVE  TurnTold(F)
  <1>1. \A n \in DOMAIN owner : owner[n].at <= losses
    BY DEF AgreeInv, OwnOK
  <1> QED
    BY <1>1 DEF TurnTold

LEMMA SaysAgrees ==
  ASSUME ClientInv, AgreeInv, ClientInv', Goes(AgentSays)
  PROVE  AgreeInv'
  <1>a. PICK p : p = Len(record')
    OBVIOUS
  <1>b. PICK u : u = Frame("update", p, None)
    OBVIOUS
  <1>c. PICK F : F = IF attached THEN <<u>> ELSE <<>>
    OBVIOUS
  <1>1. /\ toApp' = toApp \o F
        /\ UNCHANGED <<toHost, link, sessVars, askVars, losses>>
        /\ UNCHANGED <<running, owner, asked, attached>>
    BY <1>a, <1>b, <1>c DEF Goes, AgentSays, Told, Answers
  <1>2. IsSeq(F) /\ \A i \in DOMAIN F : F[i] = u
    BY <1>c, One, NoFrames
  <1>3. u.t = "update"
    BY <1>b DEF Frame
  <1>4. \A i \in DOMAIN toHost : Kept(i)
    BY <1>1, QueueKept
  <1>5. HostSays(F)
    BY <1>1, <1>2 DEF HostSays
  <1>6. InboxTold(F) /\ TurnTold(F)
    BY <1>1, <1>2, <1>3, <1>4, InboxSame, TurnSame
  <1> QED
    BY <1>5, <1>6, SaidAgrees

LEMMA AsksAgrees ==
  ASSUME ClientInv, AgreeInv, ClientInv', NEW q \in Asks, Goes(AgentAsks(q))
  PROVE  AgreeInv'
  <1>a. PICK g : g = Frame("added", q, None)
    OBVIOUS
  <1>b. PICK h : h = Frame("ask", q, None)
    OBVIOUS
  <1>c. PICK H : H = IF attached THEN <<h>> ELSE <<>>
    OBVIOUS
  <1>d. PICK F : F = IF Up THEN <<g>> \o H ELSE <<>>
    OBVIOUS
  <1>0. HostOK /\ StageOK
    BY Bound
  <1>1. /\ toApp' = toApp \o F
        /\ UNCHANGED <<toHost, link, sessVars, askVars, losses>>
        /\ UNCHANGED <<running, owner, attached>>
        /\ asked' = [asked EXCEPT ![q] = "pending"] /\ asked[q] = "none"
    BY <1>a, <1>b, <1>c, <1>d DEF Goes, AgentAsks, Announced, Answers
  <1>2. IsSeq(<<g>>) /\ DOMAIN <<g>> = {1} /\ <<g>>[1] = g
    BY One
  <1>3. IsSeq(H) /\ \A i \in DOMAIN H : H[i] = h
    BY <1>c, One, NoFrames
  <1>4. /\ IsSeq(F) /\ \A i \in DOMAIN F : F[i] = g \/ F[i] = h
        /\ Up => \E i \in DOMAIN F : F[i] = g
    <2>1. Joins(<<g>> \o H, <<g>>, H)
      BY <1>2, <1>3, Joined
    <2> QED
      BY <1>2, <1>3, <1>d, <2>1, NoFrames DEF Joins
  <1>5. /\ g.t = "added" /\ g.of = q /\ h.t = "ask" /\ h.of = q
    BY <1>a, <1>b DEF Frame
  <1>6. \A i \in DOMAIN toHost : Kept(i)
    BY <1>1, QueueKept
  <1>7. HostSays(F)
    BY <1>1, <1>4 DEF HostSays
  <1>8. TurnTold(F)
    BY <1>1, <1>4, <1>5, <1>6, TurnSame
  <1>9. InboxTold(F)
    <2>1. \A x \in Asks : asked'[x] = IF x = q THEN "pending" ELSE asked[x]
      BY <1>0, <1>1 DEF HostOK
    <2>2. \A i \in DOMAIN F, x \in Asks : /\ ~Removing(F[i], x) /\ ~Looking(F[i])
                                          /\ Adding(F[i], x) => x = q
      BY <1>4, <1>5 DEF Removing, Looking, Adding
    <2>3. attached => \E i \in DOMAIN F : Adding(F[i], q)
      BY <1>0, <1>4, <1>5 DEF StageOK, Adding
    <2> QED
      BY <1>1, <1>6, <2>1, <2>2, <2>3 DEF InboxTold
  <1> QED
    BY <1>7, <1>8, <1>9, SaidAgrees

LEMMA OtherAnswersAgrees ==
  ASSUME ClientInv, AgreeInv, ClientInv', NEW q \in Asks, Goes(OtherAnswers(q))
  PROVE  AgreeInv'
  <1>a. PICK g : g = Frame("resolved", q, None)
    OBVIOUS
  <1>b. PICK F : F = IF Up THEN <<g>> ELSE <<>>
    OBVIOUS
  <1>0. HostOK
    BY Bound
  <1>1. /\ toApp' = toApp \o F
        /\ UNCHANGED <<toHost, link, sessVars, askVars, losses>>
        /\ UNCHANGED <<running, owner, attached>>
        /\ asked' = [asked EXCEPT ![q] = "over"] /\ asked[q] = "pending"
    BY <1>a, <1>b DEF Goes, OtherAnswers, Announced, Answers
  <1>4. /\ IsSeq(F) /\ \A i \in DOMAIN F : F[i] = g
        /\ Up => \E i \in DOMAIN F : F[i] = g
    BY <1>b, One, NoFrames
  <1>5. g.t = "resolved" /\ g.of = q
    BY <1>a DEF Frame
  <1>6. \A i \in DOMAIN toHost : Kept(i)
    BY <1>1, QueueKept
  <1>7. HostSays(F)
    BY <1>1, <1>4 DEF HostSays
  <1>8. TurnTold(F)
    BY <1>1, <1>4, <1>5, <1>6, TurnSame
  <1>9. InboxTold(F)
    <2>1. \A x \in Asks : asked'[x] = IF x = q THEN "over" ELSE asked[x]
      BY <1>0, <1>1 DEF HostOK
    <2>2. \A i \in DOMAIN F, x \in Asks : /\ ~Adding(F[i], x) /\ ~Looking(F[i])
                                          /\ Removing(F[i], x) <=> x = q
      BY <1>4, <1>5 DEF Removing, Looking, Adding
    <2> QED
      BY <1>1, <1>4, <1>6, <2>1, <2>2 DEF InboxTold
  <1> QED
    BY <1>7, <1>8, <1>9, SaidAgrees

LEMMA StartsAgrees ==
  ASSUME ClientInv, AgreeInv, ClientInv', NEW i \in Nat, Starts(i),
         \/ i = 0 /\ UNCHANGED toHost
         \/ attached /\ HostTook /\ toHost[1].t = "prompt" /\ toHost[1].of = i,
         UNCHANGED <<link, sessVars, askVars, losses>>
  PROVE  AgreeInv'
  <1>a. PICK n : n = Len(owner) + 1
    OBVIOUS
  <1>b. PICK r : r = Frame("running", n, None)
    OBVIOUS
  <1>c. PICK u : u = Frame("update", Len(record'), None)
    OBVIOUS
  <1>d. PICK H : H = IF i = 0 THEN <<u>> ELSE <<>>
    OBVIOUS
  <1>e. PICK F : F = IF attached THEN <<r>> \o H ELSE <<>>
    OBVIOUS
  <1>0. HostOK /\ losses \in Nat /\ OwnOK
    BY Bound DEF AgreeInv
  <1>1. /\ running = None /\ running' = n
        /\ owner' = Append(owner, [of |-> i, at |-> losses])
        /\ UNCHANGED <<asked, attached>>
        /\ toApp' = toApp \o F
    BY <1>a, <1>b, <1>c, <1>d, <1>e DEF Starts, Told, Answers
  <1>2. /\ n \in Nat /\ n # None /\ DOMAIN owner' = DOMAIN owner \cup {n} /\ n \notin DOMAIN owner
        /\ owner'[n].of = i /\ owner'[n].at = losses
        /\ \A k \in DOMAIN owner : owner'[k] = owner[k]
    <2>1. [of |-> i, at |-> losses] \in [of : Nat, at : Nat]
      BY <1>0
    <2>2. Len(owner) \in Nat /\ DOMAIN owner = 1..Len(owner) /\ owner \in Seq([of : Nat, at : Nat])
      BY <1>0, EachOwner DEF HostOK
    <2>3. /\ Len(owner') = n /\ DOMAIN owner' = 1..n
          /\ owner'[n] = [of |-> i, at |-> losses] /\ \A k \in DOMAIN owner : owner'[k] = owner[k]
      BY <1>1, <1>a, <2>1, <2>2
    <2> QED
      BY <1>a, <2>2, <2>3, NoneIs
  <1>3. IsSeq(<<r>>) /\ DOMAIN <<r>> = {1} /\ <<r>>[1] = r
    BY One
  <1>4. IsSeq(H) /\ \A k \in DOMAIN H : H[k] = u
    BY <1>d, One, NoFrames
  <1>5. /\ IsSeq(F) /\ \A k \in DOMAIN F : F[k] = r \/ F[k] = u
        /\ attached => \E k \in DOMAIN F : F[k] = r
    <2>1. Joins(<<r>> \o H, <<r>>, H)
      BY <1>3, <1>4, Joined
    <2> QED
      BY <1>3, <1>4, <1>e, <2>1, NoFrames DEF Joins
  <1>6. r.t = "running" /\ r.of = n /\ u.t = "update"
    BY <1>b, <1>c DEF Frame
  <1>7. \A k \in DOMAIN toHost : Kept(k) \/ (k = 1 /\ HostTook)
    BY QueueKept
  <1>8. HostSays(F)
    BY <1>1, <1>5 DEF HostSays
  <1>9. \A k \in DOMAIN toHost : Kept(k) \/ (attached /\ toHost[k].t = "prompt" /\ toHost[k].of = i)
    <2>1. UNCHANGED toHost => \A k \in DOMAIN toHost : Kept(k)
      BY QueueKept
    <2> QED
      BY <1>7, <2>1
  <1>10. InboxTold(F)
    <2>1. \A k \in DOMAIN toHost : Looking(toHost[k]) => Kept(k)
      BY <1>9 DEF Looking
    <2> QED
      BY <1>1, <1>5, <1>6, <2>1, InboxSame
  <1>11. TurnTold(F)
    <2>1. \A k \in DOMAIN toHost :
             /\ Loading(toHost[k]) => Kept(k)
             /\ toHost[k].t = "prompt" => Kept(k) \/ i = toHost[k].of
      BY <1>9 DEF Loading
    <2>2. \A k \in DOMAIN owner' : owner'[k].at <= losses
      BY <1>0, <1>2 DEF OwnOK
    <2>3. owner'[running'].of = 0 \/ attached'
      BY <1>1, <1>2
    <2> QED
      BY <1>1, <1>2, <1>5, <1>6, <2>1, <2>2, <2>3 DEF TurnTold
  <1> QED
    BY <1>8, <1>10, <1>11, SaidAgrees

LEMMA EndsAgrees ==
  ASSUME ClientInv, AgreeInv, ClientInv', Goes(TurnEnds)
  PROVE  AgreeInv'
  <1>0. HostOK /\ StageOK /\ IsSeq(toApp)
    BY Bound
  <1>a. PICK how \in Ends :
           Announced(EachAsk(Pending, "resolved") \o PromptFrames(how)
                     \o IF attached THEN <<Frame("ended", running, how)>> ELSE <<>>)
    BY DEF Goes, TurnEnds, Ends
  <1>1. /\ running # None /\ running' = None
        /\ asked' = [q \in Asks |-> IF asked[q] = "pending" THEN "over" ELSE asked[q]]
        /\ UNCHANGED <<record, owner, attached>>
        /\ UNCHANGED <<toHost, link, sessVars, askVars, losses>>
    BY DEF Goes, TurnEnds
  <1>b. PICK e : e = Frame("ended", running, how)
    OBVIOUS
  <1>c. PICK A : A = EachAsk(Pending, "resolved")
    OBVIOUS
  <1>d. PICK B : B = PromptFrames(how)
    OBVIOUS
  <1>e. PICK C : C = IF attached THEN <<e>> ELSE <<>>
    OBVIOUS
  <1>f. PICK D : D = A \o B
    OBVIOUS
  <1>g. PICK F : F = IF Up THEN D \o C ELSE <<>>
    OBVIOUS
  <1>2. toApp' = toApp \o F
    BY <1>a, <1>b, <1>c, <1>d, <1>e, <1>f, <1>g DEF Announced, Answers
  <1>3. /\ IsSeq(A)
        /\ \A k \in DOMAIN A : \E q \in Pending : A[k] = Frame("resolved", q, None)
        /\ \A q \in Pending : \E k \in DOMAIN A : A[k] = Frame("resolved", q, None)
    <2>1. Pending \in SUBSET Asks
      BY DEF Pending
    <2>2. \A q \in Pending : \E k \in DOMAIN A : A[k] = Frame("resolved", q, None)
      BY <1>c, <2>1, EachAskAll
    <2> QED
      BY <1>c, <2>1, <2>2, EachAskFrames
  <1>h. PICK p : p = Frame("prompted", owner[running].of, how)
    OBVIOUS
  <1>4. /\ IsSeq(B) /\ \A k \in DOMAIN B : B[k] = p /\ owner[running].at = losses
        /\ owner[running].of # 0 /\ owner[running].at = losses => \E k \in DOMAIN B : B[k] = p
    <2>2. B = IF owner[running].of # 0 /\ owner[running].at = losses THEN <<p>> ELSE <<>>
      BY <1>d, <1>h DEF PromptFrames
    <2> QED
      BY <2>2, One, NoFrames
  <1>5. /\ IsSeq(C) /\ \A k \in DOMAIN C : C[k] = e
        /\ attached => \E k \in DOMAIN C : C[k] = e
    BY <1>e, One, NoFrames
  <1>6. Joins(D, A, B)
    BY <1>3, <1>4, <1>f, Joined
  <1>7. Joins(D \o C, D, C)
    <2>1. IsSeq(D)
      BY <1>6 DEF Joins
    <2> QED
      BY <1>5, <2>1, Joined
  <1>8. /\ IsSeq(F)
        /\ \A k \in DOMAIN F : \/ \E q \in Pending : F[k] = Frame("resolved", q, None)
                               \/ F[k] = p /\ owner[running].at = losses
                               \/ F[k] = e
        /\ Up => /\ \A q \in Pending : \E k \in DOMAIN F : F[k] = Frame("resolved", q, None)
                 /\ owner[running].of # 0 /\ owner[running].at = losses => \E k \in DOMAIN F : F[k] = p
                 /\ attached => \E k \in DOMAIN F : F[k] = e
    <2>0. \A k \in DOMAIN D : \/ \E q \in Pending : D[k] = Frame("resolved", q, None)
                              \/ D[k] = p /\ owner[running].at = losses
      BY <1>3, <1>4, <1>6 DEF Joins
    <2>1. \A q \in Pending : \E k \in DOMAIN D : D[k] = Frame("resolved", q, None)
      <3> TAKE q \in Pending
      <3>1. PICK k \in DOMAIN A : A[k] = Frame("resolved", q, None)
        BY <1>3
      <3> QED
        BY <1>6, <3>1 DEF Joins
    <2>2. owner[running].of # 0 /\ owner[running].at = losses => \E k \in DOMAIN D : D[k] = p
      BY <1>4, <1>6 DEF Joins
    <2>3. CASE Up
      <3>0. F = D \o C /\ Joins(F, D, C)
        BY <1>7, <1>g, <2>3
      <3>1. IsSeq(F) /\ \A k \in DOMAIN F : (k \in DOMAIN D /\ F[k] = D[k]) \/ F[k] = e
        BY <1>5, <3>0 DEF Joins
      <3>2. \A k \in DOMAIN D : k \in DOMAIN F /\ F[k] = D[k]
        BY <3>0 DEF Joins
      <3>3. attached => \E k \in DOMAIN F : F[k] = e
        BY <1>5, <3>0 DEF Joins
      <3>4. \A q \in Pending : \E k \in DOMAIN F : F[k] = Frame("resolved", q, None)
        BY <2>1, <3>2
      <3>5. owner[running].of # 0 /\ owner[running].at = losses => \E k \in DOMAIN F : F[k] = p
        BY <2>2, <3>2
      <3>6. \A k \in DOMAIN F : \/ \E q \in Pending : F[k] = Frame("resolved", q, None)
                                \/ F[k] = p /\ owner[running].at = losses
                                \/ F[k] = e
        BY <2>0, <3>1
      <3> QED
        BY <3>1, <3>3, <3>4, <3>5, <3>6
    <2>4. CASE ~Up
      BY <1>g, <2>4, NoFrames
    <2> QED
      BY <2>3, <2>4
  <1>9. /\ e.t = "ended" /\ e.of = running /\ p.t = "prompted" /\ p.of = owner[running].of
        /\ \A q : Frame("resolved", q, None).t = "resolved" /\ Frame("resolved", q, None).of = q
    BY <1>b, <1>h DEF Frame
  <1>10. \A i \in DOMAIN toHost : Kept(i)
    BY <1>1, QueueKept
  <1>11. HostSays(F)
    BY <1>1, <1>2, <1>8 DEF HostSays
  <1>12. TurnTold(F)
    <2>1. \A n \in DOMAIN owner : owner[n].at <= losses
      BY DEF AgreeInv, OwnOK
    <2>2. attached => Up
      BY <1>0 DEF StageOK
    <2>3. ASSUME attached
          PROVE  /\ \E i \in DOMAIN F : F[i].t = "ended" /\ F[i].of = running
                 /\ owner[running].of # 0 /\ owner[running].at = losses =>
                       \E i \in DOMAIN F : F[i].t = "prompted" /\ F[i].of = owner[running].of
      BY <1>8, <1>9, <2>2, <2>3
    <2>4. \A i \in DOMAIN F : /\ F[i].t # "running"
                              /\ F[i].t = "prompted" => F[i].of = owner[running].of /\ owner[running].at = losses
      <3> TAKE i \in DOMAIN F
      <3>1. CASE \E q \in Pending : F[i] = Frame("resolved", q, None)
        BY <1>9, <3>1
      <3>2. CASE F[i] = p /\ owner[running].at = losses
        BY <1>9, <3>2
      <3>3. CASE F[i] = e
        BY <1>9, <3>3
      <3> QED
        BY <1>8, <3>1, <3>2, <3>3
    <2> QED
      BY <1>1, <1>10, <2>1, <2>3, <2>4 DEF TurnTold
  <1>13. InboxTold(F)
    <2>1. \A x \in Asks : asked'[x] = IF asked[x] = "pending" THEN "over" ELSE asked[x]
      BY <1>1
    <2>2. \A i \in DOMAIN F, x \in Asks : /\ ~Adding(F[i], x) /\ ~Looking(F[i])
                                          /\ Removing(F[i], x) => x \in Pending
      <3> TAKE i \in DOMAIN F, x \in Asks
      <3>1. CASE \E q \in Pending : F[i] = Frame("resolved", q, None)
        BY <1>9, <3>1 DEF Removing, Looking, Adding
      <3>2. CASE F[i] = p \/ F[i] = e
        BY <1>9, <3>2 DEF Removing, Looking, Adding
      <3> QED
        BY <1>8, <3>1, <3>2
    <2>3. Up => \A x \in Pending : \E i \in DOMAIN F : Removing(F[i], x)
      BY <1>8, <1>9 DEF Removing
    <2>4. \A x \in Asks : x \in Pending <=> asked[x] = "pending"
      BY DEF Pending
    <2>5. \A x \in Asks : asked[x] \in {"none", "pending", "over"}
      BY <1>0 DEF HostOK
    <2> QED
      BY <1>1, <1>10, <2>1, <2>2, <2>3, <2>4, <2>5 DEF InboxTold
  <1> QED
    BY <1>11, <1>12, <1>13, SaidAgrees

LEMMA ReplayAsks ==
  ASSUME HostOK, NEW F, F = Replayed, NEW q \in Pending
  PROVE  \E i \in DOMAIN F : F[i] = Frame("ask", q, None)
  <1> DEFINE A == [p \in DOMAIN record |-> Frame("update", p, None)]
             C == <<Frame("loaded", None, "ok")>>
             D == EachAsk(Pending, "ask")
  <1>1. IsSeq(A)
    <2>1. Len(record) \in Nat /\ DOMAIN record = 1..Len(record)
      BY EachOwner
    <2> DEFINE g(p) == Frame("update", p, None)
    <2> HIDE DEF g
    <2>2. [p \in 1..Len(record) |-> g(p)] \in Seq({g(p) : p \in 1..Len(record)})
      BY <2>1, IsASeq
    <2>3. A = [p \in 1..Len(record) |-> g(p)]
      BY <2>1 DEF g
    <2> QED
      BY <2>2, <2>3 DEF IsSeq
  <1>2. IsSeq(Latest)
    BY One, NoFrames DEF Latest
  <1>3. IsSeq(C)
    BY One
  <1>4. IsSeq(D) /\ \E i \in DOMAIN D : D[i] = Frame("ask", q, None)
    <2>1. Pending \in SUBSET Asks
      BY DEF Pending
    <2> QED
      BY <2>1, EachAskFrames, EachAskAll
  <1>5. F = ((A \o Latest) \o C) \o D
    BY DEF Replayed
  <1> HIDE DEF A, C, D
  <1>6. IsSeq(A \o Latest)
    BY <1>1, <1>2, Joined DEF Joins
  <1>7. IsSeq((A \o Latest) \o C)
    BY <1>3, <1>6, Joined DEF Joins
  <1>8. Joins(F, (A \o Latest) \o C, D)
    BY <1>4, <1>5, <1>7, Joined
  <1> QED
    BY <1>4, <1>8 DEF Joins

LEMMA LoadAgrees ==
  ASSUME ClientInv, AgreeInv, ClientInv', HostTook, toHost[1].t = "load",
         attached' = TRUE, NEW F, F = Replayed, Answers(F),
         UNCHANGED <<record, running, last, owner, asked>>,
         UNCHANGED <<link, sessVars, askVars, losses>>
  PROVE  AgreeInv'
  <1>0. HostOK /\ StageOK
    BY Bound
  <1>1. /\ IsSeq(F)
        /\ \A i \in DOMAIN F :
              /\ F[i].t \in {"update", "running", "ended", "loaded", "ask"}
              /\ F[i].t = "running" => running # None /\ F[i].of = running
              /\ F[i].t = "ask" => F[i].of \in Pending
    BY <1>0, Snapshot
  <1>2. PICK m \in DOMAIN F :
               /\ F[m] = Frame("loaded", None, "ok")
               /\ running # None => \E i \in DOMAIN F : i < m /\ F[i].t = "running"
    BY <1>0, Snapshot
  <1>3. Loading(F[m])
    BY <1>2 DEF Frame, Loading
  <1>4. ~attached
    BY <1>0, HostFirst DEF StageOK, Loading, HostTook
  <1>5. HostSays(F)
    BY <1>1 DEF HostSays, Answers
  <1>6. \A i \in DOMAIN toHost : Kept(i) \/ toHost[i].t = "load"
    BY QueueKept
  <1>7. InboxTold(F)
    <2>1. \A q \in Pending : \E i \in DOMAIN F : Adding(F[i], q)
      <3> TAKE q \in Pending
      <3>1. PICK i \in DOMAIN F : F[i] = Frame("ask", q, None)
        BY <1>0, ReplayAsks
      <3> QED
        BY <3>1 DEF Frame, Adding
    <2>2. \A q \in Asks, i \in DOMAIN F : /\ ~Removing(F[i], q) /\ ~Looking(F[i])
                                          /\ Adding(F[i], q) => q \in Pending
      BY <1>1 DEF Removing, Looking, Adding
    <2>3. \A i \in DOMAIN toHost : Looking(toHost[i]) => Kept(i)
      BY <1>6 DEF Looking
    <2> QED
      BY <2>1, <2>2, <2>3 DEF InboxTold, Pending
  <1>8. TurnTold(F)
    <2>1. \A n \in DOMAIN owner : owner[n].at <= losses
      BY DEF AgreeInv, OwnOK
    <2>2. running # None => \E i \in DOMAIN F : F[i].t = "running" /\ F[i].of = running
      BY <1>1, <1>2
    <2>3. \A i \in DOMAIN F : F[i].t # "prompted"
      BY <1>1
    <2>4. \A i \in DOMAIN toHost : toHost[i].t = "prompt" => Kept(i)
      BY <1>6
    <2> QED
      BY <1>1, <1>3, <1>4, <2>1, <2>2, <2>3, <2>4 DEF TurnTold
  <1> QED
    BY <1>5, <1>7, <1>8, SaidAgrees

\* One frame is the answer.
LEMMA OneSays ==
  ASSUME HostTook, NEW f, NEW F, F = <<f>>, Answers(F), UNCHANGED <<link, sessVars, askVars, losses>>
  PROVE  HostSays(F) /\ 1 \in DOMAIN F /\ F[1] = f /\ \A i \in DOMAIN F : F[i] = f
  BY One DEF HostSays, Answers

LEMMA LoadFailsAgrees ==
  ASSUME ClientInv, AgreeInv, ClientInv', HostTook, toHost[1].t = "load",
         attached' = FALSE, Answers(<<Frame("loaded", None, "error")>>),
         UNCHANGED <<record, running, last, owner, asked>>,
         UNCHANGED <<link, sessVars, askVars, losses>>
  PROVE  AgreeInv'
  <1>a. PICK f : f = Frame("loaded", None, "error")
    OBVIOUS
  <1>b. PICK F : F = <<f>>
    OBVIOUS
  <1>1. HostSays(F) /\ 1 \in DOMAIN F /\ F[1] = f /\ \A i \in DOMAIN F : F[i] = f
    BY <1>a, <1>b, OneSays
  <1>2. f.t = "loaded" /\ Loading(f)
    BY <1>a DEF Frame, Loading
  <1>3. attached' = attached
    <2>1. StageOK /\ attached \in BOOLEAN
      BY Bound
    <2>2. ~attached
      BY <2>1, HostFirst DEF StageOK, Loading, HostTook
    <2> QED
      BY <2>1, <2>2
  <1>4. \A i \in DOMAIN toHost : Kept(i) \/ toHost[i].t = "load"
    BY QueueKept
  <1>5. InboxTold(F)
    BY <1>1, <1>2, <1>3, <1>4, InboxSame DEF Looking
  <1>6. TurnTold(F)
    <2>1. \A i \in DOMAIN toHost : toHost[i].t = "prompt" => Kept(i)
      BY <1>4
    <2> QED
      BY <1>1, <1>2, <1>3, <2>1, TurnSame
  <1> QED
    BY <1>1, <1>5, <1>6, SaidAgrees

LEMMA RefuseAgrees ==
  ASSUME ClientInv, AgreeInv, ClientInv', HostTook, toHost[1].t = "prompt",
         Answers(<<Frame("prompted", toHost[1].of, "error")>>),
         UNCHANGED hostVars, UNCHANGED <<link, sessVars, askVars, losses>>
  PROVE  AgreeInv'
  <1>a. PICK f : f = Frame("prompted", toHost[1].of, "error")
    OBVIOUS
  <1>b. PICK F : F = <<f>>
    OBVIOUS
  <1>1. HostSays(F) /\ 1 \in DOMAIN F /\ F[1] = f /\ \A i \in DOMAIN F : F[i] = f
    BY <1>a, <1>b, OneSays
  <1>2. f.t = "prompted" /\ f.how = "error" /\ f.of = toHost[1].of
    BY <1>a DEF Frame
  <1>3. UNCHANGED <<running, owner, asked, attached>>
    BY DEF hostVars
  <1>4. \A i \in DOMAIN toHost : Kept(i) \/ (i = 1 /\ toHost[i].t = "prompt")
    BY QueueKept
  <1>5. InboxTold(F)
    BY <1>1, <1>2, <1>3, <1>4, InboxSame DEF Looking
  <1>6. TurnTold(F)
    <2>1. \A i \in DOMAIN toHost : /\ Loading(toHost[i]) => Kept(i)
                                   /\ Kept(i) \/ \E j \in DOMAIN F : F[j].t = "prompted" /\ F[j].of = toHost[i].of
      BY <1>1, <1>2, <1>4 DEF Loading
    <2> QED
      BY <1>1, <1>2, <1>3, <2>1, TurnSame
  <1> QED
    BY <1>1, <1>5, <1>6, SaidAgrees

LEMMA LookedUpAgrees ==
  ASSUME ClientInv, AgreeInv, ClientInv', HostTook, toHost[1].t = "pending",
         Answers(<<Frame("pending", Pending, toHost[1].how)>>),
         UNCHANGED hostVars, UNCHANGED <<link, sessVars, askVars, losses>>
  PROVE  AgreeInv'
  <1>a. PICK f : f = Frame("pending", Pending, toHost[1].how)
    OBVIOUS
  <1>b. PICK F : F = <<f>>
    OBVIOUS
  <1>1. HostSays(F) /\ 1 \in DOMAIN F /\ F[1] = f /\ \A i \in DOMAIN F : F[i] = f
    BY <1>a, <1>b, OneSays
  <1>2. f.t = "pending" /\ f.of = Pending /\ f.how = toHost[1].how
    BY <1>a DEF Frame
  <1>3. UNCHANGED <<running, owner, asked, attached>>
    BY DEF hostVars
  <1>4. \A i \in DOMAIN toHost : Kept(i) \/ (i = 1 /\ toHost[i].t = "pending")
    BY QueueKept
  <1>5. InboxTold(F)
    <2>1. \A q \in Asks : q \in f.of <=> asked'[q] = "pending"
      BY <1>2, <1>3 DEF Pending
    <2>2. \A q \in Asks : ~Removing(f, q) /\ (Adding(f, q) => q \in f.of)
      BY <1>2 DEF Removing, Adding
    <2>3. \A i \in DOMAIN toHost : Looking(toHost[i]) => Kept(i) \/ \E j \in DOMAIN F : Looking(F[j])
      BY <1>1, <1>2, <1>4 DEF Looking
    <2> QED
      BY <1>1, <1>3, <2>1, <2>2, <2>3 DEF InboxTold
  <1>6. TurnTold(F)
    <2>1. \A i \in DOMAIN toHost : Loading(toHost[i]) \/ toHost[i].t = "prompt" => Kept(i)
      BY <1>4 DEF Loading
    <2> QED
      BY <1>1, <1>2, <1>3, <2>1, TurnSame
  <1> QED
    BY <1>1, <1>5, <1>6, SaidAgrees

LEMMA AnswerAgrees ==
  ASSUME ClientInv, AgreeInv, ClientInv', HostTook, toHost[1].t = "answer",
         NEW q, HostAnswer(q), UNCHANGED <<record, running, last, owner, attached>>,
         UNCHANGED <<link, sessVars, askVars, losses>>
  PROVE  AgreeInv'
  <1>0. HostOK
    BY Bound
  <1>a. PICK g : g = Frame("resolved", q, None)
    OBVIOUS
  <1>b. PICK h : h = Frame("answered", q, None)
    OBVIOUS
  <1>c. PICK G : G = IF asked[q] = "pending" THEN <<g>> ELSE <<>>
    OBVIOUS
  <1>d. PICK F : F = G \o <<h>>
    OBVIOUS
  <1>1. toApp' = toApp \o F /\ asked' = [asked EXCEPT ![q] = "over"]
    BY <1>a, <1>b, <1>c, <1>d DEF HostAnswer, Answers
  <1>2. /\ IsSeq(G) /\ \A i \in DOMAIN G : G[i] = g
        /\ asked[q] = "pending" => \E i \in DOMAIN G : G[i] = g
    BY <1>c, One, NoFrames
  <1>3. IsSeq(<<h>>) /\ DOMAIN <<h>> = {1} /\ <<h>>[1] = h
    BY One
  <1>4. /\ IsSeq(F) /\ \A i \in DOMAIN F : F[i] = g \/ F[i] = h
        /\ asked[q] = "pending" => \E i \in DOMAIN F : F[i] = g
    <2>1. Joins(F, G, <<h>>)
      BY <1>2, <1>3, <1>d, Joined
    <2> QED
      BY <1>2, <1>3, <2>1 DEF Joins
  <1>5. g.t = "resolved" /\ g.of = q /\ h.t = "answered"
    BY <1>a, <1>b DEF Frame
  <1>6. HostSays(F)
    BY <1>1, <1>4 DEF HostSays
  <1>7. \A i \in DOMAIN toHost : Kept(i) \/ toHost[i].t = "answer"
    BY QueueKept
  <1>8. InboxTold(F)
    <2>1. \A x \in Asks : asked'[x] = IF x = q THEN "over" ELSE asked[x]
      BY <1>0, <1>1 DEF HostOK
    <2>2. \A i \in DOMAIN F, x \in Asks : /\ ~Adding(F[i], x) /\ ~Looking(F[i])
                                          /\ Removing(F[i], x) => x = q
      BY <1>4, <1>5 DEF Removing, Looking, Adding
    <2>3. asked[q] = "pending" => \E i \in DOMAIN F : Removing(F[i], q)
      BY <1>4, <1>5 DEF Removing
    <2>4. \A i \in DOMAIN toHost : Looking(toHost[i]) => Kept(i)
      BY <1>7 DEF Looking
    <2> QED
      BY <2>1, <2>2, <2>3, <2>4 DEF InboxTold
  <1>9. TurnTold(F)
    <2>1. \A i \in DOMAIN toHost : Loading(toHost[i]) \/ toHost[i].t = "prompt" => Kept(i)
      BY <1>7 DEF Loading
    <2> QED
      BY <1>4, <1>5, <2>1, TurnSame
  <1> QED
    BY <1>6, <1>8, <1>9, SaidAgrees

LEMMA HostTakesAgrees ==
  ASSUME ClientInv, AgreeInv, ClientInv', HostTakes
  PROVE  AgreeInv'
  <1>a. PICK f : f = toHost[1]
    OBVIOUS
  <1>1. HostTook /\ UNCHANGED <<link, sessVars, askVars, losses>>
    BY DEF HostTakes, HostTook
  <1>2. Head(toHost) = f /\ HostFrame(f)
    BY <1>1, <1>a, HostFirst DEF HostTook
  <1>3. \/ f.t = "load" /\ HostLoad /\ UNCHANGED <<record, running, last, owner, asked>>
        \/ f.t = "prompt" /\ HostPrompt(f.of)
        \/ /\ f.t = "pending" /\ Answers(<<Frame("pending", Pending, f.how)>>)
           /\ UNCHANGED hostVars
        \/ /\ f.t = "answer" /\ HostAnswer(f.of)
           /\ UNCHANGED <<record, running, last, owner, attached>>
    BY <1>2 DEF HostTakes
  <1>4. CASE f.t = "load" /\ HostLoad /\ UNCHANGED <<record, running, last, owner, asked>>
    <2>1. CASE attached' = TRUE /\ Answers(Replayed)
      <3>1. PICK F : F = Replayed
        OBVIOUS
      <3>2. Answers(F)
        BY <2>1, <3>1 DEF Answers
      <3> QED
        BY <1>1, <1>4, <1>a, <2>1, <3>1, <3>2, LoadAgrees
    <2>2. CASE attached' = FALSE /\ Answers(<<Frame("loaded", None, "error")>>)
      BY <1>1, <1>4, <1>a, <2>2, LoadFailsAgrees
    <2> QED
      BY <1>4, <2>1, <2>2 DEF HostLoad, Replayed
  <1>5. CASE f.t = "prompt" /\ HostPrompt(f.of)
    <2>1. f.of \in Nat
      BY <1>2, <1>5, Bound, EachSound DEF HostFrame, Prompts
    <2>2. CASE attached /\ Starts(f.of)
      BY <1>1, <1>5, <1>a, <2>1, <2>2, StartsAgrees
    <2>3. CASE Answers(<<Frame("prompted", f.of, "error")>>) /\ UNCHANGED hostVars
      BY <1>1, <1>5, <1>a, <2>3, RefuseAgrees
    <2> QED
      BY <1>5, <2>2, <2>3 DEF HostPrompt
  <1>6. CASE f.t = "pending" /\ Answers(<<Frame("pending", Pending, f.how)>>) /\ UNCHANGED hostVars
    BY <1>1, <1>6, <1>a, LookedUpAgrees
  <1>7. CASE /\ f.t = "answer" /\ HostAnswer(f.of)
             /\ UNCHANGED <<record, running, last, owner, attached>>
    BY <1>1, <1>7, <1>a, AnswerAgrees
  <1> QED
    BY <1>3, <1>4, <1>5, <1>6, <1>7

LEMMA ElsewhereAgrees ==
  ASSUME ClientInv, AgreeInv, ClientInv', Elsewhere
  PROVE  AgreeInv'
  <1>1. CASE Goes(OtherPrompts)
    <2>1. Starts(0) /\ UNCHANGED toHost /\ UNCHANGED <<link, sessVars, askVars, losses>> /\ 0 \in Nat
      BY <1>1 DEF Goes, OtherPrompts
    <2> QED
      BY <2>1, StartsAgrees
  <1>2. CASE Goes(AgentSays)
    BY <1>2, SaysAgrees
  <1>3. CASE Goes(TurnEnds)
    BY <1>3, EndsAgrees
  <1>4. ASSUME NEW q \in Asks, Goes(AgentAsks(q)) PROVE AgreeInv'
    BY <1>4, AsksAgrees
  <1>5. ASSUME NEW q \in Asks, Goes(OtherAnswers(q)) PROVE AgreeInv'
    BY <1>5, OtherAnswersAgrees
  <1> QED
    BY <1>1, <1>2, <1>3, <1>4, <1>5 DEF Elsewhere
-----------------------------------------------------------------------------
(* The frames the app takes *)

LEMMA Shifts ==
  ASSUME ClientInv, NEW f, Picks(f)
  PROVE  /\ f = toApp[1] /\ 1 \in DOMAIN toApp
         /\ \A i \in DOMAIN toApp' : i \in Nat \ {0} /\ i + 1 \in DOMAIN toApp /\ toApp'[i] = toApp[i + 1]
         /\ \A i \in DOMAIN toApp : i \in Nat \ {0} /\ (i # 1 => i - 1 \in DOMAIN toApp' /\ toApp'[i - 1] = toApp[i])
         /\ \A i, j \in DOMAIN toApp : i < j => j # 1 /\ (i # 1 => i - 1 < j - 1)
         /\ UNCHANGED <<asked, attached, running, owner, losses>>
  <1>1. /\ Takes(toApp', toApp) /\ f = toApp[1] /\ 1 \in DOMAIN toApp
        /\ UNCHANGED <<asked, attached, running, owner, losses>>
    BY AppFirst
  <1>2. \A i \in DOMAIN toApp : i \in Nat \ {0}
    BY <1>1 DEF Takes
  <1>3. \A i, j \in DOMAIN toApp : i < j => j # 1 /\ (i # 1 => i - 1 < j - 1)
    BY <1>2
  <1> QED
    BY <1>1, <1>3 DEF Takes

\* The inbox takes in what f says of the requests.
InboxTakes(f) ==
  /\ \A q \in Pending : (q \in requests \/ Adding(f, q)) /\ ~Lacks(f, q) => q \in requests'
  /\ \A q \in requests' : (q \in requests \/ Adding(f, q)) /\ ~Removing(f, q) /\ ~Lacks(f, q)
  /\ link = "resuming" /\ replay # None /\ requests # {} =>
        \/ link' = "resuming" /\ replay' # None
        \/ \E i \in DOMAIN toHost' : Looking(toHost'[i])
  /\ \A i \in DOMAIN toHost : Looking(toHost[i]) => Kept(i)

LEMMA InboxPassed ==
  ASSUME ClientInv, AgreeInv, NEW f, Picks(f), InboxTakes(f), requests' \subseteq Asks
  PROVE  InboxOK'
  <1>0. InboxOK /\ requests \subseteq Asks /\ Up
    BY Bound DEF AgreeInv, Picks
  <1>1. /\ f = toApp[1] /\ 1 \in DOMAIN toApp /\ UNCHANGED <<asked, attached>>
        /\ \A i \in DOMAIN toApp' : i \in Nat \ {0} /\ i + 1 \in DOMAIN toApp /\ toApp'[i] = toApp[i + 1]
        /\ \A i \in DOMAIN toApp : i # 1 => i - 1 \in DOMAIN toApp' /\ toApp'[i - 1] = toApp[i]
        /\ \A i, j \in DOMAIN toApp : i < j => j # 1
    BY Shifts
  \* What comes after f still comes.
  <1>2. ASSUME NEW i \in DOMAIN toApp', NEW j \in DOMAIN toApp, i + 1 < j
        PROVE  j - 1 \in DOMAIN toApp' /\ toApp'[j - 1] = toApp[j] /\ i < j - 1
    <2>1. i + 1 \in DOMAIN toApp /\ i \in Nat /\ j \in Nat
      BY <1>1, Shifts
    <2> QED
      BY <1>1, <1>2, <2>1
  <1>3. ASSUME attached', NEW q \in Pending'
        PROVE  /\ q \in requests' \/ \E i \in DOMAIN toApp' : Adding(toApp'[i], q)
               /\ \A i \in DOMAIN toApp' : Lacks(toApp'[i], q) =>
                     \E j \in DOMAIN toApp' : i < j /\ Adding(toApp'[j], q)
    <2>1. attached /\ q \in Pending
      BY <1>1, <1>3 DEF Pending
    <2>2. /\ q \in requests \/ \E i \in DOMAIN toApp : Adding(toApp[i], q)
          /\ \A i \in DOMAIN toApp : Lacks(toApp[i], q) =>
                \E j \in DOMAIN toApp : i < j /\ Adding(toApp[j], q)
      BY <1>0, <2>1 DEF InboxOK
    <2>3. q \in requests' \/ \E i \in DOMAIN toApp' : Adding(toApp'[i], q)
      <3>1. CASE Lacks(f, q)
        <4>1. PICK j \in DOMAIN toApp : 1 < j /\ Adding(toApp[j], q)
          BY <1>1, <2>2, <3>1
        <4> QED
          BY <1>1, <4>1
      <3>2. CASE ~Lacks(f, q) /\ (q \in requests \/ Adding(f, q))
        BY <2>1, <3>2 DEF InboxTakes
      <3>3. CASE ~(q \in requests \/ Adding(f, q))
        <4>1. PICK i \in DOMAIN toApp : Adding(toApp[i], q)
          BY <2>2, <3>3
        <4> QED
          BY <1>1, <3>3, <4>1
      <3> QED
        BY <3>1, <3>2, <3>3
    <2>4. ASSUME NEW i \in DOMAIN toApp', Lacks(toApp'[i], q)
          PROVE  \E j \in DOMAIN toApp' : i < j /\ Adding(toApp'[j], q)
      <3>1. PICK j \in DOMAIN toApp : i + 1 < j /\ Adding(toApp[j], q)
        BY <1>1, <2>2, <2>4
      <3> QED
        BY <1>2, <3>1
    <2> QED
      BY <2>3, <2>4
  <1>4. ASSUME NEW q \in Asks, NEW i \in DOMAIN toApp'
        PROVE  /\ Removing(toApp'[i], q) => asked'[q] = "over"
               /\ Adding(toApp'[i], q) /\ asked'[q] # "pending" =>
                     \E j \in DOMAIN toApp' : i < j /\ Removing(toApp'[j], q)
    <2>1. i + 1 \in DOMAIN toApp /\ toApp'[i] = toApp[i + 1]
      BY <1>1
    <2>2. /\ Removing(toApp[i + 1], q) => asked[q] = "over"
          /\ Adding(toApp[i + 1], q) /\ asked[q] # "pending" =>
                \E j \in DOMAIN toApp : i + 1 < j /\ Removing(toApp[j], q)
      BY <1>0, <2>1 DEF InboxOK
    <2> QED
      BY <1>1, <1>2, <2>1, <2>2
  <1>5. ASSUME NEW q \in requests', asked'[q] # "pending"
        PROVE  \/ link' = "resuming" /\ replay' # None
               \/ \E i \in DOMAIN toHost' : Looking(toHost'[i])
               \/ \E i \in DOMAIN toApp' : Removing(toApp'[i], q) \/ Lacks(toApp'[i], q)
    <2>0. q \in Asks /\ asked[q] # "pending" /\ (q \in requests \/ Adding(f, q)) /\ ~Removing(f, q) /\ ~Lacks(f, q)
      BY <1>1, <1>5 DEF InboxTakes
    <2>1. CASE Adding(f, q)
      <3>1. PICK j \in DOMAIN toApp : 1 < j /\ Removing(toApp[j], q)
        BY <1>0, <1>1, <2>0, <2>1 DEF InboxOK
      <3> QED
        BY <1>1, <3>1
    <2>2. CASE q \in requests
      <3>1. Clears(q)
        BY <1>0, <2>0, <2>2 DEF InboxOK
      <3>2. CASE link = "resuming" /\ replay # None
        BY <2>2, <3>2 DEF InboxTakes
      <3>3. CASE \E i \in DOMAIN toHost : Looking(toHost[i])
        BY <3>3 DEF InboxTakes, Kept
      <3>4. CASE \E i \in DOMAIN toApp : Removing(toApp[i], q) \/ Lacks(toApp[i], q)
        BY <1>1, <2>0, <3>4
      <3> QED
        BY <1>0, <3>1, <3>2, <3>3, <3>4 DEF Clears
    <2> QED
      BY <2>0, <2>1, <2>2
  <1>6. \A q \in requests' : asked'[q] # "pending" => Clears(q)'
    BY <1>5 DEF Clears
  <1> QED
    BY <1>3, <1>4, <1>6 DEF InboxOK

\* f is no word of the requests.
LEMMA InboxKeeps ==
  ASSUME ClientInv, AgreeInv, NEW f, Picks(f), UNCHANGED <<toHost, link, requests>>,
         replay # None => replay' # None, f.t \notin {"ask", "added", "resolved", "pending"}
  PROVE  InboxOK'
  <1>1. \A q : ~Adding(f, q) /\ ~Removing(f, q) /\ ~Lacks(f, q)
    BY DEF Adding, Removing, Lacks, Looking
  <1>2. \A i \in DOMAIN toHost : Kept(i)
    BY QueueKept
  <1>3. InboxTakes(f)
    BY <1>1, <1>2 DEF InboxTakes
  <1> QED
    BY <1>3, Bound, InboxPassed

LEMMA LoadsPassed ==
  ASSUME ClientInv, AgreeInv, NEW f, Picks(f), ~Loading(f), UNCHANGED toHost,
         replay' # None => replay # None /\ link' = link /\ (replay'.sawRunning => replay.sawRunning \/ attached)
  PROVE  LoadsOK'
  <1>1. /\ f = toApp[1] /\ UNCHANGED attached /\ LoadsOK /\ Up
        /\ \A i \in DOMAIN toApp : i # 1 => i - 1 \in DOMAIN toApp' /\ toApp'[i - 1] = toApp[i]
    BY Shifts DEF AgreeInv, Picks
  <1>2. LoadComes => LoadComes'
    BY <1>1 DEF LoadComes, Loading
  <1> QED
    BY <1>1, <1>2 DEF LoadsOK

LEMMA OwnPassed ==
  ASSUME ClientInv, AgreeInv, NEW f, Picks(f),
         \A i \in DOMAIN obj' : obj'[i].ended # None => obj'[i].id # running
  PROVE  OwnOK'
  <1>1. UNCHANGED <<attached, running, owner, losses>> /\ OwnOK /\ Alive
    BY Shifts DEF AgreeInv, Picks, Up, Alive
  <1> QED
    BY <1>1 DEF OwnOK

LEMMA RunPassed ==
  ASSUME ClientInv, AgreeInv, ClientInv', NEW f, Picks(f),
         \* The turn that runs is still the app's, or on its way to it.
         attached /\ running # None /\ (Runs(1, running) \/ (cur # 0 /\ obj[cur].id = running)) =>
            \/ cur' # 0 /\ obj'[cur'].id = running
            \/ \E i \in DOMAIN toApp : i # 1 /\ Runs(i, running),
         cur' # 0 /\ obj'[cur'].id = None => cur' = cur /\ obj[cur].id = None /\ f.t # "running"
  PROVE  RunOK'
  <1>1. /\ f = toApp[1] /\ 1 \in DOMAIN toApp /\ UNCHANGED <<attached, running>> /\ RunOK
        /\ \A i \in DOMAIN toApp' : i \in Nat \ {0} /\ i + 1 \in DOMAIN toApp /\ toApp'[i] = toApp[i + 1]
        /\ \A i \in DOMAIN toApp : i \in Nat \ {0} /\ (i # 1 => i - 1 \in DOMAIN toApp' /\ toApp'[i - 1] = toApp[i])
    BY Shifts DEF AgreeInv
  <1>2. ASSUME NEW i \in DOMAIN toApp', NEW j \in DOMAIN toApp, i + 1 < j
        PROVE  j - 1 \in DOMAIN toApp' /\ toApp'[j - 1] = toApp[j] /\ i < j - 1
    <2>1. i + 1 \in DOMAIN toApp /\ i \in Nat /\ j \in Nat /\ j # 1
      BY <1>1, <1>2
    <2> QED
      BY <1>1, <1>2, <2>1
  <1>3. attached' /\ running' # None =>
           \/ cur' # 0 /\ obj'[cur'].id = running'
           \/ \E i \in DOMAIN toApp' : toApp'[i].t = "running" /\ toApp'[i].of = running'
    <2> SUFFICES ASSUME attached, running # None
                 PROVE  \/ cur' # 0 /\ obj'[cur'].id = running
                        \/ \E i \in DOMAIN toApp' : toApp'[i].t = "running" /\ toApp'[i].of = running
      BY <1>1
    <2>1. ASSUME NEW i \in DOMAIN toApp, i # 1, Runs(i, running)
          PROVE  \E k \in DOMAIN toApp' : toApp'[k].t = "running" /\ toApp'[k].of = running
      BY <1>1, <2>1 DEF Runs
    <2>2. CASE Runs(1, running) \/ (cur # 0 /\ obj[cur].id = running)
      BY <2>1, <2>2
    <2>3. CASE ~(Runs(1, running) \/ (cur # 0 /\ obj[cur].id = running))
      <3>1. PICK i \in DOMAIN toApp : Runs(i, running)
        BY <1>1, <2>3 DEF RunOK
      <3> QED
        BY <2>1, <2>3, <3>1
    <2> QED
      BY <2>2, <2>3
  <1>4. ASSUME NEW i \in DOMAIN toApp', toApp'[i].t = "running", toApp'[i].of # running'
        PROVE  /\ \E k \in DOMAIN toApp' : i < k /\ toApp'[k].t = "ended" /\ toApp'[k].of = toApp'[i].of
               /\ running' # None => \E k \in DOMAIN toApp' : i < k /\ toApp'[k].t = "running" /\ toApp'[k].of = running'
    <2>1. i + 1 \in DOMAIN toApp /\ toApp'[i] = toApp[i + 1]
      BY <1>1
    <2>2. /\ \E k \in DOMAIN toApp : i + 1 < k /\ toApp[k].t = "ended" /\ toApp[k].of = toApp[i + 1].of
          /\ running # None => \E k \in DOMAIN toApp : i + 1 < k /\ toApp[k].t = "running" /\ toApp[k].of = running
      BY <1>1, <1>4, <2>1 DEF RunOK, Runs
    <2> QED
      BY <1>1, <1>2, <2>1, <2>2
  <1>5. ASSUME NEW k \in DOMAIN toApp', toApp'[k].t = "prompted", toApp'[k].how = "done",
               toApp'[k].of = cur', obj'[cur'].id = None
        PROVE  \E j \in DOMAIN toApp' : j < k /\ toApp'[j].t = "running"
    <2>1. cur' # 0
      <3>1. FramesOK' /\ AppOK'
        BY DEF ClientInv
      <3>2. cur' \in Prompts'
        BY <1>5, <3>1 DEF FramesOK, AppFrame
      <3>3. obj' \in Seq(Object)
        BY <3>1 DEF AppOK
      <3>4. DOMAIN obj' = 1..Len(obj') /\ Len(obj') \in Nat
        BY <3>3
      <3> QED
        BY <3>2, <3>4 DEF Prompts
    <2>2. k + 1 \in DOMAIN toApp /\ toApp'[k] = toApp[k + 1] /\ k \in Nat
      BY <1>1
    <2>3. PICK j \in DOMAIN toApp : j < k + 1 /\ toApp[j].t = "running"
      BY <1>1, <1>5, <2>1, <2>2 DEF RunOK
    <2>4. j # 1
      BY <1>1, <1>5, <2>1, <2>3
    <2>5. j - 1 \in DOMAIN toApp' /\ toApp'[j - 1] = toApp[j] /\ j \in Nat
      BY <1>1, <2>4
    <2> QED
      BY <2>2, <2>3, <2>5
  <1> QED
    BY <1>3, <1>4, <1>5 DEF RunOK, Runs

\* The session's turn is left as it was.
CurSame ==
  /\ cur' = cur
  /\ cur # 0 => /\ obj'[cur].id = obj[cur].id /\ obj'[cur].ended = obj[cur].ended
                /\ obj'[cur].local = obj[cur].local /\ obj'[cur].awaits = obj[cur].awaits
                /\ obj'[cur].sent = obj[cur].sent /\ obj'[cur].answer = obj[cur].answer
                /\ obj'[cur].finished = obj[cur].finished

LEMMA SteadyStays ==
  ASSUME ClientInv, AgreeInv, NEW f, Picks(f), \A i \in DOMAIN toHost : Kept(i)
  PROVE  /\ \A i \in DOMAIN obj : /\ AnswerComes(i) /\ ~(f.t = "prompted" /\ f.of = i)
                                  /\ i \in Waiting => /\ i \in DOMAIN obj' /\ obj'[i].local
                                                      /\ obj'[i].sent = None /\ obj'[i].answer = None
                                  => AnswerComes(i)'
         /\ \A n : EndComes(n) /\ ~(f.t = "ended" /\ f.of = n) => EndComes(n)'
  <1>1. /\ f = toApp[1] /\ UNCHANGED <<attached, running, owner, losses>>
        /\ \A i \in DOMAIN toApp : i # 1 => i - 1 \in DOMAIN toApp' /\ toApp'[i - 1] = toApp[i]
    BY Shifts
  <1>2. ASSUME NEW i \in DOMAIN obj, AnswerComes(i), ~(f.t = "prompted" /\ f.of = i),
               i \in Waiting => /\ i \in DOMAIN obj' /\ obj'[i].local
                                /\ obj'[i].sent = None /\ obj'[i].answer = None
        PROVE  AnswerComes(i)'
    <2>1. CASE i \in Waiting
      BY <1>2, <2>1 DEF AnswerComes, Waiting, Prompts
    <2>2. CASE \E k \in DOMAIN toHost : toHost[k].t = "prompt" /\ toHost[k].of = i
      BY <2>2 DEF AnswerComes, Kept
    <2>3. CASE \E k \in DOMAIN toApp : toApp[k].t = "prompted" /\ toApp[k].of = i
      BY <1>1, <1>2, <2>3 DEF AnswerComes
    <2>4. CASE running # None /\ owner[running].of = i /\ owner[running].at = losses
      BY <1>1, <2>4 DEF AnswerComes
    <2> QED
      BY <1>2, <2>1, <2>2, <2>3, <2>4 DEF AnswerComes
  <1>3. \A n : EndComes(n) /\ ~(f.t = "ended" /\ f.of = n) => EndComes(n)'
    BY <1>1 DEF EndComes
  <1> QED
    BY <1>2, <1>3

\* The turn that stays the session's: what the app waits for still comes.
LEMMA CurPassed ==
  ASSUME ClientInv, AgreeInv, NEW f, Picks(f), \A i \in DOMAIN toHost : Kept(i),
         CurSame, cur # 0 => cur \in DOMAIN obj', Up',
         f.t = "prompted" => f.of # cur, f.t = "ended" /\ cur # 0 => obj[cur].id # f.of,
         cur # 0 => \/ opened' = "open"
                    \/ opened' = "opening" /\ replay'.sawRunning,
         cur # 0 => Resumes' \/ Steady(obj[cur])
  PROVE  CurOK'
  <1> SUFFICES ASSUME cur # 0
               PROVE  /\ obj'[cur'].finished = None
                      /\ Resumes' \/ Steady(obj[cur])'
                      /\ Alive' /\ obj'[cur'].awaits => AnswerComes(cur)'
                      /\ obj'[cur'].id = None => obj'[cur'].local
    BY DEF CurOK, CurSame
  <1>1. CurOK /\ Alive /\ cur \in DOMAIN obj /\ UNCHANGED <<attached, running>>
    BY Shifts, Bound, EachSound DEF AgreeInv, Picks, Up, Alive
  <1>2. cur \in Waiting => obj'[cur].local /\ obj'[cur].sent = None /\ obj'[cur].answer = None
    BY DEF CurSame, Waiting, Prompts
  <1>3. Resumes' \/ Steady(obj[cur])'
    <2>1. CASE Steady(obj[cur])
      <3>1. EndComes(obj[cur].id) /\ ~(f.t = "ended" /\ f.of = obj[cur].id) => EndComes(obj[cur].id)'
        <4>1. PICK n : n = obj[cur].id
          OBVIOUS
        <4>2. n = obj'[cur'].id
          BY <4>1 DEF CurSame
        <4>3. EndComes(n) /\ ~(f.t = "ended" /\ f.of = n) => EndComes(n)'
          BY SteadyStays
        <4> QED
          BY <4>1, <4>2, <4>3 DEF EndComes
      <3> QED
        BY <1>1, <2>1, <3>1 DEF CurSame, Steady
    <2> QED
      BY <2>1
  <1>4. obj'[cur'].awaits => AnswerComes(cur)'
    <2> SUFFICES ASSUME obj[cur].awaits PROVE AnswerComes(cur)'
      BY DEF CurSame
    <2>1. AnswerComes(cur)
      BY <1>1 DEF CurOK
    <2>2. PICK i : i = cur
      OBVIOUS
    <2>3. AnswerComes(i)'
      BY <1>1, <1>2, <2>1, <2>2, SteadyStays
    <2>4. cur' = i
      BY <2>2 DEF CurSame
    <2> QED
      BY <2>3, <2>4
  <1> QED
    BY <1>1, <1>3, <1>4 DEF CurSame, CurOK

\* A frame that says nothing of the session's turn.
LEMMA PassAgrees ==
  ASSUME ClientInv, AgreeInv, ClientInv', NEW f, Picks(f), f.t \notin {"running", "loaded"},
         UNCHANGED <<toHost, opened>>, CurSame, DOMAIN obj' = DOMAIN obj,
         \A i \in DOMAIN obj : obj'[i].id = obj[i].id /\ obj'[i].ended = obj[i].ended,
         f.t = "prompted" => f.of # cur, f.t = "ended" /\ cur # 0 => obj[cur].id # f.of,
         replay' = None <=> replay = None, replay # None => replay'.sawRunning = replay.sawRunning,
         link' = link \/ (replay = None /\ link' = "online")
  PROVE  LoadsOK' /\ CurOK' /\ OwnOK' /\ RunOK'
  <1>1. /\ f = toApp[1] /\ UNCHANGED <<attached, running>> /\ CurOK /\ OwnOK /\ RunOK /\ Up /\ Up'
        /\ cur # 0 => cur \in DOMAIN obj
    BY Shifts, Bound, EachSound DEF AgreeInv, Picks, Up
  <1>2. LoadsOK'
    <2>1. ~Loading(f)
      BY AppFirst DEF Loading, AppFrame, FromHost
    <2> QED
      BY <1>1, <2>1, LoadsPassed
  <1>3. OwnOK'
    BY <1>1, OwnPassed DEF OwnOK
  <1>4. RunOK'
    <2>1. cur # 0 /\ obj[cur].id = running => cur' # 0 /\ obj'[cur'].id = running
      BY DEF CurSame
    <2>2. ~Runs(1, running)
      BY <1>1 DEF Runs
    <2>3. cur' # 0 /\ obj'[cur'].id = None => cur' = cur /\ obj[cur].id = None /\ f.t # "running"
      BY <1>1 DEF CurSame
    <2> QED
      BY <2>1, <2>2, <2>3, RunPassed
  <1>5. CurOK'
    <2>1. \A i \in DOMAIN toHost : Kept(i)
      BY QueueKept
    <2>2. cur # 0 => opened = "open" \/ (opened = "opening" /\ replay.sawRunning /\ replay # None)
      <3> SUFFICES ASSUME cur # 0, opened # "open" PROVE opened = "opening" /\ replay.sawRunning /\ replay # None
        OBVIOUS
      <3>1. opened = "opening" /\ replay.sawRunning
        BY <1>1 DEF CurOK, Up
      <3>2. StageOK
        BY Bound
      <3> QED
        BY <3>1, <3>2 DEF StageOK
    <2>3. Resumes <=> Resumes'
      BY <1>1 DEF Resumes
    <2>4. cur # 0 => Resumes' \/ Steady(obj[cur])
      BY <1>1, <2>3 DEF CurOK
    <2> QED
      BY <1>1, <2>1, <2>2, <2>4, CurPassed
  <1> QED
    BY <1>2, <1>3, <1>4, <1>5

LEMMA RunningAgrees ==
  ASSUME ClientInv, AgreeInv, ClientInv', NEW f, Picks(f), f.t = "running", Running(f.of),
         UNCHANGED <<toHost, link, opened, log, shown, askVars>>
  PROVE  AgreeInv'
  <1>a. PICK n : n = f.of
    OBVIOUS
  <1>1. /\ n \in DOMAIN owner /\ n # None /\ AppOK /\ StageOK /\ UpdatesOK /\ Up /\ Up' /\ Alive
        /\ UNCHANGED <<attached, running>> /\ 1 \in DOMAIN toApp /\ f = toApp[1]
        /\ LoadsOK /\ CurOK /\ OwnOK /\ RunOK /\ replay \in Replays \cup {None}
        /\ \A i \in DOMAIN toApp : i \in Nat
    <2>1. AppFrame(f) /\ HostOK /\ AppOK /\ StageOK /\ UpdatesOK /\ Up
      BY AppFirst
    <2>2. n \in DOMAIN owner /\ n # None
      BY <1>a, <2>1, EachOwner, NoneIs DEF AppFrame
    <2> QED
      BY <2>1, <2>2, Shifts, Bound DEF AgreeInv, Up, Alive
  <1>2. attached /\ opened \in {"opening", "open"}
    BY <1>1, Bound DEF UpdatesOK, Up
  <1>3. replay' # None => replay # None /\ replay'.sawRunning
    BY <1>1 DEF Running, Replays
  <1>4. replay # None => replay' # None
    <2>1. replay # None => replay' = [replay EXCEPT !.sawRunning = TRUE]
      BY DEF Running
    <2>2. replay # None => replay' \in Replays
      BY <1>1, <2>1 DEF Replays
    <2> QED
      BY <2>2, NoneIs
  <1>5. InboxOK'
    BY <1>4, InboxKeeps DEF askVars
  <1>6. LoadsOK'
    BY <1>1, <1>2, <1>3, LoadsPassed DEF Loading
  <1>7. n # running => /\ \E k \in DOMAIN toApp : 1 < k /\ toApp[k].t = "ended" /\ toApp[k].of = n
                       /\ running # None => \E k \in DOMAIN toApp : k # 1 /\ Runs(k, running)
    <2> SUFFICES ASSUME n # running
                 PROVE  /\ \E k \in DOMAIN toApp : 1 < k /\ toApp[k].t = "ended" /\ toApp[k].of = n
                        /\ running # None => \E k \in DOMAIN toApp : k # 1 /\ Runs(k, running)
      OBVIOUS
    <2>1. /\ \E k \in DOMAIN toApp : 1 < k /\ toApp[k].t = "ended" /\ toApp[k].of = n
          /\ running # None => \E k \in DOMAIN toApp : 1 < k /\ Runs(k, running)
      BY <1>1, <1>a DEF RunOK
    <2> QED
      BY <1>1, <2>1
  \* The session's turn is n, and is not over.
  <1>8. PICK o : o = IF Mine(n) THEN [obj[cur] EXCEPT !.id = n] ELSE NewTurn(FALSE, n)
    OBVIOUS
  <1>9. /\ o.id = n /\ o.finished = None /\ cur' # 0 /\ cur' \in DOMAIN obj' /\ obj'[cur'] = o
        /\ \A i \in DOMAIN obj' : i = cur' \/ (i \in DOMAIN obj /\ obj'[i] = obj[i])
        /\ o.ended # None => o.id # running
        /\ o.awaits => Mine(n) /\ cur' = cur /\ o.sent = obj[cur].sent /\ o.answer = obj[cur].answer
                               /\ o.local = obj[cur].local /\ obj[cur].awaits
    <2>1. CASE Mine(n)
      <3>1. cur # 0 /\ cur \in DOMAIN obj /\ obj[cur] \in Object /\ obj[cur].finished = None
        BY <1>1, <2>1, EachSound DEF Mine, CurOK, Sound
      <3>2. obj' = [obj EXCEPT ![cur] = o] /\ cur' = cur /\ o = [obj[cur] EXCEPT !.id = n]
        BY <1>8, <1>a, <2>1 DEF Running
      <3>3. /\ o.id = n /\ o.finished = None /\ o.ended = obj[cur].ended /\ o.awaits = obj[cur].awaits
            /\ o.sent = obj[cur].sent /\ o.answer = obj[cur].answer /\ o.local = obj[cur].local
        BY <3>1, <3>2 DEF Object
      <3>4. o.ended # None => o.id # running
        BY <1>1, <2>1, <3>1, <3>3 DEF Mine, AppOK, OwnOK
      <3> QED
        BY <1>1, <2>1, <3>1, <3>2, <3>3, <3>4
    <2>2. CASE ~Mine(n)
      <3>1. o.id = n /\ o.finished = None /\ o.ended = None /\ ~o.awaits
        BY <1>8, <2>2, NewIs
      <3>2. obj' = Append(obj, o) /\ cur' = Len(obj) + 1
        BY <1>8, <1>a, <2>2 DEF Running
      <3>3. obj \in Seq(Object) /\ Len(obj) \in Nat /\ DOMAIN obj = 1..Len(obj)
        BY <1>1, EachSound
      <3>4. o \in Object
        BY <1>1, <1>8, <2>2, Bound, EachOwner, Starting DEF Sound
      <3>5. /\ DOMAIN obj' = 1..(Len(obj) + 1) /\ obj'[Len(obj) + 1] = o
            /\ \A i \in 1..Len(obj) : obj'[i] = obj[i]
        BY <3>2, <3>3, <3>4
      <3> QED
        BY <3>1, <3>2, <3>3, <3>5
    <2> QED
      BY <2>1, <2>2
  <1>10. OwnOK'
    BY <1>1, <1>9, OwnPassed DEF OwnOK
  <1>11. RunOK'
    <2>1. running = n => cur' # 0 /\ obj'[cur'].id = running
      BY <1>9
    <2>2. obj'[cur'].id # None
      BY <1>1, <1>9
    <2> QED
      BY <1>7, <2>1, <2>2, RunPassed
  <1>12. CurOK'
    <2>1. opened' = "open" \/ (opened' = "opening" /\ Up' /\ replay'.sawRunning)
      <3>1. opened = "opening" => replay # None
        BY <1>1 DEF StageOK
      <3> QED
        BY <1>1, <1>2, <1>3, <1>4, <3>1
    <2>2. Steady(obj[cur])'
      <3>1. CASE n = running
        BY <1>1, <1>2, <1>9, <3>1 DEF Steady
      <3>2. CASE n # running
        <4>1. EndComes(n) /\ f.t # "ended"
          BY <1>7, <3>2 DEF EndComes
        <4>2. \A i \in DOMAIN toHost : Kept(i)
          BY QueueKept
        <4>3. EndComes(n)'
          BY <4>1, <4>2, SteadyStays
        <4>4. EndComes(obj[cur].id)'
          BY <1>9, <4>3 DEF EndComes
        <4> QED
          BY <1>1, <1>2, <1>9, <4>4 DEF Steady
      <3> QED
        BY <3>1, <3>2
    <2>3. obj'[cur'].awaits => AnswerComes(cur)'
      <3> SUFFICES ASSUME o.awaits PROVE AnswerComes(cur)'
        BY <1>9
      <3>1. PICK i : i = cur
        OBVIOUS
      <3>2. /\ i \in DOMAIN obj /\ cur' = i /\ i \in DOMAIN obj' /\ AnswerComes(i) /\ f.t # "prompted"
            /\ obj'[i].local = obj[i].local /\ obj'[i].sent = obj[i].sent /\ obj'[i].answer = obj[i].answer
        BY <1>1, <1>9, <3>1, EachSound DEF Mine, CurOK
      <3>3. i \in Waiting => obj'[i].local /\ obj'[i].sent = None /\ obj'[i].answer = None
        BY <3>2 DEF Waiting, Prompts
      <3>4. \A j \in DOMAIN toHost : Kept(j)
        BY QueueKept
      <3>5. AnswerComes(i)'
        BY <3>2, <3>3, <3>4, SteadyStays
      <3> QED
        BY <3>2, <3>5
    <2> QED
      BY <1>1, <1>9, <2>1, <2>2, <2>3 DEF CurOK
  <1> QED
    BY <1>5, <1>6, <1>10, <1>11, <1>12 DEF AgreeInv

LEMMA EndedAgrees ==
  ASSUME ClientInv, AgreeInv, ClientInv', NEW f, Picks(f), f.t = "ended", EndedNotice(f.of, f.how),
         UNCHANGED <<toHost, link, opened, log, replay, shown, askVars>>
  PROVE  AgreeInv'
  <1>a. PICK n : n = f.of
    OBVIOUS
  <1>b. PICK how : how = f.how
    OBVIOUS
  <1>1. /\ n \in DOMAIN owner /\ n \in Nat /\ n # None /\ how \in Ends /\ AppOK /\ StageOK /\ Up /\ Up' /\ Alive
        /\ UNCHANGED <<attached, running>> /\ f = toApp[1] /\ running # n
        /\ CurOK /\ OwnOK
    <2>1. AppFrame(f) /\ HostOK /\ AppOK /\ StageOK /\ TurnsOK /\ Up /\ 1 \in DOMAIN toApp /\ f = toApp[1]
      BY AppFirst
    <2>2. n \in DOMAIN owner /\ n \in Nat /\ n # None /\ how \in Ends
      BY <1>a, <1>b, <2>1, EachOwner, NoneIs DEF AppFrame
    <2>3. Over(n, 1)
      BY <1>a, <2>1 DEF TurnsOK, EndedOK
    <2> QED
      BY <2>1, <2>2, <2>3, Shifts DEF AgreeInv, Up, Alive, Over
  <1>2. InboxOK'
    BY InboxKeeps DEF askVars
  <1>3. CASE Mine(n)
    <2>1. cur # 0 /\ cur \in DOMAIN obj /\ Sound(obj[cur]) /\ obj[cur].id \in {None, n}
      BY <1>1, <1>3, EachSound DEF Mine
    <2>2. PICK r : r = Ended([obj[cur] EXCEPT !.id = n], how)
      OBVIOUS
    <2>3. /\ r.id = n /\ r.ended # None /\ r.local = obj[cur].local /\ r.awaits = obj[cur].awaits
          /\ r.sent = obj[cur].sent /\ r.answer = obj[cur].answer
          /\ r.finished = None => obj[cur].awaits
      BY <1>1, <2>1, <2>2, EndsNow
    <2>4. obj' = [obj EXCEPT ![cur] = r] /\ cur' = IF r.finished # None THEN 0 ELSE cur
      <3>1. Become([obj EXCEPT ![cur] = r])
        BY <1>3, <1>a, <1>b, <2>2 DEF EndedNotice
      <3> QED
        BY <2>1, <3>1 DEF Become
    <2>5. /\ DOMAIN obj' = DOMAIN obj /\ obj'[cur] = r
          /\ \A i \in DOMAIN obj : i # cur => obj'[i] = obj[i]
      BY <1>1, <2>1, <2>4, EachSound
    <2>6. LoadsOK'
      BY <1>1, LoadsPassed DEF Loading
    <2>7. OwnOK'
      BY <1>1, <2>3, <2>5, OwnPassed DEF OwnOK
    <2>8. RunOK'
      <3>1. ~Runs(1, running) /\ ~(running # None /\ obj[cur].id = running)
        BY <1>1, <2>1 DEF Runs
      <3>2. ~(cur' # 0 /\ obj'[cur'].id = None)
        BY <1>1, <2>3, <2>4, <2>5
      <3> QED
        BY <3>1, <3>2, RunPassed
    <2>9. CurOK'
      <3> SUFFICES ASSUME cur' # 0 PROVE CurOK'
        BY DEF CurOK
      <3>1. cur' = cur /\ r.finished = None /\ r.awaits /\ obj'[cur'] = r
        BY <2>3, <2>4, <2>5
      <3>2. Steady(obj[cur])'
        BY <2>3, <3>1 DEF Steady
      <3>3. opened' = "open" \/ (opened' = "opening" /\ Up' /\ replay'.sawRunning)
        BY <1>1, <2>1 DEF CurOK, Up
      <3>4. AnswerComes(cur)'
        <4>1. PICK i : i = cur
          OBVIOUS
        <4>2. AnswerComes(i) /\ i \in DOMAIN obj /\ i \in DOMAIN obj' /\ f.t # "prompted" /\ cur' = i
          BY <1>1, <2>1, <2>3, <2>5, <3>1, <4>1 DEF CurOK
        <4>3. i \in Waiting => obj'[i].local /\ obj'[i].sent = None /\ obj'[i].answer = None
          BY <2>3, <2>5, <4>1 DEF Waiting, Prompts
        <4>4. \A j \in DOMAIN toHost : Kept(j)
          BY QueueKept
        <4>5. AnswerComes(i)'
          BY <4>2, <4>3, <4>4, SteadyStays
        <4> QED
          BY <4>2, <4>5
      <3> QED
        BY <1>1, <2>3, <3>1, <3>2, <3>3, <3>4 DEF CurOK
    <2> QED
      BY <1>2, <2>6, <2>7, <2>8, <2>9 DEF AgreeInv
  <1>4. CASE ~Mine(n)
    <2>1. UNCHANGED <<obj, cur>> /\ (cur # 0 => obj[cur].id # f.of)
      BY <1>4, <1>a DEF EndedNotice, Mine
    <2>2. CurSame
      BY <2>1 DEF CurSame
    <2> QED
      BY <1>1, <1>2, <2>1, <2>2, PassAgrees DEF AgreeInv
  <1> QED
    BY <1>3, <1>4

LEMMA PromptedAgrees ==
  ASSUME ClientInv, AgreeInv, ClientInv', NEW f, Picks(f), f.t = "prompted",
         Become([obj EXCEPT ![f.of] = Responded(@, f.how)]),
         UNCHANGED <<toHost, link, opened, log, replay, shown, askVars>>
  PROVE  AgreeInv'
  <1>a. PICK i : i = f.of
    OBVIOUS
  <1>1. /\ i \in DOMAIN obj /\ i # 0 /\ f.how \in Ends /\ AppOK /\ StageOK /\ Up /\ Up' /\ Alive
        /\ UNCHANGED <<attached, running>> /\ f = toApp[1] /\ 1 \in DOMAIN toApp
        /\ CurOK /\ OwnOK /\ RunOK /\ Sound(obj[i]) /\ (cur # 0 => cur \in DOMAIN obj)
        /\ \A k \in DOMAIN toApp : k \in Nat \ {0}
    <2>1. AppFrame(f) /\ AppOK /\ StageOK /\ Up /\ 1 \in DOMAIN toApp /\ f = toApp[1]
      BY AppFirst
    <2>2. i \in DOMAIN obj /\ f.how \in Ends
      BY <1>a, <2>1 DEF AppFrame, Prompts
    <2> QED
      BY <2>1, <2>2, Shifts, EachSound DEF AgreeInv, Up, Alive
  <1>2. InboxOK'
    BY InboxKeeps DEF askVars
  <1>3. PICK r : r = Responded(obj[i], f.how)
    OBVIOUS
  <1>4. /\ r.id = obj[i].id /\ r.ended = obj[i].ended /\ r.local = obj[i].local /\ ~r.awaits
        /\ obj[i].ended # None => r.finished # None
        /\ obj[i].id = None /\ f.how = "error" => r.finished # None
        /\ obj[i].finished = None /\ obj[i].ended = None /\ obj[i].id # None => r.finished = None
    BY <1>1, <1>3, Responds
  <1>5. obj' = [obj EXCEPT ![i] = r] /\ cur' = IF cur # 0 /\ obj'[cur].finished # None THEN 0 ELSE cur
    BY <1>3, <1>a DEF Become
  <1>6. /\ DOMAIN obj' = DOMAIN obj /\ obj'[i] = r
        /\ \A k \in DOMAIN obj : k # i => obj'[k] = obj[k]
        /\ \A k \in DOMAIN obj : obj'[k].id = obj[k].id /\ obj'[k].ended = obj[k].ended
    <2>1. DOMAIN obj' = DOMAIN obj /\ \A k \in DOMAIN obj : obj'[k] = IF k = i THEN r ELSE obj[k]
      BY <1>1, <1>5, EachSound
    <2> QED
      BY <1>1, <1>4, <2>1
  <1>7. CASE cur # i
    <2>1. cur # 0 => obj'[cur] = obj[cur] /\ obj[cur].finished = None
      BY <1>1, <1>6, <1>7 DEF CurOK
    <2>2. CurSame
      BY <1>5, <2>1 DEF CurSame
    <2> QED
      BY <1>1, <1>2, <1>6, <1>7, <1>a, <2>2, PassAgrees DEF AgreeInv
  <1>8. CASE cur = i
    <2>1. cur' = IF r.finished # None THEN 0 ELSE cur
      BY <1>1, <1>5, <1>6, <1>8
    <2>2. LoadsOK'
      BY <1>1, LoadsPassed DEF Loading
    <2>3. OwnOK'
      BY <1>1, <1>6, OwnPassed DEF OwnOK
    <2>4. RunOK'
      <3>1. ~Runs(1, running)
        BY <1>1 DEF Runs
      <3>2. running # None /\ obj[cur].id = running => cur' # 0 /\ obj'[cur'].id = running
        <4> SUFFICES ASSUME running # None, obj[cur].id = running PROVE cur' = cur
          BY <1>1, <1>6, <1>8
        <4>1. obj[cur].ended = None /\ obj[cur].finished = None
          BY <1>1, <1>8 DEF OwnOK, CurOK
        <4> QED
          BY <1>4, <1>8, <2>1, <4>1
      <3>3. cur' # 0 /\ obj'[cur'].id = None => cur' = cur /\ obj[cur].id = None /\ f.t # "running"
        BY <1>1, <1>6, <1>8, <2>1
      <3> QED
        BY <3>1, <3>2, <3>3, RunPassed
    <2>5. CurOK'
      <3> SUFFICES ASSUME cur' # 0 PROVE CurOK'
        BY DEF CurOK
      <3>1. cur' = cur /\ r.finished = None /\ obj'[cur'] = r /\ r.ended = None
        BY <1>4, <1>6, <1>8, <2>1
      \* Its turn started: what answers a prompt comes after that.
      <3>2. r.id # None
        <4>1. CASE f.how = "error"
          BY <1>4, <3>1, <4>1
        <4>2. CASE f.how = "done"
          <5>1. ~\E j \in DOMAIN toApp : j < 1 /\ toApp[j].t = "running"
            BY <1>1
          <5>2. obj[cur].id # None
            BY <1>1, <1>8, <1>a, <4>2, <5>1 DEF RunOK
          <5> QED
            BY <1>4, <1>8, <5>2
        <4> QED
          BY <1>1, <4>1, <4>2 DEF Ends
      <3>3. opened' = "open" \/ (opened' = "opening" /\ Up' /\ replay'.sawRunning)
        BY <1>1, <1>8 DEF CurOK, Up
      <3>4. Resumes' \/ Steady(obj[cur])'
        <4>1. CASE Resumes
          BY <1>1, <4>1 DEF Resumes, Up
        <4>2. CASE Steady(obj[cur])
          <5>1. /\ obj[cur].id # None /\ attached
                /\ obj[cur].id = running \/ EndComes(obj[cur].id)
            BY <1>4, <1>8, <3>1, <3>2, <4>2 DEF Steady
          <5>2. EndComes(obj[cur].id) => EndComes(obj[cur].id)'
            <6>1. PICK n : n = obj[cur].id
              OBVIOUS
            <6>2. n = obj'[cur'].id
              BY <1>4, <1>8, <3>1, <6>1
            <6>3. \A j \in DOMAIN toHost : Kept(j)
              BY QueueKept
            <6>4. EndComes(n) => EndComes(n)'
              BY <6>3, SteadyStays
            <6> QED
              BY <6>1, <6>2, <6>4 DEF EndComes
          <5> QED
            BY <1>1, <1>4, <1>8, <3>1, <5>1, <5>2 DEF Steady
        <4> QED
          BY <1>1, <1>8, <4>1, <4>2 DEF CurOK
      <3> QED
        BY <1>4, <3>1, <3>2, <3>3, <3>4 DEF CurOK
    <2> QED
      BY <1>2, <2>2, <2>3, <2>4, <2>5 DEF AgreeInv
  <1> QED
    BY <1>7, <1>8

LEMMA UpdateAgrees ==
  ASSUME ClientInv, AgreeInv, ClientInv', NEW f, Picks(f), f.t = "update", Update(f.of),
         UNCHANGED <<toHost, link, opened, cur, askVars>>
  PROVE  AgreeInv'
  <1>1. AppOK /\ obj \in Seq(Object) /\ (cur # 0 => cur \in DOMAIN obj) /\ replay \in Replays \cup {None}
    BY Bound, EachSound
  <1>2. \/ UNCHANGED replay
        \/ replay # None /\ replay' = [replay EXCEPT !.index = @ + 1]
    BY DEF Update, Repeated, Replaying
  <1>3. /\ replay' = None <=> replay = None
        /\ replay # None => replay'.sawRunning = replay.sawRunning
    <2>1. CASE replay # None /\ replay' = [replay EXCEPT !.index = @ + 1]
      <3>1. replay' \in Replays /\ replay'.sawRunning = replay.sawRunning
        BY <1>1, <2>1 DEF Replays
      <3> QED
        BY <2>1, <3>1, NoneIs
    <2> QED
      BY <1>2, <2>1
  <1>4. UNCHANGED obj \/ (cur # 0 /\ obj' = [obj EXCEPT ![cur].saw = @ \cup {f.of}])
    BY DEF Update, Streams
  <1>5. /\ DOMAIN obj' = DOMAIN obj
        /\ \A i \in DOMAIN obj : /\ obj'[i].id = obj[i].id /\ obj'[i].ended = obj[i].ended
                                 /\ obj'[i].local = obj[i].local /\ obj'[i].awaits = obj[i].awaits
                                 /\ obj'[i].sent = obj[i].sent /\ obj'[i].answer = obj[i].answer
                                 /\ obj'[i].finished = obj[i].finished
    <2>1. CASE cur # 0 /\ obj' = [obj EXCEPT ![cur].saw = @ \cup {f.of}]
      <3>1. PICK o : o = [obj[cur] EXCEPT !.saw = @ \cup {f.of}]
        OBVIOUS
      <3>2. obj[cur] \in Object
        BY <1>1, <2>1
      <3>3. /\ o.id = obj[cur].id /\ o.ended = obj[cur].ended
            /\ o.local = obj[cur].local /\ o.awaits = obj[cur].awaits
            /\ o.sent = obj[cur].sent /\ o.answer = obj[cur].answer
            /\ o.finished = obj[cur].finished
        BY <3>1, <3>2 DEF Object
      <3>4. obj' = [obj EXCEPT ![cur] = o]
        BY <2>1, <3>1
      <3>5. DOMAIN obj' = DOMAIN obj /\ \A i \in DOMAIN obj : obj'[i] = IF i = cur THEN o ELSE obj[i]
        BY <1>1, <3>4
      <3> QED
        BY <3>3, <3>5
    <2> QED
      BY <1>4, <2>1
  <1>6. CurSame
    BY <1>1, <1>5 DEF CurSame
  <1>7. InboxOK'
    BY <1>3, InboxKeeps DEF askVars
  <1> QED
    BY <1>3, <1>5, <1>6, <1>7, PassAgrees DEF AgreeInv

\* What says nothing of the turns.
LEMMA WordAgrees ==
  ASSUME ClientInv, AgreeInv, ClientInv', NEW f, Picks(f),
         f.t \in {"pending", "answered", "ask", "added", "resolved"}, UNCHANGED <<toHost, sessVars>>,
         link' = link \/ (replay = None /\ link' = "online"), InboxTakes(f)
  PROVE  AgreeInv'
  <1>1. UNCHANGED <<opened, obj, cur, log, replay, shown>>
    BY DEF sessVars
  <1>2. CurSame
    BY <1>1 DEF CurSame
  <1>3. InboxOK'
    <2>1. requests' \subseteq Asks
      BY DEF ClientInv, AppOK
    <2> QED
      BY <2>1, InboxPassed
  <1> QED
    BY <1>1, <1>2, <1>3, PassAgrees DEF AgreeInv

LEMMA PendingAgrees ==
  ASSUME ClientInv, AgreeInv, ClientInv', NEW f, Picks(f), f.t = "pending", PendingAnswer(f.of, f.how),
         UNCHANGED <<toHost, sessVars>>
  PROVE  AgreeInv'
  <1>1. f.how \in {"find", "resume"} /\ UNCHANGED replay
    BY AppFirst DEF AppFrame, sessVars
  <1>2. \A i \in DOMAIN toHost : Kept(i)
    BY QueueKept
  <1>3. \A q : Adding(f, q) <=> q \in f.of
    BY DEF Adding
  <1>4. \A q : ~Removing(f, q)
    BY DEF Removing
  <1>5. CASE f.how = "find"
    <2>1. requests' = requests \cup f.of /\ UNCHANGED link
      BY <1>5 DEF PendingAnswer
    <2>2. \A q : ~Lacks(f, q)
      BY <1>5 DEF Lacks, Looking
    <2>3. InboxTakes(f)
      BY <1>1, <1>2, <1>3, <1>4, <2>1, <2>2 DEF InboxTakes
    <2> QED
      BY <2>1, <2>3, WordAgrees
  <1>6. CASE f.how = "resume"
    <2>1. requests' = f.of /\ link' = "online"
      BY <1>6 DEF PendingAnswer, Reconciled
    <2>2. replay = None /\ \A q : Lacks(f, q) <=> q \notin f.of
      BY <1>6, LastStage DEF Lacks, Looking, Stage
    <2>3. InboxTakes(f)
      BY <1>2, <1>3, <1>4, <2>1, <2>2 DEF InboxTakes
    <2> QED
      BY <2>1, <2>2, <2>3, WordAgrees
  <1> QED
    BY <1>1, <1>5, <1>6

LEMMA AskAgrees ==
  ASSUME ClientInv, AgreeInv, ClientInv', NEW f, Picks(f), UNCHANGED <<toHost, link, sessVars>>,
         \/ f.t = "answered" /\ UNCHANGED <<requests, ids>>
         \/ f.t \in {"ask", "added", "resolved"} /\ AskFrame(f)
  PROVE  AgreeInv'
  <1>1. UNCHANGED replay
    BY DEF sessVars
  <1>2. \A i \in DOMAIN toHost : Kept(i)
    BY QueueKept
  <1>3. \A q : ~Lacks(f, q)
    BY DEF Lacks, Looking
  <1>4. \A q \in Pending : ~Removing(f, q)
    <2>1. \A q \in Asks : Removing(f, q) => asked[q] = "over"
      BY Shifts DEF AgreeInv, InboxOK
    <2> QED
      BY <2>1 DEF Pending
  <1>5. /\ \A q \in Pending : q \in requests \/ Adding(f, q) => q \in requests'
        /\ \A q \in requests' : (q \in requests \/ Adding(f, q)) /\ ~Removing(f, q)
    <2>1. CASE f.t = "answered" /\ UNCHANGED requests
      BY <2>1 DEF Adding, Removing
    <2>2. CASE f.t = "resolved" /\ requests' = requests \ {f.of}
      <3>1. \A q : ~Adding(f, q) /\ (Removing(f, q) <=> q = f.of)
        BY <2>2 DEF Adding, Removing
      <3> QED
        BY <1>4, <2>2, <3>1
    <2>3. CASE f.t \in {"ask", "added"} /\ requests' = requests \cup {f.of}
      BY <2>3 DEF Adding, Removing
    <2> QED
      BY <2>1, <2>2, <2>3 DEF AskFrame
  <1>6. InboxTakes(f)
    BY <1>1, <1>2, <1>3, <1>5 DEF InboxTakes
  <1> QED
    BY <1>6, WordAgrees

LEMMA LoadedAgrees ==
  ASSUME ClientInv, AgreeInv, ClientInv', NEW f, Picks(f), f.t = "loaded", Loaded(f.how), UNCHANGED askVars
  PROVE  AgreeInv'
  <1>1. /\ AppOK /\ HostOK /\ StageOK /\ TurnsOK /\ Up /\ Alive /\ f = toApp[1] /\ 1 \in DOMAIN toApp
        /\ UNCHANGED <<attached, running>> /\ CurOK /\ OwnOK /\ f.how \in {"ok", "error"}
        /\ (cur # 0 => cur \in DOMAIN obj) /\ \A k \in DOMAIN toApp : k \in Nat \ {0}
    BY AppFirst, Shifts, EachSound DEF AppFrame, AgreeInv, Up, Alive
  <1>2. replay # None /\ (f.how = "error" => ~attached)
    BY LastStage DEF Stage, Loading
  <1>3. replay' = None /\ UNCHANGED <<requests, ids>>
    BY DEF Loaded, askVars
  <1>4. /\ \A i \in DOMAIN toHost : Kept(i)
        /\ Up' /\ (link # "resuming" => link' = link)
        /\ link = "resuming" /\ requests # {} =>
              link' = "resuming" /\ \E i \in DOMAIN toHost' : Looking(toHost'[i])
    <2>1. CASE UNCHANGED toHost
      <3>1. \A i \in DOMAIN toHost : Kept(i)
        BY <2>1 DEF Kept
      <3>2. CASE link = "resuming" /\ requests # {}
        <4>1. toHost' = toHost \o <<Frame("pending", None, "resume")>>
          BY <3>2 DEF Loaded, Sends
        <4>2. IsSeq(toHost)
          BY Bound
        <4>3. Joins(toHost', toHost, <<Frame("pending", None, "resume")>>)
          BY <4>1, <4>2, One, Joined
        <4>4. Len(toHost') = Len(toHost) + 1 /\ Len(toHost) \in Nat
          BY <4>2, <4>3, One, SeqLength DEF Joins
        <4> QED
          BY <2>1, <4>4
      <3> QED
        BY <1>1, <3>1, <3>2 DEF Loaded, Up
    <2>2. CASE link = "resuming" /\ requests # {}
      <3>1. PICK g : g = Frame("pending", None, "resume")
        OBVIOUS
      <3>2. toHost' = toHost \o <<g>> /\ UNCHANGED link
        BY <2>2, <3>1 DEF Loaded, Sends
      <3>3. Joins(toHost', toHost, <<g>>)
        BY <3>2, Bound, One, Joined
      <3>4. \A i \in DOMAIN toHost : Kept(i)
        BY <3>3 DEF Kept, Joins
      <3>5. Len(toHost) + 1 \in DOMAIN toHost' /\ toHost'[Len(toHost) + 1] = g
        BY <3>3, One DEF Joins
      <3> QED
        BY <1>1, <2>2, <3>1, <3>2, <3>4, <3>5 DEF Up, Looking, Frame
    <2>3. (link = "resuming" /\ requests # {}) \/ UNCHANGED toHost
      BY DEF Loaded
    <2> QED
      BY <2>1, <2>2, <2>3
  <1>5. InboxOK'
    <2>1. \A q : ~Adding(f, q) /\ ~Removing(f, q) /\ ~Lacks(f, q)
      BY DEF Adding, Removing, Lacks, Looking
    <2>2. InboxTakes(f)
      BY <1>3, <1>4, <2>1 DEF InboxTakes
    <2> QED
      BY <1>3, <2>2, Bound, InboxPassed
  <1>6. LoadsOK'
    BY <1>3 DEF LoadsOK
  <1>7. ~Runs(1, running)
    BY <1>1 DEF Runs
  \* The session's turn goes on, as the replay saw it running.
  <1>8. CASE UNCHANGED <<obj, cur>> /\ (cur # 0 => replay.sawRunning /\ opened' = "open")
    <2>1. CurSame
      BY <1>8 DEF CurSame
    <2>2. cur # 0 => Steady(obj[cur])
      BY <1>1, <1>8 DEF CurOK, Resumes
    <2>3. CurOK'
      BY <1>1, <1>4, <1>8, <2>1, <2>2, CurPassed
    <2>4. OwnOK'
      BY <1>1, <1>8, OwnPassed DEF OwnOK
    <2>5. RunOK'
      BY <1>1, <1>7, <1>8, RunPassed
    <2> QED
      BY <1>5, <1>6, <2>3, <2>4, <2>5 DEF AgreeInv
  \* The session has no turn any more.
  <1>9. CASE /\ cur' = 0 /\ ~(attached /\ running # None /\ cur # 0 /\ obj[cur].id = running)
             /\ \A i \in DOMAIN obj' : i \in DOMAIN obj /\ obj'[i].id = obj[i].id /\ obj'[i].ended = obj[i].ended
    <2>1. CurOK'
      BY <1>9 DEF CurOK
    <2>2. OwnOK'
      BY <1>1, <1>9, OwnPassed DEF OwnOK
    <2>3. RunOK'
      BY <1>1, <1>7, <1>9, RunPassed
    <2> QED
      BY <1>5, <1>6, <2>1, <2>2, <2>3 DEF AgreeInv
  <1>10. CASE link = "resuming"
    <2>1. opened = "open" /\ opened' = "open" /\ LoadedTurn(f.how)
      BY <1>1, <1>2, <1>10 DEF StageOK, Loaded
    <2>2. CASE cur = 0 \/ (f.how = "ok" /\ replay.sawRunning)
      BY <1>8, <2>1, <2>2 DEF LoadedTurn
    <2>3. CASE cur # 0 /\ f.how = "error"
      <3>1. PICK r : r = Failed(obj[cur])
        OBVIOUS
      <3>2. obj' = [obj EXCEPT ![cur] = r] /\ Become([obj EXCEPT ![cur] = r])
        BY <2>1, <2>3, <3>1 DEF LoadedTurn, Become
      <3>3. r.finished # None /\ Same(obj[cur], r)
        BY <1>1, <2>3, <3>1, EachSound, Fails, Goes_on
      <3>4. DOMAIN obj' = DOMAIN obj /\ \A i \in DOMAIN obj : obj'[i] = IF i = cur THEN r ELSE obj[i]
        BY <1>1, <3>2, EachSound
      <3>5. cur' = 0
        BY <1>1, <2>3, <3>2, <3>3, <3>4 DEF Become
      <3> QED
        BY <1>2, <1>9, <2>3, <3>3, <3>4, <3>5 DEF Same
    \* No turn runs: the session's ended meanwhile, or never got there.
    <2>4. CASE cur # 0 /\ f.how = "ok" /\ ~replay.sawRunning
      <3>1. obj[cur].id # None => obj[cur].id # running
        <4>1. ~\E i \in DOMAIN toApp : i < 1 /\ toApp[i].t = "running"
          BY <1>1
        <4>2. \A i \in DOMAIN obj : obj[i].id # None => Over(obj[i].id, 1)
          BY <1>1, <2>4, <4>1 DEF TurnsOK, LoadedOK
        <4> QED
          BY <1>1, <2>4, <4>2 DEF Over
      <3>2. Sound(obj[cur]) /\ cur \in DOMAIN obj
        BY <1>1, <2>4, EachSound
      <3>3. PICK r : r = ResumedTurn(obj[cur])
        OBVIOUS
      <3>4. Become([obj EXCEPT ![cur] = r]) /\ obj' = [obj EXCEPT ![cur] = r]
        BY <2>1, <2>4, <3>3 DEF LoadedTurn, Become
      <3>5. DOMAIN obj' = DOMAIN obj /\ \A i \in DOMAIN obj : obj'[i] = IF i = cur THEN r ELSE obj[i]
        BY <1>1, <3>4, EachSound
      <3>6. cur' = IF r.finished # None THEN 0 ELSE cur
        BY <2>4, <3>2, <3>4, <3>5 DEF Become
      <3>7. CASE obj[cur].id = None
        <4>1. r.finished # None /\ Same(obj[cur], r)
          BY <3>2, <3>3, <3>7, Fails, Goes_on DEF ResumedTurn
        <4> QED
          BY <1>9, <3>5, <3>6, <3>7, <4>1 DEF Same
      <3>8. CASE obj[cur].id # None
        <4>1. PICK n : n = obj[cur].id
          OBVIOUS
        <4>2. n \in Nat /\ n # None /\ n # running
          BY <1>1, <3>1, <3>2, <3>8, <4>1, EachOwner DEF AppOK
        <4>3. [obj[cur] EXCEPT !.id = n] = obj[cur]
          BY <3>2, <4>1 DEF Sound, Object
        <4>4. r = Ended([obj[cur] EXCEPT !.id = n], "done") /\ "done" \in Ends
          BY <3>3, <3>8, <4>3 DEF ResumedTurn, Ends
        <4>5. /\ r.id = n /\ r.ended # None /\ r.local = obj[cur].local /\ r.awaits = obj[cur].awaits
              /\ r.sent = obj[cur].sent /\ r.answer = obj[cur].answer
              /\ r.finished = None => obj[cur].awaits
          BY <3>2, <4>2, <4>4, EndsNow
        <4>6. OwnOK'
          BY <1>1, <3>5, <4>2, <4>5, OwnPassed DEF OwnOK
        <4>7. RunOK'
          <5>1. ~(cur # 0 /\ obj[cur].id = running)
            BY <4>1, <4>2
          <5>2. ~(cur' # 0 /\ obj'[cur'].id = None)
            BY <3>2, <3>5, <3>6, <4>2, <4>5
          <5> QED
            BY <1>7, <5>1, <5>2, RunPassed
        <4>8. CurOK'
          <5> SUFFICES ASSUME cur' # 0 PROVE CurOK'
            BY DEF CurOK
          <5>1. cur' = cur /\ r.finished = None /\ r.awaits /\ obj'[cur'] = r
            BY <3>2, <3>5, <3>6, <4>5
          <5>2. Steady(obj[cur])'
            BY <4>5, <5>1 DEF Steady
          <5>3. AnswerComes(cur)'
            <6>1. PICK i : i = cur
              OBVIOUS
            <6>2. AnswerComes(i) /\ i \in DOMAIN obj /\ i \in DOMAIN obj' /\ f.t # "prompted" /\ cur' = i
              BY <1>1, <2>4, <3>2, <3>5, <4>5, <5>1, <6>1 DEF CurOK
            <6>3. i \in Waiting => obj'[i].local /\ obj'[i].sent = None /\ obj'[i].answer = None
              BY <3>2, <3>5, <4>5, <6>1 DEF Waiting, Prompts
            <6>4. AnswerComes(i)'
              BY <1>4, <6>2, <6>3, SteadyStays
            <6> QED
              BY <6>2, <6>4
          <5> QED
            BY <2>1, <4>2, <4>5, <5>1, <5>2, <5>3 DEF CurOK
        <4> QED
          BY <1>5, <1>6, <4>6, <4>7, <4>8 DEF AgreeInv
      <3> QED
        BY <3>7, <3>8
    <2> QED
      BY <1>1, <2>2, <2>3, <2>4
  <1>11. CASE link # "resuming"
    <2>1. opened = "opening" /\ UNCHANGED obj
      BY <1>1, <1>2, <1>11 DEF StageOK, Loaded, Up
    <2>2. CASE f.how = "ok"
      <3>1. opened' = "open" /\ UNCHANGED cur
        BY <1>11, <2>2 DEF Loaded
      <3>2. cur # 0 => replay.sawRunning
        BY <1>1, <2>1 DEF CurOK, Up
      <3> QED
        BY <1>8, <2>1, <3>1, <3>2
    <2>3. CASE f.how = "error"
      <3>1. cur' = 0
        BY <1>11, <2>3 DEF Loaded
      <3> QED
        BY <1>2, <1>9, <2>1, <2>3, <3>1
    <2> QED
      BY <1>1, <2>2, <2>3
  <1> QED
    BY <1>10, <1>11

LEMMA TakeAgrees ==
  ASSUME ClientInv, AgreeInv, ClientInv', Take
  PROVE  AgreeInv'
  <1>1. PICK f : f = toApp[1]
    OBVIOUS
  <1>2. Picks(f)
    BY <1>1 DEF Take, Picks
  <1>3. Head(toApp) = f
    BY <1>2, AppFirst
  <1>4. \/ f.t = "update" /\ Update(f.of) /\ UNCHANGED <<toHost, link, opened, cur, askVars>>
        \/ f.t = "running" /\ Running(f.of) /\ UNCHANGED <<toHost, link, opened, log, shown, askVars>>
        \/ /\ f.t = "ended" /\ EndedNotice(f.of, f.how)
           /\ UNCHANGED <<toHost, link, opened, log, replay, shown, askVars>>
        \/ f.t = "loaded" /\ Loaded(f.how) /\ UNCHANGED askVars
        \/ /\ f.t = "prompted" /\ Become([obj EXCEPT ![f.of] = Responded(@, f.how)])
           /\ UNCHANGED <<toHost, link, opened, log, replay, shown, askVars>>
        \/ f.t = "pending" /\ PendingAnswer(f.of, f.how) /\ UNCHANGED <<toHost, sessVars>>
        \/ f.t = "answered" /\ UNCHANGED <<toHost, link, sessVars, requests, ids>>
        \/ f.t \in {"ask", "added", "resolved"} /\ AskFrame(f) /\ UNCHANGED <<toHost, link, sessVars>>
    BY <1>3 DEF Take
  <1>5. CASE f.t = "update" /\ Update(f.of) /\ UNCHANGED <<toHost, link, opened, cur, askVars>>
    BY <1>2, <1>5, UpdateAgrees
  <1>6. CASE f.t = "running" /\ Running(f.of) /\ UNCHANGED <<toHost, link, opened, log, shown, askVars>>
    BY <1>2, <1>6, RunningAgrees
  <1>7. CASE /\ f.t = "ended" /\ EndedNotice(f.of, f.how)
             /\ UNCHANGED <<toHost, link, opened, log, replay, shown, askVars>>
    BY <1>2, <1>7, EndedAgrees
  <1>8. CASE f.t = "loaded" /\ Loaded(f.how) /\ UNCHANGED askVars
    BY <1>2, <1>8, LoadedAgrees
  <1>9. CASE /\ f.t = "prompted" /\ Become([obj EXCEPT ![f.of] = Responded(@, f.how)])
             /\ UNCHANGED <<toHost, link, opened, log, replay, shown, askVars>>
    BY <1>2, <1>9, PromptedAgrees
  <1>10. CASE f.t = "pending" /\ PendingAnswer(f.of, f.how) /\ UNCHANGED <<toHost, sessVars>>
    BY <1>2, <1>10, PendingAgrees
  <1>11. CASE f.t = "answered" /\ UNCHANGED <<toHost, link, sessVars, requests, ids>>
    BY <1>2, <1>11, AskAgrees
  <1>12. CASE f.t \in {"ask", "added", "resolved"} /\ AskFrame(f) /\ UNCHANGED <<toHost, link, sessVars>>
    BY <1>2, <1>12, AskAgrees
  <1> QED
    BY <1>4, <1>5, <1>6, <1>7, <1>8, <1>9, <1>10, <1>11, <1>12

-----------------------------------------------------------------------------
(* The theorem *)

LEMMA InitAgrees ==
  ASSUME ClientInit
  PROVE  AgreeInv
  <1>1. /\ running = None /\ owner = <<>> /\ attached = FALSE /\ toHost = <<>> /\ toApp = <<>>
        /\ obj = <<>> /\ cur = 0 /\ replay = None /\ requests = {}
    BY DEF ClientInit
  <1>2. DOMAIN owner = {} /\ DOMAIN toHost = {} /\ DOMAIN toApp = {} /\ DOMAIN obj = {}
    BY <1>1, NoFrames
  <1>3. InboxOK
    BY <1>1, <1>2 DEF InboxOK
  <1>4. LoadsOK /\ CurOK
    BY <1>1 DEF LoadsOK, CurOK
  <1>5. OwnOK /\ RunOK
    BY <1>1, <1>2 DEF OwnOK, RunOK
  <1> QED
    BY <1>3, <1>4, <1>5 DEF AgreeInv

LEMMA NextAgrees ==
  ASSUME ClientInv, AgreeInv, [ClientNext]_vars
  PROVE  AgreeInv'
  <1>0. ClientInv'
    BY NextInv
  <1>1. CASE App
    <2>1. CASE OpenSession
      BY <2>1, OpenAgrees
    <2>2. CASE Prompt
      BY <2>2, PromptAgrees
    <2>3. CASE Close
      BY <2>3, CloseAgrees
    <2>4. CASE ChooseSends \/ ChooseGivesUp \/ \E q \in Asks : Choose(q)
      BY <2>4, ChooseAgrees
    <2>5. ASSUME NEW i \in Prompts, SendWaiting(i) \/ GraceOver(i) PROVE AgreeInv'
      BY <2>5, SendWaitingAgrees, GraceOverAgrees
    <2> QED
      BY <1>1, <2>1, <2>2, <2>3, <2>4, <2>5 DEF App
  <1>2. CASE Connect
    BY <1>2, ConnectAgrees
  <1>3. CASE Lose
    BY <1>3, LoseAgrees
  <1>4. CASE Unpaired
    BY <1>4, UnpairedAgrees
  <1>5. CASE Take
    BY <1>0, <1>5, TakeAgrees
  <1>6. CASE HostTakes
    BY <1>0, <1>6, HostTakesAgrees
  <1>7. CASE Elsewhere
    BY <1>0, <1>7, ElsewhereAgrees
  <1>8. CASE UNCHANGED vars
    <2>1. UNCHANGED <<hostVars, toApp, link, sessVars, requests, losses>> /\ UNCHANGED toHost
      BY <1>8 DEF vars, askVars
    <2>2. KeepsHost
      BY <2>1, Bound, KeepsAll
    <2> QED
      BY <2>1, <2>2, TurnsAgree
  <1> QED
    BY <1>1, <1>2, <1>3, <1>4, <1>5, <1>6, <1>7, <1>8 DEF ClientNext

LEMMA InvAgrees ==
  ASSUME ClientInv, AgreeInv
  PROVE  Agrees
  <1> SUFFICES ASSUME Quiet
               PROVE  /\ IF running = None THEN cur = 0 ELSE cur # 0 /\ obj[cur].id = running
                      /\ requests = Pending
    BY DEF Agrees
  <1>1. /\ link = "online" /\ attached /\ toHost = <<>> /\ toApp = <<>> /\ Waiting = {} /\ Up
        /\ InboxOK /\ LoadsOK /\ CurOK /\ RunOK /\ requests \subseteq Asks
    BY Bound DEF Quiet, Up, AgreeInv
  <1>2. DOMAIN toHost = {} /\ DOMAIN toApp = {}
    BY <1>1, NoFrames
  <1>3. requests = Pending
    <2>1. \A q : ~Clears(q)
      BY <1>1, <1>2 DEF Clears
    <2>2. Pending \subseteq requests
      BY <1>1, <1>2 DEF InboxOK
    <2>3. \A q \in requests : q \in Asks /\ asked[q] = "pending"
      BY <1>1, <2>1 DEF InboxOK
    <2> QED
      BY <2>2, <2>3 DEF Pending
  <1>4. running # None => cur # 0 /\ obj[cur].id = running
    BY <1>1, <1>2 DEF RunOK
  <1>5. running = None => cur = 0
    <2> SUFFICES ASSUME running = None, cur # 0 PROVE FALSE
      OBVIOUS
    <2>1. ~LoadComes /\ ~Resumes
      BY <1>1, <1>2 DEF LoadsOK, LoadComes, Resumes
    <2>2. Steady(obj[cur])
      BY <1>1, <2>1 DEF CurOK
    <2>3. obj[cur].awaits
      BY <1>2, <2>2 DEF Steady, EndComes
    <2>4. AnswerComes(cur)
      BY <1>1, <2>3 DEF CurOK, Alive
    <2> QED
      BY <1>1, <1>2, <2>4 DEF AnswerComes
  <1> QED
    BY <1>3, <1>4, <1>5

(* Whatever connections drop, and whenever a load or a lookup is answered, *)
(* once the link is ready and the frames are in, the session's turn is the *)
(* one that runs at the host, or null between turns, and the inbox holds   *)
(* the requests that wait there: no turn stays behind, and no request is   *)
(* lost or kept (client.ts, Session._turnNotice, _loaded; Host.connected). *)
THEOREM ClientAgrees == ClientSpec => []Agrees
  <1>1. ClientInit => ClientInv /\ AgreeInv
    BY InitInv, InitAgrees
  <1>2. (ClientInv /\ AgreeInv) /\ [ClientNext]_vars => (ClientInv /\ AgreeInv)'
    BY NextInv, NextAgrees
  <1>3. ClientInv /\ AgreeInv => Agrees
    BY InvAgrees
  <1> QED
    BY <1>1, <1>2, <1>3, PTL DEF ClientSpec
=============================================================================
