---------------------------- MODULE InstallProofs ----------------------------
(***************************************************************************)
(* What an install and the link keep of it, for any number of processes,   *)
(* deaths of the link process and edits by the owner: the journal has the  *)
(* entry of each change a call is in the middle of, a worker knows of      *)
(* every start of its process it could find in processes.json, and once    *)
(* the owner has unlinked an install that was found, nothing the link      *)
(* started runs, except what a death, a failed write or a concurrent one   *)
(* kept out of processes.json.                                             *)
(***************************************************************************)
EXTENDS Install, TLAPS

-----------------------------------------------------------------------------
(* The journal and the command *)

Phases == {"attach", "linked", "models", "save", "leave", "find", "stop",
           "uninstall", "restore", "clear", "done"}

\* A command moves on only once the journal's call has ended; the access is
\* forgotten by a command that gives the install back, and by no other.
WritingOK ==
    /\ phase \in Phases
    /\ writing # None /\ phase \notin {"restore", "done"} =>
           /\ phase \in {"attach", "save"}
           /\ writing.step = "file" \/ writing.kind = "models"
    /\ Hosted => Applied("proxy")

JournalInv == JournalTypeOK /\ WritingOK

LEMMA JournalStart == InstallInit => JournalInv
<1> SUFFICES ASSUME InstallInit PROVE JournalInv
  OBVIOUS
<1>1. /\ journal = Empty /\ writing = None /\ clean = TRUE /\ nested = FALSE
      /\ edits = 0 /\ phase = "attach"
  BY DEF InstallInit, JournalInit
<1>2. DOMAIN journal = {}
  BY <1>1 DEF Empty
<1>3. edits \in 0..MaxEdits
  BY <1>1, MaxEditsIsNat
<1>4. clean \in BOOLEAN /\ nested \in BOOLEAN
  BY <1>1
<1> QED
  BY <1>1, <1>2, <1>3, <1>4 DEF JournalInv, JournalTypeOK, WritingOK, Phases, Hosted

\* A change adds its entry, and takes none away.
LEMMA ApplyKeeps ==
    ASSUME NEW kind \in Kinds, NEW list, JournalTypeOK, Apply(kind, list)
    PROVE  /\ JournalTypeOK' /\ DOMAIN journal' = DOMAIN journal \cup {kind}
           /\ writing'.kind = kind /\ writing'.step = "file"
<1> DEFINE base == Base(kind)
           edited == Edited(Tree(base), EditsFor(kind, list))
<1>1. /\ journal' = Keeping(kind, Entry(base, edited))
      /\ writing' = [step |-> "file", kind |-> kind, file |-> edited.tree,
                     again |-> Applied(kind)]
      /\ UNCHANGED <<config, ghostVars>>
  BY DEF Apply
<1> HIDE DEF base, edited
<1>2. DOMAIN journal' = DOMAIN journal \cup {kind}
  BY <1>1 DEF Keeping
<1> QED
  BY <1>1, <1>2 DEF JournalTypeOK, Applied, ghostVars

\* A revert, up to its first write, leaves the journal alone.
LEMMA RevertKeeps ==
    ASSUME NEW kind \in Kinds, JournalTypeOK, Revert(kind)
    PROVE  /\ JournalTypeOK' /\ DOMAIN journal' = DOMAIN journal
           /\ writing'.kind = kind
<1>1. /\ journal' = journal /\ nested' = nested /\ edits' = edits
      /\ clean' \in BOOLEAN
      /\ writing' = [step |-> "forget", kind |-> kind]
      /\ Applied(kind)
  BY DEF Revert
<1> QED
  BY <1>1 DEF JournalTypeOK, Applied

\* The second write, or what cuts it short.
LEMMA SecondKeeps ==
    ASSUME JournalTypeOK, Written \/ Cut
    PROVE  /\ JournalTypeOK' /\ writing' = None
           /\ \/ DOMAIN journal' = DOMAIN journal
              \/ /\ writing # None /\ writing.step = "forget"
                 /\ DOMAIN journal' = DOMAIN journal \ {writing.kind}
<1>1. CASE Written
  <2>1. /\ UNCHANGED ghostVars /\ writing' = None
        /\ \/ journal' = journal
           \/ /\ writing # None /\ writing.step = "forget"
              /\ journal' = Restrict(journal, DOMAIN journal \ {writing.kind})
    BY <1>1 DEF Written
  <2>2. \/ DOMAIN journal' = DOMAIN journal
        \/ /\ writing # None /\ writing.step = "forget"
           /\ DOMAIN journal' = DOMAIN journal \ {writing.kind}
    BY <2>1 DEF Restrict
  <2> QED
    BY <2>1, <2>2 DEF JournalTypeOK, ghostVars
<1>2. CASE Cut
  <2>1. /\ journal' = journal /\ nested' = nested /\ edits' = edits
        /\ clean' \in BOOLEAN /\ writing' = None
    BY <1>2 DEF Cut
  <2> QED
    BY <2>1 DEF JournalTypeOK
<1> QED
  BY <1>1, <1>2

\* The owner's edits leave the journal alone.
LEMMA OwnerKeeps ==
    ASSUME JournalTypeOK, NEW at, NEW v, OwnerEdits(at, v)
    PROVE  JournalTypeOK' /\ journal' = journal /\ writing' = None
<1>1. /\ journal' = journal /\ writing' = writing /\ writing = None
      /\ clean' = clean /\ nested' \in BOOLEAN
      /\ edits' = edits + 1 /\ edits < MaxEdits
  BY DEF OwnerEdits
<1>2. edits' \in 0..MaxEdits
  BY <1>1, MaxEditsIsNat DEF JournalTypeOK
<1>3. clean' \in BOOLEAN /\ nested' \in BOOLEAN
  BY <1>1 DEF JournalTypeOK
<1> QED
  BY <1>1, <1>2, <1>3 DEF JournalTypeOK

LEMMA JournalStep ==
    ASSUME JournalInv, [InstallNext]_installVars
    PROVE  JournalInv'
<1>0. JournalTypeOK /\ WritingOK
  BY DEF JournalInv
<1>1. ASSUME UNCHANGED journalVars,
             \/ UNCHANGED phase
             \/ phase \notin {"attach", "save"} /\ phase' \in Phases \ {"attach", "save"}
                /\ (Hosted' => Hosted)
                /\ (phase \in {"restore", "done"} =>
                        phase' \in {"restore", "done"} \/ writing = None)
             \/ phase' = "linked" /\ writing = None /\ Applied("proxy")
             \/ phase' = "save" /\ phase = "models"
      PROVE  JournalInv'
  BY <1>0, <1>1 DEF JournalInv, JournalTypeOK, WritingOK, Hosted, Applied, Phases,
         journalVars, fileVars, ghostVars
<1>2. CASE SecondWrite
  <2>1. (Written \/ Cut) /\ phase' = phase
    BY <1>2 DEF SecondWrite
  <2>2. /\ JournalTypeOK' /\ writing' = None
        /\ \/ DOMAIN journal' = DOMAIN journal
           \/ /\ writing # None /\ writing.step = "forget"
              /\ DOMAIN journal' = DOMAIN journal \ {writing.kind}
    BY <1>0, <2>1, SecondKeeps
  <2> QED
    BY <1>0, <2>1, <2>2 DEF JournalInv, WritingOK, Hosted, Applied
<1>3. CASE AttachApply
  <2>1. PICK list \in Lists : Apply("proxy", list)
    BY <1>3 DEF AttachApply
  <2>2. /\ JournalTypeOK' /\ DOMAIN journal' = DOMAIN journal \cup {"proxy"}
        /\ writing'.kind = "proxy" /\ writing'.step = "file"
    BY <1>0, <2>1, ApplyKeeps DEF Kinds
  <2> QED
    BY <1>0, <1>3, <2>2 DEF JournalInv, WritingOK, Hosted, Applied, AttachApply
<1>4. CASE ModelsChange
  <2>1. phase = "models" /\ phase' = "save"
    BY <1>4 DEF ModelsChange, Goes
  <2>2. ASSUME NEW list \in Lists, Apply("models", list) PROVE JournalInv'
    <3>1. /\ JournalTypeOK' /\ DOMAIN journal' = DOMAIN journal \cup {"models"}
          /\ writing'.kind = "models" /\ writing'.step = "file"
      BY <1>0, <2>2, ApplyKeeps DEF Kinds
    <3> QED
      BY <1>0, <2>1, <3>1 DEF JournalInv, WritingOK, Hosted, Applied, Phases
  <2>3. CASE Revert("models")
    <3>1. /\ JournalTypeOK' /\ DOMAIN journal' = DOMAIN journal
          /\ writing'.kind = "models"
      BY <1>0, <2>3, RevertKeeps DEF Kinds
    <3> QED
      BY <1>0, <2>1, <3>1 DEF JournalInv, WritingOK, Hosted, Applied, Phases
  <2>4. CASE UNCHANGED journalVars
    BY <1>1, <2>1, <2>4
  <2> QED
    BY <1>4, <2>2, <2>3, <2>4 DEF ModelsChange
<1>5. CASE Restore
  <2>1. phase = "restore" /\ phase' = phase
    BY <1>5 DEF Restore
  <2>2. PICK kind \in Kinds : Revert(kind)
    BY <1>5 DEF Restore, Kinds
  <2>3. JournalTypeOK' /\ DOMAIN journal' = DOMAIN journal
    BY <1>0, <2>2, RevertKeeps
  <2> QED
    BY <1>0, <2>1, <2>3 DEF JournalInv, WritingOK, Hosted, Applied
<1>6. CASE Owner
  <2>1. ASSUME NEW at \in OwnerAt, NEW v \in Values \cup {None}, OwnerEdits(at, v),
               UNCHANGED phase
        PROVE  JournalInv'
    <3>1. JournalTypeOK' /\ journal' = journal /\ writing' = None
      BY <1>0, <2>1, OwnerKeeps
    <3> QED
      BY <1>0, <2>1, <3>1 DEF JournalInv, WritingOK, Hosted, Applied
  <2> QED
    BY <1>1, <1>6, <2>1 DEF Owner
<1>7. CASE Service
  BY <1>1, <1>7 DEF Service, Daemon, Works
<1>8. CASE Attached
  BY <1>1, <1>8 DEF Attached, Goes, Idle
<1>9. CASE ModelsRead
  BY <1>1, <1>9 DEF ModelsRead, Goes, Hosted, Phases
<1>10. CASE ModelsSave
  BY <1>0, <1>1, <1>10 DEF ModelsSave, Goes, Idle, WritingOK, Hosted
<1>11. CASE Unlink \/ StopService \/ RemoveAgent \/ NotFound \/ Found \/ StopStarted
            \/ ForgetAll \/ Uninstall \/ AllRestored
  BY <1>1, <1>11 DEF Unlink, StopService, RemoveAgent, NotFound, Found, StopStarted,
         ForgetAll, Uninstall, AllRestored, Goes, Hosted, Phases, Idle
<1>13. CASE Clear
  <2>1. /\ phase = "clear" /\ phase' = "done" /\ journal' = Empty
        /\ clean' \in BOOLEAN /\ UNCHANGED <<writing, nested, edits>>
    BY <1>13 DEF Clear, Goes
  <2>2. writing' = None
    BY <1>0, <2>1 DEF WritingOK
  <2>3. DOMAIN journal' = {}
    BY <2>1 DEF Empty
  <2> QED
    BY <1>0, <2>1, <2>2, <2>3 DEF JournalInv, JournalTypeOK, WritingOK, Hosted, Phases
<1>12. CASE UNCHANGED installVars
  BY <1>1, <1>12 DEF installVars
<1> QED
  BY <1>2, <1>3, <1>4, <1>5, <1>6, <1>7, <1>8, <1>9, <1>10, <1>11, <1>12, <1>13
     DEF InstallNext, Command
-----------------------------------------------------------------------------
(* The workers, and what they know of the starts that run *)

Starts(p) == {Absent} \cup 1..starts[p]
Copies == {f \in [Procs -> {Absent} \cup Nat] : \A p \in Procs : f[p] \in Starts(p)}

WorkerType ==
    [own : {Absent} \cup Nat, at : {"step", "forget", "stop", "installed", "record"},
     read : {Absent} \cup [Procs -> {Absent} \cup Nat],
     waits : BOOLEAN, starting : BOOLEAN, refused : BOOLEAN]

\* What a worker holds and reads are starts there were; what it is about to
\* forget it no longer holds, and what it is about to record it does.
WorkerOK(p, w) ==
    /\ w.own \in Starts(p)
    /\ w.at \in {"forget", "record"} => w.read \in Copies
    /\ w.at = "forget" => w.own = Absent
    /\ w.at = "record" => w.own # Absent
    /\ w.at = "installed" => p \in Serviced

SuperviseTypes ==
    /\ live \in [Procs -> SUBSET Nat]
    /\ starts \in [Procs -> Nat]
    /\ \A p \in Procs : live[p] \subseteq 1..starts[p]
    /\ service \in [Procs -> {Absent, "owner", "link"}]
    /\ serving \subseteq Serviced /\ byOwner \subseteq Procs
    /\ services \subseteq Serviced /\ copy \subseteq Serviced
    /\ file \in Copies
    /\ worker \in [Procs -> WorkerType]
    /\ \A p \in Procs : WorkerOK(p, worker[p])
    /\ daemon \in BOOLEAN

\* A recorded start that runs is its worker's, and so is one that runs in a
\* copy of the file some worker is about to write back.
HeldOK ==
    daemon => \A p \in Procs : file[p] \in live[p] => worker[p].own = file[p]
ReadOK ==
    daemon => \A p, q \in Procs :
        /\ worker[p].at \in {"forget", "record"}
        /\ worker[p].read[q] \in live[q]
        => worker[q].own = worker[p].read[q]

\* Until a command gives the install back, every start that runs is recorded,
\* about to be, or was kept from it.
Known(p, n) ==
    \/ <<p, n>> \in orphans
    \/ file[p] = n
    \/ worker[p].at = "record" /\ worker[p].own = n
AllKnown == \A p \in Procs : \A n \in live[p] : Known(p, n)
KnownOK == phase \in {"attach", "linked", "models", "save", "leave"} => AllKnown

\* Without the link process nobody is in the middle of a step.
StillOK == ~daemon => \A p \in Procs : worker[p].at = "step"

\* An unlink is under way with the link process gone: the starts that run and
\* were not kept from processes.json are those recorded, then those it has yet
\* to stop, and then none, unless the install was not found.
Releasing == phase \in {"stop", "uninstall", "restore", "clear", "done"}
ByOK ==
    /\ by = "unlink" /\ (phase = "find" \/ Releasing) => ~daemon
    /\ phase = "done" => ~daemon
StoppingOK ==
    by = "unlink" =>
        \A p \in Procs : \A n \in live[p] :
            /\ phase = "find" => <<p, n>> \in orphans \/ file[p] = n
            /\ Releasing /\ ~unfound =>
                   <<p, n>> \in orphans \/ (phase = "stop" /\ <<p, n>> \in stopping)

SuperviseInv ==
    SuperviseTypes /\ HeldOK /\ ReadOK /\ KnownOK /\ StillOK /\ ByOK /\ StoppingOK

LEMMA SuperviseStart == InstallInit => SuperviseInv
<1> SUFFICES ASSUME InstallInit PROVE SuperviseInv
  OBVIOUS
<1> USE AbsentIsNoStart DEF InstallInit, SuperviseInit
<1>1. worker \in [Procs -> WorkerType]
  BY DEF NewWorker, WorkerType
<1>2. \A p \in Procs : WorkerOK(p, worker[p])
  BY DEF NewWorker, WorkerOK, Starts
<1>3. file \in Copies
  BY DEF Copies, Starts
<1>4. SuperviseTypes
  BY <1>1, <1>2, <1>3 DEF SuperviseTypes
<1> QED
  BY <1>4 DEF SuperviseInv, HeldOK, ReadOK, KnownOK, AllKnown, StillOK, NewWorker,
     ByOK, StoppingOK, Releasing

-----------------------------------------------------------------------------
(* Types *)

\* What a worker may hold it may still hold after more starts.
LEMMA StartsGrow ==
    ASSUME starts \in [Procs -> Nat], starts' \in [Procs -> Nat],
           \A p \in Procs : starts[p] <= starts'[p]
    PROVE  /\ \A p \in Procs : Starts(p) \subseteq Starts(p)'
           /\ Copies \subseteq Copies'
<1>1. ASSUME NEW p \in Procs PROVE Starts(p) \subseteq Starts(p)'
  BY DEF Starts
<1> QED
  BY <1>1 DEF Copies

\* A step that changes one worker keeps the types of all.
LEMMA ToldTypes ==
    ASSUME SuperviseTypes, NEW p \in Procs, NEW w \in WorkerType, Told(p, w),
           starts' = starts, WorkerOK(p, w)
    PROVE  worker' \in [Procs -> WorkerType] /\ \A q \in Procs : WorkerOK(q, worker[q])'
<1>1. worker' = [worker EXCEPT ![p] = w] /\ worker \in [Procs -> WorkerType]
  BY DEF Told, SuperviseTypes
<1>2. ASSUME NEW q \in Procs, NEW v, WorkerOK(q, v) PROVE WorkerOK(q, v)'
  BY <1>2 DEF WorkerOK, Starts, Copies
<1>3. \A q \in Procs : WorkerOK(q, worker'[q])
  BY <1>1 DEF SuperviseTypes
<1>4. ASSUME NEW q \in Procs PROVE WorkerOK(q, worker[q])'
  BY <1>3 DEF WorkerOK, Starts, Copies
<1> QED
  BY <1>1, <1>4

LEMMA NewWorkerType ==
    ASSUME NEW p \in Procs, NEW n \in Starts(p), starts \in [Procs -> Nat]
    PROVE  NewWorker(n) \in WorkerType /\ WorkerOK(p, NewWorker(n))
  BY DEF NewWorker, WorkerType, WorkerOK, Starts

\* A worker's step.
LEMMA StepTypes ==
    ASSUME SuperviseTypes, NEW p \in Procs, Step(p), copy' = copy
    PROVE  SuperviseTypes'
<1> USE AbsentIsNoStart
<1> DEFINE w == worker[p]
<1>0. /\ w \in WorkerType /\ WorkerOK(p, w)
      /\ w = [own |-> w.own, at |-> w.at, read |-> w.read, waits |-> w.waits,
              starting |-> w.starting, refused |-> w.refused]
  BY DEF SuperviseTypes, WorkerType
<1>1. ASSUME UNCHANGED <<live, starts, byOwner, file, daemon>>,
             service' \in [Procs -> {Absent, "owner", "link"}],
             serving' \subseteq Serviced, services' \subseteq Serviced,
             NEW v \in WorkerType, Told(p, v), WorkerOK(p, v)
      PROVE  SuperviseTypes'
  <2>1. worker' \in [Procs -> WorkerType] /\ \A q \in Procs : WorkerOK(q, worker[q])'
    BY <1>1, ToldTypes
  <2>2. file' \in Copies'
    BY <1>1 DEF SuperviseTypes, Copies, Starts
  <2> QED
    BY <1>1, <2>1, <2>2 DEF SuperviseTypes
<1>2. /\ service \in [Procs -> {Absent, "owner", "link"}]
      /\ serving \subseteq Serviced /\ services \subseteq Serviced
      /\ file \in Copies /\ starts \in [Procs -> Nat] /\ live \in [Procs -> SUBSET Nat]
      /\ daemon \in BOOLEAN
  BY DEF SuperviseTypes
<1>3. CASE Healthy(p)
  <2>1. [w EXCEPT !.waits = FALSE, !.starting = FALSE] \in WorkerType
        /\ WorkerOK(p, [w EXCEPT !.waits = FALSE, !.starting = FALSE])
    BY <1>0 DEF WorkerType, WorkerOK
  <2> QED
    BY <1>1, <1>2, <1>3, <2>1 DEF Healthy, W, procVars, daemonVars
<1>4. CASE OwnEnded(p)
  <2>1. [w EXCEPT !.own = Absent, !.at = "forget", !.read = file] \in WorkerType
        /\ WorkerOK(p, [w EXCEPT !.own = Absent, !.at = "forget", !.read = file])
    BY <1>0, <1>2 DEF WorkerType, WorkerOK, Starts, Copies
  <2> QED
    BY <1>1, <1>2, <1>4, <2>1 DEF OwnEnded, W, procVars, daemonVars
<1>5. CASE OwnStuck(p)
  <2>1. [w EXCEPT !.at = "stop"] \in WorkerType /\ WorkerOK(p, [w EXCEPT !.at = "stop"])
    BY <1>0 DEF WorkerType, WorkerOK
  <2> QED
    BY <1>1, <1>2, <1>5, <2>1 DEF OwnStuck, W, procVars, daemonVars
<1>6. CASE StoppedStuck(p)
  <2>1. [w EXCEPT !.own = Absent, !.at = "forget", !.read = file] \in WorkerType
        /\ WorkerOK(p, [w EXCEPT !.own = Absent, !.at = "forget", !.read = file])
    BY <1>0, <1>2 DEF WorkerType, WorkerOK, Starts, Copies
  <2>2. Told(p, [w EXCEPT !.own = Absent, !.at = "forget", !.read = file])
        /\ UNCHANGED <<service, serving, byOwner, starts, file, services, daemon>>
        /\ live' = [live EXCEPT ![p] = @ \ {w.own}]
    BY <1>6 DEF StoppedStuck, W, daemonVars
  <2>3. worker' \in [Procs -> WorkerType] /\ \A q \in Procs : WorkerOK(q, worker[q])'
    BY <2>1, <2>2, ToldTypes
  <2>4. file' \in Copies'
    BY <1>2, <2>2 DEF Copies, Starts
  <2>5. live' \in [Procs -> SUBSET Nat] /\ \A q \in Procs : live'[q] \subseteq live[q]
    BY <1>2, <2>2
  <2> QED
    BY <2>2, <2>3, <2>4, <2>5 DEF SuperviseTypes
<1>7. CASE ForgetStarted(p)
  <2> DEFINE v == [w EXCEPT !.at = "step", !.read = Absent, !.waits = TRUE]
  <2>1. v \in WorkerType /\ WorkerOK(p, v)
    BY <1>0 DEF WorkerType, WorkerOK
  <2>2. /\ Told(p, v)
        /\ UNCHANGED <<live, service, serving, byOwner, starts, services, daemon>>
        /\ file' = file \/ file' = [w.read EXCEPT ![p] = Absent]
        /\ w.read \in Copies
    BY <1>0, <1>7 DEF ForgetStarted, W, procVars, Writes, Forgotten, WorkerOK
  <2>3. worker' \in [Procs -> WorkerType] /\ \A q \in Procs : WorkerOK(q, worker[q])'
    BY <2>1, <2>2, ToldTypes
  <2>4. file' \in Copies'
    BY <1>2, <2>2 DEF Copies, Starts
  <2> QED
    BY <2>2, <2>3, <2>4 DEF SuperviseTypes
<1>8. CASE ServiceSilent(p)
  <2>1. [w EXCEPT !.starting = FALSE, !.waits = TRUE] \in WorkerType
        /\ WorkerOK(p, [w EXCEPT !.starting = FALSE, !.waits = TRUE])
    BY <1>0 DEF WorkerType, WorkerOK
  <2> QED
    BY <1>1, <1>2, <1>8, <2>1 DEF ServiceSilent, W, procVars, daemonVars
<1>9. CASE BackoffOver(p)
  <2>1. [w EXCEPT !.waits = FALSE] \in WorkerType /\ WorkerOK(p, [w EXCEPT !.waits = FALSE])
    BY <1>0 DEF WorkerType, WorkerOK
  <2> QED
    BY <1>1, <1>2, <1>9, <2>1 DEF BackoffOver, W, procVars, daemonVars
<1>10. CASE StartService(p)
  <2>1. /\ [w EXCEPT !.starting = TRUE] \in WorkerType
        /\ WorkerOK(p, [w EXCEPT !.starting = TRUE])
        /\ [w EXCEPT !.waits = TRUE] \in WorkerType
        /\ WorkerOK(p, [w EXCEPT !.waits = TRUE])
    BY <1>0 DEF WorkerType, WorkerOK
  <2>2. serving' \subseteq Serviced
    BY <1>2, <1>10 DEF StartService
  <2> QED
    BY <1>1, <1>2, <1>10, <2>1, <2>2 DEF StartService, W, procVars, daemonVars
<1>11. CASE Install(p)
  <2>1. /\ [w EXCEPT !.at = "installed"] \in WorkerType
        /\ WorkerOK(p, [w EXCEPT !.at = "installed"])
        /\ [w EXCEPT !.refused = TRUE] \in WorkerType
        /\ WorkerOK(p, [w EXCEPT !.refused = TRUE])
    BY <1>0, <1>11 DEF WorkerType, WorkerOK, Install
  <2>2. serving' \subseteq Serviced /\ service' \in [Procs -> {Absent, "owner", "link"}]
    BY <1>2, <1>11 DEF Install
  <2> QED
    BY <1>1, <1>2, <1>11, <2>1, <2>2 DEF Install, W, procVars, daemonVars
<1>12. CASE RecordService(p)
  <2>1. [w EXCEPT !.at = "step", !.starting = TRUE] \in WorkerType
        /\ WorkerOK(p, [w EXCEPT !.at = "step", !.starting = TRUE])
    BY <1>0 DEF WorkerType, WorkerOK
  <2>2. services' \subseteq Serviced
    BY <1>0, <1>2, <1>12 DEF RecordService, W, WorkerOK
  <2> QED
    BY <1>1, <1>2, <1>12, <2>1, <2>2 DEF RecordService, W, procVars, daemonVars
<1>13. CASE Spawn(p)
  <2> DEFINE n == starts[p] + 1
             v == [w EXCEPT !.own = n, !.at = "record", !.read = file]
  <2>1. /\ starts' = [starts EXCEPT ![p] = n] /\ n \in Nat
        /\ live' = [live EXCEPT ![p] = @ \cup {n}]
        /\ worker' = [worker EXCEPT ![p] = v]
        /\ UNCHANGED <<service, serving, byOwner, file, services, daemon>>
    BY <1>2, <1>13 DEF Spawn, Told, W, daemonVars
  <2>2. /\ starts' \in [Procs -> Nat] /\ \A q \in Procs : starts[q] <= starts'[q]
        /\ n \in Starts(p)'
    BY <1>2, <2>1 DEF Starts
  <2>3. Copies \subseteq Copies' /\ \A q \in Procs : Starts(q) \subseteq Starts(q)'
    BY <1>2, <2>2, StartsGrow
  <2>4. v \in WorkerType /\ v.own = n /\ v.at = "record" /\ v.read = file
    BY <1>0, <1>2, <2>1 DEF WorkerType, Copies
  <2>5. worker' \in [Procs -> WorkerType] /\ worker'[p] = v
        /\ \A q \in Procs \ {p} : worker'[q] = worker[q]
    BY <2>1, <2>4 DEF SuperviseTypes
  <2> HIDE DEF v
  <2>6. WorkerOK(p, worker[p])'
    BY <1>2, <2>1, <2>2, <2>3, <2>4, <2>5 DEF WorkerOK
  <2>7. ASSUME NEW q \in Procs \ {p} PROVE WorkerOK(q, worker[q])'
    BY <2>3, <2>5 DEF WorkerOK, SuperviseTypes
  <2>8. \A q \in Procs : WorkerOK(q, worker[q])'
    BY <2>6, <2>7
  <2>9. live' \in [Procs -> SUBSET Nat] /\ \A q \in Procs : live'[q] \subseteq 1..starts'[q]
    BY <1>2, <2>1, <2>2 DEF SuperviseTypes
  <2> QED
    BY <1>2, <2>1, <2>2, <2>3, <2>5, <2>8, <2>9 DEF SuperviseTypes
<1>14. CASE SpawnFails(p)
  <2>1. [w EXCEPT !.waits = TRUE] \in WorkerType /\ WorkerOK(p, [w EXCEPT !.waits = TRUE])
    BY <1>0 DEF WorkerType, WorkerOK
  <2> QED
    BY <1>1, <1>2, <1>14, <2>1 DEF SpawnFails, W, procVars, daemonVars
<1>15. CASE RecordStarted(p)
  <2> DEFINE v == [w EXCEPT !.at = "step", !.read = Absent]
  <2>1. v \in WorkerType /\ WorkerOK(p, v)
    BY <1>0 DEF WorkerType, WorkerOK
  <2>2. /\ Told(p, v)
        /\ UNCHANGED <<live, service, serving, byOwner, starts, services, daemon>>
        /\ file' = file \/ file' = [w.read EXCEPT ![p] = w.own]
        /\ w.read \in Copies /\ w.own \in Starts(p)
    BY <1>0, <1>15 DEF RecordStarted, W, procVars, Writes, WorkerOK
  <2>3. worker' \in [Procs -> WorkerType] /\ \A q \in Procs : WorkerOK(q, worker[q])'
    BY <2>1, <2>2, ToldTypes
  <2>4. file' \in Copies'
    BY <1>2, <2>2 DEF Copies, Starts
  <2> QED
    BY <2>2, <2>3, <2>4 DEF SuperviseTypes
<1> QED
  BY <1>3, <1>4, <1>5, <1>6, <1>7, <1>8, <1>9, <1>10, <1>11, <1>12, <1>13, <1>14,
     <1>15 DEF Step

LEMMA StoppedTypes ==
    ASSUME SuperviseTypes, worker' = [p \in Procs |-> NewWorker(Absent)],
           starts' = starts
    PROVE  /\ worker' \in [Procs -> WorkerType]
           /\ \A q \in Procs : WorkerOK(q, worker[q])'
<1>1. ASSUME NEW p \in Procs
      PROVE  NewWorker(Absent) \in WorkerType /\ WorkerOK(p, worker[p])'
  BY NewWorkerType DEF SuperviseTypes, Starts, WorkerOK, NewWorker
<1> QED
  BY <1>1

LEMMA TypesStep ==
    ASSUME SuperviseTypes, [InstallNext]_installVars
    PROVE  SuperviseTypes'
<1> USE AbsentIsNoStart
<1>0. /\ service \in [Procs -> {Absent, "owner", "link"}]
      /\ serving \subseteq Serviced /\ services \subseteq Serviced /\ copy \subseteq Serviced
      /\ file \in Copies /\ starts \in [Procs -> Nat] /\ live \in [Procs -> SUBSET Nat]
      /\ daemon \in BOOLEAN /\ byOwner \subseteq Procs
  BY DEF SuperviseTypes
<1>1. ASSUME UNCHANGED <<starts, worker, daemon>>,
             file' = file \/ file' = [p \in Procs |-> Absent],
             live' \in [Procs -> SUBSET Nat], \A p \in Procs : live'[p] \subseteq live[p],
             service' \in [Procs -> {Absent, "owner", "link"}],
             serving' \subseteq Serviced, services' \subseteq Serviced,
             copy' \subseteq Serviced, byOwner' \subseteq Procs
      PROVE  SuperviseTypes'
  <2>1. file' \in Copies'
    BY <1>0, <1>1 DEF Copies, Starts
  <2>2. \A p \in Procs : WorkerOK(p, worker[p])'
    BY <1>1 DEF SuperviseTypes, WorkerOK, Copies, Starts
  <2> QED
    BY <1>1, <2>1, <2>2 DEF SuperviseTypes
<1>2. ASSUME UNCHANGED superviseVars, copy' \subseteq Serviced PROVE SuperviseTypes'
  BY <1>0, <1>1, <1>2 DEF superviseVars, procVars, daemonVars
<1>3. ASSUME UNCHANGED <<procVars, starts, services, copy>>, daemon' = FALSE,
             worker' = [p \in Procs |-> NewWorker(Absent)],
             file' = file \/ file' = [p \in Procs |-> Absent]
      PROVE  SuperviseTypes'
  <2>1. worker' \in [Procs -> WorkerType] /\ \A q \in Procs : WorkerOK(q, worker[q])'
    BY <1>3, StoppedTypes
  <2>2. file' \in Copies'
    BY <1>0, <1>3 DEF Copies, Starts
  <2> QED
    BY <1>3, <2>1, <2>2 DEF SuperviseTypes, procVars
<1>4. CASE Daemon(Started)
  <2>1. /\ UNCHANGED <<live, service, serving, byOwner, starts, services, copy>>
        /\ daemon' = TRUE
        /\ worker' = [p \in Procs |-> NewWorker(Adopted(p))]
        /\ file' = [p \in Procs |-> Adopted(p)]
    BY <1>4 DEF Daemon, Started, StartDaemon, procVars, commandVars
  <2>2. ASSUME NEW p \in Procs PROVE Adopted(p) \in Starts(p)
    BY <1>0 DEF Adopted, Copies, Starts
  <2>3. ASSUME NEW p \in Procs
        PROVE  NewWorker(Adopted(p)) \in WorkerType /\ WorkerOK(p, worker[p])'
    BY <1>0, <2>1, <2>2, NewWorkerType DEF WorkerOK, NewWorker, Starts
  <2>4. file' \in Copies'
    BY <1>0, <2>1, <2>2 DEF Copies, Starts
  <2> QED
    BY <2>1, <2>3, <2>4 DEF SuperviseTypes
<1>5. CASE Daemon(Crash)
  BY <1>3, <1>5 DEF Daemon, Crash, Stopped, procVars, commandVars
<1>6. ASSUME NEW p \in Procs, Works(p) PROVE SuperviseTypes'
  BY <1>6, StepTypes DEF Works, Daemon, commandVars
<1>7. ASSUME NEW p \in Procs, Daemon(Ends(p)) PROVE SuperviseTypes'
  <2>1. /\ UNCHANGED <<service, byOwner, starts, file, services, worker, daemon, copy>>
        /\ serving' \subseteq serving
    BY <1>7 DEF Daemon, Ends, daemonVars, commandVars
  <2>2. live' \in [Procs -> SUBSET Nat] /\ \A q \in Procs : live'[q] \subseteq live[q]
    BY <1>0, <1>7 DEF Daemon, Ends
  <2> QED
    BY <1>0, <1>1, <2>1, <2>2
<1>8. CASE Owner
  <2>1. ASSUME NEW p \in Procs, OwnerRuns(p), UNCHANGED commandVars PROVE SuperviseTypes'
    BY <1>0, <1>1, <2>1 DEF OwnerRuns, daemonVars, commandVars
  <2> QED
    BY <1>0, <1>2, <1>8, <2>1 DEF Owner, commandVars
<1>9. CASE SecondWrite \/ AttachApply \/ Attached \/ ModelsRead \/ ModelsChange
           \/ Unlink \/ RemoveAgent \/ NotFound \/ Found \/ Restore \/ AllRestored
           \/ UNCHANGED installVars
  BY <1>0, <1>2, <1>9 DEF SecondWrite, AttachApply, Attached, ModelsRead, ModelsChange,
     Unlink, RemoveAgent, NotFound, Found, Restore, AllRestored, superviseVars, commandVars, installVars
<1>10. CASE ModelsSave
  BY <1>0, <1>1, <1>10 DEF ModelsSave, procVars, daemonVars
<1>11. CASE StopService
  BY <1>3, <1>11 DEF StopService, Stopped, procVars, commandVars
<1>12. CASE StopStarted
  <2>1. /\ UNCHANGED <<service, serving, byOwner, starts, file, services, worker, daemon, copy>>
        /\ \E s \in stopping : live' = [live EXCEPT ![s[1]] = @ \ {s[2]}]
    BY <1>12 DEF StopStarted, daemonVars
  <2>2. live' \in [Procs -> SUBSET Nat] /\ \A q \in Procs : live'[q] \subseteq live[q]
    BY <1>0, <2>1
  <2> QED
    BY <1>0, <1>1, <2>1, <2>2
<1>13. CASE ForgetAll
  BY <1>0, <1>1, <1>13 DEF ForgetAll, procVars, daemonVars, commandVars
<1>14. CASE Uninstall
  <2>1. /\ UNCHANGED <<live, byOwner, starts, file, services, worker, daemon>>
        /\ copy' = {} /\ serving' \subseteq serving
        /\ \E done \in SUBSET copy :
              service' = [p \in Procs |-> IF p \in done THEN Absent ELSE service[p]]
    BY <1>14 DEF Uninstall, daemonVars, commandVars
  <2>2. service' \in [Procs -> {Absent, "owner", "link"}]
    BY <1>0, <2>1
  <2> QED
    BY <1>0, <1>1, <2>1, <2>2
<1>15. CASE Clear
  <2>1. /\ UNCHANGED <<procVars, starts>> /\ copy' = {} /\ daemon' = FALSE /\ services' = {}
        /\ worker' = [p \in Procs |-> NewWorker(Absent)]
        /\ file' = [p \in Procs |-> Absent]
    BY <1>15 DEF Clear, commandVars
  <2>2. worker' \in [Procs -> WorkerType] /\ \A q \in Procs : WorkerOK(q, worker[q])'
    BY <2>1, StoppedTypes
  <2>3. file' \in Copies'
    BY <1>0, <2>1 DEF Copies, Starts
  <2> QED
    BY <2>1, <2>2, <2>3 DEF SuperviseTypes, procVars
<1> QED
  BY <1>4, <1>5, <1>6, <1>7, <1>8, <1>9, <1>10, <1>11, <1>12, <1>13, <1>14, <1>15
     DEF InstallNext, Command, Service

-----------------------------------------------------------------------------
(* A worker's step, and the starts it knows of *)

\* A step that only looks, or writes elsewhere.
LEMMA QuietKnows ==
    ASSUME SuperviseTypes, HeldOK, ReadOK, NEW p \in Procs, NEW v, Told(p, v),
           worker[p].at \notin {"forget", "record"}, v.at \notin {"forget", "record"},
           v.own = worker[p].own, UNCHANGED <<live, file, orphans, daemon>>
    PROVE  HeldOK' /\ ReadOK' /\ (AllKnown => AllKnown')
<1>1. /\ worker'[p] = v /\ \A q \in Procs \ {p} : worker'[q] = worker[q]
      /\ \A q \in Procs : worker'[q].own = worker[q].own
  BY DEF Told, SuperviseTypes
<1>2. HeldOK'
  BY <1>1 DEF HeldOK
<1>3. ReadOK'
  BY <1>1 DEF ReadOK
<1>4. AllKnown => AllKnown'
  BY <1>1 DEF AllKnown, Known
<1> QED
  BY <1>2, <1>3, <1>4

\* The start a worker holds has ended: no recorded start of its process runs.
LEMMA EndedKnows ==
    ASSUME SuperviseTypes, HeldOK, ReadOK, daemon, NEW p \in Procs,
           Told(p, [worker[p] EXCEPT !.own = Absent, !.at = "forget", !.read = file]),
           worker[p].at \notin {"forget", "record"}, UNCHANGED <<file, orphans, daemon>>,
           worker[p].own \notin live'[p], \A q \in Procs : live'[q] \subseteq live[q]
    PROVE  HeldOK' /\ ReadOK' /\ (AllKnown => AllKnown')
<1>1. /\ worker'[p].own = Absent /\ worker'[p].at = "forget" /\ worker'[p].read = file
      /\ \A q \in Procs \ {p} : worker'[q] = worker[q]
  BY DEF Told, SuperviseTypes, WorkerType
<1>2. HeldOK'
  BY <1>1 DEF HeldOK
<1>3. ReadOK'
  <2>1. ASSUME NEW r \in Procs, NEW q \in Procs, worker'[r].at \in {"forget", "record"},
               worker'[r].read[q] \in live'[q]
        PROVE  worker'[q].own = worker'[r].read[q]
    <3>1. worker[q].own = worker'[r].read[q]
      BY <1>1, <2>1 DEF HeldOK, ReadOK
    <3> QED
      BY <1>1, <2>1, <3>1
  <2> QED
    BY <2>1 DEF ReadOK
<1>4. ASSUME AllKnown, NEW q \in Procs, NEW m \in live'[q] PROVE Known(q, m)'
  <2>1. Known(q, m)
    BY <1>4 DEF AllKnown
  <2> QED
    BY <1>1, <2>1 DEF Known
<1> QED
  BY <1>2, <1>3, <1>4 DEF AllKnown

\* A worker writes the file as it read it: the records of its own process are
\* right, those of others as they were, or kept from it.
LEMMA WritesKnows ==
    ASSUME SuperviseTypes, HeldOK, ReadOK, daemon, NEW p \in Procs, NEW v,
           NEW n \in Starts(p), Told(p, v), v.own = worker[p].own, v.at = "step",
           worker[p].at \in {"forget", "record"}, worker[p].own = n,
           Writes(p, [worker[p].read EXCEPT ![p] = n]), UNCHANGED <<live, daemon>>
    PROVE  HeldOK' /\ ReadOK' /\ (AllKnown => AllKnown')
<1> USE AbsentIsNoStart
<1> DEFINE f == worker[p].read
<1>1. /\ worker'[p] = v /\ \A q \in Procs \ {p} : worker'[q] = worker[q]
      /\ \A q \in Procs : worker'[q].own = worker[q].own
  BY DEF Told, SuperviseTypes
<1>2. f \in Copies
  BY DEF SuperviseTypes, WorkerOK
<1>3. /\ file'[p] = n /\ \A q \in Procs \ {p} : file'[q] = f[q]
      /\ orphans' = orphans \cup LeftOut(p, file')
  BY <1>2 DEF Writes, Copies
<1>4. HeldOK'
  <2>1. ASSUME NEW q \in Procs, file'[q] \in live'[q] PROVE worker'[q].own = file'[q]
    BY <1>1, <1>3, <2>1 DEF ReadOK
  <2> QED
    BY <2>1 DEF HeldOK
<1>5. ReadOK'
  BY <1>1 DEF ReadOK
<1>6. ASSUME AllKnown, NEW q \in Procs, NEW m \in live[q] PROVE Known(q, m)'
  <2>1. Known(q, m) /\ m # Absent
    BY <1>6 DEF AllKnown, SuperviseTypes
  <2>2. CASE q = p
    BY <1>1, <1>3, <2>1, <2>2 DEF Known, HeldOK
  <2>3. CASE q # p /\ file[q] = m
    <3>1. file'[q] = m \/ <<q, file[q]>> \in LeftOut(p, file')
      BY <2>1, <2>3 DEF LeftOut
    <3> QED
      BY <1>3, <2>3, <3>1 DEF Known
  <2>4. CASE q # p /\ file[q] # m
    BY <1>1, <1>3, <2>1, <2>4 DEF Known
  <2> QED
    BY <2>2, <2>3, <2>4
<1> QED
  BY <1>4, <1>5, <1>6 DEF AllKnown

\* A worker starts its process when no recorded start of it runs.
LEMMA SpawnKnows ==
    ASSUME SuperviseTypes, HeldOK, ReadOK, NEW p \in Procs, Spawn(p)
    PROVE  HeldOK' /\ ReadOK' /\ (AllKnown => AllKnown')
<1> USE AbsentIsNoStart
<1> DEFINE n == starts[p] + 1
<1>0. /\ live \in [Procs -> SUBSET Nat] /\ starts \in [Procs -> Nat] /\ file \in Copies
      /\ worker \in [Procs -> WorkerType]
      /\ \A r \in Procs : worker[r].at \in {"forget", "record"} => worker[r].read \in Copies
  BY DEF SuperviseTypes, WorkerOK
<1>1. /\ worker' = [worker EXCEPT ![p] = [worker[p] EXCEPT !.own = n, !.at = "record",
                                                           !.read = file]]
      /\ live' = [live EXCEPT ![p] = @ \cup {n}]
      /\ daemon /\ worker[p].own = Absent /\ worker[p].at = "step"
      /\ UNCHANGED <<file, orphans, daemon>>
  BY <1>0 DEF Spawn, Attempts, Looks, Steps, Told, W, daemonVars
<1>2. /\ worker'[p].own = n /\ worker'[p].at = "record" /\ worker'[p].read = file
      /\ \A q \in Procs \ {p} : worker'[q] = worker[q]
  BY <1>0, <1>1 DEF WorkerType
<1>3. ASSUME NEW f \in Copies, f[p] \in live'[p] PROVE f[p] \in live[p]
  BY <1>0, <1>1, <1>3 DEF Copies, Starts
<1>4. \A q \in Procs \ {p} : live'[q] = live[q]
  BY <1>0, <1>1
<1>5. file[p] \notin live'[p]
  BY <1>0, <1>1, <1>3 DEF HeldOK
<1>6. HeldOK'
  BY <1>1, <1>2, <1>4, <1>5 DEF HeldOK
<1>7. ReadOK'
  <2>1. ASSUME NEW r \in Procs, NEW q \in Procs, worker'[r].at \in {"forget", "record"},
               worker'[r].read[q] \in live'[q]
        PROVE  worker'[q].own = worker'[r].read[q]
    <3>1. CASE q = p
      <4>1. CASE r = p
        BY <1>2, <1>5, <2>1, <3>1, <4>1
      <4>2. CASE r # p
        <5>1. worker[r].read \in Copies /\ worker[r].at \in {"forget", "record"}
              /\ worker[r].read[p] \in live'[p]
          BY <1>0, <1>2, <2>1, <3>1, <4>2
        <5>2. worker[r].read[p] \in live[p]
          BY <1>3, <5>1
        <5>3. worker[p].own = worker[r].read[p]
          BY <1>1, <5>1, <5>2 DEF ReadOK
        <5> QED
          BY <1>0, <1>1, <5>2, <5>3
      <4> QED
        BY <4>1, <4>2
    <3>2. CASE q # p
      BY <1>1, <1>2, <1>4, <2>1, <3>2 DEF HeldOK, ReadOK
    <3> QED
      BY <3>1, <3>2
  <2> QED
    BY <2>1 DEF ReadOK
<1>8. ASSUME AllKnown, NEW q \in Procs, NEW m \in live'[q] PROVE Known(q, m)'
  <2>1. CASE q = p /\ m = n
    BY <1>2, <2>1 DEF Known
  <2>2. CASE m \in live[q]
    BY <1>1, <1>2, <1>8, <2>2 DEF Known, AllKnown
  <2> QED
    BY <1>0, <1>1, <2>1, <2>2
<1> QED
  BY <1>6, <1>7, <1>8 DEF AllKnown

LEMMA StepKnows ==
    ASSUME SuperviseTypes, HeldOK, ReadOK, NEW p \in Procs, Step(p)
    PROVE  HeldOK' /\ ReadOK' /\ (AllKnown => AllKnown')
<1> DEFINE w == worker[p]
<1>0. w \in WorkerType /\ WorkerOK(p, w) /\ file \in Copies /\ live \in [Procs -> SUBSET Nat]
  BY DEF SuperviseTypes
<1>1. CASE Healthy(p)
  <2>1. [w EXCEPT !.waits = FALSE, !.starting = FALSE].own = w.own
        /\ [w EXCEPT !.waits = FALSE, !.starting = FALSE].at = w.at
    BY <1>0 DEF WorkerType
  <2> QED
    BY <1>1, <2>1, QuietKnows DEF Healthy, Steps, W, procVars, daemonVars
<1>2. CASE OwnEnded(p)
  BY <1>2, EndedKnows DEF OwnEnded, Steps, W, OwnLive, procVars, daemonVars
<1>3. CASE OwnStuck(p)
  <2>1. [w EXCEPT !.at = "stop"].own = w.own /\ [w EXCEPT !.at = "stop"].at = "stop"
    BY <1>0 DEF WorkerType
  <2> QED
    BY <1>3, <2>1, QuietKnows DEF OwnStuck, Steps, W, procVars, daemonVars
<1>4. CASE StoppedStuck(p)
  <2>1. /\ live' = [live EXCEPT ![p] = @ \ {w.own}]
        /\ Told(p, [w EXCEPT !.own = Absent, !.at = "forget", !.read = file])
        /\ w.at = "stop" /\ daemon /\ UNCHANGED <<file, orphans, daemon>>
    BY <1>4 DEF StoppedStuck, W, daemonVars
  <2>2. w.own \notin live'[p] /\ \A q \in Procs : live'[q] \subseteq live[q]
    BY <1>0, <2>1
  <2> QED
    BY <2>1, <2>2, EndedKnows
<1>5. CASE ForgetStarted(p)
  <2> DEFINE v == [w EXCEPT !.at = "step", !.read = Absent, !.waits = TRUE]
  <2>1. /\ v.own = w.own /\ v.at = "step" /\ w.own = Absent /\ w.at = "forget"
        /\ Told(p, v) /\ daemon /\ UNCHANGED <<live, daemon>>
    BY <1>0, <1>5 DEF ForgetStarted, W, procVars, WorkerType, WorkerOK
  <2>2. CASE Writes(p, [w.read EXCEPT ![p] = Absent])
    BY <2>1, <2>2, WritesKnows DEF Starts
  <2>3. CASE UNCHANGED <<file, orphans>>
    <3>2. /\ worker'[p] = v /\ \A q \in Procs \ {p} : worker'[q] = worker[q]
          /\ \A q \in Procs : worker'[q].own = worker[q].own
      BY <2>1 DEF Told, SuperviseTypes
    <3> HIDE DEF v
    <3>3. HeldOK'
      BY <2>1, <2>3, <3>2 DEF HeldOK
    <3>4. ReadOK'
      BY <2>1, <2>3, <3>2 DEF ReadOK
    <3>5. ASSUME AllKnown, NEW q \in Procs, NEW m \in live'[q] PROVE Known(q, m)'
      <4>1. Known(q, m)
        BY <2>1, <3>5 DEF AllKnown
      <4> QED
        BY <2>1, <2>3, <3>2, <4>1 DEF Known
    <3> QED
      BY <3>3, <3>4, <3>5 DEF AllKnown
  <2> QED
    BY <1>5, <2>2, <2>3 DEF ForgetStarted, W, Forgotten
<1>6. CASE ServiceSilent(p)
  <2>1. [w EXCEPT !.starting = FALSE, !.waits = TRUE].own = w.own
        /\ [w EXCEPT !.starting = FALSE, !.waits = TRUE].at = w.at
    BY <1>0 DEF WorkerType
  <2> QED
    BY <1>6, <2>1, QuietKnows DEF ServiceSilent, Looks, Steps, W, procVars, daemonVars
<1>7. CASE BackoffOver(p)
  <2>1. [w EXCEPT !.waits = FALSE].own = w.own /\ [w EXCEPT !.waits = FALSE].at = w.at
    BY <1>0 DEF WorkerType
  <2> QED
    BY <1>7, <2>1, QuietKnows DEF BackoffOver, Looks, Steps, W, procVars, daemonVars
<1>8. CASE StartService(p)
  <2>1. /\ [w EXCEPT !.starting = TRUE].own = w.own /\ [w EXCEPT !.starting = TRUE].at = w.at
        /\ [w EXCEPT !.waits = TRUE].own = w.own /\ [w EXCEPT !.waits = TRUE].at = w.at
    BY <1>0 DEF WorkerType
  <2> QED
    BY <1>8, <2>1, QuietKnows DEF StartService, Attempts, Looks, Steps, W, daemonVars
<1>9. CASE Install(p)
  <2>1. /\ [w EXCEPT !.at = "installed"].own = w.own
        /\ [w EXCEPT !.at = "installed"].at = "installed"
        /\ [w EXCEPT !.refused = TRUE].own = w.own /\ [w EXCEPT !.refused = TRUE].at = w.at
    BY <1>0 DEF WorkerType
  <2> QED
    BY <1>9, <2>1, QuietKnows DEF Install, Attempts, Looks, Steps, W, daemonVars
<1>10. CASE RecordService(p)
  <2>1. [w EXCEPT !.at = "step", !.starting = TRUE].own = w.own
        /\ [w EXCEPT !.at = "step", !.starting = TRUE].at = "step"
    BY <1>0 DEF WorkerType
  <2> QED
    BY <1>10, <2>1, QuietKnows DEF RecordService, W, procVars, daemonVars
<1>11. CASE Spawn(p)
  BY <1>11, SpawnKnows
<1>12. CASE SpawnFails(p)
  <2>1. [w EXCEPT !.waits = TRUE].own = w.own /\ [w EXCEPT !.waits = TRUE].at = w.at
    BY <1>0 DEF WorkerType
  <2> QED
    BY <1>12, <2>1, QuietKnows DEF SpawnFails, Attempts, Looks, Steps, W, procVars, daemonVars
<1>13. CASE RecordStarted(p)
  <2> DEFINE v == [w EXCEPT !.at = "step", !.read = Absent]
  <2>1. /\ v.own = w.own /\ v.at = "step" /\ w.at = "record" /\ w.own \in Starts(p)
        /\ Told(p, v) /\ daemon /\ UNCHANGED <<live, daemon>>
    BY <1>0, <1>13 DEF RecordStarted, W, procVars, WorkerType, WorkerOK
  <2>2. CASE Writes(p, [w.read EXCEPT ![p] = w.own])
    BY <2>1, <2>2, WritesKnows
  <2>3. CASE orphans' = orphans \cup {<<p, w.own>>} /\ UNCHANGED file
    <3>1. /\ worker'[p] = v /\ \A q \in Procs \ {p} : worker'[q] = worker[q]
          /\ \A q \in Procs : worker'[q].own = worker[q].own
      BY <2>1 DEF Told, SuperviseTypes
    <3> HIDE DEF v
    <3>2. HeldOK' /\ ReadOK'
      BY <2>1, <2>3, <3>1 DEF HeldOK, ReadOK
    <3>3. ASSUME AllKnown, NEW q \in Procs, NEW m \in live'[q] PROVE Known(q, m)'
      <4>1. Known(q, m)
        BY <2>1, <3>3 DEF AllKnown
      <4> QED
        BY <2>1, <2>3, <3>1, <4>1 DEF Known
    <3> QED
      BY <3>2, <3>3 DEF AllKnown
  <2> QED
    BY <1>13, <2>2, <2>3 DEF RecordStarted, W
<1> QED
  BY <1>1, <1>2, <1>3, <1>4, <1>5, <1>6, <1>7, <1>8, <1>9, <1>10, <1>11, <1>12, <1>13
     DEF Step

-----------------------------------------------------------------------------
(* Every step *)

\* The link process ends: what its workers were about to record is kept from
\* processes.json, and nothing else is.
LEMMA StoppedKnows ==
    ASSUME Stopped, AllKnown
    PROVE  \A p \in Procs : \A n \in live'[p] : <<p, n>> \in orphans' \/ file'[p] = n
<1>1. /\ UNCHANGED <<live, file>>
      /\ orphans' = orphans \cup {<<p, worker[p].own>> :
                                p \in {q \in Procs : worker[q].at = "record"}}
  BY DEF Stopped, procVars
<1>2. ASSUME NEW p \in Procs, NEW n \in live[p] PROVE <<p, n>> \in orphans' \/ file[p] = n
  <2>1. CASE worker[p].at = "record" /\ worker[p].own = n
    BY <1>1, <2>1
  <2>2. CASE <<p, n>> \in orphans \/ file[p] = n
    BY <1>1, <2>2
  <2> QED
    BY <2>1, <2>2 DEF AllKnown, Known
<1> QED
  BY <1>1, <1>2

\* The commands that leave the processes and what is recorded of them alone.
Elsewhere ==
    \/ SecondWrite \/ AttachApply \/ Attached \/ ModelsRead \/ ModelsChange \/ ModelsSave
    \/ Unlink \/ RemoveAgent \/ NotFound \/ Restore \/ AllRestored \/ Owner \/ Uninstall
    \/ UNCHANGED installVars

\* What they do to the command under way.
ElsewherePhases ==
    \/ UNCHANGED <<phase, by, stopping, unfound>>
    \/ /\ phase \in {"attach", "linked", "models", "save"}
       /\ phase' \in {"attach", "linked", "models", "save", "leave"}
    \/ /\ phase = "linked" /\ phase' = "find" /\ by' = "remove"
    \/ /\ phase = "find" /\ phase' = "clear" /\ unfound' /\ UNCHANGED by
    \/ /\ phase = "uninstall" /\ phase' = "restore" /\ UNCHANGED <<by, stopping, unfound>>
    \/ /\ phase = "restore" /\ phase' = "clear" /\ UNCHANGED <<by, stopping, unfound>>

LEMMA ElsewhereFrame ==
    ASSUME SuperviseTypes, SuperviseTypes', Elsewhere, JournalInv, JournalInv'
    PROVE  UNCHANGED <<live, file, worker, daemon, orphans>> /\ ElsewherePhases
<1> USE DEF superviseVars, procVars, daemonVars, commandVars, Goes, ElsewherePhases
<1>1. CASE SecondWrite
  BY <1>1 DEF SecondWrite
<1>2. CASE AttachApply \/ Attached
  BY <1>2 DEF AttachApply, Attached
<1>3. CASE ModelsRead \/ ModelsChange \/ ModelsSave
  BY <1>3 DEF ModelsRead, ModelsChange, ModelsSave
<1>4. CASE Unlink \/ RemoveAgent \/ NotFound
  BY <1>4 DEF Unlink, RemoveAgent, NotFound
<1>5. CASE Restore \/ AllRestored
  BY <1>5 DEF Restore, AllRestored
<1>6. CASE Owner
  BY <1>6 DEF Owner, OwnerRuns
<1>7. CASE Uninstall
  BY <1>7 DEF Uninstall
<1>8. CASE UNCHANGED installVars
  BY <1>8 DEF installVars
<1> QED
  BY <1>1, <1>2, <1>3, <1>4, <1>5, <1>6, <1>7, <1>8 DEF Elsewhere

LEMMA SuperviseStep ==
    ASSUME SuperviseInv, JournalInv, JournalInv', [InstallNext]_installVars
    PROVE  SuperviseInv'
<1> USE AbsentIsNoStart
<1>0. /\ SuperviseTypes /\ HeldOK /\ ReadOK /\ KnownOK /\ StillOK /\ ByOK /\ StoppingOK
      /\ SuperviseTypes'
  BY TypesStep DEF SuperviseInv
<1>1. CASE Elsewhere
  <2>1. UNCHANGED <<live, file, worker, daemon, orphans>> /\ ElsewherePhases
    BY <1>0, <1>1, ElsewhereFrame
  <2>2. HeldOK' /\ ReadOK' /\ StillOK'
    BY <1>0, <2>1 DEF HeldOK, ReadOK, StillOK
  <2>3. KnownOK'
    BY <1>0, <2>1 DEF KnownOK, AllKnown, Known, ElsewherePhases
  <2>4. ByOK'
    BY <1>0, <2>1 DEF ByOK, Releasing, ElsewherePhases
  <2>5. StoppingOK'
    <3> SUFFICES ASSUME by' = "unlink", NEW p \in Procs, NEW n \in live'[p]
                 PROVE  /\ phase' = "find" => <<p, n>> \in orphans' \/ file'[p] = n
                        /\ Releasing' /\ ~unfound' =>
                               \/ <<p, n>> \in orphans'
                               \/ phase' = "stop" /\ <<p, n>> \in stopping'
      BY DEF StoppingOK
    <3>1. CASE UNCHANGED <<by, stopping, unfound>>
      BY <1>0, <2>1, <3>1 DEF StoppingOK, Releasing, ElsewherePhases
    <3>2. CASE ~UNCHANGED <<by, stopping, unfound>>
      BY <2>1, <3>2 DEF Releasing, ElsewherePhases
    <3> QED
      BY <3>1, <3>2
  <2> QED
    BY <1>0, <2>2, <2>3, <2>4, <2>5 DEF SuperviseInv
<1>2. CASE Daemon(Started)
  <2>1. /\ Hosted /\ ~daemon /\ daemon' = TRUE
        /\ worker' = [p \in Procs |-> NewWorker(Adopted(p))]
        /\ file' = [p \in Procs |-> Adopted(p)]
        /\ UNCHANGED <<live, orphans, phase, by, stopping, unfound>>
    BY <1>2 DEF Daemon, Started, StartDaemon, procVars, commandVars
  <2>2. \A p \in Procs : worker'[p].own = file'[p] /\ worker'[p].at = "step"
    BY <2>1 DEF NewWorker
  <2>3. HeldOK' /\ ReadOK' /\ StillOK'
    BY <2>1, <2>2 DEF HeldOK, ReadOK, StillOK
  <2>4. ASSUME NEW p \in Procs, NEW n \in live[p] PROVE Known(p, n)'
    <3>1. Known(p, n) /\ worker[p].at = "step"
      BY <1>0, <2>1, <2>4 DEF KnownOK, AllKnown, Hosted, StillOK
    <3> QED
      BY <2>1, <2>4, <3>1 DEF Known, Adopted
  <2>5. KnownOK'
    BY <2>1, <2>4 DEF KnownOK, AllKnown
  <2>6. ByOK' /\ StoppingOK'
    BY <2>1 DEF ByOK, StoppingOK, Hosted, Releasing
  <2> QED
    BY <1>0, <2>3, <2>5, <2>6 DEF SuperviseInv
<1>3. ASSUME Stopped, phase' = phase \/ (phase = "leave" /\ phase' = "find"),
             UNCHANGED <<by, stopping, unfound>>
      PROVE  SuperviseInv'
  <2>1. /\ daemon' = FALSE /\ UNCHANGED <<live, file>>
        /\ worker' = [p \in Procs |-> NewWorker(Absent)]
        /\ orphans \subseteq orphans'
    BY <1>3 DEF Stopped, procVars
  <2>2. HeldOK' /\ ReadOK' /\ StillOK' /\ ByOK'
    BY <2>1 DEF HeldOK, ReadOK, StillOK, ByOK, NewWorker
  <2>3. ASSUME AllKnown
        PROVE  \A p \in Procs : \A n \in live'[p] : <<p, n>> \in orphans' \/ file'[p] = n
    BY <1>3, <2>3, StoppedKnows
  <2>4. KnownOK'
    BY <1>0, <1>3, <2>3 DEF KnownOK, AllKnown, Known
  <2>5. CASE phase' = phase
    BY <1>0, <1>3, <2>1, <2>2, <2>4, <2>5 DEF SuperviseInv, StoppingOK, ByOK, Releasing
  <2>6. CASE phase = "leave" /\ phase' = "find"
    <3>1. \A p \in Procs : \A n \in live'[p] : <<p, n>> \in orphans' \/ file'[p] = n
      BY <1>0, <2>3, <2>6 DEF KnownOK
    <3> QED
      BY <1>0, <2>2, <2>4, <2>6, <3>1 DEF SuperviseInv, StoppingOK, Releasing
  <2> QED
    BY <1>3, <2>5, <2>6
<1>4. CASE Daemon(Crash)
  BY <1>3, <1>4 DEF Daemon, Crash, commandVars
<1>5. CASE StopService
  BY <1>3, <1>5 DEF StopService, Goes, commandVars
<1>6. ASSUME NEW p \in Procs, Works(p) PROVE SuperviseInv'
  <2>1. Step(p) /\ UNCHANGED <<phase, by, stopping, unfound>>
    BY <1>6 DEF Works, Daemon, commandVars
  <2>2. daemon /\ daemon' = daemon
    BY <2>1 DEF Step, Healthy, OwnEnded, OwnStuck, StoppedStuck, ForgetStarted,
       ServiceSilent, BackoffOver, StartService, Install, RecordService, Spawn,
       SpawnFails, RecordStarted, Attempts, Looks, Steps, daemonVars
  <2>3. HeldOK' /\ ReadOK' /\ (AllKnown => AllKnown')
    BY <1>0, <2>1, StepKnows
  <2>4. StillOK' /\ ByOK' /\ KnownOK'
    BY <1>0, <2>1, <2>2, <2>3 DEF StillOK, ByOK, KnownOK, Releasing
  <2>5. StoppingOK'
    BY <1>0, <2>1, <2>2 DEF StoppingOK, ByOK, Releasing
  <2> QED
    BY <1>0, <2>3, <2>4, <2>5 DEF SuperviseInv
<1>7. ASSUME NEW p \in Procs, Daemon(Ends(p)) PROVE SuperviseInv'
  <2>1. /\ UNCHANGED <<file, worker, daemon, orphans, phase, by, stopping, unfound>>
        /\ \A q \in Procs : live'[q] \subseteq live[q]
    BY <1>0, <1>7 DEF Daemon, Ends, daemonVars, commandVars, SuperviseTypes
  <2>2. HeldOK' /\ ReadOK' /\ StillOK' /\ ByOK'
    BY <1>0, <2>1 DEF HeldOK, ReadOK, StillOK, ByOK, Releasing
  <2>3. KnownOK'
    BY <1>0, <2>1 DEF KnownOK, AllKnown, Known
  <2>4. StoppingOK'
    BY <1>0, <2>1 DEF StoppingOK, Releasing
  <2> QED
    BY <1>0, <2>2, <2>3, <2>4 DEF SuperviseInv
<1>8. CASE StopStarted
  <2>1. PICK s \in stopping : /\ live' = [live EXCEPT ![s[1]] = @ \ {s[2]}]
                              /\ stopping' = stopping \ {s}
    BY <1>8 DEF StopStarted
  <2>2. /\ UNCHANGED <<file, worker, daemon, orphans, phase, by, unfound>>
        /\ phase = "stop"
        /\ \A q \in Procs : live'[q] \subseteq live[q]
    BY <1>0, <1>8, <2>1 DEF StopStarted, daemonVars, SuperviseTypes
  <2>3. HeldOK' /\ ReadOK' /\ StillOK' /\ ByOK' /\ KnownOK'
    BY <1>0, <2>2 DEF HeldOK, ReadOK, StillOK, ByOK, KnownOK, Releasing
  <2>4. ASSUME NEW p \in Procs, NEW n \in live'[p], <<p, n>> \in stopping
        PROVE  <<p, n>> \in stopping'
    BY <1>0, <2>1, <2>4 DEF SuperviseTypes
  <2>5. StoppingOK'
    BY <1>0, <2>2, <2>4 DEF StoppingOK, Releasing
  <2> QED
    BY <1>0, <2>3, <2>5 DEF SuperviseInv
<1>9. CASE ForgetAll
  <2>1. /\ UNCHANGED <<live, worker, daemon, orphans, by, stopping, unfound>>
        /\ phase = "stop" /\ phase' = "uninstall" /\ stopping = {}
        /\ file' = [p \in Procs |-> Absent]
    BY <1>9 DEF ForgetAll, Goes, procVars, daemonVars, commandVars
  <2>2. HeldOK'
    BY <1>0, <2>1 DEF HeldOK, SuperviseTypes
  <2>3. ReadOK' /\ StillOK' /\ ByOK' /\ KnownOK' /\ StoppingOK'
    BY <1>0, <2>1 DEF ReadOK, StillOK, ByOK, KnownOK, StoppingOK, Releasing
  <2> QED
    BY <1>0, <2>2, <2>3 DEF SuperviseInv
<1>10. CASE Clear
  <2>1. /\ UNCHANGED <<live, orphans, by, stopping, unfound>> /\ daemon' = FALSE
        /\ worker' = [p \in Procs |-> NewWorker(Absent)]
        /\ phase = "clear" /\ phase' = "done"
    BY <1>10 DEF Clear, Goes, procVars, commandVars
  <2>2. HeldOK' /\ ReadOK' /\ StillOK' /\ ByOK' /\ KnownOK'
    BY <2>1 DEF HeldOK, ReadOK, StillOK, ByOK, KnownOK, NewWorker
  <2>3. StoppingOK'
    BY <1>0, <2>1 DEF StoppingOK, Releasing
  <2> QED
    BY <1>0, <2>2, <2>3 DEF SuperviseInv
<1>11. CASE Found
  <2>1. /\ UNCHANGED <<live, file, worker, daemon, orphans, by, unfound>>
        /\ phase = "find" /\ phase' = "stop"
        /\ stopping' = {<<p, file[p]>> : p \in {q \in Procs : file[q] # Absent}}
    BY <1>11 DEF Found, Goes, superviseVars, procVars, daemonVars
  <2>2. HeldOK' /\ ReadOK' /\ StillOK' /\ ByOK' /\ KnownOK'
    BY <1>0, <2>1 DEF HeldOK, ReadOK, StillOK, ByOK, KnownOK, Releasing
  <2>3. ASSUME NEW p \in Procs, NEW n \in live[p], file[p] = n
        PROVE  <<p, n>> \in stopping'
    <3>1. n # Absent
      BY <1>0, <2>3 DEF SuperviseTypes
    <3> QED
      BY <2>1, <2>3, <3>1
  <2>4. StoppingOK'
    BY <1>0, <2>1, <2>3 DEF StoppingOK, Releasing
  <2> QED
    BY <1>0, <2>2, <2>4 DEF SuperviseInv
<1> QED
  BY <1>1, <1>2, <1>4, <1>5, <1>6, <1>7, <1>8, <1>9, <1>10, <1>11
     DEF InstallNext, Command, Service, Elsewhere

-----------------------------------------------------------------------------
LEMMA InstallInductive == InstallSpec => [](JournalInv /\ SuperviseInv)
<1>1. InstallInit => JournalInv /\ SuperviseInv
  BY JournalStart, SuperviseStart
<1>2. JournalInv /\ SuperviseInv /\ [InstallNext]_installVars => (JournalInv /\ SuperviseInv)'
  BY JournalStep, SuperviseStep
<1> QED
  BY <1>1, <1>2, PTL DEF InstallSpec

\* For any number of processes, however often the link process dies, whatever
\* the owner edits and runs: the journal has the entry of the change a call is
\* in the middle of, the install's records are starts there were, and once the
\* owner has unlinked an install that was found, none of the link's starts runs
\* but those kept from processes.json (supervise.rs: release; link.rs: release,
\* unlink; journal.rs: apply, revert).
THEOREM InstallGivenBack == InstallSpec => []InstallSound
<1>1. JournalInv /\ SuperviseInv => InstallSound
  <2> SUFFICES ASSUME JournalInv, SuperviseInv PROVE InstallSound
    OBVIOUS
  <2>1. /\ SuperviseTypes /\ StoppingOK /\ ByOK
        /\ JournalTypeOK /\ (Hosted => Applied("proxy"))
    BY DEF SuperviseInv, JournalInv, WritingOK
  <2>2. InstallTypeOK
    BY <2>1 DEF SuperviseTypes, Copies, WorkerOK, Starts, ByOK, InstallTypeOK
  <2>3. StartedIsStopped
    BY <2>1 DEF StoppingOK, StartedIsStopped, Releasing
  <2> QED
    BY <2>1, <2>2, <2>3 DEF InstallSound
<1> QED
  BY <1>1, InstallInductive, PTL
=============================================================================
