----------------------------- MODULE Supervise -----------------------------
(***************************************************************************)
(* Keeping an install's processes up (nebo-link/src/supervise.rs): one     *)
(* worker per process, each a task of a multi-threaded runtime, that looks *)
(* at its process again and again and starts what does not answer, by the  *)
(* runtime's own service or in the foreground; the record of what the link *)
(* started (processes.json), and of the services it installed (link.json), *)
(* so the next link process adopts it and an unlink gives it back.  The    *)
(* link process may die at any point and be started again.                 *)
(***************************************************************************)
EXTENDS Naturals, FiniteSets

CONSTANTS
    Procs,      \* the install's processes (a gateway, a dashboard)
    Serviced,   \* those the runtime has a service for
    MaxEnds,    \* bound: how often a process ends, gets stuck or fails to start
    MaxCrashes, \* bound: how often the link process dies
    Absent

ASSUME AbsentIsNoStart == Absent \notin Nat

VARIABLES
    live,       \* the foreground processes of the link running: per process,
                \* the starts of it that still run
    starts,     \* how often each was started in the foreground
    service,    \* who installed the runtime's service: Absent, "owner", "link"
    serving,    \* the processes the runtime's service runs
    byOwner,    \* the processes the owner runs by hand
    file,       \* processes.json: per process, the start recorded, or Absent
    services,   \* link.json: the processes whose service the link installed
    worker,     \* per process, what its worker remembers and is at
    daemon,     \* is the link process running?
    orphans,    \* history: the starts a kill or a failed write kept from being
                \* recorded, and those another worker's write left out
    ends, crashes

procVars == <<live, service, serving, byOwner>>
daemonVars == <<daemon, orphans, crashes>>
superviseVars == <<procVars, starts, file, services, worker, daemonVars, ends>>

(* own: the start it holds; at: what it is in the middle of; read: the     *)
(* processes.json it is about to write back; waits: next_attempt is ahead; *)
(* starting: the service was told to start; refused: install_failed.       *)
NewWorker(n) == [own |-> n, at |-> "step", read |-> Absent,
                 waits |-> FALSE, starting |-> FALSE, refused |-> FALSE]

Forgotten(f, p) == [f EXCEPT ![p] = Absent]

(* A worker writes processes.json as it read it, its own process changed,  *)
(* without a lock: what another worker recorded since is left out of it.   *)
LeftOut(p, f) == {<<q, file[q]>> : q \in {r \in Procs \ {p} :
                                       file[r] # Absent /\ file[r] # f[r]}}

Writes(p, f) ==
    /\ file' = f
    /\ orphans' = orphans \cup LeftOut(p, f)

(* Does anything of the process run? *)
Runs(p) == live[p] # {} \/ p \in serving \/ p \in byOwner

OwnLive(p) == worker[p].own \in live[p]
Steps(p) == daemon /\ worker[p].at = "step"
Told(p, w) == worker' = [worker EXCEPT ![p] = w]
W(p) == worker[p]

-----------------------------------------------------------------------------
SuperviseInit ==
    /\ live = [p \in Procs |-> {}]
    /\ starts = [p \in Procs |-> 0]
    /\ service \in [Procs -> {Absent, "owner"}]
    /\ \A p \in Procs \ Serviced : service[p] = Absent
    /\ serving = {}
    /\ byOwner = {}
    /\ file = [p \in Procs |-> Absent]
    /\ services = {}
    /\ worker = [p \in Procs |-> NewWorker(Absent)]
    /\ daemon = FALSE
    /\ orphans = {}
    /\ ends = 0
    /\ crashes = 0

(* Worker::adopt, as the link process starts: a start recorded that still  *)
(* runs is taken over, one that ended is forgotten.                        *)
Adopted(p) == IF file[p] \in live[p] THEN file[p] ELSE Absent

StartDaemon ==
    /\ ~daemon
    /\ daemon' = TRUE
    /\ worker' = [p \in Procs |-> NewWorker(Adopted(p))]
    /\ file' = [p \in Procs |-> Adopted(p)]
    /\ UNCHANGED <<procVars, starts, services, orphans, crashes, ends>>

(* The link process dies: what its workers hold is gone, what they started *)
(* runs on.                                                                *)
Stopped ==
    /\ daemon' = FALSE
    /\ worker' = [p \in Procs |-> NewWorker(Absent)]
    /\ orphans' = orphans \cup {<<p, worker[p].own>> :
                             p \in {q \in Procs : worker[q].at = "record"}}
    /\ UNCHANGED <<procVars, starts, file, services, ends>>

Crash ==
    /\ daemon
    /\ crashes < MaxCrashes
    /\ crashes' = crashes + 1
    /\ Stopped

-----------------------------------------------------------------------------
(* Worker::step *)

(* It answers its health URL. *)
Healthy(p) ==
    /\ Steps(p)
    /\ Runs(p)
    /\ Told(p, [W(p) EXCEPT !.waits = FALSE, !.starting = FALSE])
    /\ UNCHANGED <<procVars, starts, file, services, daemonVars, ends>>

\* Mutant: the start that ended is still held.
OwnStillHeld(p) ==
    /\ Steps(p)
    /\ W(p).own # Absent
    /\ ~OwnLive(p)
    /\ Told(p, [W(p) EXCEPT !.at = "forget", !.read = file])
    /\ UNCHANGED <<procVars, starts, file, services, daemonVars, ends>>

(* It does not, from here on.  The start the worker holds has ended.       *)
OwnEnded(p) ==
    /\ Steps(p)
    /\ W(p).own # Absent
    /\ ~OwnLive(p)
    /\ Told(p, [W(p) EXCEPT !.own = Absent, !.at = "forget", !.read = file])
    /\ UNCHANGED <<procVars, starts, file, services, daemonVars, ends>>

(* It runs and did not answer within STARTUP_GRACE: it is stopped. *)
OwnStuck(p) ==
    /\ Steps(p)
    /\ OwnLive(p)
    /\ ends < MaxEnds
    /\ ends' = ends + 1
    /\ Told(p, [W(p) EXCEPT !.at = "stop"])
    /\ UNCHANGED <<procVars, starts, file, services, daemonVars>>

StoppedStuck(p) ==
    /\ daemon
    /\ W(p).at = "stop"
    /\ live' = [live EXCEPT ![p] = @ \ {W(p).own}]
    /\ Told(p, [W(p) EXCEPT !.own = Absent, !.at = "forget", !.read = file])
    /\ UNCHANGED <<service, serving, byOwner, starts, file, services,
                   daemonVars, ends>>

(* forget_started's write, of the file as it was read, or not (it failed,  *)
(* or there is nothing to forget); and Worker::failed: the process is not  *)
(* started again before the backoff is over.                               *)
ForgetStarted(p) ==
    /\ daemon
    /\ W(p).at = "forget"
    /\ \/ W(p).read[p] # Absent /\ Writes(p, Forgotten(W(p).read, p))
       \/ UNCHANGED <<file, orphans>>
    /\ Told(p, [W(p) EXCEPT !.at = "step", !.read = Absent, !.waits = TRUE])
    /\ UNCHANGED <<procVars, starts, services, daemon, crashes, ends>>

(* Nothing of its own to look at, and not up by the runtime's pid file. *)
Looks(p) == Steps(p) /\ W(p).own = Absent

(* The service was told to start and did not answer within STARTUP_GRACE. *)
ServiceSilent(p) ==
    /\ Looks(p)
    /\ W(p).starting
    /\ Told(p, [W(p) EXCEPT !.starting = FALSE, !.waits = TRUE])
    /\ UNCHANGED <<procVars, starts, file, services, daemonVars, ends>>

BackoffOver(p) ==
    /\ Looks(p)
    /\ ~W(p).starting
    /\ W(p).waits
    /\ Told(p, [W(p) EXCEPT !.waits = FALSE])
    /\ UNCHANGED <<procVars, starts, file, services, daemonVars, ends>>

Attempts(p) == Looks(p) /\ ~W(p).starting /\ ~W(p).waits

(* The service the link installed is told to start; the owner's is left to *)
(* the owner's service manager.                                            *)
StartService(p) ==
    /\ Attempts(p)
    /\ service[p] # Absent
    /\ p \in services
    /\ \/ /\ serving' = serving \cup {p}
          /\ Told(p, [W(p) EXCEPT !.starting = TRUE])
          /\ UNCHANGED ends
       \/ /\ ends < MaxEnds
          /\ ends' = ends + 1
          /\ Told(p, [W(p) EXCEPT !.waits = TRUE])
          /\ UNCHANGED serving
    /\ UNCHANGED <<live, service, byOwner, starts, file, services, daemonVars>>

(* No service: the runtime's install command runs. *)
Install(p) ==
    /\ Attempts(p)
    /\ p \in Serviced
    /\ service[p] = Absent
    /\ ~W(p).refused
    /\ \/ /\ service' = [service EXCEPT ![p] = "link"]
          /\ serving' = serving \cup {p}
          /\ Told(p, [W(p) EXCEPT !.at = "installed"])
       \/ /\ Told(p, [W(p) EXCEPT !.refused = TRUE])
          /\ UNCHANGED <<service, serving>>
    /\ UNCHANGED <<live, byOwner, starts, file, services, daemonVars, ends>>

(* It wrote one: that is recorded in link.json, or the write fails and the *)
(* service passes for the owner's from here on.                            *)
RecordService(p) ==
    /\ daemon
    /\ W(p).at = "installed"
    /\ services' \in {services \cup {p}, services}
    /\ Told(p, [W(p) EXCEPT !.at = "step", !.starting = TRUE])
    /\ UNCHANGED <<procVars, starts, file, daemonVars, ends>>

(* No service can be installed: started in the foreground, and recorded in *)
(* the file as it was read.                                                *)
Spawn(p) ==
    /\ Attempts(p)
    /\ service[p] = Absent
    /\ p \in Serviced => W(p).refused
    /\ starts' = [starts EXCEPT ![p] = @ + 1]
    /\ live' = [live EXCEPT ![p] = @ \cup {starts'[p]}]
    /\ Told(p, [W(p) EXCEPT !.own = starts'[p], !.at = "record", !.read = file])
    /\ UNCHANGED <<service, serving, byOwner, file, services, daemonVars, ends>>

SpawnFails(p) ==
    /\ Attempts(p)
    /\ service[p] = Absent
    /\ p \in Serviced => W(p).refused
    /\ ends < MaxEnds
    /\ ends' = ends + 1
    /\ Told(p, [W(p) EXCEPT !.waits = TRUE])
    /\ UNCHANGED <<procVars, starts, file, services, daemonVars>>

(* The record is written, or the write fails: that is logged, and the      *)
(* worker holds a start nothing else knows of.                             *)
RecordStarted(p) ==
    /\ daemon
    /\ W(p).at = "record"
    /\ \/ Writes(p, [W(p).read EXCEPT ![p] = W(p).own])
       \/ /\ orphans' = orphans \cup {<<p, W(p).own>>}
          /\ UNCHANGED file
    /\ Told(p, [W(p) EXCEPT !.at = "step", !.read = Absent])
    /\ UNCHANGED <<procVars, starts, services, daemon, crashes, ends>>

Step(p) ==
    \/ Healthy(p) \/ OwnEnded(p) \/ OwnStuck(p) \/ StoppedStuck(p)
    \/ ForgetStarted(p) \/ ServiceSilent(p) \/ BackoffOver(p)
    \/ StartService(p) \/ Install(p) \/ RecordService(p)
    \/ Spawn(p) \/ SpawnFails(p) \/ RecordStarted(p)

-----------------------------------------------------------------------------
(* The processes themselves, and the owner. *)

Ends(p) ==
    /\ ends < MaxEnds
    /\ ends' = ends + 1
    /\ \/ \E n \in live[p] : live' = [live EXCEPT ![p] = @ \ {n}]
          /\ UNCHANGED serving
       \/ p \in serving /\ serving' = serving \ {p} /\ UNCHANGED live
    /\ UNCHANGED <<service, byOwner, starts, file, services, worker, daemonVars>>

OwnerRuns(p) ==
    /\ ends < MaxEnds
    /\ ends' = ends + 1
    /\ byOwner' = IF p \in byOwner THEN byOwner \ {p} ELSE byOwner \cup {p}
    /\ UNCHANGED <<live, service, serving, starts, file, services, worker, daemonVars>>
=============================================================================
