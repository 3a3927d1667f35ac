------------------------------ MODULE Install ------------------------------
(***************************************************************************)
(* An install the link opens to NeboAI (nebo-link/src/link.rs): attached   *)
(* (its config changed through the journal), kept up by the running        *)
(* service's workers, its models switched on and off, and given back by    *)
(* `nebo-link unlink` or `nebo-link remove`.  The commands are processes   *)
(* of their own beside the service: they read link.json once and write     *)
(* back what they read.                                                    *)
(***************************************************************************)
EXTENDS Journal, Supervise

VARIABLES
    phase,      \* what the command running now is at
    by,         \* who gives the install back: "unlink", "remove", or None
    copy,       \* the services in link.json as the command read it
    stopping,   \* the starts it has yet to stop
    unfound     \* the install was not found, and is being left as it is

commandVars == <<by, copy, stopping, unfound>>
installVars == <<journalVars, superviseVars, phase, commandVars>>

Idle == writing = None
Hosted == phase \in {"linked", "models", "save"}

Goes(from, to) == phase = from /\ phase' = to

-----------------------------------------------------------------------------
InstallInit ==
    /\ JournalInit
    /\ SuperviseInit
    /\ phase = "attach"
    /\ by = None
    /\ copy = {}
    /\ stopping = {}
    /\ unfound = FALSE

(* attach: the config opened to the link.  Its one look at each process is *)
(* a worker's, in a link process that then ends.                           *)
AttachApply ==
    /\ phase = "attach"
    /\ ~Applied("proxy")
    /\ \E list \in Lists : Apply("proxy", list)
    /\ UNCHANGED <<phase, commandVars, superviseVars>>

Attached ==
    /\ Goes("attach", "linked")
    /\ Applied("proxy")
    /\ Idle
    /\ UNCHANGED <<journalVars, superviseVars, commandVars>>

(* set_models reads the link, *)
ModelsRead ==
    /\ Goes("linked", "models")
    /\ copy' = services
    /\ UNCHANGED <<by, stopping, unfound, journalVars, superviseVars>>

(* changes the config (or finds nothing to change), *)
ModelsChange ==
    /\ Goes("models", "save")
    /\ \/ \E list \in Lists : Apply("models", list)
       \/ Revert("models")
       \/ UNCHANGED journalVars
    /\ UNCHANGED <<superviseVars, commandVars>>

(* and saves the link as it read it. *)
ModelsSave ==
    /\ Goes("save", "linked")
    /\ Idle
    /\ services' = copy
    /\ copy' = {}
    /\ UNCHANGED <<by, stopping, unfound, journalVars, procVars, starts, file,
                   worker, daemonVars, ends>>

-----------------------------------------------------------------------------
(* Giving it back. *)

(* The owner's unlink stops the service first. *)
Unlink ==
    /\ Goes("linked", "leave")
    /\ by' = "unlink"
    /\ copy' = services
    /\ UNCHANGED <<stopping, unfound, journalVars, superviseVars>>

(* Asked to end, the service ends at a worker's next wait. *)
Orderly == \A p \in Procs : worker[p].at \notin {"record", "forget"}

\* Mutant: the service is left running while the agent is given back.
ServiceRunsOn ==
    /\ Goes("leave", "find")
    /\ UNCHANGED <<commandVars, journalVars, superviseVars>>

StopService ==
    /\ Goes("leave", "find")
    /\ Orderly
    /\ Stopped
    /\ UNCHANGED <<crashes, commandVars, journalVars>>

(* Removing one agent leaves the service running. *)
RemoveAgent ==
    /\ Goes("linked", "find")
    /\ by' = "remove"
    /\ copy' = services
    /\ UNCHANGED <<stopping, unfound, journalVars, superviseVars>>

(* release looks for the install (install::find).  Not found, nothing of   *)
(* it is stopped, uninstalled or restored, and the command goes on.        *)
NotFound ==
    /\ Goes("find", "clear")
    /\ unfound' = TRUE
    /\ UNCHANGED <<by, copy, stopping, journalVars, superviseVars>>

(* Found: the record of the starts is read, *)
Found ==
    /\ Goes("find", "stop")
    /\ stopping' = {<<p, file[p]>> : p \in {q \in Procs : file[q] # Absent}}
    /\ UNCHANGED <<by, copy, unfound, journalVars, superviseVars>>

(* supervise::release: each start recorded is stopped, *)
StopStarted ==
    /\ phase = "stop"
    /\ \E s \in stopping :
          /\ live' = [live EXCEPT ![s[1]] = @ \ {s[2]}]
          /\ stopping' = stopping \ {s}
    /\ UNCHANGED <<phase, by, copy, unfound, journalVars, service, serving,
                   byOwner, starts, file, services, worker, daemonVars, ends>>

(* the record removed, *)
ForgetAll ==
    /\ Goes("stop", "uninstall")
    /\ stopping = {}
    /\ file' = [p \in Procs |-> Absent]
    /\ UNCHANGED <<commandVars, journalVars, procVars, starts, services,
                   worker, daemonVars, ends>>

(* and each service the link installed uninstalled. *)
Uninstall ==
    /\ Goes("uninstall", "restore")
    /\ \E done \in SUBSET copy :
          /\ service' = [p \in Procs |-> IF p \in done THEN Absent ELSE service[p]]
          /\ serving' = serving \ done
    /\ copy' = {}
    /\ UNCHANGED <<by, stopping, unfound, journalVars, live, byOwner, starts, file,
                   services, worker, daemonVars, ends>>

(* The config restored: the models first, then the access; the owner gives *)
(* the command again when one fails.                                       *)
Restore ==
    /\ phase = "restore"
    /\ IF Applied("models") THEN Revert("models") ELSE Revert("proxy")
    /\ UNCHANGED <<phase, commandVars, superviseVars>>

AllRestored ==
    /\ Goes("restore", "clear")
    /\ Idle
    /\ \A k \in Kinds : ~Applied(k)
    /\ UNCHANGED <<commandVars, journalVars, superviseVars>>

(* The agent's directory is removed, and with it every record and the      *)
(* journal, whatever it still holds; the service restarts without the      *)
(* agent.                                                                  *)
Clear ==
    /\ Goes("clear", "done")
    /\ journal' = Empty
    /\ clean' = (clean /\ DOMAIN journal = {})
    /\ UNCHANGED <<config, writing, mine, nested, edits>>
    /\ file' = [p \in Procs |-> Absent]
    /\ services' = {}
    /\ daemon' = FALSE
    /\ worker' = [p \in Procs |-> NewWorker(Absent)]
    /\ copy' = {}
    /\ UNCHANGED <<by, stopping, unfound, procVars, starts, orphans, crashes,
                   ends>>

-----------------------------------------------------------------------------
Command ==
    \/ AttachApply \/ Attached
    \/ ModelsRead \/ ModelsChange \/ ModelsSave
    \/ Unlink \/ StopService \/ RemoveAgent \/ NotFound \/ Found
    \/ StopStarted \/ ForgetAll \/ Uninstall \/ Restore \/ AllRestored \/ Clear

(* The journal's second write, or what cuts it short. *)
SecondWrite == (Written \/ Cut) /\ UNCHANGED <<superviseVars, phase, commandVars>>

Owner ==
    /\ phase # "done"
    /\ \/ /\ \E at \in OwnerAt, v \in Values \cup {None} : OwnerEdits(at, v)
          /\ UNCHANGED superviseVars
       \/ /\ \E p \in Procs : OwnerRuns(p)
          /\ UNCHANGED journalVars
    /\ UNCHANGED <<phase, commandVars>>

(* The workers run as long as the service does; the service manager starts *)
(* it again while the agent is hosted.                                     *)
Daemon(A) == A /\ UNCHANGED <<journalVars, phase, commandVars>>
Started == Hosted /\ StartDaemon
Works(p) == Daemon(Step(p))

Service ==
    \/ Daemon(Started)
    \/ Daemon(Crash)
    \/ \E p \in Procs : Works(p) \/ Daemon(Ends(p))

InstallNext == Command \/ SecondWrite \/ Owner \/ Service

InstallSpec == InstallInit /\ [][InstallNext]_installVars

(* The link process is started again and its workers go on looking; a      *)
(* command and a call of the journal end.                                  *)
InstallFairness ==
    /\ WF_installVars(Daemon(Started))
    /\ \A p \in Procs : WF_installVars(Works(p))

FairInstallSpec == InstallSpec /\ InstallFairness

-----------------------------------------------------------------------------
(* Every variable holds values of its kind, and the journal's second write *)
(* is of the change its first one was of.                                  *)
InstallTypeOK ==
    /\ live \in [Procs -> SUBSET Nat]
    /\ starts \in [Procs -> Nat]
    /\ \A p \in Procs : live[p] \subseteq 1..starts[p]
    /\ service \in [Procs -> {Absent, "owner", "link"}]
    /\ serving \subseteq Serviced /\ byOwner \subseteq Procs
    /\ services \subseteq Serviced /\ copy \subseteq Serviced
    /\ \A p \in Procs : file[p] \in {Absent} \cup 1..starts[p]
    /\ \A p \in Procs : worker[p].own \in {Absent} \cup 1..starts[p]
    /\ Hosted => Applied("proxy")
    /\ daemon => phase # "done"

(* Once the owner has unlinked, and the install was found, no process the  *)
(* link started runs, but one whose start a kill, a failed write or another *)
(* worker's write kept from the record (supervise.rs: release; link.rs:    *)
(* release, unlink).                                                       *)
StartedIsStopped ==
    phase = "done" /\ by = "unlink" /\ ~unfound
        => \A p \in Procs : \A n \in live[p] : <<p, n>> \in orphans

(* What the install and the link keep of it is sound: the types, and what  *)
(* is left running.                                                        *)
InstallSound == JournalTypeOK /\ InstallTypeOK /\ StartedIsStopped

(* A process the link keeps up runs again after it ended (supervise.rs:    *)
(* Worker::step).                                                          *)
Keeps(p) == Hosted /\ (service[p] = Absent \/ p \in services)
KeptUp == \A p \in Procs : (Keeps(p) /\ ~Runs(p)) ~> (Runs(p) \/ ~Keeps(p))
=============================================================================
