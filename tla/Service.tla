------------------------------ MODULE Service ------------------------------
(***************************************************************************)
(* The bot's service and the commands that change its link (nebo-link's    *)
(* run.rs, link.rs, state.rs, credentials.rs and service.rs, and the host's*)
(* adding and removing of agents): link.json, which the commands, the      *)
(* host's keeper and the model switch each read, change and write back;    *)
(* the reloader, which brings the roster after the file; what CONNECT said *)
(* of the bot and the prober that has it said again; the token, which the  *)
(* hub replaces whenever it takes a connection; the service's stop, crash  *)
(* and restart; and the bot's unlinking, by its owner or because NeboAI    *)
(* removed it.                                                             *)
(*                                                                         *)
(* An action runs to the next await or the next use of a file.  A file is  *)
(* replaced whole.  NeboAI's hub, the service manager and the installs'    *)
(* configs (Journal) are what they are to this code.                       *)
(***************************************************************************)
EXTENDS Naturals, Sequences, FiniteSets, SequencesExt

CONSTANTS
    Coding,     \* ids of coding agents
    Installs,   \* ids of OpenClaw and Hermes installs
    First,      \* link.json as the run of the model begins
    Cmds,       \* commands, each given once
    Flaky,      \* the agents whose runtimes come and go
    Wanted,     \* what each command may be: a set of <<does, by>>
    Absent,
    MaxFaults   \* bound: crashes, failures, and agents that come and go

Agents == Coding \cup Installs

ASSUME ServiceAssumption ==
    /\ First \in Seq(Agents) /\ First # <<>> /\ IsInjective(First)
    /\ \A c \in Cmds : Wanted[c] \subseteq
           ({"add", "drop", "models"} \X {"host"})
           \cup ({"add", "drop", "open", "release", "models", "unlink"} \X {"cli"})
    /\ Absent \notin Agents \cup Seq(Agents)
    /\ Flaky \subseteq Agents /\ MaxFaults \in Nat

VARIABLES
    file,       \* the agents of link.json in order, Absent: no such file
    dirty,      \* link.json was written since the reloader last looked
    token,      \* in the token file and in memory: "good" is the hub's
    managed,    \* the service manager has the service
    removed,    \* NeboAI removed the bot
    at,         \* run's main task
    mem,        \* Service.link
    roster,     \* the members of the host
    up,         \* the agents whose runtimes answer
    said,       \* what the last CONNECT said, and Service.announced
    permit,     \* chat_changed's permit
    stop,       \* the service was asked to stop
    look,       \* the reloader
    probe,      \* the prober
    left,       \* unlinking because of a revocation: the installs to give back
    cmd,        \* the commands
    open,       \* the installs whose config holds the link's settings
    faults,     \* bound
    missed,     \* history: the roster waits for the link's next change: one came
                \* before the reloader ran, could not be read, or was first read
                \* by the host's keeper, which told the service of it as its own
    quiet,      \* history: the keeper changed the bot's runtime, unannounced
    dead,       \* history: the hub's token is not in the file, or an unlinking was cut short
    excused     \* history: installs an unlinking need not know of, or did not find

fileVars == <<file, dirty, token>>
memVars == <<mem, roster>>
hubVars == <<removed, said, permit>>
taskVars == <<look, probe, left>>
ghostVars == <<missed, quiet, dead, excused>>
serviceVars == <<fileVars, managed, hubVars, at, memVars, up, stop, taskVars,
                 cmd, open, faults, ghostVars>>

InstallsOf(link) == {a \in Installs : \E i \in DOMAIN link : link[i] = a}
AgentsOf(link) == {link[i] : i \in DOMAIN link}

\* Link::runtime: the first install's, else the first agent's.
Runtime(link) ==
    IF link = <<>> THEN Absent
    ELSE IF InstallsOf(link) = {} THEN link[1]
    ELSE link[CHOOSE i \in DOMAIN link :
                  link[i] \in Installs /\ \A j \in DOMAIN link : link[j] \in Installs => i <= j]

\* chat_ready: an agent of the roster answers.
Ready == roster \cap up # {}

Serving == at \notin {"down", "gone"}
Unlinking == at \in {"give back", "forget", "remove", "uninstall"}
NoLook == [at |-> "none", link |-> Absent, announce |-> FALSE, chat |-> FALSE]
NoProbe == [at |-> "none", chat |-> FALSE]
NoCmd == [at |-> "new", does |-> Absent, by |-> Absent, agent |-> Absent, copy |-> <<>>]

CanFault == faults < MaxFaults
Fault == CanFault /\ faults' = faults + 1

ServiceInit ==
    /\ file = First /\ dirty = FALSE
    /\ token = [file |-> "good", held |-> Absent]
    /\ managed = TRUE /\ removed = FALSE
    /\ at = "down" /\ mem = <<>> /\ roster = {} /\ up = Agents
    /\ said = [chat |-> FALSE, runtime |-> Absent]
    /\ permit = FALSE /\ stop = FALSE
    /\ look = NoLook /\ probe = NoProbe /\ left = {}
    /\ cmd = [c \in Cmds |-> NoCmd]
    /\ open = InstallsOf(First)
    /\ faults = 0
    /\ missed = FALSE /\ quiet = FALSE /\ dead = FALSE /\ excused = {}

-----------------------------------------------------------------------------
(* The process *)

\* run reads the link and the token and makes the host; without either it fails,
\* and the service manager starts it again.
Start ==
    /\ at = "down" /\ managed
    /\ file # Absent /\ token.file # Absent
    /\ at' = "probe"
    /\ mem' = file /\ roster' = AgentsOf(file) /\ dirty' = FALSE
    /\ token' = [token EXCEPT !.held = token.file]
    /\ look' = [NoLook EXCEPT !.at = "starts"] /\ probe' = [NoProbe EXCEPT !.at = "idle"]
    /\ missed' = FALSE /\ quiet' = FALSE
    /\ UNCHANGED <<file, managed, hubVars, up, stop, left, cmd, open, faults, dead, excused>>

Unfinished(c) == cmd[c].at \notin {"new", "done"}
InProcess(c) == cmd[c].by = "host" /\ Unfinished(c)

\* What the process held goes with it, its calls too.
Ends ==
    /\ at' = "down" /\ mem' = <<>> /\ roster' = {} /\ permit' = FALSE /\ stop' = FALSE
    /\ token' = [token EXCEPT !.held = Absent]
    /\ look' = NoLook /\ probe' = NoProbe /\ left' = {}
    /\ cmd' = [c \in Cmds |-> IF InProcess(c) THEN [NoCmd EXCEPT !.at = "done"] ELSE cmd[c]]
    /\ UNCHANGED <<file, dirty, managed, removed, up, said, open>>

Crash ==
    /\ Serving /\ Fault
    /\ Ends
    /\ dead' = (dead \/ at \in {"rotated", "remove", "uninstall"})
    /\ UNCHANGED <<missed, quiet, excused>>

\* Asked to stop, or a newer release is staged: taken while the service waits.
TakeStop ==
    /\ at \in {"on", "wait"} /\ stop
    /\ at' = "stopping" /\ stop' = FALSE
    /\ UNCHANGED <<fileVars, managed, hubVars, memVars, up, taskVars, cmd, open, faults, ghostVars>>

Stopped ==
    /\ at = "stopping"
    /\ Ends
    /\ UNCHANGED <<faults, ghostVars>>

-----------------------------------------------------------------------------
(* The connection to the hub *)

Goes(from, to) == at = from /\ at' = to

ReadReady ==
    /\ Goes("probe", "announce")
    /\ said' = [said EXCEPT !.chat = Ready]
    /\ UNCHANGED <<fileVars, managed, removed, memVars, up, permit, stop, taskVars, cmd, open, faults, ghostVars>>

\* Mutant: the config is built once, as the service starts.
FirstConfig(link) == Runtime(First)
ConnectConfig(link) == Runtime(link)

Announce ==
    /\ Goes("announce", "dial")
    /\ said' = [said EXCEPT !.runtime = ConnectConfig(mem)]
    /\ quiet' = FALSE
    /\ UNCHANGED <<fileVars, managed, removed, memVars, up, permit, stop, taskVars, cmd, open, faults,
                   missed, dead, excused>>

\* The hub takes the connection and replaces the token: the old one is dead.
Connected ==
    /\ Goes("dial", "rotated")
    /\ ~removed /\ token.held = "good"
    /\ token' = [file |-> IF token.file = Absent THEN Absent ELSE "dead", held |-> "dead"]
    /\ UNCHANGED <<file, dirty, managed, hubVars, memVars, up, stop, taskVars, cmd, open, faults, ghostVars>>

\* Mutant: the token is handed out and not saved.
HeldOnly == "dead"
TokenSaved == "good"

SaveToken ==
    /\ Goes("rotated", "on")
    /\ \/ /\ token' = [file |-> TokenSaved, held |-> "good"] /\ dead' = FALSE
          /\ UNCHANGED faults
       \/ /\ token' = [token EXCEPT !.held = "good"] /\ dead' = TRUE
          /\ Fault
    /\ UNCHANGED <<file, dirty, managed, hubVars, memVars, up, stop, taskVars, cmd, open,
                   missed, quiet, excused>>

NotConnected ==
    /\ Goes("dial", "wait")
    /\ \/ token.held # "good" /\ ~removed /\ UNCHANGED faults
       \/ Fault
    /\ UNCHANGED <<fileVars, managed, hubVars, memVars, up, stop, taskVars, cmd, open, ghostVars>>

Dropped ==
    /\ Goes("on", "wait") /\ Fault
    /\ UNCHANGED <<fileVars, managed, hubVars, memVars, up, stop, taskVars, cmd, open, ghostVars>>

\* chat_changed: reconnect, to announce the bot as it is now.
Reconnect ==
    /\ Goes("on", "wait") /\ permit
    /\ permit' = FALSE
    /\ UNCHANGED <<fileVars, managed, removed, said, memVars, up, stop, taskVars, cmd, open, faults, ghostVars>>

Again ==
    /\ Goes("wait", "probe")
    /\ UNCHANGED <<fileVars, managed, hubVars, memVars, up, stop, taskVars, cmd, open, faults, ghostVars>>

\* An agent's runtime stops or starts answering.
Flip(a) ==
    /\ Fault
    /\ up' = IF a \in up THEN up \ {a} ELSE up \cup {a}
    /\ UNCHANGED <<fileVars, managed, hubVars, at, memVars, stop, taskVars, cmd, open, ghostVars>>

-----------------------------------------------------------------------------
(* The reloader and the prober *)

\* The reloader takes the file's time as it first runs, whatever run has read.
FirstLook ==
    /\ look.at = "starts"
    /\ look' = [look EXCEPT !.at = "idle"]
    /\ dirty' = FALSE
    /\ missed' = (missed \/ dirty)
    /\ UNCHANGED <<file, token, managed, hubVars, at, memVars, up, stop, probe, left, cmd, open, faults,
                   quiet, dead, excused>>

\* The file's time is another: the link is read, or cannot be.
Look ==
    /\ look.at = "idle" /\ dirty
    /\ dirty' = FALSE
    /\ \/ /\ file # Absent
          /\ look' = [look EXCEPT !.at = "read", !.link = file]
          /\ UNCHANGED <<missed, faults>>
       \/ /\ file = Absent \/ CanFault
          /\ look' = [look EXCEPT !.at = "ready", !.announce = FALSE]
          /\ missed' = TRUE
          /\ faults' = IF file = Absent THEN faults ELSE faults + 1
    /\ UNCHANGED <<file, token, managed, hubVars, at, memVars, up, stop, probe, left, cmd, open,
                   quiet, dead, excused>>

\* Mutant: agents removed stay with the host.
Kept(link) == roster \cup (AgentsOf(link) \cap Coding)
\* link::reconcile: an install that was not there waits for the restart.
Reconcile(link) == AgentsOf(link) \cap (Coding \cup roster)

AnnounceChanged(before, link) == Runtime(link) # Runtime(before)

Reload ==
    /\ look.at = "read"
    /\ look' = [look EXCEPT !.at = "ready", !.link = Absent,
                            !.announce = look.link # mem /\ AnnounceChanged(mem, look.link)]
    /\ mem' = look.link
    /\ roster' = IF look.link = mem THEN roster ELSE Reconcile(look.link)
    /\ missed' = (missed /\ look.link = mem)
    /\ UNCHANGED <<fileVars, managed, hubVars, at, up, stop, probe, left, cmd, open, faults,
                   quiet, dead, excused>>

LookReady ==
    /\ look.at = "ready"
    /\ look' = [look EXCEPT !.at = "compare", !.chat = Ready]
    /\ UNCHANGED <<fileVars, managed, hubVars, at, memVars, up, stop, probe, left, cmd, open, faults, ghostVars>>

LookCompare ==
    /\ look.at = "compare"
    /\ look' = [NoLook EXCEPT !.at = "idle"]
    /\ permit' = (permit \/ look.announce \/ look.chat # said.chat)
    /\ UNCHANGED <<fileVars, managed, removed, said, at, memVars, up, stop, probe, left, cmd, open, faults, ghostVars>>

ProbeReady ==
    /\ probe.at = "idle"
    /\ Ready # said.chat
    /\ probe' = [at |-> "compare", chat |-> Ready]
    /\ UNCHANGED <<fileVars, managed, hubVars, at, memVars, up, stop, look, left, cmd, open, faults, ghostVars>>

ProbeCompare ==
    /\ probe.at = "compare"
    /\ probe' = [NoProbe EXCEPT !.at = "idle"]
    /\ permit' = (permit \/ probe.chat # said.chat)
    /\ UNCHANGED <<fileVars, managed, removed, said, at, memVars, up, stop, look, left, cmd, open, faults, ghostVars>>

-----------------------------------------------------------------------------
(* Commands: one of the owner's on the computer (by "cli"), a process of its *)
(* own, or a call the service takes (by "host").                             *)

Alone(does) == \A c \in Cmds : InProcess(c) => (cmd[c].does = "models") # (does = "models")

Done(c) == cmd' = [cmd EXCEPT ![c] = [NoCmd EXCEPT !.at = "done"]]

\* The bot's last agent stays; an agent is added once; models are for installs.
Rejects(does, a) ==
    \/ file = Absent
    \/ does \in {"add", "open"} /\ a \in AgentsOf(file)
    \/ does \in {"drop", "release"} /\ (a \notin AgentsOf(file) \/ Len(file) = 1)
    \/ does = "models" /\ InstallsOf(file) = {}

\* Installs a command under way may open after an unlinking has read the link.
Opening(c) ==
    IF ~Unfinished(c) THEN {}
    ELSE IF cmd[c].does = "open" THEN {cmd[c].agent}
    ELSE IF cmd[c].does = "models" THEN InstallsOf(cmd[c].copy) ELSE {}
OpeningAny == UNION {Opening(c) : c \in Cmds}

Unlinks == Unlinking \/ \E c \in Cmds : cmd[c].does = "unlink" /\ cmd[c].at \in {"config", "forget"}

Load(c, does, by, a) ==
    /\ cmd[c].at = "new" /\ <<does, by>> \in Wanted[c]
    /\ CASE does \in {"add", "drop"} -> a \in Coding
         [] does \in {"open", "release"} -> a \in Installs
         [] OTHER -> a = Absent
    /\ by = "host" => Serving /\ at # "stopping" /\ ~Unlinking /\ Alone(does)
    /\ ~Rejects(does, a)
    /\ cmd' = [cmd EXCEPT ![c] =
           [at |-> IF does \in {"release", "unlink", "models"} THEN "config" ELSE "save",
            does |-> does, by |-> by, agent |-> a, copy |-> file]]
    /\ managed' = (managed /\ does # "unlink")
    /\ stop' = (stop \/ (does = "unlink" /\ Serving))
    /\ excused' = excused \cup
           (CASE does = "unlink" -> OpeningAny
              [] does = "open" /\ Unlinks -> {a}
              [] does = "models" /\ Unlinks -> InstallsOf(file)
              [] OTHER -> {})
    /\ UNCHANGED <<fileVars, hubVars, at, memVars, up, taskVars, open, faults, missed, quiet, dead>>

\* The installs given back: restored, or not found any more and left as they are,
\* which the command reports and goes on.
GivesBack(installs, unfound) ==
    /\ unfound \subseteq installs
    /\ open' = open \ (installs \ unfound)

\* An install's config given back or changed further, before the link is written;
\* one given back since the link was read may so keep the link's settings, and one
\* that another command is yet to open.
Config(c) == \E unfound \in SUBSET open :
    LET k == cmd[c]
    IN  /\ k.at = "config"
        /\ \/ /\ k.does = "release"
              /\ GivesBack({k.agent}, unfound)
              /\ cmd' = [cmd EXCEPT ![c].at = "save"]
           \/ /\ k.does = "models" /\ unfound = {}
              /\ open' = open \cup InstallsOf(k.copy)
              /\ cmd' = [cmd EXCEPT ![c].at = "save"]
           \/ /\ k.does = "unlink" /\ at = "down"
              /\ GivesBack(InstallsOf(k.copy), unfound)
              /\ cmd' = [cmd EXCEPT ![c].at = "forget"]
        /\ excused' = excused \cup unfound \cup
               (CASE k.does = "models" -> InstallsOf(k.copy) \ open
                  [] k.does = "release" -> {k.agent} \cap OpeningAny
                  [] OTHER -> {})
        /\ UNCHANGED <<fileVars, managed, hubVars, at, memVars, up, stop, taskVars, faults, missed, quiet, dead>>

Edited(k) ==
    CASE k.does \in {"add", "open"} -> Append(k.copy, k.agent)
      [] k.does \in {"drop", "release"} ->
             RemoveAt(k.copy, CHOOSE i \in DOMAIN k.copy : k.copy[i] = k.agent)
      [] OTHER -> k.copy

\* The host's own change, which its keeper tells the service and its roster takes.
HostTakes(k) ==
    /\ mem' = Edited(k)
    /\ roster' = IF k.does = "add" THEN roster \cup {k.agent} ELSE roster \ {k.agent}
    /\ missed' = (missed \/ k.copy # mem)
    /\ quiet' = (quiet \/ Runtime(Edited(k)) # Runtime(mem))

\* The link is written: what others changed since the copy was read is undone.
Save(c) ==
    LET k == cmd[c]
    IN  /\ k.at = "save"
        /\ file' = Edited(k) /\ dirty' = TRUE
        /\ IF k.does = "open" THEN cmd' = [cmd EXCEPT ![c].at = "open"]
           ELSE IF k.does = "release" THEN cmd' = [cmd EXCEPT ![c].at = "restart"]
           ELSE Done(c)
        /\ IF k.by = "host" /\ k.does # "models" THEN HostTakes(k)
           ELSE UNCHANGED <<memVars, missed, quiet>>
        /\ excused' = excused \cup (IF file = Absent THEN open
                                    ELSE (InstallsOf(file) \ InstallsOf(Edited(k)))
                                         \cap (open \cup OpeningAny))
        /\ UNCHANGED <<token, managed, hubVars, at, up, stop, taskVars, open, faults, dead>>

OpenInstall(c) ==
    /\ cmd[c].at = "open"
    /\ open' = open \cup {cmd[c].agent}
    /\ cmd' = [cmd EXCEPT ![c].at = "restart"]
    /\ UNCHANGED <<fileVars, managed, hubVars, at, memVars, up, stop, taskVars, faults, ghostVars>>

\* service::restart comes back once the running service has stopped.
Restart(c) ==
    /\ \/ /\ cmd[c].at = "restart"
          /\ stop' = (stop \/ (managed /\ Serving))
          /\ cmd' = [cmd EXCEPT ![c].at = "restarting"]
       \/ /\ cmd[c].at = "restarting" /\ ~stop /\ at # "stopping"
          /\ Done(c)
          /\ UNCHANGED stop
    /\ UNCHANGED <<fileVars, managed, hubVars, at, memVars, up, taskVars, open, faults, ghostVars>>

\* unlink: the token, then everything the bot had.
ForgetAll(c) ==
    /\ cmd[c].at = "forget"
    /\ token' = [token EXCEPT !.file = Absent]
    /\ file' = Absent
    /\ Done(c)
    /\ UNCHANGED <<dirty, managed, hubVars, at, memVars, up, stop, taskVars, open, faults, ghostVars>>

\* The owner ends a command, or it fails.
Killed(c) ==
    /\ Unfinished(c) /\ cmd[c].by = "cli" /\ Fault
    /\ Done(c)
    /\ excused' = excused \cup Opening(c)
    /\ dead' = (dead \/ cmd[c].does = "unlink")
    /\ UNCHANGED <<fileVars, managed, hubVars, at, memVars, up, stop, taskVars, open, missed, quiet>>

-----------------------------------------------------------------------------
(* NeboAI removes the bot *)

HubRemoves ==
    /\ ~removed
    /\ removed' = TRUE
    /\ UNCHANGED <<fileVars, managed, said, permit, at, memVars, up, stop, taskVars, cmd, open, faults, ghostVars>>

\* The hub says so as it is dialed, or as it closes the tunnel.
Revoked ==
    /\ removed
    /\ \/ Goes("dial", "revoked")
       \/ Goes("on", "revoked")
    /\ UNCHANGED <<fileVars, managed, hubVars, memVars, up, stop, taskVars, cmd, open, faults, ghostVars>>

\* Mutant: only the bot's first agent is given back.
FirstAgent == InstallsOf(<<mem[1]>>)
ToGiveBack == InstallsOf(mem)

GiveBackBegin ==
    /\ Goes("revoked", "give back")
    /\ left' = ToGiveBack
    /\ excused' = excused \cup OpeningAny
    /\ UNCHANGED <<fileVars, managed, hubVars, memVars, up, stop, look, probe, cmd, open, faults,
                   missed, quiet, dead>>

GiveBack(i) ==
    /\ at = "give back" /\ i \in left
    /\ left' = left \ {i}
    /\ \E unfound \in SUBSET open :
          GivesBack({i}, unfound) /\ excused' = excused \cup unfound
    /\ UNCHANGED <<fileVars, managed, hubVars, at, memVars, up, stop, look, probe, cmd, faults,
                   missed, quiet, dead>>

ForgetToken ==
    /\ Goes("give back", "remove") /\ left = {}
    /\ token' = [token EXCEPT !.file = Absent]
    /\ UNCHANGED <<file, dirty, managed, hubVars, memVars, up, stop, taskVars, cmd, open, faults, ghostVars>>

RemoveDir ==
    /\ Goes("remove", "uninstall")
    /\ file' = Absent /\ dirty' = TRUE
    /\ UNCHANGED <<token, managed, hubVars, memVars, up, stop, taskVars, cmd, open, faults, ghostVars>>

Uninstall ==
    /\ at = "uninstall"
    /\ managed' = FALSE
    /\ at' = "down" /\ mem' = <<>> /\ roster' = {} /\ permit' = FALSE /\ stop' = FALSE
    /\ token' = [token EXCEPT !.held = Absent]
    /\ look' = NoLook /\ probe' = NoProbe /\ left' = {}
    /\ cmd' = [c \in Cmds |-> IF InProcess(c) THEN [NoCmd EXCEPT !.at = "done"] ELSE cmd[c]]
    /\ UNCHANGED <<file, dirty, removed, up, said, open, faults, ghostVars>>

-----------------------------------------------------------------------------
MainStep ==
    \/ TakeStop \/ Stopped
    \/ ReadReady \/ Announce \/ Connected \/ SaveToken \/ NotConnected \/ Reconnect \/ Again
    \/ Revoked \/ GiveBackBegin \/ ForgetToken \/ RemoveDir \/ Uninstall
    \/ \E i \in Installs : GiveBack(i)
LookStep == FirstLook \/ Look \/ Reload \/ LookReady \/ LookCompare
ProbeStep == ProbeReady \/ ProbeCompare
CmdStep(c) == Config(c) \/ Save(c) \/ OpenInstall(c) \/ Restart(c) \/ ForgetAll(c)

ServiceNext ==
    \/ Start \/ Crash \/ Dropped \/ HubRemoves
    \/ MainStep \/ LookStep \/ ProbeStep
    \/ \E a \in Flaky : Flip(a)
    \/ \E c \in Cmds :
        \/ CmdStep(c) \/ Killed(c)
        \/ \E w \in Wanted[c], a \in Agents \cup {Absent} : Load(c, w[1], w[2], a)

ServiceSpec == ServiceInit /\ [][ServiceNext]_serviceVars

\* The service manager starts the service; its tasks and the commands go on.
FairServiceSpec ==
    /\ ServiceSpec
    /\ WF_serviceVars(Start)
    /\ WF_serviceVars(MainStep)
    /\ WF_serviceVars(LookStep)
    /\ WF_serviceVars(ProbeStep)
    /\ \A c \in Cmds : WF_serviceVars(CmdStep(c))

-----------------------------------------------------------------------------
\* The types; a link lists an agent once, and what the host runs while the main
\* task waits on the hub comes from a link.
ServiceTypeOK ==
    /\ file # Absent => file \in Seq(Agents) /\ IsInjective(file)
    /\ mem \in Seq(Agents) /\ IsInjective(mem)
    /\ token.file \in {"good", "dead", Absent} /\ token.held \in {"good", "dead", Absent}
    /\ at \in {"down", "probe", "announce", "dial", "rotated", "on", "wait", "stopping", "revoked",
               "give back", "remove", "uninstall"}
    /\ roster \cup up \subseteq Agents
    /\ left \cup open \cup excused \subseteq Installs
    /\ said.chat \in BOOLEAN /\ said.runtime \in Agents \cup {Absent}
    /\ {dirty, managed, removed, permit, stop, missed, quiet, dead} \subseteq BOOLEAN
    /\ faults \in 0..MaxFaults

\* "Gives back every install it hosted" (link.rs:838): when the bot's link is gone
\* no install's config holds the link's settings, whoever unlinked it and whatever
\* ended the service in between; an install that was not found when it was given
\* back (link.rs:806), whose command was under way, or that another command's write
\* had dropped from the link, may be left.
GivenBackAll == file = Absent => open \subseteq excused

\* What the service and the commands keep is sound: the types, and what an
\* unlinking left.
ServiceSound == ServiceTypeOK /\ GivenBackAll

\* "Coding agents added join the roster and those removed leave it" (run.rs:147):
\* in the end the host has the link's coding agents and no others, whoever changed
\* the link and whatever ran at once; a change the reloader could not see stays out.
RosterFollows ==
    <>[](Serving /\ ~missed /\ file # Absent
         => /\ roster \subseteq AgentsOf(file)
            /\ AgentsOf(file) \cap Coding \subseteq roster)

\* "So the hub learns it without an unlink" (run.rs:377): while it is connected the
\* hub knows, in the end, whether an agent answers, and which runtime the bot is.
AnnouncedInTheEnd ==
    <>[](at = "on" /\ ~missed /\ ~quiet /\ ~removed
         => said = [chat |-> Ready, runtime |-> Runtime(file)])

\* In the end the bot is connected, or unlinked and its service removed, across
\* stops, crashes and restarts: no rotation of its token shuts it out, and none of
\* its restarts leaves it down.  A token lost with the process that had not saved
\* it, or an unlinking cut short after it dropped the token, ends otherwise.
SettlesInTheEnd ==
    \/ <>[](at = "on" /\ ~removed)
    \/ <>[](at = "down" /\ ~managed)
    \/ <>[]dead
=============================================================================
