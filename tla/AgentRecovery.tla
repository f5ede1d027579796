--------------------------- MODULE AgentRecovery ---------------------------
(***************************************************************************)
(* One node agent, the runtime processes it starts, and what becomes of    *)
(* them when the agent crashes and starts again (node_agent/agent.py,      *)
(* node_agent/recovery.py, process/supervisor.py).                         *)
(*                                                                         *)
(* The processes and the journals outlive the agent; its registry, its     *)
(* supervisor's handles, its launch tokens and its resource ledger do not. *)
(* A start of the agent reads the journals one by one and adopts the       *)
(* process, removes the journal or records an orphan; it then scans the    *)
(* processes for runtimes nobody accounts for, and cleans up the orphans   *)
(* whose identity it could verify.  Pids are reused: a process is known    *)
(* by its pid and its birth (the start identity that ps reports).          *)
(*                                                                         *)
(* Each action of a handler is what happens between two points where the   *)
(* handler waits, so that exits, other handlers and crashes fall between.  *)
(* The phases of a launch on several nodes are those of InstanceLaunch;    *)
(* here a launch is what it does to this node's ledger, process and        *)
(* journal.  A crash of the agent is its process's death, not the host's.  *)
(***************************************************************************)
EXTENDS ResourceLedger

CONSTANTS Pids,
          Workers,       \* the instances of which this node runs a rank, not the coordinator
          Video,         \* MiniMax H3: recovery policy "cleanup", unknown to the orphan scan
          Foreign,       \* the owner of a process that is none of the agent's
          Size, Floor,   \* memory of an instance and the floor of its breakdown
          Headroom,      \* memory_headroom_ratio of an instance
          Observations,  \* the footprints a runtime may report
          MaxBirths, MaxCrashes,   \* bounds of the model
          StopAllOverlapsLaunch   \* may a stop-all meet a launch in flight?

Record == [inst : Instances, pid : Pids, born : 1..MaxBirths, port : Ports]
Process == [owner : Instances \cup {Foreign}, born : 1..MaxBirths,
            port : Ports \cup {None}, told : {"no", "asked", "signalled"}]
Handle == [pid : Pids, born : 1..MaxBirths]

ASSUME RecoveryAssumption ==
  /\ Workers \subseteq Instances /\ Video \subseteq Instances
  /\ Foreign \notin Instances
  /\ None \notin Pids /\ None \notin Record /\ None \notin Process /\ None \notin Handle
  /\ Size \in [Instances -> Amounts] /\ Floor \in [Instances -> Nat]
  /\ Headroom \in [Instances -> Headrooms]
  /\ \A i \in Instances, o \in Observations : Recommended(o, Floor[i]) \in Amounts
  /\ MaxBirths \in Nat /\ MaxCrashes \in Nat
  /\ StopAllOverlapsLaunch \in BOOLEAN

VARIABLES
  procs,       \* the process table: owner, birth, the port it listens on, how it was told to stop
  births,      \* how many processes were started so far
  journal,     \* InstanceStateStore: the record of an instance
  phase,       \* of the agent: "down", "recover", "cleanup" (its watchdog runs) or "up"
  crashes,
  registry,    \* the state of an instance, reduced to what recovery tells apart
  handle,      \* the supervisor's process of an instance
  roles,       \* the instances whose role is known (instance_roles)
  port,        \* http_port of an instance
  current,     \* the instances whose launch token is current
  launch,      \* control point of the launch handler of an instance
  stopping,    \* control point of the stop handler of an instance
  ending,      \* stop_everything: its control point, the instances it has still to release
  todo,        \* journal records that startup has still to assess
  adopting,    \* the record whose adoption is in progress
  adopted,     \* pids that this start of the agent adopted
  orphans,     \* startup_orphans: the audit
  fenced,      \* startup_orphan_records: the record of a verified orphan
  queue,       \* pids that startup has still to clean up
  cleaning     \* the clean-up in progress

osVars == <<procs, births, journal>>
launchVars == <<registry, handle, roles, port, current, launch, stopping>>
startVars == <<todo, adopting, adopted, orphans, fenced, queue, cleaning>>
vars == <<ledgerVars, osVars, phase, crashes, launchVars, ending, startVars>>

RecoveryTypeOK ==
  /\ procs \in [Pids -> Process \cup {None}]
  /\ births \in 0..MaxBirths
  /\ journal \in [Instances -> Record \cup {None}]
  /\ phase \in {"down", "recover", "cleanup", "up"}
  /\ crashes \in 0..MaxCrashes
  /\ registry \in [Instances -> {"absent", "active", "failed", "unloading", "stopped"}]
  /\ handle \in [Instances -> Handle \cup {None}]
  /\ roles \subseteq Instances /\ current \subseteq Instances
  /\ port \in [Instances -> Ports \cup {None}]
  /\ launch \in [Instances -> {"no", "allocated", "reserved", "spawned", "journaled"}]
  /\ stopping \in [Instances -> {"no", "asked"}]
  /\ ending \in [step : {"no", "asked", "release"}, left : SUBSET Instances]
  /\ todo \subseteq Instances
  /\ adopting \in [rec : Record, reserved : BOOLEAN] \cup {None}
  /\ adopted \subseteq Pids /\ queue \subseteq Pids
  /\ orphans \subseteq [pid : Pids, state : {"orphaned", "cleaned"}, safe : BOOLEAN]
  /\ fenced \in [Pids -> Record \cup {None}]
  /\ cleaning \in [rec : Record, step : {"post", "signal", "check"}] \cup {None}

-----------------------------------------------------------------------------
(* Processes.                                                              *)

(* Broken variant: the start identity is not compared.                     *)
MatchesByPid(r) == procs[r.pid] # None

\* orphan_process_identity_matches, and the fence of an adopted handle: the
\* pid, the start identity and the model in the command line.
Matches(r) ==
  /\ procs[r.pid] # None
  /\ procs[r.pid].born = r.born
  /\ procs[r.pid].owner = r.inst

\* poll() of the supervisor's process is None.
Running(i) ==
  /\ handle[i] # None
  /\ procs[handle[i].pid] # None
  /\ procs[handle[i].pid].born = handle[i].born

Manages(i, p) == Running(i) /\ handle[i].pid = p
Managed(p) == \E i \in Instances : Manages(i, p)

Listener(p, prt) == procs[p] # None /\ procs[p].port = prt
PortFree(prt) == \A p \in Pids : ~Listener(p, prt)

Asked(x) == IF x.told = "no" THEN [x EXCEPT !.told = "asked"] ELSE x

\* SIGTERM to the process group, a wait, and SIGKILL if it is still there;
\* even then the exit may take its time.
Signal(p) == procs' = [procs EXCEPT ![p].told = "signalled"]
SignalManaged(i) == IF Running(i) THEN Signal(handle[i].pid) ELSE UNCHANGED procs

\* POST /v1/tokenity/stop to a local port reaches whoever listens there.
PostStop(prt) ==
  procs' = [p \in Pids |-> IF Listener(p, prt) /\ procs[p].owner # Foreign
                           THEN Asked(procs[p]) ELSE procs[p]]

MemoryInUse ==
  MapThenSumSet(LAMBDA p : IF procs[p] = None \/ procs[p].owner = Foreign THEN 0
                           ELSE Size[procs[p].owner], Pids)

\* system_available_memory_bytes: None on a host that observes nothing.
Observed(i) == {None, LiveAvailable(MemoryInUse, Headroom[i])}

OwnPorts(i, prt) == IF i \in Workers THEN {} ELSE {prt}
(* Broken variant: the journal does not say which port was allocated.      *)
RecordOfLegacy(i) == [inst |-> i, pid |-> handle[i].pid, born |-> handle[i].born, port |-> None]

RecordOf(i) == [inst |-> i, pid |-> handle[i].pid, born |-> handle[i].born, port |-> port[i]]

NotEnding == [step |-> "no", left |-> {}]

Init ==
  /\ LedgerInit
  /\ procs = [p \in Pids |-> None] /\ births = 0
  /\ journal = [i \in Instances |-> None]
  /\ phase = "up" /\ crashes = 0
  /\ registry = [i \in Instances |-> "absent"]
  /\ handle = [i \in Instances |-> None]
  /\ roles = {} /\ current = {}
  /\ port = [i \in Instances |-> None]
  /\ launch = [i \in Instances |-> "no"]
  /\ stopping = [i \in Instances |-> "no"]
  /\ ending = NotEnding
  /\ todo = {} /\ adopting = None /\ adopted = {} /\ orphans = {}
  /\ fenced = [p \in Pids |-> None]
  /\ queue = {} /\ cleaning = None

-----------------------------------------------------------------------------
(* The host: a process may exit at any time, whether or not it was told    *)
(* to; somebody else's process may get a pid that became free.             *)

Exit(p) ==
  /\ procs[p] # None
  /\ procs' = [procs EXCEPT ![p] = None]
  /\ UNCHANGED <<ledgerVars, births, journal, phase, crashes, launchVars, ending, startVars>>

Spawn(p, owner, prt) ==
  /\ procs[p] = None /\ births < MaxBirths
  /\ births' = births + 1
  /\ procs' = [procs EXCEPT ![p] = [owner |-> owner, born |-> births', port |-> prt, told |-> "no"]]

ForeignStart(p) ==
  /\ Spawn(p, Foreign, None)
  /\ UNCHANGED <<ledgerVars, journal, phase, crashes, launchVars, ending, startVars>>

Time ==
  /\ \E prt \in Ports : quarantine[prt] # None
  /\ Tick
  /\ UNCHANGED <<osVars, phase, crashes, launchVars, ending, startVars>>

-----------------------------------------------------------------------------
(* A launch.                                                               *)

NoOverlap == StopAllOverlapsLaunch \/ ending = NotEnding

\* A port is chosen from a snapshot of the ledger and a probe of the socket.
Allocatable(prt) == portOwner[prt] = None /\ quarantine[prt] = None /\ PortFree(prt)

\* A rank is given the coordinator's port, which is not reserved here.
LaunchAllocate(i) ==
  /\ phase = "up" /\ registry[i] = "absent" /\ launch[i] = "no" /\ NoOverlap
  /\ births < MaxBirths
  /\ \E prt \in Ports :
       /\ i \in Workers \/ Allocatable(prt)
       /\ port' = [port EXCEPT ![i] = prt]
  /\ launch' = [launch EXCEPT ![i] = "allocated"]
  /\ UNCHANGED <<ledgerVars, osVars, phase, crashes, registry, handle, roles, current, stopping, ending, startVars>>

LaunchReserve(i) ==
  /\ launch[i] = "allocated" /\ NoOverlap
  /\ \E sys \in Observed(i) :
       \/ /\ Reserve(i, Size[i], OwnPorts(i, port[i]), sys, Headroom[i])
          /\ registry' = [registry EXCEPT ![i] = "active"]
          /\ roles' = roles \cup {i} /\ current' = current \cup {i}
          /\ launch' = [launch EXCEPT ![i] = "reserved"]
       \/ /\ ReserveRefused(i, Size[i], OwnPorts(i, port[i]), sys, Headroom[i])
          /\ launch' = [launch EXCEPT ![i] = "no"]
          /\ UNCHANGED <<registry, roles, current>>
  /\ UNCHANGED <<osVars, phase, crashes, handle, port, stopping, ending, startVars>>

\* The transition out of LAUNCHING, just before the spawn, raises unless the
\* stop that left the state comes after it.
LaunchRaises(i) ==
  /\ launch[i] = "reserved" /\ registry[i] # "active"
  /\ launch' = [launch EXCEPT ![i] = "no"]
  /\ UNCHANGED <<ledgerVars, osVars, phase, crashes, registry, handle, roles, port, current,
                 stopping, ending, startVars>>

LaunchSpawn(i) ==
  /\ launch[i] = "reserved"
  /\ \E p \in Pids :
       /\ Spawn(p, i, IF i \in Workers THEN None ELSE port[i])
       /\ handle' = [handle EXCEPT ![i] = [pid |-> p, born |-> births']]
  /\ launch' = [launch EXCEPT ![i] = "spawned"]
  /\ UNCHANGED <<ledgerVars, journal, phase, crashes, registry, roles, port, current,
                 stopping, ending, startVars>>

\* persist_instance_state writes nothing when ps shows no process; one that
\* exited and was not polled since still shows as a zombie.
Persist(i) ==
  \/ journal' = [journal EXCEPT ![i] = RecordOf(i)]
  \/ ~Running(i) /\ UNCHANGED journal

LaunchPersist(i) ==
  /\ launch[i] = "spawned"
  /\ Persist(i)
  /\ launch' = [launch EXCEPT ![i] = "journaled"]
  /\ UNCHANGED <<ledgerVars, procs, births, phase, crashes, registry, handle, roles, port,
                 current, stopping, ending, startVars>>

(* Broken variant: that the launch was cancelled is not noticed.           *)
LaunchFinishUnchecked(i) ==
  /\ launch[i] = "journaled"
  /\ IF i \in Workers THEN UNCHANGED journal ELSE Persist(i)
  /\ launch' = [launch EXCEPT ![i] = "no"]
  /\ UNCHANGED <<ledgerVars, procs, births, phase, crashes, registry, handle, roles, port,
                 current, stopping, ending, startVars>>

\* The handler answers; a coordinator writes its journal again, with its workers.
LaunchFinish(i) ==
  /\ launch[i] = "journaled" /\ i \in current
  /\ IF i \in Workers THEN UNCHANGED journal ELSE Persist(i)
  /\ launch' = [launch EXCEPT ![i] = "no"]
  /\ UNCHANGED <<ledgerVars, procs, births, phase, crashes, registry, handle, roles, port,
                 current, stopping, ending, startVars>>

\* The launch was cancelled or a rank did not come up: supervisor_stop, and
\* everything the launch did is undone.
LaunchAbort(i) ==
  /\ launch[i] = "journaled" \/ (launch[i] = "spawned" /\ i \in Workers)
  /\ SignalManaged(i)
  /\ Release(i)
  /\ journal' = [journal EXCEPT ![i] = None]
  /\ \/ registry' = [registry EXCEPT ![i] = IF @ \in {"active", "unloading"}
                                            THEN "failed" ELSE @]
     \/ i \notin current \cup Workers /\ UNCHANGED registry
  /\ launch' = [launch EXCEPT ![i] = "no"]
  /\ UNCHANGED <<births, phase, crashes, handle, roles, port, current, stopping, ending, startVars>>

-----------------------------------------------------------------------------
(* A running instance: polls and memory observations.                      *)

\* get_instance finds that the process of a known role is gone.
Poll(i) ==
  /\ phase \in {"cleanup", "up"} /\ i \in roles /\ ~Running(i)
  /\ registry[i] = "active"
  /\ registry' = [registry EXCEPT ![i] = "failed"]
  /\ UNCHANGED <<ledgerVars, osVars, phase, crashes, handle, roles, port, current, launch,
                 stopping, ending, startVars>>

\* reconcile_instance_memory, called by every poll.
Measure(i) ==
  /\ phase \in {"cleanup", "up"} /\ Running(i)
  /\ \E o \in Observations, sys \in Observed(i) : Reconcile(i, o, Floor[i], sys, Headroom[i])
  /\ UNCHANGED <<osVars, phase, crashes, launchVars, ending, startVars>>

-----------------------------------------------------------------------------
(* stop_instance.  The first transition is refused while a request is      *)
(* active ("active" is every state from LAUNCHING to BUSY); the launch is  *)
(* cancelled all the same.  A stop of an instance    *)
(* that is already stopped is not refused.  The agent's watchdog stops an  *)
(* instance whose lease expired, from the end of recovery on.              *)

MayStop(i) == \/ phase = "up" /\ registry[i] # "absent"
              \/ phase = "cleanup" /\ registry[i] = "active"

StopRefused(i) ==
  /\ MayStop(i) /\ registry[i] = "active" /\ stopping[i] = "no"
  /\ current' = current \ {i}
  /\ UNCHANGED <<ledgerVars, osVars, phase, crashes, registry, handle, roles, port, launch,
                 stopping, ending, startVars>>

StopBegin(i) ==
  /\ MayStop(i) /\ stopping[i] = "no"
  /\ current' = current \ {i}
  /\ registry' = [registry EXCEPT ![i] = IF @ = "stopped" THEN @ ELSE "unloading"]
  /\ PostStop(port[i])
  /\ stopping' = [stopping EXCEPT ![i] = "asked"]
  /\ UNCHANGED <<ledgerVars, births, journal, phase, crashes, handle, roles, port, launch,
                 ending, startVars>>

(* Broken variant: the ports of a stopped instance are not quarantined.    *)
StopFinishAtOnce(i) ==
  /\ stopping[i] = "asked"
  /\ IF i \in roles THEN SignalManaged(i) ELSE UNCHANGED procs
  /\ reserved' = [reserved EXCEPT ![i] = None]
  /\ portOwner' = [p \in Ports |-> IF portOwner[p] = i THEN None ELSE portOwner[p]]
  /\ UNCHANGED quarantine
  /\ roles' = roles \ {i}
  /\ journal' = [journal EXCEPT ![i] = None]
  /\ registry' = [registry EXCEPT ![i] = "stopped"]
  /\ stopping' = [stopping EXCEPT ![i] = "no"]
  /\ UNCHANGED <<births, phase, crashes, handle, port, current, launch, ending, startVars>>

\* request_stop and wait, then stop, of a role that is known.
StopFinish(i) ==
  /\ stopping[i] = "asked"
  /\ IF i \in roles THEN SignalManaged(i) ELSE UNCHANGED procs
  /\ Release(i)
  /\ roles' = roles \ {i}
  /\ journal' = [journal EXCEPT ![i] = None]
  /\ registry' = [registry EXCEPT ![i] = "stopped"]
  /\ stopping' = [stopping EXCEPT ![i] = "no"]
  /\ UNCHANGED <<births, phase, crashes, handle, port, current, launch, ending, startVars>>

-----------------------------------------------------------------------------
(* stop_everything, of the stop-all request and of an orderly shutdown:    *)
(* every process is told first, then waited for and killed, and only then  *)
(* is every reservation released, that of a BUSY instance too, which does  *)
(* not leave its state.  The journals stay.                                *)

EndAllRequest ==
  /\ phase = "up" /\ ending = NotEnding
  /\ StopAllOverlapsLaunch \/ \A i \in Instances : launch[i] = "no"
  /\ current' = {}
  /\ procs' = [p \in Pids |-> IF Managed(p) THEN Asked(procs[p]) ELSE procs[p]]
  /\ ending' = [NotEnding EXCEPT !.step = "asked"]
  /\ UNCHANGED <<ledgerVars, births, journal, phase, crashes, registry, handle, roles, port,
                 launch, stopping, startVars>>

\* The join on the killing thread has a deadline of its own: some may be
\* left unkilled.
EndAllKill ==
  /\ ending.step = "asked"
  /\ \E unkilled \in SUBSET Pids :
       procs' = [p \in Pids |-> IF Managed(p) /\ p \notin unkilled
                                THEN [procs[p] EXCEPT !.told = "signalled"] ELSE procs[p]]
  /\ ending' = [ending EXCEPT !.step = "release",
                              !.left = {i \in Instances : registry[i] # "absent"}]
  /\ UNCHANGED <<ledgerVars, births, journal, phase, crashes, launchVars, startVars>>

EndAllRelease(i) ==
  /\ ending.step = "release" /\ i \in ending.left
  /\ Release(i)
  /\ \/ registry' = [registry EXCEPT ![i] = "stopped"]
     \/ registry[i] = "active" /\ UNCHANGED registry
  /\ ending' = [ending EXCEPT !.left = @ \ {i}]
  /\ UNCHANGED <<osVars, phase, crashes, handle, roles, port, current, launch, stopping, startVars>>

EndAllDone ==
  /\ ending.step = "release" /\ ending.left = {}
  /\ ending' = NotEnding
  /\ UNCHANGED <<ledgerVars, osVars, phase, crashes, launchVars, startVars>>

\* What dies with the agent: after stop_everything of an orderly shutdown, or
\* at any point in a crash.
AgentGone ==
  /\ phase' = "down"
  /\ NewLedger
  /\ registry' = [i \in Instances |-> "absent"]
  /\ handle' = [i \in Instances |-> None]
  /\ roles' = {} /\ current' = {}
  /\ port' = [i \in Instances |-> None]
  /\ launch' = [i \in Instances |-> "no"]
  /\ stopping' = [i \in Instances |-> "no"]
  /\ ending' = NotEnding
  /\ todo' = {} /\ adopting' = None /\ adopted' = {} /\ orphans' = {}
  /\ fenced' = [p \in Pids |-> None]
  /\ queue' = {} /\ cleaning' = None
  /\ UNCHANGED osVars

Shutdown ==
  /\ ending.step = "release" /\ ending.left = {}
  /\ AgentGone /\ UNCHANGED crashes

Crash ==
  /\ phase # "down" /\ crashes < MaxCrashes
  /\ crashes' = crashes + 1
  /\ AgentGone

-----------------------------------------------------------------------------
(* The start of the agent: recover_persisted_instances.                    *)

Boot ==
  /\ phase = "down"
  /\ phase' = "recover"
  /\ todo' = {i \in Instances : journal[i] # None}
  /\ UNCHANGED <<ledgerVars, osVars, crashes, launchVars, ending,
                 adopting, adopted, orphans, fenced, queue, cleaning>>

Assessing(i) == phase = "recover" /\ adopting = None /\ i \in todo

RecoverMissing(i) ==
  /\ Assessing(i) /\ procs[journal[i].pid] = None
  /\ journal' = [journal EXCEPT ![i] = None]
  /\ todo' = todo \ {i}
  /\ UNCHANGED <<ledgerVars, procs, births, phase, crashes, launchVars, ending,
                 adopting, adopted, orphans, fenced, queue, cleaning>>

\* An orphan is cleaned up later only if its identity could be verified.
RecordOrphan(r) ==
  /\ orphans' = orphans \cup {[pid |-> r.pid, state |-> "orphaned", safe |-> Matches(r)]}
  /\ fenced' = IF Matches(r) THEN [fenced EXCEPT ![r.pid] = r] ELSE fenced
  /\ todo' = todo \ {r.inst}

\* A video runtime, an identity that does not match, or a status file that
\* is stale, unreadable, of another epoch, or says failed or stopping: the
\* last is a free choice.
RecoverOrphan(i) ==
  /\ Assessing(i) /\ procs[journal[i].pid] # None
  /\ RecordOrphan(journal[i])
  /\ UNCHANGED <<ledgerVars, osVars, phase, crashes, launchVars, ending,
                 adopting, adopted, queue, cleaning>>

RecoverVerified(i) ==
  /\ Assessing(i) /\ i \notin Video /\ Matches(journal[i])
  /\ adopting' = [rec |-> journal[i], reserved |-> FALSE]
  /\ UNCHANGED <<ledgerVars, osVars, phase, crashes, launchVars, ending,
                 todo, adopted, orphans, fenced, queue, cleaning>>

\* The reservation is admitted against the memory that is free now, in
\* which the process to be adopted is counted as used.
RecoverReserve ==
  /\ adopting # None /\ ~adopting.reserved
  /\ LET r == adopting.rec IN
     \E sys \in Observed(r.inst) :
       \/ /\ Reserve(r.inst, Size[r.inst], OwnPorts(r.inst, r.port), sys, Headroom[r.inst])
          /\ adopting' = [adopting EXCEPT !.reserved = TRUE]
          /\ UNCHANGED <<todo, orphans, fenced>>
       \/ /\ ReserveRefused(r.inst, Size[r.inst], OwnPorts(r.inst, r.port), sys, Headroom[r.inst])
          /\ adopting' = None
          /\ RecordOrphan(r)
  /\ UNCHANGED <<osVars, phase, crashes, launchVars, ending, adopted, queue, cleaning>>

\* supervisor.adopt checks the identity once more, and is rolled back.
RecoverAdopt ==
  /\ adopting # None /\ adopting.reserved
  /\ adopting' = None
  /\ LET r == adopting.rec IN
     IF Matches(r)
     THEN /\ handle' = [handle EXCEPT ![r.inst] = [pid |-> r.pid, born |-> r.born]]
          /\ registry' = [registry EXCEPT ![r.inst] = "active"]
          /\ roles' = roles \cup {r.inst}
          /\ port' = [port EXCEPT ![r.inst] = r.port]
          /\ adopted' = adopted \cup {r.pid}
          /\ todo' = todo \ {r.inst}
          /\ UNCHANGED <<ledgerVars, orphans, fenced>>
     ELSE /\ Release(r.inst)
          /\ RecordOrphan(r)
          /\ UNCHANGED <<handle, registry, roles, port, adopted>>
  /\ UNCHANGED <<osVars, phase, crashes, current, launch, stopping, ending, queue, cleaning>>

\* cleanup_orphaned_model_processes reports, and never kills, what it finds.
Unjournaled ==
  {p \in Pids : /\ procs[p] # None /\ procs[p].owner \in Instances \ Video
                /\ p \notin adopted /\ fenced[p] = None}

Scan ==
  /\ phase = "recover" /\ todo = {} /\ adopting = None
  /\ orphans' = orphans \cup {[pid |-> p, state |-> "orphaned", safe |-> FALSE] : p \in Unjournaled}
  /\ queue' = {p \in Pids : fenced[p] # None}
  /\ phase' = "cleanup"
  /\ UNCHANGED <<ledgerVars, osVars, crashes, launchVars, ending,
                 todo, adopting, adopted, fenced, cleaning>>

Serve ==
  /\ phase = "cleanup" /\ queue = {} /\ cleaning = None
  /\ phase' = "up"
  /\ UNCHANGED <<ledgerVars, osVars, crashes, launchVars, ending, startVars>>

-----------------------------------------------------------------------------
(* cleanup_startup_orphan: of every fenced orphan at startup, and of any   *)
(* reported one whenever the operator asks.                                *)

\* update_orphan_audit finds the entry by its pid.
Audit(p, state, safe) ==
  LET new  == [pid |-> p, state |-> state, safe |-> safe]
      olds == {o \in orphans : o.pid = p}
  IN  IF olds = {} THEN orphans' = orphans \cup {new}
      ELSE \E o \in olds : orphans' = (orphans \ {o}) \cup {new}

CleanupBegin(p) ==
  /\ cleaning = None
  /\ \/ phase = "cleanup" /\ p \in queue
     \/ phase = "up" /\ \E o \in orphans : o.pid = p
  /\ queue' = queue \ {p}
  /\ IF fenced[p] # None /\ Matches(fenced[p])
     THEN /\ cleaning' = [rec |-> fenced[p], step |-> "post"]
          /\ UNCHANGED <<orphans, fenced>>
     ELSE /\ Audit(p, "orphaned", FALSE)
          /\ fenced' = [fenced EXCEPT ![p] = None]
          /\ UNCHANGED cleaning
  /\ UNCHANGED <<ledgerVars, osVars, phase, crashes, launchVars, ending, todo, adopting, adopted>>

CleanupStep(from, to) == cleaning # None /\ cleaning.step = from /\ cleaning' = [cleaning EXCEPT !.step = to]

CleanupPost ==
  /\ CleanupStep("post", "signal")
  /\ IF cleaning.rec.inst \in Workers THEN UNCHANGED procs ELSE PostStop(cleaning.rec.port)
  /\ UNCHANGED <<ledgerVars, births, journal, phase, crashes, launchVars, ending,
                 todo, adopting, adopted, orphans, fenced, queue>>

\* The fence is checked in the step that signals: that the pid is reused
\* between the ps and the kill that follows it is left out.
CleanupSignal ==
  /\ CleanupStep("signal", "check")
  /\ IF Matches(cleaning.rec) THEN Signal(cleaning.rec.pid) ELSE UNCHANGED procs
  /\ UNCHANGED <<ledgerVars, births, journal, phase, crashes, launchVars, ending,
                 todo, adopting, adopted, orphans, fenced, queue>>

(* Broken variant: once signalled, the orphan counts as cleaned.           *)
CleanupTrusts ==
  /\ cleaning # None /\ cleaning.step = "check"
  /\ cleaning' = None
  /\ journal' = [journal EXCEPT ![cleaning.rec.inst] = None]
  /\ fenced' = [fenced EXCEPT ![cleaning.rec.pid] = None]
  /\ Audit(cleaning.rec.pid, "cleaned", TRUE)
  /\ UNCHANGED <<ledgerVars, procs, births, phase, crashes, launchVars, ending,
                 todo, adopting, adopted, queue>>

CleanupCheck ==
  /\ cleaning # None /\ cleaning.step = "check"
  /\ cleaning' = None
  /\ LET r == cleaning.rec IN
     IF Matches(r)
     THEN Audit(r.pid, "orphaned", TRUE) /\ UNCHANGED <<journal, fenced>>
     ELSE /\ journal' = [journal EXCEPT ![r.inst] = None]
          /\ fenced' = [fenced EXCEPT ![r.pid] = None]
          /\ Audit(r.pid, "cleaned", TRUE)
  /\ UNCHANGED <<ledgerVars, procs, births, phase, crashes, launchVars, ending,
                 todo, adopting, adopted, queue>>

-----------------------------------------------------------------------------
Host == Time \/ \E p \in Pids : Exit(p) \/ ForeignStart(p)

Launching(i) ==
  \/ LaunchAllocate(i) \/ LaunchReserve(i) \/ LaunchRaises(i) \/ LaunchSpawn(i)
  \/ LaunchPersist(i) \/ LaunchFinish(i) \/ LaunchAbort(i)

Managing(i) ==
  \/ Poll(i) \/ Measure(i)
  \/ StopRefused(i) \/ StopBegin(i) \/ StopFinish(i) \/ EndAllRelease(i)

Recovering ==
  \/ \E i \in Instances : RecoverMissing(i) \/ RecoverOrphan(i) \/ RecoverVerified(i)
  \/ RecoverReserve \/ RecoverAdopt \/ Scan \/ Serve

CleaningUp ==
  \/ \E p \in Pids : CleanupBegin(p)
  \/ CleanupPost \/ CleanupSignal \/ CleanupCheck

Next ==
  \/ Host
  \/ \E i \in Instances : Launching(i) \/ Managing(i)
  \/ EndAllRequest \/ EndAllKill \/ EndAllDone \/ Shutdown \/ Crash
  \/ Boot \/ Recovering \/ CleaningUp

Spec == Init /\ [][Next]_vars

-----------------------------------------------------------------------------
(* Properties.                                                             *)

(* After the scan of a start, every runtime process is either managed by   *)
(* the supervisor or reported as an orphan, whatever crashes, exits,       *)
(* refused adoptions, half-done launches and futile signals came before.   *)
(* Video runtimes are excepted: the scan does not know their command line. *)
(* (recover_persisted_instances and cleanup_orphaned_model_processes.)     *)
NothingUnaccounted ==
  phase \in {"cleanup", "up"} =>
    \A p \in Pids :
      procs[p] # None /\ procs[p].owner \in Instances \ Video
        => Managed(p) \/ \E o \in orphans : o.pid = p /\ o.state = "orphaned"

Unprompted(i) == Running(i) /\ procs[handle[i].pid].told = "no"
Covered(i) == Unprompted(i) /\ (launch[i] = "no" \/ i \in current)
HoldsIts(i) == reserved[i] # None /\ (i \notin Workers => portOwner[port[i]] = i)

(* A managed process that was not told to stop holds its reservation and,  *)
(* on a coordinator, its port, through launches, adoptions, memory         *)
(* observations and the stops of others; excepted is a process that a      *)
(* cancelled launch spawned and is about to take down.                     *)
ManagedIsReserved == \A i \in Instances : Covered(i) => HoldsIts(i)

Signalled(p) ==
  /\ procs'[p] # None /\ procs[p] # None /\ procs'[p].born = procs[p].born
  /\ procs'[p].told = "signalled" /\ procs[p].told # "signalled"

EndingOwn(p) ==
  LET i == procs[p].owner
  IN  /\ i # Foreign /\ Manages(i, p)
      /\ \/ stopping[i] # "no" \/ launch[i] \in {"spawned", "journaled"}
         \/ ending # NotEnding \/ ending' # NotEnding

CleaningOrphan(p) ==
  cleaning # None /\ cleaning.rec.pid = p /\ Matches(cleaning.rec) /\ ~Managed(p)

FencedSignals == \A p \in Pids : Signalled(p) => EndingOwn(p) \/ CleaningOrphan(p)

(* A process gets SIGTERM or SIGKILL only from the stop of its own         *)
(* instance by the agent that manages it, or from the clean-up of the      *)
(* orphan whose journal names this very process, which no supervisor       *)
(* manages: never because its pid was once another's.                      *)
SignalsAreFenced == [][FencedSignals]_vars

(* The agent drives its ledger only through the ledger's operations, and   *)
(* one at a time, whatever its handlers interleave.                        *)
ImplementsLedger == LedgerSpec

(* A stop of one instance, or the clean-up of one orphan, asks no process  *)
(* of another instance to stop.                                            *)
StopTouchesNoSibling ==
  [][\A i \in Instances, p \in Pids :
       stopping[i] = "no" /\ stopping'[i] = "asked" /\ procs[p] # None /\ procs'[p] # procs[p]
         => procs[p].owner = i]_vars

=============================================================================
