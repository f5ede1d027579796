------------------------ MODULE AgentRecovery_proofs ------------------------
(***************************************************************************)
(* Proofs about AgentRecovery and the ResourceLedger it uses: the ledger   *)
(* is sound for any callers, the agent implements it, its signals are      *)
(* fenced, and a managed process keeps its reservation.                    *)
(***************************************************************************)
EXTENDS AgentRecovery, TLAPS

-----------------------------------------------------------------------------
(* What the resource ledger keeps to, whatever its callers ask for.        *)

LedgerInv == LedgerTypeOK /\ LedgerSound

LEMMA LedgerInitHolds == LedgerInit => LedgerInv
  BY LedgerAssumption DEF LedgerInit, LedgerInv, LedgerTypeOK, LedgerSound, PortOwnersReserve,
     OwnedNotQuarantined

LEMMA NewLedgerKeeps == LedgerInv /\ NewLedger => LedgerInv'
  BY LedgerAssumption DEF NewLedger, LedgerInv, LedgerTypeOK, LedgerSound, PortOwnersReserve,
     OwnedNotQuarantined

LEMMA TickKeeps == LedgerInv /\ Tick => LedgerInv'
  BY LedgerAssumption DEF Tick, LedgerInv, LedgerTypeOK, LedgerSound, PortOwnersReserve,
     OwnedNotQuarantined

LEMMA ReleaseKeeps ==
  ASSUME LedgerInv, NEW i \in Instances, Release(i)
  PROVE  LedgerInv'
<1>1. LedgerTypeOK'
  BY LedgerAssumption DEF Release, LedgerInv, LedgerTypeOK
<1>2. LedgerSound'
  BY LedgerAssumption DEF Release, LedgerInv, LedgerTypeOK, LedgerSound, PortOwnersReserve,
     OwnedNotQuarantined
<1> QED BY <1>1, <1>2 DEF LedgerInv

LEMMA ResizeKeeps ==
  ASSUME LedgerInv, NEW i \in Instances, NEW bytes \in Amounts, NEW h \in Headrooms,
         Resize(i, bytes, None, h)
  PROVE  LedgerInv'
<1>1. bytes # None
  BY LedgerAssumption
<1> QED
  BY <1>1 DEF Resize, LedgerInv, LedgerTypeOK, LedgerSound, PortOwnersReserve, OwnedNotQuarantined

LEMMA ReserveKeeps ==
  ASSUME LedgerInv, NEW i \in Instances, NEW bytes \in Amounts, NEW h \in Headrooms,
         NEW ps \in SUBSET Ports, Reserve(i, bytes, ps, None, h)
  PROVE  LedgerInv'
<1>1. bytes # None
  BY LedgerAssumption
<1>2. \A p \in ps : quarantine[p] = None
  BY DEF Reserve, Admissible, PortConflict
<1> QED
  BY <1>1, <1>2 DEF Reserve, LedgerInv, LedgerTypeOK, LedgerSound, PortOwnersReserve,
     OwnedNotQuarantined

LEMMA LedgerInductive == LedgerInv /\ [LedgerNext]_ledgerVars => LedgerInv'
<1> SUFFICES ASSUME LedgerInv, [LedgerNext]_ledgerVars PROVE LedgerInv'
  OBVIOUS
<1>1. CASE UNCHANGED ledgerVars
  BY <1>1 DEF ledgerVars, LedgerInv, LedgerTypeOK, LedgerSound, PortOwnersReserve,
     OwnedNotQuarantined
<1>2. CASE LedgerNext
  BY <1>1, <1>2, NewLedgerKeeps, TickKeeps, ReleaseKeeps, ResizeKeeps, ReserveKeeps DEF LedgerNext
<1> QED BY <1>1, <1>2

LEMMA LedgerTypeStep == LedgerTypeOK /\ [LedgerNext]_ledgerVars => LedgerTypeOK'
  BY LedgerAssumption DEF LedgerTypeOK, LedgerNext, ledgerVars, Tick, NewLedger, Release, Resize,
     Reserve

(* The ledger's fields keep their types: no caller can make a reservation  *)
(* out of nothing, and a quarantine always has time left to run.           *)
(* (ResourceLedger of control/instances.py.)                               *)
THEOREM LedgerTypeCorrect == LedgerSpec => []LedgerTypeOK
<1>1. LedgerInv => LedgerTypeOK
  BY DEF LedgerInv
<1> QED BY <1>1, LedgerInitHolds, LedgerInductive, PTL DEF LedgerSpec

(* Whatever sequence of reservations, resizes, releases and restarts its   *)
(* callers make: a port has an owner only while that owner holds memory,   *)
(* and never while it is in quarantine.  (reserve, resize and release.)    *)
THEOREM LedgerIsSound == LedgerSpec => []LedgerSound
<1>1. LedgerInv => LedgerSound
  BY DEF LedgerInv
<1> QED BY <1>1, LedgerInitHolds, LedgerInductive, PTL DEF LedgerSpec

-----------------------------------------------------------------------------
(* The agent's invariant.                                                  *)

(* Control points at which a launch has a port, or a process.              *)
LaunchHas ==
  \A i \in Instances :
    /\ launch[i] # "no" => port[i] # None
    /\ launch[i] \in {"spawned", "journaled"} => handle[i] # None
    /\ launch[i] \in {"allocated", "reserved"} => handle[i] = None
    /\ registry[i] = "absent" => handle[i] = None
    /\ handle[i] # None => port[i] # None
    /\ launch[i] \notin {"no", "allocated"} => registry[i] # "absent"

(* Before the scan of a start nothing else runs.                           *)
QuietStart ==
  /\ phase \in {"down", "recover"} =>
       /\ \A i \in Instances : launch[i] = "no" /\ stopping[i] = "no"
       /\ ending = NotEnding /\ cleaning = None
  /\ phase = "down" => /\ \A i \in Instances : handle[i] = None
                       /\ \A p \in Pids : fenced[p] = None

(* The records that startup still has to assess.                           *)
TodoJournaled ==
  /\ todo # {} => phase = "recover"
  /\ \A i \in todo : journal[i] # None /\ journal[i].inst = i /\ handle[i] = None
  /\ adopting # None =>
       adopting.rec.inst \in todo /\ adopting.rec = journal[adopting.rec.inst]

JournalsNameTheirInstance == \A i \in Instances : journal[i] # None => journal[i].inst = i

(* Nothing known to the agent was born after the last process.             *)
BirthsBound ==
  /\ \A p \in Pids : procs[p] # None => procs[p].born <= births
  /\ \A i \in Instances : /\ journal[i] # None => journal[i].born <= births
                          /\ handle[i] # None => handle[i].born <= births
  /\ \A p \in Pids : fenced[p] # None => fenced[p].born <= births
  /\ cleaning # None => cleaning.rec.born <= births

(* The supervisor's process of an instance runs that instance.             *)
HandlesOwn == \A i \in Instances : Running(i) => procs[handle[i].pid].owner = i

Names(r, i) == handle[i] = [pid |-> r.pid, born |-> r.born]

(* No verified orphan is the process of its instance's handle.             *)
OrphansApart ==
  /\ \A p \in Pids : fenced[p] # None =>
       fenced[p].pid = p /\ fenced[p].inst \notin todo /\ ~Names(fenced[p], fenced[p].inst)
  /\ cleaning # None => ~Names(cleaning.rec, cleaning.rec.inst)

Inv == /\ RecoveryTypeOK /\ LedgerTypeOK
       /\ LaunchHas /\ QuietStart /\ JournalsNameTheirInstance /\ TodoJournaled
       /\ BirthsBound /\ HandlesOwn /\ OrphansApart

-----------------------------------------------------------------------------
(* Types.                                                                  *)

ProcsTyped == procs \in [Pids -> Process \cup {None}]
OrphansTyped ==
  /\ orphans \subseteq [pid : Pids, state : {"orphaned", "cleaned"}, safe : BOOLEAN]
  /\ fenced \in [Pids -> Record \cup {None}]

HandlesTyped == handle \in [Instances -> Handle \cup {None}]

(* A signal changes nothing of a process but what it was told.             *)
LEMMA SignalTyped ==
  ASSUME ProcsTyped, NEW p \in Pids, procs[p] # None, Signal(p)
  PROVE  ProcsTyped'
<1>1. procs[p] \in Process
  BY DEF ProcsTyped
<1>2. [procs[p] EXCEPT !.told = "signalled"] \in Process
  BY <1>1 DEF Process
<1> QED BY <1>2 DEF ProcsTyped, Signal

LEMMA SignalManagedTyped ==
  ASSUME ProcsTyped, HandlesTyped, NEW i \in Instances, SignalManaged(i)
  PROVE  ProcsTyped'
<1>1. CASE Running(i)
  <2>1. handle[i].pid \in Pids /\ procs[handle[i].pid] # None
    BY <1>1 DEF Running, Handle, HandlesTyped
  <2> QED BY <1>1, <2>1, SignalTyped DEF SignalManaged
<1>2. CASE ~Running(i)
  BY <1>2 DEF SignalManaged, ProcsTyped
<1> QED BY <1>1, <1>2

LEMMA PostStopTyped ==
  ASSUME ProcsTyped, NEW prt, PostStop(prt)
  PROVE  ProcsTyped'
<1>1. ASSUME NEW p \in Pids, procs[p] # None PROVE Asked(procs[p]) \in Process
  <2>1. procs[p] \in Process
    BY <1>1 DEF ProcsTyped
  <2> QED BY <2>1 DEF Process, Asked
<1> QED BY <1>1 DEF ProcsTyped, PostStop, Listener

LEMMA RecordOrphanTyped ==
  ASSUME OrphansTyped, NEW r \in Record, RecordOrphan(r)
  PROVE  OrphansTyped'
<1>1. r.pid \in Pids
  BY DEF Record
<1>2. Matches(r) \in BOOLEAN
  BY DEF Matches
<1> QED BY <1>1, <1>2 DEF OrphansTyped, RecordOrphan

LEMMA AuditTyped ==
  ASSUME OrphansTyped, NEW p \in Pids, NEW st \in {"orphaned", "cleaned"},
         NEW safe \in BOOLEAN, Audit(p, st, safe)
  PROVE  orphans' \subseteq [pid : Pids, state : {"orphaned", "cleaned"}, safe : BOOLEAN]
BY DEF OrphansTyped, Audit

LEMMA TypesStep ==
  ASSUME RecoveryTypeOK, LaunchHas, TodoJournaled, [Next]_vars
  PROVE  RecoveryTypeOK'
<1> USE RecoveryAssumption, LedgerAssumption
<1>1. ASSUME NEW p \in Pids, Exit(p) PROVE RecoveryTypeOK'
  BY <1>1 DEF Exit, RecoveryTypeOK, Record, Process, Handle, osVars, launchVars, startVars,
     ledgerVars
<1>2. ASSUME NEW p \in Pids, ForeignStart(p) PROVE RecoveryTypeOK'
  BY <1>2 DEF ForeignStart, Spawn, RecoveryTypeOK, Record, Process, Handle, osVars, launchVars,
     startVars, ledgerVars
<1>3. ASSUME Time PROVE RecoveryTypeOK'
  BY <1>3 DEF Time, Tick, RecoveryTypeOK, Record, Process, Handle, osVars, launchVars,
     startVars, ledgerVars
<1>4. ASSUME NEW i \in Instances, LaunchAllocate(i) PROVE RecoveryTypeOK'
  BY <1>4 DEF LaunchAllocate, RecoveryTypeOK, Record, Process, Handle, osVars, launchVars,
     startVars, ledgerVars
<1>5. ASSUME NEW i \in Instances, LaunchReserve(i) PROVE RecoveryTypeOK'
  <2>1. \/ UNCHANGED <<registry, roles, current>> /\ launch' = [launch EXCEPT ![i] = "no"]
        \/ /\ registry' = [registry EXCEPT ![i] = "active"]
           /\ roles' = roles \cup {i} /\ current' = current \cup {i}
           /\ launch' = [launch EXCEPT ![i] = "reserved"]
    BY <1>5 DEF LaunchReserve
  <2>2. /\ registry' \in [Instances -> {"absent", "active", "failed", "unloading", "stopped"}]
        /\ launch' \in [Instances -> {"no", "allocated", "reserved", "spawned", "journaled"}]
        /\ roles' \subseteq Instances /\ current' \subseteq Instances
    BY <2>1 DEF RecoveryTypeOK
  <2> QED BY <1>5, <2>2 DEF LaunchReserve, RecoveryTypeOK, osVars, startVars
<1>6. ASSUME NEW i \in Instances, LaunchRaises(i) PROVE RecoveryTypeOK'
  BY <1>6 DEF LaunchRaises, RecoveryTypeOK, Record, Process, Handle, osVars, launchVars,
     startVars, ledgerVars
<1>7. ASSUME NEW i \in Instances, LaunchSpawn(i) PROVE RecoveryTypeOK'
  BY <1>7 DEF LaunchSpawn, Spawn, RecoveryTypeOK, Record, Process, Handle, osVars, launchVars,
     startVars, ledgerVars
<1>8. ASSUME NEW i \in Instances, LaunchPersist(i) PROVE RecoveryTypeOK'
  BY <1>8 DEF LaunchPersist, Persist, RecordOf, LaunchHas, RecoveryTypeOK, Record, Process,
     Handle, osVars, launchVars, startVars, ledgerVars
<1>9. ASSUME NEW i \in Instances, LaunchFinish(i) PROVE RecoveryTypeOK'
  BY <1>9 DEF LaunchFinish, Persist, RecordOf, LaunchHas, RecoveryTypeOK, Record, Process,
     Handle, osVars, launchVars, startVars, ledgerVars
<1>10. ASSUME NEW i \in Instances, LaunchAbort(i) PROVE RecoveryTypeOK'
  <2>1. ProcsTyped'
    BY <1>10, SignalManagedTyped DEF LaunchAbort, ProcsTyped, HandlesTyped, RecoveryTypeOK
  <2> QED BY <1>10, <2>1 DEF LaunchAbort, ProcsTyped, RecoveryTypeOK, osVars, launchVars,
     startVars, ledgerVars
<1>11. ASSUME NEW i \in Instances, Poll(i) PROVE RecoveryTypeOK'
  BY <1>11 DEF Poll, RecoveryTypeOK, Record, Process, Handle, osVars, launchVars, startVars,
     ledgerVars
<1>12. ASSUME NEW i \in Instances, Measure(i) PROVE RecoveryTypeOK'
  BY <1>12 DEF Measure, Reconcile, Resize, RecoveryTypeOK, Record, Process, Handle, osVars,
     launchVars, startVars, ledgerVars
<1>13. ASSUME NEW i \in Instances, StopRefused(i) PROVE RecoveryTypeOK'
  BY <1>13 DEF StopRefused, RecoveryTypeOK, Record, Process, Handle, osVars, launchVars,
     startVars, ledgerVars
<1>14. ASSUME NEW i \in Instances, StopBegin(i) PROVE RecoveryTypeOK'
  <2>1. ProcsTyped'
    BY <1>14, PostStopTyped DEF StopBegin, ProcsTyped, RecoveryTypeOK
  <2> QED BY <1>14, <2>1 DEF StopBegin, ProcsTyped, RecoveryTypeOK, osVars, launchVars,
     startVars, ledgerVars
<1>15. ASSUME NEW i \in Instances, StopFinish(i) PROVE RecoveryTypeOK'
  <2>1. ProcsTyped'
    BY <1>15, SignalManagedTyped DEF StopFinish, ProcsTyped, HandlesTyped, RecoveryTypeOK
  <2> QED BY <1>15, <2>1 DEF StopFinish, ProcsTyped, RecoveryTypeOK, osVars, launchVars,
     startVars, ledgerVars
<1>16. ASSUME EndAllRequest PROVE RecoveryTypeOK'
  <2>1. ProcsTyped'
    <3>1. ASSUME NEW p \in Pids, Managed(p) PROVE Asked(procs[p]) \in Process
      <4>1. procs[p] \in Process
        BY <3>1 DEF Managed, Manages, Running, Handle, RecoveryTypeOK
      <4> QED BY <4>1 DEF Process, Asked
    <3> QED BY <1>16, <3>1 DEF EndAllRequest, ProcsTyped, RecoveryTypeOK
  <2> QED BY <1>16, <2>1 DEF EndAllRequest, NotEnding, ProcsTyped, RecoveryTypeOK, osVars,
     launchVars, startVars, ledgerVars
<1>17. ASSUME EndAllKill PROVE RecoveryTypeOK'
  <2>1. ProcsTyped'
    <3>1. ASSUME NEW p \in Pids, Managed(p)
          PROVE  [procs[p] EXCEPT !.told = "signalled"] \in Process
      <4>1. procs[p] \in Process
        BY <3>1 DEF Managed, Manages, Running, Handle, RecoveryTypeOK
      <4> QED BY <4>1 DEF Process
    <3> QED BY <1>17, <3>1 DEF EndAllKill, ProcsTyped, RecoveryTypeOK
  <2> QED BY <1>17, <2>1 DEF EndAllKill, ProcsTyped, RecoveryTypeOK, osVars, launchVars,
     startVars, ledgerVars
<1>18. ASSUME NEW i \in Instances, EndAllRelease(i) PROVE RecoveryTypeOK'
  BY <1>18 DEF EndAllRelease, Release, RecoveryTypeOK, Record, Process, Handle, osVars,
     launchVars, startVars, ledgerVars
<1>19. ASSUME EndAllDone PROVE RecoveryTypeOK'
  BY <1>19 DEF EndAllDone, NotEnding, RecoveryTypeOK, Record, Process, Handle, osVars,
     launchVars, startVars, ledgerVars
<1>20. ASSUME AgentGone,
   UNCHANGED crashes \/ (crashes < MaxCrashes /\ crashes' = crashes + 1) PROVE RecoveryTypeOK'
  BY <1>20 DEF AgentGone, NewLedger, NotEnding, RecoveryTypeOK, Record, Process, Handle,
     osVars, launchVars, startVars, ledgerVars
<1>21. ASSUME Boot PROVE RecoveryTypeOK'
  BY <1>21 DEF Boot, RecoveryTypeOK, Record, Process, Handle, osVars, launchVars, startVars,
     ledgerVars
<1>22. ASSUME NEW i \in Instances, RecoverMissing(i) PROVE RecoveryTypeOK'
  BY <1>22 DEF RecoverMissing, RecoveryTypeOK, Record, Process, Handle, osVars, launchVars,
     startVars, ledgerVars
<1>23. ASSUME NEW i \in Instances, RecoverOrphan(i) PROVE RecoveryTypeOK'
  <2>1. journal[i] \in Record
    BY <1>23 DEF RecoverOrphan, Assessing, TodoJournaled, RecoveryTypeOK
  <2>2. OrphansTyped'
    BY <1>23, <2>1, RecordOrphanTyped DEF RecoverOrphan, OrphansTyped, RecoveryTypeOK
  <2>3. todo' \subseteq Instances
    BY <1>23 DEF RecoverOrphan, RecordOrphan, RecoveryTypeOK
  <2> QED BY <1>23, <2>2, <2>3 DEF RecoverOrphan, OrphansTyped, RecoveryTypeOK, osVars,
     launchVars, startVars, ledgerVars
<1>24. ASSUME NEW i \in Instances, RecoverVerified(i) PROVE RecoveryTypeOK'
  BY <1>24 DEF RecoverVerified, Assessing, TodoJournaled, RecoveryTypeOK, Record, Process,
     Handle, osVars, launchVars, startVars, ledgerVars
<1>25. ASSUME RecoverReserve PROVE RecoveryTypeOK'
  <2>1. adopting.rec \in Record
    BY <1>25 DEF RecoverReserve, RecoveryTypeOK
  <2>2. OrphansTyped' /\ todo' \subseteq Instances
    BY <1>25, <2>1, RecordOrphanTyped DEF RecoverReserve, RecordOrphan, OrphansTyped,
       RecoveryTypeOK
  <2>3. adopting' \in [rec : Record, reserved : BOOLEAN] \cup {None}
    BY <1>25 DEF RecoverReserve, RecoveryTypeOK
  <2> QED BY <1>25, <2>2, <2>3 DEF RecoverReserve, OrphansTyped, RecoveryTypeOK, osVars,
     launchVars, startVars, ledgerVars
<1>26. ASSUME RecoverAdopt PROVE RecoveryTypeOK'
  <2>1. adopting.rec \in Record
    BY <1>26 DEF RecoverAdopt, RecoveryTypeOK
  <2>2. OrphansTyped' /\ todo' \subseteq Instances
    BY <1>26, <2>1, RecordOrphanTyped DEF RecoverAdopt, RecordOrphan, OrphansTyped, RecoveryTypeOK
  <2>3. HandlesTyped' /\ port' \in [Instances -> Ports \cup {None}] /\ roles' \subseteq Instances
        /\ adopted' \subseteq Pids
    BY <1>26, <2>1 DEF RecoverAdopt, HandlesTyped, Handle, Record, RecoveryTypeOK
  <2>4. registry' \in [Instances -> {"absent", "active", "failed", "unloading", "stopped"}]
    BY <1>26 DEF RecoverAdopt, RecoveryTypeOK
  <2> QED BY <1>26, <2>2, <2>3, <2>4 DEF RecoverAdopt, HandlesTyped, OrphansTyped,
     RecoveryTypeOK, osVars, launchVars, startVars, ledgerVars
<1>27. ASSUME Scan PROVE RecoveryTypeOK'
  <2>1. orphans' \subseteq [pid : Pids, state : {"orphaned", "cleaned"}, safe : BOOLEAN]
    <3>1. Unjournaled \subseteq Pids
      BY DEF Unjournaled
    <3>2. \A q \in Pids : [pid |-> q, state |-> "orphaned", safe |-> FALSE]
                            \in [pid : Pids, state : {"orphaned", "cleaned"}, safe : BOOLEAN]
      OBVIOUS
    <3>3. orphans \subseteq [pid : Pids, state : {"orphaned", "cleaned"}, safe : BOOLEAN]
      BY DEF RecoveryTypeOK
    <3>4. orphans' = orphans \cup {[pid |-> q, state |-> "orphaned",
       safe |-> FALSE] : q \in Unjournaled}
      BY <1>27 DEF Scan
    <3> HIDE DEF Unjournaled
    <3> QED BY <3>1, <3>2, <3>3, <3>4, Zenon
  <2> QED BY <1>27, <2>1 DEF Scan, RecoveryTypeOK, osVars, launchVars, startVars, ledgerVars
<1>28. ASSUME Serve PROVE RecoveryTypeOK'
  BY <1>28 DEF Serve, RecoveryTypeOK, Record, Process, Handle, osVars, launchVars, startVars,
     ledgerVars
<1>29. ASSUME NEW p \in Pids, CleanupBegin(p) PROVE RecoveryTypeOK'
  <2>1. orphans' \subseteq [pid : Pids, state : {"orphaned", "cleaned"}, safe : BOOLEAN]
    BY <1>29, AuditTyped DEF CleanupBegin, OrphansTyped, RecoveryTypeOK
  <2>2. fenced' \in [Pids -> Record \cup {None}] /\ queue' \subseteq Pids
    BY <1>29 DEF CleanupBegin, RecoveryTypeOK
  <2>3. cleaning' \in [rec : Record, step : {"post", "signal", "check"}] \cup {None}
    <3>1. fenced[p] # None => fenced[p] \in Record
      BY <1>29 DEF RecoveryTypeOK
    <3>2. cleaning' = cleaning \/ (fenced[p] # None /\ cleaning' = [rec |-> fenced[p],
       step |-> "post"])
      BY <1>29 DEF CleanupBegin
    <3> QED BY <3>1, <3>2 DEF RecoveryTypeOK
  <2> QED BY <1>29, <2>1, <2>2, <2>3 DEF CleanupBegin, RecoveryTypeOK, osVars, launchVars,
     startVars, ledgerVars
<1>30. ASSUME CleanupPost PROVE RecoveryTypeOK'
  <2>1. ProcsTyped'
    BY <1>30, PostStopTyped DEF CleanupPost, ProcsTyped, RecoveryTypeOK
  <2> QED BY <1>30, <2>1 DEF CleanupPost, CleanupStep, ProcsTyped, RecoveryTypeOK, osVars,
     launchVars, startVars, ledgerVars
<1>31. ASSUME CleanupSignal PROVE RecoveryTypeOK'
  <2>1. cleaning.rec.pid \in Pids
    BY <1>31 DEF CleanupSignal, CleanupStep, Record, RecoveryTypeOK
  <2>2. ProcsTyped'
    BY <1>31, <2>1, SignalTyped DEF CleanupSignal, Matches, ProcsTyped, RecoveryTypeOK
  <2> QED BY <1>31, <2>2 DEF CleanupSignal, CleanupStep, ProcsTyped, RecoveryTypeOK, osVars,
     launchVars, startVars, ledgerVars
<1>32. ASSUME CleanupCheck PROVE RecoveryTypeOK'
  <2>1. cleaning.rec.pid \in Pids
    BY <1>32 DEF CleanupCheck, Record, RecoveryTypeOK
  <2>2. orphans' \subseteq [pid : Pids, state : {"orphaned", "cleaned"}, safe : BOOLEAN]
    BY <1>32, <2>1, AuditTyped DEF CleanupCheck, OrphansTyped, RecoveryTypeOK
  <2>3. fenced' \in [Pids -> Record \cup {None}] /\ journal' \in [Instances -> Record \cup {None}]
    BY <1>32 DEF CleanupCheck, RecoveryTypeOK
  <2> QED BY <1>32, <2>2, <2>3 DEF CleanupCheck, RecoveryTypeOK, osVars, launchVars, startVars,
     ledgerVars
<1>99. CASE UNCHANGED vars
  BY <1>99 DEF vars, RecoveryTypeOK, Record, Process, Handle, osVars, launchVars, startVars,
     ledgerVars
<1> QED
  BY <1>1, <1>2, <1>3, <1>4, <1>5, <1>6, <1>7, <1>8, <1>9, <1>10, <1>11, <1>12, <1>13, <1>14,
     <1>15, <1>16, <1>17, <1>18, <1>19, <1>20, <1>21, <1>22, <1>23, <1>24, <1>25, <1>26, <1>27,
        <1>28, <1>29, <1>30, <1>31, <1>32, <1>99 DEF Next, Host, Launching, Managing,
           Recovering, CleaningUp, Shutdown, Crash

-----------------------------------------------------------------------------
(* Control.                                                                *)

LEMMA LaunchStep ==
  ASSUME RecoveryTypeOK, LaunchHas, QuietStart, TodoJournaled, [Next]_vars
  PROVE  LaunchHas'
<1>1. ASSUME NEW i \in Instances, LaunchAllocate(i) PROVE LaunchHas'
  BY <1>1, RecoveryAssumption, LedgerAssumption DEF LaunchAllocate, RecoveryTypeOK, Handle,
     LaunchHas, osVars, launchVars, startVars, ledgerVars
<1>2. ASSUME NEW i \in Instances, LaunchReserve(i) PROVE LaunchHas'
  BY <1>2 DEF LaunchReserve, Reserve, ReserveRefused, RecoveryTypeOK, LaunchHas, osVars,
     launchVars, startVars, ledgerVars
<1>3. ASSUME NEW i \in Instances, LaunchRaises(i) PROVE LaunchHas'
  BY <1>3 DEF LaunchRaises, RecoveryTypeOK, LaunchHas, osVars, launchVars, startVars, ledgerVars
<1>4. ASSUME NEW i \in Instances, LaunchSpawn(i) PROVE LaunchHas'
  BY <1>4, RecoveryAssumption, LedgerAssumption DEF LaunchSpawn, Spawn, RecoveryTypeOK, Handle,
     LaunchHas, osVars, launchVars, startVars, ledgerVars
<1>5. ASSUME NEW i \in Instances, LaunchPersist(i) PROVE LaunchHas'
  BY <1>5 DEF LaunchPersist, Persist, RecordOf, RecoveryTypeOK, LaunchHas, osVars, launchVars,
     startVars, ledgerVars
<1>6. ASSUME NEW i \in Instances, LaunchFinish(i) PROVE LaunchHas'
  BY <1>6 DEF LaunchFinish, Persist, RecordOf, RecoveryTypeOK, LaunchHas, osVars, launchVars,
     startVars, ledgerVars
<1>7. ASSUME NEW i \in Instances, LaunchAbort(i) PROVE LaunchHas'
  BY <1>7 DEF LaunchAbort, SignalManaged, Signal, Release, RecoveryTypeOK, LaunchHas, osVars,
     launchVars, startVars, ledgerVars
<1>8. ASSUME NEW i \in Instances, Poll(i) PROVE LaunchHas'
  BY <1>8 DEF Poll, RecoveryTypeOK, LaunchHas, osVars, launchVars, startVars, ledgerVars
<1>9. ASSUME NEW i \in Instances, StopBegin(i) PROVE LaunchHas'
  BY <1>9 DEF StopBegin, PostStop, Listener, Asked, RecoveryTypeOK, LaunchHas, osVars,
     launchVars, startVars, ledgerVars
<1>10. ASSUME NEW i \in Instances, StopFinish(i) PROVE LaunchHas'
  BY <1>10 DEF StopFinish, SignalManaged, Signal, Release, RecoveryTypeOK, LaunchHas, osVars,
     launchVars, startVars, ledgerVars
<1>11. ASSUME NEW i \in Instances, EndAllRelease(i) PROVE LaunchHas'
  BY <1>11 DEF EndAllRelease, Release, RecoveryTypeOK, LaunchHas, osVars, launchVars, startVars,
     ledgerVars
<1>12. ASSUME AgentGone PROVE LaunchHas'
  BY <1>12 DEF AgentGone, NewLedger, NotEnding, RecoveryTypeOK, LaunchHas, osVars, launchVars,
     startVars, ledgerVars
<1>13. ASSUME RecoverAdopt PROVE LaunchHas'
  BY <1>13, LedgerAssumption DEF RecoverAdopt, RecordOrphan, Release, RecoveryTypeOK,
     QuietStart, TodoJournaled, Record, LaunchHas, osVars, launchVars, startVars, ledgerVars
<1>14. ASSUME NEW i \in Instances, Measure(i) \/ StopRefused(i) \/ RecoverMissing(i) \/
                                   RecoverOrphan(i) \/ RecoverVerified(i)
      PROVE  LaunchHas'
  BY <1>14 DEF Measure, StopRefused, RecoverMissing, RecoverOrphan, RecoverVerified, LaunchHas,
     osVars, launchVars, startVars, ledgerVars
<1>15. ASSUME NEW p \in Pids, Exit(p) \/ ForeignStart(p) \/ CleanupBegin(p)
      PROVE  LaunchHas'
  BY <1>15 DEF Exit, ForeignStart, CleanupBegin, LaunchHas, osVars, launchVars, startVars,
     ledgerVars
<1>16. ASSUME Time \/ EndAllRequest \/ EndAllKill \/ EndAllDone \/ Boot \/ RecoverReserve
      PROVE  LaunchHas'
  BY <1>16 DEF Time, EndAllRequest, EndAllKill, EndAllDone, Boot, RecoverReserve, LaunchHas,
     osVars, launchVars, startVars, ledgerVars
<1>17. ASSUME Scan \/ Serve \/ CleanupPost \/ CleanupSignal \/ CleanupCheck
      PROVE  LaunchHas'
  BY <1>17 DEF Scan, Serve, CleanupPost, CleanupSignal, CleanupCheck, LaunchHas, osVars,
     launchVars, startVars, ledgerVars
<1>18. CASE UNCHANGED vars
  BY <1>18 DEF vars, LaunchHas, osVars, launchVars, startVars, ledgerVars
<1> QED BY <1>1, <1>2, <1>3, <1>4, <1>5, <1>6, <1>7, <1>8, <1>9, <1>10, <1>11, <1>12, <1>13,
    <1>14, <1>15, <1>16, <1>17, <1>18
  DEF Next, Host, Launching, Managing, Recovering, CleaningUp, Shutdown, Crash

LEMMA QuietStep ==
  ASSUME RecoveryTypeOK, QuietStart, TodoJournaled, [Next]_vars
  PROVE  QuietStart'
<1>1. ASSUME NEW i \in Instances, LaunchAllocate(i) PROVE QuietStart'
  BY <1>1 DEF LaunchAllocate, RecoveryTypeOK, QuietStart, osVars, launchVars, startVars,
     ledgerVars
<1>2. ASSUME NEW i \in Instances, LaunchReserve(i) PROVE QuietStart'
  BY <1>2 DEF LaunchReserve, Reserve, ReserveRefused, RecoveryTypeOK, QuietStart, osVars,
     launchVars, startVars, ledgerVars
<1>3. ASSUME NEW i \in Instances, LaunchRaises(i) PROVE QuietStart'
  BY <1>3 DEF LaunchRaises, RecoveryTypeOK, QuietStart, osVars, launchVars, startVars,
     ledgerVars
<1>4. ASSUME NEW i \in Instances, LaunchSpawn(i) PROVE QuietStart'
  BY <1>4 DEF LaunchSpawn, Spawn, RecoveryTypeOK, QuietStart, osVars, launchVars, startVars,
     ledgerVars
<1>5. ASSUME NEW i \in Instances, LaunchPersist(i) PROVE QuietStart'
  BY <1>5 DEF LaunchPersist, Persist, RecordOf, RecoveryTypeOK, QuietStart, osVars, launchVars,
     startVars, ledgerVars
<1>6. ASSUME NEW i \in Instances, LaunchFinish(i) PROVE QuietStart'
  BY <1>6 DEF LaunchFinish, Persist, RecordOf, RecoveryTypeOK, QuietStart, osVars, launchVars,
     startVars, ledgerVars
<1>7. ASSUME NEW i \in Instances, LaunchAbort(i) PROVE QuietStart'
  BY <1>7 DEF LaunchAbort, SignalManaged, Signal, Release, RecoveryTypeOK, QuietStart, osVars,
     launchVars, startVars, ledgerVars
<1>8. ASSUME NEW i \in Instances, StopBegin(i) PROVE QuietStart'
  BY <1>8 DEF StopBegin, PostStop, Listener, Asked, RecoveryTypeOK, MayStop, QuietStart, osVars,
     launchVars, startVars, ledgerVars
<1>9. ASSUME NEW i \in Instances, StopFinish(i) PROVE QuietStart'
  BY <1>9 DEF StopFinish, SignalManaged, Signal, Release, RecoveryTypeOK, QuietStart, osVars,
     launchVars, startVars, ledgerVars
<1>10. ASSUME EndAllRequest PROVE QuietStart'
  BY <1>10 DEF EndAllRequest, NotEnding, RecoveryTypeOK, QuietStart, osVars, launchVars,
     startVars, ledgerVars
<1>11. ASSUME EndAllKill PROVE QuietStart'
  BY <1>11 DEF EndAllKill, NotEnding, RecoveryTypeOK, QuietStart, osVars, launchVars, startVars,
     ledgerVars
<1>12. ASSUME NEW i \in Instances, EndAllRelease(i) PROVE QuietStart'
  BY <1>12 DEF EndAllRelease, Release, NotEnding, QuietStart, osVars, launchVars, startVars,
     ledgerVars
<1>13. ASSUME EndAllDone PROVE QuietStart'
  BY <1>13 DEF EndAllDone, NotEnding, RecoveryTypeOK, QuietStart, osVars, launchVars, startVars,
     ledgerVars
<1>14. ASSUME AgentGone PROVE QuietStart'
  BY <1>14 DEF AgentGone, NewLedger, NotEnding, RecoveryTypeOK, QuietStart, osVars, launchVars,
     startVars, ledgerVars
<1>15. ASSUME Boot PROVE QuietStart'
  BY <1>15 DEF Boot, RecoveryTypeOK, QuietStart, osVars, launchVars, startVars, ledgerVars
<1>16. ASSUME NEW i \in Instances, RecoverOrphan(i) PROVE QuietStart'
  BY <1>16 DEF RecoverOrphan, RecordOrphan, Assessing, RecoveryTypeOK, QuietStart, osVars,
     launchVars, startVars, ledgerVars
<1>17. ASSUME RecoverReserve PROVE QuietStart'
  BY <1>17 DEF RecoverReserve, RecordOrphan, Reserve, ReserveRefused, TodoJournaled,
     RecoveryTypeOK, QuietStart, osVars, launchVars, startVars, ledgerVars
<1>18. ASSUME RecoverAdopt PROVE QuietStart'
  BY <1>18 DEF RecoverAdopt, RecordOrphan, Release, TodoJournaled, RecoveryTypeOK, QuietStart,
     osVars, launchVars, startVars, ledgerVars
<1>19. ASSUME Scan PROVE QuietStart'
  BY <1>19 DEF Scan, RecoveryTypeOK, QuietStart, osVars, launchVars, startVars, ledgerVars
<1>20. ASSUME Serve PROVE QuietStart'
  BY <1>20 DEF Serve, RecoveryTypeOK, QuietStart, osVars, launchVars, startVars, ledgerVars
<1>21. ASSUME NEW p \in Pids, CleanupBegin(p) PROVE QuietStart'
  BY <1>21 DEF CleanupBegin, RecoveryTypeOK, QuietStart, osVars, launchVars, startVars,
     ledgerVars
<1>22. ASSUME CleanupPost PROVE QuietStart'
  BY <1>22 DEF CleanupPost, CleanupStep, PostStop, Listener, Asked, RecoveryTypeOK, QuietStart,
     osVars, launchVars, startVars, ledgerVars
<1>23. ASSUME CleanupSignal PROVE QuietStart'
  BY <1>23 DEF CleanupSignal, CleanupStep, Signal, RecoveryTypeOK, QuietStart, osVars,
     launchVars, startVars, ledgerVars
<1>24. ASSUME CleanupCheck PROVE QuietStart'
  BY <1>24 DEF CleanupCheck, RecoveryTypeOK, QuietStart, osVars, launchVars, startVars,
     ledgerVars
<1>25. ASSUME NEW i \in Instances, Poll(i) \/ Measure(i) \/ StopRefused(i) \/
                                   RecoverMissing(i) \/ RecoverVerified(i)
      PROVE  QuietStart'
  BY <1>25 DEF Poll, Measure, StopRefused, RecoverMissing, RecoverVerified, QuietStart, osVars,
     launchVars, startVars, ledgerVars
<1>26. ASSUME NEW p \in Pids, Exit(p) \/ ForeignStart(p)
      PROVE  QuietStart'
  BY <1>26 DEF Exit, ForeignStart, QuietStart, osVars, launchVars, startVars, ledgerVars
<1>27. ASSUME Time
      PROVE  QuietStart'
  BY <1>27 DEF Time, QuietStart, osVars, launchVars, startVars, ledgerVars
<1>28. CASE UNCHANGED vars
  BY <1>28 DEF vars, QuietStart, osVars, launchVars, startVars, ledgerVars
<1> QED BY <1>1, <1>2, <1>3, <1>4, <1>5, <1>6, <1>7, <1>8, <1>9, <1>10, <1>11, <1>12, <1>13,
    <1>14, <1>15, <1>16, <1>17, <1>18, <1>19, <1>20, <1>21, <1>22, <1>23, <1>24, <1>25, <1>26,
    <1>27, <1>28
  DEF Next, Host, Launching, Managing, Recovering, CleaningUp, Shutdown, Crash

LEMMA JournalsStep ==
  ASSUME RecoveryTypeOK, LaunchHas, JournalsNameTheirInstance, [Next]_vars
  PROVE  JournalsNameTheirInstance'
<1>1. ASSUME NEW i \in Instances, LaunchPersist(i) PROVE JournalsNameTheirInstance'
  BY <1>1, RecoveryAssumption DEF LaunchPersist, Persist, RecordOf, RecoveryTypeOK,
     JournalsNameTheirInstance, osVars, launchVars, startVars, ledgerVars
<1>2. ASSUME NEW i \in Instances, LaunchFinish(i) PROVE JournalsNameTheirInstance'
  BY <1>2, RecoveryAssumption DEF LaunchFinish, Persist, RecordOf, RecoveryTypeOK,
     JournalsNameTheirInstance, osVars, launchVars, startVars, ledgerVars
<1>3. ASSUME NEW i \in Instances, LaunchAbort(i) PROVE JournalsNameTheirInstance'
  BY <1>3, RecoveryAssumption DEF LaunchAbort, SignalManaged, Signal, Release, RecoveryTypeOK,
     JournalsNameTheirInstance, osVars, launchVars, startVars, ledgerVars
<1>4. ASSUME NEW i \in Instances, StopFinish(i) PROVE JournalsNameTheirInstance'
  BY <1>4, RecoveryAssumption DEF StopFinish, SignalManaged, Signal, Release, RecoveryTypeOK,
     JournalsNameTheirInstance, osVars, launchVars, startVars, ledgerVars
<1>5. ASSUME NEW i \in Instances, RecoverMissing(i) PROVE JournalsNameTheirInstance'
  BY <1>5, RecoveryAssumption DEF RecoverMissing, Assessing, RecoveryTypeOK,
     JournalsNameTheirInstance, osVars, launchVars, startVars, ledgerVars
<1>6. ASSUME CleanupCheck PROVE JournalsNameTheirInstance'
  BY <1>6, RecoveryAssumption DEF CleanupCheck, RecoveryTypeOK, JournalsNameTheirInstance,
     osVars, launchVars, startVars, ledgerVars
<1>7. ASSUME NEW i \in Instances, LaunchAllocate(i) \/ LaunchReserve(i) \/ LaunchRaises(i) \/
                                  LaunchSpawn(i) \/ Poll(i) \/ Measure(i)
      PROVE  JournalsNameTheirInstance'
  BY <1>7 DEF LaunchAllocate, LaunchReserve, LaunchRaises, LaunchSpawn, Poll, Measure,
     JournalsNameTheirInstance, osVars, launchVars, startVars, ledgerVars
<1>8. ASSUME NEW i \in Instances, StopRefused(i) \/ StopBegin(i) \/ EndAllRelease(i) \/
                                  RecoverOrphan(i) \/ RecoverVerified(i)
      PROVE  JournalsNameTheirInstance'
  BY <1>8 DEF StopRefused, StopBegin, EndAllRelease, RecoverOrphan, RecoverVerified,
     JournalsNameTheirInstance, osVars, launchVars, startVars, ledgerVars
<1>9. ASSUME NEW p \in Pids, Exit(p) \/ ForeignStart(p) \/ CleanupBegin(p)
      PROVE  JournalsNameTheirInstance'
  BY <1>9 DEF Exit, ForeignStart, CleanupBegin, JournalsNameTheirInstance, osVars, launchVars,
     startVars, ledgerVars
<1>10. ASSUME Time \/ EndAllRequest \/ EndAllKill \/ EndAllDone \/ AgentGone \/ Boot
      PROVE  JournalsNameTheirInstance'
  BY <1>10 DEF Time, EndAllRequest, EndAllKill, EndAllDone, AgentGone, Boot,
     JournalsNameTheirInstance, osVars, launchVars, startVars, ledgerVars
<1>11. ASSUME RecoverReserve \/ RecoverAdopt \/ Scan \/ Serve \/ CleanupPost \/ CleanupSignal
      PROVE  JournalsNameTheirInstance'
  BY <1>11 DEF RecoverReserve, RecoverAdopt, Scan, Serve, CleanupPost, CleanupSignal,
     JournalsNameTheirInstance, osVars, launchVars, startVars, ledgerVars
<1>12. CASE UNCHANGED vars
  BY <1>12 DEF vars, JournalsNameTheirInstance, osVars, launchVars, startVars, ledgerVars
<1> QED BY <1>1, <1>2, <1>3, <1>4, <1>5, <1>6, <1>7, <1>8, <1>9, <1>10, <1>11, <1>12
  DEF Next, Host, Launching, Managing, Recovering, CleaningUp, Shutdown, Crash

LEMMA TodoStep ==
  ASSUME RecoveryTypeOK, QuietStart, JournalsNameTheirInstance, TodoJournaled, [Next]_vars
  PROVE  TodoJournaled'
<1>1. ASSUME NEW i \in Instances, LaunchSpawn(i) PROVE TodoJournaled'
  BY <1>1 DEF LaunchSpawn, Spawn, RecoveryTypeOK, QuietStart, JournalsNameTheirInstance,
     TodoJournaled, osVars, launchVars, startVars, ledgerVars
<1>2. ASSUME NEW i \in Instances, LaunchPersist(i) PROVE TodoJournaled'
  BY <1>2 DEF LaunchPersist, Persist, RecordOf, RecoveryTypeOK, QuietStart,
     JournalsNameTheirInstance, TodoJournaled, osVars, launchVars, startVars, ledgerVars
<1>3. ASSUME NEW i \in Instances, LaunchFinish(i) PROVE TodoJournaled'
  BY <1>3 DEF LaunchFinish, Persist, RecordOf, RecoveryTypeOK, QuietStart,
     JournalsNameTheirInstance, TodoJournaled, osVars, launchVars, startVars, ledgerVars
<1>4. ASSUME NEW i \in Instances, LaunchAbort(i) PROVE TodoJournaled'
  BY <1>4 DEF LaunchAbort, SignalManaged, Signal, Release, RecoveryTypeOK, QuietStart,
     JournalsNameTheirInstance, TodoJournaled, osVars, launchVars, startVars, ledgerVars
<1>5. ASSUME NEW i \in Instances, StopFinish(i) PROVE TodoJournaled'
  BY <1>5 DEF StopFinish, SignalManaged, Signal, Release, RecoveryTypeOK, QuietStart,
     JournalsNameTheirInstance, TodoJournaled, osVars, launchVars, startVars, ledgerVars
<1>6. ASSUME AgentGone PROVE TodoJournaled'
  BY <1>6 DEF AgentGone, NewLedger, NotEnding, RecoveryTypeOK, QuietStart,
     JournalsNameTheirInstance, TodoJournaled, osVars, launchVars, startVars, ledgerVars
<1>7. ASSUME Boot PROVE TodoJournaled'
  BY <1>7 DEF Boot, RecoveryTypeOK, QuietStart, JournalsNameTheirInstance, TodoJournaled,
     osVars, launchVars, startVars, ledgerVars
<1>8. ASSUME NEW i \in Instances, RecoverMissing(i) PROVE TodoJournaled'
  BY <1>8 DEF RecoverMissing, Assessing, RecoveryTypeOK, QuietStart, JournalsNameTheirInstance,
     TodoJournaled, osVars, launchVars, startVars, ledgerVars
<1>9. ASSUME NEW i \in Instances, RecoverOrphan(i) PROVE TodoJournaled'
  BY <1>9 DEF RecoverOrphan, RecordOrphan, Assessing, RecoveryTypeOK, QuietStart,
     JournalsNameTheirInstance, TodoJournaled, osVars, launchVars, startVars, ledgerVars
<1>10. ASSUME NEW i \in Instances, RecoverVerified(i) PROVE TodoJournaled'
  BY <1>10 DEF RecoverVerified, Assessing, RecoveryTypeOK, QuietStart,
     JournalsNameTheirInstance, TodoJournaled, osVars, launchVars, startVars, ledgerVars
<1>11. ASSUME RecoverReserve PROVE TodoJournaled'
  BY <1>11 DEF RecoverReserve, RecordOrphan, Reserve, ReserveRefused, RecoveryTypeOK,
     QuietStart, JournalsNameTheirInstance, TodoJournaled, osVars, launchVars, startVars,
     ledgerVars
<1>12. ASSUME RecoverAdopt PROVE TodoJournaled'
  BY <1>12 DEF RecoverAdopt, RecordOrphan, Release, RecoveryTypeOK, QuietStart,
     JournalsNameTheirInstance, TodoJournaled, osVars, launchVars, startVars, ledgerVars
<1>13. ASSUME Scan PROVE TodoJournaled'
  BY <1>13 DEF Scan, RecoveryTypeOK, QuietStart, JournalsNameTheirInstance, TodoJournaled,
     osVars, launchVars, startVars, ledgerVars
<1>14. ASSUME Serve PROVE TodoJournaled'
  BY <1>14 DEF Serve, RecoveryTypeOK, QuietStart, JournalsNameTheirInstance, TodoJournaled,
     osVars, launchVars, startVars, ledgerVars
<1>15. ASSUME CleanupCheck PROVE TodoJournaled'
  BY <1>15 DEF CleanupCheck, RecoveryTypeOK, QuietStart, JournalsNameTheirInstance,
     TodoJournaled, osVars, launchVars, startVars, ledgerVars
<1>16. ASSUME NEW i \in Instances, LaunchAllocate(i) \/ LaunchReserve(i) \/
                                   LaunchRaises(i) \/ Poll(i) \/ Measure(i) \/ StopRefused(i)
      PROVE  TodoJournaled'
  BY <1>16 DEF LaunchAllocate, LaunchReserve, LaunchRaises, Poll, Measure, StopRefused,
     TodoJournaled, osVars, launchVars, startVars, ledgerVars
<1>17. ASSUME NEW i \in Instances, StopBegin(i) \/ EndAllRelease(i)
      PROVE  TodoJournaled'
  BY <1>17 DEF StopBegin, EndAllRelease, TodoJournaled, osVars, launchVars, startVars,
     ledgerVars
<1>18. ASSUME NEW p \in Pids, Exit(p) \/ ForeignStart(p) \/ CleanupBegin(p)
      PROVE  TodoJournaled'
  BY <1>18 DEF Exit, ForeignStart, CleanupBegin, TodoJournaled, osVars, launchVars, startVars,
     ledgerVars
<1>19. ASSUME Time \/ EndAllRequest \/ EndAllKill \/ EndAllDone \/ CleanupPost \/
              CleanupSignal
      PROVE  TodoJournaled'
  BY <1>19 DEF Time, EndAllRequest, EndAllKill, EndAllDone, CleanupPost, CleanupSignal,
     TodoJournaled, osVars, launchVars, startVars, ledgerVars
<1>20. CASE UNCHANGED vars
  BY <1>20 DEF vars, TodoJournaled, osVars, launchVars, startVars, ledgerVars
<1> QED BY <1>1, <1>2, <1>3, <1>4, <1>5, <1>6, <1>7, <1>8, <1>9, <1>10, <1>11, <1>12, <1>13,
    <1>14, <1>15, <1>16, <1>17, <1>18, <1>19, <1>20
  DEF Next, Host, Launching, Managing, Recovering, CleaningUp, Shutdown, Crash

-----------------------------------------------------------------------------
(* The ledger.                                                             *)

LEMMA ReserveWeakens ==
  ASSUME NEW i, NEW bytes, NEW ps, NEW sys, NEW h, Reserve(i, bytes, ps, sys, h)
  PROVE  Reserve(i, bytes, ps, None, h)
BY DEF Reserve, Admissible, Fits

LEMMA ResizeWeakens ==
  ASSUME NEW i, NEW bytes, NEW sys, NEW h, Resize(i, bytes, sys, h)
  PROVE  Resize(i, bytes, None, h)
BY DEF Resize, Fits

LEMMA LedgerStep ==
  ASSUME RecoveryTypeOK, LaunchHas, [Next]_vars
  PROVE  [LedgerNext]_ledgerVars
<1>1. ASSUME Time PROVE [LedgerNext]_ledgerVars
  BY <1>1 DEF Time, LedgerNext
<1>2. ASSUME NEW i \in Instances, LaunchReserve(i) PROVE [LedgerNext]_ledgerVars
  <2>1. PICK sys \in Observed(i) :
          \/ Reserve(i, Size[i], OwnPorts(i, port[i]), sys, Headroom[i])
          \/ ReserveRefused(i, Size[i], OwnPorts(i, port[i]), sys, Headroom[i])
    BY <1>2 DEF LaunchReserve
  <2>2. OwnPorts(i, port[i]) \subseteq Ports
    BY <1>2 DEF LaunchReserve, LaunchHas, OwnPorts, RecoveryTypeOK
  <2>3. Size[i] \in Amounts /\ Headroom[i] \in Headrooms
    BY RecoveryAssumption
  <2> QED BY <2>1, <2>2, <2>3, ReserveWeakens DEF ReserveRefused, LedgerNext
<1>3. ASSUME NEW i \in Instances, LaunchAbort(i) PROVE [LedgerNext]_ledgerVars
  BY <1>3 DEF LaunchAbort, LedgerNext
<1>4. ASSUME NEW i \in Instances, Measure(i) PROVE [LedgerNext]_ledgerVars
  <2>1. PICK o \in Observations, sys \in Observed(i) :
          Resize(i, Recommended(o, Floor[i]), sys, Headroom[i])
    BY <1>4 DEF Measure, Reconcile
  <2>2. Recommended(o, Floor[i]) \in Amounts /\ Headroom[i] \in Headrooms
    BY RecoveryAssumption
  <2> QED BY <2>1, <2>2, ResizeWeakens DEF LedgerNext
<1>5. ASSUME NEW i \in Instances, StopFinish(i) PROVE [LedgerNext]_ledgerVars
  BY <1>5 DEF StopFinish, LedgerNext
<1>6. ASSUME NEW i \in Instances, EndAllRelease(i) PROVE [LedgerNext]_ledgerVars
  BY <1>6 DEF EndAllRelease, LedgerNext
<1>7. ASSUME AgentGone PROVE [LedgerNext]_ledgerVars
  BY <1>7 DEF AgentGone, LedgerNext
<1>8. ASSUME RecoverReserve PROVE [LedgerNext]_ledgerVars
  <2> DEFINE r == adopting.rec
  <2>1. PICK sys \in Observed(r.inst) :
          \/ Reserve(r.inst, Size[r.inst], OwnPorts(r.inst, r.port), sys, Headroom[r.inst])
          \/ ReserveRefused(r.inst, Size[r.inst], OwnPorts(r.inst, r.port), sys, Headroom[r.inst])
    BY <1>8 DEF RecoverReserve
  <2>2. r \in Record
    BY <1>8 DEF RecoverReserve, RecoveryTypeOK
  <2>3. r.inst \in Instances /\ OwnPorts(r.inst, r.port) \subseteq Ports
    BY <2>2 DEF Record, OwnPorts
  <2>4. Size[r.inst] \in Amounts /\ Headroom[r.inst] \in Headrooms
    BY <2>3, RecoveryAssumption
  <2> HIDE DEF r
  <2> QED BY <2>1, <2>3, <2>4, ReserveWeakens DEF ReserveRefused, LedgerNext
<1>9. ASSUME RecoverAdopt PROVE [LedgerNext]_ledgerVars
  <2>1. adopting.rec.inst \in Instances
    BY <1>9 DEF RecoverAdopt, RecoveryTypeOK, Record
  <2> QED BY <1>9, <2>1 DEF RecoverAdopt, LedgerNext, ledgerVars
<1>10. ASSUME NEW i \in Instances, LaunchAllocate(i) \/ LaunchRaises(i) \/ LaunchSpawn(i) \/
                                   LaunchPersist(i) \/ LaunchFinish(i) \/ Poll(i)
      PROVE  [LedgerNext]_ledgerVars
  BY <1>10 DEF LaunchAllocate, LaunchRaises, LaunchSpawn, LaunchPersist, LaunchFinish, Poll,
     LedgerNext, osVars, launchVars, startVars, ledgerVars
<1>11. ASSUME NEW i \in Instances, StopRefused(i) \/ StopBegin(i) \/ RecoverMissing(i) \/
                                   RecoverOrphan(i) \/ RecoverVerified(i)
      PROVE  [LedgerNext]_ledgerVars
  BY <1>11 DEF StopRefused, StopBegin, RecoverMissing, RecoverOrphan, RecoverVerified,
     LedgerNext, osVars, launchVars, startVars, ledgerVars
<1>12. ASSUME NEW p \in Pids, Exit(p) \/ ForeignStart(p) \/ CleanupBegin(p)
      PROVE  [LedgerNext]_ledgerVars
  BY <1>12 DEF Exit, ForeignStart, CleanupBegin, LedgerNext, osVars, launchVars, startVars,
     ledgerVars
<1>13. ASSUME EndAllRequest \/ EndAllKill \/ EndAllDone \/ Boot \/ Scan \/ Serve
      PROVE  [LedgerNext]_ledgerVars
  BY <1>13 DEF EndAllRequest, EndAllKill, EndAllDone, Boot, Scan, Serve, LedgerNext, osVars,
     launchVars, startVars, ledgerVars
<1>14. ASSUME CleanupPost \/ CleanupSignal \/ CleanupCheck
      PROVE  [LedgerNext]_ledgerVars
  BY <1>14 DEF CleanupPost, CleanupSignal, CleanupCheck, LedgerNext, osVars, launchVars,
     startVars, ledgerVars
<1>15. CASE UNCHANGED vars
  BY <1>15 DEF vars, LedgerNext, osVars, launchVars, startVars, ledgerVars
<1> QED BY <1>1, <1>2, <1>3, <1>4, <1>5, <1>6, <1>7, <1>8, <1>9, <1>10, <1>11, <1>12, <1>13,
    <1>14, <1>15
  DEF Next, Host, Launching, Managing, Recovering, CleaningUp, Shutdown, Crash

-----------------------------------------------------------------------------
(* Processes and their names.                                              *)

(* No process changes its owner or its birth.                              *)
SameProcs ==
  \A p \in Pids : procs'[p] # None =>
    /\ procs[p] # None
    /\ procs'[p].owner = procs[p].owner /\ procs'[p].born = procs[p].born

LEMMA SignalSame ==
  ASSUME ProcsTyped, NEW q \in Pids, procs[q] # None, Signal(q)
  PROVE  SameProcs
<1>1. procs[q] \in Process
  BY DEF ProcsTyped
<1> QED BY <1>1 DEF SameProcs, Signal, Process, ProcsTyped

LEMMA SignalManagedSame ==
  ASSUME ProcsTyped, HandlesTyped, NEW i \in Instances, SignalManaged(i)
  PROVE  SameProcs
<1>1. CASE Running(i)
  <2>1. handle[i].pid \in Pids /\ procs[handle[i].pid] # None
    BY <1>1 DEF Running, Handle, HandlesTyped
  <2> QED BY <1>1, <2>1, SignalSame DEF SignalManaged
<1>2. CASE ~Running(i)
  BY <1>2 DEF SignalManaged, SameProcs
<1> QED BY <1>1, <1>2

LEMMA PostStopSame ==
  ASSUME ProcsTyped, NEW prt, PostStop(prt)
  PROVE  SameProcs
<1>1. ASSUME NEW p \in Pids, procs[p] # None
      PROVE  Asked(procs[p]).owner = procs[p].owner /\ Asked(procs[p]).born = procs[p].born
  <2>1. procs[p] \in Process
    BY <1>1 DEF ProcsTyped
  <2> QED BY <2>1 DEF Process, Asked
<1> QED BY <1>1 DEF SameProcs, ProcsTyped, PostStop, Listener

LEMMA ProcsStep ==
  ASSUME RecoveryTypeOK, [Next]_vars
  PROVE  births' = births => SameProcs
<1>1. ASSUME NEW p \in Pids, Exit(p) PROVE births' = births => SameProcs
  BY <1>1 DEF Exit, RecoveryTypeOK, SameProcs, osVars, launchVars, startVars, ledgerVars
<1>2. ASSUME NEW p \in Pids, ForeignStart(p) PROVE births' = births => SameProcs
  BY <1>2 DEF ForeignStart, Spawn, RecoveryTypeOK, SameProcs, osVars, launchVars, startVars,
     ledgerVars
<1>3. ASSUME NEW i \in Instances, LaunchSpawn(i) PROVE births' = births => SameProcs
  BY <1>3 DEF LaunchSpawn, Spawn, RecoveryTypeOK, SameProcs, osVars, launchVars, startVars,
     ledgerVars
<1>4. ASSUME NEW i \in Instances, LaunchAbort(i) PROVE births' = births => SameProcs
  BY <1>4, SignalManagedSame DEF LaunchAbort, ProcsTyped, HandlesTyped, RecoveryTypeOK
<1>5. ASSUME NEW i \in Instances, StopBegin(i) PROVE births' = births => SameProcs
  BY <1>5, PostStopSame DEF StopBegin, ProcsTyped, RecoveryTypeOK
<1>6. ASSUME NEW i \in Instances, StopFinish(i) PROVE births' = births => SameProcs
  BY <1>6, SignalManagedSame DEF StopFinish, SameProcs, ProcsTyped, HandlesTyped, RecoveryTypeOK
<1>7. ASSUME EndAllRequest PROVE births' = births => SameProcs
  <2>1. ASSUME NEW p \in Pids, Managed(p)
        PROVE  procs[p] # None /\ Asked(procs[p]).owner = procs[p].owner
               /\ Asked(procs[p]).born = procs[p].born
    <3>1. procs[p] \in Process /\ procs[p] # None
      BY <2>1 DEF Managed, Manages, Running, Handle, RecoveryTypeOK
    <3> QED BY <3>1 DEF Process, Asked
  <2> QED BY <1>7, <2>1 DEF EndAllRequest, SameProcs, RecoveryTypeOK
<1>8. ASSUME EndAllKill PROVE births' = births => SameProcs
  <2>1. ASSUME NEW p \in Pids, Managed(p)
        PROVE  procs[p] # None /\ [procs[p] EXCEPT !.told = "signalled"].owner = procs[p].owner
               /\ [procs[p] EXCEPT !.told = "signalled"].born = procs[p].born
    <3>1. procs[p] \in Process /\ procs[p] # None
      BY <2>1 DEF Managed, Manages, Running, Handle, RecoveryTypeOK
    <3> QED BY <3>1 DEF Process
  <2> QED BY <1>8, <2>1 DEF EndAllKill, SameProcs, RecoveryTypeOK
<1>9. ASSUME CleanupPost PROVE births' = births => SameProcs
  BY <1>9, PostStopSame DEF CleanupPost, ProcsTyped, SameProcs, RecoveryTypeOK
<1>10. ASSUME CleanupSignal PROVE births' = births => SameProcs
  <2>1. cleaning.rec.pid \in Pids
    BY <1>10 DEF CleanupSignal, CleanupStep, Record, RecoveryTypeOK
  <2> QED BY <1>10, <2>1, SignalSame DEF CleanupSignal, Matches, ProcsTyped, SameProcs,
     RecoveryTypeOK
<1>11. ASSUME NEW i \in Instances, LaunchAllocate(i) \/ LaunchReserve(i) \/
                                   LaunchRaises(i) \/ LaunchPersist(i) \/ LaunchFinish(i) \/
                                   Poll(i)
      PROVE  births' = births => SameProcs
  BY <1>11 DEF LaunchAllocate, LaunchReserve, LaunchRaises, LaunchPersist, LaunchFinish, Poll,
     SameProcs, osVars, launchVars, startVars, ledgerVars
<1>12. ASSUME NEW i \in Instances, Measure(i) \/ StopRefused(i) \/ EndAllRelease(i) \/
                                   RecoverMissing(i) \/ RecoverOrphan(i) \/ RecoverVerified(i)
      PROVE  births' = births => SameProcs
  BY <1>12 DEF Measure, StopRefused, EndAllRelease, RecoverMissing, RecoverOrphan,
     RecoverVerified, SameProcs, osVars, launchVars, startVars, ledgerVars
<1>13. ASSUME NEW p \in Pids, CleanupBegin(p)
      PROVE  births' = births => SameProcs
  BY <1>13 DEF CleanupBegin, SameProcs, osVars, launchVars, startVars, ledgerVars
<1>14. ASSUME Time \/ EndAllDone \/ AgentGone \/ Boot \/ RecoverReserve \/ RecoverAdopt
      PROVE  births' = births => SameProcs
  BY <1>14 DEF Time, EndAllDone, AgentGone, Boot, RecoverReserve, RecoverAdopt, SameProcs,
     osVars, launchVars, startVars, ledgerVars
<1>15. ASSUME Scan \/ Serve \/ CleanupCheck
      PROVE  births' = births => SameProcs
  BY <1>15 DEF Scan, Serve, CleanupCheck, SameProcs, osVars, launchVars, startVars, ledgerVars
<1>16. CASE UNCHANGED vars
  BY <1>16 DEF vars, SameProcs, osVars, launchVars, startVars, ledgerVars
<1> QED BY <1>1, <1>2, <1>3, <1>4, <1>5, <1>6, <1>7, <1>8, <1>9, <1>10, <1>11, <1>12, <1>13,
    <1>14, <1>15, <1>16
  DEF Next, Host, Launching, Managing, Recovering, CleaningUp, Shutdown, Crash

LEMMA BirthsStep ==
  ASSUME RecoveryTypeOK, TodoJournaled, LaunchHas, BirthsBound, [Next]_vars
  PROVE  BirthsBound'
<1>1. ASSUME NEW p \in Pids, Exit(p) PROVE BirthsBound'
  BY <1>1, RecoveryAssumption DEF Exit, RecoveryTypeOK, TodoJournaled, LaunchHas, Record,
     Process, Handle, BirthsBound, osVars, launchVars, startVars, ledgerVars
<1>2. ASSUME NEW p \in Pids, ForeignStart(p) PROVE BirthsBound'
  BY <1>2, RecoveryAssumption DEF ForeignStart, Spawn, RecoveryTypeOK, TodoJournaled, LaunchHas,
     Record, Process, Handle, BirthsBound, osVars, launchVars, startVars, ledgerVars
<1>3. ASSUME NEW i \in Instances, LaunchSpawn(i) PROVE BirthsBound'
  BY <1>3, RecoveryAssumption DEF LaunchSpawn, Spawn, RecoveryTypeOK, TodoJournaled, LaunchHas,
     Record, Process, Handle, BirthsBound, osVars, launchVars, startVars, ledgerVars
<1>4. ASSUME NEW i \in Instances, LaunchPersist(i) PROVE BirthsBound'
  BY <1>4, RecoveryAssumption DEF LaunchPersist, Persist, RecordOf, RecoveryTypeOK,
     TodoJournaled, LaunchHas, Record, Process, Handle, BirthsBound, osVars, launchVars,
     startVars, ledgerVars
<1>5. ASSUME NEW i \in Instances, LaunchFinish(i) PROVE BirthsBound'
  BY <1>5, RecoveryAssumption DEF LaunchFinish, Persist, RecordOf, RecoveryTypeOK,
     TodoJournaled, LaunchHas, Record, Process, Handle, BirthsBound, osVars, launchVars,
     startVars, ledgerVars
<1>6. ASSUME NEW i \in Instances, LaunchAbort(i) PROVE BirthsBound'
  <2>1. SameProcs
    BY <1>6, ProcsStep DEF LaunchAbort
  <2> QED BY <1>6, <2>1 DEF LaunchAbort, SameProcs, RecoveryTypeOK, BirthsBound, osVars,
      launchVars, startVars, ledgerVars
<1>7. ASSUME NEW i \in Instances, StopBegin(i) PROVE BirthsBound'
  <2>1. SameProcs
    BY <1>7, ProcsStep DEF StopBegin
  <2> QED BY <1>7, <2>1 DEF StopBegin, SameProcs, RecoveryTypeOK, BirthsBound, osVars,
      launchVars, startVars, ledgerVars
<1>8. ASSUME NEW i \in Instances, StopFinish(i) PROVE BirthsBound'
  <2>1. SameProcs
    BY <1>8, ProcsStep DEF StopFinish
  <2> QED BY <1>8, <2>1 DEF StopFinish, SameProcs, RecoveryTypeOK, BirthsBound, osVars,
      launchVars, startVars, ledgerVars
<1>9. ASSUME EndAllRequest PROVE BirthsBound'
  <2>1. SameProcs
    BY <1>9, ProcsStep DEF EndAllRequest
  <2> QED BY <1>9, <2>1 DEF EndAllRequest, SameProcs, RecoveryTypeOK, BirthsBound, osVars,
      launchVars, startVars, ledgerVars
<1>10. ASSUME EndAllKill PROVE BirthsBound'
  <2>1. SameProcs
    BY <1>10, ProcsStep DEF EndAllKill
  <2> QED BY <1>10, <2>1 DEF EndAllKill, SameProcs, RecoveryTypeOK, BirthsBound, osVars,
      launchVars, startVars, ledgerVars
<1>11. ASSUME AgentGone PROVE BirthsBound'
  BY <1>11, RecoveryAssumption DEF AgentGone, NewLedger, NotEnding, RecoveryTypeOK,
     TodoJournaled, LaunchHas, Record, Process, Handle, BirthsBound, osVars, launchVars,
     startVars, ledgerVars
<1>12. ASSUME NEW i \in Instances, RecoverMissing(i) PROVE BirthsBound'
  BY <1>12, RecoveryAssumption DEF RecoverMissing, Assessing, RecoveryTypeOK, TodoJournaled,
     LaunchHas, Record, Process, Handle, BirthsBound, osVars, launchVars, startVars, ledgerVars
<1>13. ASSUME NEW i \in Instances, RecoverOrphan(i) PROVE BirthsBound'
  BY <1>13, RecoveryAssumption DEF RecoverOrphan, RecordOrphan, Assessing, RecoveryTypeOK,
     TodoJournaled, LaunchHas, Record, Process, Handle, BirthsBound, osVars, launchVars,
     startVars, ledgerVars
<1>14. ASSUME RecoverReserve PROVE BirthsBound'
  BY <1>14, RecoveryAssumption DEF RecoverReserve, RecordOrphan, Reserve, ReserveRefused,
     RecoveryTypeOK, TodoJournaled, LaunchHas, Record, Process, Handle, BirthsBound, osVars,
     launchVars, startVars, ledgerVars
<1>15. ASSUME RecoverAdopt PROVE BirthsBound'
  BY <1>15, RecoveryAssumption DEF RecoverAdopt, RecordOrphan, Release, RecoveryTypeOK,
     TodoJournaled, LaunchHas, Record, Process, Handle, BirthsBound, osVars, launchVars,
     startVars, ledgerVars
<1>16. ASSUME NEW p \in Pids, CleanupBegin(p) PROVE BirthsBound'
  <2>1. cleaning' = cleaning \/ (fenced[p] # None /\ cleaning' = [rec |-> fenced[p],
     step |-> "post"])
    BY <1>16 DEF CleanupBegin
  <2>2. \A q \in Pids : fenced'[q] = None \/ fenced'[q] = fenced[q]
    BY <1>16 DEF CleanupBegin, RecoveryTypeOK
  <2> QED BY <1>16, <2>1, <2>2 DEF CleanupBegin, BirthsBound, osVars, launchVars
<1>17. ASSUME CleanupPost PROVE BirthsBound'
  <2>1. SameProcs
    BY <1>17, ProcsStep DEF CleanupPost
  <2> QED BY <1>17, <2>1 DEF CleanupPost, CleanupStep, SameProcs, RecoveryTypeOK, BirthsBound,
      osVars, launchVars, startVars, ledgerVars
<1>18. ASSUME CleanupSignal PROVE BirthsBound'
  <2>1. SameProcs
    BY <1>18, ProcsStep DEF CleanupSignal
  <2> QED BY <1>18, <2>1 DEF CleanupSignal, CleanupStep, SameProcs, RecoveryTypeOK,
      BirthsBound, osVars, launchVars, startVars, ledgerVars
<1>19. ASSUME CleanupCheck PROVE BirthsBound'
  <2>1. \A q \in Pids : fenced'[q] = None \/ fenced'[q] = fenced[q]
    BY <1>19 DEF CleanupCheck, RecoveryTypeOK
  <2>2. \A i \in Instances : journal'[i] = None \/ journal'[i] = journal[i]
    BY <1>19 DEF CleanupCheck, RecoveryTypeOK
  <2> QED BY <1>19, <2>1, <2>2 DEF CleanupCheck, BirthsBound, launchVars
<1>20. ASSUME NEW i \in Instances, LaunchAllocate(i) \/ LaunchReserve(i) \/
                                   LaunchRaises(i) \/ Poll(i) \/ Measure(i) \/ StopRefused(i)
      PROVE  BirthsBound'
  BY <1>20 DEF LaunchAllocate, LaunchReserve, LaunchRaises, Poll, Measure, StopRefused,
     BirthsBound, osVars, launchVars, startVars, ledgerVars
<1>21. ASSUME NEW i \in Instances, EndAllRelease(i) \/ RecoverVerified(i)
      PROVE  BirthsBound'
  BY <1>21 DEF EndAllRelease, RecoverVerified, BirthsBound, osVars, launchVars, startVars,
     ledgerVars
<1>22. ASSUME Time \/ EndAllDone \/ Boot \/ Scan \/ Serve
      PROVE  BirthsBound'
  BY <1>22 DEF Time, EndAllDone, Boot, Scan, Serve, BirthsBound, osVars, launchVars, startVars,
     ledgerVars
<1>23. CASE UNCHANGED vars
  BY <1>23 DEF vars, BirthsBound, osVars, launchVars, startVars, ledgerVars
<1> QED BY <1>1, <1>2, <1>3, <1>4, <1>5, <1>6, <1>7, <1>8, <1>9, <1>10, <1>11, <1>12, <1>13,
    <1>14, <1>15, <1>16, <1>17, <1>18, <1>19, <1>20, <1>21, <1>22, <1>23
  DEF Next, Host, Launching, Managing, Recovering, CleaningUp, Shutdown, Crash

LEMMA HandlesStep ==
  ASSUME RecoveryTypeOK, BirthsBound, HandlesOwn, [Next]_vars
  PROVE  HandlesOwn'
<1>1. ASSUME NEW p \in Pids, Exit(p) PROVE HandlesOwn'
  BY <1>1 DEF Exit, RecoveryTypeOK, BirthsBound, Handle, HandlesOwn, Running, osVars,
     launchVars, startVars, ledgerVars
<1>2. ASSUME NEW p \in Pids, ForeignStart(p) PROVE HandlesOwn'
  BY <1>2 DEF ForeignStart, Spawn, RecoveryTypeOK, BirthsBound, Handle, HandlesOwn, Running,
     osVars, launchVars, startVars, ledgerVars
<1>3. ASSUME NEW i \in Instances, LaunchSpawn(i) PROVE HandlesOwn'
  BY <1>3 DEF LaunchSpawn, Spawn, RecoveryTypeOK, BirthsBound, Handle, HandlesOwn, Running,
     osVars, launchVars, startVars, ledgerVars
<1>4. ASSUME NEW i \in Instances, LaunchAbort(i) PROVE HandlesOwn'
  <2>1. SameProcs
    BY <1>4, ProcsStep DEF LaunchAbort
  <2> QED BY <1>4, <2>1 DEF LaunchAbort, SameProcs, HandlesOwn, Running, Handle,
      RecoveryTypeOK, osVars, launchVars, startVars, ledgerVars
<1>5. ASSUME NEW i \in Instances, StopBegin(i) PROVE HandlesOwn'
  <2>1. SameProcs
    BY <1>5, ProcsStep DEF StopBegin
  <2> QED BY <1>5, <2>1 DEF StopBegin, SameProcs, HandlesOwn, Running, Handle, RecoveryTypeOK,
      osVars, launchVars, startVars, ledgerVars
<1>6. ASSUME NEW i \in Instances, StopFinish(i) PROVE HandlesOwn'
  <2>1. SameProcs
    BY <1>6, ProcsStep DEF StopFinish
  <2> QED BY <1>6, <2>1 DEF StopFinish, SameProcs, HandlesOwn, Running, Handle,
      RecoveryTypeOK, osVars, launchVars, startVars, ledgerVars
<1>7. ASSUME EndAllRequest PROVE HandlesOwn'
  <2>1. SameProcs
    BY <1>7, ProcsStep DEF EndAllRequest
  <2> QED BY <1>7, <2>1 DEF EndAllRequest, SameProcs, HandlesOwn, Running, Handle,
      RecoveryTypeOK, osVars, launchVars, startVars, ledgerVars
<1>8. ASSUME EndAllKill PROVE HandlesOwn'
  <2>1. SameProcs
    BY <1>8, ProcsStep DEF EndAllKill
  <2> QED BY <1>8, <2>1 DEF EndAllKill, SameProcs, HandlesOwn, Running, Handle,
      RecoveryTypeOK, osVars, launchVars, startVars, ledgerVars
<1>9. ASSUME AgentGone PROVE HandlesOwn'
  BY <1>9 DEF AgentGone, NewLedger, NotEnding, RecoveryTypeOK, BirthsBound, Handle, HandlesOwn,
     Running, osVars, launchVars, startVars, ledgerVars
<1>10. ASSUME RecoverAdopt PROVE HandlesOwn'
  <2>1. CASE Matches(adopting.rec)
    BY <1>10, <2>1 DEF RecoverAdopt, Matches, HandlesOwn, Running, RecoveryTypeOK, osVars
  <2>2. CASE ~Matches(adopting.rec)
    BY <1>10, <2>2 DEF RecoverAdopt, HandlesOwn, Running, osVars
  <2> QED BY <2>1, <2>2
<1>11. ASSUME CleanupPost PROVE HandlesOwn'
  <2>1. SameProcs
    BY <1>11, ProcsStep DEF CleanupPost
  <2> QED BY <1>11, <2>1 DEF CleanupPost, CleanupStep, SameProcs, HandlesOwn, Running, Handle,
      RecoveryTypeOK, osVars, launchVars, startVars, ledgerVars
<1>12. ASSUME CleanupSignal PROVE HandlesOwn'
  <2>1. SameProcs
    BY <1>12, ProcsStep DEF CleanupSignal
  <2> QED BY <1>12, <2>1 DEF CleanupSignal, CleanupStep, SameProcs, HandlesOwn, Running,
      Handle, RecoveryTypeOK, osVars, launchVars, startVars, ledgerVars
<1>13. ASSUME NEW i \in Instances, LaunchAllocate(i) \/ LaunchReserve(i) \/
                                   LaunchRaises(i) \/ LaunchPersist(i) \/ LaunchFinish(i) \/
                                   Poll(i)
      PROVE  HandlesOwn'
  BY <1>13 DEF LaunchAllocate, LaunchReserve, LaunchRaises, LaunchPersist, LaunchFinish, Poll,
     HandlesOwn, Running, osVars, launchVars, startVars, ledgerVars
<1>14. ASSUME NEW i \in Instances, Measure(i) \/ StopRefused(i) \/ EndAllRelease(i) \/
                                   RecoverMissing(i) \/ RecoverOrphan(i) \/ RecoverVerified(i)
      PROVE  HandlesOwn'
  BY <1>14 DEF Measure, StopRefused, EndAllRelease, RecoverMissing, RecoverOrphan,
     RecoverVerified, HandlesOwn, Running, osVars, launchVars, startVars, ledgerVars
<1>15. ASSUME NEW p \in Pids, CleanupBegin(p)
      PROVE  HandlesOwn'
  BY <1>15 DEF CleanupBegin, HandlesOwn, Running, osVars, launchVars, startVars, ledgerVars
<1>16. ASSUME Time \/ EndAllDone \/ Boot \/ RecoverReserve \/ Scan \/ Serve
      PROVE  HandlesOwn'
  BY <1>16 DEF Time, EndAllDone, Boot, RecoverReserve, Scan, Serve, HandlesOwn, Running, osVars,
     launchVars, startVars, ledgerVars
<1>17. ASSUME CleanupCheck
      PROVE  HandlesOwn'
  BY <1>17 DEF CleanupCheck, HandlesOwn, Running, osVars, launchVars, startVars, ledgerVars
<1>18. CASE UNCHANGED vars
  BY <1>18 DEF vars, HandlesOwn, Running, osVars, launchVars, startVars, ledgerVars
<1> QED BY <1>1, <1>2, <1>3, <1>4, <1>5, <1>6, <1>7, <1>8, <1>9, <1>10, <1>11, <1>12, <1>13,
    <1>14, <1>15, <1>16, <1>17, <1>18
  DEF Next, Host, Launching, Managing, Recovering, CleaningUp, Shutdown, Crash

LEMMA OrphansStep ==
  ASSUME RecoveryTypeOK, QuietStart, LaunchHas, TodoJournaled, BirthsBound, OrphansApart,
     [Next]_vars
  PROVE  OrphansApart'
<1>1. ASSUME NEW i \in Instances, LaunchSpawn(i) PROVE OrphansApart'
  BY <1>1, RecoveryAssumption DEF LaunchSpawn, Spawn, RecoveryTypeOK, QuietStart, TodoJournaled,
     BirthsBound, Handle, Record, OrphansApart, Names, osVars, launchVars, startVars, ledgerVars
<1>2. ASSUME AgentGone PROVE OrphansApart'
  BY <1>2, RecoveryAssumption DEF AgentGone, NewLedger, NotEnding, RecoveryTypeOK, QuietStart,
     TodoJournaled, BirthsBound, Handle, Record, OrphansApart, Names, osVars, launchVars,
     startVars, ledgerVars
<1>3. ASSUME Boot PROVE OrphansApart'
  BY <1>3, RecoveryAssumption DEF Boot, RecoveryTypeOK, QuietStart, TodoJournaled, BirthsBound,
     Handle, Record, OrphansApart, Names, osVars, launchVars, startVars, ledgerVars
<1>4. ASSUME NEW i \in Instances, RecoverMissing(i) PROVE OrphansApart'
  BY <1>4, RecoveryAssumption DEF RecoverMissing, Assessing, RecoveryTypeOK, QuietStart,
     TodoJournaled, BirthsBound, Handle, Record, OrphansApart, Names, osVars, launchVars,
     startVars, ledgerVars
<1>5. ASSUME NEW i \in Instances, RecoverOrphan(i) PROVE OrphansApart'
  BY <1>5, RecoveryAssumption DEF RecoverOrphan, RecordOrphan, Assessing, RecoveryTypeOK,
     QuietStart, TodoJournaled, BirthsBound, Handle, Record, OrphansApart, Names, osVars,
     launchVars, startVars, ledgerVars
<1>6. ASSUME RecoverReserve PROVE OrphansApart'
  BY <1>6, RecoveryAssumption DEF RecoverReserve, RecordOrphan, Reserve, ReserveRefused,
     RecoveryTypeOK, QuietStart, TodoJournaled, BirthsBound, Handle, Record, OrphansApart,
     Names, osVars, launchVars, startVars, ledgerVars
<1>7. ASSUME RecoverAdopt PROVE OrphansApart'
  BY <1>7, RecoveryAssumption DEF RecoverAdopt, RecordOrphan, Release, RecoveryTypeOK,
     QuietStart, TodoJournaled, BirthsBound, Handle, Record, OrphansApart, Names, osVars,
     launchVars, startVars, ledgerVars
<1>8. ASSUME NEW p \in Pids, CleanupBegin(p) PROVE OrphansApart'
  <2>1. cleaning' = cleaning \/ (fenced[p] # None /\ cleaning' = [rec |-> fenced[p],
     step |-> "post"])
    BY <1>8 DEF CleanupBegin
  <2>2. \A q \in Pids : fenced'[q] = None \/ fenced'[q] = fenced[q]
    BY <1>8 DEF CleanupBegin, RecoveryTypeOK
  <2> QED BY <1>8, <2>1, <2>2 DEF CleanupBegin, OrphansApart, Names, launchVars
<1>9. ASSUME CleanupPost PROVE OrphansApart'
  BY <1>9, RecoveryAssumption DEF CleanupPost, CleanupStep, PostStop, Listener, Asked,
     RecoveryTypeOK, QuietStart, TodoJournaled, BirthsBound, Handle, Record, OrphansApart,
     Names, osVars, launchVars, startVars, ledgerVars
<1>10. ASSUME CleanupSignal PROVE OrphansApart'
  BY <1>10, RecoveryAssumption DEF CleanupSignal, CleanupStep, Signal, RecoveryTypeOK,
     QuietStart, TodoJournaled, BirthsBound, Handle, Record, OrphansApart, Names, osVars,
     launchVars, startVars, ledgerVars
<1>11. ASSUME CleanupCheck PROVE OrphansApart'
  <2>1. \A q \in Pids : fenced'[q] = None \/ fenced'[q] = fenced[q]
    BY <1>11 DEF CleanupCheck, RecoveryTypeOK
  <2> QED BY <1>11, <2>1 DEF CleanupCheck, OrphansApart, Names, launchVars
<1>12. ASSUME NEW i \in Instances, LaunchAllocate(i) \/ LaunchReserve(i) \/
                                   LaunchRaises(i) \/ LaunchPersist(i) \/ LaunchFinish(i) \/
                                   LaunchAbort(i)
      PROVE  OrphansApart'
  BY <1>12 DEF LaunchAllocate, LaunchReserve, LaunchRaises, LaunchPersist, LaunchFinish,
     LaunchAbort, OrphansApart, Names, osVars, launchVars, startVars, ledgerVars
<1>13. ASSUME NEW i \in Instances, Poll(i) \/ Measure(i) \/ StopRefused(i) \/ StopBegin(i) \/
                                   StopFinish(i) \/ EndAllRelease(i)
      PROVE  OrphansApart'
  BY <1>13 DEF Poll, Measure, StopRefused, StopBegin, StopFinish, EndAllRelease, OrphansApart,
     Names, osVars, launchVars, startVars, ledgerVars
<1>14. ASSUME NEW i \in Instances, RecoverVerified(i)
      PROVE  OrphansApart'
  BY <1>14 DEF RecoverVerified, OrphansApart, Names, osVars, launchVars, startVars, ledgerVars
<1>15. ASSUME NEW p \in Pids, Exit(p) \/ ForeignStart(p)
      PROVE  OrphansApart'
  BY <1>15 DEF Exit, ForeignStart, OrphansApart, Names, osVars, launchVars, startVars,
     ledgerVars
<1>16. ASSUME Time \/ EndAllRequest \/ EndAllKill \/ EndAllDone \/ Scan \/ Serve
      PROVE  OrphansApart'
  BY <1>16 DEF Time, EndAllRequest, EndAllKill, EndAllDone, Scan, Serve, OrphansApart, Names,
     osVars, launchVars, startVars, ledgerVars
<1>17. CASE UNCHANGED vars
  BY <1>17 DEF vars, OrphansApart, Names, osVars, launchVars, startVars, ledgerVars
<1> QED BY <1>1, <1>2, <1>3, <1>4, <1>5, <1>6, <1>7, <1>8, <1>9, <1>10, <1>11, <1>12, <1>13,
    <1>14, <1>15, <1>16, <1>17
  DEF Next, Host, Launching, Managing, Recovering, CleaningUp, Shutdown, Crash

-----------------------------------------------------------------------------
LEMMA InvInit == Init => Inv
<1> SUFFICES ASSUME Init PROVE Inv
  OBVIOUS
<1> USE RecoveryAssumption, LedgerAssumption DEF Init
<1>1. RecoveryTypeOK
  BY DEF RecoveryTypeOK, NotEnding
<1>2. LedgerTypeOK
  BY DEF LedgerInit, LedgerTypeOK
<1>3. LaunchHas /\ QuietStart /\ JournalsNameTheirInstance /\ TodoJournaled
  BY DEF LaunchHas, QuietStart, JournalsNameTheirInstance, TodoJournaled
<1>4. BirthsBound /\ HandlesOwn /\ OrphansApart
  BY DEF BirthsBound, HandlesOwn, Running, OrphansApart, Names
<1> QED BY <1>1, <1>2, <1>3, <1>4 DEF Inv

LEMMA InvStep == Inv /\ [Next]_vars => Inv'
<1> SUFFICES ASSUME Inv, [Next]_vars PROVE Inv'
  OBVIOUS
<1> USE DEF Inv
<1>1. LedgerTypeOK'
  <2>1. [LedgerNext]_ledgerVars
    BY LedgerStep
  <2> QED BY <2>1, LedgerTypeStep
<1> QED BY <1>1, TypesStep, LaunchStep, QuietStep, JournalsStep, TodoStep, BirthsStep,
           HandlesStep, OrphansStep

(* Whatever crashes, exits, reused pids, half-done launches and refused    *)
(* adoptions come together, the agent's records stay well-formed; above    *)
(* all, what it acts on after a restart are whole records of processes.    *)
(* (InstanceStateStore and recover_persisted_instances.)                   *)
THEOREM RecoveryTypeCorrect == Spec => []RecoveryTypeOK
<1>1. Inv => RecoveryTypeOK
  BY DEF Inv
<1> QED BY <1>1, InvInit, InvStep, PTL DEF Spec

(* Every step of the agent, whatever its handlers interleave and however   *)
(* often it crashes, is a step of the abstract ledger or leaves it alone.  *)
(* (Every call of ResourceLedger in node_agent/agent.py.)                  *)
THEOREM RecoveryImplementsLedger == Spec => ImplementsLedger
<1>1. Init => LedgerInit
  BY DEF Init
<1>2. Inv /\ [Next]_vars => [LedgerNext]_ledgerVars
  BY LedgerStep DEF Inv
<1> QED BY <1>1, <1>2, InvInit, InvStep, PTL DEF Spec, LedgerSpec, ImplementsLedger

(* So what the ledger promises holds of the agent: no port belongs to an   *)
(* instance without a reservation, or is lent out in its quarantine.       *)
THEOREM RecoveryLedgerSound == Spec => []LedgerSound
  BY RecoveryImplementsLedger, LedgerIsSound DEF ImplementsLedger

-----------------------------------------------------------------------------
(* Signals.                                                                *)

LEMMA SignalOne ==
  ASSUME RecoveryTypeOK, NEW q \in Pids, Signal(q), NEW p \in Pids, Signalled(p)
  PROVE  p = q
BY DEF Signal, Signalled, RecoveryTypeOK

LEMMA PostStopSignalsNone ==
  ASSUME RecoveryTypeOK, NEW prt, PostStop(prt), NEW p \in Pids
  PROVE  ~Signalled(p)
<1> SUFFICES ASSUME procs[p] # None PROVE ~Signalled(p)
  BY DEF Signalled
<1>1. procs[p] \in Process
  BY DEF RecoveryTypeOK
<1>2. Asked(procs[p]).told = "signalled" => procs[p].told = "signalled"
  BY <1>1 DEF Asked, Process
<1> QED BY <1>2 DEF PostStop, Signalled

LEMMA OwnSignal ==
  ASSUME RecoveryTypeOK, HandlesOwn, NEW i \in Instances, NEW p \in Pids, Manages(i, p),
         \/ stopping[i] # "no" \/ launch[i] \in {"spawned", "journaled"}
         \/ ending # NotEnding \/ ending' # NotEnding
  PROVE  EndingOwn(p)
<1>1. procs[p].owner = i
  BY DEF HandlesOwn, Manages
<1> QED BY <1>1, RecoveryAssumption DEF EndingOwn

LEMMA FencedStep ==
  ASSUME RecoveryTypeOK, HandlesOwn, OrphansApart, [Next]_vars
  PROVE  FencedSignals
<1>1. ASSUME NEW p \in Pids, Exit(p) PROVE FencedSignals
  BY <1>1 DEF Exit, RecoveryTypeOK, FencedSignals, Signalled, osVars, launchVars, startVars,
     ledgerVars
<1>2. ASSUME NEW p \in Pids, ForeignStart(p) PROVE FencedSignals
  BY <1>2 DEF ForeignStart, Spawn, RecoveryTypeOK, FencedSignals, Signalled, osVars, launchVars,
     startVars, ledgerVars
<1>3. ASSUME NEW i \in Instances, LaunchSpawn(i) PROVE FencedSignals
  BY <1>3 DEF LaunchSpawn, Spawn, RecoveryTypeOK, FencedSignals, Signalled, osVars, launchVars,
     startVars, ledgerVars
<1>4. ASSUME NEW i \in Instances, LaunchAbort(i) PROVE FencedSignals
  <2> SUFFICES ASSUME NEW p \in Pids, Signalled(p) PROVE EndingOwn(p)
    BY DEF FencedSignals
  <2>1. Running(i) /\ Signal(handle[i].pid)
    BY <1>4 DEF LaunchAbort, SignalManaged, Signalled
  <2>2. handle[i].pid \in Pids
    BY <2>1 DEF Running, Handle, RecoveryTypeOK
  <2>3. Manages(i, p)
    BY <2>1, <2>2, SignalOne DEF Manages
  <2> QED BY <1>4, <2>3, OwnSignal DEF LaunchAbort
<1>5. ASSUME NEW i \in Instances, StopBegin(i) PROVE FencedSignals
  BY <1>5, PostStopSignalsNone DEF StopBegin, FencedSignals
<1>6. ASSUME NEW i \in Instances, StopFinish(i) PROVE FencedSignals
  <2> SUFFICES ASSUME NEW p \in Pids, Signalled(p) PROVE EndingOwn(p)
    BY DEF FencedSignals
  <2>1. Running(i) /\ Signal(handle[i].pid)
    BY <1>6 DEF StopFinish, SignalManaged, Signalled
  <2>2. handle[i].pid \in Pids
    BY <2>1 DEF Running, Handle, RecoveryTypeOK
  <2>3. Manages(i, p)
    BY <2>1, <2>2, SignalOne DEF Manages
  <2> QED BY <1>6, <2>3, OwnSignal DEF StopFinish
<1>7. ASSUME EndAllRequest PROVE FencedSignals
  <2> SUFFICES ASSUME NEW p \in Pids, procs[p] # None PROVE ~Signalled(p)
    BY DEF FencedSignals, Signalled
  <2>1. procs[p] \in Process
    BY DEF RecoveryTypeOK
  <2>2. Asked(procs[p]).told = "signalled" => procs[p].told = "signalled"
    BY <2>1 DEF Asked, Process
  <2> QED BY <1>7, <2>2 DEF EndAllRequest, Signalled
<1>8. ASSUME EndAllKill PROVE FencedSignals
  <2> SUFFICES ASSUME NEW p \in Pids, Signalled(p) PROVE EndingOwn(p)
    BY DEF FencedSignals
  <2>1. Managed(p)
    BY <1>8 DEF EndAllKill, Signalled
  <2>2. PICK i \in Instances : Manages(i, p)
    BY <2>1 DEF Managed
  <2>3. ending # NotEnding
    BY <1>8 DEF EndAllKill, NotEnding
  <2> QED BY <2>2, <2>3, OwnSignal
<1>9. ASSUME CleanupPost PROVE FencedSignals
  BY <1>9, PostStopSignalsNone DEF CleanupPost, FencedSignals, Signalled
<1>10. ASSUME CleanupSignal PROVE FencedSignals
  <2> SUFFICES ASSUME NEW p \in Pids, Signalled(p) PROVE CleaningOrphan(p)
    BY DEF FencedSignals
  <2> DEFINE r == cleaning.rec
  <2>1. cleaning # None /\ Matches(r) /\ Signal(r.pid)
    BY <1>10 DEF CleanupSignal, CleanupStep, Signalled
  <2>2. r \in Record
    BY <2>1 DEF RecoveryTypeOK
  <2>3. p = r.pid
    BY <2>1, <2>2, SignalOne DEF Record
  <2>4. ASSUME NEW j \in Instances, Manages(j, p) PROVE FALSE
    <3>1. j = r.inst /\ handle[j] \in Handle /\ handle[j].pid = r.pid /\ handle[j].born = r.born
      BY <2>1, <2>3, <2>4 DEF Manages, Running, Matches, HandlesOwn, RecoveryTypeOK
    <3>2. Names(r, r.inst)
      BY <3>1 DEF Names, Handle
    <3> QED BY <2>1, <3>2 DEF OrphansApart
  <2> QED BY <2>1, <2>3, <2>4 DEF CleaningOrphan, Managed
<1>11. ASSUME NEW i \in Instances, LaunchAllocate(i) \/ LaunchReserve(i) \/
                                   LaunchRaises(i) \/ LaunchPersist(i) \/ LaunchFinish(i) \/
                                   Poll(i)
      PROVE  FencedSignals
  BY <1>11 DEF LaunchAllocate, LaunchReserve, LaunchRaises, LaunchPersist, LaunchFinish, Poll,
     FencedSignals, Signalled, osVars, launchVars, startVars, ledgerVars
<1>12. ASSUME NEW i \in Instances, Measure(i) \/ StopRefused(i) \/ EndAllRelease(i) \/
                                   RecoverMissing(i) \/ RecoverOrphan(i) \/ RecoverVerified(i)
      PROVE  FencedSignals
  BY <1>12 DEF Measure, StopRefused, EndAllRelease, RecoverMissing, RecoverOrphan,
     RecoverVerified, FencedSignals, Signalled, osVars, launchVars, startVars, ledgerVars
<1>13. ASSUME NEW p \in Pids, CleanupBegin(p)
      PROVE  FencedSignals
  BY <1>13 DEF CleanupBegin, FencedSignals, Signalled, osVars, launchVars, startVars, ledgerVars
<1>14. ASSUME Time \/ EndAllDone \/ AgentGone \/ Boot \/ RecoverReserve \/ RecoverAdopt
      PROVE  FencedSignals
  BY <1>14 DEF Time, EndAllDone, AgentGone, Boot, RecoverReserve, RecoverAdopt, FencedSignals,
     Signalled, osVars, launchVars, startVars, ledgerVars
<1>15. ASSUME Scan \/ Serve \/ CleanupCheck
      PROVE  FencedSignals
  BY <1>15 DEF Scan, Serve, CleanupCheck, FencedSignals, Signalled, osVars, launchVars,
     startVars, ledgerVars
<1>16. CASE UNCHANGED vars
  BY <1>16 DEF vars, FencedSignals, Signalled, osVars, launchVars, startVars, ledgerVars
<1> QED BY <1>1, <1>2, <1>3, <1>4, <1>5, <1>6, <1>7, <1>8, <1>9, <1>10, <1>11, <1>12, <1>13,
    <1>14, <1>15, <1>16
  DEF Next, Host, Launching, Managing, Recovering, CleaningUp, Shutdown, Crash

(* A process is signalled only by the agent that manages it, ending its    *)
(* own instance, or as the orphan whose record names this very process.    *)
(* (supervisor.stop, and the fence of cleanup_startup_orphan.)             *)
THEOREM RecoverySignalsAreFenced == Spec => SignalsAreFenced
<1>1. Inv /\ [Next]_vars => [FencedSignals]_vars
  BY FencedStep DEF Inv
<1> QED BY <1>1, InvInit, InvStep, PTL DEF Spec, SignalsAreFenced

-----------------------------------------------------------------------------
(* What it takes to keep a managed process reserved.                       *)

(* A launch whose token is current holds its reservation from then on.     *)
ReservedBeforeSpawn ==
  \A i \in Instances : launch[i] # "no" /\ launch[i] # "allocated" /\ i \in current => HoldsIts(i)

(* A process nobody told to stop has a role, once its launch is over.      *)
RolesKnown ==
  \A i \in Instances : /\ i \in current => i \in roles
                       /\ Unprompted(i) /\ i \notin roles => launch[i] # "no"

(* stop_everything meets no launch, and leaves no process unasked.         *)
EndingAsked ==
  ending # NotEnding => \A i \in Instances : launch[i] = "no" /\ ~Unprompted(i)

(* A stop is of an instance that the registry knows and whose launch was   *)
(* cancelled; a launch that has only a port is not yet in the registry.    *)
StoppingKnown ==
  \A i \in Instances : /\ stopping[i] # "no" => registry[i] # "absent" /\ i \notin current
                       /\ launch[i] = "allocated" => registry[i] = "absent"

(* What the adoption in progress has reserved so far.                      *)
AdoptedReserved ==
  adopting # None /\ adopting.reserved =>
    LET i == adopting.rec.inst
    IN  reserved[i] # None /\ (i \notin Workers => portOwner[adopting.rec.port] = i)

ReservationInv == /\ Inv /\ ReservedBeforeSpawn /\ RolesKnown /\ EndingAsked /\ StoppingKnown
                  /\ AdoptedReserved /\ ManagedIsReserved

(* Being unprompted is lost for good, unless the handle is a new one.      *)
KeptPrompt == \A i \in Instances : handle'[i] = handle[i] /\ Unprompted(i)' => Unprompted(i)

LEMMA SignalKeepsPrompt ==
  ASSUME RecoveryTypeOK, NEW q \in Pids, procs[q] # None, Signal(q), UNCHANGED handle
  PROVE  KeptPrompt
<1>1. procs[q] \in Process
  BY DEF RecoveryTypeOK
<1>2. \A p \in Pids : procs'[p] = procs[p] \/ procs'[p].told = "signalled"
  BY <1>1 DEF Signal, Process, RecoveryTypeOK
<1> QED BY <1>2 DEF KeptPrompt, Unprompted, Running, Handle, RecoveryTypeOK

LEMMA SignalManagedPrompts ==
  ASSUME RecoveryTypeOK, NEW i \in Instances, SignalManaged(i), UNCHANGED handle
  PROVE  KeptPrompt /\ ~Unprompted(i)'
<1>1. CASE Running(i)
  <2>1. handle[i].pid \in Pids /\ procs[handle[i].pid] # None
        /\ procs[handle[i].pid] \in Process
    BY <1>1 DEF Running, Handle, RecoveryTypeOK
  <2>2. procs'[handle[i].pid].told = "signalled"
    BY <1>1, <2>1 DEF SignalManaged, Signal, Process, RecoveryTypeOK
  <2> QED BY <1>1, <2>1, <2>2, SignalKeepsPrompt DEF SignalManaged, Unprompted
<1>2. CASE ~Running(i)
  BY <1>2 DEF SignalManaged, KeptPrompt, Unprompted, Running
<1> QED BY <1>1, <1>2

LEMMA AskedKeepsPrompt ==
  ASSUME RecoveryTypeOK, UNCHANGED handle,
         \A p \in Pids : procs'[p] = procs[p] \/ (procs[p] # None /\ procs'[p] = Asked(procs[p]))
  PROVE  KeptPrompt
<1>1. ASSUME NEW p \in Pids, procs[p] # None PROVE Asked(procs[p]).told # "no"
  <2>1. procs[p] \in Process
    BY <1>1 DEF RecoveryTypeOK
  <2> QED BY <2>1 DEF Asked, Process
<1> QED BY <1>1 DEF KeptPrompt, Unprompted, Running, Handle, RecoveryTypeOK

LEMMA PromptStep ==
  ASSUME RecoveryTypeOK, BirthsBound, [Next]_vars
  PROVE  KeptPrompt
<1>1. ASSUME NEW p \in Pids, Exit(p) PROVE KeptPrompt
  BY <1>1, RecoveryAssumption DEF Exit, BirthsBound, KeptPrompt, Unprompted, Running, Handle,
     RecoveryTypeOK, osVars, launchVars, startVars, ledgerVars
<1>2. ASSUME NEW p \in Pids, ForeignStart(p) PROVE KeptPrompt
  BY <1>2, RecoveryAssumption DEF ForeignStart, Spawn, BirthsBound, KeptPrompt, Unprompted,
     Running, Handle, RecoveryTypeOK, osVars, launchVars, startVars, ledgerVars
<1>3. ASSUME NEW i \in Instances, LaunchSpawn(i) PROVE KeptPrompt
  BY <1>3, RecoveryAssumption DEF LaunchSpawn, Spawn, BirthsBound, KeptPrompt, Unprompted,
     Running, Handle, RecoveryTypeOK, osVars, launchVars, startVars, ledgerVars
<1>4. ASSUME NEW i \in Instances, LaunchAbort(i) PROVE KeptPrompt
  BY <1>4, SignalManagedPrompts DEF LaunchAbort
<1>5. ASSUME NEW i \in Instances, StopBegin(i) PROVE KeptPrompt
  BY <1>5, AskedKeepsPrompt DEF StopBegin, PostStop, Listener
<1>6. ASSUME NEW i \in Instances, StopFinish(i) PROVE KeptPrompt
  <2>1. CASE i \in roles
    BY <1>6, <2>1, SignalManagedPrompts DEF StopFinish
  <2>2. CASE i \notin roles
    BY <1>6, <2>2 DEF StopFinish, KeptPrompt, Unprompted, Running
  <2> QED BY <2>1, <2>2
<1>7. ASSUME EndAllRequest PROVE KeptPrompt
  <2>1. \A p \in Pids : Managed(p) => procs[p] # None
    BY DEF Managed, Manages, Running
  <2> QED BY <1>7, <2>1, AskedKeepsPrompt DEF EndAllRequest, RecoveryTypeOK
<1>8. ASSUME EndAllKill PROVE KeptPrompt
  <2>1. ASSUME NEW p \in Pids, Managed(p)
        PROVE  [procs[p] EXCEPT !.told = "signalled"].told = "signalled"
    <3>1. procs[p] \in Process /\ procs[p] # None
      BY <2>1 DEF Managed, Manages, Running, Handle, RecoveryTypeOK
    <3> QED BY <3>1 DEF Process
  <2>2. \A p \in Pids : procs'[p] = procs[p] \/ procs'[p].told = "signalled"
    BY <1>8, <2>1 DEF EndAllKill, RecoveryTypeOK
  <2> QED BY <1>8, <2>2 DEF EndAllKill, launchVars, KeptPrompt, Unprompted, Running, Handle,
     RecoveryTypeOK
<1>9. ASSUME AgentGone PROVE KeptPrompt
  BY <1>9, RecoveryAssumption DEF AgentGone, NewLedger, NotEnding, BirthsBound, KeptPrompt,
     Unprompted, Running, Handle, RecoveryTypeOK, osVars, launchVars, startVars, ledgerVars
<1>10. ASSUME RecoverAdopt PROVE KeptPrompt
  BY <1>10, RecoveryAssumption DEF RecoverAdopt, RecordOrphan, Release, BirthsBound, KeptPrompt,
     Unprompted, Running, Handle, RecoveryTypeOK, osVars, launchVars, startVars, ledgerVars
<1>11. ASSUME CleanupPost PROVE KeptPrompt
  BY <1>11, AskedKeepsPrompt DEF CleanupPost, PostStop, Listener, launchVars
<1>12. ASSUME CleanupSignal PROVE KeptPrompt
  <2>1. cleaning.rec.pid \in Pids
    BY <1>12 DEF CleanupSignal, CleanupStep, Record, RecoveryTypeOK
  <2>2. CASE Matches(cleaning.rec)
    BY <1>12, <2>1, <2>2, SignalKeepsPrompt DEF CleanupSignal, Matches, launchVars
  <2>3. CASE ~Matches(cleaning.rec)
    BY <1>12, <2>3 DEF CleanupSignal, KeptPrompt, Unprompted, Running, launchVars
  <2> QED BY <2>2, <2>3
<1>13. ASSUME NEW i \in Instances, LaunchAllocate(i) \/ LaunchReserve(i) \/
                                   LaunchRaises(i) \/ LaunchPersist(i) \/ LaunchFinish(i) \/
                                   Poll(i)
      PROVE  KeptPrompt
  BY <1>13 DEF LaunchAllocate, LaunchReserve, LaunchRaises, LaunchPersist, LaunchFinish, Poll,
     KeptPrompt, Unprompted, Running, Handle, RecoveryTypeOK, osVars, launchVars, startVars,
     ledgerVars
<1>14. ASSUME NEW i \in Instances, Measure(i) \/ StopRefused(i) \/ EndAllRelease(i) \/
                                   RecoverMissing(i) \/ RecoverOrphan(i) \/ RecoverVerified(i)
      PROVE  KeptPrompt
  BY <1>14 DEF Measure, StopRefused, EndAllRelease, RecoverMissing, RecoverOrphan,
     RecoverVerified, KeptPrompt, Unprompted, Running, Handle, RecoveryTypeOK, osVars,
     launchVars, startVars, ledgerVars
<1>15. ASSUME NEW p \in Pids, CleanupBegin(p)
      PROVE  KeptPrompt
  BY <1>15 DEF CleanupBegin, KeptPrompt, Unprompted, Running, Handle, RecoveryTypeOK, osVars,
     launchVars, startVars, ledgerVars
<1>16. ASSUME Time \/ EndAllDone \/ Boot \/ RecoverReserve \/ Scan \/ Serve
      PROVE  KeptPrompt
  BY <1>16 DEF Time, EndAllDone, Boot, RecoverReserve, Scan, Serve, KeptPrompt, Unprompted,
     Running, Handle, RecoveryTypeOK, osVars, launchVars, startVars, ledgerVars
<1>17. ASSUME CleanupCheck
      PROVE  KeptPrompt
  BY <1>17 DEF CleanupCheck, KeptPrompt, Unprompted, Running, Handle, RecoveryTypeOK, osVars,
     launchVars, startVars, ledgerVars
<1>18. CASE UNCHANGED vars
  BY <1>18 DEF vars, KeptPrompt, Unprompted, Running, Handle, RecoveryTypeOK, osVars,
     launchVars, startVars, ledgerVars
<1> QED BY <1>1, <1>2, <1>3, <1>4, <1>5, <1>6, <1>7, <1>8, <1>9, <1>10, <1>11, <1>12, <1>13,
    <1>14, <1>15, <1>16, <1>17, <1>18
  DEF Next, Host, Launching, Managing, Recovering, CleaningUp, Shutdown, Crash

(* What an instance holds, it keeps.                                       *)
Kept(i) ==
  /\ reserved[i] # None => reserved'[i] # None
  /\ \A prt \in Ports : portOwner[prt] = i => portOwner'[prt] = i

LEMMA ReserveHolds ==
  ASSUME LedgerTypeOK, NEW i \in Instances, NEW bytes \in Amounts, NEW ps \in SUBSET Ports,
         NEW sys, NEW h, Reserve(i, bytes, ps, sys, h)
  PROVE  /\ \A j \in Instances : Kept(j)
         /\ reserved'[i] # None
         /\ \A prt \in ps : portOwner'[prt] = i
<1>1. bytes # None
  BY LedgerAssumption
<1>2. \A prt \in ps : portOwner[prt] \in {None, i}
  BY DEF Reserve, Admissible, PortConflict
<1> QED BY <1>1, <1>2, LedgerAssumption DEF Reserve, Kept, LedgerTypeOK

LEMMA ReleaseHolds ==
  ASSUME LedgerTypeOK, NEW i \in Instances, Release(i)
  PROVE  \A j \in Instances \ {i} : Kept(j)
BY DEF Release, Kept, LedgerTypeOK

LEMMA MeasureHolds ==
  ASSUME LedgerTypeOK, NEW i \in Instances, Measure(i)
  PROVE  \A j \in Instances : Kept(j)
<1>1. PICK o \in Observations, sys \in Observed(i) :
        Resize(i, Recommended(o, Floor[i]), sys, Headroom[i])
  BY DEF Measure, Reconcile
<1>2. Recommended(o, Floor[i]) \in Amounts
  BY RecoveryAssumption
<1>3. \A a \in Amounts : a # None
  BY LedgerAssumption
<1>4. Recommended(o, Floor[i]) # None
  BY <1>2, <1>3, Zenon
<1> QED BY <1>1, <1>4 DEF Resize, Kept, LedgerTypeOK

LEMMA LaunchReserveHolds ==
  ASSUME RecoveryTypeOK, LedgerTypeOK, LaunchHas, NEW i \in Instances, LaunchReserve(i)
  PROVE  /\ \A j \in Instances : Kept(j)
         /\ launch' = [launch EXCEPT ![i] = "reserved"] => HoldsIts(i)'
<1>1. OwnPorts(i, port[i]) \subseteq Ports /\ port[i] # None
  BY DEF LaunchReserve, LaunchHas, OwnPorts, RecoveryTypeOK
<1>2. Size[i] \in Amounts
  BY RecoveryAssumption
<1>3. CASE UNCHANGED ledgerVars /\ launch' = [launch EXCEPT ![i] = "no"]
  BY <1>3 DEF Kept, ledgerVars, RecoveryTypeOK
<1>4. ASSUME NEW sys \in Observed(i), Reserve(i, Size[i], OwnPorts(i, port[i]), sys, Headroom[i])
      PROVE  (\A j \in Instances : Kept(j)) /\ HoldsIts(i)'
  <2>1. /\ \A j \in Instances : Kept(j)
        /\ reserved'[i] # None
        /\ \A prt \in OwnPorts(i, port[i]) : portOwner'[prt] = i
    BY <1>1, <1>2, <1>4, ReserveHolds
  <2>2. port' = port
    BY DEF LaunchReserve
  <2> QED BY <2>1, <2>2 DEF HoldsIts, OwnPorts
<1> QED BY <1>3, <1>4 DEF LaunchReserve, ReserveRefused

LEMMA RecoverReserveHolds ==
  ASSUME RecoveryTypeOK, LedgerTypeOK, RecoverReserve
  PROVE  /\ \A j \in Instances : Kept(j)
         /\ AdoptedReserved'
<1> DEFINE r == adopting.rec
<1>1. r \in Record
  BY DEF RecoverReserve, RecoveryTypeOK
<1>2. r.inst \in Instances /\ OwnPorts(r.inst, r.port) \subseteq Ports
  BY <1>1 DEF Record, OwnPorts
<1>3. Size[r.inst] \in Amounts
  BY <1>2, RecoveryAssumption
<1>4. CASE UNCHANGED ledgerVars /\ adopting' = None
  BY <1>4 DEF Kept, ledgerVars, AdoptedReserved
<1>5. ASSUME NEW sys \in Observed(r.inst),
             Reserve(r.inst, Size[r.inst], OwnPorts(r.inst, r.port), sys, Headroom[r.inst]),
             adopting' = [adopting EXCEPT !.reserved = TRUE]
      PROVE  (\A j \in Instances : Kept(j)) /\ AdoptedReserved'
  <2>1. /\ \A j \in Instances : Kept(j)
        /\ reserved'[r.inst] # None
        /\ \A prt \in OwnPorts(r.inst, r.port) : portOwner'[prt] = r.inst
    BY <1>2, <1>3, <1>5, ReserveHolds
  <2>2. adopting'.rec = r
    BY <1>5 DEF RecoverReserve, RecoveryTypeOK
  <2> QED BY <2>1, <2>2 DEF AdoptedReserved, OwnPorts
<1> QED BY <1>4, <1>5 DEF RecoverReserve, ReserveRefused

LEMMA HoldsKept ==
  ASSUME RecoveryTypeOK, NEW i \in Instances, HoldsIts(i), Kept(i), port[i] # None,
         port'[i] = port[i]
  PROVE  HoldsIts(i)'
BY DEF HoldsIts, Kept, RecoveryTypeOK

LEMMA StoppingStep ==
  ASSUME RecoveryTypeOK, QuietStart, LaunchHas, EndingAsked, StoppingKnown, TodoJournaled,
         [Next]_vars
  PROVE  StoppingKnown'
<1>1. ASSUME NEW i \in Instances, LaunchAllocate(i) PROVE StoppingKnown'
  BY <1>1 DEF LaunchAllocate, RecoveryTypeOK, QuietStart, LaunchHas, EndingAsked, MayStop,
     NotEnding, StoppingKnown, osVars, launchVars, startVars, ledgerVars
<1>2. ASSUME NEW i \in Instances, LaunchReserve(i) PROVE StoppingKnown'
  BY <1>2 DEF LaunchReserve, Reserve, ReserveRefused, RecoveryTypeOK, QuietStart, LaunchHas,
     EndingAsked, MayStop, NotEnding, StoppingKnown, osVars, launchVars, startVars, ledgerVars
<1>3. ASSUME NEW i \in Instances, LaunchRaises(i) PROVE StoppingKnown'
  BY <1>3 DEF LaunchRaises, RecoveryTypeOK, QuietStart, LaunchHas, EndingAsked, MayStop,
     NotEnding, StoppingKnown, osVars, launchVars, startVars, ledgerVars
<1>4. ASSUME NEW i \in Instances, LaunchSpawn(i) PROVE StoppingKnown'
  BY <1>4 DEF LaunchSpawn, Spawn, RecoveryTypeOK, QuietStart, LaunchHas, EndingAsked, MayStop,
     NotEnding, StoppingKnown, osVars, launchVars, startVars, ledgerVars
<1>5. ASSUME NEW i \in Instances, LaunchPersist(i) PROVE StoppingKnown'
  BY <1>5 DEF LaunchPersist, Persist, RecordOf, RecoveryTypeOK, QuietStart, LaunchHas,
     EndingAsked, MayStop, NotEnding, StoppingKnown, osVars, launchVars, startVars, ledgerVars
<1>6. ASSUME NEW i \in Instances, LaunchFinish(i) PROVE StoppingKnown'
  BY <1>6 DEF LaunchFinish, Persist, RecordOf, RecoveryTypeOK, QuietStart, LaunchHas,
     EndingAsked, MayStop, NotEnding, StoppingKnown, osVars, launchVars, startVars, ledgerVars
<1>7. ASSUME NEW i \in Instances, LaunchAbort(i) PROVE StoppingKnown'
  BY <1>7 DEF LaunchAbort, SignalManaged, Signal, Release, RecoveryTypeOK, QuietStart,
     LaunchHas, EndingAsked, MayStop, NotEnding, StoppingKnown, osVars, launchVars, startVars,
     ledgerVars
<1>8. ASSUME NEW i \in Instances, Poll(i) PROVE StoppingKnown'
  BY <1>8 DEF Poll, RecoveryTypeOK, QuietStart, LaunchHas, EndingAsked, MayStop, NotEnding,
     StoppingKnown, osVars, launchVars, startVars, ledgerVars
<1>9. ASSUME NEW i \in Instances, StopRefused(i) PROVE StoppingKnown'
  BY <1>9 DEF StopRefused, RecoveryTypeOK, QuietStart, LaunchHas, EndingAsked, MayStop,
     NotEnding, StoppingKnown, osVars, launchVars, startVars, ledgerVars
<1>10. ASSUME NEW i \in Instances, StopBegin(i) PROVE StoppingKnown'
  BY <1>10 DEF StopBegin, PostStop, Listener, Asked, RecoveryTypeOK, QuietStart, LaunchHas,
     EndingAsked, MayStop, NotEnding, StoppingKnown, osVars, launchVars, startVars, ledgerVars
<1>11. ASSUME NEW i \in Instances, StopFinish(i) PROVE StoppingKnown'
  BY <1>11 DEF StopFinish, SignalManaged, Signal, Release, RecoveryTypeOK, QuietStart,
     LaunchHas, EndingAsked, MayStop, NotEnding, StoppingKnown, osVars, launchVars, startVars,
     ledgerVars
<1>12. ASSUME EndAllRequest PROVE StoppingKnown'
  BY <1>12 DEF EndAllRequest, NotEnding, RecoveryTypeOK, QuietStart, LaunchHas, EndingAsked,
     MayStop, StoppingKnown, osVars, launchVars, startVars, ledgerVars
<1>13. ASSUME NEW i \in Instances, EndAllRelease(i) PROVE StoppingKnown'
  BY <1>13 DEF EndAllRelease, Release, RecoveryTypeOK, QuietStart, LaunchHas, EndingAsked,
     MayStop, NotEnding, StoppingKnown, osVars, launchVars, startVars, ledgerVars
<1>14. ASSUME AgentGone PROVE StoppingKnown'
  BY <1>14 DEF AgentGone, NewLedger, NotEnding, RecoveryTypeOK, QuietStart, LaunchHas,
     EndingAsked, MayStop, StoppingKnown, osVars, launchVars, startVars, ledgerVars
<1>15. ASSUME RecoverAdopt PROVE StoppingKnown'
  <2>1. \A i \in Instances : launch[i] = "no" /\ stopping[i] = "no"
    BY <1>15 DEF RecoverAdopt, QuietStart, TodoJournaled
  <2> QED BY <1>15, <2>1 DEF RecoverAdopt, StoppingKnown
<1>16. ASSUME NEW i \in Instances, Measure(i) \/ RecoverMissing(i) \/ RecoverOrphan(i) \/
                                   RecoverVerified(i)
      PROVE  StoppingKnown'
  BY <1>16 DEF Measure, RecoverMissing, RecoverOrphan, RecoverVerified, StoppingKnown, osVars,
     launchVars, startVars, ledgerVars
<1>17. ASSUME NEW p \in Pids, Exit(p) \/ ForeignStart(p) \/ CleanupBegin(p)
      PROVE  StoppingKnown'
  BY <1>17 DEF Exit, ForeignStart, CleanupBegin, StoppingKnown, osVars, launchVars, startVars,
     ledgerVars
<1>18. ASSUME Time \/ EndAllKill \/ EndAllDone \/ Boot \/ RecoverReserve \/ Scan
      PROVE  StoppingKnown'
  BY <1>18 DEF Time, EndAllKill, EndAllDone, Boot, RecoverReserve, Scan, StoppingKnown, osVars,
     launchVars, startVars, ledgerVars
<1>19. ASSUME Serve \/ CleanupPost \/ CleanupSignal \/ CleanupCheck
      PROVE  StoppingKnown'
  BY <1>19 DEF Serve, CleanupPost, CleanupSignal, CleanupCheck, StoppingKnown, osVars,
     launchVars, startVars, ledgerVars
<1>20. CASE UNCHANGED vars
  BY <1>20 DEF vars, StoppingKnown, osVars, launchVars, startVars, ledgerVars
<1> QED BY <1>1, <1>2, <1>3, <1>4, <1>5, <1>6, <1>7, <1>8, <1>9, <1>10, <1>11, <1>12, <1>13,
    <1>14, <1>15, <1>16, <1>17, <1>18, <1>19, <1>20
  DEF Next, Host, Launching, Managing, Recovering, CleaningUp, Shutdown, Crash

LEMMA RolesStep ==
  ASSUME RecoveryTypeOK, BirthsBound, QuietStart, LaunchHas, StoppingKnown, RolesKnown,
     [Next]_vars
  PROVE  RolesKnown'
<1>1. ASSUME NEW p \in Pids, Exit(p) PROVE RolesKnown'
  <2>1. KeptPrompt
    BY <1>1, PromptStep DEF Exit
  <2> QED BY <1>1, <2>1 DEF Exit, KeptPrompt, RolesKnown, RecoveryTypeOK, StoppingKnown,
      osVars, launchVars, startVars, ledgerVars
<1>2. ASSUME NEW p \in Pids, ForeignStart(p) PROVE RolesKnown'
  <2>1. KeptPrompt
    BY <1>2, PromptStep DEF ForeignStart
  <2> QED BY <1>2, <2>1 DEF ForeignStart, KeptPrompt, RolesKnown, RecoveryTypeOK,
      StoppingKnown, osVars, launchVars, startVars, ledgerVars
<1>3. ASSUME NEW i \in Instances, LaunchAllocate(i) PROVE RolesKnown'
  BY <1>3 DEF LaunchAllocate, RecoveryTypeOK, LaunchHas, Handle, RolesKnown, Unprompted,
     Running, osVars, launchVars, startVars, ledgerVars
<1>4. ASSUME NEW i \in Instances, LaunchReserve(i) PROVE RolesKnown'
  BY <1>4 DEF LaunchReserve, Reserve, ReserveRefused, RecoveryTypeOK, LaunchHas, Handle,
     RolesKnown, Unprompted, Running, osVars, launchVars, startVars, ledgerVars
<1>5. ASSUME NEW i \in Instances, LaunchRaises(i) PROVE RolesKnown'
  BY <1>5 DEF LaunchRaises, RecoveryTypeOK, LaunchHas, Handle, RolesKnown, Unprompted, Running,
     osVars, launchVars, startVars, ledgerVars
<1>6. ASSUME NEW i \in Instances, LaunchSpawn(i) PROVE RolesKnown'
  <2>1. ASSUME NEW j \in Instances, j # i PROVE handle'[j] = handle[j] /\ launch'[j] = launch[j]
    BY <1>6, <2>1 DEF LaunchSpawn
  <2>2. launch'[i] = "spawned"
    BY <1>6 DEF LaunchSpawn, RecoveryTypeOK
  <2>3. KeptPrompt
    BY <1>6, PromptStep DEF LaunchSpawn
  <2> QED BY <1>6, <2>1, <2>2, <2>3 DEF LaunchSpawn, KeptPrompt, RolesKnown
<1>7. ASSUME NEW i \in Instances, LaunchPersist(i) PROVE RolesKnown'
  BY <1>7 DEF LaunchPersist, Persist, RecordOf, RecoveryTypeOK, LaunchHas, Handle, RolesKnown,
     Unprompted, Running, osVars, launchVars, startVars, ledgerVars
<1>8. ASSUME NEW i \in Instances, LaunchFinish(i) PROVE RolesKnown'
  BY <1>8 DEF LaunchFinish, Persist, RecordOf, RecoveryTypeOK, LaunchHas, Handle, RolesKnown,
     Unprompted, Running, osVars, launchVars, startVars, ledgerVars
<1>9. ASSUME NEW i \in Instances, LaunchAbort(i) PROVE RolesKnown'
  <2>1. KeptPrompt /\ ~Unprompted(i)'
    BY <1>9, SignalManagedPrompts DEF LaunchAbort
  <2> QED BY <1>9, <2>1 DEF LaunchAbort, KeptPrompt, RolesKnown, RecoveryTypeOK
<1>10. ASSUME NEW i \in Instances, StopRefused(i) PROVE RolesKnown'
  BY <1>10 DEF StopRefused, RecoveryTypeOK, LaunchHas, Handle, RolesKnown, Unprompted, Running,
     osVars, launchVars, startVars, ledgerVars
<1>11. ASSUME NEW i \in Instances, StopBegin(i) PROVE RolesKnown'
  <2>1. KeptPrompt
    BY <1>11, PromptStep DEF StopBegin
  <2> QED BY <1>11, <2>1 DEF StopBegin, KeptPrompt, RolesKnown, RecoveryTypeOK, StoppingKnown,
      osVars, launchVars, startVars, ledgerVars
<1>12. ASSUME NEW i \in Instances, StopFinish(i) PROVE RolesKnown'
  <2>1. KeptPrompt
    BY <1>12, PromptStep DEF StopFinish
  <2>2. i \in roles => ~Unprompted(i)'
    BY <1>12, SignalManagedPrompts DEF StopFinish
  <2>3. i \notin current
    BY <1>12 DEF StopFinish, StoppingKnown
  <2> QED BY <1>12, <2>1, <2>2, <2>3 DEF StopFinish, KeptPrompt, RolesKnown
<1>13. ASSUME EndAllRequest PROVE RolesKnown'
  <2>1. KeptPrompt
    BY <1>13, PromptStep DEF EndAllRequest
  <2> QED BY <1>13, <2>1 DEF EndAllRequest, KeptPrompt, RolesKnown, RecoveryTypeOK,
      StoppingKnown, osVars, launchVars, startVars, ledgerVars
<1>14. ASSUME EndAllKill PROVE RolesKnown'
  <2>1. KeptPrompt
    BY <1>14, PromptStep DEF EndAllKill
  <2> QED BY <1>14, <2>1 DEF EndAllKill, KeptPrompt, RolesKnown, RecoveryTypeOK, StoppingKnown,
      osVars, launchVars, startVars, ledgerVars
<1>15. ASSUME AgentGone PROVE RolesKnown'
  BY <1>15 DEF AgentGone, NewLedger, NotEnding, RolesKnown, Unprompted, Running, osVars,
     launchVars, startVars, ledgerVars
<1>16. ASSUME RecoverAdopt PROVE RolesKnown'
  BY <1>16 DEF RecoverAdopt, RecordOrphan, Release, RecoveryTypeOK, QuietStart, Handle,
     RolesKnown, Unprompted, Running, osVars, launchVars, startVars, ledgerVars
<1>17. ASSUME CleanupPost PROVE RolesKnown'
  <2>1. KeptPrompt
    BY <1>17, PromptStep DEF CleanupPost
  <2> QED BY <1>17, <2>1 DEF CleanupPost, CleanupStep, KeptPrompt, RolesKnown, RecoveryTypeOK,
      StoppingKnown, osVars, launchVars, startVars, ledgerVars
<1>18. ASSUME CleanupSignal PROVE RolesKnown'
  <2>1. KeptPrompt
    BY <1>18, PromptStep DEF CleanupSignal
  <2> QED BY <1>18, <2>1 DEF CleanupSignal, CleanupStep, KeptPrompt, RolesKnown,
      RecoveryTypeOK, StoppingKnown, osVars, launchVars, startVars, ledgerVars
<1>19. ASSUME NEW i \in Instances, Poll(i) \/ Measure(i) \/ EndAllRelease(i) \/
                                   RecoverMissing(i) \/ RecoverOrphan(i) \/ RecoverVerified(i)
      PROVE  RolesKnown'
  BY <1>19 DEF Poll, Measure, EndAllRelease, RecoverMissing, RecoverOrphan, RecoverVerified,
     RolesKnown, Unprompted, Running, osVars, launchVars, startVars, ledgerVars
<1>20. ASSUME NEW p \in Pids, CleanupBegin(p)
      PROVE  RolesKnown'
  BY <1>20 DEF CleanupBegin, RolesKnown, Unprompted, Running, osVars, launchVars, startVars,
     ledgerVars
<1>21. ASSUME Time \/ EndAllDone \/ Boot \/ RecoverReserve \/ Scan \/ Serve
      PROVE  RolesKnown'
  BY <1>21 DEF Time, EndAllDone, Boot, RecoverReserve, Scan, Serve, RolesKnown, Unprompted,
     Running, osVars, launchVars, startVars, ledgerVars
<1>22. ASSUME CleanupCheck
      PROVE  RolesKnown'
  BY <1>22 DEF CleanupCheck, RolesKnown, Unprompted, Running, osVars, launchVars, startVars,
     ledgerVars
<1>23. CASE UNCHANGED vars
  BY <1>23 DEF vars, RolesKnown, Unprompted, Running, osVars, launchVars, startVars, ledgerVars
<1> QED BY <1>1, <1>2, <1>3, <1>4, <1>5, <1>6, <1>7, <1>8, <1>9, <1>10, <1>11, <1>12, <1>13,
    <1>14, <1>15, <1>16, <1>17, <1>18, <1>19, <1>20, <1>21, <1>22, <1>23
  DEF Next, Host, Launching, Managing, Recovering, CleaningUp, Shutdown, Crash

LEMMA EndingStep ==
  ASSUME ~StopAllOverlapsLaunch, RecoveryTypeOK, BirthsBound, QuietStart, TodoJournaled,
         EndingAsked, [Next]_vars
  PROVE  EndingAsked'
<1>1. ASSUME NEW p \in Pids, Exit(p) PROVE EndingAsked'
  <2>1. KeptPrompt
    BY <1>1, PromptStep DEF Exit
  <2> QED BY <1>1, <2>1 DEF Exit, KeptPrompt, EndingAsked, NotEnding, RecoveryTypeOK, osVars,
      launchVars, startVars, ledgerVars
<1>2. ASSUME NEW p \in Pids, ForeignStart(p) PROVE EndingAsked'
  <2>1. KeptPrompt
    BY <1>2, PromptStep DEF ForeignStart
  <2> QED BY <1>2, <2>1 DEF ForeignStart, KeptPrompt, EndingAsked, NotEnding, RecoveryTypeOK,
      osVars, launchVars, startVars, ledgerVars
<1>3. ASSUME NEW i \in Instances, LaunchAllocate(i) PROVE EndingAsked'
  BY <1>3 DEF LaunchAllocate, RecoveryTypeOK, QuietStart, NoOverlap, NotEnding, Handle,
     EndingAsked, Unprompted, Running, osVars, launchVars, startVars, ledgerVars
<1>4. ASSUME NEW i \in Instances, LaunchReserve(i) PROVE EndingAsked'
  BY <1>4 DEF LaunchReserve, Reserve, ReserveRefused, RecoveryTypeOK, QuietStart, NoOverlap,
     NotEnding, Handle, EndingAsked, Unprompted, Running, osVars, launchVars, startVars,
     ledgerVars
<1>5. ASSUME NEW i \in Instances, LaunchRaises(i) PROVE EndingAsked'
  BY <1>5 DEF LaunchRaises, RecoveryTypeOK, QuietStart, NoOverlap, NotEnding, Handle,
     EndingAsked, Unprompted, Running, osVars, launchVars, startVars, ledgerVars
<1>6. ASSUME NEW i \in Instances, LaunchSpawn(i) PROVE EndingAsked'
  BY <1>6 DEF LaunchSpawn, Spawn, RecoveryTypeOK, QuietStart, NoOverlap, NotEnding, Handle,
     EndingAsked, Unprompted, Running, osVars, launchVars, startVars, ledgerVars
<1>7. ASSUME NEW i \in Instances, LaunchPersist(i) PROVE EndingAsked'
  BY <1>7 DEF LaunchPersist, Persist, RecordOf, RecoveryTypeOK, QuietStart, NoOverlap,
     NotEnding, Handle, EndingAsked, Unprompted, Running, osVars, launchVars, startVars,
     ledgerVars
<1>8. ASSUME NEW i \in Instances, LaunchFinish(i) PROVE EndingAsked'
  BY <1>8 DEF LaunchFinish, Persist, RecordOf, RecoveryTypeOK, QuietStart, NoOverlap, NotEnding,
     Handle, EndingAsked, Unprompted, Running, osVars, launchVars, startVars, ledgerVars
<1>9. ASSUME NEW i \in Instances, LaunchAbort(i) PROVE EndingAsked'
  <2>1. KeptPrompt
    BY <1>9, PromptStep DEF LaunchAbort
  <2> QED BY <1>9, <2>1 DEF LaunchAbort, Release, KeptPrompt, EndingAsked, NotEnding,
      RecoveryTypeOK, osVars, launchVars, startVars, ledgerVars
<1>10. ASSUME NEW i \in Instances, StopBegin(i) PROVE EndingAsked'
  <2>1. KeptPrompt
    BY <1>10, PromptStep DEF StopBegin
  <2> QED BY <1>10, <2>1 DEF StopBegin, KeptPrompt, EndingAsked, NotEnding, RecoveryTypeOK,
      osVars, launchVars, startVars, ledgerVars
<1>11. ASSUME NEW i \in Instances, StopFinish(i) PROVE EndingAsked'
  <2>1. KeptPrompt
    BY <1>11, PromptStep DEF StopFinish
  <2> QED BY <1>11, <2>1 DEF StopFinish, Release, KeptPrompt, EndingAsked, NotEnding,
      RecoveryTypeOK, osVars, launchVars, startVars, ledgerVars
<1>12. ASSUME EndAllRequest PROVE EndingAsked'
  <2>1. ASSUME NEW i \in Instances PROVE ~Unprompted(i)'
    <3>1. CASE Running(i)
      <4>1. handle[i].pid \in Pids /\ procs[handle[i].pid] # None
            /\ procs[handle[i].pid] \in Process
        BY <3>1 DEF Running, Handle, RecoveryTypeOK
      <4>2. Managed(handle[i].pid)
        BY <3>1 DEF Managed, Manages
      <4>3. procs'[handle[i].pid].told # "no"
        BY <1>12, <4>1, <4>2 DEF EndAllRequest, Asked, Process
      <4> QED BY <1>12, <4>3 DEF EndAllRequest, Unprompted
    <3>2. CASE ~Running(i)
      <4>1. KeptPrompt
        BY <1>12, PromptStep DEF EndAllRequest
      <4> QED BY <1>12, <3>2, <4>1 DEF EndAllRequest, KeptPrompt, Unprompted
    <3> QED BY <3>1, <3>2
  <2> QED BY <1>12, <2>1 DEF EndAllRequest, EndingAsked
<1>13. ASSUME EndAllKill PROVE EndingAsked'
  <2>1. KeptPrompt
    BY <1>13, PromptStep DEF EndAllKill
  <2> QED BY <1>13, <2>1 DEF EndAllKill, KeptPrompt, EndingAsked, NotEnding, RecoveryTypeOK,
      osVars, launchVars, startVars, ledgerVars
<1>14. ASSUME NEW i \in Instances, EndAllRelease(i) PROVE EndingAsked'
  BY <1>14 DEF EndAllRelease, Release, RecoveryTypeOK, QuietStart, NoOverlap, NotEnding, Handle,
     EndingAsked, Unprompted, Running, osVars, launchVars, startVars, ledgerVars
<1>15. ASSUME EndAllDone PROVE EndingAsked'
  BY <1>15 DEF EndAllDone, NotEnding, RecoveryTypeOK, QuietStart, NoOverlap, Handle,
     EndingAsked, Unprompted, Running, osVars, launchVars, startVars, ledgerVars
<1>16. ASSUME AgentGone PROVE EndingAsked'
  BY <1>16 DEF AgentGone, NewLedger, NotEnding, RecoveryTypeOK, QuietStart, NoOverlap, Handle,
     EndingAsked, Unprompted, Running, osVars, launchVars, startVars, ledgerVars
<1>17. ASSUME RecoverAdopt PROVE EndingAsked'
  <2>1. ending' = NotEnding
    BY <1>17 DEF RecoverAdopt, QuietStart, TodoJournaled
  <2> QED BY <2>1 DEF EndingAsked, NotEnding
<1>18. ASSUME CleanupPost PROVE EndingAsked'
  <2>1. KeptPrompt
    BY <1>18, PromptStep DEF CleanupPost
  <2> QED BY <1>18, <2>1 DEF CleanupPost, CleanupStep, KeptPrompt, EndingAsked, NotEnding,
      RecoveryTypeOK, osVars, launchVars, startVars, ledgerVars
<1>19. ASSUME CleanupSignal PROVE EndingAsked'
  <2>1. KeptPrompt
    BY <1>19, PromptStep DEF CleanupSignal
  <2> QED BY <1>19, <2>1 DEF CleanupSignal, CleanupStep, KeptPrompt, EndingAsked, NotEnding,
      RecoveryTypeOK, osVars, launchVars, startVars, ledgerVars
<1>20. ASSUME NEW i \in Instances, Poll(i) \/ Measure(i) \/ StopRefused(i) \/
                                   RecoverMissing(i) \/ RecoverOrphan(i) \/ RecoverVerified(i)
      PROVE  EndingAsked'
  BY <1>20 DEF Poll, Measure, StopRefused, RecoverMissing, RecoverOrphan, RecoverVerified,
     EndingAsked, Unprompted, Running, osVars, launchVars, startVars, ledgerVars
<1>21. ASSUME NEW p \in Pids, CleanupBegin(p)
      PROVE  EndingAsked'
  BY <1>21 DEF CleanupBegin, EndingAsked, Unprompted, Running, osVars, launchVars, startVars,
     ledgerVars
<1>22. ASSUME Time \/ Boot \/ RecoverReserve \/ Scan \/ Serve \/ CleanupCheck
      PROVE  EndingAsked'
  BY <1>22 DEF Time, Boot, RecoverReserve, Scan, Serve, CleanupCheck, EndingAsked, Unprompted,
     Running, osVars, launchVars, startVars, ledgerVars
<1>23. CASE UNCHANGED vars
  BY <1>23 DEF vars, EndingAsked, Unprompted, Running, osVars, launchVars, startVars, ledgerVars
<1> QED BY <1>1, <1>2, <1>3, <1>4, <1>5, <1>6, <1>7, <1>8, <1>9, <1>10, <1>11, <1>12, <1>13,
    <1>14, <1>15, <1>16, <1>17, <1>18, <1>19, <1>20, <1>21, <1>22, <1>23
  DEF Next, Host, Launching, Managing, Recovering, CleaningUp, Shutdown, Crash

LEMMA BeforeSpawnStep ==
  ASSUME RecoveryTypeOK, LedgerTypeOK, QuietStart, TodoJournaled, EndingAsked,
         LaunchHas, StoppingKnown, ReservedBeforeSpawn, [Next]_vars
  PROVE  ReservedBeforeSpawn'
<1>1. ASSUME Time PROVE ReservedBeforeSpawn'
  BY <1>1 DEF Time, Tick, RecoveryTypeOK, ReservedBeforeSpawn, HoldsIts, osVars, launchVars,
     startVars, ledgerVars
<1>2. ASSUME NEW i \in Instances, LaunchAllocate(i) PROVE ReservedBeforeSpawn'
  BY <1>2 DEF LaunchAllocate, RecoveryTypeOK, ReservedBeforeSpawn, HoldsIts, osVars, launchVars,
     startVars, ledgerVars
<1>3. ASSUME NEW i \in Instances, LaunchReserve(i) PROVE ReservedBeforeSpawn'
  <2>1. (\A j \in Instances : Kept(j))
        /\ (launch' = [launch EXCEPT ![i] = "reserved"] => HoldsIts(i)')
    BY <1>3, LaunchReserveHolds
  <2>2. \A j \in Instances \ {i} : launch'[j] = launch[j] /\ (j \in current' => j \in current)
    BY <1>3 DEF LaunchReserve, RecoveryTypeOK
  <2>3. port' = port /\ \A j \in Instances : launch[j] # "no" => port[j] # None
    BY <1>3 DEF LaunchReserve, LaunchHas
  <2>4. \A j \in Instances \ {i} :
          launch'[j] \notin {"no", "allocated"} /\ j \in current' => HoldsIts(j)'
    BY <2>1, <2>2, <2>3, HoldsKept DEF ReservedBeforeSpawn
  <2>5. launch'[i] = "no" \/ HoldsIts(i)'
    BY <1>3, <2>1 DEF LaunchReserve, RecoveryTypeOK
  <2> QED BY <2>4, <2>5 DEF ReservedBeforeSpawn
<1>4. ASSUME NEW i \in Instances, LaunchRaises(i) PROVE ReservedBeforeSpawn'
  BY <1>4 DEF LaunchRaises, RecoveryTypeOK, ReservedBeforeSpawn, HoldsIts, osVars, launchVars,
     startVars, ledgerVars
<1>5. ASSUME NEW i \in Instances, LaunchSpawn(i) PROVE ReservedBeforeSpawn'
  BY <1>5 DEF LaunchSpawn, Spawn, RecoveryTypeOK, ReservedBeforeSpawn, HoldsIts, osVars,
     launchVars, startVars, ledgerVars
<1>6. ASSUME NEW i \in Instances, LaunchPersist(i) PROVE ReservedBeforeSpawn'
  BY <1>6 DEF LaunchPersist, Persist, RecordOf, RecoveryTypeOK, ReservedBeforeSpawn, HoldsIts,
     osVars, launchVars, startVars, ledgerVars
<1>7. ASSUME NEW i \in Instances, LaunchFinish(i) PROVE ReservedBeforeSpawn'
  BY <1>7 DEF LaunchFinish, Persist, RecordOf, RecoveryTypeOK, ReservedBeforeSpawn, HoldsIts,
     osVars, launchVars, startVars, ledgerVars
<1>8. ASSUME NEW i \in Instances, LaunchAbort(i) PROVE ReservedBeforeSpawn'
  <2>1. \A j \in Instances \ {i} : Kept(j) /\ launch'[j] = launch[j]
    BY <1>8, ReleaseHolds DEF LaunchAbort
  <2>2. launch'[i] = "no" /\ current' = current /\ port' = port
    BY <1>8 DEF LaunchAbort, RecoveryTypeOK
  <2> QED BY <2>1, <2>2, HoldsKept DEF ReservedBeforeSpawn, LaunchHas
<1>9. ASSUME NEW i \in Instances, Measure(i) PROVE ReservedBeforeSpawn'
  <2>1. (\A j \in Instances : Kept(j)) /\ UNCHANGED <<launch, current, port>>
    BY <1>9, MeasureHolds DEF Measure, launchVars
  <2> QED BY <2>1, HoldsKept DEF ReservedBeforeSpawn, LaunchHas
<1>10. ASSUME NEW i \in Instances, StopRefused(i) PROVE ReservedBeforeSpawn'
  BY <1>10 DEF StopRefused, RecoveryTypeOK, ReservedBeforeSpawn, HoldsIts, osVars, launchVars,
     startVars, ledgerVars
<1>11. ASSUME NEW i \in Instances, StopBegin(i) PROVE ReservedBeforeSpawn'
  BY <1>11 DEF StopBegin, PostStop, Listener, Asked, RecoveryTypeOK, ReservedBeforeSpawn,
     HoldsIts, osVars, launchVars, startVars, ledgerVars
<1>12. ASSUME NEW i \in Instances, StopFinish(i) PROVE ReservedBeforeSpawn'
  <2>1. \A j \in Instances \ {i} : Kept(j)
    BY <1>12, ReleaseHolds DEF StopFinish
  <2>2. UNCHANGED <<launch, current, port>>
    BY <1>12 DEF StopFinish
  <2>3. i \notin current
    BY <1>12 DEF StopFinish, StoppingKnown
  <2> QED BY <2>1, <2>2, <2>3, HoldsKept DEF ReservedBeforeSpawn, LaunchHas
<1>13. ASSUME EndAllRequest PROVE ReservedBeforeSpawn'
  BY <1>13 DEF EndAllRequest, NotEnding, RecoveryTypeOK, ReservedBeforeSpawn, HoldsIts, osVars,
     launchVars, startVars, ledgerVars
<1>14. ASSUME NEW i \in Instances, EndAllRelease(i) PROVE ReservedBeforeSpawn'
  <2>1. \A j \in Instances : launch[j] = "no"
    BY <1>14 DEF EndAllRelease, EndingAsked, NotEnding
  <2> QED BY <1>14, <2>1 DEF EndAllRelease, ReservedBeforeSpawn
<1>15. ASSUME AgentGone PROVE ReservedBeforeSpawn'
  BY <1>15 DEF AgentGone, NewLedger, NotEnding, RecoveryTypeOK, ReservedBeforeSpawn, HoldsIts,
     osVars, launchVars, startVars, ledgerVars
<1>16. ASSUME RecoverReserve PROVE ReservedBeforeSpawn'
  <2>1. \A i \in Instances : launch[i] = "no"
    BY <1>16 DEF RecoverReserve, QuietStart, TodoJournaled
  <2> QED BY <1>16, <2>1 DEF RecoverReserve, launchVars, ReservedBeforeSpawn
<1>17. ASSUME RecoverAdopt PROVE ReservedBeforeSpawn'
  <2>1. \A i \in Instances : launch[i] = "no"
    BY <1>17 DEF RecoverAdopt, QuietStart, TodoJournaled
  <2> QED BY <1>17, <2>1 DEF RecoverAdopt, ReservedBeforeSpawn
<1>18. ASSUME NEW i \in Instances, Poll(i) \/ RecoverMissing(i) \/ RecoverOrphan(i) \/
                                   RecoverVerified(i)
      PROVE  ReservedBeforeSpawn'
  BY <1>18 DEF Poll, RecoverMissing, RecoverOrphan, RecoverVerified, ReservedBeforeSpawn,
     HoldsIts, osVars, launchVars, startVars, ledgerVars
<1>19. ASSUME NEW p \in Pids, Exit(p) \/ ForeignStart(p) \/ CleanupBegin(p)
      PROVE  ReservedBeforeSpawn'
  BY <1>19 DEF Exit, ForeignStart, CleanupBegin, ReservedBeforeSpawn, HoldsIts, osVars,
     launchVars, startVars, ledgerVars
<1>20. ASSUME EndAllKill \/ EndAllDone \/ Boot \/ Scan \/ Serve \/ CleanupPost
      PROVE  ReservedBeforeSpawn'
  BY <1>20 DEF EndAllKill, EndAllDone, Boot, Scan, Serve, CleanupPost, ReservedBeforeSpawn,
     HoldsIts, osVars, launchVars, startVars, ledgerVars
<1>21. ASSUME CleanupSignal \/ CleanupCheck
      PROVE  ReservedBeforeSpawn'
  BY <1>21 DEF CleanupSignal, CleanupCheck, ReservedBeforeSpawn, HoldsIts, osVars, launchVars,
     startVars, ledgerVars
<1>22. CASE UNCHANGED vars
  BY <1>22 DEF vars, ReservedBeforeSpawn, HoldsIts, osVars, launchVars, startVars, ledgerVars
<1> QED BY <1>1, <1>2, <1>3, <1>4, <1>5, <1>6, <1>7, <1>8, <1>9, <1>10, <1>11, <1>12, <1>13,
    <1>14, <1>15, <1>16, <1>17, <1>18, <1>19, <1>20, <1>21, <1>22
  DEF Next, Host, Launching, Managing, Recovering, CleaningUp, Shutdown, Crash

LEMMA AdoptedStep ==
  ASSUME RecoveryTypeOK, LedgerTypeOK, QuietStart, TodoJournaled, AdoptedReserved, [Next]_vars
  PROVE  AdoptedReserved'
<1>1. ASSUME Time PROVE AdoptedReserved'
  BY <1>1 DEF Time, Tick, RecoveryTypeOK, AdoptedReserved, osVars, launchVars, startVars,
     ledgerVars
<1>2. ASSUME NEW i \in Instances, LaunchReserve(i) PROVE AdoptedReserved'
  <2>1. adopting' = None
    BY <1>2 DEF LaunchReserve, startVars, QuietStart, TodoJournaled
  <2> QED BY <2>1 DEF AdoptedReserved
<1>3. ASSUME NEW i \in Instances, LaunchAbort(i) PROVE AdoptedReserved'
  <2>1. adopting' = None
    BY <1>3 DEF LaunchAbort, startVars, QuietStart, TodoJournaled
  <2> QED BY <2>1 DEF AdoptedReserved
<1>4. ASSUME NEW i \in Instances, Measure(i) PROVE AdoptedReserved'
  <2>1. (\A j \in Instances : Kept(j)) /\ adopting' = adopting
    BY <1>4, MeasureHolds DEF Measure, startVars
  <2>2. adopting # None => adopting.rec.inst \in Instances /\ adopting.rec.port \in Ports
    BY DEF RecoveryTypeOK, Record
  <2> QED BY <2>1, <2>2 DEF AdoptedReserved, Kept
<1>5. ASSUME NEW i \in Instances, StopFinish(i) PROVE AdoptedReserved'
  <2>1. adopting' = None
    BY <1>5 DEF StopFinish, startVars, QuietStart, TodoJournaled
  <2> QED BY <2>1 DEF AdoptedReserved
<1>6. ASSUME NEW i \in Instances, EndAllRelease(i) PROVE AdoptedReserved'
  <2>1. adopting' = None
    BY <1>6 DEF EndAllRelease, startVars, QuietStart, TodoJournaled, NotEnding
  <2> QED BY <2>1 DEF AdoptedReserved
<1>7. ASSUME AgentGone PROVE AdoptedReserved'
  BY <1>7 DEF AgentGone, NewLedger, NotEnding, RecoveryTypeOK, AdoptedReserved, osVars,
     launchVars, startVars, ledgerVars
<1>8. ASSUME NEW i \in Instances, RecoverVerified(i) PROVE AdoptedReserved'
  BY <1>8 DEF RecoverVerified, Assessing, RecoveryTypeOK, AdoptedReserved, osVars, launchVars,
     startVars, ledgerVars
<1>9. ASSUME RecoverReserve PROVE AdoptedReserved'
  BY <1>9, RecoverReserveHolds
<1>10. ASSUME RecoverAdopt PROVE AdoptedReserved'
  BY <1>10 DEF RecoverAdopt, RecordOrphan, Release, RecoveryTypeOK, AdoptedReserved, osVars,
     launchVars, startVars, ledgerVars
<1>11. ASSUME NEW i \in Instances, LaunchAllocate(i) \/ LaunchRaises(i) \/ LaunchSpawn(i) \/
                                   LaunchPersist(i) \/ LaunchFinish(i) \/ Poll(i)
      PROVE  AdoptedReserved'
  BY <1>11 DEF LaunchAllocate, LaunchRaises, LaunchSpawn, LaunchPersist, LaunchFinish, Poll,
     AdoptedReserved, osVars, launchVars, startVars, ledgerVars
<1>12. ASSUME NEW i \in Instances, StopRefused(i) \/ StopBegin(i) \/ RecoverMissing(i) \/
                                   RecoverOrphan(i)
      PROVE  AdoptedReserved'
  BY <1>12 DEF StopRefused, StopBegin, RecoverMissing, RecoverOrphan, AdoptedReserved, osVars,
     launchVars, startVars, ledgerVars
<1>13. ASSUME NEW p \in Pids, Exit(p) \/ ForeignStart(p) \/ CleanupBegin(p)
      PROVE  AdoptedReserved'
  BY <1>13 DEF Exit, ForeignStart, CleanupBegin, AdoptedReserved, osVars, launchVars, startVars,
     ledgerVars
<1>14. ASSUME EndAllRequest \/ EndAllKill \/ EndAllDone \/ Boot \/ Scan \/ Serve
      PROVE  AdoptedReserved'
  BY <1>14 DEF EndAllRequest, EndAllKill, EndAllDone, Boot, Scan, Serve, AdoptedReserved,
     osVars, launchVars, startVars, ledgerVars
<1>15. ASSUME CleanupPost \/ CleanupSignal \/ CleanupCheck
      PROVE  AdoptedReserved'
  BY <1>15 DEF CleanupPost, CleanupSignal, CleanupCheck, AdoptedReserved, osVars, launchVars,
     startVars, ledgerVars
<1>16. CASE UNCHANGED vars
  BY <1>16 DEF vars, AdoptedReserved, osVars, launchVars, startVars, ledgerVars
<1> QED BY <1>1, <1>2, <1>3, <1>4, <1>5, <1>6, <1>7, <1>8, <1>9, <1>10, <1>11, <1>12, <1>13,
    <1>14, <1>15, <1>16
  DEF Next, Host, Launching, Managing, Recovering, CleaningUp, Shutdown, Crash

LEMMA CoverKept ==
  ASSUME RecoveryTypeOK, LaunchHas, ManagedIsReserved, NEW i \in Instances, Covered(i), Kept(i),
         port'[i] = port[i]
  PROVE  HoldsIts(i)'
<1>1. HoldsIts(i)
  BY DEF ManagedIsReserved
<1>2. handle[i] # None
  BY DEF Covered, Unprompted, Running
<1>3. port[i] # None
  BY <1>2 DEF LaunchHas
<1> QED BY <1>1, <1>3, HoldsKept

LEMMA CoverMoves ==
  ASSUME RecoveryTypeOK, BirthsBound, [Next]_vars, NEW i \in Instances, Covered(i)',
         handle'[i] = handle[i],
            launch'[i] = "no" \/ i \in current' => launch[i] = "no" \/ i \in current
  PROVE  Covered(i)
<1>1. KeptPrompt
  BY PromptStep
<1> QED BY <1>1 DEF KeptPrompt, Covered

LEMMA ManagedStep ==
  ASSUME RecoveryTypeOK, LedgerTypeOK, BirthsBound, LaunchHas, TodoJournaled,
         ReservedBeforeSpawn, RolesKnown, EndingAsked, StoppingKnown, AdoptedReserved,
         ManagedIsReserved, [Next]_vars
  PROVE  ManagedIsReserved'
<1>1. ASSUME NEW p \in Pids, Exit(p) PROVE ManagedIsReserved'
  <2> SUFFICES ASSUME NEW j \in Instances, Covered(j)' PROVE HoldsIts(j)'
    BY DEF ManagedIsReserved
  <2>1. Kept(j) /\ port'[j] = port[j] /\ handle'[j] = handle[j]
    BY <1>1 DEF Exit, Kept,
      osVars, launchVars, startVars, ledgerVars
  <2>2. launch'[j] = "no" \/ j \in current' => launch[j] = "no" \/ j \in current
    BY <1>1 DEF
      Exit, osVars, launchVars, startVars, ledgerVars
  <2> QED BY <2>1, <2>2, CoverMoves, CoverKept
<1>2. ASSUME NEW p \in Pids, ForeignStart(p) PROVE ManagedIsReserved'
  <2> SUFFICES ASSUME NEW j \in Instances, Covered(j)' PROVE HoldsIts(j)'
    BY DEF ManagedIsReserved
  <2>1. Kept(j) /\ port'[j] = port[j] /\ handle'[j] = handle[j]
    BY <1>2 DEF ForeignStart,
      Kept, osVars, launchVars, startVars, ledgerVars
  <2>2. launch'[j] = "no" \/ j \in current' => launch[j] = "no" \/ j \in current
    BY <1>2 DEF
      ForeignStart, osVars, launchVars, startVars, ledgerVars
  <2> QED BY <2>1, <2>2, CoverMoves, CoverKept
<1>3. ASSUME Time PROVE ManagedIsReserved'
  <2> SUFFICES ASSUME NEW j \in Instances, Covered(j)' PROVE HoldsIts(j)'
    BY DEF ManagedIsReserved
  <2>1. Kept(j) /\ port'[j] = port[j] /\ handle'[j] = handle[j]
    BY <1>3 DEF Time, Tick,
      Kept, osVars, launchVars, startVars, ledgerVars
  <2>2. launch'[j] = "no" \/ j \in current' => launch[j] = "no" \/ j \in current
    BY <1>3 DEF
      Time, osVars, launchVars, startVars, ledgerVars
  <2> QED BY <2>1, <2>2, CoverMoves, CoverKept
<1>4. ASSUME NEW i \in Instances, LaunchAllocate(i) PROVE ManagedIsReserved'
  <2> SUFFICES ASSUME NEW j \in Instances, Covered(j)' PROVE HoldsIts(j)'
    BY DEF ManagedIsReserved
  <2>1. CASE j = i
    <3>1. handle'[i] = None
      BY <1>4 DEF LaunchAllocate, LaunchHas
    <3> QED BY <2>1, <3>1 DEF Covered, Unprompted, Running
  <2>2. CASE j # i
    <3>1. Kept(j) /\ port'[j] = port[j] /\ handle'[j] = handle[j]
      BY <1>4, <2>2 DEF LaunchAllocate, Kept, ledgerVars
    <3>2. launch'[j] = launch[j] /\ current' = current
      BY <1>4, <2>2 DEF LaunchAllocate
    <3> QED BY <3>1, <3>2, CoverMoves, CoverKept
  <2> QED BY <2>1, <2>2
<1>5. ASSUME NEW i \in Instances, LaunchReserve(i) PROVE ManagedIsReserved'
  <2> SUFFICES ASSUME NEW j \in Instances, Covered(j)' PROVE HoldsIts(j)'
    BY DEF ManagedIsReserved
  <2>1. CASE j = i
    <3>1. handle'[i] = None
      BY <1>5 DEF LaunchReserve, LaunchHas
    <3> QED BY <2>1, <3>1 DEF Covered, Unprompted, Running
  <2>2. CASE j # i
    <3>1. Kept(j) /\ port'[j] = port[j] /\ handle'[j] = handle[j]
      BY <1>5, LaunchReserveHolds DEF LaunchReserve
    <3>2. launch'[j] = launch[j] /\ (j \in current' => j \in current)
      BY <1>5, <2>2 DEF LaunchReserve, RecoveryTypeOK
    <3> QED BY <3>1, <3>2, CoverMoves, CoverKept
  <2> QED BY <2>1, <2>2
<1>6. ASSUME NEW i \in Instances, LaunchRaises(i) PROVE ManagedIsReserved'
  <2> SUFFICES ASSUME NEW j \in Instances, Covered(j)' PROVE HoldsIts(j)'
    BY DEF ManagedIsReserved
  <2>1. CASE j = i
    <3>1. handle'[i] = None
      BY <1>6 DEF LaunchRaises, LaunchHas
    <3> QED BY <2>1, <3>1 DEF Covered, Unprompted, Running
  <2>2. CASE j # i
    <3>1. Kept(j) /\ port'[j] = port[j] /\ handle'[j] = handle[j]
      BY <1>6 DEF LaunchRaises, Kept, ledgerVars
    <3>2. launch'[j] = launch[j] /\ current' = current
      BY <1>6, <2>2 DEF LaunchRaises
    <3> QED BY <3>1, <3>2, CoverMoves, CoverKept
  <2> QED BY <2>1, <2>2
<1>7. ASSUME NEW i \in Instances, LaunchSpawn(i) PROVE ManagedIsReserved'
  <2> SUFFICES ASSUME NEW j \in Instances, Covered(j)' PROVE HoldsIts(j)'
    BY DEF ManagedIsReserved
  <2>1. CASE j = i
    <3>1. launch'[i] = "spawned"
      BY <1>7 DEF LaunchSpawn, RecoveryTypeOK
    <3>2. i \in current
      BY <1>7, <2>1, <3>1 DEF LaunchSpawn, Covered
    <3>3. HoldsIts(i)
      BY <1>7, <3>2 DEF LaunchSpawn, ReservedBeforeSpawn
    <3> QED BY <1>7, <2>1, <3>3 DEF LaunchSpawn, HoldsIts, ledgerVars
  <2>2. CASE j # i
    <3>1. Kept(j) /\ port'[j] = port[j] /\ handle'[j] = handle[j]
      BY <1>7, <2>2 DEF LaunchSpawn, Kept, ledgerVars
    <3>2. launch'[j] = launch[j] /\ current' = current
      BY <1>7, <2>2 DEF LaunchSpawn
    <3> QED BY <3>1, <3>2, CoverMoves, CoverKept
  <2> QED BY <2>1, <2>2
<1>8. ASSUME NEW i \in Instances, LaunchPersist(i) PROVE ManagedIsReserved'
  <2> SUFFICES ASSUME NEW j \in Instances, Covered(j)' PROVE HoldsIts(j)'
    BY DEF ManagedIsReserved
  <2>1. Kept(j) /\ port'[j] = port[j] /\ handle'[j] = handle[j]
    BY <1>8 DEF LaunchPersist,
      Kept, osVars, launchVars, startVars, ledgerVars
  <2>2. launch'[j] = "no" \/ j \in current' => launch[j] = "no" \/ j \in current
    BY <1>8 DEF
      LaunchPersist, osVars, launchVars, startVars, ledgerVars
  <2> QED BY <2>1, <2>2, CoverMoves, CoverKept
<1>9. ASSUME NEW i \in Instances, LaunchFinish(i) PROVE ManagedIsReserved'
  <2> SUFFICES ASSUME NEW j \in Instances, Covered(j)' PROVE HoldsIts(j)'
    BY DEF ManagedIsReserved
  <2>1. Kept(j) /\ port'[j] = port[j] /\ handle'[j] = handle[j]
    BY <1>9 DEF LaunchFinish, Kept, ledgerVars
  <2>2. launch'[j] = "no" \/ j \in current' => launch[j] = "no" \/ j \in current
    BY <1>9 DEF LaunchFinish
  <2> QED BY <2>1, <2>2, CoverMoves, CoverKept
<1>10. ASSUME NEW i \in Instances, LaunchAbort(i) PROVE ManagedIsReserved'
  <2> SUFFICES ASSUME NEW j \in Instances, Covered(j)' PROVE HoldsIts(j)'
    BY DEF ManagedIsReserved
  <2>1. j # i
    BY <1>10, SignalManagedPrompts DEF LaunchAbort, Covered
  <2>2. Kept(j) /\ port'[j] = port[j] /\ handle'[j] = handle[j]
    BY <1>10, <2>1, ReleaseHolds DEF LaunchAbort
  <2>3. launch'[j] = launch[j] /\ current' = current
    BY <1>10, <2>1 DEF LaunchAbort
  <2> QED BY <2>2, <2>3, CoverMoves, CoverKept
<1>11. ASSUME NEW i \in Instances, Measure(i) PROVE ManagedIsReserved'
  <2> SUFFICES ASSUME NEW j \in Instances, Covered(j)' PROVE HoldsIts(j)'
    BY DEF ManagedIsReserved
  <2>1. Kept(j) /\ UNCHANGED <<port, handle, launch, current>>
    BY <1>11, MeasureHolds DEF Measure, launchVars
  <2> QED BY <2>1, CoverMoves, CoverKept
<1>12. ASSUME NEW i \in Instances, StopRefused(i) PROVE ManagedIsReserved'
  <2> SUFFICES ASSUME NEW j \in Instances, Covered(j)' PROVE HoldsIts(j)'
    BY DEF ManagedIsReserved
  <2>1. Kept(j) /\ port'[j] = port[j] /\ handle'[j] = handle[j]
    BY <1>12 DEF StopRefused,
      Kept, osVars, launchVars, startVars, ledgerVars
  <2>2. launch'[j] = "no" \/ j \in current' => launch[j] = "no" \/ j \in current
    BY <1>12 DEF
      StopRefused, osVars, launchVars, startVars, ledgerVars
  <2> QED BY <2>1, <2>2, CoverMoves, CoverKept
<1>13. ASSUME NEW i \in Instances, StopBegin(i) PROVE ManagedIsReserved'
  <2> SUFFICES ASSUME NEW j \in Instances, Covered(j)' PROVE HoldsIts(j)'
    BY DEF ManagedIsReserved
  <2>1. Kept(j) /\ port'[j] = port[j] /\ handle'[j] = handle[j]
    BY <1>13 DEF StopBegin,
      Kept, osVars, launchVars, startVars, ledgerVars
  <2>2. launch'[j] = "no" \/ j \in current' => launch[j] = "no" \/ j \in current
    BY <1>13 DEF
      StopBegin, osVars, launchVars, startVars, ledgerVars
  <2> QED BY <2>1, <2>2, CoverMoves, CoverKept
<1>14. ASSUME NEW i \in Instances, StopFinish(i) PROVE ManagedIsReserved'
  <2> SUFFICES ASSUME NEW j \in Instances, Covered(j)' PROVE HoldsIts(j)'
    BY DEF ManagedIsReserved
  <2>1. UNCHANGED <<port, handle, launch, current>>
    BY <1>14 DEF StopFinish
  <2>2. Covered(j)
    BY <2>1, CoverMoves
  <2>3. j # i
    <3>1. i \in roles => ~Unprompted(i)'
      BY <1>14, SignalManagedPrompts DEF StopFinish
    <3>2. i \notin roles => ~Covered(i)
      BY <1>14 DEF RolesKnown, Covered, StopFinish
    <3> QED BY <2>2, <3>1, <3>2 DEF Covered
  <2>4. Kept(j)
    BY <1>14, <2>3, ReleaseHolds DEF StopFinish
  <2> QED BY <2>1, <2>2, <2>4, CoverKept
<1>15. ASSUME EndAllRequest PROVE ManagedIsReserved'
  <2> SUFFICES ASSUME NEW j \in Instances, Covered(j)' PROVE HoldsIts(j)'
    BY DEF ManagedIsReserved
  <2>1. Kept(j) /\ port'[j] = port[j] /\ handle'[j] = handle[j]
    BY <1>15 DEF EndAllRequest,
      Kept, osVars, launchVars, startVars, ledgerVars
  <2>2. launch'[j] = "no" \/ j \in current' => launch[j] = "no" \/ j \in current
    BY <1>15 DEF
      EndAllRequest, osVars, launchVars, startVars, ledgerVars
  <2> QED BY <2>1, <2>2, CoverMoves, CoverKept
<1>16. ASSUME EndAllKill PROVE ManagedIsReserved'
  <2> SUFFICES ASSUME NEW j \in Instances, Covered(j)' PROVE HoldsIts(j)'
    BY DEF ManagedIsReserved
  <2>1. Kept(j) /\ port'[j] = port[j] /\ handle'[j] = handle[j]
    BY <1>16 DEF EndAllKill,
      Kept, osVars, launchVars, startVars, ledgerVars
  <2>2. launch'[j] = "no" \/ j \in current' => launch[j] = "no" \/ j \in current
    BY <1>16 DEF
      EndAllKill, osVars, launchVars, startVars, ledgerVars
  <2> QED BY <2>1, <2>2, CoverMoves, CoverKept
<1>17. ASSUME NEW i \in Instances, EndAllRelease(i) PROVE ManagedIsReserved'
  <2> SUFFICES ASSUME NEW j \in Instances, Covered(j)' PROVE HoldsIts(j)'
    BY DEF ManagedIsReserved
  <2>1. UNCHANGED <<port, handle, launch, current>>
    BY <1>17 DEF EndAllRelease
  <2>2. ending # NotEnding
    BY <1>17 DEF EndAllRelease, NotEnding
  <2> QED BY <2>1, <2>2, CoverMoves DEF EndingAsked, Covered
<1>18. ASSUME AgentGone PROVE ManagedIsReserved'
  <2> SUFFICES ASSUME NEW j \in Instances, Covered(j)' PROVE HoldsIts(j)'
    BY DEF ManagedIsReserved
  <2> QED BY <1>18 DEF AgentGone, Covered, Unprompted, Running
<1>19. ASSUME RecoverReserve PROVE ManagedIsReserved'
  <2> SUFFICES ASSUME NEW j \in Instances, Covered(j)' PROVE HoldsIts(j)'
    BY DEF ManagedIsReserved
  <2>1. Kept(j) /\ UNCHANGED <<port, handle, launch, current>>
    BY <1>19, RecoverReserveHolds DEF RecoverReserve, launchVars
  <2> QED BY <2>1, CoverMoves, CoverKept
<1>20. ASSUME RecoverAdopt PROVE ManagedIsReserved'
  <2> SUFFICES ASSUME NEW j \in Instances, Covered(j)' PROVE HoldsIts(j)'
    BY DEF ManagedIsReserved
  <2> DEFINE i == adopting.rec.inst
  <2>1. i \in Instances /\ handle[i] = None /\ UNCHANGED <<launch, current>>
    BY <1>20 DEF RecoverAdopt, TodoJournaled, RecoveryTypeOK, Record
  <2>2. CASE j # i
    <3>1. Kept(j)
      BY <1>20, <2>1, <2>2, ReleaseHolds DEF RecoverAdopt, Kept, ledgerVars
    <3>2. port'[j] = port[j] /\ handle'[j] = handle[j]
      BY <1>20, <2>1, <2>2 DEF RecoverAdopt, RecoveryTypeOK
    <3> QED BY <2>1, <3>1, <3>2, CoverMoves, CoverKept
  <2>3. CASE j = i /\ Matches(adopting.rec)
    <3>1. port'[i] = adopting.rec.port /\ UNCHANGED ledgerVars
      BY <1>20, <2>1, <2>3 DEF RecoverAdopt, RecoveryTypeOK
    <3>2. reserved[i] # None /\ (i \notin Workers => portOwner[adopting.rec.port] = i)
      BY <1>20 DEF RecoverAdopt, AdoptedReserved
    <3>3. reserved'[i] # None /\ (i \notin Workers => portOwner'[port'[i]] = i)
      BY <3>1, <3>2 DEF ledgerVars
    <3> QED BY <2>3, <3>3 DEF HoldsIts
  <2>4. CASE j = i /\ ~Matches(adopting.rec)
    <3>1. handle' = handle
      BY <1>20, <2>4 DEF RecoverAdopt
    <3> QED BY <2>1, <2>4, <3>1 DEF Covered, Unprompted, Running
  <2> QED BY <2>2, <2>3, <2>4
<1>21. ASSUME CleanupPost PROVE ManagedIsReserved'
  <2> SUFFICES ASSUME NEW j \in Instances, Covered(j)' PROVE HoldsIts(j)'
    BY DEF ManagedIsReserved
  <2>1. Kept(j) /\ port'[j] = port[j] /\ handle'[j] = handle[j]
    BY <1>21 DEF CleanupPost,
      Kept, osVars, launchVars, startVars, ledgerVars
  <2>2. launch'[j] = "no" \/ j \in current' => launch[j] = "no" \/ j \in current
    BY <1>21 DEF
      CleanupPost, osVars, launchVars, startVars, ledgerVars
  <2> QED BY <2>1, <2>2, CoverMoves, CoverKept
<1>22. ASSUME CleanupSignal PROVE ManagedIsReserved'
  <2> SUFFICES ASSUME NEW j \in Instances, Covered(j)' PROVE HoldsIts(j)'
    BY DEF ManagedIsReserved
  <2>1. Kept(j) /\ port'[j] = port[j] /\ handle'[j] = handle[j]
    BY <1>22 DEF CleanupSignal,
      Kept, osVars, launchVars, startVars, ledgerVars
  <2>2. launch'[j] = "no" \/ j \in current' => launch[j] = "no" \/ j \in current
    BY <1>22 DEF
      CleanupSignal, osVars, launchVars, startVars, ledgerVars
  <2> QED BY <2>1, <2>2, CoverMoves, CoverKept
<1>23. ASSUME NEW i \in Instances, Poll(i) \/ RecoverMissing(i) \/ RecoverOrphan(i) \/
                                   RecoverVerified(i)
      PROVE  ManagedIsReserved'
  BY <1>23 DEF Poll, RecoverMissing, RecoverOrphan, RecoverVerified, ManagedIsReserved, Covered,
     Unprompted, Running, HoldsIts, osVars, launchVars, startVars, ledgerVars
<1>24. ASSUME NEW p \in Pids, CleanupBegin(p)
      PROVE  ManagedIsReserved'
  BY <1>24 DEF CleanupBegin, ManagedIsReserved, Covered, Unprompted, Running, HoldsIts, osVars,
     launchVars, startVars, ledgerVars
<1>25. ASSUME EndAllDone \/ Boot \/ Scan \/ Serve \/ CleanupCheck
      PROVE  ManagedIsReserved'
  BY <1>25 DEF EndAllDone, Boot, Scan, Serve, CleanupCheck, ManagedIsReserved, Covered,
     Unprompted, Running, HoldsIts, osVars, launchVars, startVars, ledgerVars
<1>26. CASE UNCHANGED vars
  BY <1>26 DEF vars, ManagedIsReserved, Covered, Unprompted, Running, HoldsIts, osVars,
     launchVars, startVars, ledgerVars
<1> QED BY <1>1, <1>2, <1>3, <1>4, <1>5, <1>6, <1>7, <1>8, <1>9, <1>10, <1>11, <1>12, <1>13,
    <1>14, <1>15, <1>16, <1>17, <1>18, <1>19, <1>20, <1>21, <1>22, <1>23, <1>24, <1>25, <1>26
  DEF Next, Host, Launching, Managing, Recovering, CleaningUp, Shutdown, Crash

LEMMA ReservationInit == Init => ReservationInv
<1> SUFFICES ASSUME Init PROVE ReservationInv
  OBVIOUS
<1>1. Inv
  BY InvInit
<1>2. /\ ReservedBeforeSpawn /\ RolesKnown /\ EndingAsked
      /\ StoppingKnown /\ AdoptedReserved /\ ManagedIsReserved
  BY DEF Init, ReservedBeforeSpawn, RolesKnown, EndingAsked, StoppingKnown, AdoptedReserved,
     ManagedIsReserved, Covered, Unprompted, Running
<1> QED BY <1>1, <1>2 DEF ReservationInv

LEMMA ReservationStep ==
  ASSUME ~StopAllOverlapsLaunch
  PROVE  ReservationInv /\ [Next]_vars => ReservationInv'
<1> SUFFICES ASSUME ReservationInv, [Next]_vars PROVE ReservationInv'
  OBVIOUS
<1> USE DEF ReservationInv
<1>1. Inv'
  BY InvStep
<1>2. ReservedBeforeSpawn' /\ RolesKnown' /\ EndingAsked'
  BY BeforeSpawnStep, RolesStep, EndingStep DEF Inv
<1>3. StoppingKnown' /\ AdoptedReserved' /\ ManagedIsReserved'
  BY StoppingStep, AdoptedStep, ManagedStep DEF Inv
<1> QED BY <1>1, <1>2, <1>3

(* As long as no stop-all overlaps a launch, a managed process that nobody *)
(* told to stop is accounted for in the ledger, with its port, through     *)
(* every crash, adoption, measurement and stop.                            *)
(* (start_distributed, stop_instance and recover_persisted_instances.)     *)
THEOREM RecoveryKeepsReservations ==
  ASSUME ~StopAllOverlapsLaunch
  PROVE  Spec => []ManagedIsReserved
<1>1. ReservationInv => ManagedIsReserved
  BY DEF ReservationInv
<1> QED BY <1>1, ReservationInit, ReservationStep, PTL DEF Spec

-----------------------------------------------------------------------------
(***************************************************************************)
(* The account of the processes.  A runtime that no supervisor manages is  *)
(* a stray: none comes into being while an agent lives, so those the scan  *)
(* of its start reported are all there are.  The clean-up of one leaves it *)
(* in the audit until it is gone: whoever has its pid then is managed.     *)
(***************************************************************************)
Stray(p) == procs[p] # None /\ procs[p].owner \in Instances \ Video /\ ~Managed(p)

Reported(p) == \E o \in orphans : o.pid = p /\ o.state = "orphaned"

AccountInv ==
  /\ phase \in {"cleanup", "up"} => \A p \in Pids : Stray(p) => Reported(p)
  /\ phase = "down" => adopted = {}
  /\ phase = "recover" =>
       /\ \A p \in adopted : ~Stray(p)
       /\ \A p \in Pids : fenced[p] # None => Reported(p)
  /\ cleaning # None /\ Stray(cleaning.rec.pid) => Matches(cleaning.rec)

StraysKept ==
  \A p \in Pids : Stray(p)' => /\ Stray(p)
                              /\ procs'[p].born = procs[p].born
                              /\ procs'[p].owner = procs[p].owner

(* Processes are born of a launch, or are somebody else's.                 *)
LEMMA Births ==
  ASSUME [Next]_vars, births' # births
  PROVE  (\E p \in Pids : ForeignStart(p)) \/ (\E i \in Instances : LaunchSpawn(i))
<1>1. ASSUME NEW i \in Instances, Launching(i) PROVE LaunchSpawn(i)
  BY <1>1 DEF Launching, LaunchAllocate, LaunchReserve, LaunchRaises, LaunchPersist,
     LaunchFinish, LaunchAbort, osVars
<1>2. ASSUME NEW i \in Instances, Managing(i) PROVE FALSE
  BY <1>2 DEF Managing, Poll, Measure, StopRefused, StopBegin, StopFinish, EndAllRelease, osVars
<1>3. ASSUME Host PROVE \E p \in Pids : ForeignStart(p)
  BY <1>3 DEF Host, Time, Exit, osVars
<1>4. ASSUME EndAllRequest \/ EndAllKill \/ EndAllDone \/ Shutdown \/ Crash \/ Boot PROVE FALSE
  BY <1>4 DEF EndAllRequest, EndAllKill, EndAllDone, Shutdown, Crash, Boot, AgentGone, osVars
<1>5. ASSUME Recovering PROVE FALSE
  BY <1>5 DEF Recovering, RecoverMissing, RecoverOrphan, RecoverVerified, RecoverReserve,
     RecoverAdopt, Scan, Serve, osVars
<1>6. ASSUME CleaningUp PROVE FALSE
  BY <1>6 DEF CleaningUp, CleanupBegin, CleanupPost, CleanupSignal, CleanupCheck, osVars
<1>7. ~UNCHANGED vars
  BY DEF vars, osVars
<1> QED BY <1>1, <1>2, <1>3, <1>4, <1>5, <1>6, <1>7 DEF Next

(* A handle, once given, stays while the agent lives.                      *)
LEMMA HandlesStay ==
  ASSUME RecoveryTypeOK, LaunchHas, TodoJournaled, [Next]_vars, ~AgentGone
  PROVE  \A i \in Instances : handle[i] = None \/ handle'[i] = handle[i]
<1>1. ASSUME NEW i \in Instances, Launching(i), ~LaunchSpawn(i) PROVE handle' = handle
  BY <1>1 DEF Launching, LaunchAllocate, LaunchReserve, LaunchRaises, LaunchPersist,
     LaunchFinish, LaunchAbort
<1>2. ASSUME NEW i \in Instances, LaunchSpawn(i)
      PROVE  handle[i] = None /\ \A j \in Instances \ {i} : handle'[j] = handle[j]
  BY <1>2 DEF LaunchSpawn, LaunchHas, RecoveryTypeOK
<1>3. ASSUME NEW i \in Instances, Managing(i) PROVE handle' = handle
  BY <1>3 DEF Managing, Poll, Measure, StopRefused, StopBegin, StopFinish, EndAllRelease,
     launchVars
<1>4. ASSUME Host \/ EndAllRequest \/ EndAllKill \/ EndAllDone \/ Boot PROVE handle' = handle
  BY <1>4 DEF Host, Time, Exit, ForeignStart, EndAllRequest, EndAllKill, EndAllDone, Boot,
     launchVars
<1>5. ASSUME Recovering, ~RecoverAdopt PROVE handle' = handle
  BY <1>5 DEF Recovering, RecoverMissing, RecoverOrphan, RecoverVerified, RecoverReserve, Scan,
     Serve, launchVars
<1>6. ASSUME RecoverAdopt
      PROVE  \A i \in Instances : handle[i] = None \/ handle'[i] = handle[i]
  <2>1. adopting.rec.inst \in Instances /\ handle[adopting.rec.inst] = None
    BY <1>6 DEF RecoverAdopt, TodoJournaled, RecoveryTypeOK
  <2> QED BY <1>6, <2>1 DEF RecoverAdopt, RecoveryTypeOK
<1>7. ASSUME CleaningUp PROVE handle' = handle
  BY <1>7 DEF CleaningUp, CleanupBegin, CleanupPost, CleanupSignal, CleanupCheck, launchVars
<1>8. CASE UNCHANGED vars
  BY <1>8 DEF vars, launchVars
<1> QED BY <1>1, <1>2, <1>3, <1>4, <1>5, <1>6, <1>7, <1>8 DEF Next, Shutdown, Crash

LEMMA NoNewStray ==
  ASSUME Inv, [Next]_vars, ~AgentGone
  PROVE  StraysKept
<1> USE DEF Inv
<1>1. \A i \in Instances : handle[i] = None \/ handle'[i] = handle[i]
  BY HandlesStay
<1>2. ASSUME NEW p \in Pids, procs'[p] # None, procs[p] # None, procs'[p].born = procs[p].born,
             Managed(p)
      PROVE  Managed(p)'
  BY <1>1, <1>2 DEF Managed, Manages, Running
<1>3. CASE births' = births
  BY <1>2, <1>3, ProcsStep DEF SameProcs, StraysKept, Stray
<1>4. ASSUME NEW q \in Pids, ForeignStart(q) PROVE StraysKept
  BY <1>2, <1>4, RecoveryAssumption DEF ForeignStart, Spawn, StraysKept, Stray, RecoveryTypeOK
<1>5. ASSUME NEW i \in Instances, LaunchSpawn(i) PROVE StraysKept
  <2>1. PICK q \in Pids :
           /\ Spawn(q, i, IF i \in Workers THEN None ELSE port[i])
           /\ handle' = [handle EXCEPT ![i] = [pid |-> q, born |-> births']]
    BY <1>5 DEF LaunchSpawn
  <2>2. procs'[q].born = births' /\ procs'[q] # None
    <3>1. births' \in 1..MaxBirths /\ (port[i] \in Ports \cup {None})
      BY <2>1, RecoveryAssumption DEF Spawn, RecoveryTypeOK
    <3> DEFINE x == [owner |-> i, born |-> births',
                     port |-> IF i \in Workers THEN None ELSE port[i], told |-> "no"]
    <3>2. x \in Process
      BY <3>1 DEF Process
    <3>3. procs'[q] = x
      BY <2>1 DEF Spawn, RecoveryTypeOK
    <3> QED BY <3>2, <3>3, RecoveryAssumption
  <2>3. Managed(q)'
    <3>1. handle'[i] = [pid |-> q, born |-> births']
      BY <2>1 DEF RecoveryTypeOK
    <3>2. births' \in 1..MaxBirths
      BY <2>1, RecoveryAssumption DEF Spawn, RecoveryTypeOK
    <3>3. handle'[i] \in Handle
      BY <3>1, <3>2 DEF Handle
    <3> QED BY <2>2, <3>1, <3>3, RecoveryAssumption DEF Managed, Manages, Running
  <2>4. \A p \in Pids \ {q} : procs'[p] = procs[p]
    BY <2>1 DEF Spawn, RecoveryTypeOK
  <2> QED BY <1>2, <2>3, <2>4 DEF StraysKept, Stray
<1> QED BY <1>3, <1>4, <1>5, Births

(* Steps that touch neither the audit nor the clean-up in progress.        *)
LEMMA AccountFrame ==
  ASSUME Inv, AccountInv, StraysKept, UNCHANGED <<orphans, fenced, adopted>>,
         phase' = phase \/ (phase = "down" /\ phase' = "recover")
                        \/ (phase = "cleanup" /\ phase' = "up"),
         cleaning' = cleaning \/ (cleaning # None /\ cleaning'.rec = cleaning.rec)
  PROVE  AccountInv'
<1>1. \A p : Reported(p)' <=> Reported(p)
  BY DEF Reported
<1>2. phase' \in {"cleanup", "up"} => \A p \in Pids : Stray(p)' => Reported(p)'
  BY <1>1 DEF AccountInv, StraysKept
<1>3. ASSUME cleaning' # None PROVE Stray(cleaning.rec.pid)' => Matches(cleaning.rec)'
  <2>1. PICK r \in Record : cleaning.rec = r /\ cleaning'.rec = r /\ cleaning # None
    BY <1>3 DEF Inv, RecoveryTypeOK
  <2>2. r.pid \in Pids
    BY DEF Record
  <2>3. Stray(r.pid)' => Matches(r)'
    BY <2>1, <2>2 DEF AccountInv, StraysKept, Matches, Stray
  <2> QED BY <2>1, <2>3
<1>4. ASSUME phase' = "recover"
      PROVE  /\ \A p \in adopted' : ~Stray(p)'
             /\ \A p \in Pids : fenced'[p] # None => Reported(p)'
  <2>1. CASE phase = "recover"
    <3>1. \A p \in adopted : p \in Pids /\ ~Stray(p)
      BY <2>1 DEF AccountInv, Inv, RecoveryTypeOK
    <3> QED BY <1>1, <2>1, <3>1 DEF AccountInv, StraysKept
  <2>2. CASE phase = "down"
    BY <2>2 DEF AccountInv, Inv, QuietStart
  <2> QED BY <1>4, <2>1, <2>2
<1>5. phase' = "down" => adopted' = {}
  BY DEF AccountInv
<1> QED BY <1>2, <1>3, <1>4, <1>5 DEF AccountInv

(* The audit keeps an orphan under its pid, whatever it is updated to.     *)
LEMMA AuditReports ==
  ASSUME NEW p, NEW st, NEW safe, Audit(p, st, safe)
  PROVE  /\ \A q : q # p /\ Reported(q) => Reported(q)'
         /\ st = "orphaned" => Reported(p)'
<1> DEFINE new == [pid |-> p, state |-> st, safe |-> safe]
<1>1. new \in orphans' /\ \A o \in orphans : o.pid # p => o \in orphans'
  BY DEF Audit
<1> QED BY <1>1 DEF Reported

LEMMA RecordOrphanReports ==
  ASSUME RecoveryTypeOK, NEW r \in Record, RecordOrphan(r)
  PROVE  \A p \in Pids : /\ Reported(p) => Reported(p)'
                         /\ fenced'[p] # None /\ fenced[p] = None => Reported(p)'
<1> DEFINE new == [pid |-> r.pid, state |-> "orphaned", safe |-> Matches(r)]
<1>1. new \in orphans' /\ orphans \subseteq orphans'
  BY DEF RecordOrphan
<1>2. new.pid = r.pid /\ new.state = "orphaned"
  OBVIOUS
<1>3. \A p \in Pids : fenced'[p] # None /\ fenced[p] = None => p = r.pid
  BY DEF RecordOrphan, RecoveryTypeOK
<1> QED BY <1>1, <1>2, <1>3 DEF Reported

(* Startup: what is adopted is managed, what is fenced is reported.        *)
LEMMA RecordedAccount ==
  ASSUME Inv, AccountInv, StraysKept, NEW r \in Record, RecordOrphan(r),
         phase = "recover", UNCHANGED <<phase, adopted, cleaning>>
  PROVE  AccountInv'
<1>1. cleaning = None
  BY DEF Inv, QuietStart
<1>2. \A p \in Pids : fenced'[p] # None => Reported(p)'
  BY RecordOrphanReports DEF AccountInv, Inv
<1>3. \A p \in adopted : p \in Pids /\ ~Stray(p)
  BY DEF AccountInv, Inv, RecoveryTypeOK
<1>4. \A p \in adopted' : ~Stray(p)'
  BY <1>3 DEF StraysKept
<1> QED BY <1>1, <1>2, <1>4 DEF AccountInv, StraysKept

LEMMA AdoptedAccount ==
  ASSUME Inv, AccountInv, StraysKept, RecoverAdopt
  PROVE  AccountInv'
<1>1. phase = "recover" /\ phase' = phase /\ cleaning = None /\ cleaning' = cleaning
  BY DEF RecoverAdopt, Inv, TodoJournaled, QuietStart
<1>2. PICK r \in Record : r = adopting.rec
  BY DEF RecoverAdopt, Inv, RecoveryTypeOK
<1>3. CASE Matches(r)
  <2>1. /\ handle' = [handle EXCEPT ![r.inst] = [pid |-> r.pid, born |-> r.born]]
        /\ adopted' = adopted \cup {r.pid}
        /\ UNCHANGED <<orphans, fenced, procs>>
    BY <1>2, <1>3 DEF RecoverAdopt, osVars
  <2>2. Managed(r.pid)'
    <3>1. r.inst \in Instances /\ [pid |-> r.pid, born |-> r.born] \in Handle
      BY DEF Record, Handle
    <3>2. handle'[r.inst] = [pid |-> r.pid, born |-> r.born]
      BY <2>1, <3>1 DEF Inv, RecoveryTypeOK
    <3> QED BY <1>3, <2>1, <3>1, <3>2, RecoveryAssumption DEF Managed, Manages, Running, Matches
  <2>3. \A p \in adopted' : ~Stray(p)'
    <3>1. \A p \in adopted : p \in Pids /\ ~Stray(p)
      BY <1>1 DEF AccountInv, Inv, RecoveryTypeOK
    <3>2. ~Stray(r.pid)'
      BY <2>2 DEF Stray
    <3> QED BY <2>1, <3>1, <3>2 DEF StraysKept
  <2>4. \A p \in Pids : fenced'[p] # None => Reported(p)'
    BY <1>1, <2>1 DEF AccountInv, Reported
  <2> QED BY <1>1, <2>3, <2>4 DEF AccountInv
<1>4. CASE ~Matches(r)
  BY <1>1, <1>2, <1>4, RecordedAccount DEF RecoverAdopt
<1> QED BY <1>3, <1>4

(* The scan reports the rest.                                              *)
LEMMA ScanAccount ==
  ASSUME Inv, AccountInv, StraysKept, Scan
  PROVE  AccountInv'
<1>1. /\ phase = "recover" /\ phase' = "cleanup" /\ cleaning' = None
      /\ orphans' = orphans \cup {[pid |-> p, state |-> "orphaned", safe |-> FALSE] : p \in Unjournaled}
  BY DEF Scan, Inv, QuietStart
<1>2. ASSUME NEW p \in Pids, Stray(p)' PROVE Reported(p)'
  <2>1. Stray(p) /\ p \notin adopted
    BY <1>1, <1>2 DEF StraysKept, AccountInv
  <2>2. CASE fenced[p] # None
    BY <1>1, <2>2 DEF AccountInv, Reported
  <2>3. CASE fenced[p] = None
    <3>1. p \in Unjournaled
      BY <2>1, <2>3 DEF Unjournaled, Stray
    <3> DEFINE new == [pid |-> p, state |-> "orphaned", safe |-> FALSE]
    <3>2. new \in orphans' /\ new.pid = p /\ new.state = "orphaned"
      BY <1>1, <3>1
    <3> QED BY <3>2 DEF Reported
  <2> QED BY <2>2, <2>3
<1> QED BY <1>1, <1>2 DEF AccountInv

(* The clean-up takes a stray out of the audit only when it is gone.       *)
LEMMA BeginAccount ==
  ASSUME Inv, AccountInv, StraysKept, NEW p \in Pids, CleanupBegin(p)
  PROVE  AccountInv'
<1>1. /\ phase \in {"cleanup", "up"} /\ phase' = phase /\ cleaning = None
      /\ UNCHANGED procs
  BY DEF CleanupBegin, osVars
<1>2. CASE fenced[p] # None /\ Matches(fenced[p])
  <2>1. cleaning' = [rec |-> fenced[p], step |-> "post"] /\ UNCHANGED orphans
    BY <1>2 DEF CleanupBegin
  <2>2. \A q \in Pids : Stray(q)' => Reported(q)'
    BY <1>1, <2>1 DEF AccountInv, StraysKept, Reported
  <2>3. PICK r \in Record : r = fenced[p]
    BY <1>2 DEF Inv, RecoveryTypeOK
  <2>4. cleaning'.rec = r /\ Matches(r)'
    BY <1>1, <1>2, <2>1, <2>3 DEF Matches
  <2> QED BY <1>1, <2>2, <2>4 DEF AccountInv, Matches
<1>3. CASE ~(fenced[p] # None /\ Matches(fenced[p]))
  <2>1. Audit(p, "orphaned", FALSE) /\ cleaning' = None
    BY <1>1, <1>3 DEF CleanupBegin
  <2>2. \A q \in Pids : Stray(q)' => Reported(q)'
    BY <1>1, <2>1, AuditReports DEF AccountInv, StraysKept
  <2> QED BY <1>1, <2>1, <2>2 DEF AccountInv
<1> QED BY <1>2, <1>3

LEMMA CheckAccount ==
  ASSUME Inv, AccountInv, StraysKept, CleanupCheck
  PROVE  AccountInv'
<1>1. PICK r \in Record : cleaning # None /\ cleaning.rec = r
  BY DEF CleanupCheck, Inv, RecoveryTypeOK
<1>2. /\ phase \in {"cleanup", "up"} /\ phase' = phase /\ cleaning' = None
      /\ IF Matches(r) THEN Audit(r.pid, "orphaned", TRUE) ELSE Audit(r.pid, "cleaned", TRUE)
  BY <1>1 DEF CleanupCheck, Inv, QuietStart, RecoveryTypeOK
<1>3. ASSUME NEW q \in Pids, Stray(q)' PROVE Reported(q)'
  <2>1. Stray(q) /\ Reported(q)
    BY <1>2, <1>3 DEF StraysKept, AccountInv
  <2>2. q = r.pid => Matches(r)
    BY <1>1, <2>1 DEF AccountInv
  <2> QED BY <1>2, <2>1, <2>2, AuditReports
<1> QED BY <1>2, <1>3 DEF AccountInv

LEMMA AccountStep == Inv /\ AccountInv /\ [Next]_vars => AccountInv'
<1> SUFFICES ASSUME Inv, AccountInv, [Next]_vars PROVE AccountInv'
  OBVIOUS
<1>1. CASE AgentGone
  BY <1>1 DEF AgentGone, AccountInv
<1>2. CASE ~AgentGone
  <2>0. StraysKept
    BY <1>2, NoNewStray
  <2>1. ASSUME NEW i \in Instances, Launching(i) PROVE AccountInv'
    <3>1. UNCHANGED <<orphans, fenced, adopted, phase, cleaning>>
      BY <2>1 DEF Launching, LaunchAllocate, LaunchReserve, LaunchRaises, LaunchSpawn,
         LaunchPersist, LaunchFinish, LaunchAbort, startVars
    <3> QED BY <2>0, <3>1, AccountFrame
  <2>2. ASSUME NEW i \in Instances, Managing(i) PROVE AccountInv'
    <3>1. UNCHANGED <<orphans, fenced, adopted, phase, cleaning>>
      BY <2>2 DEF Managing, Poll, Measure, StopRefused, StopBegin, StopFinish, EndAllRelease,
         startVars
    <3> QED BY <2>0, <3>1, AccountFrame
  <2>3. ASSUME Host \/ EndAllRequest \/ EndAllKill \/ EndAllDone \/ UNCHANGED vars
        PROVE  AccountInv'
    <3>1. UNCHANGED <<orphans, fenced, adopted, phase, cleaning>>
      BY <2>3 DEF Host, Time, Exit, ForeignStart, EndAllRequest, EndAllKill, EndAllDone, vars,
         startVars
    <3> QED BY <2>0, <3>1, AccountFrame
  <2>4. ASSUME Boot \/ Serve PROVE AccountInv'
    <3>1. /\ UNCHANGED <<orphans, fenced, adopted, cleaning>>
          /\ (phase = "down" /\ phase' = "recover") \/ (phase = "cleanup" /\ phase' = "up")
      BY <2>4 DEF Boot, Serve, startVars
    <3> QED BY <2>0, <3>1, AccountFrame
  <2>5. ASSUME NEW i \in Instances, RecoverMissing(i) \/ RecoverVerified(i) PROVE AccountInv'
    <3>1. UNCHANGED <<orphans, fenced, adopted, phase, cleaning>>
      BY <2>5 DEF RecoverMissing, RecoverVerified
    <3> QED BY <2>0, <3>1, AccountFrame
  <2>6. ASSUME NEW i \in Instances, RecoverOrphan(i) PROVE AccountInv'
    <3>1. journal[i] \in Record
      BY <2>6 DEF RecoverOrphan, Assessing, Inv, TodoJournaled, RecoveryTypeOK
    <3> QED BY <2>0, <2>6, <3>1, RecordedAccount DEF RecoverOrphan, Assessing
  <2>7. ASSUME RecoverReserve PROVE AccountInv'
    <3>1. /\ adopting.rec \in Record /\ phase = "recover"
          /\ UNCHANGED <<phase, adopted, cleaning>>
      BY <2>7 DEF RecoverReserve, Inv, TodoJournaled, RecoveryTypeOK
    <3>2. UNCHANGED <<orphans, fenced>> \/ RecordOrphan(adopting.rec)
      BY <2>7 DEF RecoverReserve
    <3> QED BY <2>0, <3>1, <3>2, RecordedAccount, AccountFrame
  <2>8. ASSUME CleanupPost \/ CleanupSignal PROVE AccountInv'
    <3>1. /\ UNCHANGED <<orphans, fenced, adopted, phase>>
          /\ cleaning # None
          /\ \E st \in {"signal", "check"} : cleaning' = [cleaning EXCEPT !.step = st]
      BY <2>8 DEF CleanupPost, CleanupSignal, CleanupStep
    <3>2. cleaning'.rec = cleaning.rec
      BY <3>1 DEF Inv, RecoveryTypeOK
    <3> QED BY <2>0, <3>1, <3>2, AccountFrame
  <2> QED BY <1>2, <2>0, <2>1, <2>2, <2>3, <2>4, <2>5, <2>6, <2>7, <2>8, AdoptedAccount,
          ScanAccount, BeginAccount, CheckAccount
          DEF Next, Recovering, CleaningUp, Shutdown, Crash
<1> QED BY <1>1, <1>2

(* After the scan of a start of the agent, every runtime process (but the  *)
(* video ones) is managed by the supervisor or reported as an orphan, for  *)
(* any number of instances, processes and crashes.                         *)
(* (recover_persisted_instances and cleanup_orphaned_model_processes.)     *)
THEOREM RecoveryAccounts == Spec => []NothingUnaccounted
<1>1. Init => AccountInv
  BY DEF Init, AccountInv, Stray
<1>2. AccountInv => NothingUnaccounted
  BY DEF AccountInv, NothingUnaccounted, Stray, Reported
<1> QED BY <1>1, <1>2, AccountStep, InvInit, InvStep, PTL DEF Spec

=============================================================================
