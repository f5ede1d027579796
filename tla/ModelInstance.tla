--------------------------- MODULE ModelInstance ---------------------------
(***************************************************************************)
(* The lifecycle record of one model instance: ModelInstance of            *)
(* tokenity/control/instances.py.  A constant-level module: the methods of *)
(* the class are operators from one record to the next, each with the      *)
(* condition under which the method raises instead of returning.           *)
(*                                                                         *)
(* Left out: version and the timestamps (no caller passes                  *)
(* expected_version), the error and evidence payloads.                     *)
(***************************************************************************)
EXTENDS Naturals

Lifecycle ==
    {"discovered", "available", "queued", "launching",
     "distributed_initializing", "loading_metadata",
     "materializing_weights", "compiling_warming", "ready", "busy",
     "unloading", "stopped", "failed", "orphaned"}

(* _TRANSITIONS: the states each state may be followed by.                 *)
Successors ==
    [s \in Lifecycle |->
        CASE s = "discovered" -> {"available", "failed"}
          [] s = "available"  -> {"queued", "stopped", "failed"}
          [] s = "queued"     -> {"launching", "unloading", "failed"}
          [] s = "launching"  -> {"distributed_initializing",
                                  "loading_metadata", "unloading", "failed"}
          [] s = "distributed_initializing" ->
                                 {"loading_metadata", "unloading", "failed"}
          [] s = "loading_metadata" ->
                                 {"materializing_weights", "unloading", "failed"}
          [] s = "materializing_weights" ->
                                 {"compiling_warming", "unloading", "failed"}
          [] s = "compiling_warming" -> {"ready", "unloading", "failed"}
          [] s = "ready"      -> {"busy", "unloading", "failed", "orphaned"}
          [] s = "busy"       -> {"ready", "unloading", "failed", "orphaned"}
          [] s = "unloading"  -> {"stopped", "failed"}
          [] s = "stopped"    -> {"queued"}
          [] s = "failed"     -> {"queued", "unloading", "stopped"}
          [] s = "orphaned"   -> {"unloading", "stopped", "failed"}]

(* health_ready is None until the first health sample.                     *)
Health == {"unknown", "ready", "unready"}

InstanceRecord ==
    [state : Lifecycle, active : Nat, queued : Nat, health : Health]

NewInstance ==
    [state |-> "queued", active |-> 0, queued |-> 0, health |-> "unknown"]

(***************************************************************************)
(* transition(): a repeated state is a no-op; otherwise the table decides, *)
(* and UNLOADING is refused while a request is active or queued.           *)
(***************************************************************************)
CanTransition(inst, target) ==
    \/ target = inst.state
    \/ /\ target \in Successors[inst.state]
       /\ target = "unloading" => inst.active = 0 /\ inst.queued = 0

(* The assignments of transition(), which follow its checks.               *)
Assigned(inst, target) ==
    [state  |-> target,
     active |-> IF target = "stopped" THEN 0 ELSE inst.active,
     queued |-> IF target = "stopped" THEN 0 ELSE inst.queued,
     health |-> IF target \in {"unloading", "stopped"} THEN "unready"
                ELSE inst.health]

Transitioned(inst, target) ==
    IF target = inst.state THEN inst ELSE Assigned(inst, target)

-----------------------------------------------------------------------------
(* Request accounting.                                                     *)

Serving(inst) == inst.state \in {"ready", "busy"}

(* Dropping the last request, active or queued, returns BUSY to READY.     *)
Settled(inst) ==
    IF inst.active = 0 /\ inst.queued = 0 /\ inst.state = "busy"
    THEN [inst EXCEPT !.state = "ready"]
    ELSE inst

CanAcquireLease(inst) == Serving(inst)
LeaseAcquired(inst) == [inst EXCEPT !.active = @ + 1, !.state = "busy"]

CanReleaseLease(inst) == inst.active > 0
LeaseReleased(inst) == Settled([inst EXCEPT !.active = @ - 1])

CanEnqueue(inst) == Serving(inst)
Enqueued(inst) == [inst EXCEPT !.queued = @ + 1, !.state = "busy"]

(* Broken variants: no check of the counter, and no decrement.             *)
CanDequeueUnchecked(inst) == TRUE
DequeuedNothing(inst) == Settled(inst)

CanDequeue(inst) == inst.queued > 0
Dequeued(inst) == Settled([inst EXCEPT !.queued = @ - 1])
=============================================================================
