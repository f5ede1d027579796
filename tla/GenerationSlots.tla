-------------------------- MODULE GenerationSlots --------------------------
(***************************************************************************)
(* GenerationSlotScheduler of tokenity/control/instances.py: FIFO          *)
(* exclusion for generation on overlapping node sets, one condition        *)
(* variable, a bounded queue, timeouts, cancellation events, and the       *)
(* queued-request counter of the instance registry it keeps in step.       *)
(*                                                                         *)
(* A step is what a thread does between taking the condition's lock and    *)
(* giving it up, in wait() or on return.  Requests are one-shot calls of   *)
(* acquire(); releasing the returned lease is a step of its own.           *)
(***************************************************************************)
EXTENDS ModelInstance, Sequences, FiniteSets

CONSTANTS
    Request,         \* calls of acquire()
    Instance,        \* instance ids in the registry
    Node,            \* names of machines
    UnknownNode,     \* "*", the machine of a request that names none
    InstanceOf,      \* the instance_id argument of each call
    SelectedNodes,   \* the selected_nodes argument of each call
    MaxQueueDepth,   \* max_queue_depth
    Timed,           \* calls with a timeout
    Cancellable,     \* calls with a cancel_event: their wait() polls
    Stoppable        \* instances that an operator may stop, or that may fail

ASSUME SlotAssumptions ==
    /\ UnknownNode \notin Node \cup Request
    /\ InstanceOf \in [Request -> Instance]
    /\ SelectedNodes \in [Request -> SUBSET Node]
    /\ MaxQueueDepth \in Nat
    /\ Timed \subseteq Request
    /\ Cancellable \subseteq Request
    /\ Stoppable \subseteq Instance

VARIABLES
    waiting,      \* _waiting: the deque of queued requests
    active,       \* _active: the requests that hold a slot
    ticket,       \* the sequence number of each request's record, 0 before
    sequence,     \* _sequence
    call,         \* where each call of acquire() is
    notified,     \* sleeping calls a notify_all has woken
    cancelled,    \* the cancel events that are set
    instances,    \* the registry's records
    unloading     \* stops between transition()'s check and its assignment

slotVars == <<waiting, active, ticket, sequence, call, notified, cancelled>>
vars == <<waiting, active, ticket, sequence, call, notified, cancelled,
          instances, unloading>>

CallState ==
    {"idle", "sleeping", "granted", "released",
     "full", "timeout", "cancelled", "conflict"}

-----------------------------------------------------------------------------
(* _normalize_nodes, _overlaps and _can_grant.                             *)

Nodes(r) == IF SelectedNodes[r] = {} THEN {UnknownNode} ELSE SelectedNodes[r]

(* Broken variant: two requests overlap only on machines both name.        *)
OverlapsWhereNamed(r, s) == Nodes(r) \cap Nodes(s) # {}

Overlaps(r, s) ==
    \/ UnknownNode \in Nodes(r)
    \/ UnknownNode \in Nodes(s)
    \/ Nodes(r) \cap Nodes(s) # {}

(* Broken variant: popleft() instead of remove(record).                    *)
HeadPosition(r) == 1

Position(r) == CHOOSE i \in 1..Len(waiting) : waiting[i] = r

IsWaiting(r) == \E i \in 1..Len(waiting) : waiting[i] = r

(* The waiters the loop of _can_grant meets before r's own record.         *)
Ahead(r) ==
    {waiting[i] : i \in {j \in 1..Len(waiting) :
                            \A k \in 1..j : waiting[k] # r}}

(* Broken variants: only one of the two loops of _can_grant.               *)
CanGrantBesideHolders(r) == \A s \in Ahead(r) : ~Overlaps(r, s)
CanGrantOutOfTurn(r) == \A s \in active : ~Overlaps(r, s)

CanGrant(r) ==
    /\ \A s \in active : ~Overlaps(r, s)
    /\ \A s \in Ahead(r) : ~Overlaps(r, s)

-----------------------------------------------------------------------------
Init ==
    /\ waiting = <<>>
    /\ active = {}
    /\ ticket = [r \in Request |-> 0]
    /\ sequence = 0
    /\ call = [r \in Request |-> "idle"]
    /\ notified = {}
    /\ cancelled = {}
    /\ instances = [i \in Instance |-> [NewInstance EXCEPT !.state = "ready"]]
    /\ unloading = {}

(* The call's record gets the next sequence number.                        *)
DrawTicket(r) ==
    /\ sequence' = sequence + 1
    /\ ticket' = [ticket EXCEPT ![r] = sequence + 1]

Finish(r, outcome) == call' = [call EXCEPT ![r] = outcome]

(* The event is set already: acquire() raises before it takes the lock.    *)
AcquireCancelled(r) ==
    /\ call[r] = "idle"
    /\ r \in cancelled
    /\ Finish(r, "cancelled")
    /\ UNCHANGED <<waiting, active, ticket, sequence, notified, cancelled,
                   instances, unloading>>

AcquireAtOnce(r) ==
    /\ call[r] = "idle"
    /\ r \notin cancelled
    /\ CanGrant(r)
    /\ DrawTicket(r)
    /\ active' = active \cup {r}
    /\ Finish(r, "granted")
    /\ UNCHANGED <<waiting, notified, cancelled, instances, unloading>>

AcquireFull(r) ==
    /\ call[r] = "idle"
    /\ r \notin cancelled
    /\ ~CanGrant(r)
    /\ Len(waiting) >= MaxQueueDepth
    /\ DrawTicket(r)
    /\ Finish(r, "full")
    /\ UNCHANGED <<waiting, active, notified, cancelled, instances, unloading>>

(* The record is appended, and removed again when the registry refuses.    *)
AcquireWait(r) ==
    /\ call[r] = "idle"
    /\ r \notin cancelled
    /\ ~CanGrant(r)
    /\ Len(waiting) < MaxQueueDepth
    /\ DrawTicket(r)
    /\ \/ /\ CanEnqueue(instances[InstanceOf[r]])
          /\ waiting' = Append(waiting, r)
          /\ instances' = [instances EXCEPT ![InstanceOf[r]] = Enqueued(@)]
          /\ Finish(r, "sleeping")
       \/ /\ ~CanEnqueue(instances[InstanceOf[r]])
          /\ Finish(r, "conflict")
          /\ UNCHANGED <<waiting, instances>>
    /\ UNCHANGED <<active, notified, cancelled, unloading>>

-----------------------------------------------------------------------------
(* One turn of the loop around wait().                                     *)

Sleeping == {r \in Request : call[r] = "sleeping"}

(* wait() has returned: notified, or its poll interval or deadline passed. *)
Awake(r) ==
    /\ call[r] = "sleeping"
    /\ r \in notified \/ r \in Cancellable \/ r \in Timed

(* Broken variant: a waiter that leaves wakes nobody.                      *)
LeaveQuietly(r, outcome, nowActive) ==
    /\ waiting' = [i \in 1..(Len(waiting) - 1) |->
                      IF i < Position(r) THEN waiting[i] ELSE waiting[i + 1]]
    /\ instances' = [instances EXCEPT ![InstanceOf[r]] = Dequeued(@)]
    /\ notified' = notified \ {r}
    /\ active' = nowActive
    /\ Finish(r, outcome)
    /\ UNCHANGED <<ticket, sequence, cancelled, unloading>>

(***************************************************************************)
(* _remove_waiter.  dequeue_request raises when the instance's counters    *)
(* were reset under the waiter: the record is gone from the queue, nobody  *)
(* is notified, and the InstanceConflict leaves acquire().                 *)
(***************************************************************************)
Leave(r, outcome, nowActive) ==
    /\ waiting' = [i \in 1..(Len(waiting) - 1) |->
                      IF i < Position(r) THEN waiting[i] ELSE waiting[i + 1]]
    /\ \/ /\ CanDequeue(instances[InstanceOf[r]])
          /\ instances' = [instances EXCEPT ![InstanceOf[r]] = Dequeued(@)]
          /\ notified' = Sleeping \ {r}
          /\ active' = nowActive
          /\ Finish(r, outcome)
       \/ /\ ~CanDequeue(instances[InstanceOf[r]])
          /\ notified' = notified \ {r}
          /\ Finish(r, "conflict")
          /\ UNCHANGED <<instances, active>>
    /\ UNCHANGED <<ticket, sequence, cancelled, unloading>>

WakeCancelled(r) ==
    /\ Awake(r)
    /\ r \in cancelled
    /\ Leave(r, "cancelled", active)

WakeGranted(r) ==
    /\ Awake(r)
    /\ r \notin cancelled
    /\ CanGrant(r)
    /\ Leave(r, "granted", active \cup {r})

WakeTimeout(r) ==
    /\ Awake(r)
    /\ r \notin cancelled
    /\ ~CanGrant(r)
    /\ r \in Timed
    /\ Leave(r, "timeout", active)

(* Nothing to do yet: back into wait().                                    *)
WakeInVain(r) ==
    /\ Awake(r)
    /\ r \in notified
    /\ r \notin cancelled
    /\ ~CanGrant(r)
    /\ notified' = notified \ {r}
    /\ UNCHANGED <<waiting, active, ticket, sequence, call, cancelled,
                   instances, unloading>>

(* Broken variant: the lease is returned and nobody is told.               *)
ReleaseQuietly(r) ==
    /\ r \in active
    /\ active' = active \ {r}
    /\ Finish(r, "released")
    /\ UNCHANGED <<waiting, ticket, sequence, notified, cancelled, instances,
                   unloading>>

(* GenerationSlotLease.release, which only the first call gets through.    *)
Release(r) ==
    /\ r \in active
    /\ active' = active \ {r}
    /\ notified' = Sleeping
    /\ Finish(r, "released")
    /\ UNCHANGED <<waiting, ticket, sequence, cancelled, instances, unloading>>

-----------------------------------------------------------------------------
(* The callers and the rest of the node agent.                             *)

(* The client went away: the gateway sets the call's cancel event.         *)
SetCancel(r) ==
    /\ r \in Cancellable \ cancelled
    /\ call[r] \in {"idle", "sleeping"}
    /\ cancelled' = cancelled \cup {r}
    /\ UNCHANGED <<waiting, active, ticket, sequence, call, notified,
                   instances, unloading>>

(***************************************************************************)
(* An operator's stop runs transition(UNLOADING) on its own thread without *)
(* the registry's lock: its check of the counters and its assignment of    *)
(* the state are separate steps.  STOPPED follows the process's exit.      *)
(***************************************************************************)
UnloadCheck(i) ==
    /\ i \in Stoppable \ unloading
    /\ instances[i].state # "unloading"
    /\ "unloading" \in Successors[instances[i].state]
    /\ CanTransition(instances[i], "unloading")
    /\ unloading' = unloading \cup {i}
    /\ UNCHANGED <<slotVars, instances>>

UnloadAssign(i) ==
    /\ i \in unloading
    /\ instances' = [instances EXCEPT ![i] = Assigned(@, "unloading")]
    /\ unloading' = unloading \ {i}
    /\ UNCHANGED slotVars

Stop(i) ==
    /\ instances[i].state = "unloading"
    /\ i \notin unloading
    /\ instances' = [instances EXCEPT ![i] = Transitioned(@, "stopped")]
    /\ UNCHANGED <<slotVars, unloading>>

(* A health refresh finds the runtime's process gone.                      *)
Fail(i) ==
    /\ i \in Stoppable
    /\ Serving(instances[i])
    /\ instances' = [instances EXCEPT ![i] = Transitioned(@, "failed")]
    /\ UNCHANGED <<slotVars, unloading>>

-----------------------------------------------------------------------------
Acquire(r) ==
    AcquireCancelled(r) \/ AcquireAtOnce(r) \/ AcquireFull(r) \/ AcquireWait(r)

Wake(r) ==
    WakeCancelled(r) \/ WakeGranted(r) \/ WakeTimeout(r) \/ WakeInVain(r)

Next ==
    \/ \E r \in Request : Acquire(r) \/ Wake(r) \/ Release(r) \/ SetCancel(r)
    \/ \E i \in Instance : UnloadCheck(i) \/ UnloadAssign(i) \/ Stop(i) \/ Fail(i)

Spec == Init /\ [][Next]_vars

(***************************************************************************)
(* Fairness.  A thread that can run its loop again does (the operating     *)
(* system schedules it, wait() returns at its interval), and every holder  *)
(* releases (the gateway's finally blocks).  Nothing obliges a client to   *)
(* call or to cancel, nor an operator to stop an instance.  A turn in vain *)
(* is no progress, so it is not the step that fairness counts.             *)
(***************************************************************************)
Progress(r) == WakeCancelled(r) \/ WakeGranted(r) \/ Release(r)

Fairness == \A r \in Request : WF_vars(Progress(r))

FairSpec == Spec /\ Fairness

-----------------------------------------------------------------------------
(* Properties.                                                             *)

TypeOK ==
    /\ waiting \in Seq(Request)
    /\ active \in SUBSET Request
    /\ ticket \in [Request -> Nat]
    /\ sequence \in Nat
    /\ call \in [Request -> CallState]
    /\ notified \in SUBSET Request
    /\ cancelled \in SUBSET Request
    /\ instances \in [Instance -> InstanceRecord]
    /\ unloading \in SUBSET Instance

(***************************************************************************)
(* Two leases on overlapping nodes never coexist, a request with an        *)
(* unknown node set overlapping all others (_can_grant and _grant).        *)
(***************************************************************************)
SlotExclusion ==
    \A r, s \in active : r # s => ~Overlaps(r, s)

(***************************************************************************)
(* The queue, the lease table and the threads agree: a record is queued    *)
(* exactly while its thread sleeps in acquire(), once, and holds a lease   *)
(* exactly while its caller has been given one.  No way out of acquire()   *)
(* (timeout, cancellation, InstanceConflict) leaves a record behind that   *)
(* would block the requests after it for ever.                             *)
(***************************************************************************)
BooksAgree ==
    /\ {waiting[i] : i \in 1..Len(waiting)} = Sleeping
    /\ \A i, j \in 1..Len(waiting) : i # j => waiting[i] # waiting[j]
    /\ active = {r \in Request : call[r] = "granted"}

(***************************************************************************)
(* The registry's queued_request_count, which routing by load and the      *)
(* refusal to unload rely on, is the number of queued records; a stop      *)
(* resets it.                                                              *)
(***************************************************************************)
QueuedOn(i) == {r \in Sleeping : InstanceOf[r] = i}

QueuedCountAgrees ==
    \A i \in Instance :
        instances[i].queued = IF instances[i].state = "stopped"
                              THEN 0
                              ELSE Cardinality(QueuedOn(i))

(***************************************************************************)
(* No lost wakeup: whoever could be granted now has been notified of it,   *)
(* or does not depend on notify_all because its wait() polls.              *)
(***************************************************************************)
NoLostWakeup ==
    \A r \in Sleeping : CanGrant(r) => Awake(r)

(***************************************************************************)
(* FIFO among overlapping requests: a slot never goes to a request while   *)
(* one that drew its ticket earlier, and needs some of the same machines,  *)
(* is still queued.                                                        *)
(***************************************************************************)
NoOvertaking ==
    [][\A r \in active' \ active : \A s \in Sleeping' :
            Overlaps(r, s) => ticket'[r] < ticket'[s]]_vars

(***************************************************************************)
(* A queued request does not wait for ever: it gets its slot or leaves     *)
(* acquire() with an error, given that holders release.                    *)
(***************************************************************************)
EveryWaitEnds ==
    \A r \in Request : call[r] = "sleeping" ~> call[r] # "sleeping"

-----------------------------------------------------------------------------
(***************************************************************************)
(* The scheduler implements exclusive ownership of machines.  A request    *)
(* with an unknown node set owns them all.                                 *)
(***************************************************************************)
Footprint ==
    [r \in Request |-> IF UnknownNode \in Nodes(r) THEN Node ELSE Nodes(r)]

Owner ==
    [n \in Node |->
        IF \E r \in active : n \in Footprint[r]
        THEN CHOOSE r \in active : n \in Footprint[r]
        ELSE UnknownNode]

Ownership == INSTANCE SlotOwnership WITH Free <- UnknownNode, owner <- Owner

(* Every grant takes, and every release returns, all of a request's nodes. *)
ImplementsOwnership == Ownership!OwnerSpec
=============================================================================
