----------------------- MODULE GenerationSlots_proofs -----------------------
(***************************************************************************)
(* Proofs about GenerationSlots, for any number of requests, instances and *)
(* machines, any queue depth and any mix of timeouts and cancellation:     *)
(* type correctness, exclusion on overlapping machines, the agreement of   *)
(* queue, leases and threads, and FIFO order among overlapping requests.   *)
(***************************************************************************)
EXTENDS GenerationSlots, FiniteSetTheorems, TLAPS

-----------------------------------------------------------------------------
(* Type correctness.                                                       *)

(* Every method of the instance record yields an instance record.          *)
LEMMA RecordSteps ==
    ASSUME NEW inst \in InstanceRecord
    PROVE  /\ \A t \in Lifecycle : Assigned(inst, t) \in InstanceRecord
           /\ \A t \in Lifecycle : Transitioned(inst, t) \in InstanceRecord
           /\ CanEnqueue(inst) => Enqueued(inst) \in InstanceRecord
           /\ CanDequeue(inst) => Dequeued(inst) \in InstanceRecord
<1>1. \A t \in Lifecycle : Assigned(inst, t) \in InstanceRecord
    BY DEF Assigned, InstanceRecord, Health
<1>2. \A t \in Lifecycle : Transitioned(inst, t) \in InstanceRecord
    BY <1>1 DEF Transitioned
<1>3. Enqueued(inst) \in InstanceRecord
    <2> DEFINE more == [inst EXCEPT !.queued = @ + 1]
    <2>1. more \in InstanceRecord
        BY DEF InstanceRecord
    <2>2. [more EXCEPT !.state = "busy"] \in InstanceRecord
        BY <2>1 DEF InstanceRecord, Lifecycle
    <2>3. Enqueued(inst) = [more EXCEPT !.state = "busy"]
        BY DEF Enqueued, InstanceRecord
    <2> QED BY <2>2, <2>3
<1>4. ASSUME CanDequeue(inst) PROVE Dequeued(inst) \in InstanceRecord
    <2> DEFINE fewer == [inst EXCEPT !.queued = @ - 1]
    <2>1. fewer \in InstanceRecord
        BY <1>4 DEF CanDequeue, InstanceRecord
    <2>2. [fewer EXCEPT !.state = "ready"] \in InstanceRecord
        BY <2>1 DEF InstanceRecord, Lifecycle
    <2> QED BY <2>1, <2>2 DEF Dequeued, Settled
<1> QED BY <1>1, <1>2, <1>3, <1>4

(* Removing the record at a position of the queue leaves a queue.          *)
LEMMA RemovalType ==
    ASSUME NEW S, NEW q \in Seq(S), NEW p \in 1..Len(q)
    PROVE  [i \in 1..(Len(q) - 1) |-> IF i < p THEN q[i] ELSE q[i + 1]] \in Seq(S)
<1> DEFINE rest == [i \in 1..(Len(q) - 1) |-> IF i < p THEN q[i] ELSE q[i + 1]]
<1>1. Len(q) - 1 \in Nat
    OBVIOUS
<1>2. rest \in [1..(Len(q) - 1) -> S]
    OBVIOUS
<1> QED BY <1>1, <1>2

-----------------------------------------------------------------------------
(* Positions in the queue.                                                 *)

Queued == {waiting[i] : i \in 1..Len(waiting)}

(* A queued request is where Position says it is.                          *)
LEMMA PositionType ==
    ASSUME NEW r, r \in Queued, waiting \in Seq(Request)
    PROVE  Position(r) \in 1..Len(waiting) /\ waiting[Position(r)] = r
BY DEF Queued, Position

(***************************************************************************)
(* The type invariant alone is not inductive: a thread removes its record  *)
(* from the queue, so the record has to be there.                          *)
(***************************************************************************)
QueueInv == TypeOK /\ BooksAgree

(* The queue invariant holds initially.                                    *)
LEMMA InitQueue == Init => QueueInv
<1> SUFFICES ASSUME Init PROVE QueueInv
    OBVIOUS
<1>1. TypeOK
    <2>1. [NewInstance EXCEPT !.state = "ready"] \in InstanceRecord
        BY DEF NewInstance, InstanceRecord, Lifecycle, Health
    <2> QED BY <2>1 DEF Init, TypeOK, CallState
<1>2. BooksAgree
    BY DEF Init, BooksAgree, Sleeping
<1> QED BY <1>1, <1>2 DEF QueueInv

(* What leaving the queue does to queue and threads.                       *)
LEMMA LeaveBooks ==
    ASSUME QueueInv, NEW r \in Sleeping, NEW o \in CallState, NEW A \in SUBSET Request,
           o # "sleeping", o # "granted" => A = active,
           o = "granted" => A = active \cup {r},
           Leave(r, o, A)
    PROVE  QueueInv'
<1> USE DEF QueueInv
<1>0. Queued = Sleeping /\ r \in Request
    BY DEF BooksAgree, Queued, Sleeping
<1> DEFINE p == Position(r)
<1>1. waiting \in Seq(Request) /\ p \in 1..Len(waiting) /\ waiting[p] = r
    BY <1>0, PositionType DEF TypeOK
<1>2. waiting' = [i \in 1..(Len(waiting) - 1) |->
                     IF i < p THEN waiting[i] ELSE waiting[i + 1]]
    BY DEF Leave
<1>3. waiting' \in Seq(Request) /\ Len(waiting') = Len(waiting) - 1
    <2>1. waiting' \in Seq(Request)
        BY <1>1, <1>2, RemovalType
    <2>2. DOMAIN waiting' = 1..(Len(waiting) - 1) /\ Len(waiting) - 1 \in Nat
        BY <1>1, <1>2
    <2> QED BY <2>1, <2>2
<1>4. /\ call' \in [Request -> CallState]
      /\ \A s \in Request \ {r} : call'[s] = call[s]
      /\ call'[r] = o \/ call'[r] = "conflict"
    BY <1>0 DEF Leave, Finish, TypeOK, CallState
<1>5. instances' \in [Instance -> InstanceRecord]
    <2>1. InstanceOf[r] \in Instance
        BY <1>0, SlotAssumptions DEF SlotAssumptions
    <2>2. instances[InstanceOf[r]] \in InstanceRecord
        BY <2>1 DEF TypeOK
    <2>3. CanDequeue(instances[InstanceOf[r]]) =>
              Dequeued(instances[InstanceOf[r]]) \in InstanceRecord
        BY <2>2, RecordSteps
    <2> QED BY <2>1, <2>3 DEF Leave, TypeOK
<1>6. TypeOK'
    <2>1. active' \in SUBSET Request
        BY DEF Leave, TypeOK
    <2>2. notified' \in SUBSET Request
        BY DEF Leave, TypeOK, Sleeping
    <2> QED BY <1>3, <1>4, <1>5, <2>1, <2>2 DEF Leave, TypeOK
<1>7. \A i, j \in 1..Len(waiting) : i # j => waiting[i] # waiting[j]
    BY DEF BooksAgree
<1>8. \A i, j \in 1..Len(waiting') : i # j => waiting'[i] # waiting'[j]
    <2> DEFINE old(i) == IF i < p THEN i ELSE i + 1
    <2>1. ASSUME NEW i \in 1..Len(waiting')
          PROVE  old(i) \in 1..Len(waiting) /\ waiting'[i] = waiting[old(i)]
        BY <1>1, <1>2, <1>3
    <2>2. ASSUME NEW i \in 1..Len(waiting'), NEW j \in 1..Len(waiting'), i # j
          PROVE  old(i) # old(j)
        BY <1>1, <2>2
    <2> HIDE DEF old
    <2> QED BY <1>7, <2>1, <2>2
<1>9. {waiting'[i] : i \in 1..Len(waiting')} = Queued \ {r}
    <2>1. ASSUME NEW i \in 1..Len(waiting') PROVE waiting'[i] \in Queued \ {r}
        BY <1>1, <1>2, <1>3, <1>7 DEF Queued
    <2>2. ASSUME NEW s \in Queued \ {r}
          PROVE  \E i \in 1..Len(waiting') : waiting'[i] = s
        <3>1. PICK j \in 1..Len(waiting) : waiting[j] = s
            BY DEF Queued
        <3>2. j # p
            BY <1>1, <3>1
        <3>3. CASE j < p
            <4>1. j \in 1..Len(waiting') /\ waiting'[j] = s
                BY <1>1, <1>2, <1>3, <3>1, <3>3
            <4> QED BY <4>1
        <3>4. CASE j > p
            <4>1. j - 1 \in 1..Len(waiting') /\ waiting'[j - 1] = s
                BY <1>1, <1>2, <1>3, <3>1, <3>4
            <4> QED BY <4>1
        <3> QED BY <1>1, <3>2, <3>3, <3>4
    <2> QED BY <2>1, <2>2
<1>10. Sleeping' = Sleeping \ {r}
    BY <1>4 DEF Sleeping
<1>11. active' = {s \in Request : call'[s] = "granted"}
    <2>1. active = {s \in Request : call[s] = "granted"} /\ r \notin active
        BY DEF BooksAgree, Sleeping
    <2>2. \/ active' = A /\ call'[r] = o
          \/ active' = active /\ call'[r] = "conflict"
        BY <1>0 DEF Leave, Finish, TypeOK
    <2>3. active' = IF call'[r] = "granted" THEN active \cup {r} ELSE active
        BY <2>2
    <2>4. ASSUME NEW s \in Request
          PROVE  s \in active' <=> call'[s] = "granted"
        <3>1. CASE s = r
            BY <2>1, <2>3, <3>1
        <3>2. CASE s # r
            <4>1. s \in active <=> call'[s] = "granted"
                BY <1>4, <2>1, <3>2
            <4> QED BY <2>3, <3>2, <4>1
        <3> QED BY <3>1, <3>2
    <2>5. active' \subseteq Request
        BY <1>6 DEF TypeOK
    <2> QED BY <2>4, <2>5
<1>12. BooksAgree'
    BY <1>0, <1>8, <1>9, <1>10, <1>11 DEF BooksAgree
<1> QED BY <1>6, <1>12

-----------------------------------------------------------------------------
(* Every step preserves the type invariant and the agreement of the books. *)

(* A step that leaves queue, leases and threads alone.                     *)
LEMMA SameBooks ==
    ASSUME BooksAgree, UNCHANGED <<waiting, active, call>>
    PROVE  BooksAgree'
BY DEF BooksAgree, Sleeping

(* A step that only moves one call between states other than sleeping and  *)
(* granted.                                                                *)
LEMMA OtherOutcome ==
    ASSUME QueueInv, NEW r \in Request, NEW o \in CallState,
           call[r] \notin {"sleeping", "granted"}, o \notin {"sleeping", "granted"},
           Finish(r, o), UNCHANGED <<waiting, active>>
    PROVE  BooksAgree' /\ call' \in [Request -> CallState]
<1>1. call' \in [Request -> CallState]
    BY DEF QueueInv, TypeOK, Finish
<1>2. \A s \in Request : call'[s] = IF s = r THEN o ELSE call[s]
    BY DEF QueueInv, TypeOK, Finish
<1>3. Sleeping' = Sleeping
    BY <1>2 DEF Sleeping
<1>4. {s \in Request : call'[s] = "granted"} = {s \in Request : call[s] = "granted"}
    BY <1>2
<1> QED BY <1>1, <1>3, <1>4 DEF QueueInv, BooksAgree

(* The ticket counter and the tickets stay numbers.                        *)
LEMMA TicketType ==
    ASSUME TypeOK, NEW r \in Request, DrawTicket(r)
    PROVE  ticket' \in [Request -> Nat] /\ sequence' \in Nat
BY DEF TypeOK, DrawTicket

(* acquire keeps it, whichever way it ends.                                *)
LEMMA AcquireQueue ==
    ASSUME QueueInv, NEW r \in Request, Acquire(r)
    PROVE  QueueInv'
<1> USE DEF QueueInv
<1>1. CASE AcquireCancelled(r)
    <2>1. BooksAgree' /\ call' \in [Request -> CallState]
        BY <1>1, OtherOutcome DEF AcquireCancelled, CallState
    <2> QED BY <1>1, <2>1 DEF AcquireCancelled, TypeOK
<1>2. CASE AcquireAtOnce(r)
    <2>1. /\ call' \in [Request -> CallState]
          /\ \A s \in Request : call'[s] = IF s = r THEN "granted" ELSE call[s]
        BY <1>2 DEF AcquireAtOnce, Finish, TypeOK, CallState
    <2>2. Sleeping' = Sleeping
        BY <1>2, <2>1 DEF Sleeping, AcquireAtOnce
    <2>3. active' = {s \in Request : call'[s] = "granted"}
        BY <1>2, <2>1 DEF AcquireAtOnce, BooksAgree
    <2>4. BooksAgree'
        BY <1>2, <2>2, <2>3 DEF BooksAgree, AcquireAtOnce
    <2>5. TypeOK'
        BY <1>2, <2>1, TicketType DEF AcquireAtOnce, TypeOK
    <2> QED BY <2>4, <2>5
<1>3. CASE AcquireFull(r)
    <2>1. BooksAgree' /\ call' \in [Request -> CallState]
        BY <1>3, OtherOutcome DEF AcquireFull, CallState
    <2> QED BY <1>3, <2>1, TicketType DEF AcquireFull, TypeOK
<1>4. CASE AcquireWait(r)
    <2> DEFINE i0 == InstanceOf[r]
    <2>0. i0 \in Instance /\ instances[i0] \in InstanceRecord
        BY SlotAssumptions DEF SlotAssumptions, TypeOK
    <2>1. CASE CanEnqueue(instances[i0])
        <3>1. /\ waiting' = Append(waiting, r)
              /\ instances' = [instances EXCEPT ![i0] = Enqueued(@)]
              /\ Finish(r, "sleeping")
            BY <1>4, <2>1 DEF AcquireWait
        <3>2. /\ call' \in [Request -> CallState]
              /\ \A s \in Request : call'[s] = IF s = r THEN "sleeping" ELSE call[s]
            BY <3>1 DEF Finish, TypeOK, CallState
        <3>3. instances' \in [Instance -> InstanceRecord]
            <4>1. Enqueued(instances[i0]) \in InstanceRecord
                BY <2>0, <2>1, RecordSteps
            <4> QED BY <2>0, <3>1, <4>1 DEF TypeOK
        <3>4. TypeOK'
            <4>1. waiting' \in Seq(Request)
                BY <3>1 DEF TypeOK
            <4>2. /\ active' \in SUBSET Request
                  /\ notified' \in SUBSET Request
                  /\ cancelled' \in SUBSET Request
                  /\ unloading' \in SUBSET Instance
                BY <1>4 DEF AcquireWait, TypeOK
            <4>3. ticket' \in [Request -> Nat] /\ sequence' \in Nat
                BY <1>4, TicketType DEF AcquireWait
            <4> QED BY <3>2, <3>3, <4>1, <4>2, <4>3 DEF TypeOK
        <3>5. /\ waiting \in Seq(Request)
              /\ Len(waiting') = Len(waiting) + 1
              /\ \A i \in 1..Len(waiting) : waiting'[i] = waiting[i]
              /\ waiting'[Len(waiting) + 1] = r
            BY <3>1 DEF TypeOK
        <3>6. r \notin Sleeping /\ Sleeping' = Sleeping \cup {r}
            BY <1>4, <3>2 DEF Sleeping, AcquireWait
        <3>7. Queued = Sleeping
            BY DEF BooksAgree, Queued
        <3>8. \A i, j \in 1..Len(waiting') : i # j => waiting'[i] # waiting'[j]
            <4>1. \A i \in 1..Len(waiting) : waiting[i] # r
                BY <3>6, <3>7 DEF Queued
            <4>2. \A i \in 1..Len(waiting') : i \in 1..Len(waiting) \/ i = Len(waiting) + 1
                BY <3>5
            <4> QED BY <3>5, <4>1, <4>2 DEF BooksAgree
        <3>9. {waiting'[i] : i \in 1..Len(waiting')} = Queued \cup {r}
            <4>1. \A i \in 1..Len(waiting') : i \in 1..Len(waiting) \/ i = Len(waiting) + 1
                BY <3>5
            <4>2. \A i \in 1..Len(waiting) : i \in 1..Len(waiting')
                BY <3>5
            <4>3. Len(waiting) + 1 \in 1..Len(waiting')
                BY <3>5
            <4> QED BY <3>5, <4>1, <4>2, <4>3 DEF Queued
        <3>10. active' = {s \in Request : call'[s] = "granted"}
            BY <1>4, <3>2 DEF AcquireWait, BooksAgree
        <3>11. BooksAgree'
            BY <3>6, <3>7, <3>8, <3>9, <3>10 DEF BooksAgree
        <3> QED BY <3>4, <3>11
    <2>2. CASE ~CanEnqueue(instances[i0])
        <3>1. BooksAgree' /\ call' \in [Request -> CallState]
            BY <1>4, <2>2, OtherOutcome DEF AcquireWait, CallState
        <3>2. UNCHANGED <<waiting, instances>>
            BY <1>4, <2>2 DEF AcquireWait
        <3> QED BY <1>4, <3>1, <3>2, TicketType DEF AcquireWait, TypeOK
    <2> QED BY <2>1, <2>2
<1> QED BY <1>1, <1>2, <1>3, <1>4 DEF Acquire

(* A waiter that wakes keeps it.                                           *)
LEMMA WakeQueue ==
    ASSUME QueueInv, NEW r \in Request, Wake(r)
    PROVE  QueueInv'
<1>1. CASE WakeCancelled(r)
    <2>1. r \in Sleeping /\ active \in SUBSET Request /\ Leave(r, "cancelled", active)
        BY <1>1 DEF WakeCancelled, Awake, Sleeping, QueueInv, TypeOK
    <2>2. "cancelled" \in CallState
        BY DEF CallState
    <2> QED BY <2>1, <2>2, LeaveBooks
<1>2. CASE WakeGranted(r)
    <2>1. /\ r \in Sleeping
          /\ active \cup {r} \in SUBSET Request
          /\ Leave(r, "granted", active \cup {r})
        BY <1>2 DEF WakeGranted, Awake, Sleeping, QueueInv, TypeOK
    <2>2. "granted" \in CallState
        BY DEF CallState
    <2> QED BY <2>1, <2>2, LeaveBooks
<1>3. CASE WakeTimeout(r)
    <2>1. r \in Sleeping /\ active \in SUBSET Request /\ Leave(r, "timeout", active)
        BY <1>3 DEF WakeTimeout, Awake, Sleeping, QueueInv, TypeOK
    <2>2. "timeout" \in CallState
        BY DEF CallState
    <2> QED BY <2>1, <2>2, LeaveBooks
<1>4. CASE WakeInVain(r)
    <2>1. BooksAgree'
        BY <1>4, SameBooks DEF WakeInVain, QueueInv
    <2>2. TypeOK'
        BY <1>4 DEF WakeInVain, QueueInv, TypeOK
    <2> QED BY <2>1, <2>2 DEF QueueInv
<1> QED BY <1>1, <1>2, <1>3, <1>4 DEF Wake

(* release keeps it.                                                       *)
LEMMA ReleaseQueue ==
    ASSUME QueueInv, NEW r \in Request, Release(r)
    PROVE  QueueInv'
<1> USE DEF QueueInv
<1>1. /\ call' \in [Request -> CallState]
      /\ \A s \in Request : call'[s] = IF s = r THEN "released" ELSE call[s]
    BY DEF Release, Finish, TypeOK, CallState
<1>2. call[r] = "granted"
    BY DEF Release, BooksAgree
<1>3. Sleeping' = Sleeping
    BY <1>1, <1>2 DEF Sleeping
<1>4. active' = {s \in Request : call'[s] = "granted"}
    BY <1>1 DEF Release, BooksAgree
<1>5. BooksAgree'
    BY <1>3, <1>4 DEF BooksAgree, Release
<1>6. TypeOK'
    BY <1>1 DEF Release, TypeOK, Sleeping
<1> QED BY <1>5, <1>6

(* The callers and the lifecycle do not touch queue and leases.            *)
LEMMA EnvironmentQueue ==
    ASSUME QueueInv,
           \/ \E r \in Request : SetCancel(r)
           \/ \E i \in Instance : UnloadCheck(i) \/ UnloadAssign(i) \/ Stop(i) \/ Fail(i)
    PROVE  QueueInv'
<1> USE DEF QueueInv
<1>1. ASSUME NEW r \in Request, SetCancel(r) PROVE QueueInv'
    BY <1>1, SameBooks DEF SetCancel, TypeOK
<1>2. ASSUME NEW i \in Instance, UnloadCheck(i) PROVE QueueInv'
    BY <1>2, SameBooks DEF UnloadCheck, slotVars, TypeOK
<1>3. ASSUME NEW i \in Instance, NEW t \in Lifecycle,
             \/ instances' = [instances EXCEPT ![i] = Assigned(@, t)]
             \/ instances' = [instances EXCEPT ![i] = Transitioned(@, t)]
      PROVE  instances' \in [Instance -> InstanceRecord]
    <2>1. instances[i] \in InstanceRecord
        BY DEF TypeOK
    <2>2. /\ Assigned(instances[i], t) \in InstanceRecord
          /\ Transitioned(instances[i], t) \in InstanceRecord
        BY <2>1, RecordSteps
    <2> QED BY <1>3, <2>2 DEF TypeOK
<1>4. {"unloading", "stopped", "failed"} \subseteq Lifecycle
    BY DEF Lifecycle
<1>5. ASSUME NEW i \in Instance, UnloadAssign(i) PROVE QueueInv'
    <2>1. instances' \in [Instance -> InstanceRecord]
        BY <1>3, <1>4, <1>5 DEF UnloadAssign
    <2> QED BY <1>5, <2>1, SameBooks DEF UnloadAssign, slotVars, TypeOK
<1>6. ASSUME NEW i \in Instance, Stop(i) PROVE QueueInv'
    <2>1. instances' \in [Instance -> InstanceRecord]
        BY <1>3, <1>4, <1>6 DEF Stop
    <2> QED BY <1>6, <2>1, SameBooks DEF Stop, slotVars, TypeOK
<1>7. ASSUME NEW i \in Instance, Fail(i) PROVE QueueInv'
    <2>1. instances' \in [Instance -> InstanceRecord]
        BY <1>3, <1>4, <1>7 DEF Fail
    <2> QED BY <1>7, <2>1, SameBooks DEF Fail, slotVars, TypeOK
<1> QED BY <1>1, <1>2, <1>5, <1>6, <1>7

(* Nor does a stutter.                                                     *)
LEMMA StutterQueue ==
    ASSUME QueueInv, UNCHANGED vars
    PROVE  QueueInv'
BY DEF QueueInv, TypeOK, BooksAgree, Sleeping, vars

(* Every step keeps the queue invariant.                                   *)
LEMMA StepQueue == QueueInv /\ [Next]_vars => QueueInv'
<1> SUFFICES ASSUME QueueInv, [Next]_vars PROVE QueueInv'
    OBVIOUS
<1> QED BY AcquireQueue, WakeQueue, ReleaseQueue, EnvironmentQueue, StutterQueue
        DEF Next

(***************************************************************************)
(* Queue, lease table and threads agree in every reachable state.          *)
(***************************************************************************)
THEOREM QueueCorrect == Spec => []QueueInv
<1> QED BY InitQueue, StepQueue, PTL DEF Spec

(* The types hold: those of the scheduler and of each lifecycle record.    *)
THEOREM TypeCorrect == Spec => []TypeOK
<1>1. QueueInv => TypeOK
    BY DEF QueueInv
<1> QED BY <1>1, QueueCorrect, PTL

(* The queue holds each sleeping request once and no other, and the leases *)
(* are those of the callers that hold one (instances.py:813-918).          *)
THEOREM BooksCorrect == Spec => []BooksAgree
<1>1. QueueInv => BooksAgree
    BY DEF QueueInv
<1> QED BY <1>1, QueueCorrect, PTL

-----------------------------------------------------------------------------
(* Exclusion on overlapping machines.                                      *)

(* Overlap is symmetric.                                                   *)
LEMMA OverlapsSymmetric ==
    \A r, s \in Request : Overlaps(r, s) <=> Overlaps(s, r)
BY DEF Overlaps

(***************************************************************************)
(* A step enters at most one request into the lease table, and only one    *)
(* that CanGrant accepts.                                                  *)
(***************************************************************************)
LEMMA Grants ==
    ASSUME QueueInv, [Next]_vars
    PROVE  \/ active' \subseteq active
           \/ \E r \in Request : /\ AcquireAtOnce(r) \/ WakeGranted(r)
                                 /\ CanGrant(r)
                                 /\ active' = active \cup {r}
<1>1. ASSUME NEW r \in Request, Acquire(r)
      PROVE  active' = active \/ (AcquireAtOnce(r) /\ CanGrant(r)
                                  /\ active' = active \cup {r})
    BY <1>1 DEF Acquire, AcquireCancelled, AcquireAtOnce, AcquireFull, AcquireWait
<1>2. ASSUME NEW r \in Request, Wake(r)
      PROVE  active' = active \/ (WakeGranted(r) /\ CanGrant(r)
                                  /\ active' = active \cup {r})
    BY <1>2 DEF Wake, WakeCancelled, WakeGranted, WakeTimeout, WakeInVain, Leave
<1>3. ASSUME NEW r \in Request, Release(r) \/ SetCancel(r)
      PROVE  active' \subseteq active
    BY <1>3 DEF Release, SetCancel
<1>4. ASSUME NEW i \in Instance, UnloadCheck(i) \/ UnloadAssign(i) \/ Stop(i) \/ Fail(i)
      PROVE  active' = active
    BY <1>4 DEF UnloadCheck, UnloadAssign, Stop, Fail, slotVars
<1>5. CASE UNCHANGED vars
    BY <1>5 DEF vars
<1> QED BY <1>1, <1>2, <1>3, <1>4, <1>5 DEF Next

(* A step of the scheduler keeps leases on overlapping machines apart.     *)
LEMMA StepExclusion ==
    ASSUME QueueInv, SlotExclusion, [Next]_vars
    PROVE  SlotExclusion'
<1>0. active \subseteq Request
    BY DEF QueueInv, TypeOK
<1>1. CASE active' \subseteq active
    BY <1>1 DEF SlotExclusion, Overlaps, Nodes
<1>2. ASSUME NEW r \in Request, CanGrant(r), active' = active \cup {r}
      PROVE  SlotExclusion'
    <2>1. \A s \in active : ~Overlaps(r, s) /\ ~Overlaps(s, r)
        BY <1>0, <1>2, OverlapsSymmetric DEF CanGrant
    <2> QED BY <1>2, <2>1 DEF SlotExclusion, Overlaps, Nodes
<1> QED BY <1>1, <1>2, Grants

(***************************************************************************)
(* Leases on overlapping machines never coexist.                           *)
(***************************************************************************)
THEOREM ExclusionCorrect == Spec => []SlotExclusion
<1>1. Init => SlotExclusion
    BY DEF Init, SlotExclusion
<1> QED BY <1>1, StepExclusion, QueueCorrect, PTL DEF Spec

-----------------------------------------------------------------------------
(***************************************************************************)
(* FIFO.  Queue order is ticket order, and no ticket is ahead of the       *)
(* counter.                                                                *)
(***************************************************************************)
TicketOrder ==
    /\ \A r \in Sleeping : ticket[r] <= sequence
    /\ \A i, j \in 1..Len(waiting) :
           i < j => ticket[waiting[i]] < ticket[waiting[j]]

(* Leaving the queue keeps the tickets of the others in order.             *)
LEMMA LeaveOrder ==
    ASSUME QueueInv, TicketOrder, NEW r \in Sleeping, NEW o, NEW A,
           o # "sleeping", Leave(r, o, A)
    PROVE  TicketOrder'
<1> DEFINE p == Position(r)
           old(i) == IF i < p THEN i ELSE i + 1
<1>1. /\ r \in Request
      /\ r \in Queued
      /\ waiting \in Seq(Request)
      /\ p \in 1..Len(waiting)
    BY PositionType DEF QueueInv, BooksAgree, Queued, Sleeping, TypeOK
<1>2. /\ Len(waiting') = Len(waiting) - 1
      /\ \A i \in 1..Len(waiting') : waiting'[i] = waiting[old(i)]
    <2>1. waiting' = [i \in 1..(Len(waiting) - 1) |->
                         IF i < p THEN waiting[i] ELSE waiting[i + 1]]
        BY DEF Leave
    <2>2. DOMAIN waiting' = 1..(Len(waiting) - 1) /\ Len(waiting) - 1 \in Nat
        BY <1>1, <2>1
    <2>3. waiting' \in Seq(Request)
        BY <1>1, <2>1, RemovalType
    <2> QED BY <2>1, <2>2, <2>3
<1>3. ticket' = ticket /\ sequence' = sequence
    BY DEF Leave
<1>4. Sleeping' \subseteq Sleeping
    BY <1>1 DEF Leave, Finish, Sleeping, QueueInv, TypeOK
<1>5. ASSUME NEW i \in 1..Len(waiting'), NEW j \in 1..Len(waiting'), i < j
      PROVE  ticket'[waiting'[i]] < ticket'[waiting'[j]]
    <2>1. old(i) \in 1..Len(waiting) /\ old(j) \in 1..Len(waiting) /\ old(i) < old(j)
        BY <1>1, <1>2, <1>5
    <2>2. waiting'[i] = waiting[old(i)] /\ waiting'[j] = waiting[old(j)]
        BY <1>2
    <2> HIDE DEF old
    <2> QED BY <1>3, <2>1, <2>2 DEF TicketOrder
<1> QED BY <1>3, <1>4, <1>5 DEF TicketOrder

(* A new ticket is later than all tickets drawn.                           *)
LEMMA DrawOrder ==
    ASSUME QueueInv, TicketOrder, NEW r \in Request, call[r] = "idle",
           DrawTicket(r), Finish(r, call'[r]),
           \/ call'[r] # "sleeping" /\ waiting' = waiting
           \/ call'[r] = "sleeping" /\ waiting' = Append(waiting, r)
    PROVE  TicketOrder'
<1>1. /\ waiting \in Seq(Request)
      /\ sequence \in Nat
      /\ ticket \in [Request -> Nat]
      /\ \A i \in 1..Len(waiting) : waiting[i] \in Sleeping
      /\ r \notin Sleeping
    BY DEF QueueInv, TypeOK, BooksAgree, Sleeping
<1>2. /\ sequence' = sequence + 1
      /\ \A s \in Request : ticket'[s] = IF s = r THEN sequence + 1 ELSE ticket[s]
    BY <1>1 DEF DrawTicket
<1>3. Sleeping' \subseteq Sleeping \cup {r}
    BY DEF Finish, Sleeping, QueueInv, TypeOK
<1>4. \A s \in Sleeping' : ticket'[s] <= sequence'
    BY <1>1, <1>2, <1>3 DEF TicketOrder, Sleeping
<1>5. \A i, j \in 1..Len(waiting) : i < j => ticket'[waiting[i]] < ticket'[waiting[j]]
    BY <1>1, <1>2 DEF TicketOrder, Sleeping
<1>6. CASE waiting' = waiting
    BY <1>4, <1>5, <1>6 DEF TicketOrder
<1>7. CASE waiting' = Append(waiting, r)
    <2>1. /\ Len(waiting') = Len(waiting) + 1
          /\ \A i \in 1..Len(waiting) : waiting'[i] = waiting[i]
          /\ waiting'[Len(waiting) + 1] = r
        BY <1>1, <1>7
    <2>2. ASSUME NEW i \in 1..Len(waiting'), NEW j \in 1..Len(waiting'), i < j
          PROVE  ticket'[waiting'[i]] < ticket'[waiting'[j]]
        <3>1. i \in 1..Len(waiting)
            BY <1>1, <2>1, <2>2
        <3>2. CASE j \in 1..Len(waiting)
            BY <1>5, <2>1, <2>2, <3>1, <3>2
        <3>3. CASE j = Len(waiting) + 1
            <4>1. waiting[i] \in Sleeping /\ waiting[i] \in Request
                BY <1>1, <3>1
            <4>2. ticket[waiting[i]] <= sequence /\ waiting[i] # r
                BY <1>1, <4>1 DEF TicketOrder
            <4> QED BY <1>1, <1>2, <2>1, <3>1, <3>3, <4>1, <4>2
        <3> QED BY <1>1, <2>1, <3>2, <3>3
    <2> QED BY <1>4, <2>2 DEF TicketOrder
<1> QED BY <1>6, <1>7

(* Every step keeps the queue in ticket order.                             *)
LEMMA StepOrder ==
    ASSUME QueueInv, TicketOrder, [Next]_vars
    PROVE  TicketOrder'
<1>0. ASSUME UNCHANGED <<waiting, ticket, sequence>>, Sleeping' \subseteq Sleeping
      PROVE  TicketOrder'
    BY <1>0 DEF TicketOrder
<1>1. ASSUME NEW r \in Request, Acquire(r) PROVE TicketOrder'
    <2>1. CASE AcquireCancelled(r)
        BY <1>0, <2>1 DEF AcquireCancelled, Finish, Sleeping, QueueInv, TypeOK
    <2>2. CASE AcquireAtOnce(r)
        <3>1. call'[r] = "granted" /\ Finish(r, call'[r])
            BY <2>2 DEF AcquireAtOnce, Finish, QueueInv, TypeOK
        <3> QED BY <2>2, <3>1, DrawOrder DEF AcquireAtOnce
    <2>3. CASE AcquireFull(r)
        <3>1. call'[r] = "full" /\ Finish(r, call'[r])
            BY <2>3 DEF AcquireFull, Finish, QueueInv, TypeOK
        <3> QED BY <2>3, <3>1, DrawOrder DEF AcquireFull
    <2>4. CASE AcquireWait(r)
        <3>1. \/ call'[r] = "sleeping" /\ waiting' = Append(waiting, r)
              \/ call'[r] = "conflict" /\ waiting' = waiting
            BY <2>4 DEF AcquireWait, Finish, QueueInv, TypeOK
        <3>2. Finish(r, call'[r])
            BY <2>4 DEF AcquireWait, Finish, QueueInv, TypeOK
        <3> QED BY <2>4, <3>1, <3>2, DrawOrder DEF AcquireWait
    <2> QED BY <1>1, <2>1, <2>2, <2>3, <2>4 DEF Acquire
<1>2. ASSUME NEW r \in Request, Wake(r) PROVE TicketOrder'
    <2>1. CASE WakeInVain(r)
        BY <1>0, <2>1 DEF WakeInVain, Sleeping
    <2>2. CASE WakeCancelled(r)
        BY <2>2, LeaveOrder DEF WakeCancelled, Awake, Sleeping
    <2>3. CASE WakeGranted(r)
        BY <2>3, LeaveOrder DEF WakeGranted, Awake, Sleeping
    <2>4. CASE WakeTimeout(r)
        BY <2>4, LeaveOrder DEF WakeTimeout, Awake, Sleeping
    <2> QED BY <1>2, <2>1, <2>2, <2>3, <2>4 DEF Wake
<1>3. ASSUME NEW r \in Request, Release(r) \/ SetCancel(r) PROVE TicketOrder'
    BY <1>0, <1>3 DEF Release, SetCancel, Finish, Sleeping, QueueInv, TypeOK
<1>4. ASSUME NEW i \in Instance, UnloadCheck(i) \/ UnloadAssign(i) \/ Stop(i) \/ Fail(i)
      PROVE  TicketOrder'
    BY <1>0, <1>4 DEF UnloadCheck, UnloadAssign, Stop, Fail, slotVars, Sleeping
<1>5. CASE UNCHANGED vars
    BY <1>0, <1>5 DEF vars, Sleeping
<1> QED BY <1>1, <1>2, <1>3, <1>4, <1>5 DEF Next

(* A step that grants a slot grants it in ticket order.                    *)
LEMMA FifoStep ==
    ASSUME QueueInv, TicketOrder, [Next]_vars,
           NEW r \in active' \ active, NEW s \in Sleeping', Overlaps(r, s)
    PROVE  ticket'[r] < ticket'[s]
<1>1. /\ r \in Request
      /\ AcquireAtOnce(r) \/ WakeGranted(r)
      /\ CanGrant(r)
    BY Grants
<1>2. s \in Sleeping /\ s # r
    BY <1>1 DEF AcquireAtOnce, WakeGranted, Leave, Finish, Sleeping, QueueInv,
                      TypeOK, Awake
<1>3. PICK j \in 1..Len(waiting) : waiting[j] = s
    BY <1>2 DEF QueueInv, BooksAgree
<1>4. s \notin Ahead(r)
    BY <1>1 DEF CanGrant
<1>5. PICK k \in 1..j : waiting[k] = r
    BY <1>3, <1>4 DEF Ahead
<1>6. waiting \in Seq(Request) /\ k \in 1..Len(waiting) /\ k < j
    BY <1>2, <1>3, <1>5 DEF QueueInv, TypeOK
<1>7. ticket[r] < ticket[s]
    BY <1>3, <1>5, <1>6 DEF TicketOrder
<1>8. r \in Sleeping
    BY <1>5, <1>6 DEF QueueInv, BooksAgree
<1>9. ticket' = ticket
    BY <1>1, <1>8 DEF AcquireAtOnce, WakeGranted, Leave, Sleeping
<1> QED BY <1>7, <1>9

(***************************************************************************)
(* No slot goes to a request while one with an earlier ticket, on some of  *)
(* the same machines, is still queued.                                     *)
(***************************************************************************)
THEOREM FifoCorrect == Spec => NoOvertaking
<1>1. Init => TicketOrder
    BY DEF Init, TicketOrder, Sleeping
<1>2. Spec => []TicketOrder
    BY <1>1, StepOrder, QueueCorrect, PTL DEF Spec
<1>3. QueueInv /\ TicketOrder /\ [Next]_vars =>
          [\A r \in active' \ active : \A s \in Sleeping' :
               Overlaps(r, s) => ticket'[r] < ticket'[s]]_vars
    BY FifoStep
<1> QED BY <1>2, <1>3, QueueCorrect, PTL DEF Spec, NoOvertaking

-----------------------------------------------------------------------------
(* The scheduler implements exclusive ownership of machines.               *)

(* Requests that do not overlap share no machine.                          *)
LEMMA DisjointFootprints ==
    ASSUME NEW r \in Request, NEW s \in Request, ~Overlaps(r, s)
    PROVE  Footprint[r] \cap Footprint[s] = {}
BY DEF Overlaps, Footprint

(* The owner of a machine is the active request that uses it.              *)
LEMMA OwnerIs ==
    ASSUME SlotExclusion, active \subseteq Request, NEW n \in Node
    PROVE  /\ \A r \in active : n \in Footprint[r] => Owner[n] = r
           /\ (\A r \in active : n \notin Footprint[r]) => Owner[n] = UnknownNode
<1>1. ASSUME NEW r \in active, n \in Footprint[r] PROVE Owner[n] = r
    <2>1. \A s \in active : n \in Footprint[s] => s = r
        BY <1>1, DisjointFootprints DEF SlotExclusion
    <2> QED BY <1>1, <2>1 DEF Owner
<1> QED BY <1>1 DEF Owner

(* A grant takes machines nobody owns.                                     *)
LEMMA GrantTakes ==
    ASSUME QueueInv, SlotExclusion, SlotExclusion', active' \subseteq Request,
           NEW r \in Request, CanGrant(r), active' = active \cup {r}
    PROVE  Ownership!Take(r)
<1>1. active \subseteq Request
    BY DEF QueueInv, TypeOK
<1>2. ASSUME NEW n \in Footprint[r], n \in Node PROVE Owner[n] = UnknownNode
    <2>1. \A s \in active : n \notin Footprint[s]
        BY <1>1, DisjointFootprints DEF CanGrant
    <2> QED BY <1>1, <1>2, <2>1, OwnerIs
<1>3. Footprint[r] \subseteq Node
    BY SlotAssumptions DEF SlotAssumptions, Footprint, Nodes
<1>4. ASSUME NEW n \in Node
      PROVE  Owner'[n] = IF n \in Footprint[r] THEN r ELSE Owner[n]
    <2>1. \A s \in active' : n \in Footprint[s] => Owner'[n] = s
        <3>1. ASSUME NEW s \in active', n \in Footprint[s] PROVE Owner'[n] = s
            <4>1. \A t \in active' : n \in Footprint[t] => t = s
                BY <3>1, DisjointFootprints DEF SlotExclusion, Overlaps, Nodes
            <4> QED BY <3>1, <4>1 DEF Owner, Footprint, Nodes
        <3> QED BY <3>1
    <2>2. (\A s \in active' : n \notin Footprint[s]) => Owner'[n] = UnknownNode
        BY DEF Owner, Footprint, Nodes
    <2> QED BY <1>1, <2>1, <2>2, OwnerIs
<1>5. Owner' = [n \in Node |-> IF n \in Footprint[r] THEN r ELSE Owner[n]]
    BY <1>4 DEF Owner
<1> QED BY <1>2, <1>3, <1>5 DEF Ownership!Take

(* A release gives back just the machines of its request.                  *)
LEMMA ReleaseGivesBack ==
    ASSUME QueueInv, SlotExclusion, NEW r \in Request, Release(r)
    PROVE  Ownership!GiveBack(r)
<1>1. /\ active \subseteq Request
      /\ r \in active
      /\ active' = active \ {r}
      /\ Footprint[r] \subseteq Node
    BY SlotAssumptions DEF QueueInv, TypeOK, Release, SlotAssumptions, Footprint, Nodes
<1>2. \A n \in Footprint[r] : Owner[n] = r
    BY <1>1, OwnerIs
<1>3. ASSUME NEW n \in Node
      PROVE  Owner'[n] = IF n \in Footprint[r] THEN UnknownNode ELSE Owner[n]
    <2>1. \A s, t \in active : n \in Footprint[s] /\ n \in Footprint[t] => s = t
        BY <1>1, DisjointFootprints DEF SlotExclusion
    <2>2. \A s \in active' : n \in Footprint[s] => Owner'[n] = s
        BY <1>1, <2>1 DEF Owner, Footprint, Nodes
    <2>3. (\A s \in active' : n \notin Footprint[s]) => Owner'[n] = UnknownNode
        BY DEF Owner, Footprint, Nodes
    <2> QED BY <1>1, <2>1, <2>2, <2>3, OwnerIs
<1>4. Owner' = [n \in Node |-> IF n \in Footprint[r] THEN UnknownNode ELSE Owner[n]]
    BY <1>3 DEF Owner
<1> QED BY <1>2, <1>4 DEF Ownership!GiveBack

(* A step of the scheduler is a step of ownership, or leaves it alone.     *)
LEMMA OwnershipStep ==
    ASSUME QueueInv, SlotExclusion, QueueInv', SlotExclusion', [Next]_vars
    PROVE  [Ownership!OwnerNext]_Owner
<1>1. ASSUME active' = active PROVE Owner' = Owner
    BY <1>1 DEF Owner, Footprint, Nodes
<1>2. ASSUME NEW r \in Request, Release(r) PROVE Ownership!OwnerNext
    BY <1>2, ReleaseGivesBack DEF Ownership!OwnerNext
<1>3. ASSUME NEW r \in Request, CanGrant(r), active' = active \cup {r}
      PROVE  Ownership!OwnerNext
    <2>1. active' \subseteq Request
        BY DEF QueueInv, TypeOK
    <2> QED BY <1>3, <2>1, GrantTakes DEF Ownership!OwnerNext
<1>4. \/ active' = active
      \/ \E r \in Request : Release(r)
      \/ \E r \in Request : CanGrant(r) /\ active' = active \cup {r}
    <2>1. ASSUME NEW r \in Request, Acquire(r)
          PROVE  active' = active \/ (CanGrant(r) /\ active' = active \cup {r})
        BY <2>1 DEF Acquire, AcquireCancelled, AcquireAtOnce, AcquireFull, AcquireWait
    <2>2. ASSUME NEW r \in Request, Wake(r)
          PROVE  active' = active \/ (CanGrant(r) /\ active' = active \cup {r})
        BY <2>2 DEF Wake, WakeCancelled, WakeGranted, WakeTimeout, WakeInVain, Leave
    <2>3. ASSUME NEW r \in Request, SetCancel(r) PROVE active' = active
        BY <2>3 DEF SetCancel
    <2>4. ASSUME NEW i \in Instance,
                 UnloadCheck(i) \/ UnloadAssign(i) \/ Stop(i) \/ Fail(i)
          PROVE  active' = active
        BY <2>4 DEF UnloadCheck, UnloadAssign, Stop, Fail, slotVars
    <2>5. CASE UNCHANGED vars
        BY <2>5 DEF vars
    <2> QED BY <2>1, <2>2, <2>3, <2>4, <2>5 DEF Next
<1> QED BY <1>1, <1>2, <1>3, <1>4

(***************************************************************************)
(* Every behaviour of the scheduler is a behaviour of exclusive ownership: *)
(* a grant takes all of a request's machines, a release returns them, and  *)
(* no other step changes who owns what.                                    *)
(***************************************************************************)
THEOREM OwnershipImplemented == Spec => ImplementsOwnership
<1>1. Init => Ownership!OwnerInit
    BY DEF Init, Ownership!OwnerInit, Owner
<1> QED BY <1>1, OwnershipStep, QueueCorrect, ExclusionCorrect, PTL
        DEF Spec, ImplementsOwnership, Ownership!OwnerSpec
-----------------------------------------------------------------------------
(***************************************************************************)
(* The registry's queue counter.  It survives a waiter's leaving only      *)
(* because a stop, which resets it, cannot be followed by the assignment   *)
(* of a second stop (that would make the instance leave STOPPED with a     *)
(* counter of 0 and requests in the queue).                                *)
(***************************************************************************)
LifecycleInv ==
    /\ unloading \subseteq Stoppable
    /\ \A i \in unloading : instances[i].state # "stopped"
    /\ \A i \in Instance :
           instances[i].state \in {"unloading", "stopped"} => i \in Stoppable

CountInv ==
    /\ \A i \in Instance : IsFiniteSet(QueuedOn(i))
    /\ QueuedCountAgrees

(* A field of a record keeps its value, or a stop has just reset it.       *)
Keeps(old, new, was, is) ==
    \/ is = was /\ (old.state = "stopped" <=> new.state = "stopped")
    \/ new.state = "stopped" /\ is = 0

KeepsQueued == \A i \in Instance : Keeps(instances[i], instances'[i],
                                         instances[i].queued, instances'[i].queued)
KeepsActive == \A i \in Instance : Keeps(instances[i], instances'[i],
                                         instances[i].active, instances'[i].active)

(* What entering and leaving the queue does to a record.                   *)
LEMMA QueueRecord ==
    ASSUME NEW inst \in InstanceRecord
    PROVE  /\ CanEnqueue(inst) =>
                /\ inst.state \notin {"unloading", "stopped"}
                /\ Enqueued(inst).state = "busy"
                /\ Enqueued(inst).queued = inst.queued + 1
                /\ Enqueued(inst).active = inst.active
           /\ CanDequeue(inst) =>
                /\ Dequeued(inst).state \in {inst.state, "ready"}
                /\ inst.state # "busy" => Dequeued(inst).state = inst.state
                /\ Dequeued(inst).queued = inst.queued - 1
                /\ Dequeued(inst).active = inst.active
BY DEF InstanceRecord, CanEnqueue, Serving, Enqueued, CanDequeue, Dequeued, Settled

(* What a change of state does to a record.                                *)
LEMMA StateRecord ==
    ASSUME NEW inst \in InstanceRecord, NEW t \in Lifecycle
    PROVE  /\ Assigned(inst, t).state = t
           /\ Transitioned(inst, t).state = t
           /\ inst.state # "stopped" =>
                /\ Keeps(inst, Assigned(inst, t), inst.queued, Assigned(inst, t).queued)
                /\ Keeps(inst, Assigned(inst, t), inst.active, Assigned(inst, t).active)
                /\ Keeps(inst, Transitioned(inst, t), inst.queued, Transitioned(inst, t).queued)
                /\ Keeps(inst, Transitioned(inst, t), inst.active, Transitioned(inst, t).active)
<1>1. /\ Assigned(inst, t).state = t
      /\ Assigned(inst, t).queued = IF t = "stopped" THEN 0 ELSE inst.queued
      /\ Assigned(inst, t).active = IF t = "stopped" THEN 0 ELSE inst.active
    BY DEF Assigned
<1> QED BY <1>1 DEF Transitioned, Keeps

(* A step that leaves the queue alone and keeps the counters.              *)
LEMMA SameCount ==
    ASSUME CountInv, KeepsQueued, Sleeping' = Sleeping
    PROVE  CountInv'
<1>1. \A i \in Instance : QueuedOn(i)' = QueuedOn(i)
    BY DEF QueuedOn
<1> QED BY <1>1 DEF CountInv, QueuedCountAgrees, KeepsQueued, Keeps

(* The record of a new waiter is counted.                                  *)
LEMMA AcquireCount ==
    ASSUME QueueInv, LifecycleInv, CountInv, NEW r \in Request, Acquire(r)
    PROVE  /\ CountInv' /\ LifecycleInv' /\ KeepsActive
<1>0. /\ instances \in [Instance -> InstanceRecord]
      /\ InstanceOf[r] \in Instance
      /\ call \in [Request -> CallState]
      /\ call[r] = "idle"
    BY SlotAssumptions DEF SlotAssumptions, QueueInv, TypeOK, Acquire, AcquireCancelled,
       AcquireAtOnce, AcquireFull, AcquireWait
<1> DEFINE j == InstanceOf[r]
<1>1. CASE ~(AcquireWait(r) /\ CanEnqueue(instances[j]))
    <2>1. instances' = instances /\ unloading' = unloading
        BY <1>1 DEF Acquire, AcquireCancelled, AcquireAtOnce, AcquireFull, AcquireWait
    <2>2. PICK o \in CallState : o # "sleeping" /\ call' = [call EXCEPT ![r] = o]
        BY <1>1 DEF Acquire, AcquireCancelled, AcquireAtOnce, AcquireFull, AcquireWait,
           Finish, CallState
    <2>3. Sleeping' = Sleeping
        BY <1>0, <2>2 DEF Sleeping
    <2>4. KeepsQueued /\ KeepsActive
        BY <2>1 DEF KeepsQueued, KeepsActive, Keeps
    <2> QED BY <2>1, <2>3, <2>4, SameCount DEF LifecycleInv
<1>2. CASE AcquireWait(r) /\ CanEnqueue(instances[j])
    <2>1. /\ instances' = [instances EXCEPT ![j] = Enqueued(@)]
          /\ unloading' = unloading
          /\ call' = [call EXCEPT ![r] = "sleeping"]
        BY <1>2 DEF AcquireWait, Finish
    <2>2. /\ instances[j].state \notin {"unloading", "stopped"}
          /\ instances'[j].state = "busy"
          /\ instances'[j].queued = instances[j].queued + 1
          /\ instances'[j].active = instances[j].active
          /\ \A i \in Instance \ {j} : instances'[i] = instances[i]
        BY <1>0, <1>2, <2>1, QueueRecord
    <2>3. Sleeping' = Sleeping \cup {r} /\ r \notin Sleeping
        BY <1>0, <2>1 DEF Sleeping
    <2>4. /\ QueuedOn(j)' = QueuedOn(j) \cup {r}
          /\ r \notin QueuedOn(j)
          /\ \A i \in Instance \ {j} : QueuedOn(i)' = QueuedOn(i)
        BY <2>3 DEF QueuedOn
    <2>5. /\ IsFiniteSet(QueuedOn(j) \cup {r})
          /\ Cardinality(QueuedOn(j) \cup {r}) = Cardinality(QueuedOn(j)) + 1
        BY <1>0, <2>4, FS_AddElement DEF CountInv
    <2>6. CountInv'
        BY <1>0, <2>2, <2>4, <2>5 DEF CountInv, QueuedCountAgrees
    <2>7. LifecycleInv'
        BY <2>1, <2>2 DEF LifecycleInv
    <2> QED BY <1>0, <2>2, <2>6, <2>7 DEF KeepsActive, Keeps
<1> QED BY <1>1, <1>2

(* A waiter that leaves is counted off, unless a stop has reset the        *)
(* counter: then it gets the conflict.                                     *)
LEMMA LeaveCount ==
    ASSUME QueueInv, LifecycleInv, CountInv, NEW r \in Sleeping, NEW o \in CallState, NEW A,
           o # "sleeping", Leave(r, o, A)
    PROVE  /\ CountInv' /\ LifecycleInv' /\ KeepsActive
           /\ call'[r] = "conflict" /\ o # "conflict" => InstanceOf[r] \in Stoppable
<1> DEFINE j == InstanceOf[r]
<1>0. /\ instances \in [Instance -> InstanceRecord]
      /\ r \in Request /\ j \in Instance
      /\ call \in [Request -> CallState]
      /\ call[r] = "sleeping" /\ r \in QueuedOn(j)
    BY SlotAssumptions DEF SlotAssumptions, QueueInv, TypeOK, Sleeping, QueuedOn
<1>1. call' = [call EXCEPT ![r] = call'[r]] /\ call'[r] # "sleeping"
    BY <1>0 DEF Leave, Finish
<1>2. Sleeping' = Sleeping \ {r}
    BY <1>0, <1>1 DEF Sleeping
<1>3. /\ QueuedOn(j)' = QueuedOn(j) \ {r}
      /\ \A i \in Instance \ {j} : QueuedOn(i)' = QueuedOn(i)
    BY <1>2 DEF QueuedOn
<1>4. /\ IsFiniteSet(QueuedOn(j) \ {r})
      /\ Cardinality(QueuedOn(j) \ {r}) = Cardinality(QueuedOn(j)) - 1
      /\ Cardinality(QueuedOn(j)) \in Nat
      /\ Cardinality(QueuedOn(j)) # 0
    <2>1. IsFiniteSet(QueuedOn(j))
        BY <1>0 DEF CountInv
    <2> QED BY <1>0, <2>1, FS_RemoveElement, FS_CardinalityType, FS_EmptySet
<1>5. unloading' = unloading
    BY DEF Leave
<1>6. CASE CanDequeue(instances[j])
    <2>1. instances' = [instances EXCEPT ![j] = Dequeued(@)] /\ call'[r] = o
        BY <1>0, <1>6 DEF Leave, Finish
    <2>2. /\ instances'[j].state \in {instances[j].state, "ready"}
          /\ instances[j].state # "busy" => instances'[j].state = instances[j].state
          /\ instances'[j].queued = instances[j].queued - 1
          /\ instances'[j].active = instances[j].active
          /\ \A i \in Instance \ {j} : instances'[i] = instances[i]
        BY <1>0, <1>6, <2>1, QueueRecord
    <2>3. instances[j].state # "stopped" /\ instances'[j].state # "stopped"
        BY <1>0, <1>6, <2>2 DEF CanDequeue, CountInv, QueuedCountAgrees
    <2>4. CountInv'
        BY <1>0, <1>3, <1>4, <2>2, <2>3 DEF CountInv, QueuedCountAgrees
    <2>5. LifecycleInv'
        BY <1>5, <2>2, <2>3 DEF LifecycleInv, QueueInv, TypeOK
    <2> QED BY <1>0, <2>1, <2>2, <2>3, <2>4, <2>5 DEF KeepsActive, Keeps
<1>7. CASE ~CanDequeue(instances[j])
    <2>1. instances' = instances
        BY <1>7 DEF Leave
    <2>2. instances[j].queued \in Nat
        BY <1>0 DEF InstanceRecord
    <2>3. instances[j].state = "stopped"
        BY <1>0, <1>4, <1>7, <2>2 DEF CanDequeue, CountInv, QueuedCountAgrees
    <2>4. CountInv'
        BY <1>0, <1>3, <1>4, <2>1, <2>3 DEF CountInv, QueuedCountAgrees
    <2>5. LifecycleInv' /\ KeepsActive
        BY <1>5, <2>1 DEF LifecycleInv, KeepsActive, Keeps
    <2> QED BY <1>0, <2>3, <2>4, <2>5 DEF LifecycleInv
<1> QED BY <1>6, <1>7

(* A waiter that wakes.                                                    *)
LEMMA WakeCount ==
    ASSUME QueueInv, LifecycleInv, CountInv, NEW r \in Request, Wake(r)
    PROVE  /\ CountInv' /\ LifecycleInv' /\ KeepsActive
<1>1. CASE WakeInVain(r)
    <2>1. KeepsQueued /\ KeepsActive /\ Sleeping' = Sleeping
        BY <1>1 DEF WakeInVain, KeepsQueued, KeepsActive, Keeps, Sleeping
    <2> QED BY <1>1, <2>1, SameCount DEF WakeInVain, LifecycleInv
<1>2. CASE ~WakeInVain(r)
    <2>1. PICK o \in {"cancelled", "granted", "timeout"} : \E A : Leave(r, o, A)
        BY <1>2 DEF Wake, WakeCancelled, WakeGranted, WakeTimeout
    <2>2. r \in Sleeping /\ o \in CallState /\ o # "sleeping"
        BY <1>2 DEF Wake, WakeCancelled, WakeGranted, WakeTimeout, Awake, Sleeping, CallState
    <2> QED BY <2>1, <2>2, LeaveCount
<1> QED BY <1>1, <1>2

(* A lease that goes back.                                                 *)
LEMMA ReleaseCount ==
    ASSUME QueueInv, LifecycleInv, CountInv, NEW r \in Request, Release(r)
    PROVE  /\ CountInv' /\ LifecycleInv' /\ KeepsActive
<1>1. call[r] = "granted" /\ call' = [call EXCEPT ![r] = "released"]
    BY DEF Release, Finish, QueueInv, BooksAgree
<1>2. Sleeping' = Sleeping
    BY <1>1 DEF Sleeping, QueueInv, TypeOK
<1>3. KeepsQueued /\ KeepsActive
    BY DEF Release, KeepsQueued, KeepsActive, Keeps
<1> QED BY <1>2, <1>3, SameCount DEF Release, LifecycleInv

(* The callers, stops and failures.                                        *)
LEMMA EnvironmentCount ==
    ASSUME QueueInv, LifecycleInv, CountInv,
           \/ \E r \in Request : SetCancel(r)
           \/ \E i \in Instance : UnloadCheck(i) \/ UnloadAssign(i) \/ Stop(i) \/ Fail(i)
    PROVE  /\ CountInv' /\ LifecycleInv' /\ KeepsActive
<1>0. instances \in [Instance -> InstanceRecord]
    BY DEF QueueInv, TypeOK
<1>1. Sleeping' = Sleeping
    BY DEF SetCancel, UnloadCheck, UnloadAssign, Stop, Fail, slotVars, Sleeping
<1>2. ASSUME NEW r \in Request, SetCancel(r)
      PROVE  KeepsQueued /\ KeepsActive /\ LifecycleInv'
    BY <1>2 DEF SetCancel, KeepsQueued, KeepsActive, Keeps, LifecycleInv
<1>3. ASSUME NEW i \in Instance, UnloadCheck(i)
      PROVE  KeepsQueued /\ KeepsActive /\ LifecycleInv'
    <2>1. instances[i].state # "stopped"
        BY <1>3 DEF UnloadCheck, Successors, Lifecycle
    <2> QED BY <1>3, <2>1 DEF UnloadCheck, slotVars, KeepsQueued, KeepsActive, Keeps, LifecycleInv
<1>4. ASSUME NEW i \in Instance, NEW t \in {"unloading", "stopped", "failed"},
             instances[i].state # "stopped",
             \/ instances' = [instances EXCEPT ![i] = Assigned(@, t)]
             \/ instances' = [instances EXCEPT ![i] = Transitioned(@, t)],
             unloading' \subseteq unloading, t = "stopped" => i \notin unloading',
             i \in Stoppable
      PROVE  KeepsQueued /\ KeepsActive /\ LifecycleInv'
    <2>1. t \in Lifecycle /\ instances[i] \in InstanceRecord
        BY <1>0 DEF Lifecycle
    <2>2. /\ instances'[i].state = t
          /\ Keeps(instances[i], instances'[i], instances[i].queued, instances'[i].queued)
          /\ Keeps(instances[i], instances'[i], instances[i].active, instances'[i].active)
          /\ \A k \in Instance \ {i} : instances'[k] = instances[k]
        BY <1>0, <1>4, <2>1, StateRecord
    <2>3. KeepsQueued
        BY <2>2 DEF KeepsQueued, Keeps
    <2>4. KeepsActive
        BY <2>2 DEF KeepsActive, Keeps
    <2>5. LifecycleInv'
        <3>1. unloading \subseteq Instance
            BY DEF QueueInv, TypeOK
        <3> QED BY <1>4, <2>2, <3>1 DEF LifecycleInv
    <2> QED BY <2>3, <2>4, <2>5
<1>5. ASSUME NEW i \in Instance, UnloadAssign(i)
      PROVE  KeepsQueued /\ KeepsActive /\ LifecycleInv'
    BY <1>4, <1>5 DEF UnloadAssign, LifecycleInv
<1>6. ASSUME NEW i \in Instance, Stop(i)
      PROVE  KeepsQueued /\ KeepsActive /\ LifecycleInv'
    BY <1>4, <1>6 DEF Stop, LifecycleInv
<1>7. ASSUME NEW i \in Instance, Fail(i)
      PROVE  KeepsQueued /\ KeepsActive /\ LifecycleInv'
    BY <1>4, <1>7 DEF Fail, Serving
<1>8. KeepsQueued /\ KeepsActive /\ LifecycleInv'
    BY <1>2, <1>3, <1>5, <1>6, <1>7
<1> QED BY <1>1, <1>8, SameCount

(* Both hold initially, and every step keeps them.                         *)
LEMMA InitCount == Init => LifecycleInv /\ CountInv
<1> SUFFICES ASSUME Init PROVE LifecycleInv /\ CountInv
    OBVIOUS
<1>1. \A i \in Instance : instances[i].state = "ready" /\ instances[i].queued = 0
    BY DEF Init, NewInstance
<1>2. \A i \in Instance : QueuedOn(i) = {}
    BY DEF Init, QueuedOn, Sleeping
<1> QED BY <1>1, <1>2, FS_EmptySet DEF Init, LifecycleInv, CountInv, QueuedCountAgrees

LEMMA StepCount ==
    ASSUME QueueInv, LifecycleInv, CountInv, [Next]_vars
    PROVE  LifecycleInv' /\ CountInv'
<1>1. CASE UNCHANGED vars
    BY <1>1, SameCount DEF vars, LifecycleInv, KeepsQueued, Keeps, Sleeping
<1>2. CASE Next
    BY <1>2, AcquireCount, WakeCount, ReleaseCount, EnvironmentCount DEF Next
<1> QED BY <1>1, <1>2

LEMMA CountHolds == Spec => [](LifecycleInv /\ CountInv)
<1> QED BY InitCount, StepCount, QueueCorrect, PTL DEF Spec

(***************************************************************************)
(* The registry counts the queue correctly for any number of waiters,      *)
(* stops and failures (enqueue_request, dequeue_request).                  *)
(***************************************************************************)
THEOREM QueuedCountCorrect == Spec => []QueuedCountAgrees
<1>1. CountInv => QueuedCountAgrees
    BY DEF CountInv
<1> QED BY <1>1, CountHolds, PTL
-----------------------------------------------------------------------------
(***************************************************************************)
(* No lost wakeup.  A waiter whose registry record was reset leaves        *)
(* without a notify_all, so nobody who waits behind it may depend on one.  *)
(* Every call of the gateways has a timeout and a cancel event, which      *)
(* makes this true of the code; with no stoppable instance it is true of   *)
(* any callers.                                                            *)
(***************************************************************************)
PollsBehindStoppable ==
    \A r, s \in Request :
        InstanceOf[r] \in Stoppable /\ Overlaps(s, r) => s \in Timed \cup Cancellable

(* More leases and more records ahead keep a waiter back.                  *)
LEMMA StillBlocked ==
    ASSUME NEW s, ~CanGrant(s), active \subseteq active', Ahead(s) \subseteq Ahead(s)'
    PROVE  ~CanGrant(s)'
<1>1. PICK t \in active \cup Ahead(s) : Overlaps(s, t)
    BY DEF CanGrant
<1>2. Overlaps(s, t)'
    BY <1>1 DEF Overlaps, Nodes
<1> QED BY <1>1, <1>2 DEF CanGrant

(* A record at the tail is ahead of nobody.                                *)
LEMMA AheadOfTail ==
    ASSUME waiting \in Seq(Request), NEW r \in Request, waiting' = Append(waiting, r),
           NEW s
    PROVE  Ahead(s) \subseteq Ahead(s)'
<1>1. /\ Len(waiting') = Len(waiting) + 1
      /\ \A i \in 1..Len(waiting) : waiting'[i] = waiting[i]
      /\ Len(waiting) \in Nat
    OBVIOUS
<1>2. ASSUME NEW i \in 1..Len(waiting), \A k \in 1..i : waiting[k] # s
      PROVE  waiting[i] \in Ahead(s)'
    <2>1. i \in 1..Len(waiting') /\ \A k \in 1..i : waiting'[k] # s
        BY <1>1, <1>2
    <2> QED BY <1>1, <2>1 DEF Ahead
<1> QED BY <1>2 DEF Ahead

(* Only the record that leaves is no longer ahead of the others.           *)
LEMMA AheadOfOthers ==
    ASSUME waiting \in Seq(Request), NEW p \in 1..Len(waiting),
           waiting' = [i \in 1..(Len(waiting) - 1) |->
                          IF i < p THEN waiting[i] ELSE waiting[i + 1]],
           NEW s, waiting[p] # s
    PROVE  Ahead(s) \ {waiting[p]} \subseteq Ahead(s)'
<1> DEFINE old(i) == IF i < p THEN i ELSE i + 1
<1>1. /\ Len(waiting) \in Nat
      /\ DOMAIN waiting' = 1..(Len(waiting) - 1)
      /\ \A i \in 1..(Len(waiting) - 1) : waiting'[i] = waiting[old(i)]
    OBVIOUS
<1>2. Len(waiting') = Len(waiting) - 1
    <2>1. waiting' \in Seq(Request)
        BY RemovalType
    <2> QED BY <1>1, <2>1
<1>3. ASSUME NEW i \in 1..Len(waiting), \A k \in 1..i : waiting[k] # s,
             waiting[i] # waiting[p]
      PROVE  waiting[i] \in Ahead(s)'
    <2> DEFINE new == IF i < p THEN i ELSE i - 1
    <2>1. new \in 1..Len(waiting') /\ old(new) = i
        BY <1>1, <1>2, <1>3
    <2>2. \A k \in 1..new : k \in 1..Len(waiting') /\ old(k) \in 1..i
        BY <1>1, <1>2, <1>3, <2>1
    <2>3. waiting'[new] = waiting[i] /\ \A k \in 1..new : waiting'[k] # s
        BY <1>1, <1>2, <1>3, <2>1, <2>2
    <2> QED BY <2>1, <2>3 DEF Ahead
<1> QED BY <1>3 DEF Ahead

(* A step of a thread that wakes nobody.                                   *)
LEMMA NobodyFreed ==
    ASSUME NoLostWakeup, Sleeping' \subseteq Sleeping, active \subseteq active',
           waiting' = waiting, \A s \in Sleeping' : s \in notified => s \in notified'
    PROVE  NoLostWakeup'
<1>1. ASSUME NEW s \in Sleeping', CanGrant(s)' PROVE Awake(s)'
    <2>1. Ahead(s)' = Ahead(s)
        BY DEF Ahead
    <2>2. Awake(s)
        BY <1>1, <2>1, StillBlocked DEF NoLostWakeup
    <2> QED BY <1>1, <2>2 DEF Awake, Sleeping
<1> QED BY <1>1 DEF NoLostWakeup

(* A step after which every sleeper has been notified.                     *)
LEMMA AllNotified ==
    ASSUME Sleeping' \subseteq notified'
    PROVE  NoLostWakeup'
BY DEF NoLostWakeup, Awake, Sleeping

(* acquire.                                                                *)
LEMMA AcquireWakes ==
    ASSUME QueueInv, NoLostWakeup, NEW r \in Request, Acquire(r)
    PROVE  NoLostWakeup'
<1>0. /\ waiting \in Seq(Request)
      /\ call \in [Request -> CallState]
      /\ call[r] = "idle" /\ notified' = notified /\ active \subseteq active'
    BY DEF QueueInv, TypeOK, Acquire, AcquireCancelled, AcquireAtOnce, AcquireFull, AcquireWait
<1>1. CASE waiting' = waiting /\ Sleeping' \subseteq Sleeping
    BY <1>0, <1>1, NobodyFreed
<1>2. CASE ~(waiting' = waiting /\ Sleeping' \subseteq Sleeping)
    <2>1. /\ AcquireWait(r) /\ waiting' = Append(waiting, r)
          /\ call' = [call EXCEPT ![r] = "sleeping"]
        <3>1. ASSUME NEW o, o # "sleeping", call' = [call EXCEPT ![r] = o]
              PROVE  Sleeping' \subseteq Sleeping
            BY <1>0, <3>1 DEF Sleeping
        <3> QED BY <1>2, <3>1 DEF Acquire, AcquireCancelled, AcquireAtOnce, AcquireFull,
                AcquireWait, Finish
    <2>2. ~CanGrant(r)
        BY <2>1 DEF AcquireWait
    <2>3. ASSUME NEW s \in Sleeping', CanGrant(s)' PROVE Awake(s)'
        <3>1. CanGrant(s)
            BY <1>0, <2>1, <2>3, AheadOfTail, StillBlocked
        <3>2. s \in Sleeping
            BY <1>0, <2>1, <2>2, <2>3, <3>1 DEF Sleeping
        <3> QED BY <1>0, <2>3, <3>1, <3>2 DEF NoLostWakeup, Awake, Sleeping
    <2> QED BY <2>3 DEF NoLostWakeup
<1> QED BY <1>1, <1>2

(* A waiter that leaves notifies the others, or had its counter reset.     *)
LEMMA LeaveWakes ==
    ASSUME QueueInv, LifecycleInv, CountInv, NoLostWakeup, PollsBehindStoppable,
           NEW r \in Sleeping, NEW o \in {"cancelled", "granted", "timeout"}, NEW A,
           active \subseteq A, Leave(r, o, A)
    PROVE  NoLostWakeup'
<1> DEFINE p == Position(r)
<1>0. /\ r \in Request /\ r \in Queued
      /\ waiting \in Seq(Request)
      /\ p \in 1..Len(waiting) /\ waiting[p] = r
      /\ call \in [Request -> CallState]
    BY PositionType DEF QueueInv, BooksAgree, Queued, Sleeping, TypeOK
<1>1. Sleeping' = Sleeping \ {r}
    BY <1>0 DEF Leave, Finish, Sleeping
<1>2. CASE notified' = Sleeping \ {r}
    BY <1>1, <1>2, AllNotified
<1>3. CASE notified' # Sleeping \ {r}
    <2>1. /\ notified' = notified \ {r} /\ active' = active
          /\ call'[r] = "conflict"
        BY <1>0, <1>3 DEF Leave, Finish
    <2>2. InstanceOf[r] \in Stoppable
        <3>1. o \in CallState /\ o # "sleeping" /\ o # "conflict"
            BY DEF CallState
        <3> QED BY <2>1, <3>1, LeaveCount
    <2>3. waiting' = [i \in 1..(Len(waiting) - 1) |->
                         IF i < p THEN waiting[i] ELSE waiting[i + 1]]
        BY DEF Leave
    <2>4. ASSUME NEW s \in Sleeping', CanGrant(s)' PROVE Awake(s)'
        <3>1. s \in Sleeping /\ s # r /\ s \in Request
            BY <1>1, <2>4 DEF Sleeping
        <3>2. CASE CanGrant(s)
            BY <2>1, <2>4, <3>1, <3>2 DEF NoLostWakeup, Awake, Sleeping
        <3>3. CASE Overlaps(s, r)
            BY <1>0, <2>2, <2>4, <3>1, <3>3 DEF PollsBehindStoppable, Awake, Sleeping
        <3>4. CASE ~CanGrant(s) /\ ~Overlaps(s, r)
            <4>1. Ahead(s) \ {r} \subseteq Ahead(s)'
                BY <1>0, <2>3, <3>1, AheadOfOthers
            <4>2. PICK t \in active \cup Ahead(s) : Overlaps(s, t)
                BY <3>4 DEF CanGrant
            <4>3. t \in active' \cup Ahead(s)' /\ Overlaps(s, t)'
                BY <2>1, <3>4, <4>1, <4>2 DEF Overlaps, Nodes
            <4> QED BY <2>4, <4>3 DEF CanGrant
        <3> QED BY <3>2, <3>3, <3>4
    <2> QED BY <2>4 DEF NoLostWakeup
<1> QED BY <1>2, <1>3

(* A waiter that wakes.                                                    *)
LEMMA WakeWakes ==
    ASSUME QueueInv, LifecycleInv, CountInv, NoLostWakeup, PollsBehindStoppable,
           NEW r \in Request, Wake(r)
    PROVE  NoLostWakeup'
<1>1. CASE WakeInVain(r)
    <2>1. ASSUME NEW s \in Sleeping', CanGrant(s)' PROVE Awake(s)'
        <3>1. Ahead(s)' = Ahead(s) /\ active' = active /\ Sleeping' = Sleeping
            BY <1>1 DEF WakeInVain, Ahead, Sleeping
        <3>2. CanGrant(s) /\ s # r
            BY <1>1, <2>1, <3>1, StillBlocked DEF WakeInVain
        <3> QED BY <1>1, <2>1, <3>1, <3>2 DEF WakeInVain, NoLostWakeup, Awake, Sleeping
    <2> QED BY <2>1 DEF NoLostWakeup
<1>2. CASE ~WakeInVain(r)
    <2>1. r \in Sleeping
        BY DEF Wake, WakeCancelled, WakeGranted, WakeTimeout, WakeInVain, Awake, Sleeping
    <2>2. PICK o \in {"cancelled", "granted", "timeout"} :
              \E A : active \subseteq A /\ Leave(r, o, A)
        BY <1>2 DEF Wake, WakeCancelled, WakeGranted, WakeTimeout
    <2> QED BY <2>1, <2>2, LeaveWakes
<1> QED BY <1>1, <1>2

(***************************************************************************)
(* Whoever could be granted has been told, or polls, for any queue and any *)
(* mix of timeouts, cancellations and stops (notify_all in release and in  *)
(* _remove_waiter).                                                        *)
(***************************************************************************)
THEOREM WakeupsReach ==
    ASSUME PollsBehindStoppable
    PROVE  Spec => []NoLostWakeup
<1>1. Init => NoLostWakeup
    BY DEF Init, NoLostWakeup, Sleeping
<1>2. ASSUME QueueInv, LifecycleInv, CountInv, NoLostWakeup, [Next]_vars
      PROVE  NoLostWakeup'
    <2>1. ASSUME NEW r \in Request, Acquire(r) PROVE NoLostWakeup'
        BY <1>2, <2>1, AcquireWakes
    <2>2. ASSUME NEW r \in Request, Wake(r) PROVE NoLostWakeup'
        BY <1>2, <2>2, WakeWakes
    <2>3. ASSUME NEW r \in Request, Release(r) PROVE NoLostWakeup'
        <3>1. Sleeping' \subseteq Sleeping
            BY <1>2, <2>3 DEF Release, Finish, Sleeping, QueueInv, TypeOK
        <3> QED BY <2>3, <3>1, AllNotified DEF Release
    <2>4. ASSUME NEW r \in Request, SetCancel(r) PROVE NoLostWakeup'
        BY <1>2, <2>4, NobodyFreed DEF SetCancel, Sleeping
    <2>5. ASSUME NEW i \in Instance,
                 UnloadCheck(i) \/ UnloadAssign(i) \/ Stop(i) \/ Fail(i)
          PROVE  NoLostWakeup'
        BY <1>2, <2>5, NobodyFreed DEF UnloadCheck, UnloadAssign, Stop, Fail, slotVars, Sleeping
    <2>6. CASE UNCHANGED vars
        BY <1>2, <2>6, NobodyFreed DEF vars, Sleeping
    <2> QED BY <1>2, <2>1, <2>2, <2>3, <2>4, <2>5, <2>6 DEF Next
<1> QED BY <1>1, <1>2, QueueCorrect, CountHolds, PTL DEF Spec
=============================================================================
