----------------------- MODULE InstanceLaunch_proofs -----------------------
(***************************************************************************)
(* Proofs about InstanceLaunch, for any set of workers: its types, and     *)
(* what a stopped instance leaves behind.                                  *)
(***************************************************************************)
EXTENDS InstanceLaunch, TLAPS

USE DEF Node, Origin

(* How far the stops of one machine's instance have come.                  *)
Unstopped(n) == \A o \in Origin : stop[<<n, o>>].at \in {"idle", "asked"}
Committed(n) == \E o \in Origin :
                    stop[<<n, o>>].at \in {"unloading", "telling", "reaped"}
Reaped(n) == \E o \in Origin : stop[<<n, o>>].at = "reaped"

(* Where a machine's record stands at the end of its life.                 *)
Stopped(n) == instance[n].state = "stopped"
Down(n) == instance[n].state \in {"unloading", "stopped", "failed"}

Overtaken(n) == n = Coordinator /\ overtaken

(* The process has just been spawned under a token that is gone: the       *)
(* launch's next check takes it back.                                      *)
Doomed(n) ==
    /\ n \notin current
    /\ \/ n = Coordinator /\ launch.at = "spawned"
       \/ n \in Worker /\ rank[n] = "spawned"

Stoppable(n) == n \in reserved \cap known \cap registered /\ ~Stopped(n)

(* A process on the books: a stop would find it and has not yet been by.   *)
Owned(n) == Stoppable(n) /\ ~Reaped(n)

EarlyLaunch ==
    /\ launch.at \in {"idle", "created"} => ~overtaken
    /\ launch.at \in {"created", "admitted", "prepared"}
          => Coordinator \in registered
    /\ launch.at \in {"idle", "created", "admitted", "prepared"}
          => Coordinator \notin running

(* Each worker is asked once, and no stop precedes its record.             *)
AskedOnce ==
    \A w \in Worker :
        /\ launch.at \notin {"rolling_back", "over"} /\ w \in launch.todo
              => rank[w] = "idle"
        /\ rank[w] \in {"idle", "asked"} => w \notin registered
        /\ w \notin registered => Unstopped(w)

(* A valid token means that no stop has come by.                           *)
TokenIsCurrent ==
    \A n \in current : Unstopped(n) \/ Overtaken(n)

StopUnloaded == \A n \in Node : Committed(n) => Down(n)

AdmittedIsReserved ==
    launch.at = "admitted"
        => overtaken \/ Stopped(Coordinator) \/ Coordinator \in reserved

PreparedIsStoppable ==
    /\ launch.at = "prepared" /\ Coordinator \in current
          => overtaken \/ Stoppable(Coordinator)
    /\ \A w \in Worker \cap current : rank[w] = "prepared" => Stoppable(w)

RunningIsOwned ==
    \A n \in running : Overtaken(n) \/ Doomed(n) \/ Owned(n)

StoppedIsReleased ==
    \A n \in Node :
        Stopped(n) => /\ n \in reserved => Overtaken(n)
                      /\ n \in journal => Overtaken(n) \/ Doomed(n)

LaunchInv ==
    /\ TypeOK
    /\ EarlyLaunch
    /\ AskedOnce
    /\ TokenIsCurrent
    /\ StopUnloaded
    /\ AdmittedIsReserved
    /\ PreparedIsStoppable
    /\ RunningIsOwned
    /\ StoppedIsReleased

(* What almost every step keeps: no stop moves forward, no record leaves   *)
(* the end of its life or reaches STOPPED.                                 *)
StopsSettle ==
    \A n \in Node : /\ Unstopped(n) => Unstopped(n)'
                    /\ Committed(n)' => Committed(n)
                    /\ Reaped(n)' => Reaped(n)

RecordsSettle ==
    \A n \in Node : /\ Stopped(n)' <=> Stopped(n)
                    /\ Down(n) => Down(n)'

-----------------------------------------------------------------------------
(* What the lifecycle graph says of the transitions the handlers make.     *)
LEMMA Graph ==
    ASSUME NEW inst \in InstanceRecord, NEW target \in Lifecycle
    PROVE  /\ Transitioned(inst, target) \in InstanceRecord
           /\ Transitioned(inst, target).state = target
           /\ CanTransition(inst, target) /\ inst.state = "stopped"
                 => target \in {"queued", "stopped"}
           /\ CanTransition(inst, target)
              /\ target \in {"launching", "distributed_initializing",
                             "loading_metadata"}
                 => inst.state \notin {"unloading", "stopped", "failed"}
           /\ inst.state \in {"unloading", "stopped", "failed"}
                 => CanTransition(inst, "stopped")
<1>1. /\ Successors["stopped"] = {"queued"}
      /\ Successors["unloading"] = {"stopped", "failed"}
      /\ Successors["failed"] = {"queued", "unloading", "stopped"}
  BY DEF Successors, Lifecycle
<1>2. Assigned(inst, target) \in InstanceRecord
  BY DEF Assigned, InstanceRecord, Health
<1>3. Transitioned(inst, target) \in InstanceRecord
  BY <1>2 DEF Transitioned
<1>4. Transitioned(inst, target).state = target
  BY DEF Transitioned, Assigned
<1>. QED
  BY <1>1, <1>3, <1>4 DEF CanTransition

(* transition() on one machine's record.                                   *)
LEMMA AttemptEffect ==
    ASSUME instance \in [Node -> InstanceRecord],
           NEW n \in Node, NEW target \in Lifecycle, Attempt(n, target)
    PROVE  /\ instance' \in [Node -> InstanceRecord]
           /\ \A m \in Node \ {n} : instance'[m] = instance[m]
           /\ instance'[n].state = IF CanTransition(instance[n], target)
                                   THEN target ELSE instance[n].state
<1>1. /\ Transitioned(instance[n], target) \in InstanceRecord
      /\ Transitioned(instance[n], target).state = target
  BY Graph
<1>. DEFINE r == IF CanTransition(instance[n], target)
                 THEN Transitioned(instance[n], target) ELSE instance[n]
<1>2. r \in InstanceRecord
  BY <1>1
<1>3. instance' = [instance EXCEPT ![n] = r]
  BY DEF Attempt
<1>4. r.state = IF CanTransition(instance[n], target)
                THEN target ELSE instance[n].state
  BY <1>1
<1>. HIDE DEF r
<1>. QED
  BY <1>2, <1>3, <1>4

(* Counting a request keeps the record a record, in a state that serves.   *)
LEMMA LeaseTypes ==
    ASSUME NEW inst \in InstanceRecord
    PROVE  /\ LeaseAcquired(inst) \in InstanceRecord
           /\ CanReleaseLease(inst) => LeaseReleased(inst) \in InstanceRecord
<1>1. /\ inst.active \in Nat /\ inst.queued \in Nat
      /\ inst.state \in Lifecycle /\ inst.health \in Health
      /\ {"ready", "busy"} \subseteq Lifecycle
  BY DEF InstanceRecord, Lifecycle
<1>2. LeaseAcquired(inst) \in InstanceRecord
  <2>. DEFINE more == [inst EXCEPT !.active = @ + 1]
  <2>1. more \in InstanceRecord
    BY <1>1 DEF InstanceRecord
  <2>2. LeaseAcquired(inst) = [more EXCEPT !.state = "busy"]
    BY DEF LeaseAcquired
  <2>. HIDE DEF more
  <2>. QED
    BY <1>1, <2>1, <2>2 DEF InstanceRecord
<1>3. ASSUME CanReleaseLease(inst) PROVE LeaseReleased(inst) \in InstanceRecord
  <2>. DEFINE less == [inst EXCEPT !.active = @ - 1]
  <2>1. inst.active - 1 \in Nat
    BY <1>1, <1>3 DEF CanReleaseLease
  <2>2. less \in InstanceRecord
    BY <2>1 DEF InstanceRecord
  <2>. HIDE DEF less
  <2>3. [less EXCEPT !.state = "ready"] \in InstanceRecord
    BY <1>1, <2>2 DEF InstanceRecord
  <2>4. LeaseReleased(inst) = Settled(less)
    BY DEF LeaseReleased, less
  <2>. QED
    BY <2>2, <2>3, <2>4 DEF Settled
<1>. QED
  BY <1>2, <1>3

-----------------------------------------------------------------------------
(* Every step keeps the types.                                             *)
LEMMA TypesKept == TypeOK /\ [Next]_vars => TypeOK'
<1>. SUFFICES ASSUME TypeOK, [Next]_vars PROVE TypeOK'
  OBVIOUS
<1>. USE DEF TypeOK, node, LaunchMoves, RankMoves, StopMoves, ReapLocally,
             LaunchRollsBack, LaunchPlace, RankPlace, StopPlace
<1>. DEFINE Records == instance' \in [Node -> InstanceRecord]
<1>1. \A n \in Node, t \in Lifecycle : Attempt(n, t) => Records
  BY AttemptEffect
<1>2. UNCHANGED instance => Records
  OBVIOUS
<1>3. {"launching", "distributed_initializing", "loading_metadata", "ready",
       "unloading", "stopped", "failed"} \subseteq Lifecycle
  BY DEF Lifecycle
<1>. DEFINE Stops ==
       stop' \in [Node \X Origin -> [at : StopPlace, todo : SUBSET Worker]]
<1>0. \A n \in Node, o \in Origin, place \in StopPlace :
         StopMoves(<<n, o>>, place) => Stops
  OBVIOUS
<1>4. CASE UNCHANGED vars
  BY <1>4 DEF vars
<1>5. CASE LaunchCreates
  BY <1>5 DEF LaunchCreates
<1>6. CASE LaunchRefused
  BY <1>6 DEF LaunchRefused
<1>7. CASE LaunchAdmitted
  <2>1. Records
    BY <1>1, <1>3, <1>7 DEF LaunchAdmitted
  <2>. QED
    BY <2>1, <1>7 DEF LaunchAdmitted, StopUnderWay
<1>8. CASE LaunchPrepares
  <2>1. Records
    BY <1>1, <1>3, <1>8 DEF LaunchPrepares
  <2>. QED
    BY <2>1, <1>8 DEF LaunchPrepares, StopUnderWay
<1>9. CASE LaunchSpawns
  BY <1>9 DEF LaunchSpawns
<1>10. CASE LaunchSpawnFails
  BY <1>10 DEF LaunchSpawnFails
<1>11. CASE LaunchPortFails
  <2>1. Records
    BY <1>1, <1>3, <1>11 DEF LaunchPortFails
  <2>. QED
    BY <2>1, <1>11 DEF LaunchPortFails
<1>12. CASE LaunchChecks
  BY <1>12 DEF LaunchChecks
<1>13. CASE LaunchCancelled
  BY <1>13 DEF LaunchCancelled
<1>14. CASE LaunchCompletes
  <2>1. Records
    BY <1>1, <1>3, <1>14 DEF LaunchCompletes
  <2>. QED
    BY <2>1, <1>14 DEF LaunchCompletes
<1>15. CASE RollbackEnds
  <2>1. Records
    BY <1>1, <1>3, <1>15 DEF RollbackEnds
  <2>. QED
    BY <2>1, <1>15 DEF RollbackEnds
<1>16. ASSUME NEW w \in Worker, LaunchPosts(w) PROVE TypeOK'
  BY <1>16 DEF LaunchPosts
<1>17. ASSUME NEW w \in Worker, LaunchCollects(w) PROVE TypeOK'
  BY <1>17 DEF LaunchCollects
<1>18. ASSUME NEW w \in Worker, LaunchPostFails(w) PROVE TypeOK'
  BY <1>18 DEF LaunchPostFails
<1>19. ASSUME NEW w \in Worker, RollbackTells(w) PROVE TypeOK'
  BY <1>19 DEF RollbackTells
<1>20. ASSUME NEW w \in Worker, RankPrepares(w) PROVE TypeOK'
  <2>1. Records
    BY <1>3, <1>20 DEF RankPrepares, InstanceRecord
  <2>. QED
    BY <2>1, <1>20 DEF RankPrepares
<1>21. ASSUME NEW w \in Worker, RankRefused(w) PROVE TypeOK'
  BY <1>21 DEF RankRefused
<1>22. ASSUME NEW w \in Worker, RankSpawns(w) PROVE TypeOK'
  BY <1>22 DEF RankSpawns
<1>23. ASSUME NEW w \in Worker, RankSpawnFails(w) PROVE TypeOK'
  BY <1>23 DEF RankSpawnFails
<1>24. ASSUME NEW w \in Worker, RankConnects(w) PROVE TypeOK'
  BY <1>24 DEF RankConnects
<1>25. ASSUME NEW w \in Worker, RankFails(w) PROVE TypeOK'
  <2>1. Records
    BY <1>1, <1>3, <1>25 DEF RankFails
  <2>. QED
    BY <2>1, <1>25 DEF RankFails
<1>26. ASSUME NEW w \in Worker, RankAnswers(w) PROVE TypeOK'
  <2>1. Records
    BY <1>1, <1>3, <1>26 DEF RankAnswers
  <2>. QED
    BY <2>1, <1>26 DEF RankAnswers
<1>27. CASE ClientStops
  BY <1>27 DEF ClientStops
<1>28. ASSUME NEW n \in Node, LeaseExpires(n) PROVE TypeOK'
  BY <1>28 DEF LeaseExpires
<1>29. ASSUME NEW n \in Node, NEW o \in Origin, StopBegins(n, o) PROVE TypeOK'
  <2>. HIDE DEF StopMoves
  <2>1. Stops
    BY <1>0, <1>29 DEF StopBegins
  <2>2. current' \subseteq Node
    BY <1>29 DEF StopBegins
  <2>. HIDE DEF Stops
  <2>3. Stops => stop' \in [Node \X Origin -> [at : StopPlace, todo : SUBSET Worker]]
    BY DEF Stops
  <2>. QED
    BY <2>1, <2>2, <2>3, <1>29 DEF StopBegins
<1>30. ASSUME NEW n \in Node, NEW o \in Origin, StopUnloads(n, o)
       PROVE TypeOK'
  <2>1. Records
    BY <1>1, <1>3, <1>30 DEF StopUnloads
  <2>2. Stops
    <3>. HIDE DEF StopMoves
    <3>. QED
      BY <1>0, <1>30 DEF StopUnloads
  <2>. HIDE DEF StopMoves
  <2>. QED
    BY <2>1, <2>2, <1>30 DEF StopUnloads
<1>31. ASSUME NEW n \in Node, Observe(n) PROVE Records
  <2>1. PICK found \in {"failed", "ready"} :
          instance' = [instance EXCEPT ![n] = Transitioned(@, found)]
    BY <1>31 DEF Observe, Observable
  <2>2. Transitioned(instance[n], found) \in InstanceRecord
    BY <1>3, Graph
  <2>. QED
    BY <2>1, <2>2
<1>32. ASSUME NEW n \in Node, NEW o \in Origin, StopRefused(n, o)
       PROVE TypeOK'
  <2>1. Records
    BY <1>2, <1>31, <1>32 DEF StopRefused
  <2>. QED
    BY <2>1, <1>32 DEF StopRefused
<1>33. ASSUME NEW n \in Node, NEW o \in Origin, StopFansOut(n, o)
       PROVE TypeOK'
  BY <1>33 DEF StopFansOut
<1>34. ASSUME NEW n \in Node, NEW o \in Origin, NEW w \in Worker,
              StopTells(n, o, w)
       PROVE TypeOK'
  <2>. DEFINE Table == [Node \X Origin -> [at : StopPlace, todo : SUBSET Worker]]
              told == [stop EXCEPT ![<<n, o>>].todo = @ \ {w}]
  <2>1. told \in Table
    OBVIOUS
  <2>2. \/ stop' = told
        \/ stop' = [told EXCEPT ![<<w, "request">>].at = "asked"]
    BY <1>34 DEF StopTells
  <2>3. <<w, "request">> \in Node \X Origin /\ "asked" \in StopPlace
    OBVIOUS
  <2>. HIDE DEF told
  <2>4. [told[<<w, "request">>] EXCEPT !.at = "asked"]
           \in [at : StopPlace, todo : SUBSET Worker]
    BY <2>1, <2>3
  <2>5. ASSUME stop' = told PROVE stop' \in Table
    BY <2>1, <2>5
  <2>6. ASSUME stop' = [told EXCEPT ![<<w, "request">>].at = "asked"]
        PROVE  stop' \in Table
    BY <2>1, <2>3, <2>4, <2>6
  <2>7. stop' \in Table
    BY <2>2, <2>5, <2>6
  <2>. QED
    BY <2>7, <1>34 DEF StopTells
<1>35. ASSUME NEW n \in Node, NEW o \in Origin, StopReaps(n, o) PROVE TypeOK'
  BY <1>35 DEF StopReaps
<1>36. ASSUME NEW n \in Node, NEW o \in Origin, StopEnds(n, o) PROVE TypeOK'
  <2>1. Records
    BY <1>1, <1>3, <1>36 DEF StopEnds
  <2>2. Stops
    <3>. HIDE DEF StopMoves
    <3>. QED
      BY <1>0, <1>36 DEF StopEnds
  <2>. HIDE DEF StopMoves
  <2>. QED
    BY <2>1, <2>2, <1>36 DEF StopEnds
<1>37. ASSUME NEW n \in Node, ProcessExits(n) PROVE TypeOK'
  BY <1>37 DEF ProcessExits
<1>38. ASSUME NEW n \in Node, Poll(n) PROVE TypeOK'
  <2>1. Records
    BY <1>31, <1>38 DEF Poll
  <2>. QED
    BY <2>1, <1>38 DEF Poll
<1>39. CASE QuorumFound
  <2>1. Records
    BY <1>3, <1>39 DEF QuorumFound, InstanceRecord
  <2>. QED
    BY <2>1, <1>39 DEF QuorumFound
<1>40. CASE RequestBegins
  <2>1. LeaseAcquired(instance[Coordinator]) \in InstanceRecord
    BY LeaseTypes
  <2>2. Records
    BY <2>1, <1>40 DEF RequestBegins
  <2>. QED
    BY <2>2, <1>40 DEF RequestBegins
<1>41. CASE RequestEnds
  <2>1. LeaseReleased(instance[Coordinator]) \in InstanceRecord
    BY <1>41, LeaseTypes DEF RequestEnds
  <2>2. Records
    BY <2>1, <1>41 DEF RequestEnds
  <2>. QED
    BY <2>2, <1>41 DEF RequestEnds
<1>. HIDE DEF TypeOK, node, LaunchMoves, RankMoves, StopMoves, ReapLocally,
              LaunchRollsBack, LaunchPlace, RankPlace, StopPlace, Records, Stops
<1>. QED
  BY <1>4, <1>5, <1>6, <1>7, <1>8, <1>9, <1>10, <1>11, <1>12, <1>13, <1>14,
     <1>15, <1>16, <1>17, <1>18, <1>19, <1>20, <1>21, <1>22, <1>23, <1>24,
     <1>25, <1>26, <1>27, <1>28, <1>29, <1>30, <1>32, <1>33, <1>34, <1>35,
     <1>36, <1>37, <1>38, <1>39, <1>40, <1>41
     DEF Next, LaunchStep, RankStep, StopStep

-----------------------------------------------------------------------------
(* A step that leaves the stops, or the records, alone settles them.       *)
LEMMA AloneSettles ==
    /\ UNCHANGED stop => StopsSettle
    /\ UNCHANGED instance => RecordsSettle
<1>1. ASSUME UNCHANGED stop, NEW n \in Node
      PROVE  /\ Unstopped(n) => Unstopped(n)'
             /\ Committed(n)' => Committed(n)
             /\ Reaped(n)' => Reaped(n)
  BY <1>1 DEF Unstopped, Committed, Reaped
<1>2. ASSUME UNCHANGED instance, NEW n \in Node
      PROVE  /\ Stopped(n)' <=> Stopped(n)
             /\ Down(n) => Down(n)'
  BY <1>2 DEF Stopped, Down
<1>. QED
  BY <1>1, <1>2 DEF StopsSettle, RecordsSettle

(* One stop moves: the others of every machine stay where they are.        *)
LEMMA MovedStop ==
    ASSUME TypeOK, NEW s \in Node \X Origin, NEW place \in StopPlace,
           StopMoves(s, place)
    PROVE  /\ stop'[s].at = place
           /\ \A t \in Node \X Origin : t # s => stop'[t] = stop[t]
  BY DEF TypeOK, StopMoves

(* A stop that is asked for, ends, or moves within a stage, settles.       *)
LEMMA MoveSettles ==
    ASSUME TypeOK, NEW s \in Node \X Origin, NEW place \in StopPlace,
           StopMoves(s, place),
           \/ place \in {"idle", "asked"}
           \/ /\ place \in {"cancelled", "unloading", "telling"}
              /\ stop[s].at \in {"unloading", "telling", "reaped"}
    PROVE  StopsSettle
<1>. SUFFICES ASSUME NEW n \in Node
     PROVE  /\ Unstopped(n) => Unstopped(n)'
            /\ Committed(n)' => Committed(n)
            /\ Reaped(n)' => Reaped(n)
  BY DEF StopsSettle
<1>1. \A o \in Origin :
         /\ <<n, o>> \in Node \X Origin
         /\ <<n, o>> # s => stop'[<<n, o>>] = stop[<<n, o>>]
         /\ <<n, o>> = s => stop'[<<n, o>>].at = place
  BY MovedStop
<1>2. Unstopped(n) => Unstopped(n)'
  BY <1>1 DEF Unstopped
<1>3. Committed(n)' => Committed(n)
  BY <1>1 DEF Committed
<1>4. Reaped(n)' => Reaped(n)
  BY <1>1 DEF Reaped
<1>. QED
  BY <1>2, <1>3, <1>4

(* No handler but the end of a stop makes a record STOPPED.                *)
LEMMA AttemptSettles ==
    ASSUME TypeOK, NEW n \in Node,
           NEW target \in {"launching", "distributed_initializing",
                           "loading_metadata", "unloading", "failed"},
           Attempt(n, target)
    PROVE  RecordsSettle
<1>1. target \in Lifecycle /\ instance[n] \in InstanceRecord
  BY DEF TypeOK, Lifecycle
<1>2. /\ \A m \in Node \ {n} : instance'[m] = instance[m]
      /\ instance'[n].state = IF CanTransition(instance[n], target)
                              THEN target ELSE instance[n].state
  BY <1>1, AttemptEffect DEF TypeOK
<1>3. /\ Stopped(n)' <=> Stopped(n)
      /\ Down(n) => Down(n)'
  BY <1>1, <1>2, Graph DEF Stopped, Down
<1>4. \A m \in Node \ {n} : /\ Stopped(m)' <=> Stopped(m)
                            /\ Down(m) => Down(m)'
  BY <1>2 DEF Stopped, Down
<1>. QED
  BY <1>3, <1>4 DEF RecordsSettle

(* Nor does a poll.                                                        *)
LEMMA ObserveSettles ==
    ASSUME TypeOK, NEW n \in Node, Observe(n)
    PROVE  RecordsSettle
<1>1. PICK found \in {"failed", "ready"} :
         /\ instance' = [instance EXCEPT ![n] = Transitioned(@, found)]
         /\ instance[n].state \notin {"failed", "unloading", "stopped"}
  BY DEF Observe, Observable
<1>2. found \in Lifecycle /\ instance[n] \in InstanceRecord
  BY DEF TypeOK, Lifecycle
<1>3. Transitioned(instance[n], found).state = found
  BY <1>2, Graph
<1>. DEFINE r == Transitioned(instance[n], found)
<1>4. instance' = [instance EXCEPT ![n] = r] /\ r.state = found
  BY <1>1, <1>3
<1>. HIDE DEF r
<1>5. \A m \in Node : m # n => instance'[m] = instance[m]
  BY <1>4 DEF TypeOK
<1>6. instance'[n].state = found
  BY <1>4 DEF TypeOK
<1>. QED
  BY <1>1, <1>5, <1>6 DEF RecordsSettle, Stopped, Down

(* The moves of a stop that do not settle, each at its own machine only.   *)
OnlyCancels(n) ==
    \A m \in Node : /\ Committed(m)' => Committed(m)
                    /\ Reaped(m)' => Reaped(m)
                    /\ m # n /\ Unstopped(m) => Unstopped(m)'

OnlyCommits(n) ==
    \A m \in Node : /\ Unstopped(m) => Unstopped(m)'
                    /\ Reaped(m)' => Reaped(m)
                    /\ m # n /\ Committed(m)' => Committed(m)

OnlyReaps(n) ==
    \A m \in Node : /\ Unstopped(m) => Unstopped(m)'
                    /\ Committed(m)' => Committed(m)
                    /\ m # n /\ Reaped(m)' => Reaped(m)

(* The records of the other machines, when one begins or ends its life.    *)
OthersSettle(n) ==
    \A m \in Node \ {n} : /\ Stopped(m)' <=> Stopped(m)
                          /\ Down(m) => Down(m)'

(* cancel_launch is where a stop begins.                                   *)
LEMMA CancelSettles ==
    ASSUME TypeOK, NEW n \in Node, NEW o \in Origin,
           StopMoves(<<n, o>>, "cancelled")
    PROVE  OnlyCancels(n)
<1>1. \A m \in Node, p \in Origin :
         /\ stop'[<<m, p>>].at \in {stop[<<m, p>>].at, "cancelled"}
         /\ m # n => stop'[<<m, p>>] = stop[<<m, p>>]
  BY MovedStop DEF StopPlace
<1>. QED
  BY <1>1 DEF OnlyCancels, Committed, Reaped, Unstopped

(* UNLOADING commits the stop.                                             *)
LEMMA UnloadSettles ==
    ASSUME TypeOK, NEW n \in Node, NEW o \in Origin,
           stop[<<n, o>>].at = "cancelled", StopMoves(<<n, o>>, "unloading")
    PROVE  OnlyCommits(n)
<1>1. \A m \in Node, p \in Origin :
         /\ \/ stop'[<<m, p>>] = stop[<<m, p>>]
            \/ /\ stop[<<m, p>>].at = "cancelled"
               /\ stop'[<<m, p>>].at = "unloading"
         /\ m # n => stop'[<<m, p>>] = stop[<<m, p>>]
  BY MovedStop DEF StopPlace
<1>. QED
  BY <1>1 DEF OnlyCommits, Committed, Reaped, Unstopped

(* Reaping is the last stage of a stop that is committed.                  *)
LEMMA ReapSettles ==
    ASSUME TypeOK, NEW n \in Node, NEW o \in Origin,
           stop[<<n, o>>].at = "telling", StopMoves(<<n, o>>, "reaped")
    PROVE  OnlyReaps(n)
<1>1. \A m \in Node, p \in Origin :
         /\ \/ stop'[<<m, p>>] = stop[<<m, p>>]
            \/ /\ stop[<<m, p>>].at = "telling"
               /\ stop'[<<m, p>>].at = "reaped"
         /\ m # n => stop'[<<m, p>>] = stop[<<m, p>>]
  BY MovedStop DEF StopPlace
<1>. QED
  BY <1>1 DEF OnlyReaps, Committed, Reaped, Unstopped

(* Fanning out stays within the committed stages.                          *)
LEMMA FanOutSettles ==
    ASSUME TypeOK, NEW n \in Node, NEW o \in Origin, StopFansOut(n, o)
    PROVE  StopsSettle
<1>. DEFINE s == <<n, o>>
            r == [at |-> "telling",
                  todo |-> IF n = Coordinator THEN workers ELSE {}]
<1>1. stop' = [stop EXCEPT ![s] = r] /\ stop[s].at = "unloading"
  BY DEF StopFansOut
<1>2. r.at = "telling"
  OBVIOUS
<1>. HIDE DEF r
<1>3. \A m \in Node, p \in Origin :
         \/ stop'[<<m, p>>] = stop[<<m, p>>]
         \/ /\ stop[<<m, p>>].at = "unloading"
            /\ stop'[<<m, p>>].at = "telling"
  BY <1>1, <1>2 DEF TypeOK
<1>. QED
  BY <1>3 DEF StopsSettle, Committed, Reaped, Unstopped

(* So does telling a worker, which asks for a stop that was idle.          *)
LEMMA TellSettles ==
    ASSUME TypeOK, NEW n \in Node, NEW o \in Origin, NEW w \in Worker,
           StopTells(n, o, w)
    PROVE  StopsSettle
<1>. DEFINE told == [stop EXCEPT ![<<n, o>>].todo = @ \ {w}]
<1>1. /\ told \in [Node \X Origin -> [at : StopPlace, todo : SUBSET Worker]]
      /\ \A s \in Node \X Origin : told[s].at = stop[s].at
  BY DEF TypeOK
<1>2. \/ stop' = told
      \/ /\ stop' = [told EXCEPT ![<<w, "request">>].at = "asked"]
         /\ stop[<<w, "request">>].at = "idle"
  BY DEF StopTells
<1>. HIDE DEF told
<1>3. ASSUME NEW m \in Node, NEW p \in Origin
      PROVE  \/ stop'[<<m, p>>].at = stop[<<m, p>>].at
             \/ /\ stop[<<m, p>>].at = "idle"
                /\ stop'[<<m, p>>].at = "asked"
  <2>1. CASE stop' = told
    BY <1>1, <2>1
  <2>2. CASE /\ stop' = [told EXCEPT ![<<w, "request">>].at = "asked"]
             /\ stop[<<w, "request">>].at = "idle"
    <3>1. CASE <<m, p>> = <<w, "request">>
      BY <1>1, <2>2, <3>1
    <3>2. CASE <<m, p>> # <<w, "request">>
      BY <1>1, <2>2, <3>2
    <3>. QED
      BY <3>1, <3>2
  <2>. QED
    BY <1>2, <2>1, <2>2
<1>. QED
  BY <1>3 DEF StopsSettle, Committed, Reaped, Unstopped

-----------------------------------------------------------------------------
(* A stop passes its stages in order, and the last comes once it is        *)
(* committed.                                                              *)
LEMMA Stages ==
    \A n \in Node : /\ Reaped(n) => Committed(n)
                    /\ Unstopped(n) => ~Committed(n)
                    /\ Stopped(n) => Down(n)
BY DEF Unstopped, Committed, Reaped, Stopped, Down

(* Every step keeps the invariant.                                         *)
LEMMA InvariantKept == LaunchInv /\ [Next]_vars => LaunchInv'
<1>. SUFFICES ASSUME LaunchInv, [Next]_vars PROVE LaunchInv'
  OBVIOUS
<1>0. TypeOK'
  BY TypesKept DEF LaunchInv
<1>. USE LaunchAssumptions
     DEF LaunchInv, TypeOK, node, LaunchMoves, RankMoves, ReapLocally,
         LaunchRollsBack, StopsSettle, RecordsSettle, Overtaken, Doomed,
         Stoppable, Owned, EarlyLaunch, AskedOnce, TokenIsCurrent,
         StopUnloaded, AdmittedIsReserved, PreparedIsStoppable,
         RunningIsOwned, StoppedIsReleased
<1>1. CASE UNCHANGED vars
  <2>1. StopsSettle /\ RecordsSettle
    BY <1>1, AloneSettles DEF vars
  <2>. QED
    BY <1>0, <1>1, <2>1 DEF vars
<1>2. CASE LaunchCreates
  <2>1. StopsSettle
    BY <1>2, AloneSettles DEF LaunchCreates
  <2>2. RecordsSettle
    BY <1>2, AloneSettles DEF LaunchCreates
  <2>. QED
    BY <1>0, <1>2, <2>1, <2>2, Stages DEF LaunchCreates
<1>3. CASE LaunchRefused
  <2>1. StopsSettle
    BY <1>3, AloneSettles DEF LaunchRefused
  <2>2. RecordsSettle
    BY <1>3, AloneSettles DEF LaunchRefused
  <2>3. /\ EarlyLaunch' /\ AskedOnce' /\ TokenIsCurrent'
        /\ AdmittedIsReserved' /\ PreparedIsStoppable'
    BY <1>3, <2>1, <2>2 DEF LaunchRefused
  <2>4. StopUnloaded' /\ RunningIsOwned' /\ StoppedIsReleased'
    BY <1>3, <2>1, <2>2, Stages DEF LaunchRefused
  <2>. HIDE DEF EarlyLaunch, AskedOnce, TokenIsCurrent, StopUnloaded,
                AdmittedIsReserved, PreparedIsStoppable, RunningIsOwned,
                StoppedIsReleased
  <2>. QED
    BY <1>0, <2>3, <2>4
<1>4. CASE LaunchAdmitted
  <2>1. StopsSettle
    BY <1>4, AloneSettles DEF LaunchAdmitted
  <2>2. RecordsSettle
    BY <1>4, AttemptSettles DEF LaunchAdmitted
  <2>3. Stopped(Coordinator)
           => instance[Coordinator].state # "queued"
    BY DEF Stopped
  <2>4. /\ EarlyLaunch' /\ AskedOnce' /\ TokenIsCurrent'
        /\ AdmittedIsReserved' /\ PreparedIsStoppable'
    BY <1>4, <2>1, <2>2 DEF LaunchAdmitted
  <2>5. StopUnloaded' /\ RunningIsOwned' /\ StoppedIsReleased'
    BY <1>4, <2>1, <2>2, <2>3, Stages DEF LaunchAdmitted
  <2>. HIDE DEF EarlyLaunch, AskedOnce, TokenIsCurrent, StopUnloaded,
                AdmittedIsReserved, PreparedIsStoppable, RunningIsOwned,
                StoppedIsReleased
  <2>. QED
    BY <1>0, <2>4, <2>5
<1>5. CASE LaunchPrepares
  <2>1. StopsSettle
    BY <1>5, AloneSettles DEF LaunchPrepares
  <2>2. RecordsSettle
    BY <1>5, AttemptSettles DEF LaunchPrepares
  <2>3. overtaken' \/ Unstopped(Coordinator)
    BY <1>5 DEF LaunchPrepares, StopUnderWay, Unstopped
  <2>4. launch'.at = "prepared" => ~Stopped(Coordinator)
    <3>1. /\ instance[Coordinator] \in InstanceRecord
          /\ {"loading_metadata", "distributed_initializing"}
                \subseteq Lifecycle
      BY DEF Lifecycle
    <3>. QED
      BY <1>5, <3>1, Graph DEF LaunchPrepares, Stopped
  <2>. QED
    BY <1>0, <1>5, <2>1, <2>2, <2>3, <2>4, Stages DEF LaunchPrepares
<1>6. CASE LaunchSpawns
  <2>1. StopsSettle
    BY <1>6, AloneSettles DEF LaunchSpawns
  <2>2. RecordsSettle
    BY <1>6, AloneSettles DEF LaunchSpawns
  <2>. QED
    BY <1>0, <1>6, <2>1, <2>2, Stages DEF LaunchSpawns
<1>7. CASE LaunchSpawnFails
  <2>1. StopsSettle
    BY <1>7, AloneSettles DEF LaunchSpawnFails
  <2>2. RecordsSettle
    BY <1>7, AloneSettles DEF LaunchSpawnFails
  <2>. QED
    BY <1>0, <1>7, <2>1, <2>2, Stages DEF LaunchSpawnFails
<1>8. CASE LaunchPortFails
  <2>1. StopsSettle
    BY <1>8, AloneSettles DEF LaunchPortFails
  <2>2. RecordsSettle
    BY <1>8, AttemptSettles DEF LaunchPortFails
  <2>. QED
    BY <1>0, <1>8, <2>1, <2>2, Stages DEF LaunchPortFails
<1>9. CASE LaunchChecks
  <2>1. StopsSettle
    BY <1>9, AloneSettles DEF LaunchChecks
  <2>2. RecordsSettle
    BY <1>9, AloneSettles DEF LaunchChecks
  <2>. QED
    BY <1>0, <1>9, <2>1, <2>2, Stages DEF LaunchChecks
<1>10. CASE LaunchCancelled
  <2>1. StopsSettle
    BY <1>10, AloneSettles DEF LaunchCancelled
  <2>2. RecordsSettle
    BY <1>10, AloneSettles DEF LaunchCancelled
  <2>. QED
    BY <1>0, <1>10, <2>1, <2>2, Stages DEF LaunchCancelled
<1>11. CASE LaunchCompletes
  <2>1. StopsSettle
    BY <1>11, AloneSettles DEF LaunchCompletes
  <2>2. RecordsSettle
    BY <1>11, AttemptSettles DEF LaunchCompletes
  <2>. QED
    BY <1>0, <1>11, <2>1, <2>2, Stages DEF LaunchCompletes
<1>12. CASE RollbackEnds
  <2>1. StopsSettle
    BY <1>12, AloneSettles DEF RollbackEnds
  <2>2. RecordsSettle
    BY <1>12, AttemptSettles DEF RollbackEnds
  <2>. QED
    BY <1>0, <1>12, <2>1, <2>2, Stages DEF RollbackEnds
<1>13. ASSUME NEW w \in Worker, LaunchPosts(w) PROVE LaunchInv'
  <2>1. StopsSettle
    BY <1>13, AloneSettles DEF LaunchPosts
  <2>2. RecordsSettle
    BY <1>13, AloneSettles DEF LaunchPosts
  <2>. QED
    BY <1>0, <1>13, <2>1, <2>2, Stages DEF LaunchPosts
<1>14. ASSUME NEW w \in Worker, LaunchCollects(w) PROVE LaunchInv'
  <2>1. StopsSettle
    BY <1>14, AloneSettles DEF LaunchCollects
  <2>2. RecordsSettle
    BY <1>14, AloneSettles DEF LaunchCollects
  <2>. QED
    BY <1>0, <1>14, <2>1, <2>2, Stages DEF LaunchCollects
<1>15. ASSUME NEW w \in Worker, LaunchPostFails(w) PROVE LaunchInv'
  <2>1. StopsSettle
    BY <1>15, AloneSettles DEF LaunchPostFails
  <2>2. RecordsSettle
    BY <1>15, AloneSettles DEF LaunchPostFails
  <2>. QED
    BY <1>0, <1>15, <2>1, <2>2, Stages DEF LaunchPostFails
<1>16. ASSUME NEW w \in Worker, RollbackTells(w) PROVE LaunchInv'
  <2>1. StopsSettle
    BY <1>16, AloneSettles, MoveSettles DEF RollbackTells, StopPlace
  <2>2. RecordsSettle
    BY <1>16, AloneSettles DEF RollbackTells
  <2>. QED
    BY <1>0, <1>16, <2>1, <2>2, Stages DEF RollbackTells
<1>17. ASSUME NEW w \in Worker, RankPrepares(w) PROVE LaunchInv'
  <2>1. StopsSettle
    BY <1>17, AloneSettles DEF RankPrepares
  <2>2. ~Stopped(w)' /\ OthersSettle(w)
    BY <1>17 DEF RankPrepares, OthersSettle, Stopped, Down
  <2>3. Unstopped(w)
    BY <1>17 DEF RankPrepares
  <2>4. w \in Node /\ w # Coordinator
    OBVIOUS
  <2>5. /\ rank' = [rank EXCEPT ![w] = "prepared"] /\ rank[w] = "asked"
        /\ registered' = registered \cup {w} /\ current' = current \cup {w}
        /\ known' = known \cup {w} /\ reserved' = reserved \cup {w}
        /\ UNCHANGED <<running, journal, launch, overtaken>>
    BY <1>17 DEF RankPrepares
  <2>6. EarlyLaunch' /\ AskedOnce'
    BY <2>5, <2>1, <2>3, <2>4
  <2>7. TokenIsCurrent' /\ StopUnloaded' /\ AdmittedIsReserved'
    BY <2>5, <2>2, <2>1, <2>3, <2>4, Stages DEF OthersSettle
  <2>8. PreparedIsStoppable'
    BY <2>5, <2>2, <2>4 DEF OthersSettle
  <2>9. RunningIsOwned'
    BY <2>5, <2>2, <2>1, <2>3, <2>4, Stages DEF OthersSettle
  <2>10. StoppedIsReleased'
    BY <2>5, <2>2, <2>4 DEF OthersSettle
  <2>. QED
    BY <1>0, <2>6, <2>7, <2>8, <2>9, <2>10
<1>18. ASSUME NEW w \in Worker, RankRefused(w) PROVE LaunchInv'
  <2>1. StopsSettle
    BY <1>18, AloneSettles DEF RankRefused
  <2>2. RecordsSettle
    BY <1>18, AloneSettles DEF RankRefused
  <2>. QED
    BY <1>0, <1>18, <2>1, <2>2, Stages DEF RankRefused
<1>19. ASSUME NEW w \in Worker, RankSpawns(w) PROVE LaunchInv'
  <2>1. StopsSettle
    BY <1>19, AloneSettles DEF RankSpawns
  <2>2. RecordsSettle
    BY <1>19, AloneSettles DEF RankSpawns
  <2>. QED
    BY <1>0, <1>19, <2>1, <2>2, Stages DEF RankSpawns
<1>20. ASSUME NEW w \in Worker, RankSpawnFails(w) PROVE LaunchInv'
  <2>1. StopsSettle
    BY <1>20, AloneSettles DEF RankSpawnFails
  <2>2. RecordsSettle
    BY <1>20, AloneSettles DEF RankSpawnFails
  <2>. QED
    BY <1>0, <1>20, <2>1, <2>2, Stages DEF RankSpawnFails
<1>21. ASSUME NEW w \in Worker, RankConnects(w) PROVE LaunchInv'
  <2>1. StopsSettle
    BY <1>21, AloneSettles DEF RankConnects
  <2>2. RecordsSettle
    BY <1>21, AloneSettles DEF RankConnects
  <2>. QED
    BY <1>0, <1>21, <2>1, <2>2, Stages DEF RankConnects
<1>22. ASSUME NEW w \in Worker, RankFails(w) PROVE LaunchInv'
  <2>1. StopsSettle
    BY <1>22, AloneSettles DEF RankFails
  <2>2. RecordsSettle
    BY <1>22, AttemptSettles DEF RankFails
  <2>. QED
    BY <1>0, <1>22, <2>1, <2>2, Stages DEF RankFails
<1>23. ASSUME NEW w \in Worker, RankAnswers(w) PROVE LaunchInv'
  <2>1. StopsSettle
    BY <1>23, AloneSettles DEF RankAnswers
  <2>2. RecordsSettle
    BY <1>23, AttemptSettles DEF RankAnswers
  <2>. QED
    BY <1>0, <1>23, <2>1, <2>2, Stages DEF RankAnswers
<1>24. CASE ClientStops
  <2>1. StopsSettle
    BY <1>24, AloneSettles, MoveSettles DEF ClientStops, StopPlace
  <2>2. RecordsSettle
    BY <1>24, AloneSettles DEF ClientStops
  <2>. QED
    BY <1>0, <1>24, <2>1, <2>2, Stages DEF ClientStops
<1>25. ASSUME NEW n \in Node, LeaseExpires(n) PROVE LaunchInv'
  <2>1. StopsSettle
    BY <1>25, AloneSettles, MoveSettles DEF LeaseExpires, StopPlace
  <2>2. RecordsSettle
    BY <1>25, AloneSettles DEF LeaseExpires
  <2>. QED
    BY <1>0, <1>25, <2>1, <2>2, Stages DEF LeaseExpires
<1>26. ASSUME NEW n \in Node, NEW o \in Origin, StopBegins(n, o)
       PROVE  LaunchInv'
  <2>1. RecordsSettle
    BY <1>26, AloneSettles DEF StopBegins
  <2>2. CASE n \notin registered
    <3>1. StopsSettle
      BY <1>26, <2>2, MoveSettles DEF StopBegins, StopPlace
    <3>. QED
      BY <1>0, <1>26, <2>1, <2>2, <3>1 DEF StopBegins
  <2>3. CASE n \in registered
    <3>1. OnlyCancels(n)
      BY <1>26, <2>3, CancelSettles DEF StopBegins
    <3>. QED
      BY <1>0, <1>26, <2>1, <2>3, <3>1 DEF StopBegins, OnlyCancels
  <2>. QED
    BY <2>2, <2>3
<1>27. ASSUME NEW n \in Node, NEW o \in Origin, StopUnloads(n, o)
       PROVE  LaunchInv'
  <2>1. RecordsSettle
    BY <1>27, AttemptSettles DEF StopUnloads
  <2>2. Down(n)'
    <3>1. instance[n] \in InstanceRecord /\ "unloading" \in Lifecycle
      BY DEF Lifecycle
    <3>2. instance'[n].state = IF CanTransition(instance[n], "unloading")
                               THEN "unloading" ELSE instance[n].state
      BY <1>27, <3>1, AttemptEffect DEF StopUnloads
    <3>. QED
      BY <1>27, <3>2 DEF StopUnloads, Unloadable, Down
  <2>3. OnlyCommits(n)
    BY <1>27, UnloadSettles DEF StopUnloads
  <2>. QED
    BY <1>0, <1>27, <2>1, <2>2, <2>3 DEF StopUnloads, OnlyCommits
<1>28. ASSUME NEW n \in Node, NEW o \in Origin, StopRefused(n, o)
       PROVE  LaunchInv'
  <2>1. StopsSettle
    BY <1>28, AloneSettles, MoveSettles DEF StopRefused, StopPlace
  <2>2. RecordsSettle
    BY <1>28, AloneSettles, ObserveSettles DEF StopRefused
  <2>. QED
    BY <1>0, <1>28, <2>1, <2>2, Stages DEF StopRefused
<1>29. ASSUME NEW n \in Node, NEW o \in Origin, StopFansOut(n, o)
       PROVE  LaunchInv'
  <2>1. StopsSettle
    BY <1>29, FanOutSettles
  <2>2. RecordsSettle
    BY <1>29, AloneSettles DEF StopFansOut
  <2>. QED
    BY <1>0, <1>29, <2>1, <2>2 DEF StopFansOut
<1>30. ASSUME NEW n \in Node, NEW o \in Origin, NEW w \in Worker,
              StopTells(n, o, w)
       PROVE  LaunchInv'
  <2>1. StopsSettle
    BY <1>30, TellSettles
  <2>2. RecordsSettle
    BY <1>30, AloneSettles DEF StopTells
  <2>. QED
    BY <1>0, <1>30, <2>1, <2>2 DEF StopTells
<1>31. ASSUME NEW n \in Node, NEW o \in Origin, StopReaps(n, o)
       PROVE  LaunchInv'
  <2>1. RecordsSettle
    BY <1>31, AloneSettles DEF StopReaps
  <2>2. OnlyReaps(n)
    BY <1>31, ReapSettles DEF StopReaps
  <2>. QED
    BY <1>0, <1>31, <2>1, <2>2 DEF StopReaps, OnlyReaps
<1>32. ASSUME NEW n \in Node, NEW o \in Origin, StopEnds(n, o) PROVE LaunchInv'
  <2>1. StopsSettle
    BY <1>32, MoveSettles DEF StopEnds, StopPlace
  <2>2. Reaped(n) /\ Down(n)
    BY <1>32, Stages DEF StopEnds, Reaped
  <2>3. instance[n] \in InstanceRecord /\ "stopped" \in Lifecycle
    BY DEF Lifecycle
  <2>4. CanTransition(instance[n], "stopped")
    BY <2>2, <2>3, Graph DEF Down
  <2>5. /\ instance'[n].state = "stopped"
        /\ \A m \in Node \ {n} : instance'[m] = instance[m]
    BY <1>32, <2>3, <2>4, AttemptEffect DEF StopEnds
  <2>6. Stopped(n)' /\ Down(n)' /\ OthersSettle(n)
    BY <2>5 DEF OthersSettle, Stopped, Down
  <2>. QED
    BY <1>0, <1>32, <2>1, <2>2, <2>6, Stages
       DEF StopEnds, OthersSettle
<1>33. ASSUME NEW n \in Node, ProcessExits(n) PROVE LaunchInv'
  <2>1. StopsSettle
    BY <1>33, AloneSettles DEF ProcessExits
  <2>2. RecordsSettle
    BY <1>33, AloneSettles DEF ProcessExits
  <2>. QED
    BY <1>0, <1>33, <2>1, <2>2, Stages DEF ProcessExits
<1>34. ASSUME NEW n \in Node, Poll(n) PROVE LaunchInv'
  <2>1. StopsSettle
    BY <1>34, AloneSettles DEF Poll
  <2>2. RecordsSettle
    BY <1>34, AloneSettles, ObserveSettles DEF Poll
  <2>. QED
    BY <1>0, <1>34, <2>1, <2>2, Stages DEF Poll
<1>35. CASE QuorumFound
  <2>1. StopsSettle
    BY <1>35, AloneSettles DEF QuorumFound
  <2>2. RecordsSettle
    BY <1>35 DEF QuorumFound, Stopped, Down
  <2>. QED
    BY <1>0, <1>35, <2>1, <2>2, Stages DEF QuorumFound
<1>36. CASE RequestBegins
  <2>1. StopsSettle
    BY <1>36, AloneSettles DEF RequestBegins
  <2>2. RecordsSettle
    BY <1>36 DEF RequestBegins, Stopped, Down, CanAcquireLease,
                    LeaseAcquired, Serving, InstanceRecord
  <2>. QED
    BY <1>0, <1>36, <2>1, <2>2, Stages DEF RequestBegins
<1>37. CASE RequestEnds
  <2>1. StopsSettle
    BY <1>37, AloneSettles DEF RequestEnds
  <2>2. RecordsSettle
    BY <1>37 DEF RequestEnds, Stopped, Down, CanReleaseLease,
                    LeaseReleased, Settled, InstanceRecord
  <2>. QED
    BY <1>0, <1>37, <2>1, <2>2, Stages DEF RequestEnds
<1>. HIDE DEF LaunchInv
<1>. QED
  BY <1>1, <1>2, <1>3, <1>4, <1>5, <1>6, <1>7, <1>8, <1>9, <1>10, <1>11,
     <1>12, <1>13, <1>14, <1>15, <1>16, <1>17, <1>18, <1>19, <1>20, <1>21,
     <1>22, <1>23, <1>24, <1>25, <1>26, <1>27, <1>28, <1>29, <1>30, <1>31,
     <1>32, <1>33, <1>34, <1>35, <1>36, <1>37
     DEF Next, LaunchStep, RankStep, StopStep

-----------------------------------------------------------------------------
(* The invariant holds initially.                                          *)
LEMMA InvariantStarts == Init => LaunchInv
<1>. SUFFICES ASSUME Init PROVE LaunchInv
  OBVIOUS
<1>1. /\ "queued" \in Lifecycle /\ 0 \in Nat
      /\ NewInstance \in InstanceRecord
      /\ NewInstance.state = "queued"
  BY DEF NewInstance, InstanceRecord, Lifecycle, Health
<1>2. TypeOK
  BY <1>1, LaunchAssumptions
     DEF Init, TypeOK, LaunchPlace, RankPlace, StopPlace
<1>3. \A n \in Node : Unstopped(n) /\ ~Committed(n) /\ ~Stopped(n)
  BY <1>1 DEF Init, Unstopped, Committed, Stopped
<1>. QED
  BY <1>2, <1>3
     DEF Init, LaunchInv, EarlyLaunch, AskedOnce, TokenIsCurrent,
         StopUnloaded, AdmittedIsReserved, PreparedIsStoppable,
         RunningIsOwned, StoppedIsReleased

(* The inductive invariant, for every set of workers, with and without     *)
(* lost posts, and wherever leases may run out: a valid token means that   *)
(* no stop has come by (agent.py:927-943), so a process is either on the   *)
(* books or about to be taken back by the launch's own check.              *)
THEOREM InvariantHolds == Spec => []LaunchInv
<1>. QED
  BY InvariantStarts, InvariantKept, PTL DEF Spec

(* Type correctness of the launch, for every set of workers.               *)
THEOREM TypesCorrect == Spec => []TypeOK
<1>1. LaunchInv => TypeOK
  BY DEF LaunchInv
<1>. QED
  BY <1>1, InvariantHolds, PTL

(* What a stopped instance may leave on a machine whose handlers are done: *)
(* nothing, unless its stop overtook the launch (stop_instance,            *)
(* agent.py:4122-4246, against start_distributed).                         *)
THEOREM StoppedCorrect == Spec => []StoppedLeavesNothing
<1>1. LaunchInv => StoppedLeavesNothing
  <2>. SUFFICES ASSUME LaunchInv, NEW n \in Node, Accountable(n),
                       instance[n].state = "stopped"
                PROVE  n \notin running \cup reserved \cup journal
    BY DEF StoppedLeavesNothing
  <2>1. Stopped(n) /\ ~Overtaken(n) /\ ~Doomed(n)
    BY DEF Stopped, Overtaken, Doomed, Accountable, Handled
  <2>. QED
    BY <2>1 DEF LaunchInv, TypeOK, RunningIsOwned, StoppedIsReleased, Owned,
                Stoppable
<1>. QED
  BY <1>1, InvariantHolds, PTL

(* A process that no handler is at work on can be stopped, and its memory  *)
(* is reserved: supervisor and ledger agree (agent.py:3830-3880 and        *)
(* 4012-4102).                                                             *)
THEOREM RunningCorrect == Spec => []RunningIsReserved
<1>1. LaunchInv => RunningIsReserved
  <2>. SUFFICES ASSUME LaunchInv, NEW n \in Node, Accountable(n),
                       n \in running
                PROVE  n \in registered \cap reserved
    BY DEF RunningIsReserved
  <2>1. ~Overtaken(n) /\ ~Doomed(n)
    BY DEF Overtaken, Doomed, Accountable, Handled
  <2>. QED
    BY <2>1 DEF LaunchInv, RunningIsOwned, Owned, Stoppable
<1>. QED
  BY <1>1, InvariantHolds, PTL
=============================================================================
