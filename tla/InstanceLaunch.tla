--------------------------- MODULE InstanceLaunch ---------------------------
(***************************************************************************)
(* Loading and stopping one distributed model instance: start_distributed, *)
(* start_distributed_rank, stop_instance and the lease watchdog of         *)
(* tokenity/node_agent/agent.py, with the state they share on each machine *)
(* (registry, launch token, ledger, supervisor, role table, journal).      *)
(*                                                                         *)
(* Every handler is a thread of its own.  A step ends where the handler    *)
(* waits (for a process, a port, another machine) or where another thread  *)
(* may come between a check and the act it guards.  A poster that waits    *)
(* for a reply it then ignores is not made to wait: the reply may time     *)
(* out.  One instance and one launch: the registry refuses a second one.   *)
(***************************************************************************)
EXTENDS ModelInstance, FiniteSets

CONSTANTS
    Coordinator,    \* the machine the instance is started on: rank 0
    Worker,         \* the machines of the other ranks
    Lossy,          \* posts between machines may fail or time out
    Lapsing         \* machines on which the lease may run out

ASSUME LaunchAssumptions ==
    /\ Coordinator \notin Worker
    /\ Lossy \in BOOLEAN
    /\ Lapsing \subseteq Worker \cup {Coordinator}

Node == Worker \cup {Coordinator}

(* stop_instance runs for a caller and for the lease watchdog.             *)
Origin == {"request", "lease"}

VARIABLES
    registered,     \* machines whose registry has the instance
    instance,       \* its record there
    current,        \* machines whose launch token is the launch's own
    known,          \* machines with a role in instance_roles
    reserved,       \* machines whose ledger holds the reservation
    running,        \* machines with a live rank process
    journal,        \* machines with a journal of the instance
    workers,        \* instance_workers of the coordinator
    launch,         \* the thread of start_distributed
    rank,           \* per worker, the thread of start_distributed_rank
    stop,           \* per machine and origin, the thread of stop_instance
    overtaken       \* history: a stop had passed its cancel_launch before
                    \* the launch drew its token

node == <<registered, instance, current, known, reserved, running, journal>>
vars == <<node, workers, launch, rank, stop, overtaken>>

LaunchPlace ==
    {"idle", "created", "admitted", "prepared", "spawned", "posting",
     "waiting", "rolling_back", "over"}

RankPlace ==
    {"idle", "asked", "prepared", "spawned", "connected", "accepted", "refused"}

StopPlace ==
    {"idle", "asked", "cancelled", "unloading", "telling", "reaped"}

Init ==
    /\ registered = {}
    /\ instance = [n \in Node |-> NewInstance]
    /\ current = {}
    /\ known = {}
    /\ reserved = {}
    /\ running = {}
    /\ journal = {}
    /\ workers = {}
    /\ launch = [at |-> "idle", todo |-> Worker, started |-> {}]
    /\ rank = [w \in Worker |-> "idle"]
    /\ stop = [s \in Node \X Origin |-> [at |-> "idle", todo |-> {}]]
    /\ overtaken = FALSE

-----------------------------------------------------------------------------
(* What several handlers do.                                               *)

(* transition(), when its exception would end the handler or is caught.    *)
Attempt(n, target) ==
    instance' = [instance EXCEPT
                    ![n] = IF CanTransition(@, target)
                           THEN Transitioned(@, target) ELSE @]

(* supervisor_stop, ledger release and removal of the journal.             *)
ReapLocally(n) ==
    /\ running' = running \ {n}
    /\ reserved' = reserved \ {n}
    /\ journal' = journal \ {n}

LaunchMoves(place) == launch' = [launch EXCEPT !.at = place]

RankMoves(w, place) == rank' = [rank EXCEPT ![w] = place]

StopMoves(s, place) == stop' = [stop EXCEPT ![s].at = place]

(* reconcile_instance_runtime: what the runtime's status file and process  *)
(* may show.  A failure can come at any time; a rank's own word that it is *)
(* ready counts on a worker, and on a machine that serves alone.           *)
Observable(n) ==
    {found \in {"failed", "ready"} :
        /\ n \in registered \cap known
        /\ \/ /\ found = "failed"
              /\ instance[n].state \notin {"failed", "unloading", "stopped"}
           \/ /\ found = "ready"
              /\ n \in running
              /\ n \in Worker \/ Worker = {}
              /\ instance[n].state \in
                    {"distributed_initializing", "loading_metadata",
                     "materializing_weights", "compiling_warming"}}

(* The record after such an observation: the walk to READY takes all the   *)
(* transitions between.                                                    *)
Observe(n) ==
    \E found \in Observable(n) :
        instance' = [instance EXCEPT ![n] = Transitioned(@, found)]

(* A stop of the coordinator's instance has cancelled the launch.          *)
StopUnderWay ==
    \E o \in Origin : stop[<<Coordinator, o>>].at \notin {"idle", "asked"}

-----------------------------------------------------------------------------
(* start_distributed: admission on the coordinator.                        *)

LaunchCreates ==
    /\ launch.at = "idle"
    /\ registered' = registered \cup {Coordinator}
    /\ LaunchMoves("created")
    /\ UNCHANGED <<instance, current, known, reserved, running, journal,
                   workers, rank, stop, overtaken>>

(* The ledger refuses: the record is removed again.                        *)
LaunchRefused ==
    /\ launch.at = "created"
    /\ registered' = registered \ {Coordinator}
    /\ LaunchMoves("over")
    /\ UNCHANGED <<instance, current, known, reserved, running, journal,
                   workers, rank, stop, overtaken>>

(* The reservation comes first: when a stop has come in between, the       *)
(* transition to LAUNCHING raises and leaves the reservation behind.       *)
LaunchAdmitted ==
    /\ launch.at = "created"
    /\ reserved' = reserved \cup {Coordinator}
    /\ Attempt(Coordinator, "launching")
    /\ LaunchMoves(IF CanTransition(instance[Coordinator], "launching")
                   THEN "admitted" ELSE "over")
    /\ overtaken' = (StopUnderWay \/ instance[Coordinator].state # "queued")
    /\ UNCHANGED <<registered, current, known, running, journal, workers,
                   rank, stop>>

(* begin_launch, the role table, the first heartbeat, and the transition.  *)
LaunchPrepares ==
    LET target == IF Worker = {} THEN "loading_metadata"
                  ELSE "distributed_initializing"
    IN  /\ launch.at = "admitted"
        /\ current' = current \cup {Coordinator}
        /\ known' = known \cup {Coordinator}
        /\ Attempt(Coordinator, target)
        /\ LaunchMoves(IF CanTransition(instance[Coordinator], target)
                       THEN "prepared" ELSE "over")
        /\ overtaken' = (overtaken \/ StopUnderWay)
        /\ UNCHANGED <<registered, reserved, running, journal, workers, rank,
                       stop>>

LaunchSpawns ==
    /\ launch.at = "prepared"
    /\ running' = running \cup {Coordinator}
    /\ journal' = journal \cup {Coordinator}
    /\ LaunchMoves("spawned")
    /\ UNCHANGED <<registered, instance, current, known, reserved, workers,
                   rank, stop, overtaken>>

(* Popen raises: the handler ends and leaves the rest to the lease.        *)
LaunchSpawnFails ==
    /\ launch.at = "prepared"
    /\ LaunchMoves("over")
    /\ UNCHANGED <<node, workers, rank, stop, overtaken>>

(* Rank 0 does not open its JACCL port in time.                            *)
LaunchPortFails ==
    /\ launch.at = "spawned"
    /\ ReapLocally(Coordinator)
    /\ Attempt(Coordinator, "failed")
    /\ LaunchMoves("over")
    /\ UNCHANGED <<registered, current, known, workers, rank, stop, overtaken>>

(* launch_is_current, once rank 0 runs.                                    *)
LaunchChecks ==
    /\ launch.at = "spawned"
    /\ \/ /\ Coordinator \in current
          /\ LaunchMoves("posting")
          /\ UNCHANGED node
       \/ /\ Coordinator \notin current
          /\ ReapLocally(Coordinator)
          /\ LaunchMoves("over")
          /\ UNCHANGED <<registered, instance, current, known>>
    /\ UNCHANGED <<workers, rank, stop, overtaken>>

-----------------------------------------------------------------------------
(* start_distributed: the worker ranks, one after the other.               *)

LaunchPosts(w) ==
    /\ launch.at = "posting"
    /\ w \in launch.todo
    /\ Coordinator \in current
    /\ RankMoves(w, "asked")
    /\ launch' = [launch EXCEPT !.at = "waiting", !.todo = @ \ {w}]
    /\ UNCHANGED <<node, workers, stop, overtaken>>

(* What rollback has to tell: the workers that answered.                   *)
LaunchRollsBack ==
    launch' = [launch EXCEPT !.at = "rolling_back", !.todo = launch.started]

LaunchCancelled ==
    /\ launch.at = "posting"
    /\ launch.todo # {}
    /\ Coordinator \notin current
    /\ LaunchRollsBack
    /\ UNCHANGED <<node, workers, rank, stop, overtaken>>

(* The worker whose answer the launch waits for.                           *)
Awaited(w) == w \notin launch.todo \cup launch.started /\ rank[w] # "idle"

(* The worker accepts; launch_is_current is asked again.                   *)
LaunchCollects(w) ==
    LET started == launch.started \cup {w}
    IN  /\ launch.at = "waiting"
        /\ Awaited(w)
        /\ rank[w] = "accepted"
        /\ launch' = [at      |-> IF Coordinator \in current THEN "posting"
                                  ELSE "rolling_back",
                      todo    |-> IF Coordinator \in current THEN launch.todo
                                  ELSE started,
                      started |-> started]
        /\ UNCHANGED <<node, workers, rank, stop, overtaken>>

(* The worker refuses, or the post fails or times out.                     *)
LaunchPostFails(w) ==
    /\ launch.at = "waiting"
    /\ Awaited(w)
    /\ Lossy \/ rank[w] = "refused"
    /\ LaunchRollsBack
    /\ UNCHANGED <<node, workers, rank, stop, overtaken>>

(* Broken variant: the coordinator lists itself among its workers.         *)
LaunchCompletesWithSelf ==
    /\ launch.at = "posting"
    /\ launch.todo = {}
    /\ workers' = launch.started \cup {Coordinator}
    /\ Attempt(Coordinator, "loading_metadata")
    /\ LaunchMoves("over")
    /\ UNCHANGED <<registered, current, known, reserved, running, journal,
                   rank, stop, overtaken>>

(* Every rank runs: the workers become known to stop_instance, the journal *)
(* is written while rank 0 lives, and the transition may raise.            *)
LaunchCompletes ==
    /\ launch.at = "posting"
    /\ launch.todo = {}
    /\ workers' = launch.started
    /\ journal' = IF Coordinator \in running
                  THEN journal \cup {Coordinator} ELSE journal
    /\ Attempt(Coordinator, "loading_metadata")
    /\ LaunchMoves("over")
    /\ UNCHANGED <<registered, current, known, reserved, running, rank, stop,
                   overtaken>>

(* One started worker is asked to stop; the answer does not matter.        *)
RollbackTells(w) ==
    /\ launch.at = "rolling_back"
    /\ w \in launch.todo
    /\ launch' = [launch EXCEPT !.todo = @ \ {w}]
    /\ \/ /\ stop[<<w, "request">>].at = "idle"
          /\ StopMoves(<<w, "request">>, "asked")
       \/ Lossy /\ UNCHANGED stop
    /\ UNCHANGED <<node, workers, rank, overtaken>>

RollbackEnds ==
    /\ launch.at = "rolling_back"
    /\ launch.todo = {}
    /\ ReapLocally(Coordinator)
    /\ Attempt(Coordinator, "failed")
    /\ LaunchMoves("over")
    /\ UNCHANGED <<registered, current, known, workers, rank, stop, overtaken>>

-----------------------------------------------------------------------------
(* start_distributed_rank on a worker.                                     *)

(* begin_launch, the record, the reservation, the role, the first          *)
(* heartbeat.                                                              *)
RankPrepares(w) ==
    /\ rank[w] = "asked"
    /\ registered' = registered \cup {w}
    /\ instance' = [instance EXCEPT ![w].state = "distributed_initializing"]
    /\ current' = current \cup {w}
    /\ known' = known \cup {w}
    /\ reserved' = reserved \cup {w}
    /\ RankMoves(w, "prepared")
    /\ UNCHANGED <<running, journal, workers, launch, stop, overtaken>>

(* Preflight refuses before the token is drawn, admission after it.        *)
RankRefused(w) ==
    /\ rank[w] = "asked"
    /\ current' \in {current, current \cup {w}}
    /\ RankMoves(w, "refused")
    /\ UNCHANGED <<registered, instance, known, reserved, running, journal,
                   workers, launch, stop, overtaken>>

RankSpawns(w) ==
    /\ rank[w] = "prepared"
    /\ running' = running \cup {w}
    /\ RankMoves(w, "spawned")
    /\ UNCHANGED <<registered, instance, current, known, reserved, journal,
                   workers, launch, stop, overtaken>>

RankSpawnFails(w) ==
    /\ rank[w] = "prepared"
    /\ RankMoves(w, "refused")
    /\ UNCHANGED <<node, workers, launch, stop, overtaken>>

(* Connected to rank 0, and launch_is_current.                             *)
RankConnects(w) ==
    /\ rank[w] = "spawned"
    /\ {w, Coordinator} \subseteq running
    /\ w \in current
    /\ RankMoves(w, "connected")
    /\ UNCHANGED <<node, workers, launch, stop, overtaken>>

(* Broken variant: the process of a rank that did not connect is left.     *)
RankGivesUp(w) ==
    /\ rank[w] = "spawned"
    /\ reserved' = reserved \ {w}
    /\ journal' = journal \ {w}
    /\ Attempt(w, "failed")
    /\ RankMoves(w, "refused")
    /\ UNCHANGED <<registered, current, known, running, workers, launch, stop,
                   overtaken>>

(* Not connected in time, or cancelled.                                    *)
RankFails(w) ==
    /\ rank[w] = "spawned"
    /\ ReapLocally(w)
    /\ Attempt(w, "failed")
    /\ RankMoves(w, "refused")
    /\ UNCHANGED <<registered, current, known, workers, launch, stop, overtaken>>

(* The transition raises when a stop has come in between.                  *)
RankAnswers(w) ==
    LET loads == CanTransition(instance[w], "loading_metadata")
    IN  /\ rank[w] = "connected"
        /\ Attempt(w, "loading_metadata")
        /\ journal' = IF loads /\ w \in running
                      THEN journal \cup {w} ELSE journal
        /\ RankMoves(w, IF loads THEN "accepted" ELSE "refused")
        /\ UNCHANGED <<registered, current, known, reserved, running, workers,
                       launch, stop, overtaken>>

-----------------------------------------------------------------------------
(* stop_instance, and the lease watchdog that calls it.                    *)

ClientStops ==
    /\ stop[<<Coordinator, "request">>].at = "idle"
    /\ StopMoves(<<Coordinator, "request">>, "asked")
    /\ UNCHANGED <<node, workers, launch, rank, overtaken>>

(* Broken variant: instances that are still loading are left alone.        *)
LeaseExpiresWhenLoaded(n) ==
    /\ stop[<<n, "lease">>].at = "idle"
    /\ n \in registered
    /\ instance[n].state \notin
          {"queued", "launching", "distributed_initializing", "stopped",
           "unloading", "failed"}
    /\ StopMoves(<<n, "lease">>, "asked")
    /\ UNCHANGED <<node, workers, launch, rank, overtaken>>

(* The deadline, set with the first heartbeat, has passed.                 *)
LeaseExpires(n) ==
    /\ stop[<<n, "lease">>].at = "idle"
    /\ n \in registered
    /\ instance[n].state \notin
          {"queued", "launching", "stopped", "unloading", "failed"}
    /\ StopMoves(<<n, "lease">>, "asked")
    /\ UNCHANGED <<node, workers, launch, rank, overtaken>>

(* Broken variant: a stop leaves the launch token valid.                   *)
StopBeginsWithoutCancelling(n, o) ==
    /\ stop[<<n, o>>].at = "asked"
    /\ StopMoves(<<n, o>>, IF n \in registered THEN "cancelled" ELSE "idle")
    /\ UNCHANGED <<node, workers, launch, rank, overtaken>>

(* 404, or cancel_launch.                                                  *)
StopBegins(n, o) ==
    /\ stop[<<n, o>>].at = "asked"
    /\ \/ /\ n \notin registered
          /\ StopMoves(<<n, o>>, "idle")
          /\ UNCHANGED current
       \/ /\ n \in registered
          /\ StopMoves(<<n, o>>, "cancelled")
          /\ current' = current \ {n}
    /\ UNCHANGED <<registered, instance, known, reserved, running, journal,
                   workers, launch, rank, overtaken>>

(* The transition to UNLOADING, unless it has been made.  The poll before  *)
(* it changes nothing that UNLOADING would not overwrite.                  *)
Unloadable(n) ==
    \/ instance[n].state \in {"unloading", "stopped"}
    \/ CanTransition(instance[n], "unloading")

StopUnloads(n, o) ==
    /\ stop[<<n, o>>].at = "cancelled"
    /\ Unloadable(n)
    /\ Attempt(n, "unloading")
    /\ StopMoves(<<n, o>>, "unloading")
    /\ UNCHANGED <<registered, current, known, reserved, running, journal,
                   workers, launch, rank, overtaken>>

(* 409: a request is active.                                               *)
StopRefused(n, o) ==
    /\ stop[<<n, o>>].at = "cancelled"
    /\ ~Unloadable(n)
    /\ UNCHANGED instance \/ Observe(n)
    /\ StopMoves(<<n, o>>, "idle")
    /\ UNCHANGED <<registered, current, known, reserved, running, journal,
                   workers, launch, rank, overtaken>>

(* The runtime has been asked to stop; the workers are read.               *)
StopFansOut(n, o) ==
    /\ stop[<<n, o>>].at = "unloading"
    /\ stop' = [stop EXCEPT
                  ![<<n, o>>] = [at   |-> "telling",
                                 todo |-> IF n = Coordinator THEN workers
                                          ELSE {}]]
    /\ UNCHANGED <<node, workers, launch, rank, overtaken>>

(* One worker is asked to stop; an error is reported, not retried.         *)
StopTells(n, o, w) ==
    /\ stop[<<n, o>>].at = "telling"
    /\ w \in stop[<<n, o>>].todo
    /\ \/ /\ stop[<<w, "request">>].at = "idle"
          /\ stop' = [stop EXCEPT ![<<n, o>>].todo = @ \ {w},
                                  ![<<w, "request">>].at = "asked"]
       \/ /\ Lossy
          /\ stop' = [stop EXCEPT ![<<n, o>>].todo = @ \ {w}]
    /\ UNCHANGED <<node, workers, launch, rank, overtaken>>

(* The process the role table knows is waited for, then killed.            *)
StopReaps(n, o) ==
    /\ stop[<<n, o>>].at = "telling"
    /\ stop[<<n, o>>].todo = {}
    /\ running' = IF n \in known THEN running \ {n} ELSE running
    /\ StopMoves(<<n, o>>, "reaped")
    /\ UNCHANGED <<registered, instance, current, known, reserved, journal,
                   workers, launch, rank, overtaken>>

(* Everything this machine held of the instance is given back.             *)
StopEnds(n, o) ==
    /\ stop[<<n, o>>].at = "reaped"
    /\ reserved' = reserved \ {n}
    /\ workers' = IF n = Coordinator THEN {} ELSE workers
    /\ known' = known \ {n}
    /\ journal' = journal \ {n}
    /\ Attempt(n, "stopped")
    /\ StopMoves(<<n, o>>, "idle")
    /\ UNCHANGED <<registered, current, running, launch, rank, overtaken>>

-----------------------------------------------------------------------------
(* The processes, the polls that observe them, and the requests.           *)

ProcessExits(n) ==
    /\ n \in running
    /\ running' = running \ {n}
    /\ UNCHANGED <<registered, instance, current, known, reserved, journal,
                   workers, launch, rank, stop, overtaken>>

(* get_instance changes the record when the poll shows something new.      *)
Poll(n) ==
    /\ Observe(n)
    /\ UNCHANGED <<registered, current, known, reserved, running, journal,
                   workers, launch, rank, stop, overtaken>>

(* instance_quorum: every rank is up, and the walk to READY is made.       *)
QuorumFound ==
    /\ workers = Worker
    /\ Node \subseteq running
    /\ instance[Coordinator].state \in
          {"loading_metadata", "materializing_weights", "compiling_warming"}
    /\ instance' = [instance EXCEPT ![Coordinator].state = "ready"]
    /\ UNCHANGED <<registered, current, known, reserved, running, journal,
                   workers, launch, rank, stop, overtaken>>

(* One request at a time is enough to make a stop be refused.              *)
RequestBegins ==
    /\ CanAcquireLease(instance[Coordinator])
    /\ instance[Coordinator].active = 0
    /\ instance' = [instance EXCEPT ![Coordinator] = LeaseAcquired(@)]
    /\ UNCHANGED <<registered, current, known, reserved, running, journal,
                   workers, launch, rank, stop, overtaken>>

RequestEnds ==
    /\ CanReleaseLease(instance[Coordinator])
    /\ instance' = [instance EXCEPT ![Coordinator] = LeaseReleased(@)]
    /\ UNCHANGED <<registered, current, known, reserved, running, journal,
                   workers, launch, rank, stop, overtaken>>

-----------------------------------------------------------------------------
LaunchStep ==
    \/ LaunchRefused \/ LaunchAdmitted \/ LaunchPrepares
    \/ LaunchSpawns \/ LaunchSpawnFails \/ LaunchPortFails \/ LaunchChecks
    \/ LaunchCancelled \/ LaunchCompletes \/ RollbackEnds
    \/ \E w \in Worker : \/ LaunchPosts(w) \/ LaunchCollects(w)
                         \/ LaunchPostFails(w) \/ RollbackTells(w)

RankStep(w) ==
    \/ RankSpawns(w) \/ RankSpawnFails(w)
    \/ RankConnects(w) \/ RankFails(w) \/ RankAnswers(w)

StopStep(n, o) ==
    \/ StopUnloads(n, o) \/ StopRefused(n, o) \/ StopFansOut(n, o)
    \/ \E w \in Worker : StopTells(n, o, w)
    \/ StopReaps(n, o) \/ StopEnds(n, o)

Next ==
    \/ LaunchCreates \/ LaunchStep
    \/ \E w \in Worker : RankPrepares(w) \/ RankRefused(w) \/ RankStep(w)
    \/ ClientStops
    \/ \E n \in Node :
          \/ n \in Lapsing /\ LeaseExpires(n)
          \/ \E o \in Origin : StopBegins(n, o) \/ StopStep(n, o)
          \/ ProcessExits(n) \/ Poll(n)
    \/ QuorumFound \/ RequestBegins \/ RequestEnds

Spec == Init /\ [][Next]_vars

(* Threads run.  A lease runs out where nobody renews it: the client       *)
(* renews through the coordinator, and gives up one that has ended.        *)
Ended == /\ Coordinator \in registered
         /\ instance[Coordinator].state \in {"stopped", "failed"}

LeaseOfOrphanExpires(w) == Ended /\ LeaseExpires(w)

Fairness ==
    /\ \A w \in Worker : WF_vars(RankStep(w))
    /\ \A w \in Worker \cap Lapsing : /\ WF_vars(LeaseOfOrphanExpires(w))
                                      /\ WF_vars(StopBegins(w, "lease"))
    /\ \A n \in Node, o \in Origin : WF_vars(StopStep(n, o))

FairSpec == Spec /\ Fairness

-----------------------------------------------------------------------------
(* Every variable has its type.                                            *)
TypeOK ==
    /\ registered \subseteq Node
    /\ instance \in [Node -> InstanceRecord]
    /\ current \subseteq Node
    /\ known \subseteq Node
    /\ reserved \subseteq Node
    /\ running \subseteq Node
    /\ journal \subseteq Node
    /\ workers \subseteq Worker
    /\ launch \in [at : LaunchPlace, todo : SUBSET Worker,
                   started : SUBSET Worker]
    /\ rank \in [Worker -> RankPlace]
    /\ stop \in [Node \X Origin -> [at : StopPlace, todo : SUBSET Worker]]
    /\ overtaken \in BOOLEAN

(* A handler of the instance is at work on this machine.                   *)
Handled(n) ==
    \/ \E o \in Origin : stop[<<n, o>>].at # "idle"
    \/ n = Coordinator /\ launch.at \notin {"idle", "over"}
    \/ n \in Worker /\ rank[n] \notin {"idle", "asked", "accepted", "refused"}

(* A stop that found the launch's admission unfinished is a known race.    *)
Accountable(n) == ~Handled(n) /\ ~(n = Coordinator /\ overtaken)

(* However launch, stop, lease and failures interleave: once the handlers  *)
(* are done, a stopped instance has left no process, no reservation and no *)
(* journal behind on this machine, unless the stop overtook the launch.    *)
StoppedLeavesNothing ==
    \A n \in Node :
        Accountable(n) /\ instance[n].state = "stopped"
            => n \notin running \cup reserved \cup journal

(* No rank process runs outside the books: once the handlers are done, a   *)
(* live process has a record to stop it by, and its memory is reserved.    *)
RunningIsReserved ==
    \A n \in Node :
        Accountable(n) /\ n \in running => n \in registered \cap reserved

(* The lease is the backstop: whatever posts were lost and whichever       *)
(* handler died, once the coordinator's instance has ended a worker gives  *)
(* its reservation back, unless its own record says it has failed.         *)
OrphanedRanksEnd ==
    \A w \in Worker \cap Lapsing :
        Ended /\ w \in reserved
            ~> w \notin reserved \/ instance[w].state = "failed"

(* docs/http-node-agent.md:30: a stop of the instance "unloads only that   *)
(* process group", started on the coordinator and on each worker (line 20  *)
(* and following): when it is done and no post was lost, no rank runs.     *)
StopReachesEveryRank ==
    instance[Coordinator].state = "stopped"
        /\ (\A n \in Node : ~Handled(n))
        /\ (\A w \in Worker : rank[w] # "asked")
            => running = {}
=============================================================================
