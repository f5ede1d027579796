---------------------------- MODULE GatewayRouting ----------------------------
(***************************************************************************)
(* How the chat gateway of an agent finds an instance for a request        *)
(* (node_agent/agent.py, parse_route_request to the loop of                *)
(* gateway_chat_completions; InstanceRouter of control/instances.py):      *)
(* sessions with sticky models, allow lists, the decision of AutoRouter,   *)
(* the choice among the replicas of a key, and what is tried next when a   *)
(* runtime cannot be opened.                                               *)
(*                                                                         *)
(* Handlers of requests are coroutines of one event loop: from the arrival *)
(* to the wait for a generation slot, and from a failed open to the next   *)
(* such wait, no other coroutine runs.  Launches, stops and health polls   *)
(* are threads and come in between any two steps.  The slot, the lease and *)
(* the stream, whose protocol Gateway has, are one step each here.         *)
(***************************************************************************)
EXTENDS AutoRouter

CONSTANTS Fleet,       \* the key of every instance that may ever be there
          Requests,
          Asks,        \* what a request may ask for
          Sessions,    \* session ids; 0 stands for a request without one
          NoAsk,
          Late, Mortal, Polled   \* bounds: the instances launched or stopped meanwhile,
                                 \* and those whose health clients poll

Instances == DOMAIN Fleet
NoKey == <<0, 0>>
CursorKeys == Keys \cup {<<m, 0>> : m \in Models}

\* The instances of a model, or of a key.
Offers(want) == {i \in Instances : Fleet[i][1] = want[1] /\ (want[2] # 0 => Fleet[i] = want)}

AskFields == [kind : {"auto", "alias", "exact"}, target : Nat, session : Sessions \cup {0},
              limited : BOOLEAN, allowed : SUBSET Instances]

ASSUME RoutingAssumption ==
  /\ Instances \subseteq Nat \ {0} /\ IsFiniteSet(Instances)
  /\ Fleet \in [Instances -> Keys]
  /\ 0 \notin Sessions /\ NoAsk \notin Asks
  /\ \A ask \in Asks :
       [kind |-> ask.kind, target |-> ask.target, session |-> ask.session,
        limited |-> ask.limited, allowed |-> ask.allowed] \in AskFields

VARIABLES
  life,      \* of an instance: "absent", "loading", "ready" (READY or BUSY), "gone"
  sick,      \* the instances whose health_ready is False
  routes,    \* session_routes: the key a session was last served by
  cursor,    \* InstanceRouter._cursor
  place,     \* where the coroutine of a request is
  ask,       \* what it asks for
  seen,      \* the route of its session when it was parsed
  barred,    \* excluded_instance_ids
  left,      \* the candidate targets still to be tried
  rank,      \* and their order
  at,        \* selected
  tried      \* attempted_instances

fleetVars == <<life, sick>>
vars == <<life, sick, routes, cursor, place, ask, seen, barred, left, rank, at, tried>>

Synchronous == {"parsed", "decided", "choosing"}
Places == Synchronous \cup {"new", "queued", "granted", "opening", "served", "done"}

RoutingTypeOK ==
  /\ life \in [Instances -> {"absent", "loading", "ready", "gone"}]
  /\ sick \subseteq Instances
  /\ routes \in [Sessions -> Keys \cup {NoKey}]
  /\ cursor \in [CursorKeys -> Nat]
  /\ \A c \in CursorKeys : cursor[c] = 0 \/ cursor[c] < Cardinality(Offers(c))
  /\ place \in [Requests -> Places]
  /\ ask \in [Requests -> Asks \cup {NoAsk}]
  /\ seen \in [Requests -> Keys \cup {NoKey}]
  /\ barred \in [Requests -> SUBSET Instances]
  /\ left \in [Requests -> SUBSET Keys]
  /\ rank \in [Requests -> [Keys -> Nat]]
  /\ at \in [Requests -> Instances \cup {0}]
  /\ tried \in [Requests -> SUBSET Instances]

-----------------------------------------------------------------------------
Automatic(r) == ask[r].kind = "auto"
Exact(r) == ask[r].kind = "exact"
Registered(i) == life[i] # "absent"
Selectable(i) == life[i] = "ready" /\ i \notin sick

Queued(i) == Cardinality({r \in Requests : place[r] = "queued" /\ at[r] = i})
Active(i) == Cardinality({r \in Requests : place[r] \in {"opening", "served"} /\ at[r] = i})

\* The coroutine of r may run: no other one is between two awaits.
LoopIs(r) == \A q \in Requests \ {r} : place[q] \notin Synchronous

Goto(r, p) == place' = [place EXCEPT ![r] = p]

-----------------------------------------------------------------------------
(* InstanceRouter.resolve: among the instances of a model, or of a key,    *)
(* the least loaded, in turn.                                              *)

Candidates(want, out) == {i \in Offers(want) \ out : Selectable(i)}

Lighter(i, j) ==
  LET total(x) == Active(x) + Queued(x)
  IN  total(i) < total(j) \/ (total(i) = total(j) /\ Queued(i) < Queued(j))

LeastLoaded(set) == {i \in set : \A j \in set : ~Lighter(j, i)}

(* Broken variant: the cursor is not taken modulo the number of candidates.*)
ResolveUnwrapped(want, out, i) ==
  LET best == LeastLoaded(Candidates(want, out))
      n == Cardinality(best)
  IN  /\ i \in best
      /\ Cardinality({j \in best : j < i}) = cursor[want] % n
      /\ cursor' = [cursor EXCEPT ![want] = @ + 1]

Resolve(want, out, i) ==
  LET best == LeastLoaded(Candidates(want, out))
      n == Cardinality(best)
  IN  /\ i \in best
      /\ Cardinality({j \in best : j < i}) = cursor[want] % n
      /\ cursor' = [cursor EXCEPT ![want] = ((@ % n) + 1) % n]

-----------------------------------------------------------------------------
(* What routing_inputs knows of the registry.                              *)

Listed(r) == {i \in Instances : Registered(i) /\ (ask[r].limited => i \in ask[r].allowed)}
ListedKeys(r) == {Fleet[i] : i \in Listed(r)}

\* The instance whose load stands for the key: the least busy of those that
\* can be routed to, or of all.
Representatives(r, k) ==
  LET all == {i \in Listed(r) : Fleet[i] = k}
      routable == {i \in all : Selectable(i)}
      source == IF routable # {} THEN routable ELSE all
      total(x) == Active(x) + Queued(x)
  IN  {i \in source : \A j \in source \ {i} : total(i) < total(j) \/ (total(i) = total(j) /\ i < j)}

\* The age of the health sample and the last error of the representative
\* are open: how says whether they tell against it.
RuntimeState(r, how) ==
  [k \in ListedKeys(r) |->
     LET best == CHOOSE i \in Representatives(r, k) : TRUE
     IN  [routable |-> Selectable(best) /\ how[k] # "stale",
          queued |-> Queued(best), active |-> Active(best), failed |-> how[k] = "failed"]]

-----------------------------------------------------------------------------
Init ==
  /\ life = [i \in Instances |-> IF i \in Late THEN "absent" ELSE "ready"]
  /\ sick = {}
  /\ routes = [s \in Sessions |-> NoKey]
  /\ cursor = [c \in CursorKeys |-> 0]
  /\ place = [r \in Requests |-> "new"]
  /\ ask = [r \in Requests |-> NoAsk]
  /\ seen = [r \in Requests |-> NoKey]
  /\ barred = [r \in Requests |-> {}]
  /\ left = [r \in Requests |-> {}]
  /\ rank = [r \in Requests |-> [k \in Keys |-> 0]]
  /\ at = [r \in Requests |-> 0]
  /\ tried = [r \in Requests |-> {}]

-----------------------------------------------------------------------------
(* The threads of launches, stops and health polls.                        *)

Create(i) ==
  /\ life[i] = "absent" /\ life' = [life EXCEPT ![i] = "loading"]
  /\ UNCHANGED <<sick, routes, cursor, place, ask, seen, barred, left, rank, at, tried>>

Loaded(i) ==
  /\ life[i] = "loading" /\ life' = [life EXCEPT ![i] = "ready"]
  /\ UNCHANGED <<sick, routes, cursor, place, ask, seen, barred, left, rank, at, tried>>

\* A stop, or a process that ended.
Down(i) ==
  /\ i \in Mortal /\ life[i] \in {"loading", "ready"} /\ life' = [life EXCEPT ![i] = "gone"]
  /\ UNCHANGED <<sick, routes, cursor, place, ask, seen, barred, left, rank, at, tried>>

\* instance_quorum, asked for by a client of the agent.
Sample(i) ==
  /\ i \in Polled /\ life[i] = "ready"
  /\ sick' \in {sick \cup {i}, sick \ {i}}
  /\ UNCHANGED <<life, routes, cursor, place, ask, seen, barred, left, rank, at, tried>>

-----------------------------------------------------------------------------
(* A request up to its first instance.                                     *)

\* refresh_gateway_candidates samples the health of every registered
\* instance that may be asked for.
Refresh(a) ==
  LET wanted == {i \in Instances : /\ Registered(i)
                                   /\ a.kind = "alias" => Fleet[i][1] = a.target
                                   /\ a.kind = "exact" => i = a.target}
  IN  \E bad \in SUBSET wanted : sick' = (sick \ wanted) \cup bad

\* excluded_instance_ids_for_route
Excluded(a) ==
  IF a.kind = "auto" /\ a.limited
  THEN {i \in Instances : Registered(i) /\ i \notin a.allowed} ELSE {}

\* parse_route_request and the first part of decide_route.  Threads may come
\* between the parts, but whatever they do there they may do before or after.
Arrive(r) ==
  /\ place[r] = "new" /\ LoopIs(r)
  /\ \E a \in Asks :
       /\ ask' = [ask EXCEPT ![r] = a]
       /\ seen' = [seen EXCEPT ![r] = IF a.session = 0 THEN NoKey ELSE routes[a.session]]
       /\ Refresh(a)
       /\ barred' = [barred EXCEPT ![r] = Excluded(a)]
  /\ Goto(r, "parsed")
  /\ UNCHANGED <<life, routes, cursor, left, rank, at, tried>>

\* The handler answers or fails, and its locals are gone.
Answer(r) ==
  /\ Goto(r, "done")
  /\ ask' = [ask EXCEPT ![r] = NoAsk]
  /\ seen' = [seen EXCEPT ![r] = NoKey]
  /\ barred' = [barred EXCEPT ![r] = {}]
  /\ left' = [left EXCEPT ![r] = {}]
  /\ rank' = [rank EXCEPT ![r] = [k \in Keys |-> 0]]
  /\ at' = [at EXCEPT ![r] = 0]
  /\ tried' = [tried EXCEPT ![r] = {}]

\* The decision of AutoRouter, and the targets that follow from it; with no
\* eligible key the answer is 409.
Decide(r) ==
  /\ place[r] = "parsed" /\ Automatic(r)
  /\ \E how \in [ListedKeys(r) -> {"fine", "stale", "failed"}] :
       LET load == RuntimeState(r, how)
           ctx == Context(ask[r], seen[r])
           keys == Eligible(ListedKeys(r), ctx, load)
           score == [k \in ListedKeys(r) |-> Score(k, ctx, load)]
       IN  \/ keys = {} /\ Answer(r)
           \/ /\ Goto(r, "decided")
              /\ \E chosen \in Choice(ctx, ListedKeys(r), score, keys) :
                   /\ left' = [left EXCEPT ![r] =
                                 Targets(chosen, ctx, ListedKeys(r), score, keys)]
                   /\ rank' = [rank EXCEPT ![r] =
                                 TargetRank(chosen, ctx, ListedKeys(r), score, keys)]
              /\ UNCHANGED <<ask, seen, barred, at, tried>>
  /\ UNCHANGED <<fleetVars, routes, cursor>>

Select(r, i) ==
  /\ at' = [at EXCEPT ![r] = i]
  /\ tried' = [tried EXCEPT ![r] = @ \cup {i}]
  /\ Goto(r, "queued")

\* The target whose turn it is.
Current(r, k) == k \in left[r] /\ \A j \in left[r] : rank[r][k] <= rank[r][j]

\* The first instance of the chosen key.
Pick(r) ==
  /\ place[r] = "decided"
  /\ \E k \in left[r], i \in Instances :
       Current(r, k) /\ Resolve(k, barred[r], i) /\ Select(r, i)
  /\ UNCHANGED <<fleetVars, routes, ask, seen, barred, left, rank>>

\* A request for a model or an instance by its name: the only target is the
\* key of the instance found.
PickNamed(r) ==
  /\ place[r] = "parsed" /\ ~Automatic(r)
  /\ \E i \in Instances :
       /\ IF Exact(r) THEN Selectable(i) /\ i = ask[r].target /\ UNCHANGED cursor
          ELSE <<ask[r].target, 0>> \in CursorKeys /\ Resolve(<<ask[r].target, 0>>, {}, i)
       /\ Select(r, i)
       /\ left' = [left EXCEPT ![r] = {Fleet[i]}]
  /\ UNCHANGED <<fleetVars, routes, ask, seen, barred, rank>>

\* 409: no instance is ready any more.
Refuse(r) ==
  /\ \/ /\ place[r] = "decided"
        /\ \E k \in left[r] : Current(r, k) /\ Candidates(k, barred[r]) = {}
     \/ /\ place[r] = "parsed" /\ ~Automatic(r)
        /\ IF Exact(r) THEN \A i \in Instances : i = ask[r].target => ~Selectable(i)
           ELSE Candidates(<<ask[r].target, 0>>, {}) = {}
  /\ Answer(r)
  /\ UNCHANGED <<fleetVars, routes, cursor>>

-----------------------------------------------------------------------------
(* The slot, the lease and the open.                                       *)

Grant(r) ==
  /\ place[r] = "queued"
  /\ \A q \in Requests : at[q] = at[r] => place[q] \notin {"granted", "opening", "served"}
  /\ Goto(r, "granted")
  /\ UNCHANGED <<fleetVars, routes, cursor, ask, seen, barred, left, rank, at, tried>>

\* The queue is full, the wait too long, the client gone (429, 499), or the
\* instance stopped before the request could be queued.
NoSlot(r) ==
  /\ place[r] = "queued" /\ LoopIs(r)
  /\ Answer(r)
  /\ UNCHANGED <<fleetVars, routes, cursor>>

\* An instance that stopped meanwhile leases nothing: 409, and no other
\* candidate is tried.
Lease(r) ==
  /\ place[r] = "granted" /\ LoopIs(r)
  /\ IF life[at[r]] = "ready"
     THEN Goto(r, "opening") /\ UNCHANGED <<ask, seen, barred, left, rank, at, tried>>
     ELSE Answer(r)
  /\ UNCHANGED <<fleetVars, routes, cursor>>

Open(r) ==
  /\ place[r] = "opening" /\ LoopIs(r)
  /\ Goto(r, "served")
  /\ routes' = IF ask[r].session = 0 THEN routes
               ELSE [routes EXCEPT ![ask[r].session] = Fleet[at[r]]]
  /\ UNCHANGED <<fleetVars, cursor, ask, seen, barred, left, rank, at, tried>>

OpenFails(r) ==
  /\ place[r] = "opening" /\ LoopIs(r)
  /\ sick' = sick \cup {at[r]}
  /\ IF Exact(r) THEN Answer(r)
     ELSE Goto(r, "choosing") /\ UNCHANGED <<ask, seen, barred, left, rank, at, tried>>
  /\ UNCHANGED <<life, routes, cursor>>

Disconnect(r) ==
  /\ place[r] = "opening" /\ LoopIs(r)
  /\ Answer(r)
  /\ UNCHANGED <<fleetVars, routes, cursor>>

(* Broken variant: what was tried before is not excluded.                  *)
RepickAny(r) ==
  /\ place[r] = "choosing"
  /\ \E k \in left[r], i \in Instances :
       Current(r, k) /\ Resolve(k, barred[r], i) /\ Select(r, i)
  /\ UNCHANGED <<fleetVars, routes, ask, seen, barred, left, rank>>

\* After a failure: another instance of the current target.
Repick(r) ==
  /\ place[r] = "choosing"
  /\ \E k \in left[r], i \in Instances :
       Current(r, k) /\ Resolve(k, tried[r] \cup barred[r], i) /\ Select(r, i)
  /\ UNCHANGED <<fleetVars, routes, ask, seen, barred, left, rank>>

\* It has none left: on to the next target.
NextTarget(r) ==
  /\ place[r] = "choosing"
  /\ \E k \in left[r] :
       /\ Current(r, k) /\ Candidates(k, tried[r] \cup barred[r]) = {}
       /\ left' = [left EXCEPT ![r] = @ \ {k}]
  /\ UNCHANGED <<fleetVars, routes, cursor, place, ask, seen, barred, rank, at, tried>>

\* 502: every target failed.
GiveUp(r) ==
  /\ place[r] = "choosing" /\ left[r] = {}
  /\ Answer(r)
  /\ UNCHANGED <<fleetVars, routes, cursor>>

\* The response ends.
Finish(r) ==
  /\ place[r] = "served"
  /\ Answer(r)
  /\ UNCHANGED <<fleetVars, routes, cursor>>

-----------------------------------------------------------------------------
Routing(r) ==
  \/ Decide(r) \/ Pick(r) \/ PickNamed(r) \/ Refuse(r)
  \/ Repick(r) \/ NextTarget(r) \/ GiveUp(r)

Serving(r) ==
  \/ Grant(r) \/ NoSlot(r) \/ Lease(r) \/ Open(r) \/ OpenFails(r) \/ Disconnect(r) \/ Finish(r)

Threads == \E i \in Instances : Create(i) \/ Loaded(i) \/ Down(i) \/ Sample(i)

Next == Threads \/ \E r \in Requests : Arrive(r) \/ Routing(r) \/ Serving(r)

Spec == Init /\ [][Next]_vars

-----------------------------------------------------------------------------
(* Properties.                                                             *)

Honours(r) ==
  LET i == at[r]  k == Fleet[i] IN
  CASE Automatic(r) -> ~Unfit(k, Context(ask[r], seen[r])) /\ i \notin barred[r]
    [] ask[r].kind = "alias" -> k[1] = ask[r].target
    [] Exact(r) -> i = ask[r].target

(* Whatever fails over to whatever, and whichever instances come, go and   *)
(* change their health on the way: the instance that gets a request fits   *)
(* the constraints and the lock of the request as it was parsed, and was   *)
(* not on its list of excluded instances; a request by name gets what it   *)
(* named (decide_route, fallback_targets and the loop of                   *)
(* gateway_chat_completions).                                              *)
ServedAsConstrained ==
  \A r \in Requests : place[r] \in {"queued", "granted", "opening", "served"} => Honours(r)

AskedAnew ==
  \A r \in Requests : place'[r] = "queued" /\ place[r] # "queued" => at'[r] \notin tried[r]

(* A request asks no instance twice, although the health of one that       *)
(* failed it may be found good again and targets overlap: so every         *)
(* fail-over ends, after at most as many opens as there are instances.     *)
(* (attempted_instances of gateway_chat_completions.)                      *)
NoInstanceTwice == [][AskedAnew]_vars

(* The instance that serves an automatic request with an allow list is on  *)
(* that list.  Violated: the list is turned into the instances to exclude  *)
(* before the decision, and an instance created after that is not one.     *)
WithinAllowed ==
  \A r \in Requests :
    place[r] = "served" /\ Automatic(r) /\ ask[r].limited => at[r] \in ask[r].allowed
=============================================================================
