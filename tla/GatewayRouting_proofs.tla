------------------------ MODULE GatewayRouting_proofs ------------------------
(***************************************************************************)
(* Proofs about GatewayRouting: whatever fails over to whatever, a request *)
(* gets an instance it may have, and none twice.                           *)
(***************************************************************************)
EXTENDS GatewayRouting, FiniteSetTheorems, TLAPS

Fits(a, s, k) ==
  /\ a.kind = "auto" => ~Unfit(k, Context(a, s))
  /\ a.kind = "alias" => k[1] = a.target

Routed == {"queued", "granted", "opening", "served"}

(* What is known of a request at each of its places.                       *)
Good(r) ==
  /\ place[r] \in {"new", "parsed", "decided"} => tried[r] = {}
  /\ place[r] \notin {"new", "done"} => ask[r] \in Asks
  /\ place[r] \in Routed \cup {"decided", "choosing"} =>
       \A k \in left[r] : Fits(ask[r], seen[r], k)
  /\ place[r] \in {"decided", "choosing"} => ~Exact(r)
  /\ place[r] \in Routed =>
       /\ at[r] \in Instances
       /\ Fits(ask[r], seen[r], Fleet[at[r]])
       /\ Automatic(r) => at[r] \notin barred[r]
       /\ Exact(r) => at[r] = ask[r].target

AllGood == \A r \in Requests : Good(r)

-----------------------------------------------------------------------------
(* The decision: what is chosen, and what follows it, is eligible.         *)

LEMMA ChoiceEligible ==
  ASSUME NEW ctx, NEW candidates, NEW score, NEW keys
  PROVE  Choice(ctx, candidates, score, keys) \subseteq keys
<1>1. ASSUME NEW S PROVE Leading(score, S) \subseteq S
  BY DEF Leading
<1>2. ASSUME NEW model PROVE BestOf(score, keys, model) \subseteq keys
  BY <1>1 DEF BestOf
<1>3. Sticky(ctx, score, keys) \subseteq keys
  BY <1>2 DEF Sticky
<1>4. Defaults(ctx.ask, candidates, score, keys) \subseteq keys
  BY <1>2 DEF Defaults
<1> QED BY <1>1, <1>3, <1>4 DEF Choice

LEMMA TargetsEligible ==
  ASSUME NEW ctx, NEW candidates, NEW score, NEW keys,
         NEW chosen \in Choice(ctx, candidates, score, keys)
  PROVE  Targets(chosen, ctx, candidates, score, keys) \subseteq keys
<1>1. chosen \in keys
  BY ChoiceEligible
<1>2. Capable(chosen, ctx, candidates, keys) \subseteq keys
  BY DEF Capable
<1>3. Defaults(ctx.ask, candidates, score, keys) \subseteq keys
  BY DEF Defaults, BestOf, Leading
<1> QED BY <1>1, <1>2, <1>3 DEF Targets

LEMMA ListedFinite ==
  ASSUME NEW r \in Requests
  PROVE  ListedKeys(r) \subseteq Keys /\ IsFiniteSet(ListedKeys(r))
<1> DEFINE key == [i \in Listed(r) |-> Fleet[i]]
<1>1. IsFiniteSet(Listed(r)) /\ Listed(r) \subseteq Instances
  BY RoutingAssumption, FS_Subset DEF Listed
<1>2. key \in Surjection(Listed(r), ListedKeys(r))
  BY DEF Surjection, ListedKeys
<1>3. IsFiniteSet(ListedKeys(r))
  BY <1>1, <1>2, FS_Surjection
<1> QED BY <1>1, <1>3, RoutingAssumption DEF ListedKeys

LEMMA RankTyped ==
  ASSUME NEW chosen, NEW ctx, NEW candidates, NEW score, NEW keys, IsFiniteSet(keys)
  PROVE  TargetRank(chosen, ctx, candidates, score, keys) \in [Keys -> Nat]
<1>1. ASSUME NEW k PROVE Cardinality({j \in keys : Ahead(score, j, k)}) \in Nat
  <2>1. {j \in keys : Ahead(score, j, k)} \subseteq keys
    OBVIOUS
  <2> QED BY <2>1, FS_Subset, FS_CardinalityType
<1>2. Cardinality(keys) \in Nat
  BY FS_CardinalityType
<1> QED BY <1>1, <1>2 DEF TargetRank

(* A replica that the router picks is one of those offered, and none that  *)
(* it was to leave out.                                                    *)
LEMMA Resolved ==
  ASSUME NEW want, NEW out, NEW i \in Instances, Resolve(want, out, i)
  PROVE  Fleet[i][1] = want[1] /\ (want[2] # 0 => Fleet[i] = want) /\ i \notin out
BY DEF Resolve, LeastLoaded, Candidates, Offers

CursorTyped ==
  /\ cursor \in [CursorKeys -> Nat]
  /\ \A c \in CursorKeys : cursor[c] = 0 \/ cursor[c] < Cardinality(Offers(c))

LEMMA ResolveTyped ==
  ASSUME CursorTyped, NEW want \in CursorKeys, NEW out, NEW i \in Instances,
         Resolve(want, out, i)
  PROVE  CursorTyped'
<1> DEFINE best == LeastLoaded(Candidates(want, out))
<1> DEFINE n == Cardinality(best)
<1>1. IsFiniteSet(Offers(want))
  BY RoutingAssumption, FS_Subset DEF Offers
<1>2. best \subseteq Offers(want)
  BY DEF LeastLoaded, Candidates
<1>3. IsFiniteSet(best) /\ n <= Cardinality(Offers(want)) /\ n \in Nat
  BY <1>1, <1>2, FS_Subset, FS_CardinalityType
<1>4. Cardinality(Offers(want)) \in Nat
  BY <1>1, FS_CardinalityType
<1>5. best # {}
  BY DEF Resolve
<1>6. n # 0
  BY <1>3, <1>5, FS_EmptySet
<1>7. cursor[want] \in Nat
  BY DEF CursorTyped
<1> DEFINE next == ((cursor[want] % n) + 1) % n
<1>8. \A a, b \in Nat : b # 0 => (a % b) + 1 \in Nat /\ a % b \in Nat /\ a % b < b
  OBVIOUS
<1> HIDE DEF n
<1>9. next \in Nat /\ next < n
  BY <1>3, <1>6, <1>7, <1>8
<1>10. cursor' = [cursor EXCEPT ![want] = next]
  BY DEF Resolve, n, best
<1> HIDE DEF next
<1> QED BY <1>3, <1>4, <1>9, <1>10 DEF CursorTyped

-----------------------------------------------------------------------------
(* Types.                                                                  *)

RequestsTyped ==
  /\ place \in [Requests -> Places]
  /\ ask \in [Requests -> Asks \cup {NoAsk}]
  /\ seen \in [Requests -> Keys \cup {NoKey}]
  /\ barred \in [Requests -> SUBSET Instances]
  /\ left \in [Requests -> SUBSET Keys]
  /\ rank \in [Requests -> [Keys -> Nat]]
  /\ at \in [Requests -> Instances \cup {0}]
  /\ tried \in [Requests -> SUBSET Instances]

FleetTyped ==
  /\ life \in [Instances -> {"absent", "loading", "ready", "gone"}]
  /\ sick \subseteq Instances
  /\ routes \in [Sessions -> Keys \cup {NoKey}]

Typed == FleetTyped /\ CursorTyped /\ RequestsTyped

LEMMA AnswerTyped ==
  ASSUME RequestsTyped, NEW r \in Requests, Answer(r)
  PROVE  RequestsTyped'
BY DEF RequestsTyped, Answer, Goto, Places, Synchronous

LEMMA SelectTyped ==
  ASSUME RequestsTyped, NEW r \in Requests, NEW i \in Instances, Select(r, i)
  PROVE  /\ place' \in [Requests -> Places]
         /\ at' \in [Requests -> Instances \cup {0}]
         /\ tried' \in [Requests -> SUBSET Instances]
BY DEF RequestsTyped, Select, Goto, Places, Synchronous

LEMMA DecideTyped ==
  ASSUME Typed, NEW r \in Requests, Decide(r)
  PROVE  Typed'
<1>1. RequestsTyped'
  <2>1. CASE Answer(r)
    BY <2>1, AnswerTyped DEF Typed
  <2>2. CASE ~Answer(r)
    <3>1. PICK how \in [ListedKeys(r) -> {"fine", "stale", "failed"}] :
            LET load == RuntimeState(r, how)
                ctx == Context(ask[r], seen[r])
                keys == Eligible(ListedKeys(r), ctx, load)
                score == [k \in ListedKeys(r) |-> Score(k, ctx, load)]
            IN  /\ Goto(r, "decided")
                /\ \E chosen \in Choice(ctx, ListedKeys(r), score, keys) :
                     /\ left' = [left EXCEPT ![r] =
                                   Targets(chosen, ctx, ListedKeys(r), score, keys)]
                     /\ rank' = [rank EXCEPT ![r] =
                                   TargetRank(chosen, ctx, ListedKeys(r), score, keys)]
                /\ UNCHANGED <<ask, seen, barred, at, tried>>
      BY <2>2 DEF Decide
    <3> DEFINE ctx == Context(ask[r], seen[r])
    <3> DEFINE load == RuntimeState(r, how)
    <3> DEFINE keys == Eligible(ListedKeys(r), ctx, load)
    <3> DEFINE score == [k \in ListedKeys(r) |-> Score(k, ctx, load)]
    <3>2. PICK chosen \in Choice(ctx, ListedKeys(r), score, keys) :
            /\ left' = [left EXCEPT ![r] = Targets(chosen, ctx, ListedKeys(r), score, keys)]
            /\ rank' = [rank EXCEPT ![r] = TargetRank(chosen, ctx, ListedKeys(r), score, keys)]
      BY <3>1
    <3>3. keys \subseteq Keys /\ IsFiniteSet(keys)
      BY ListedFinite, FS_Subset DEF Eligible
    <3> HIDE DEF ctx, load, keys, score
    <3>4. Targets(chosen, ctx, ListedKeys(r), score, keys) \subseteq Keys
      BY <3>3, TargetsEligible
    <3>5. TargetRank(chosen, ctx, ListedKeys(r), score, keys) \in [Keys -> Nat]
      BY <3>3, RankTyped
    <3>6. Goto(r, "decided") /\ UNCHANGED <<ask, seen, barred, at, tried>>
      BY <3>1
    <3> QED BY <3>2, <3>4, <3>5, <3>6 DEF Typed, RequestsTyped, Goto, Places, Synchronous
  <2> QED BY <2>1, <2>2
<1>2. FleetTyped' /\ CursorTyped'
  BY DEF Typed, Decide, FleetTyped, CursorTyped, fleetVars
<1> QED BY <1>1, <1>2 DEF Typed

LEMMA TypesStep ==
  ASSUME Typed, AllGood, [Next]_vars
  PROVE  Typed'
<1> USE RoutingAssumption
<1>0. FleetTyped /\ CursorTyped /\ RequestsTyped
  BY DEF Typed
<1>1. CASE Threads
  BY <1>1, <1>0 DEF Typed, Threads, Create, Loaded, Down, Sample, FleetTyped, CursorTyped,
     RequestsTyped
<1>2. ASSUME NEW r \in Requests, Arrive(r) PROVE Typed'
  <2>1. PICK a \in Asks :
          /\ ask' = [ask EXCEPT ![r] = a]
          /\ seen' = [seen EXCEPT ![r] = IF a.session = 0 THEN NoKey ELSE routes[a.session]]
          /\ Refresh(a)
          /\ barred' = [barred EXCEPT ![r] = Excluded(a)]
    BY <1>2 DEF Arrive
  <2>2. a.session \in Sessions \cup {0}
    <3>1. [kind |-> a.kind, target |-> a.target, session |-> a.session,
           limited |-> a.limited, allowed |-> a.allowed] \in AskFields
      OBVIOUS
    <3> QED BY <3>1 DEF AskFields
  <2>3. sick' \subseteq Instances
    BY <2>1, <1>0 DEF Refresh, FleetTyped
  <2>4. Excluded(a) \subseteq Instances
    BY DEF Excluded
  <2>5. (IF a.session = 0 THEN NoKey ELSE routes[a.session]) \in Keys \cup {NoKey}
    BY <2>2, <1>0 DEF FleetTyped
  <2>6. RequestsTyped'
    BY <1>0, <1>2, <2>1, <2>4, <2>5 DEF RequestsTyped, Arrive, Goto, Places, Synchronous
  <2> QED BY <1>0, <1>2, <2>3, <2>6 DEF Typed, Arrive, FleetTyped, CursorTyped
<1>3. ASSUME NEW r \in Requests, Decide(r) PROVE Typed'
  BY <1>3, DecideTyped
<1>4. ASSUME NEW r \in Requests, Pick(r) \/ Repick(r) PROVE Typed'
  <2>1. PICK k \in left[r], i \in Instances, out \in {barred[r], tried[r] \cup barred[r]} :
          Resolve(k, out, i) /\ Select(r, i)
    BY <1>4 DEF Pick, Repick
  <2>2. k \in CursorKeys
    BY <1>0 DEF RequestsTyped, CursorKeys
  <2>3. CursorTyped'
    BY <1>0, <2>1, <2>2, ResolveTyped
  <2> QED BY <1>0, <1>4, <2>1, <2>3, SelectTyped
          DEF Typed, Pick, Repick, FleetTyped, RequestsTyped, fleetVars
<1>5. ASSUME NEW r \in Requests, PickNamed(r) PROVE Typed'
  <2>1. PICK i \in Instances :
          /\ \/ UNCHANGED cursor
             \/ /\ <<ask[r].target, 0>> \in CursorKeys
                /\ Resolve(<<ask[r].target, 0>>, {}, i)
          /\ Select(r, i)
          /\ left' = [left EXCEPT ![r] = {Fleet[i]}]
    BY <1>5 DEF PickNamed
  <2>2. CursorTyped'
    BY <1>0, <2>1, ResolveTyped DEF CursorTyped
  <2>3. Fleet[i] \in Keys
    OBVIOUS
  <2> QED BY <1>0, <1>5, <2>1, <2>2, <2>3, SelectTyped
          DEF Typed, PickNamed, FleetTyped, RequestsTyped, fleetVars
<1>6. ASSUME NEW r \in Requests,
             Refuse(r) \/ GiveUp(r) \/ NoSlot(r) \/ Disconnect(r) \/ Finish(r)
      PROVE  Typed'
  <2>1. Answer(r) /\ UNCHANGED <<life, sick, routes, cursor>>
    BY <1>6 DEF Refuse, GiveUp, NoSlot, Disconnect, Finish, fleetVars
  <2> QED BY <1>0, <2>1, AnswerTyped DEF Typed, FleetTyped, CursorTyped
<1>7. ASSUME NEW r \in Requests, NextTarget(r) PROVE Typed'
  BY <1>0, <1>7 DEF Typed, NextTarget, FleetTyped, CursorTyped, RequestsTyped, fleetVars
<1>8. ASSUME NEW r \in Requests, Grant(r) PROVE Typed'
  BY <1>0, <1>8 DEF Typed, Grant, Goto, Places, Synchronous, FleetTyped, CursorTyped,
     RequestsTyped, fleetVars
<1>9. ASSUME NEW r \in Requests, Lease(r) PROVE Typed'
  <2>1. RequestsTyped'
    BY <1>0, <1>9, AnswerTyped DEF Lease, Goto, Places, Synchronous, RequestsTyped
  <2> QED BY <1>0, <1>9, <2>1 DEF Typed, Lease, FleetTyped, CursorTyped, fleetVars
<1>10. ASSUME NEW r \in Requests, Open(r) PROVE Typed'
  <2>0. at[r] \in Instances
    BY <1>10 DEF AllGood, Good, Routed, Open
  <2>1. Fleet[at[r]] \in Keys
    BY <2>0
  <2>2. routes' \in [Sessions -> Keys \cup {NoKey}]
    BY <1>0, <1>10, <2>1 DEF Open, FleetTyped
  <2> QED BY <1>0, <1>10, <2>2 DEF Typed, Open, Goto, Places, Synchronous, FleetTyped,
          CursorTyped, RequestsTyped, fleetVars
<1>11. ASSUME NEW r \in Requests, OpenFails(r) PROVE Typed'
  <2>1. RequestsTyped'
    BY <1>0, <1>11, AnswerTyped DEF OpenFails, Goto, Places, Synchronous, RequestsTyped
  <2>2. at[r] \in Instances
    BY <1>11 DEF AllGood, Good, Routed, OpenFails
  <2> QED BY <1>0, <1>11, <2>1, <2>2 DEF Typed, OpenFails, FleetTyped, CursorTyped, RequestsTyped
<1>12. CASE UNCHANGED vars
  BY <1>0, <1>12 DEF Typed, vars, FleetTyped, CursorTyped, RequestsTyped
<1> QED BY <1>1, <1>2, <1>3, <1>4, <1>5, <1>6, <1>7, <1>8, <1>9, <1>10, <1>11, <1>12
        DEF Next, Routing, Serving

-----------------------------------------------------------------------------
(* What is known of the requests.                                          *)

Locals(q) == <<place[q], ask[q], seen[q], barred[q], left[q], at[q], tried[q]>>

LEMMA GoodKept ==
  ASSUME NEW q \in Requests, Good(q), UNCHANGED Locals(q)
  PROVE  Good(q)'
BY DEF Good, Locals, Automatic, Exact, Routed

(* A step of one request leaves the locals of the others alone.            *)
LEMMA OthersKept ==
  ASSUME RequestsTyped, NEW r \in Requests, Arrive(r) \/ Routing(r) \/ Serving(r),
         NEW q \in Requests, q # r
  PROVE  UNCHANGED Locals(q)
<1> USE DEF Locals, Answer, Goto, Select, RequestsTyped
<1>1. CASE Arrive(r)
  BY <1>1 DEF Arrive
<1>2. CASE Decide(r)
  BY <1>2 DEF Decide
<1>3. CASE Pick(r) \/ PickNamed(r) \/ Repick(r)
  BY <1>3 DEF Pick, PickNamed, Repick
<1>4. CASE Refuse(r) \/ NextTarget(r) \/ GiveUp(r)
  BY <1>4 DEF Refuse, NextTarget, GiveUp
<1>5. CASE Serving(r)
  BY <1>5 DEF Serving, Grant, NoSlot, Lease, Open, OpenFails, Disconnect, Finish
<1> QED BY <1>1, <1>2, <1>3, <1>4, <1>5 DEF Routing

LEMMA AnswerGood ==
  ASSUME RequestsTyped, NEW r \in Requests, Answer(r)
  PROVE  Good(r)'
BY DEF RequestsTyped, Answer, Goto, Good, Routed

LEMMA DecideGood ==
  ASSUME RequestsTyped, NEW r \in Requests, Good(r), Decide(r)
  PROVE  Good(r)'
<1>1. CASE Answer(r)
  BY <1>1, AnswerGood
<1>2. CASE ~Answer(r)
  <2>1. PICK how \in [ListedKeys(r) -> {"fine", "stale", "failed"}] :
          LET load == RuntimeState(r, how)
              ctx == Context(ask[r], seen[r])
              keys == Eligible(ListedKeys(r), ctx, load)
              score == [k \in ListedKeys(r) |-> Score(k, ctx, load)]
          IN  /\ Goto(r, "decided")
              /\ \E chosen \in Choice(ctx, ListedKeys(r), score, keys) :
                   left' = [left EXCEPT ![r] =
                              Targets(chosen, ctx, ListedKeys(r), score, keys)]
              /\ UNCHANGED <<ask, seen, barred, at, tried>>
    BY <1>2 DEF Decide
  <2> DEFINE ctx == Context(ask[r], seen[r])
  <2> DEFINE load == RuntimeState(r, how)
  <2> DEFINE keys == Eligible(ListedKeys(r), ctx, load)
  <2> DEFINE score == [k \in ListedKeys(r) |-> Score(k, ctx, load)]
  <2>2. PICK chosen \in Choice(ctx, ListedKeys(r), score, keys) :
          left' = [left EXCEPT ![r] = Targets(chosen, ctx, ListedKeys(r), score, keys)]
    BY <2>1
  <2>3. \A k \in keys : ~Unfit(k, ctx)
    BY DEF Eligible
  <2> HIDE DEF ctx, load, keys, score
  <2>4. \A k \in left'[r] : ~Unfit(k, ctx)
    BY <2>2, <2>3, TargetsEligible DEF RequestsTyped
  <2>5. \A k \in left'[r] : Fits(ask[r], seen[r], k)
    <3>1. ask[r].kind = "auto"
      BY DEF Decide, Automatic
    <3> QED BY <2>4, <3>1 DEF Fits, ctx
  <2>6. Goto(r, "decided") /\ UNCHANGED <<ask, seen, barred, at, tried>>
    BY <2>1
  <2>7. place[r] = "parsed"
    BY DEF Decide
  <2>8. ~Exact(r)
    BY DEF Decide, Automatic, Exact
  <2> QED BY <2>5, <2>6, <2>7, <2>8 DEF Good, Routed, Goto, RequestsTyped, Exact
<1> QED BY <1>1, <1>2

(* An instance that the router picks for a target fits as the target does. *)
LEMMA PickedGood ==
  ASSUME RequestsTyped, NEW r \in Requests, Good(r), Pick(r) \/ Repick(r)
  PROVE  Good(r)'
<1> USE RoutingAssumption
<1>1. PICK k \in left[r], i \in Instances, out \in {barred[r], tried[r] \cup barred[r]} :
        Resolve(k, out, i) /\ Select(r, i)
  BY DEF Pick, Repick
<1>2. k \in Keys /\ k[2] # 0
  BY CatalogAssumption DEF RequestsTyped
<1>3. Fleet[i] = k /\ i \notin barred[r]
  <2>1. (k[2] # 0 => Fleet[i] = k) /\ i \notin out
    BY <1>1, Resolved
  <2> QED BY <1>1, <1>2, <2>1
<1>4. place[r] \in {"decided", "choosing"}
  BY DEF Pick, Repick
<1>5. Fits(ask[r], seen[r], Fleet[i]) /\ ask[r] \in Asks
  BY <1>3, <1>4 DEF Good
<1>6. UNCHANGED <<ask, seen, barred, left>>
  BY DEF Pick, Repick
<1>7. place'[r] = "queued" /\ at'[r] = i
  BY <1>1 DEF Select, Goto, RequestsTyped
<1>8. ~Exact(r)
  BY <1>4 DEF Good
<1> QED BY <1>3, <1>4, <1>5, <1>6, <1>7, <1>8 DEF Good, Routed, Automatic, Exact

LEMMA PickedNamedGood ==
  ASSUME RequestsTyped, NEW r \in Requests, Good(r), PickNamed(r)
  PROVE  Good(r)'
<1> USE RoutingAssumption
<1>1. PICK i \in Instances :
        /\ IF Exact(r) THEN i = ask[r].target
           ELSE Resolve(<<ask[r].target, 0>>, {}, i)
        /\ Select(r, i)
        /\ left' = [left EXCEPT ![r] = {Fleet[i]}]
  BY DEF PickNamed
<1>2. ask[r] \in Asks /\ ~Automatic(r)
  BY DEF PickNamed, Good
<1>3. ask[r].kind = "alias" => Fleet[i][1] = ask[r].target
  <2> SUFFICES ASSUME ask[r].kind = "alias" PROVE Fleet[i][1] = ask[r].target
    OBVIOUS
  <2> DEFINE want == <<ask[r].target, 0>>
  <2>1. Resolve(want, {}, i)
    BY <1>1 DEF Exact
  <2>2. want[1] = ask[r].target
    OBVIOUS
  <2> HIDE DEF want
  <2>3. Fleet[i][1] = want[1]
    BY <2>1, Resolved
  <2> QED BY <2>2, <2>3
<1>4. Fits(ask[r], seen[r], Fleet[i])
  BY <1>2, <1>3 DEF Fits, Automatic
<1>5. UNCHANGED <<ask, seen, barred>>
  BY DEF PickNamed
<1>6. place'[r] = "queued" /\ at'[r] = i /\ left'[r] = {Fleet[i]}
  BY <1>1 DEF Select, Goto, RequestsTyped
<1> QED BY <1>1, <1>2, <1>4, <1>5, <1>6 DEF Good, Routed, Automatic, Exact

LEMMA ActorGood ==
  ASSUME RequestsTyped, NEW r \in Requests, Good(r), Arrive(r) \/ Routing(r) \/ Serving(r)
  PROVE  Good(r)'
<1>1. CASE Arrive(r)
  BY <1>1 DEF Arrive, Good, Routed, Goto, RequestsTyped
<1>2. CASE Decide(r)
  BY <1>2, DecideGood
<1>3. CASE Pick(r) \/ Repick(r)
  BY <1>3, PickedGood
<1>4. CASE PickNamed(r)
  BY <1>4, PickedNamedGood
<1>5. CASE Refuse(r) \/ GiveUp(r) \/ NoSlot(r) \/ Disconnect(r) \/ Finish(r)
  BY <1>5, AnswerGood DEF Refuse, GiveUp, NoSlot, Disconnect, Finish
<1>6. CASE NextTarget(r)
  BY <1>6 DEF NextTarget, Good, Routed, RequestsTyped, Exact
<1>7. CASE Grant(r)
  BY <1>7 DEF Grant, Goto, Good, Routed, RequestsTyped, Automatic, Exact
<1>8. CASE Lease(r) /\ ~Answer(r)
  BY <1>8 DEF Lease, Goto, Good, Routed, RequestsTyped, Automatic, Exact
<1>9. CASE Open(r)
  BY <1>9 DEF Open, Goto, Good, Routed, RequestsTyped, Automatic, Exact
<1>10. CASE OpenFails(r) /\ ~Answer(r)
  BY <1>10 DEF OpenFails, Goto, Good, Routed, RequestsTyped, Automatic, Exact
<1>11. CASE Answer(r)
  BY <1>11, AnswerGood
<1> QED BY <1>1, <1>2, <1>3, <1>4, <1>5, <1>6, <1>7, <1>8, <1>9, <1>10, <1>11
        DEF Routing, Serving

LEMMA GoodStep ==
  ASSUME RequestsTyped, AllGood, [Next]_vars
  PROVE  AllGood'
<1> SUFFICES ASSUME NEW q \in Requests PROVE Good(q)'
  BY DEF AllGood
<1>1. Good(q)
  BY DEF AllGood
<1>2. CASE Threads \/ UNCHANGED vars
  <2>1. UNCHANGED Locals(q)
    BY <1>2 DEF Threads, Create, Loaded, Down, Sample, vars, Locals
  <2> QED BY <1>1, <2>1, GoodKept
<1>3. ASSUME NEW r \in Requests, Arrive(r) \/ Routing(r) \/ Serving(r) PROVE Good(q)'
  <2>1. CASE q = r
    BY <1>1, <1>3, <2>1, ActorGood
  <2>2. CASE q # r
    BY <1>1, <1>3, <2>2, OthersKept, GoodKept
  <2> QED BY <2>1, <2>2
<1> QED BY <1>2, <1>3 DEF Next

-----------------------------------------------------------------------------
(* The theorems.                                                           *)

LEMMA InitInv == Init => Typed /\ AllGood
<1> SUFFICES ASSUME Init PROVE Typed /\ AllGood
  OBVIOUS
<1> USE RoutingAssumption DEF Init
<1>1. FleetTyped /\ CursorTyped
  BY DEF FleetTyped, CursorTyped
<1>2. RequestsTyped
  BY DEF RequestsTyped, Places, Synchronous
<1>3. AllGood
  BY DEF AllGood, Good, Routed
<1> QED BY <1>1, <1>2, <1>3 DEF Typed

LEMMA Invariant == Spec => [](Typed /\ AllGood)
<1>1. ASSUME Typed /\ AllGood, [Next]_vars PROVE (Typed /\ AllGood)'
  BY <1>1, TypesStep, GoodStep DEF Typed
<1> QED BY <1>1, InitInv, PTL DEF Spec

(* The types of routing, the bound on every cursor of the router (it       *)
(* stays below the number of instances of its key) among them.             *)
THEOREM Types == Spec => []RoutingTypeOK
<1>1. Typed => RoutingTypeOK
  BY DEF Typed, RoutingTypeOK, FleetTyped, CursorTyped, RequestsTyped
<1> QED BY <1>1, Invariant, PTL

(* Whatever fails over to whatever, the instance that gets a request fits  *)
(* the constraints of the request as it was parsed.                        *)
THEOREM Constrained == Spec => []ServedAsConstrained
<1>1. Typed /\ AllGood => ServedAsConstrained
  <2> SUFFICES ASSUME Typed, AllGood, NEW r \in Requests, place[r] \in Routed PROVE Honours(r)
    BY DEF ServedAsConstrained, Routed
  <2>1. /\ Fits(ask[r], seen[r], Fleet[at[r]])
        /\ Automatic(r) => at[r] \notin barred[r]
        /\ Exact(r) => at[r] = ask[r].target
        /\ ask[r] \in Asks
    BY DEF AllGood, Good, Routed
  <2>2. ask[r].kind \in {"auto", "alias", "exact"}
    <3>1. [kind |-> ask[r].kind, target |-> ask[r].target, session |-> ask[r].session,
           limited |-> ask[r].limited, allowed |-> ask[r].allowed] \in AskFields
      BY <2>1, RoutingAssumption
    <3> QED BY <3>1 DEF AskFields
  <2> QED BY <2>1, <2>2 DEF Honours, Fits, Automatic, Exact
<1> QED BY <1>1, Invariant, PTL

(* No fail-over asks an instance that the request asked before.            *)
THEOREM NeverTwice == Spec => NoInstanceTwice
<1>1. ASSUME Typed, AllGood, [Next]_vars PROVE [AskedAnew]_vars
  <2> SUFFICES ASSUME NEW q \in Requests, place'[q] = "queued", place[q] # "queued"
               PROVE  at'[q] \notin tried[q]
    BY DEF AskedAnew
  <2>1. PICK r \in Requests : Arrive(r) \/ Routing(r) \/ Serving(r)
    BY <1>1 DEF Next, Threads, Create, Loaded, Down, Sample, vars
  <2>2. q = r
    BY <1>1, <2>1, OthersKept DEF Locals, Typed
  <2>3. Pick(q) \/ PickNamed(q) \/ Repick(q)
    BY <1>1, <2>1, <2>2 DEF Arrive, Routing, Serving, Decide, Refuse, NextTarget, GiveUp, Grant,
       NoSlot, Lease, Open, OpenFails, Disconnect, Finish, Answer, Goto, Typed, RequestsTyped
  <2>4. CASE Pick(q) \/ PickNamed(q)
    <3>1. tried[q] = {}
      BY <1>1, <2>4 DEF Pick, PickNamed, AllGood, Good
    <3> QED BY <3>1
  <2>5. CASE Repick(q)
    <3>1. PICK k \in left[q], i \in Instances :
            Resolve(k, tried[q] \cup barred[q], i) /\ Select(q, i)
      BY <2>5 DEF Repick
    <3>2. i \notin tried[q]
      BY <3>1, Resolved
    <3>3. at'[q] = i
      BY <1>1, <3>1 DEF Select, Typed, RequestsTyped
    <3> QED BY <3>2, <3>3
  <2> QED BY <2>3, <2>4, <2>5
<1> QED BY <1>1, Invariant, PTL DEF Spec, NoInstanceTwice
=============================================================================
