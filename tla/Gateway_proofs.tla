--------------------------- MODULE Gateway_proofs ---------------------------
(***************************************************************************)
(* Proofs about Gateway, for any number of HTTP requests, instances and    *)
(* machines: its invariants, the drain of a collective, and that it still  *)
(* uses the scheduler as GenerationSlots_proofs says, although the leases  *)
(* and the health of the registry now change beside it.                    *)
(***************************************************************************)
EXTENDS Gateway, GenerationSlots_proofs

-----------------------------------------------------------------------------
(***************************************************************************)
(* Where the coroutine of a request is, and where the call for its         *)
(* current instance is then.                                               *)
(***************************************************************************)
Slotted == {"slotted", "leased", "reading", "streaming", "unleasing", "unslotting"}

Over == {"released", "full", "timeout", "conflict", "cancelled"}

(* No thread will return a lease of this call to a coroutine.              *)
Settles(r) == call[r] \in Over \/ r \in cancelled \ (holder \cup taken)

CallInv(c) ==
    /\ tried[c] \subseteq CallsOf[c]
    /\ phase[c] = "new" => tried[c] = {}
    /\ phase[c] \notin {"new", "done"} => current[c] \in tried[c]
    /\ phase[c] = "acquiring" => current[c] \notin taken
    /\ phase[c] = "abandoning" => current[c] \in cancelled \ taken
    /\ phase[c] \in Slotted => call[current[c]] = "granted" /\ current[c] \in taken
    /\ phase[c] = "failover" => call[current[c]] = "released"
    /\ phase[c] = "done" => \A r \in tried[c] : Settles(r)
    /\ phase[c] # "done" => \A r \in tried[c] \ {current[c]} : call[r] = "released"

(* A lease is with the executor's holder or with the coroutine, and is one;*)
(* only calls that a coroutine has submitted have begun.                   *)
HolderInv ==
    /\ \A r \in holder : call[r] = "granted" /\ r \notin taken
    /\ \A r \in taken : call[r] # "idle"
    /\ \A r \in Request : call[r] # "idle" => Submitted(r)

(***************************************************************************)
(* A streamed response: its two ends, the drain, and who may finish it.    *)
(***************************************************************************)
StreamInv(c) ==
    /\ response[c] = "none" =>
           /\ reader[c] = "none" /\ phase[c] # "streaming"
           /\ c \notin disconnected \cup draining \cup closed
           /\ finishing[c] = {}
    /\ response[c] # "none" =>
           /\ reader[c] # "none" /\ c \notin failed
           /\ IF c \in closed THEN phase[c] \in {"unleasing", "unslotting", "done"}
              ELSE phase[c] = "streaming"
    /\ c \in failed => phase[c] \in {"unleasing", "unslotting", "failover"}
    /\ upstream[c] \in {"open", "eof"} => phase[c] \in {"reading", "streaming"}
    /\ c \in draining => c \in disconnected
    /\ c \in disconnected => response[c] \in {"ended", "closed"}

(***************************************************************************)
(* A thread on its way into finish_gateway_stream comes from an end of the *)
(* response that is closed, or from the drain.  If the client of a         *)
(* collective has left, the terminal chunk has been read by then.          *)
(***************************************************************************)
DrainInv(c) ==
    /\ "reader" \in finishing[c] => reader[c] = "closed"
    /\ "loop" \in finishing[c] => response[c] = "closed"
    /\ "drain" \in finishing[c] => c \in draining
    /\ response[c] = "sending" /\ reader[c] \in {"ended", "closed"} => upstream[c] # "open"
    /\ c \in disconnected /\ c \notin closed /\ finishing[c] # {} => upstream[c] # "open"

(* The requests that hold a lease on an instance, and their count.         *)
LeasedOn(i) == {c \in Leased : InstanceFor(c) = i}

LeaseInv ==
    /\ \A i \in Instance : IsFiniteSet(LeasedOn(i))
    /\ ActiveCountAgrees

GateTypes ==
    /\ phase \in [Http -> Phase]
    /\ current \in [Http -> Request \cup {None}]
    /\ tried \in [Http -> SUBSET Request]
    /\ holder \in SUBSET Request
    /\ taken \in SUBSET Request
    /\ failed \in SUBSET Http
    /\ upstream \in [Http -> {"none", "open", "eof", "closed"}]
    /\ response \in [Http -> {"none", "sending", "ended", "closed"}]
    /\ reader \in [Http -> {"none", "reading", "ended", "closed"}]
    /\ disconnected \in SUBSET Http
    /\ draining \in SUBSET Http
    /\ finishing \in [Http -> SUBSET {"reader", "loop", "drain"}]
    /\ closed \in SUBSET Http

(* What the steps of the gateway have to keep beside the scheduler.        *)
RequestInv ==
    /\ GateTypes /\ HolderInv
    /\ \A c \in Http : CallInv(c) /\ StreamInv(c) /\ DrainInv(c)

SlotInv == QueueInv /\ SlotExclusion /\ LifecycleInv /\ CountInv

GateInv == SlotInv /\ RequestInv /\ LeaseInv

-----------------------------------------------------------------------------
(* What one request's step leaves alone of another's.                      *)

(* No two requests make the same call.                                     *)
LEMMA DisjointCalls ==
    ASSUME NEW c \in Http, NEW d \in Http, c # d, CallInv(c), CallInv(d),
           NEW r \in tried[c]
    PROVE  r \notin tried[d]
BY GatewayAssumptions DEF GatewayAssumptions, CallInv

(* A call goes on in its own thread, or gives back a lease that no         *)
(* coroutine has; the holder only gets the lease of a live call.           *)
CallKept(r) ==
    /\ \/ call'[r] = call[r]
       \/ call[r] \in {"idle", "sleeping"}
       \/ call[r] = "granted" /\ r \notin taken /\ call'[r] = "released"
    /\ r \in taken' <=> r \in taken
    /\ r \in holder' => r \in holder \/ (r \notin cancelled /\ call[r] = "granted")

LEMMA CallFrame ==
    ASSUME NEW c \in Http, CallInv(c), cancelled \subseteq cancelled',
           phase'[c] = phase[c], current'[c] = current[c], tried'[c] = tried[c],
           \A r \in tried[c] : CallKept(r)
    PROVE  CallInv(c)'
<1>1. \A r \in tried[c] : Settles(r) => Settles(r)'
    BY DEF Settles, CallKept, Over
<1> QED BY <1>1 DEF CallInv, CallKept, Slotted

SamePhase(c) == phase'[c] = phase[c] /\ (c \in failed' <=> c \in failed)

SameStream(c) ==
    /\ response'[c] = response[c] /\ reader'[c] = reader[c]
    /\ upstream'[c] = upstream[c] /\ finishing'[c] = finishing[c]
    /\ c \in disconnected' <=> c \in disconnected
    /\ c \in draining' <=> c \in draining
    /\ c \in closed' <=> c \in closed

LEMMA StreamFrame ==
    ASSUME NEW c \in Http, StreamInv(c), DrainInv(c), SamePhase(c), SameStream(c)
    PROVE  StreamInv(c)' /\ DrainInv(c)'
BY DEF StreamInv, DrainInv, SamePhase, SameStream

-----------------------------------------------------------------------------
(* The executor's threads.                                                 *)

(* acquire() moves its own call, one that is idle or sleeping, and grants  *)
(* it nothing once the event is set.                                       *)
LEMMA ThreadMoves ==
    ASSUME QueueInv, NEW r \in Request, Acquire(r) \/ Wake(r)
    PROVE  /\ call[r] \in {"idle", "sleeping"} /\ call'[r] # "idle"
           /\ \A s \in Request \ {r} : call'[s] = call[s]
           /\ cancelled' = cancelled
<1>1. call \in [Request -> CallState]
    BY DEF QueueInv, TypeOK
<1>2. CASE Acquire(r)
    BY <1>1, <1>2 DEF Acquire, AcquireCancelled, AcquireAtOnce, AcquireFull, AcquireWait, Finish
<1>3. CASE Wake(r)
    BY <1>1, <1>3 DEF Wake, WakeCancelled, WakeGranted, WakeTimeout, WakeInVain, Leave, Finish,
       Awake
<1> QED BY <1>2, <1>3

LEMMA ReleaseMoves ==
    ASSUME QueueInv, NEW r \in Request, Release(r)
    PROVE  /\ call[r] = "granted" /\ call'[r] = "released"
           /\ \A s \in Request \ {r} : call'[s] = call[s]
           /\ cancelled' = cancelled
BY DEF QueueInv, TypeOK, BooksAgree, Release, Finish

(* A step beside the coroutines.                                           *)
LEMMA BesideCoroutines ==
    ASSUME RequestInv, cancelled \subseteq cancelled',
           UNCHANGED <<phase, current, tried, taken, failed, upstream, streamVars>>,
           holder' \subseteq Request, \A r \in Request : CallKept(r), HolderInv'
    PROVE  RequestInv'
<1>1. GateTypes'
    BY DEF RequestInv, GateTypes, streamVars
<1>2. ASSUME NEW c \in Http PROVE CallInv(c)' /\ StreamInv(c)' /\ DrainInv(c)'
    <2>1. SamePhase(c) /\ SameStream(c)
        BY DEF SamePhase, SameStream, streamVars
    <2>2. tried[c] \subseteq Request
        BY DEF RequestInv, GateTypes
    <2> QED BY <2>1, <2>2, CallFrame, StreamFrame DEF RequestInv
<1> QED BY <1>1, <1>2 DEF RequestInv

LEMMA ExecutorStep ==
    ASSUME SlotInv, RequestInv, NEW r \in Request, Executor(r)
    PROVE  RequestInv'
<1> USE DEF SlotInv
<1>1. CASE WorkerAcquire(r) \/ WorkerWake(r)
    <2>1. /\ call[r] \in {"idle", "sleeping"} /\ call'[r] # "idle"
          /\ \A s \in Request \ {r} : call'[s] = call[s]
          /\ cancelled' = cancelled
          /\ UNCHANGED gateVars
        BY <1>1, ThreadMoves DEF WorkerAcquire, WorkerWake
    <2>4. Submitted(r)
        BY <1>1 DEF WorkerAcquire, WorkerWake, Wake, WakeCancelled, WakeGranted, WakeTimeout,
           WakeInVain, Awake, RequestInv, HolderInv
    <2>2. \A s \in Request : CallKept(s)
        BY <2>1 DEF CallKept, gateVars
    <2>3. HolderInv'
        BY <2>1, <2>4 DEF RequestInv, GateTypes, HolderInv, Submitted, gateVars
    <2> QED BY <2>1, <2>2, <2>3, BesideCoroutines DEF gateVars, RequestInv, GateTypes
<1>2. CASE Deposit(r) /\ r \in cancelled
    <2>1. Release(r) /\ holder' = holder /\ r \notin holder \cup taken
        BY <1>2 DEF Deposit
    <2>2. \A s \in Request : CallKept(s)
        BY <1>2, <2>1, ReleaseMoves DEF CallKept, Deposit
    <2>3. HolderInv'
        BY <1>2, <2>1, ReleaseMoves DEF RequestInv, GateTypes, HolderInv, Submitted, Deposit
    <2> QED BY <1>2, <2>1, <2>2, <2>3, ReleaseMoves, BesideCoroutines
            DEF Deposit, RequestInv, GateTypes
<1>3. CASE Deposit(r) /\ r \notin cancelled
    <2>1. /\ holder' = holder \cup {r} /\ UNCHANGED vars
          /\ call[r] = "granted" /\ r \notin taken
        BY <1>3 DEF Deposit
    <2>2. call' = call /\ cancelled' = cancelled
        BY <2>1 DEF vars
    <2>3. \A s \in Request : CallKept(s)
        BY <1>3, <2>1, <2>2 DEF CallKept, Deposit
    <2>4. HolderInv'
        BY <1>3, <2>1, <2>2 DEF RequestInv, GateTypes, HolderInv, Submitted, Deposit
    <2> QED BY <1>3, <2>1, <2>2, <2>3, <2>4, BesideCoroutines DEF Deposit, RequestInv, GateTypes
<1> QED BY <1>1, <1>2, <1>3 DEF Executor

-----------------------------------------------------------------------------
(* The coroutine of a request.                                             *)

(* A step of one request leaves the others, and their calls, alone.        *)
OthersKept(c) ==
    /\ cancelled \subseteq cancelled'
    /\ \A r \in Request \ tried[c] : CallKept(r)
    /\ \A d \in Http \ {c} :
           /\ current'[d] = current[d] /\ tried'[d] = tried[d]
           /\ SamePhase(d) /\ SameStream(d)

LEMMA OneRequest ==
    ASSUME RequestInv, NEW c \in Http, OthersKept(c), GateTypes', HolderInv',
           CallInv(c)', StreamInv(c)', DrainInv(c)'
    PROVE  RequestInv'
<1>1. ASSUME NEW d \in Http \ {c} PROVE CallInv(d)' /\ StreamInv(d)' /\ DrainInv(d)'
    <2>1. \A r \in tried[d] : r \in Request \ tried[c]
        BY DisjointCalls DEF RequestInv, GateTypes
    <2>2. CallInv(d)'
        BY <2>1, CallFrame DEF RequestInv, OthersKept, SamePhase
    <2> QED BY <2>2, StreamFrame DEF RequestInv, OthersKept
<1> QED BY <1>1 DEF RequestInv

(* A call that no request has made yet.                                    *)
LEMMA FreshCall ==
    ASSUME RequestInv, NEW c \in Http, NEW r \in CallsOf[c] \ tried[c]
    PROVE  r \in Request /\ call[r] = "idle" /\ r \notin holder \cup taken
<1>1. r \in Request
    BY GatewayAssumptions DEF GatewayAssumptions
<1>2. ~Submitted(r)
    BY GatewayAssumptions DEF GatewayAssumptions, RequestInv, CallInv, Submitted
<1> QED BY <1>1, <1>2 DEF RequestInv, HolderInv

LEMMA RouteStep ==
    ASSUME RequestInv, NEW c \in Http, Route(c)
    PROVE  RequestInv'
<1>1. /\ phase[c] = "new" /\ tried[c] = {}
      /\ call' = call /\ cancelled' = cancelled
      /\ UNCHANGED <<holder, taken, failed, upstream, streamVars>>
    BY DEF Route, RequestInv, CallInv, vars
<1>2. CASE \E r \in CallsOf[c] : Select(c, r)
    <2>1. PICK r \in CallsOf[c] : Select(c, r)
        BY <1>2
    <2>2. r \in Request /\ r \notin holder \cup taken
        BY <1>1, FreshCall
    <2>3. GateTypes'
        BY <1>1, <2>1, <2>2 DEF RequestInv, GateTypes, Select, Goto, Phase, streamVars
    <2>4. OthersKept(c)
        BY <1>1, <2>1 DEF OthersKept, RequestInv, GateTypes, CallKept, SamePhase, SameStream, Select, Goto,
           streamVars
    <2>5. HolderInv'
        BY <1>1, <2>1 DEF RequestInv, GateTypes, HolderInv, Submitted, Select
    <2>6. CallInv(c)'
        BY <1>1, <2>1, <2>2 DEF RequestInv, GateTypes, CallInv, Select, Goto, Slotted
    <2>7. StreamInv(c)' /\ DrainInv(c)'
        BY <1>1, <2>1 DEF RequestInv, GateTypes, StreamInv, DrainInv, Select, Goto, streamVars
    <2> QED BY <2>3, <2>4, <2>5, <2>6, <2>7, OneRequest
<1>3. CASE Goto(c, "done") /\ UNCHANGED <<current, tried>>
    <2>3. GateTypes'
        BY <1>1, <1>3 DEF RequestInv, GateTypes, Goto, Phase, streamVars
    <2>4. OthersKept(c)
        BY <1>1, <1>3 DEF OthersKept, RequestInv, GateTypes, CallKept, SamePhase, SameStream, Goto,
           streamVars
    <2>5. HolderInv'
        BY <1>1, <1>3 DEF RequestInv, HolderInv, Submitted
    <2>6. CallInv(c)'
        BY <1>1, <1>3 DEF RequestInv, GateTypes, CallInv, Goto, Slotted
    <2>7. StreamInv(c)' /\ DrainInv(c)'
        BY <1>1, <1>3 DEF RequestInv, GateTypes, StreamInv, DrainInv, Goto, streamVars
    <2> QED BY <2>3, <2>4, <2>5, <2>6, <2>7, OneRequest
<1> QED BY <1>2, <1>3 DEF Route

LEMMA CollectStep ==
    ASSUME RequestInv, NEW c \in Http, Collect(c)
    PROVE  RequestInv'
<1>1. /\ phase[c] = "acquiring"
      /\ call' = call /\ cancelled' = cancelled
      /\ UNCHANGED <<current, tried, failed, upstream, streamVars>>
    BY DEF Collect, vars
<1>2. current[c] \in tried[c] /\ current[c] \in Request
    BY <1>1 DEF RequestInv, GateTypes, CallInv
<1>3. GateTypes'
    BY <1>1, <1>2 DEF Collect, RequestInv, GateTypes, Goto, Phase, streamVars
<1>4. OthersKept(c)
    BY <1>1, <1>2 DEF Collect, OthersKept, RequestInv, GateTypes, CallKept, SamePhase, SameStream,
       Goto, streamVars
<1>5. HolderInv'
    BY <1>1, <1>2 DEF Collect, RequestInv, HolderInv, Submitted
<1>6. CallInv(c)'
    <2>1. CASE current[c] \in holder
        BY <1>1, <1>2, <2>1 DEF Collect, RequestInv, GateTypes, CallInv, HolderInv, Goto, Slotted
    <2>2. CASE current[c] \notin holder
        BY <1>1, <1>2, <2>2 DEF Collect, RequestInv, GateTypes, CallInv, Goto, Slotted, Settles, Over
    <2> QED BY <2>1, <2>2
<1>7. StreamInv(c)' /\ DrainInv(c)'
    BY <1>1 DEF Collect, RequestInv, GateTypes, StreamInv, DrainInv, Goto, streamVars
<1> QED BY <1>3, <1>4, <1>5, <1>6, <1>7, OneRequest

LEMMA OpenedStep ==
    ASSUME RequestInv, NEW c \in Http, Opened(c)
    PROVE  RequestInv'
<1>1. /\ phase[c] = "leased" /\ current[c] \in tried[c] /\ current[c] \in Request
      /\ call' = call /\ cancelled' = cancelled
      /\ UNCHANGED <<current, tried, holder, taken, failed, disconnected, draining, finishing, closed>>
    BY DEF Opened, vars, slotVars, RequestInv, GateTypes, CallInv
<1>2. GateTypes'
    BY <1>1 DEF Opened, RequestInv, GateTypes, Goto, Phase, streamVars
<1>3. OthersKept(c)
    BY <1>1 DEF Opened, OthersKept, RequestInv, GateTypes, CallKept, SamePhase, SameStream,
       Goto, streamVars
<1>4. HolderInv'
    BY <1>1 DEF RequestInv, HolderInv, Submitted
<1>5. CallInv(c)'
    BY <1>1 DEF Opened, RequestInv, GateTypes, CallInv, Goto, Slotted
<1>6. StreamInv(c)' /\ DrainInv(c)'
    BY <1>1 DEF Opened, RequestInv, GateTypes, StreamInv, DrainInv, Goto, streamVars
<1> QED BY <1>2, <1>3, <1>4, <1>5, <1>6, OneRequest

LEMMA OpenAbandonedStep ==
    ASSUME RequestInv, NEW c \in Http, OpenAbandoned(c)
    PROVE  RequestInv'
<1>1. /\ phase[c] = "leased" /\ current[c] \in tried[c] /\ current[c] \in Request
      /\ call' = call /\ cancelled' = cancelled
      /\ UNCHANGED <<current, tried, holder, taken, failed, upstream, streamVars>>
    BY DEF OpenAbandoned, vars, slotVars, RequestInv, GateTypes, CallInv
<1>2. GateTypes'
    BY <1>1 DEF OpenAbandoned, RequestInv, GateTypes, Goto, Phase, streamVars
<1>3. OthersKept(c)
    BY <1>1 DEF OpenAbandoned, OthersKept, RequestInv, GateTypes, CallKept, SamePhase, SameStream,
       Goto, streamVars
<1>4. HolderInv'
    BY <1>1 DEF RequestInv, HolderInv, Submitted
<1>5. CallInv(c)'
    BY <1>1 DEF OpenAbandoned, RequestInv, GateTypes, CallInv, Goto, Slotted
<1>6. StreamInv(c)' /\ DrainInv(c)'
    BY <1>1 DEF OpenAbandoned, RequestInv, GateTypes, StreamInv, DrainInv, Goto, streamVars
<1> QED BY <1>2, <1>3, <1>4, <1>5, <1>6, OneRequest

LEMMA OpenFailsStep ==
    ASSUME RequestInv, NEW c \in Http, OpenFails(c)
    PROVE  RequestInv'
<1>1. /\ phase[c] = "leased" /\ current[c] \in tried[c] /\ current[c] \in Request
      /\ call' = call /\ cancelled' = cancelled
      /\ UNCHANGED <<current, tried, holder, taken, upstream, streamVars>>
    BY DEF OpenFails, vars, slotVars, RequestInv, GateTypes, CallInv
<1>2. GateTypes'
    BY <1>1 DEF OpenFails, RequestInv, GateTypes, Goto, Phase, streamVars
<1>3. OthersKept(c)
    BY <1>1 DEF OpenFails, OthersKept, RequestInv, GateTypes, CallKept, SamePhase, SameStream,
       Goto, streamVars
<1>4. HolderInv'
    BY <1>1 DEF RequestInv, HolderInv, Submitted
<1>5. CallInv(c)'
    BY <1>1 DEF OpenFails, RequestInv, GateTypes, CallInv, Goto, Slotted
<1>6. StreamInv(c)' /\ DrainInv(c)'
    BY <1>1 DEF OpenFails, RequestInv, GateTypes, StreamInv, DrainInv, Goto, streamVars
<1> QED BY <1>2, <1>3, <1>4, <1>5, <1>6, OneRequest

LEMMA ReadAllStep ==
    ASSUME RequestInv, NEW c \in Http, ReadAll(c)
    PROVE  RequestInv'
<1>1. /\ phase[c] = "reading" /\ current[c] \in tried[c] /\ current[c] \in Request
      /\ call' = call /\ cancelled' = cancelled
      /\ UNCHANGED <<current, tried, holder, taken, failed, streamVars>>
    BY DEF ReadAll, vars, slotVars, RequestInv, GateTypes, CallInv
<1>2. GateTypes'
    BY <1>1 DEF ReadAll, RequestInv, GateTypes, Goto, Phase, streamVars
<1>3. OthersKept(c)
    BY <1>1 DEF ReadAll, OthersKept, RequestInv, GateTypes, CallKept, SamePhase, SameStream,
       Goto, streamVars
<1>4. HolderInv'
    BY <1>1 DEF RequestInv, HolderInv, Submitted
<1>5. CallInv(c)'
    BY <1>1 DEF ReadAll, RequestInv, GateTypes, CallInv, Goto, Slotted
<1>6. StreamInv(c)' /\ DrainInv(c)'
    BY <1>1 DEF ReadAll, RequestInv, GateTypes, StreamInv, DrainInv, Goto, streamVars
<1> QED BY <1>2, <1>3, <1>4, <1>5, <1>6, OneRequest

LEMMA UnleaseStep ==
    ASSUME RequestInv, NEW c \in Http, Unlease(c)
    PROVE  RequestInv'
<1>1. /\ phase[c] = "unleasing" /\ current[c] \in tried[c] /\ current[c] \in Request
      /\ call' = call /\ cancelled' = cancelled
      /\ UNCHANGED <<current, tried, holder, taken, failed, upstream, streamVars>>
    BY DEF Unlease, vars, slotVars, RequestInv, GateTypes, CallInv
<1>2. GateTypes'
    BY <1>1 DEF Unlease, RequestInv, GateTypes, Goto, Phase, streamVars
<1>3. OthersKept(c)
    BY <1>1 DEF Unlease, OthersKept, RequestInv, GateTypes, CallKept, SamePhase, SameStream,
       Goto, streamVars
<1>4. HolderInv'
    BY <1>1 DEF RequestInv, HolderInv, Submitted
<1>5. CallInv(c)'
    BY <1>1 DEF Unlease, RequestInv, GateTypes, CallInv, Goto, Slotted
<1>6. StreamInv(c)' /\ DrainInv(c)'
    BY <1>1 DEF Unlease, RequestInv, GateTypes, StreamInv, DrainInv, Goto, streamVars
<1> QED BY <1>2, <1>3, <1>4, <1>5, <1>6, OneRequest

LEMMA GiveUpStep ==
    ASSUME SlotInv, RequestInv, NEW c \in Http, GiveUp(c)
    PROVE  RequestInv'
<1>1. /\ phase[c] = "acquiring" /\ current[c] \in tried[c] /\ current[c] \in Request
      /\ call' = call /\ cancelled' = cancelled \cup {current[c]}
      /\ phase' = [phase EXCEPT ![c] = "abandoning"]
      /\ UNCHANGED <<current, tried, holder, taken, failed, upstream, streamVars>>
    BY DEF GiveUp, Goto, RequestInv, GateTypes, CallInv
<1>2. GateTypes'
    BY <1>1 DEF RequestInv, GateTypes, Phase, streamVars
<1>3. OthersKept(c)
    BY <1>1 DEF OthersKept, RequestInv, GateTypes, CallKept, SamePhase, SameStream, streamVars
<1>4. HolderInv'
    BY <1>1 DEF RequestInv, HolderInv, Submitted
<1>5. CallInv(c)'
    BY <1>1 DEF RequestInv, GateTypes, CallInv, Slotted
<1>6. StreamInv(c)' /\ DrainInv(c)'
    BY <1>1 DEF RequestInv, GateTypes, StreamInv, DrainInv, streamVars
<1> QED BY <1>2, <1>3, <1>4, <1>5, <1>6, OneRequest

(* The coroutine returns its slot: the call is over.                       *)
LEMMA AbandonStep ==
    ASSUME SlotInv, RequestInv, NEW c \in Http, Abandon(c)
    PROVE  RequestInv'
<1>1. /\ phase[c] = "abandoning" /\ current[c] \in tried[c] /\ current[c] \in Request
      /\ current[c] \in cancelled \ taken
      /\ phase' = [phase EXCEPT ![c] = "done"]
      /\ holder' = holder \ {current[c]}
      /\ UNCHANGED <<current, tried, taken, failed, upstream, streamVars>>
    BY DEF Abandon, Goto, RequestInv, GateTypes, CallInv
<1>2. /\ \/ call'[current[c]] = "released"
         \/ call'[current[c]] = call[current[c]] /\ current[c] \notin holder
      /\ \A s \in Request \ {current[c]} : call'[s] = call[s]
      /\ cancelled' = cancelled
    BY <1>1, ReleaseMoves DEF Abandon, SlotInv, vars
<1>3. GateTypes'
    BY <1>1 DEF RequestInv, GateTypes, Phase, streamVars
<1>4. OthersKept(c)
    BY <1>1, <1>2 DEF OthersKept, RequestInv, GateTypes, CallKept, SamePhase, SameStream, streamVars
<1>5. HolderInv'
    BY <1>1, <1>2 DEF RequestInv, GateTypes, HolderInv, Submitted
<1>6. CallInv(c)'
    <2>1. ASSUME NEW r \in tried[c] PROVE Settles(r)'
        BY <1>1, <1>2 DEF RequestInv, GateTypes, CallInv, Settles, Over
    <2> QED BY <1>1, <2>1 DEF RequestInv, GateTypes, CallInv, Slotted
<1>7. StreamInv(c)' /\ DrainInv(c)'
    BY <1>1 DEF RequestInv, GateTypes, StreamInv, DrainInv, streamVars
<1> QED BY <1>3, <1>4, <1>5, <1>6, <1>7, OneRequest

LEMMA TakeLeaseStep ==
    ASSUME SlotInv, RequestInv, NEW c \in Http, TakeLease(c)
    PROVE  RequestInv'
<1>1. /\ phase[c] = "slotted" /\ current[c] \in tried[c] /\ current[c] \in Request
      /\ call[current[c]] = "granted" /\ current[c] \in taken
      /\ UNCHANGED <<current, tried, holder, taken, failed, upstream, streamVars>>
    BY DEF TakeLease, RequestInv, GateTypes, CallInv, Slotted
<1>2. /\ \A s \in Request \ {current[c]} : call'[s] = call[s]
      /\ cancelled' = cancelled
      /\ \/ call' = call /\ phase' = [phase EXCEPT ![c] = "leased"]
         \/ call'[current[c]] = "released" /\ phase' = [phase EXCEPT ![c] = "done"]
    BY <1>1, ReleaseMoves DEF TakeLease, SlotInv, slotVars, Goto
<1>3. GateTypes'
    BY <1>1, <1>2 DEF RequestInv, GateTypes, Phase, streamVars
<1>4. OthersKept(c)
    BY <1>1, <1>2 DEF OthersKept, RequestInv, GateTypes, CallKept, SamePhase, SameStream, streamVars
<1>5. HolderInv'
    BY <1>1, <1>2 DEF RequestInv, GateTypes, HolderInv, Submitted
<1>6. CallInv(c)'
    BY <1>1, <1>2 DEF RequestInv, GateTypes, CallInv, Slotted, Settles, Over
<1>7. StreamInv(c)' /\ DrainInv(c)'
    BY <1>1, <1>2 DEF RequestInv, GateTypes, StreamInv, DrainInv, streamVars
<1> QED BY <1>3, <1>4, <1>5, <1>6, <1>7, OneRequest

LEMMA UnslotStep ==
    ASSUME SlotInv, RequestInv, NEW c \in Http, Unslot(c)
    PROVE  RequestInv'
<1>1. /\ phase[c] = "unslotting" /\ current[c] \in tried[c] /\ current[c] \in Request
      /\ current[c] \in taken
      /\ phase' = [phase EXCEPT ![c] = IF c \in failed THEN "failover" ELSE "done"]
      /\ UNCHANGED <<current, tried, holder, taken, failed, upstream, streamVars>>
    BY DEF Unslot, Goto, RequestInv, GateTypes, CallInv, Slotted
<1>2. /\ call'[current[c]] = "released"
      /\ \A s \in Request \ {current[c]} : call'[s] = call[s]
      /\ cancelled' = cancelled
    BY <1>1, ReleaseMoves DEF Unslot, SlotInv
<1>3. GateTypes'
    BY <1>1 DEF RequestInv, GateTypes, Phase, streamVars
<1>4. OthersKept(c)
    BY <1>1, <1>2 DEF OthersKept, RequestInv, GateTypes, CallKept, SamePhase, SameStream, streamVars
<1>5. HolderInv'
    BY <1>1, <1>2 DEF RequestInv, GateTypes, HolderInv, CallInv, Slotted, Submitted
<1>6. CallInv(c)'
    BY <1>1, <1>2 DEF RequestInv, GateTypes, CallInv, Slotted, Settles, Over
<1>7. StreamInv(c)' /\ DrainInv(c)'
    BY <1>1 DEF RequestInv, GateTypes, StreamInv, DrainInv, streamVars
<1> QED BY <1>3, <1>4, <1>5, <1>6, <1>7, OneRequest

LEMMA FailOverStep ==
    ASSUME RequestInv, NEW c \in Http, FailOver(c)
    PROVE  RequestInv'
<1>1. /\ phase[c] = "failover" /\ current[c] \in tried[c] /\ current[c] \in Request
      /\ call[current[c]] = "released" /\ response[c] = "none"
      /\ call' = call /\ cancelled' = cancelled /\ failed' = failed \ {c}
      /\ UNCHANGED <<holder, taken, upstream, streamVars>>
    BY DEF FailOver, RequestInv, GateTypes, CallInv, StreamInv, slotVars
<1>2. CASE \E r \in CallsOf[c] \ tried[c] : Select(c, r)
    <2>1. PICK r \in CallsOf[c] \ tried[c] : Select(c, r)
        BY <1>2
    <2>2. r \in Request /\ r \notin holder \cup taken
        BY FreshCall
    <2>3. GateTypes'
        BY <1>1, <2>1, <2>2 DEF RequestInv, GateTypes, Select, Goto, Phase, streamVars
    <2>4. OthersKept(c)
        BY <1>1, <2>1 DEF OthersKept, RequestInv, GateTypes, CallKept, SamePhase, SameStream, Select,
           Goto, streamVars
    <2>5. HolderInv'
        BY <1>1, <2>1 DEF RequestInv, GateTypes, HolderInv, Submitted, Select
    <2>6. CallInv(c)'
        BY <1>1, <2>1, <2>2 DEF RequestInv, GateTypes, CallInv, Select, Goto, Slotted
    <2>7. StreamInv(c)' /\ DrainInv(c)'
        BY <1>1, <2>1 DEF RequestInv, GateTypes, StreamInv, DrainInv, Select, Goto, streamVars
    <2> QED BY <2>3, <2>4, <2>5, <2>6, <2>7, OneRequest
<1>3. CASE Goto(c, "done") /\ UNCHANGED <<current, tried>>
    <2>3. GateTypes'
        BY <1>1, <1>3 DEF RequestInv, GateTypes, Goto, Phase, streamVars
    <2>4. OthersKept(c)
        BY <1>1, <1>3 DEF OthersKept, RequestInv, GateTypes, CallKept, SamePhase, SameStream, Goto,
           streamVars
    <2>5. HolderInv'
        BY <1>1, <1>3 DEF RequestInv, HolderInv, Submitted
    <2>6. CallInv(c)'
        BY <1>1, <1>3 DEF RequestInv, GateTypes, CallInv, Goto, Slotted, Settles, Over
    <2>7. StreamInv(c)' /\ DrainInv(c)'
        BY <1>1, <1>3 DEF RequestInv, GateTypes, StreamInv, DrainInv, Goto, streamVars
    <2> QED BY <2>3, <2>4, <2>5, <2>6, <2>7, OneRequest
<1> QED BY <1>2, <1>3 DEF FailOver

-----------------------------------------------------------------------------
(* The threads of a streamed response.                                     *)

LEMMA OneStream ==
    ASSUME RequestInv, NEW c \in Http,
           UNCHANGED <<vars, current, tried, holder, taken, failed>>,
           \A d \in Http \ {c} : phase'[d] = phase[d] /\ SameStream(d),
           phase'[c] = phase[c] \/ (phase[c] = "streaming" /\ phase'[c] = "unleasing"),
           GateTypes', StreamInv(c)', DrainInv(c)'
    PROVE  RequestInv'
<1>1. call' = call /\ cancelled' = cancelled
    BY DEF vars
<1>2. OthersKept(c)
    BY <1>1 DEF OthersKept, CallKept, SamePhase
<1>3. HolderInv'
    BY <1>1 DEF RequestInv, HolderInv, Submitted
<1>4. CallInv(c)'
    BY <1>1 DEF RequestInv, CallInv, Slotted, Settles
<1> QED BY <1>2, <1>3, <1>4, OneRequest

LEMMA StreamStep ==
    ASSUME RequestInv, NEW c \in Http, Stream(c)
    PROVE  RequestInv'
<1>1. CASE ReaderEof(c)
    <2>1. GateTypes'
        BY <1>1 DEF ReaderEof, RequestInv, GateTypes, streamVars
    <2>2. \A d \in Http \ {c} : SameStream(d)
        BY <1>1 DEF ReaderEof, SameStream, RequestInv, GateTypes
    <2>3. StreamInv(c)'
        BY <1>1 DEF ReaderEof, RequestInv, GateTypes, StreamInv
    <2>4. DrainInv(c)'
        BY <1>1 DEF ReaderEof, RequestInv, GateTypes, StreamInv, DrainInv
    <2> QED BY <1>1, <2>1, <2>2, <2>3, <2>4, OneStream DEF ReaderEof
<1>2. CASE Disconnect(c)
    <2>1. GateTypes'
        BY <1>2 DEF Disconnect, RequestInv, GateTypes, streamVars
    <2>2. \A d \in Http \ {c} : SameStream(d)
        BY <1>2 DEF Disconnect, SameStream, RequestInv, GateTypes
    <2>3. StreamInv(c)'
        BY <1>2 DEF Disconnect, RequestInv, GateTypes, StreamInv
    <2>4. DrainInv(c)'
        BY <1>2 DEF Disconnect, RequestInv, GateTypes, StreamInv, DrainInv
    <2> QED BY <1>2, <2>1, <2>2, <2>3, <2>4, OneStream DEF Disconnect
<1>3. CASE ResponseEnds(c)
    <2>1. GateTypes'
        BY <1>3 DEF ResponseEnds, RequestInv, GateTypes, streamVars
    <2>2. \A d \in Http \ {c} : SameStream(d)
        BY <1>3 DEF ResponseEnds, SameStream, RequestInv, GateTypes
    <2>3. StreamInv(c)'
        BY <1>3 DEF ResponseEnds, RequestInv, GateTypes, StreamInv
    <2>4. DrainInv(c)'
        BY <1>3 DEF ResponseEnds, RequestInv, GateTypes, StreamInv, DrainInv
    <2> QED BY <1>3, <2>1, <2>2, <2>3, <2>4, OneStream DEF ResponseEnds
<1>4. CASE ReaderDropped(c)
    <2>1. GateTypes'
        BY <1>4 DEF ReaderDropped, RequestInv, GateTypes, streamVars
    <2>2. \A d \in Http \ {c} : SameStream(d)
        BY <1>4 DEF ReaderDropped, SameStream, RequestInv, GateTypes
    <2>3. StreamInv(c)'
        BY <1>4 DEF ReaderDropped, RequestInv, GateTypes, StreamInv
    <2>4. DrainInv(c)'
        BY <1>4 DEF ReaderDropped, RequestInv, GateTypes, StreamInv, DrainInv
    <2> QED BY <1>4, <2>1, <2>2, <2>3, <2>4, OneStream DEF ReaderDropped
<1>5. CASE ReaderCloses(c)
    <2>1. GateTypes'
        BY <1>5 DEF ReaderCloses, CloseStream, RequestInv, GateTypes, streamVars
    <2>2. \A d \in Http \ {c} : SameStream(d)
        BY <1>5 DEF ReaderCloses, CloseStream, SameStream, RequestInv, GateTypes
    <2>3. StreamInv(c)'
        BY <1>5 DEF ReaderCloses, CloseStream, RequestInv, GateTypes, StreamInv
    <2>4. DrainInv(c)'
        BY <1>5 DEF ReaderCloses, CloseStream, RequestInv, GateTypes, StreamInv, DrainInv
    <2> QED BY <1>5, <2>1, <2>2, <2>3, <2>4, OneStream DEF ReaderCloses
<1>6. CASE LoopCloses(c)
    <2>1. GateTypes'
        BY <1>6 DEF LoopCloses, CloseStream, RequestInv, GateTypes, streamVars
    <2>2. \A d \in Http \ {c} : SameStream(d)
        BY <1>6 DEF LoopCloses, CloseStream, SameStream, RequestInv, GateTypes
    <2>3. StreamInv(c)'
        BY <1>6 DEF LoopCloses, CloseStream, RequestInv, GateTypes, StreamInv
    <2>4. DrainInv(c)'
        BY <1>6 DEF LoopCloses, CloseStream, RequestInv, GateTypes, StreamInv, DrainInv
    <2> QED BY <1>6, <2>1, <2>2, <2>3, <2>4, OneStream DEF LoopCloses
<1>7. CASE Drain(c)
    <2>1. GateTypes'
        BY <1>7 DEF Drain, RequestInv, GateTypes, streamVars
    <2>2. \A d \in Http \ {c} : SameStream(d)
        BY <1>7 DEF Drain, SameStream, RequestInv, GateTypes
    <2>3. StreamInv(c)'
        BY <1>7 DEF Drain, RequestInv, GateTypes, StreamInv
    <2>4. DrainInv(c)'
        BY <1>7 DEF Drain, RequestInv, GateTypes, StreamInv, DrainInv
    <2> QED BY <1>7, <2>1, <2>2, <2>3, <2>4, OneStream DEF Drain
<1>8. ASSUME NEW t \in {"reader", "loop", "drain"}, FinishStream(c, t) PROVE RequestInv'
    <2>1. c \in closed \/ phase[c] = "streaming"
        BY <1>8 DEF FinishStream, RequestInv, GateTypes, StreamInv
    <2>2. GateTypes'
        BY <1>8 DEF FinishStream, RequestInv, GateTypes, Goto, Phase
    <2>3. \A d \in Http \ {c} : phase'[d] = phase[d] /\ SameStream(d)
        BY <1>8 DEF FinishStream, SameStream, RequestInv, GateTypes, Goto
    <2>4. StreamInv(c)'
        BY <1>8 DEF FinishStream, RequestInv, GateTypes, StreamInv, Goto
    <2>5. DrainInv(c)'
        BY <1>8 DEF FinishStream, RequestInv, GateTypes, StreamInv, DrainInv
    <2>6. phase'[c] = phase[c] \/ (phase[c] = "streaming" /\ phase'[c] = "unleasing")
        BY <1>8, <2>1 DEF FinishStream, RequestInv, GateTypes, Goto
    <2> QED BY <1>8, <2>2, <2>3, <2>4, <2>5, <2>6, OneStream DEF FinishStream
<1> QED BY <1>1, <1>2, <1>3, <1>4, <1>5, <1>6, <1>7, <1>8 DEF Stream

(* Stops, failures and health refreshes are not about requests.            *)
LEMMA BesideStep ==
    ASSUME RequestInv, NEW i \in Instance, Environment(i) \/ HealthRefresh(i)
    PROVE  RequestInv'
<1>1. UNCHANGED <<slotVars, gateVars>>
    BY DEF Environment, HealthRefresh, UnloadCheck, UnloadAssign, Stop, Fail
<1>2. call' = call /\ cancelled' = cancelled
    BY <1>1 DEF slotVars
<1>3. HolderInv'
    BY <1>1, <1>2 DEF RequestInv, HolderInv, Submitted, gateVars
<1> QED BY <1>1, <1>2, <1>3, BesideCoroutines DEF gateVars, CallKept, RequestInv, GateTypes

LEMMA RequestStep ==
    ASSUME SlotInv, RequestInv, [GateNext]_allVars
    PROVE  RequestInv'
<1>1. CASE UNCHANGED allVars
    <2>1. call' = call /\ cancelled' = cancelled /\ UNCHANGED gateVars
        BY <1>1 DEF allVars, vars
    <2>2. HolderInv'
        BY <2>1 DEF RequestInv, HolderInv, Submitted, gateVars
    <2> QED BY <2>1, <2>2, BesideCoroutines DEF gateVars, CallKept, RequestInv, GateTypes
<1>2. ASSUME NEW r \in Request, Executor(r) PROVE RequestInv'
    BY <1>2, ExecutorStep
<1>3. ASSUME NEW c \in Http, Coroutine(c) PROVE RequestInv'
    BY <1>3, RouteStep, CollectStep, GiveUpStep, AbandonStep, TakeLeaseStep, OpenedStep,
       OpenAbandonedStep, OpenFailsStep, FailOverStep, ReadAllStep, UnleaseStep, UnslotStep
       DEF Coroutine
<1>4. ASSUME NEW c \in Http, Stream(c) PROVE RequestInv'
    BY <1>4, StreamStep
<1>5. ASSUME NEW i \in Instance, Environment(i) \/ HealthRefresh(i) PROVE RequestInv'
    BY <1>5, BesideStep
<1> QED BY <1>1, <1>2, <1>3, <1>4, <1>5 DEF GateNext

-----------------------------------------------------------------------------
(***************************************************************************)
(* The scheduler and the registry.  Beside the steps of GenerationSlots,   *)
(* the gateway sets a cancel event of a call in any state, counts leases   *)
(* and writes health: none of which touches the queue, its counters, or    *)
(* whether an instance is stopped.                                         *)
(***************************************************************************)
QuietStep ==
    /\ UNCHANGED <<waiting, active, ticket, sequence, call, notified, unloading>>
    /\ cancelled \subseteq cancelled' /\ cancelled' \in SUBSET Request
    /\ instances' \in [Instance -> InstanceRecord]
    /\ \A i \in Instance :
           /\ instances'[i].queued = instances[i].queued
           /\ \A s \in {"unloading", "stopped"} :
                  instances'[i].state = s <=> instances[i].state = s

(* What a lease and a health sample do to a record.                        *)
LEMMA LeaseRecord ==
    ASSUME NEW inst \in InstanceRecord
    PROVE  /\ CanAcquireLease(inst) =>
                /\ LeaseAcquired(inst) \in InstanceRecord
                /\ inst.state \notin {"unloading", "stopped"}
                /\ LeaseAcquired(inst).state = "busy"
                /\ LeaseAcquired(inst).queued = inst.queued
                /\ LeaseAcquired(inst).active = inst.active + 1
           /\ CanReleaseLease(inst) =>
                /\ LeaseReleased(inst) \in InstanceRecord
                /\ LeaseReleased(inst).state \in {inst.state, "ready"}
                /\ inst.state # "busy" => LeaseReleased(inst).state = inst.state
                /\ LeaseReleased(inst).queued = inst.queued
                /\ LeaseReleased(inst).active = inst.active - 1
           /\ \A h \in Health :
                /\ [inst EXCEPT !.health = h] \in InstanceRecord
                /\ [inst EXCEPT !.health = h].state = inst.state
                /\ [inst EXCEPT !.health = h].queued = inst.queued
                /\ [inst EXCEPT !.health = h].active = inst.active
<1>1. ASSUME CanAcquireLease(inst)
      PROVE  /\ LeaseAcquired(inst) \in InstanceRecord
             /\ inst.state \notin {"unloading", "stopped"}
             /\ LeaseAcquired(inst).state = "busy"
             /\ LeaseAcquired(inst).queued = inst.queued
             /\ LeaseAcquired(inst).active = inst.active + 1
    <2> DEFINE more == [inst EXCEPT !.active = @ + 1]
    <2>1. more \in InstanceRecord
        BY DEF InstanceRecord
    <2>2. [more EXCEPT !.state = "busy"] \in InstanceRecord
        BY <2>1 DEF InstanceRecord, Lifecycle
    <2>3. LeaseAcquired(inst) = [more EXCEPT !.state = "busy"]
        BY DEF LeaseAcquired, InstanceRecord
    <2> QED BY <1>1, <2>2, <2>3 DEF InstanceRecord, CanAcquireLease, Serving
<1>2. ASSUME CanReleaseLease(inst)
      PROVE  /\ LeaseReleased(inst) \in InstanceRecord
             /\ LeaseReleased(inst).state \in {inst.state, "ready"}
             /\ inst.state # "busy" => LeaseReleased(inst).state = inst.state
             /\ LeaseReleased(inst).queued = inst.queued
             /\ LeaseReleased(inst).active = inst.active - 1
    <2> DEFINE fewer == [inst EXCEPT !.active = @ - 1]
    <2>1. fewer \in InstanceRecord
        BY <1>2 DEF CanReleaseLease, InstanceRecord
    <2>2. [fewer EXCEPT !.state = "ready"] \in InstanceRecord
        BY <2>1 DEF InstanceRecord, Lifecycle
    <2> QED BY <2>1, <2>2 DEF LeaseReleased, Settled, InstanceRecord
<1>3. ASSUME NEW h \in Health
      PROVE  /\ [inst EXCEPT !.health = h] \in InstanceRecord
             /\ [inst EXCEPT !.health = h].state = inst.state
             /\ [inst EXCEPT !.health = h].queued = inst.queued
             /\ [inst EXCEPT !.health = h].active = inst.active
    BY DEF InstanceRecord
<1> QED BY <1>1, <1>2, <1>3

LEMMA HealthWrites ==
    ASSUME instances \in [Instance -> InstanceRecord], NEW i \in Instance, NEW h \in Health,
           instances' = [instances EXCEPT ![i].health = h]
    PROVE  /\ instances' \in [Instance -> InstanceRecord]
           /\ \A k \in Instance : /\ instances'[k].queued = instances[k].queued
                                  /\ instances'[k].active = instances[k].active
                                  /\ instances'[k].state = instances[k].state
<1> DEFINE sampled == [instances[i] EXCEPT !.health = h]
<1>1. instances' = [instances EXCEPT ![i] = sampled]
    OBVIOUS
<1>2. /\ sampled \in InstanceRecord
      /\ sampled.queued = instances[i].queued
      /\ sampled.active = instances[i].active
      /\ sampled.state = instances[i].state
    BY LeaseRecord
<1> HIDE DEF sampled
<1> QED BY <1>1, <1>2

LEMMA QuietSlots ==
    ASSUME SlotInv, QuietStep
    PROVE  SlotInv'
<1>1. QueueInv'
    BY DEF SlotInv, QueueInv, TypeOK, BooksAgree, Sleeping, QuietStep
<1>2. SlotExclusion'
    BY DEF SlotInv, SlotExclusion, QuietStep
<1>3. LifecycleInv'
    BY DEF SlotInv, QueueInv, TypeOK, LifecycleInv, QuietStep
<1>4. CountInv'
    <2>1. KeepsQueued
        BY DEF QuietStep, KeepsQueued, Keeps
    <2>2. Sleeping' = Sleeping
        BY DEF QuietStep, Sleeping
    <2> QED BY <2>1, <2>2, SameCount DEF SlotInv
<1> QED BY <1>1, <1>2, <1>3, <1>4 DEF SlotInv

LEMMA SlotsKept ==
    ASSUME SlotInv, [Next]_vars \/ QuietStep
    PROVE  SlotInv'
BY QuietSlots, StepQueue, StepExclusion, StepCount DEF SlotInv

(* The steps of the gateway that are not steps of the scheduler ...        *)
BesideScheduler ==
    \/ \E c \in Http :
          \/ GiveUp(c) \/ FailOver(c) \/ Unlease(c)
          \/ TakeLease(c) /\ CanAcquireLease(instances[InstanceFor(c)])
    \/ \E i \in Instance : HealthRefresh(i)

LEMMA SchedulerSteps ==
    ASSUME RequestInv, [GateNext]_allVars, ~BesideScheduler
    PROVE  [Next]_vars
<1>1. CASE UNCHANGED allVars
    BY <1>1 DEF allVars
<1>2. ASSUME NEW r \in Request, Executor(r) PROVE [Next]_vars
    BY <1>2 DEF Executor, WorkerAcquire, WorkerWake, Deposit, Next
<1>3. ASSUME NEW i \in Instance, Environment(i) PROVE [Next]_vars
    BY <1>3 DEF Environment, Next
<1>4. ASSUME NEW c \in Http, Stream(c) PROVE [Next]_vars
    <2>1. UNCHANGED vars
        BY <1>4 DEF Stream, ReaderEof, Disconnect, ResponseEnds, ReaderDropped, ReaderCloses,
           LoopCloses, Drain, FinishStream
    <2> QED BY <2>1
<1>5. ASSUME NEW c \in Http, Coroutine(c) PROVE [Next]_vars
    <2>1. CASE Route(c) \/ Collect(c) \/ Opened(c) \/ OpenAbandoned(c) \/ OpenFails(c) \/ ReadAll(c)
        BY <2>1 DEF Route, Collect, Opened, OpenAbandoned, OpenFails, ReadAll
    <2>2. ASSUME phase[c] \notin {"new", "done"} PROVE current[c] \in Request
        BY <2>2 DEF RequestInv, GateTypes, CallInv
    <2>3. CASE Abandon(c) \/ Unslot(c)
        BY <2>2, <2>3 DEF Abandon, Unslot, Next
    <2>4. CASE TakeLease(c)
        BY <2>2, <2>4 DEF TakeLease, Next, BesideScheduler
    <2> QED BY <1>5, <2>1, <2>3, <2>4 DEF Coroutine, BesideScheduler
<1> QED BY <1>1, <1>2, <1>3, <1>4, <1>5 DEF GateNext, BesideScheduler

(* ... are quiet.                                                          *)
LEMMA BesideIsQuiet ==
    ASSUME SlotInv, RequestInv, BesideScheduler
    PROVE  QuietStep
<1>0. instances \in [Instance -> InstanceRecord] /\ cancelled \in SUBSET Request
    BY DEF SlotInv, QueueInv, TypeOK
<1>1. ASSUME NEW i \in Instance, HealthRefresh(i) PROVE QuietStep
    BY <1>0, <1>1, HealthWrites DEF HealthRefresh, QuietStep, slotVars, Health
<1>2. ASSUME NEW c \in Http, phase[c] \notin {"new", "done"}
      PROVE  current[c] \in Request /\ InstanceFor(c) \in Instance
    BY <1>2, SlotAssumptions DEF SlotAssumptions, RequestInv, GateTypes, CallInv, InstanceFor
<1>3. ASSUME NEW c \in Http, GiveUp(c) PROVE QuietStep
    BY <1>0, <1>2, <1>3 DEF GiveUp, QuietStep
<1>4. ASSUME NEW c \in Http, FailOver(c) PROVE QuietStep
    <2>1. instances' = [instances EXCEPT ![InstanceFor(c)].health = "unready"]
        BY <1>4 DEF FailOver
    <2>2. "unready" \in Health /\ InstanceFor(c) \in Instance
        BY <1>2, <1>4 DEF FailOver, Health
    <2> QED BY <1>0, <1>4, <2>1, <2>2, HealthWrites DEF FailOver, QuietStep, slotVars
<1>5. ASSUME NEW c \in Http, Unlease(c) PROVE QuietStep
    <2>1. CASE CanReleaseLease(instances[InstanceFor(c)])
        BY <1>0, <1>2, <1>5, <2>1, LeaseRecord DEF Unlease, QuietStep, slotVars
    <2>2. CASE ~CanReleaseLease(instances[InstanceFor(c)])
        BY <1>0, <1>5, <2>2 DEF Unlease, QuietStep, slotVars
    <2> QED BY <2>1, <2>2
<1>6. ASSUME NEW c \in Http, TakeLease(c), CanAcquireLease(instances[InstanceFor(c)])
      PROVE  QuietStep
    BY <1>0, <1>2, <1>6, LeaseRecord DEF TakeLease, QuietStep, slotVars
<1> QED BY <1>1, <1>3, <1>4, <1>5, <1>6 DEF BesideScheduler

LEMMA StepKinds ==
    ASSUME SlotInv, RequestInv, [GateNext]_allVars
    PROVE  [Next]_vars \/ QuietStep
BY SchedulerSteps, BesideIsQuiet

-----------------------------------------------------------------------------
(***************************************************************************)
(* The count of the leases.                                                *)
(***************************************************************************)
HoldsLease == {"leased", "reading", "streaming", "unleasing"}

LEMMA SameLeases ==
    ASSUME LeaseInv, KeepsActive, Leased' = Leased, \A c \in Leased : current'[c] = current[c]
    PROVE  LeaseInv'
<1>1. \A i \in Instance : LeasedOn(i)' = LeasedOn(i)
    BY DEF LeasedOn, InstanceFor
<1>2. ActiveCountAgrees <=>
        \A i \in Instance : instances[i].active = IF instances[i].state = "stopped" THEN 0
                                                ELSE Cardinality(LeasedOn(i))
    BY DEF ActiveCountAgrees, LeasedOn
<1>3. ActiveCountAgrees' <=>
        \A i \in Instance : instances'[i].active = IF instances'[i].state = "stopped" THEN 0
                                                 ELSE Cardinality(LeasedOn(i)')
    BY DEF ActiveCountAgrees, LeasedOn
<1> QED BY <1>1, <1>2, <1>3 DEF LeaseInv, KeepsActive, Keeps

(* The steps of the scheduler keep the lease counters.                     *)
LEMMA StepActive ==
    ASSUME SlotInv, [Next]_vars
    PROVE  KeepsActive
<1>1. CASE UNCHANGED vars
    BY <1>1 DEF vars, KeepsActive, Keeps
<1>2. CASE Next
    BY <1>2, AcquireCount, WakeCount, ReleaseCount, EnvironmentCount DEF Next, SlotInv
<1> QED BY <1>1, <1>2

(* Acquiring one, which a registry record that serves allows.              *)
LEMMA LeaseAcquires ==
    ASSUME SlotInv, RequestInv, LeaseInv, NEW c \in Http, TakeLease(c),
           CanAcquireLease(instances[InstanceFor(c)])
    PROVE  LeaseInv'
<1>0. PICK j \in Instance : j = InstanceFor(c)
    BY SlotAssumptions
       DEF SlotAssumptions, RequestInv, GateTypes, CallInv, InstanceFor, TakeLease
<1>1. /\ phase[c] = "slotted"
      /\ instances \in [Instance -> InstanceRecord]
    BY DEF TakeLease, SlotInv, QueueInv, TypeOK
<1>2. /\ instances' = [instances EXCEPT ![j] = LeaseAcquired(@)]
      /\ phase' = [phase EXCEPT ![c] = "leased"] /\ current' = current
    BY <1>0 DEF TakeLease, Goto
<1>3. /\ instances[j].state # "stopped" /\ instances'[j].state # "stopped"
      /\ instances'[j].active = instances[j].active + 1
      /\ \A i \in Instance \ {j} : instances'[i] = instances[i]
    BY <1>0, <1>1, <1>2, LeaseRecord
<1>4. Leased' = Leased \cup {c} /\ c \notin Leased
    BY <1>1, <1>2 DEF Leased, RequestInv, GateTypes
<1>5. /\ LeasedOn(j)' = LeasedOn(j) \cup {c} /\ c \notin LeasedOn(j)
      /\ \A i \in Instance \ {j} : LeasedOn(i)' = LeasedOn(i)
    BY <1>0, <1>2, <1>4 DEF LeasedOn, InstanceFor
<1>6. /\ IsFiniteSet(LeasedOn(j) \cup {c})
      /\ Cardinality(LeasedOn(j) \cup {c}) = Cardinality(LeasedOn(j)) + 1
    BY <1>1, <1>5, FS_AddElement DEF LeaseInv
<1>7. ASSUME NEW i \in Instance
      PROVE  /\ IsFiniteSet(LeasedOn(i)')
             /\ instances'[i].active = IF instances'[i].state = "stopped" THEN 0
                                       ELSE Cardinality(LeasedOn(i)')
    <2>1. instances[i].active = IF instances[i].state = "stopped" THEN 0
                                ELSE Cardinality(LeasedOn(i))
        BY DEF LeaseInv, ActiveCountAgrees, LeasedOn
    <2>2. CASE i = j
        BY <1>3, <1>5, <1>6, <2>1, <2>2
    <2>3. CASE i # j
        BY <1>3, <1>5, <2>1, <2>3 DEF LeaseInv
    <2> QED BY <2>2, <2>3
<1> QED BY <1>7 DEF LeaseInv, ActiveCountAgrees, LeasedOn

(* Releasing one, which a stop may have done before.                       *)
LEMMA LeaseReleases ==
    ASSUME SlotInv, RequestInv, LeaseInv, NEW c \in Http, Unlease(c)
    PROVE  LeaseInv'
<1>0. PICK j \in Instance : j = InstanceFor(c)
    BY SlotAssumptions
       DEF SlotAssumptions, RequestInv, GateTypes, CallInv, InstanceFor, Unlease
<1>1. /\ phase[c] = "unleasing"
      /\ instances \in [Instance -> InstanceRecord]
    BY DEF Unlease, SlotInv, QueueInv, TypeOK
<1>2. /\ instances' = IF CanReleaseLease(instances[j])
                      THEN [instances EXCEPT ![j] = LeaseReleased(@)] ELSE instances
      /\ phase' = [phase EXCEPT ![c] = "unslotting"] /\ current' = current
    BY <1>0 DEF Unlease, Goto
<1>3. Leased' = Leased \ {c} /\ c \in Leased
    BY <1>1, <1>2 DEF Leased, RequestInv, GateTypes
<1>4. /\ LeasedOn(j)' = LeasedOn(j) \ {c} /\ c \in LeasedOn(j)
      /\ \A i \in Instance \ {j} : LeasedOn(i)' = LeasedOn(i)
    BY <1>0, <1>2, <1>3 DEF LeasedOn, InstanceFor
<1>5. /\ IsFiniteSet(LeasedOn(j) \ {c})
      /\ Cardinality(LeasedOn(j) \ {c}) = Cardinality(LeasedOn(j)) - 1
      /\ Cardinality(LeasedOn(j)) \in Nat /\ Cardinality(LeasedOn(j)) # 0
    <2>1. IsFiniteSet(LeasedOn(j))
        BY <1>1 DEF LeaseInv
    <2> QED BY <1>4, <2>1, FS_RemoveElement, FS_CardinalityType, FS_EmptySet
<1>6. instances[j].active = IF instances[j].state = "stopped" THEN 0 ELSE Cardinality(LeasedOn(j))
    BY <1>1 DEF LeaseInv, ActiveCountAgrees, LeasedOn
<1>7. CanReleaseLease(instances[j]) <=> instances[j].state # "stopped"
    BY <1>1, <1>5, <1>6 DEF CanReleaseLease
<1>8. /\ instances'[j].state = "stopped" <=> instances[j].state = "stopped"
      /\ instances[j].state # "stopped" => instances'[j].active = instances[j].active - 1
      /\ instances[j].state = "stopped" => instances'[j].active = instances[j].active
      /\ \A i \in Instance \ {j} : instances'[i] = instances[i]
    BY <1>1, <1>2, <1>7, LeaseRecord
<1>9. ASSUME NEW i \in Instance
      PROVE  /\ IsFiniteSet(LeasedOn(i)')
             /\ instances'[i].active = IF instances'[i].state = "stopped" THEN 0
                                       ELSE Cardinality(LeasedOn(i)')
    <2>1. CASE i = j
        BY <1>4, <1>5, <1>6, <1>8, <2>1
    <2>2. CASE i # j
        <3>1. instances[i].active = IF instances[i].state = "stopped" THEN 0
                                    ELSE Cardinality(LeasedOn(i))
            BY DEF LeaseInv, ActiveCountAgrees, LeasedOn
        <3> QED BY <1>4, <1>8, <2>2, <3>1 DEF LeaseInv
    <2> QED BY <2>1, <2>2
<1> QED BY <1>9 DEF LeaseInv, ActiveCountAgrees, LeasedOn

(* No other step starts or ends a lease, or changes what a leaseholder     *)
(* has the lease of.                                                       *)
LEMMA LeasesStay ==
    ASSUME RequestInv, [GateNext]_allVars,
           \A c \in Http : ~Unlease(c),
           \A c \in Http : TakeLease(c) => ~CanAcquireLease(instances[InstanceFor(c)])
    PROVE  Leased' = Leased /\ \A c \in Leased : current'[c] = current[c]
<1>0. phase \in [Http -> Phase] /\ current \in [Http -> Request \cup {None}]
    BY DEF RequestInv, GateTypes
<1>1. ASSUME phase' = phase, current' = current
      PROVE  Leased' = Leased /\ \A c \in Leased : current'[c] = current[c]
    BY <1>1 DEF Leased
<1>2. ASSUME NEW c \in Http, NEW p, phase' = [phase EXCEPT ![c] = p],
             p \in HoldsLease <=> phase[c] \in HoldsLease,
             \/ current' = current
             \/ phase[c] \notin HoldsLease /\ \E r : current' = [current EXCEPT ![c] = r]
      PROVE  Leased' = Leased /\ \A d \in Leased : current'[d] = current[d]
    BY <1>0, <1>2 DEF Leased, HoldsLease
<1>3. CASE UNCHANGED allVars
    BY <1>1, <1>3 DEF allVars, gateVars
<1>4. ASSUME NEW r \in Request, Executor(r) PROVE phase' = phase /\ current' = current
    BY <1>4 DEF Executor, WorkerAcquire, WorkerWake, Deposit, gateVars
<1>5. ASSUME NEW i \in Instance, Environment(i) \/ HealthRefresh(i)
      PROVE  phase' = phase /\ current' = current
    BY <1>5 DEF Environment, HealthRefresh, gateVars
<1>6. ASSUME NEW c \in Http, Stream(c)
      PROVE  Leased' = Leased /\ \A d \in Leased : current'[d] = current[d]
    <2>1. CASE phase' = phase
        BY <1>1, <1>6, <2>1 DEF Stream, ReaderEof, Disconnect, ResponseEnds, ReaderDropped,
           ReaderCloses, LoopCloses, Drain, FinishStream
    <2>2. CASE phase' # phase
        <3>1. PICK t \in {"reader", "loop", "drain"} : FinishStream(c, t)
            BY <1>6, <2>2 DEF Stream, ReaderEof, Disconnect, ResponseEnds, ReaderDropped,
               ReaderCloses, LoopCloses, Drain
        <3>2. phase' = [phase EXCEPT ![c] = "unleasing"] /\ current' = current
            BY <2>2, <3>1 DEF FinishStream, Goto
        <3>3. phase[c] = "streaming"
            BY <2>2, <3>1 DEF FinishStream, RequestInv, GateTypes, StreamInv
        <3> QED BY <1>2, <3>2, <3>3 DEF HoldsLease
    <2> QED BY <2>1, <2>2
<1>7. ASSUME NEW c \in Http, Coroutine(c)
      PROVE  Leased' = Leased /\ \A d \in Leased : current'[d] = current[d]
    <2>1. CASE Route(c)
        BY <1>2, <2>1 DEF Route, Select, Goto, HoldsLease
    <2>2. CASE Collect(c)
        BY <1>2, <2>2 DEF Collect, Goto, HoldsLease
    <2>3. CASE GiveUp(c)
        BY <1>2, <2>3 DEF GiveUp, Goto, HoldsLease
    <2>4. CASE Abandon(c)
        BY <1>2, <2>4 DEF Abandon, Goto, HoldsLease
    <2>5. CASE TakeLease(c)
        BY <1>2, <2>5 DEF TakeLease, Goto, HoldsLease
    <2>6. CASE Opened(c)
        BY <1>2, <2>6 DEF Opened, Goto, HoldsLease
    <2>7. CASE OpenAbandoned(c) \/ OpenFails(c)
        BY <1>2, <2>7 DEF OpenAbandoned, OpenFails, Goto, HoldsLease
    <2>8. CASE FailOver(c)
        BY <1>2, <2>8 DEF FailOver, Select, Goto, HoldsLease
    <2>9. CASE ReadAll(c)
        BY <1>2, <2>9 DEF ReadAll, Goto, HoldsLease
    <2>10. CASE Unslot(c)
        BY <1>2, <2>10 DEF Unslot, Goto, HoldsLease
    <2> QED BY <1>7, <2>1, <2>2, <2>3, <2>4, <2>5, <2>6, <2>7, <2>8, <2>9, <2>10 DEF Coroutine
<1> QED BY <1>1, <1>3, <1>4, <1>5, <1>6, <1>7 DEF GateNext

LEMMA LeaseStep ==
    ASSUME GateInv, [GateNext]_allVars
    PROVE  LeaseInv'
<1> USE DEF GateInv
<1>1. CASE \E c \in Http : Unlease(c)
    BY <1>1, LeaseReleases
<1>2. CASE \E c \in Http : TakeLease(c) /\ CanAcquireLease(instances[InstanceFor(c)])
    BY <1>2, LeaseAcquires
<1>3. CASE /\ \A c \in Http : ~Unlease(c)
           /\ \A c \in Http : TakeLease(c) => ~CanAcquireLease(instances[InstanceFor(c)])
    <2>1. Leased' = Leased /\ \A c \in Leased : current'[c] = current[c]
        BY <1>3, LeasesStay
    <2>2. CASE [Next]_vars
        BY <2>1, <2>2, StepActive, SameLeases
    <2>3. CASE ~[Next]_vars
        <3>1. KeepsActive
            <4>1. CASE \E c \in Http : GiveUp(c)
                BY <4>1 DEF GiveUp, KeepsActive, Keeps
            <4>2. ASSUME NEW c \in Http, FailOver(c) PROVE KeepsActive
                <5>1. /\ InstanceFor(c) \in Instance /\ "unready" \in Health
                      /\ instances \in [Instance -> InstanceRecord]
                    BY <4>2, SlotAssumptions DEF SlotAssumptions, RequestInv, GateTypes, CallInv,
                       InstanceFor, FailOver, Health, SlotInv, QueueInv, TypeOK
                <5>2. instances' = [instances EXCEPT ![InstanceFor(c)].health = "unready"]
                    BY <4>2 DEF FailOver
                <5> QED BY <5>1, <5>2, HealthWrites DEF KeepsActive, Keeps
            <4>3. ASSUME NEW i \in Instance, HealthRefresh(i) PROVE KeepsActive
                BY <4>3, HealthWrites
                   DEF HealthRefresh, Health, SlotInv, QueueInv, TypeOK, KeepsActive, Keeps
            <4>4. BesideScheduler
                BY <2>3, SchedulerSteps
            <4> QED BY <1>3, <4>1, <4>2, <4>3, <4>4 DEF BesideScheduler
        <3> QED BY <2>1, <3>1, SameLeases
    <2> QED BY <2>2, <2>3
<1> QED BY <1>1, <1>2, <1>3

-----------------------------------------------------------------------------
LEMMA GateInitHolds == GateInit => GateInv
<1> SUFFICES ASSUME GateInit PROVE GateInv
    OBVIOUS
<1>1. SlotInv
    BY InitQueue, InitCount DEF GateInit, Init, SlotInv, SlotExclusion
<1>2. RequestInv
    BY DEF GateInit, Init, RequestInv, GateTypes, Phase, HolderInv, CallInv, StreamInv, DrainInv,
       Slotted
<1>3. LeaseInv
    <2>1. \A i \in Instance : instances[i].active = 0
        BY DEF GateInit, Init, NewInstance
    <2>2. Leased = {}
        BY DEF GateInit, Leased
    <2>3. \A i \in Instance : LeasedOn(i) = {} /\ {c \in Leased : InstanceFor(c) = i} = {}
        BY <2>2 DEF LeasedOn
    <2> QED BY <2>1, <2>3, FS_EmptySet DEF LeaseInv, ActiveCountAgrees
<1> QED BY <1>1, <1>2, <1>3 DEF GateInv

LEMMA GateHolds == GateSpec => []GateInv
<1>1. GateInv /\ [GateNext]_allVars => GateInv'
    BY StepKinds, SlotsKept, RequestStep, LeaseStep DEF GateInv
<1> QED BY <1>1, GateInitHolds, PTL DEF GateSpec

(***************************************************************************)
(* Every variable of the gateway, its scheduler and its registry keeps its *)
(* type (the gateway's handlers).                                          *)
(***************************************************************************)
THEOREM GateTypeCorrect == GateSpec => []GateTypeOK
<1>1. GateInv => GateTypeOK
    BY DEF GateInv, SlotInv, QueueInv, RequestInv, GateTypes, GateTypeOK
<1> QED BY <1>1, GateHolds, PTL

(***************************************************************************)
(* Two requests never talk to runtimes on overlapping machines at the same *)
(* time, on any path through failover, drain, disconnect and double close: *)
(* a connection is only open while its request has the slot of its call.   *)
(***************************************************************************)
THEOREM ConnectionsExclusive == GateSpec => []RuntimesNeverOverlap
<1>1. GateInv => RuntimesNeverOverlap
    <2> SUFFICES ASSUME GateInv, NEW c \in Http, NEW d \in Http, c # d,
                        upstream[c] \in {"open", "eof"}, upstream[d] \in {"open", "eof"}
                 PROVE  ~Overlaps(current[c], current[d])
        BY DEF RuntimesNeverOverlap
    <2>1. ASSUME NEW e \in {c, d} PROVE current[e] \in tried[e] \cap active
        <3>1. phase[e] \in {"reading", "streaming"}
            BY DEF GateInv, RequestInv, StreamInv
        <3> QED BY <3>1 DEF GateInv, RequestInv, GateTypes, CallInv, Slotted, SlotInv, QueueInv,
                BooksAgree
    <2>2. current[c] # current[d]
        BY <2>1, DisjointCalls DEF GateInv, RequestInv
    <2> QED BY <2>1, <2>2 DEF GateInv, SlotInv, SlotExclusion
<1> QED BY <1>1, GateHolds, PTL

(***************************************************************************)
(* active_request_count is the number of requests that hold a lease: each  *)
(* lease is returned once, whichever of the threads ends the request.      *)
(***************************************************************************)
THEOREM ActiveCountCorrect == GateSpec => []ActiveCountAgrees
<1>1. GateInv => ActiveCountAgrees
    BY DEF GateInv, LeaseInv
<1> QED BY <1>1, GateHolds, PTL

(***************************************************************************)
(* A request that is over holds no slot that is not about to be returned   *)
(* (release_gateway_resources and the holder of _acquire_generation_slot). *)
(***************************************************************************)
THEOREM RequestsReturnSlots == GateSpec => []DoneHoldsNothing
<1>1. GateInv => DoneHoldsNothing
    BY DEF GateInv, SlotInv, QueueInv, TypeOK, BooksAgree, RequestInv, CallInv, Settles, Over,
       DoneHoldsNothing
<1> QED BY <1>1, GateHolds, PTL

(***************************************************************************)
(* The response of a collective whose client has left is read to its       *)
(* terminal chunk before anything closes it (close_gateway_stream).        *)
(***************************************************************************)
THEOREM CollectivesDrained == GateSpec => CollectiveIsDrained
<1>1. ASSUME GateInv, [GateNext]_allVars, NEW c \in disconnected, upstream[c] = "open"
      PROVE  upstream'[c] # "closed"
    <2>0. c \in Http /\ upstream \in [Http -> {"none", "open", "eof", "closed"}]
        BY <1>1 DEF GateInv, RequestInv, GateTypes
    <2>1. CASE UNCHANGED allVars
        BY <1>1, <2>1 DEF allVars, gateVars
    <2>2. ASSUME NEW r \in Request, Executor(r) PROVE upstream' = upstream
        BY <2>2 DEF Executor, WorkerAcquire, WorkerWake, Deposit, gateVars
    <2>3. ASSUME NEW i \in Instance, Environment(i) \/ HealthRefresh(i)
          PROVE  upstream' = upstream
        BY <2>3 DEF Environment, HealthRefresh, gateVars
    <2>4. ASSUME NEW d \in Http, Coroutine(d) PROVE upstream'[c] # "closed"
        <3>1. CASE ReadAll(d)
            <4>1. phase[c] # "reading"
                BY <1>1, <2>0 DEF GateInv, RequestInv, StreamInv
            <4> QED BY <1>1, <2>0, <3>1, <4>1 DEF ReadAll
        <3>2. CASE ~ReadAll(d)
            BY <1>1, <2>0, <2>4, <3>2 DEF Coroutine, Route, Collect, GiveUp, Abandon, TakeLease,
               Opened, OpenAbandoned, OpenFails, FailOver, Unlease, Unslot
        <3> QED BY <3>1, <3>2
    <2>5. ASSUME NEW d \in Http, Stream(d) PROVE upstream'[c] # "closed"
        <3>1. ASSUME NEW t \in {"reader", "loop", "drain"}, FinishStream(d, t)
              PROVE  upstream'[c] # "closed"
            <4>1. c \in closed \/ finishing[c] = {}
                BY <1>1, <2>0 DEF GateInv, RequestInv, DrainInv
            <4> QED BY <1>1, <2>0, <3>1, <4>1 DEF FinishStream
        <3> QED BY <1>1, <2>0, <2>5, <3>1 DEF Stream, ReaderEof, Disconnect, ResponseEnds,
                ReaderDropped, ReaderCloses, LoopCloses, Drain
    <2> QED BY <1>1, <2>1, <2>2, <2>3, <2>4, <2>5 DEF GateNext
<1>2. GateInv /\ [GateNext]_allVars =>
          [\A c \in disconnected : upstream[c] = "open" => upstream'[c] # "closed"]_allVars
    BY <1>1
<1> QED BY <1>2, GateHolds, PTL DEF GateSpec, CollectiveIsDrained

-----------------------------------------------------------------------------
(***************************************************************************)
(* What the scheduler promises, it promises the gateway too, although the  *)
(* gateway writes the registry's records beside it: exclusion, the queue   *)
(* counter, and exclusive ownership of machines.                           *)
(***************************************************************************)
THEOREM GatewayKeepsSlots ==
    GateSpec => [](SlotExclusion /\ BooksAgree /\ QueuedCountAgrees)
<1>1. GateInv => SlotExclusion /\ BooksAgree /\ QueuedCountAgrees
    BY DEF GateInv, SlotInv, QueueInv, CountInv
<1> QED BY <1>1, GateHolds, PTL

(***************************************************************************)
(* FIFO among overlapping requests, for the calls of the gateway.          *)
(***************************************************************************)
THEOREM GatewayIsFifo == GateSpec => NoOvertaking
<1>1. GateInit => TicketOrder
    BY DEF GateInit, Init, TicketOrder, Sleeping
<1>2. GateInv /\ TicketOrder /\ [GateNext]_allVars => TicketOrder'
    <2>1. ASSUME TicketOrder, QuietStep PROVE TicketOrder'
        BY <2>1 DEF TicketOrder, QuietStep, Sleeping
    <2> QED BY <2>1, StepKinds, StepOrder DEF GateInv, SlotInv
<1>3. GateSpec => []TicketOrder
    BY <1>1, <1>2, GateHolds, PTL DEF GateSpec
<1>4. GateInv /\ TicketOrder /\ [GateNext]_allVars =>
          [\A r \in active' \ active : \A s \in Sleeping' :
               Overlaps(r, s) => ticket'[r] < ticket'[s]]_vars
    <2>1. ASSUME QuietStep PROVE active' = active
        BY <2>1 DEF QuietStep
    <2> QED BY <2>1, StepKinds, FifoStep DEF GateInv, SlotInv
<1> QED BY <1>3, <1>4, GateHolds, PTL DEF GateSpec, NoOvertaking

(***************************************************************************)
(* Every behaviour of the gateway is, for the machines, a behaviour of     *)
(* exclusive ownership.                                                    *)
(***************************************************************************)
THEOREM GatewayImplementsOwnership == GateSpec => ImplementsOwnership
<1>1. GateInit => Ownership!OwnerInit
    BY DEF GateInit, Init, Ownership!OwnerInit, Owner
<1>2. GateInv /\ GateInv' /\ [GateNext]_allVars => [Ownership!OwnerNext]_Owner
    <2>1. ASSUME QuietStep PROVE Owner' = Owner
        BY <2>1 DEF QuietStep, Owner, Footprint, Nodes
    <2> QED BY <2>1, StepKinds, OwnershipStep DEF GateInv, SlotInv
<1> QED BY <1>1, <1>2, GateHolds, PTL DEF GateSpec, ImplementsOwnership, Ownership!OwnerSpec
=============================================================================
