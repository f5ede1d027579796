------------------------------ MODULE Gateway ------------------------------
(***************************************************************************)
(* The node agent's chat gateway (POST /v1/chat/completions of             *)
(* tokenity/node_agent/agent.py) over GenerationSlots: an HTTP request     *)
(* routes to an instance, gets a generation slot from an executor thread,  *)
(* takes a request lease in the registry, opens the runtime's HTTP         *)
(* endpoint, and relays or drains the answer; lease and slot go back once. *)
(*                                                                         *)
(* Three kinds of thread meet here: the event loop (one coroutine per HTTP *)
(* request), the executor thread in acquire(), and, for a stream, the      *)
(* thread that iterates the body and the one that drains it.  A step of    *)
(* the coroutine runs from one await to the next.                          *)
(*                                                                         *)
(* Each call of acquire() a request may make is a member of CallsOf: one   *)
(* for each instance the router may select for it.  Which candidate the    *)
(* router prefers (load, round robin) is left open.                        *)
(***************************************************************************)
EXTENDS GenerationSlots

CONSTANTS
    Http,         \* HTTP requests
    CallsOf,      \* CallsOf[c]: the acquire() calls c may make
    Streamed,     \* requests with "stream": true
    Collective    \* calls whose instance spans ranks over jaccl

ASSUME GatewayAssumptions ==
    /\ CallsOf \in [Http -> SUBSET Request]
    /\ \A c, d \in Http : c # d => CallsOf[c] \cap CallsOf[d] = {}
    /\ \A c \in Http : \A r, s \in CallsOf[c] :
            r # s => InstanceOf[r] # InstanceOf[s]
    /\ Cancellable = Request
    /\ Timed = Request
    /\ Streamed \subseteq Http
    /\ Collective \subseteq Request

None == UnknownNode      \* no call yet

VARIABLES
    phase,         \* where each request's coroutine is
    current,       \* the call for the instance selected last
    tried,         \* attempted_instances, as calls
    holder,        \* leases an executor thread put into its holder
    taken,         \* leases the coroutine has returned with
    failed,        \* requests that release in order to fail over
    upstream,      \* the runtime's response: none, open, eof, closed
    response,      \* the streaming response on the event loop
    reader,        \* the thread that iterates a stream's body
    disconnected,  \* client_disconnected
    draining,      \* drain_started
    finishing,     \* threads about to run finish_gateway_stream
    closed         \* stream_closed

streamVars == <<response, reader, disconnected, draining, finishing, closed>>
gateVars == <<phase, current, tried, holder, taken, failed, upstream, streamVars>>
allVars == <<vars, gateVars>>

Phase == {"new", "acquiring", "abandoning", "slotted", "leased", "reading",
          "streaming", "unleasing", "unslotting", "failover", "done"}

GateInit ==
    /\ Init
    /\ phase = [c \in Http |-> "new"]
    /\ current = [c \in Http |-> None]
    /\ tried = [c \in Http |-> {}]
    /\ holder = {}
    /\ taken = {}
    /\ failed = {}
    /\ upstream = [c \in Http |-> "none"]
    /\ response = [c \in Http |-> "none"]
    /\ reader = [c \in Http |-> "none"]
    /\ disconnected = {}
    /\ draining = {}
    /\ finishing = [c \in Http |-> {}]
    /\ closed = {}

Goto(c, p) == phase' = [phase EXCEPT ![c] = p]

InstanceFor(c) == InstanceOf[current[c]]

-----------------------------------------------------------------------------
(* Routing: InstanceRouter.resolve's candidates.                           *)

Eligible(r) ==
    /\ Serving(instances[InstanceOf[r]])
    /\ instances[InstanceOf[r]].health # "unready"

Select(c, r) ==
    /\ current' = [current EXCEPT ![c] = r]
    /\ tried' = [tried EXCEPT ![c] = @ \cup {r}]
    /\ Goto(c, "acquiring")

(* A request arrives: it selects a candidate, or answers 409.              *)
Route(c) ==
    /\ phase[c] = "new"
    /\ \/ \E r \in CallsOf[c] : Eligible(r) /\ Select(c, r)
       \/ /\ \A r \in CallsOf[c] : ~Eligible(r)
          /\ Goto(c, "done")
          /\ UNCHANGED <<current, tried>>
    /\ UNCHANGED <<vars, holder, taken, failed, upstream, streamVars>>

-----------------------------------------------------------------------------
(* _acquire_generation_slot: the executor thread.                          *)

Submitted(r) == \E c \in Http : r \in tried[c]

WorkerAcquire(r) ==
    /\ Submitted(r)
    /\ Acquire(r)
    /\ UNCHANGED gateVars

WorkerWake(r) ==
    /\ Wake(r)
    /\ UNCHANGED gateVars

(* Broken variant: the lease is deposited whatever the event says.         *)
DepositUnchecked(r) ==
    /\ call[r] = "granted"
    /\ r \notin holder \cup taken
    /\ holder' = holder \cup {r}
    /\ UNCHANGED <<vars, phase, current, tried, taken, failed, upstream,
                   streamVars>>

(* acquire() has returned a lease: keep it for the coroutine, unless the   *)
(* coroutine has given up in the meantime.                                 *)
Deposit(r) ==
    /\ call[r] = "granted"
    /\ r \notin holder \cup taken
    /\ \/ /\ r \in cancelled
          /\ Release(r)
          /\ UNCHANGED holder
       \/ /\ r \notin cancelled
          /\ holder' = holder \cup {r}
          /\ UNCHANGED vars
    /\ UNCHANGED <<phase, current, tried, taken, failed, upstream, streamVars>>

(* The coroutine's side: the future is done, with a lease or an exception. *)
Collect(c) ==
    /\ phase[c] = "acquiring"
    /\ \/ /\ current[c] \in holder
          /\ holder' = holder \ {current[c]}
          /\ taken' = taken \cup {current[c]}
          /\ Goto(c, "slotted")
       \/ /\ call[current[c]] \in {"full", "timeout", "conflict"}
          /\ Goto(c, "done")
          /\ UNCHANGED <<holder, taken>>
    /\ UNCHANGED <<vars, current, tried, failed, upstream, streamVars>>

(* The client is gone, or the coroutine is cancelled: the event is set ... *)
GiveUp(c) ==
    /\ phase[c] = "acquiring"
    /\ cancelled' = cancelled \cup {current[c]}
    /\ Goto(c, "abandoning")
    /\ UNCHANGED <<waiting, active, ticket, sequence, call, notified,
                   instances, unloading>>
    /\ UNCHANGED <<current, tried, holder, taken, failed, upstream, streamVars>>

(* ... and then a lease that is in the holder already is returned.         *)
Abandon(c) ==
    /\ phase[c] = "abandoning"
    /\ \/ /\ current[c] \in holder
          /\ holder' = holder \ {current[c]}
          /\ Release(current[c])
       \/ /\ current[c] \notin holder
          /\ UNCHANGED <<vars, holder>>
    /\ Goto(c, "done")
    /\ UNCHANGED <<current, tried, taken, failed, upstream, streamVars>>

-----------------------------------------------------------------------------
(* The request lease, and the connection to the runtime.                   *)

TakeLease(c) ==
    /\ phase[c] = "slotted"
    /\ \/ /\ CanAcquireLease(instances[InstanceFor(c)])
          /\ instances' = [instances EXCEPT ![InstanceFor(c)] = LeaseAcquired(@)]
          /\ Goto(c, "leased")
          /\ UNCHANGED <<slotVars, unloading>>
       \/ /\ ~CanAcquireLease(instances[InstanceFor(c)])
          /\ Release(current[c])
          /\ Goto(c, "done")
    /\ UNCHANGED <<current, tried, holder, taken, failed, upstream, streamVars>>

Opened(c) ==
    /\ phase[c] = "leased"
    /\ upstream' = [upstream EXCEPT ![c] = "open"]
    /\ \/ /\ c \in Streamed
          /\ response' = [response EXCEPT ![c] = "sending"]
          /\ reader' = [reader EXCEPT ![c] = "reading"]
          /\ Goto(c, "streaming")
       \/ /\ c \notin Streamed
          /\ Goto(c, "reading")
          /\ UNCHANGED <<response, reader>>
    /\ UNCHANGED <<vars, current, tried, holder, taken, failed,
                   disconnected, draining, finishing, closed>>

(* The client is gone before the open, or the coroutine is cancelled in it *)
(* (_run_gateway_open then closes what opens late).                        *)
OpenAbandoned(c) ==
    /\ phase[c] = "leased"
    /\ Goto(c, "unleasing")
    /\ UNCHANGED <<vars, current, tried, holder, taken, failed, upstream,
                   streamVars>>

(* The runtime refuses, or answers 5xx: release, then try another one.     *)
OpenFails(c) ==
    /\ phase[c] = "leased"
    /\ failed' = failed \cup {c}
    /\ Goto(c, "unleasing")
    /\ UNCHANGED <<vars, current, tried, holder, taken, upstream, streamVars>>

FailOver(c) ==
    /\ phase[c] = "failover"
    /\ failed' = failed \ {c}
    /\ instances' = [instances EXCEPT ![InstanceFor(c)].health = "unready"]
    /\ LET candidates == {r \in CallsOf[c] \ tried[c] : Eligible(r)}
       IN  \/ \E r \in candidates : Select(c, r)
           \/ candidates = {} /\ Goto(c, "done") /\ UNCHANGED <<current, tried>>
    /\ UNCHANGED <<slotVars, unloading, holder, taken, upstream, streamVars>>

(* A full response is read in a thread; the finally clause closes.         *)
ReadAll(c) ==
    /\ phase[c] = "reading"
    /\ upstream' = [upstream EXCEPT ![c] = "closed"]
    /\ Goto(c, "unleasing")
    /\ UNCHANGED <<vars, current, tried, holder, taken, failed, streamVars>>

-----------------------------------------------------------------------------
(* A streaming response.                                                   *)

(* The body iterator reads the terminal chunk (or its read fails).         *)
ReaderEof(c) ==
    /\ reader[c] = "reading"
    /\ upstream' = [upstream EXCEPT ![c] = IF @ = "open" THEN "eof" ELSE @]
    /\ reader' = [reader EXCEPT ![c] = "ended"]
    /\ UNCHANGED <<vars, phase, current, tried, holder, taken, failed,
                   response, disconnected, draining, finishing, closed>>

(* http.disconnect arrives: disconnect_gateway_stream, then the response's *)
(* task group ends.                                                        *)
Disconnect(c) ==
    /\ response[c] = "sending"
    /\ response' = [response EXCEPT ![c] = "ended"]
    /\ disconnected' = IF current[c] \in Collective
                       THEN disconnected \cup {c} ELSE disconnected
    /\ UNCHANGED <<vars, phase, current, tried, holder, taken, failed, upstream,
                   reader, draining, finishing, closed>>

(* The whole body was sent, or a send failed.                              *)
ResponseEnds(c) ==
    /\ response[c] = "sending"
    /\ response' = [response EXCEPT ![c] = "ended"]
    /\ UNCHANGED <<vars, phase, current, tried, holder, taken, failed, upstream,
                   reader, disconnected, draining, finishing, closed>>

(* The iterator of an ended response is dropped before its last chunk.     *)
ReaderDropped(c) ==
    /\ reader[c] = "reading"
    /\ response[c] \in {"ended", "closed"}
    /\ reader' = [reader EXCEPT ![c] = "ended"]
    /\ UNCHANGED <<vars, phase, current, tried, holder, taken, failed, upstream,
                   response, disconnected, draining, finishing, closed>>

(* Broken variant: a stream whose client has left is not drained.          *)
CloseStreamAtOnce(c, t) ==
    /\ finishing' = IF c \in closed THEN finishing
                    ELSE [finishing EXCEPT ![c] = @ \cup {t}]
    /\ UNCHANGED draining

(* close_gateway_stream under stream_close_lock.                           *)
CloseStream(c, t) ==
    \/ /\ c \in closed \/ (c \in disconnected /\ c \in draining)
       /\ UNCHANGED <<draining, finishing>>
    \/ /\ c \notin closed
       /\ c \in disconnected \ draining
       /\ draining' = draining \cup {c}
       /\ UNCHANGED finishing
    \/ /\ c \notin closed \cup disconnected
       /\ finishing' = [finishing EXCEPT ![c] = @ \cup {t}]
       /\ UNCHANGED draining

ReaderCloses(c) ==
    /\ reader[c] = "ended"
    /\ reader' = [reader EXCEPT ![c] = "closed"]
    /\ CloseStream(c, "reader")
    /\ UNCHANGED <<vars, phase, current, tried, holder, taken, failed, upstream,
                   response, disconnected, closed>>

LoopCloses(c) ==
    /\ response[c] = "ended"
    /\ response' = [response EXCEPT ![c] = "closed"]
    /\ CloseStream(c, "loop")
    /\ UNCHANGED <<vars, phase, current, tried, holder, taken, failed, upstream,
                   reader, disconnected, closed>>

(* The drain thread reads to the end, or finds the connection closed.      *)
Drain(c) ==
    /\ c \in draining \ closed
    /\ "drain" \notin finishing[c]
    /\ upstream' = [upstream EXCEPT ![c] = IF @ = "open" THEN "eof" ELSE @]
    /\ finishing' = [finishing EXCEPT ![c] = @ \cup {"drain"}]
    /\ UNCHANGED <<vars, phase, current, tried, holder, taken, failed,
                   response, reader, disconnected, draining, closed>>

(* Broken variants: the connection stays open, and no stream_closed flag.  *)
FinishStillOpen(c, t) ==
    /\ t \in finishing[c]
    /\ finishing' = [finishing EXCEPT ![c] = @ \ {t}]
    /\ closed' = closed \cup {c}
    /\ IF c \in closed THEN UNCHANGED phase ELSE Goto(c, "unleasing")
    /\ UNCHANGED <<vars, current, tried, holder, taken, failed, upstream,
                   response, reader, disconnected, draining>>
FinishAgain(c, t) ==
    /\ t \in finishing[c]
    /\ finishing' = [finishing EXCEPT ![c] = @ \ {t}]
    /\ closed' = closed \cup {c}
    /\ upstream' = [upstream EXCEPT ![c] = "closed"]
    /\ Goto(c, "unleasing")
    /\ UNCHANGED <<vars, current, tried, holder, taken, failed,
                   response, reader, disconnected, draining>>

(* finish_gateway_stream: the first thread through closes and releases.    *)
FinishStream(c, t) ==
    /\ t \in finishing[c]
    /\ finishing' = [finishing EXCEPT ![c] = @ \ {t}]
    /\ \/ /\ c \notin closed
          /\ closed' = closed \cup {c}
          /\ upstream' = [upstream EXCEPT ![c] = "closed"]
          /\ Goto(c, "unleasing")
       \/ /\ c \in closed
          /\ UNCHANGED <<closed, upstream, phase>>
    /\ UNCHANGED <<vars, current, tried, holder, taken, failed,
                   response, reader, disconnected, draining>>

-----------------------------------------------------------------------------
(* release_gateway_resources: the lease, then, whatever came of it, the    *)
(* slot.                                                                   *)

(* Broken variants: the refusal of the registry is not looked at, or skips *)
(* the slot's release as well.                                             *)
UnleaseUnchecked(c) ==
    /\ phase[c] = "unleasing"
    /\ instances' = [instances EXCEPT ![InstanceFor(c)] = LeaseReleased(@)]
    /\ Goto(c, "unslotting")
    /\ UNCHANGED <<slotVars, unloading, current, tried, holder, taken, failed,
                   upstream, streamVars>>
UnleaseOrStop(c) ==
    /\ phase[c] = "unleasing"
    /\ instances' = IF CanReleaseLease(instances[InstanceFor(c)])
                    THEN [instances EXCEPT ![InstanceFor(c)] = LeaseReleased(@)]
                    ELSE instances
    /\ Goto(c, IF CanReleaseLease(instances[InstanceFor(c)])
               THEN "unslotting" ELSE "done")
    /\ UNCHANGED <<slotVars, unloading, current, tried, holder, taken, failed,
                   upstream, streamVars>>

Unlease(c) ==
    /\ phase[c] = "unleasing"
    /\ instances' = IF CanReleaseLease(instances[InstanceFor(c)])
                    THEN [instances EXCEPT ![InstanceFor(c)] = LeaseReleased(@)]
                    ELSE instances
    /\ Goto(c, "unslotting")
    /\ UNCHANGED <<slotVars, unloading, current, tried, holder, taken, failed,
                   upstream, streamVars>>

Unslot(c) ==
    /\ phase[c] = "unslotting"
    /\ Release(current[c])
    /\ Goto(c, IF c \in failed THEN "failover" ELSE "done")
    /\ UNCHANGED <<current, tried, holder, taken, failed, upstream, streamVars>>

-----------------------------------------------------------------------------
(* Everything else that touches the instances.                             *)

(* instance_quorum samples an instance's health.                           *)
HealthRefresh(i) ==
    /\ Serving(instances[i])
    /\ instances' = [instances EXCEPT ![i].health = "ready"]
    /\ UNCHANGED <<slotVars, unloading, gateVars>>

Environment(i) ==
    (UnloadCheck(i) \/ UnloadAssign(i) \/ Stop(i) \/ Fail(i)) /\ UNCHANGED gateVars

Executor(r) == WorkerAcquire(r) \/ WorkerWake(r) \/ Deposit(r)

Coroutine(c) ==
    \/ Route(c) \/ Collect(c) \/ GiveUp(c) \/ Abandon(c)
    \/ TakeLease(c) \/ Opened(c) \/ OpenAbandoned(c) \/ OpenFails(c)
    \/ FailOver(c) \/ ReadAll(c) \/ Unlease(c) \/ Unslot(c)

Stream(c) ==
    \/ ReaderEof(c) \/ Disconnect(c) \/ ResponseEnds(c) \/ ReaderDropped(c)
    \/ ReaderCloses(c) \/ LoopCloses(c) \/ Drain(c)
    \/ \E t \in {"reader", "loop", "drain"} : FinishStream(c, t)

GateNext ==
    \/ \E r \in Request : Executor(r)
    \/ \E c \in Http : Coroutine(c) \/ Stream(c)
    \/ \E i \in Instance : Environment(i) \/ HealthRefresh(i)

GateSpec == GateInit /\ [][GateNext]_allVars

(***************************************************************************)
(* Fairness.  Every thread runs while it can.  The runtime answers an open *)
(* and ends a body, or the 600-second socket timeout does (ReaderEof,      *)
(* Drain, ReadAll); a response whose body has ended ends.  Queue timeouts, *)
(* disconnects, stops and arrivals are not fair.                           *)
(***************************************************************************)
GateFairness ==
    /\ \A r \in Request :
        /\ WF_allVars(WorkerAcquire(r))
        /\ WF_allVars((WakeCancelled(r) \/ WakeGranted(r)) /\ UNCHANGED gateVars)
        /\ WF_allVars(Deposit(r))
    /\ \A c \in Http :
        /\ WF_allVars(Collect(c) \/ Abandon(c) \/ TakeLease(c) \/ FailOver(c))
        /\ WF_allVars(Opened(c) \/ OpenFails(c))
        /\ WF_allVars(ReadAll(c) \/ Unlease(c) \/ Unslot(c))
        /\ WF_allVars(ReaderEof(c) \/ ReaderDropped(c) \/ ReaderCloses(c))
        /\ WF_allVars(ResponseEnds(c) \/ LoopCloses(c))
        /\ WF_allVars(Drain(c))
        /\ WF_allVars(\E t \in {"reader", "loop", "drain"} : FinishStream(c, t))

FairGateSpec == GateSpec /\ GateFairness

-----------------------------------------------------------------------------
(* Properties.                                                             *)

GateTypeOK ==
    /\ TypeOK
    /\ phase \in [Http -> Phase]
    /\ current \in [Http -> Request \cup {None}]
    /\ tried \in [Http -> SUBSET Request]
    /\ holder \in SUBSET Request
    /\ taken \in SUBSET Request
    /\ failed \in SUBSET Http
    /\ upstream \in [Http -> {"none", "open", "eof", "closed"}]
    /\ response \in [Http -> {"none", "sending", "ended", "closed"}]
    /\ reader \in [Http -> {"none", "reading", "ended", "closed"}]
    /\ disconnected \in SUBSET Http
    /\ draining \in SUBSET Http
    /\ finishing \in [Http -> SUBSET {"reader", "loop", "drain"}]
    /\ closed \in SUBSET Http

(* The requests between acquire_request_lease and release_request_lease.   *)
Leased == {c \in Http : phase[c] \in {"leased", "reading", "streaming", "unleasing"}}

(***************************************************************************)
(* What the slots are for: two requests never talk to runtimes on          *)
(* overlapping machines at the same time.  The connection's life has to    *)
(* lie inside the slot's on every path: failover, drain, double close, a   *)
(* disconnect while the executor thread is being granted.                  *)
(***************************************************************************)
RuntimesNeverOverlap ==
    \A c, d \in Http :
        /\ c # d
        /\ upstream[c] \in {"open", "eof"}
        /\ upstream[d] \in {"open", "eof"}
        => ~Overlaps(current[c], current[d])

(***************************************************************************)
(* active_request_count is the number of requests that hold a lease, so    *)
(* each lease is returned exactly once on every path; a stop resets it.    *)
(***************************************************************************)
ActiveCountAgrees ==
    \A i \in Instance :
        instances[i].active =
            IF instances[i].state = "stopped" THEN 0
            ELSE Cardinality({c \in Leased : InstanceFor(c) = i})

(***************************************************************************)
(* A request that is over holds no lease of the scheduler, unless its      *)
(* executor thread has yet to notice (Deposit returns it then).            *)
(***************************************************************************)
DoneHoldsNothing ==
    \A c \in Http : phase[c] = "done" =>
        \A r \in tried[c] \cap active : r \in cancelled \ (holder \cup taken)

(***************************************************************************)
(* A client that disconnects does not break a collective: the slot of a    *)
(* jaccl stream whose client left is not given up before its response was  *)
(* read to the terminal frame (the comment in disconnect_gateway_stream).  *)
(***************************************************************************)
CollectiveIsDrained ==
    [][\A c \in disconnected :
            upstream[c] = "open" => upstream'[c] # "closed"]_allVars

(***************************************************************************)
(* Every request that arrives is answered and gives everything back.       *)
(***************************************************************************)
EveryRequestReturns ==
    \A c \in Http :
        phase[c] # "new" ~> /\ phase[c] = "done"
                           /\ tried[c] \cap (active \cup Sleeping) = {}

(***************************************************************************)
(* docs/http-node-agent.md:41: stopping an instance is refused while an    *)
(* inference request is active.  Violated: the stop's check of the counter *)
(* and its assignment of the state are not atomic with the lease.          *)
(***************************************************************************)
StopRefusedWhileLeased ==
    \A c \in Leased : instances[InstanceFor(c)].state # "unloading"
=============================================================================
