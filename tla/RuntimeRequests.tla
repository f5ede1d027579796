-------------------------- MODULE RuntimeRequests --------------------------
(***************************************************************************)
(* Rank 0 of the runtime process (TokenityDistributedRuntime and its HTTP  *)
(* application, tokenity/serving/distributed_openai.py): the readiness     *)
(* phase, which a monitor thread, the stop handler and every request       *)
(* assign, and the life of a chat request from its arrival to its release. *)
(*                                                                         *)
(* A streamed request is a coroutine on the event loop with its own worker *)
(* threads: one runs _begin_generation, the others call next() on the      *)
(* response iterator or drain it.  A plain request does all of it in one   *)
(* thread.  A coroutine runs from one await to the next, so no two streams *)
(* interleave inside a handler, but threads come in anywhere.              *)
(*                                                                         *)
(* A generation has an owner: in single mode the request that holds        *)
(* _single_generation_lock, which the iterator's finally clause releases;  *)
(* in distributed mode the request the generation thread works on (MLX-LM, *)
(* external), which ends whether or not anybody reads the iterator.        *)
(***************************************************************************)
EXTENDS Naturals, FiniteSets

CONSTANTS
    Stream,      \* requests with "stream": true
    Plain,       \* the others
    NoRequest

ASSUME RuntimeAssumptions ==
    /\ IsFiniteSet(Stream \cup Plain)
    /\ Stream \cap Plain = {}
    /\ NoRequest \notin Stream \cup Plain

Request == Stream \cup Plain

VARIABLES
    mode,        \* execution_mode and connection_mode, fixed
    phase,       \* state.phase
    retired,     \* _retired_reason is set
    stopped,     \* request_stop has been called
    monitor,     \* where _monitor_model_load is
    count,       \* _active_request_count
    place,       \* where the coroutine or thread of each request is
    begin,       \* where its call of _begin_generation is
    iter,        \* its response iterator
    owner,       \* who generates
    barred,      \* history: requests that began after the retirement
    late         \* history: streams that ended before their begin did

vars == <<mode, phase, retired, stopped, monitor, count, place, begin,
          iter, owner, barred, late>>
process == <<mode, stopped, monitor>>
history == <<barred, late>>

Mode == {"single", "ring", "jaccl"}
Phase == {"loading_model", "compiling", "ready", "prefill_pending",
          "generating", "failed", "stopping"}
Place == {"new", "beginning", "generating", "cancelling", "failing",
          "settling", "dropping", "checking", "readying", "done"}

(* The event loop is in the middle of a stream's handler.                  *)
LoopFree ==
    \A s \in Stream : place[s] \notin {"cancelling", "failing", "dropping",
                                       "checking", "readying"}

Goto(r, p) == place' = [place EXCEPT ![r] = p]
Turn(r, i) == iter' = [iter EXCEPT ![r] = i]

(* What ends with an iterator: its finally clause, in single mode.         *)
Free(r) == owner' = IF owner = r THEN NoRequest ELSE owner

Init ==
    /\ \/ mode = "single" /\ phase = "ready" /\ monitor = "over"
       \/ /\ mode \in {"ring", "jaccl"}
          /\ phase = "loading_model"
          /\ monitor = "waiting"
    /\ retired = FALSE
    /\ stopped = FALSE
    /\ count = 0
    /\ place = [r \in Request |-> "new"]
    /\ begin = [r \in Request |-> "none"]
    /\ iter = [r \in Request |-> "none"]
    /\ owner = NoRequest
    /\ barred = {}
    /\ late = {}

-----------------------------------------------------------------------------
(* The monitor thread of a distributed runtime, and the stop handler.      *)

MonitorMoves(p, m) ==
    /\ phase' = p
    /\ monitor' = m
    /\ UNCHANGED <<mode, retired, stopped, count, place, begin, iter,
                   owner, history>>

MonitorSees ==
    /\ monitor = "waiting"
    /\ MonitorMoves(phase, IF phase = "loading_model" THEN "configured"
                                                      ELSE "over")

MonitorCompiles ==
    /\ monitor = "configured"
    /\ MonitorMoves("compiling", "warming")

MonitorReady ==
    /\ monitor = "warming"
    /\ MonitorMoves("ready", "over")

(* The warmup raises or times out, or the generation thread is gone.       *)
MonitorFails ==
    /\ monitor \in {"waiting", "configured", "warming"}
    /\ MonitorMoves("failed", "over")

(* Broken variant: the name of the lifecycle state for that of the phase.  *)
StopAskedByLifecycle ==
    /\ stopped' = TRUE
    /\ phase' = "unloading"
    /\ UNCHANGED <<mode, retired, monitor, count, place, begin, iter, owner,
                   history>>

(* POST /v1/tokenity/stop, and Uvicorn's shutdown 50 ms later: each assigns *)
(* the phase twice.  The process then ends, wherever its threads are.       *)
StopAsked ==
    /\ stopped' = TRUE
    /\ phase' = "stopping"
    /\ UNCHANGED <<mode, retired, monitor, count, place, begin, iter, owner,
                   history>>

-----------------------------------------------------------------------------
(* A request arrives and begins.                                           *)

(* Broken variant: a refused request has been counted.                     *)
ArriveCountedFirst(r) ==
    /\ place[r] = "new"
    /\ LoopFree
    /\ count' = count + 1
    /\ \/ phase = "failed" /\ Goto(r, "done") /\ UNCHANGED begin
       \/ /\ phase # "failed"
          /\ Goto(r, "beginning")
          /\ begin' = [begin EXCEPT ![r] = "called"]
    /\ UNCHANGED <<process, phase, retired, iter, owner, history>>

(* Any phase but FAILED lets a request in.                                 *)
Arrive(r) ==
    /\ place[r] = "new"
    /\ LoopFree
    /\ \/ /\ phase = "failed"
          /\ Goto(r, "done")
          /\ UNCHANGED <<count, begin>>
       \/ /\ phase # "failed"
          /\ count' = count + 1
          /\ Goto(r, "beginning")
          /\ begin' = [begin EXCEPT ![r] = "called"]
    /\ UNCHANGED <<process, phase, retired, iter, owner, history>>

BeginMoves(r, b) ==
    /\ begin' = [begin EXCEPT ![r] = b]
    /\ UNCHANGED <<process, retired, count, place, late>>

(* Broken variant: the phase alone decides.                                *)
AdmittedByPhase ==
    mode = "single" \/ phase \in {"ready", "prefill_pending", "generating"}

(* The guards of _begin_generation.                                        *)
Admitted ==
    /\ ~retired
    /\ mode = "single" \/ phase \in {"ready", "prefill_pending", "generating"}

BeginChecks(r) ==
    /\ begin[r] = "called"
    /\ barred' = IF retired THEN barred \cup {r} ELSE barred
    /\ BeginMoves(r, IF ~Admitted THEN "raised"
                     ELSE IF mode = "single" THEN "waiting" ELSE "cleared")
    /\ UNCHANGED <<phase, iter, owner>>

BeginPrefills(r) ==
    /\ begin[r] = "cleared"
    /\ phase' = "prefill_pending"
    /\ BeginMoves(r, "waiting")
    /\ UNCHANGED <<iter, owner, barred>>

(* The lock is acquired, or the generation thread takes the request up.    *)
BeginReturns(r) ==
    /\ begin[r] = "waiting"
    /\ owner = NoRequest
    /\ owner' = r
    /\ Turn(r, "fresh")
    /\ BeginMoves(r, "returned")
    /\ UNCHANGED <<phase, barred>>

(* 600 s without the lock, a template that raises, an engine that refuses. *)
BeginRaises(r) ==
    /\ begin[r] = "waiting"
    /\ BeginMoves(r, "raised")
    /\ UNCHANGED <<phase, iter, owner, barred>>

-----------------------------------------------------------------------------
(* The iterator, in whichever thread runs it: one item, or all the rest.   *)

InThread == {"running", "draining"}

IterMoves(r, i) ==
    /\ Turn(r, i)
    /\ UNCHANGED <<process, phase, retired, count, place, begin, history>>

NextYields(r) ==
    /\ r \in Stream
    /\ iter[r] = "running"
    /\ IterMoves(r, "idle")
    /\ UNCHANGED owner

(* A plain request that repeats itself is cut off, except over jaccl.      *)
NextEnds(r) ==
    /\ iter[r] \in InThread
    /\ \/ mode = "single" /\ Free(r)
       \/ mode # "single" /\ owner # r /\ UNCHANGED owner
       \/ mode = "ring" /\ r \in Plain /\ UNCHANGED owner
    /\ IterMoves(r, "over")

NextRaises(r) ==
    /\ iter[r] \in InThread
    /\ Free(r)
    /\ IterMoves(r, "raised")

(* The generation thread is through with its request.                      *)
EngineEnds ==
    /\ mode # "single"
    /\ owner # NoRequest
    /\ owner' = NoRequest
    /\ UNCHANGED <<process, phase, retired, count, place, begin, iter, history>>

(* An iterator that nobody holds any more.  Closing a suspended generator  *)
(* runs its finally clause; one that was never started has none to run.    *)
Collected(s) ==
    /\ s \in Stream
    /\ place[s] = "done"
    /\ \/ iter[s] = "idle" /\ IterMoves(s, "over")
                           /\ IF mode = "single" THEN Free(s)
                                                 ELSE UNCHANGED owner
       \/ iter[s] = "fresh" /\ IterMoves(s, "lost") /\ UNCHANGED owner

-----------------------------------------------------------------------------
(* The coroutine of a stream and the thread of a plain request.            *)

PlaceMoves(r, p) ==
    /\ Goto(r, p)
    /\ UNCHANGED <<process, count, begin, owner, barred>>

Resumes(r) == r \in Stream => LoopFree

Generates(r) ==
    /\ place[r] = "beginning"
    /\ begin[r] = "returned"
    /\ Resumes(r)
    /\ phase' = "generating"
    /\ Turn(r, "running")
    /\ PlaceMoves(r, "generating")
    /\ UNCHANGED <<retired, late>>

NextItem(s) ==
    /\ s \in Stream
    /\ place[s] = "generating"
    /\ iter[s] = "idle"
    /\ LoopFree
    /\ IterMoves(s, "running")
    /\ UNCHANGED owner

(* The iterator is exhausted, a stream repeats itself, or begin has raised *)
Completes(r) ==
    /\ Resumes(r)
    /\ \/ place[r] = "generating" /\ iter[r] = "over"
       \/ place[r] = "generating" /\ iter[r] = "idle" /\ mode # "jaccl"
       \/ place[r] = "beginning" /\ begin[r] = "raised"
    /\ PlaceMoves(r, "dropping")
    /\ UNCHANGED <<phase, retired, iter, late>>

(* The first half of a retirement, under _retirement_lock.                 *)
Retires(r, p, otherwise) ==
    /\ retired' = (retired \/ mode = "jaccl")
    /\ PlaceMoves(r, IF mode = "jaccl" /\ ~retired THEN p ELSE otherwise)
    /\ UNCHANGED <<phase, iter, late>>

Fails(r) ==
    /\ place[r] = "generating"
    /\ iter[r] = "raised"
    /\ Resumes(r)
    /\ Retires(r, "failing", "dropping")

(* The client disconnects, at any await or yield.                          *)
Cancel(s) ==
    /\ s \in Stream
    /\ place[s] \in {"beginning", "generating"}
    /\ LoopFree
    /\ Retires(s, "cancelling", "settling")

(* The second half publishes FAILED.                                       *)
RetirePublishes(r) ==
    /\ place[r] \in {"cancelling", "failing"}
    /\ phase' = "failed"
    /\ PlaceMoves(r, IF place[r] = "cancelling" THEN "settling" ELSE "dropping")
    /\ UNCHANGED <<retired, iter, late>>

-----------------------------------------------------------------------------
(* _settle_cancelled_stream.                                               *)

Unsettled(s) ==
    \/ begin[s] \in {"called", "cleared", "waiting"}
    \/ iter[s] \in InThread

(* Broken variant: what begin returns is stopped, and not drained.         *)
SettleLeaves(s) ==
    /\ place[s] = "settling"
    /\ LoopFree
    /\ iter[s] \in {"fresh", "idle"}
    /\ PlaceMoves(s, "dropping")
    /\ UNCHANGED <<phase, retired, iter, late>>

(* The iterator is there: it is drained in a thread.                       *)
SettleDrains(s) ==
    /\ place[s] = "settling"
    /\ LoopFree
    /\ iter[s] \in {"fresh", "idle"}
    /\ IterMoves(s, "draining")
    /\ UNCHANGED owner

SettleEnds(s) ==
    /\ place[s] = "settling"
    /\ LoopFree
    /\ begin[s] = "raised" \/ iter[s] \in {"over", "raised"}
    /\ PlaceMoves(s, "dropping")
    /\ UNCHANGED <<phase, retired, iter, late>>

(* Broken variant: the deadline bounds the wait for begin alone.           *)
SettleWaits(s) ==
    /\ place[s] = "settling"
    /\ LoopFree
    /\ Unsettled(s) /\ iter[s] \notin InThread
    /\ late' = late \cup {s}
    /\ PlaceMoves(s, "dropping")
    /\ UNCHANGED <<phase, retired, iter>>

(* The deadline passes: the thread goes on, nobody waits for it.           *)
SettleTimesOut(s) ==
    /\ place[s] = "settling"
    /\ LoopFree
    /\ Unsettled(s)
    /\ late' = IF iter[s] \in InThread THEN late ELSE late \cup {s}
    /\ PlaceMoves(s, "dropping")
    /\ UNCHANGED <<phase, retired, iter>>

-----------------------------------------------------------------------------
(* _release_request: three steps, the first under _request_count_lock.     *)

Drop(r) ==
    /\ place[r] = "dropping"
    /\ count' = count - 1
    /\ Goto(r, IF count = 1 THEN "checking" ELSE "done")
    /\ UNCHANGED <<process, phase, retired, begin, iter, owner, history>>

(* Broken variant: only a phase that was reached is taken back.            *)
CheckUnlessPrefilling(r) ==
    /\ place[r] = "checking"
    /\ PlaceMoves(r, IF ~retired /\ phase \notin {"failed", "stopping",
                                                  "prefill_pending"}
                     THEN "readying" ELSE "done")
    /\ UNCHANGED <<phase, retired, iter, late>>

Check(r) ==
    /\ place[r] = "checking"
    /\ PlaceMoves(r, IF ~retired /\ phase \notin {"failed", "stopping"}
                     THEN "readying" ELSE "done")
    /\ UNCHANGED <<phase, retired, iter, late>>

Ready(r) ==
    /\ place[r] = "readying"
    /\ phase' = "ready"
    /\ PlaceMoves(r, "done")
    /\ UNCHANGED <<retired, iter, late>>

-----------------------------------------------------------------------------
Settle(s) == SettleDrains(s) \/ SettleEnds(s) \/ SettleTimesOut(s)
Release(r) == RetirePublishes(r) \/ Drop(r) \/ Check(r) \/ Ready(r)

Next ==
    \/ MonitorSees \/ MonitorCompiles \/ MonitorReady \/ MonitorFails
    \/ StopAsked \/ EngineEnds
    \/ \E r \in Request :
          \/ Arrive(r)
          \/ BeginChecks(r) \/ BeginPrefills(r)
          \/ BeginReturns(r) \/ BeginRaises(r)
          \/ NextYields(r) \/ NextEnds(r) \/ NextRaises(r)
          \/ Generates(r) \/ NextItem(r) \/ Completes(r) \/ Fails(r)
          \/ Cancel(r) \/ Collected(r)
          \/ r \in Stream /\ Settle(r)
          \/ Release(r)

Spec == Init /\ [][Next]_vars

(* The event loop runs and the drain deadline passes; neither an engine    *)
(* nor a collective owes anybody progress.                                 *)
FairSpec ==
    /\ Spec
    /\ \A s \in Stream : WF_vars(Settle(s)) /\ WF_vars(Release(s))

-----------------------------------------------------------------------------
TypeOK ==
    /\ mode \in Mode
    /\ phase \in Phase
    /\ {retired, stopped} \subseteq BOOLEAN
    /\ monitor \in {"waiting", "configured", "warming", "over"}
    /\ count \in 0..Cardinality(Request)
    /\ place \in [Request -> Place]
    /\ begin \in [Request -> {"none", "called", "cleared", "waiting",
                              "returned", "raised"}]
    /\ iter \in [Request -> InThread \cup {"none", "fresh", "idle",
                                           "over", "raised", "lost"}]
    /\ owner \in Request \cup {NoRequest}
    /\ barred \subseteq Request
    /\ late \subseteq Stream

(* The requests between their _acquire_request and the first step of their *)
(* _release_request.                                                       *)
Counted == {r \in Request : place[r] \notin {"new", "checking", "readying", "done"}}

(* The counter is the number of requests that have not been released,      *)
(* whatever way each of them ends (distributed_openai.py:1395-1396 and     *)
(* 1538-1541).                                                             *)
CountAgrees == count = Cardinality(Counted)

(* A retired runtime starts no generation that asks for one after the      *)
(* retirement, although a release that had passed its check may still set  *)
(* the phase to READY (distributed_openai.py:1789 and 2020).               *)
RetiredAdmitsNone ==
    \A r \in barred : begin[r] = "raised" /\ iter[r] = "none"

(* With all requests gone, the phase does not stay busy: a runtime that is *)
(* neither retired nor stopped serves again, or says that it failed, even  *)
(* when releases and begins of different requests interleave               *)
(* (distributed_openai.py:1928-1940).                                      *)
QuietIsReady ==
    ( /\ ~retired /\ ~stopped
      /\ monitor = "over"
      /\ late = {}
      /\ \A r \in Request : place[r] \in {"new", "done"} )
    => phase \in {"ready", "failed"}

(* The generation lock of a single-node runtime is held by a request that  *)
(* will give it back: its iterator has been started, or somebody is left   *)
(* to start it (distributed_openai.py:1643-1646 and 1835-1922).            *)
LockComesBack ==
    mode = "single" /\ owner # NoRequest /\ owner \notin late
        => \/ iter[owner] \in InThread \cup {"idle"}
           \/ iter[owner] = "fresh" /\ place[owner] # "done"

(* A stream whose client has left is released in the end, whether or not   *)
(* the generation ever answers (distributed_openai.py:1619-1672).          *)
CancelledStreamEnds ==
    \A s \in Stream : place[s] = "settling" ~> place[s] = "done"

(* "Ready is published only after materialization and warmup"             *)
(* (tests/test_distributed_openai.py:850): the monitor has loaded, compiled *)
(* and warmed up before the phase is READY.                                *)
ReadyIsWarmed == phase = "ready" => monitor = "over"

(* "A timed-out to_thread call may still own the generator.  The task      *)
(* remains tracked and the retired runtime will not be reused"             *)
(* (distributed_openai.py:2546-2547): an owner that nobody waits for and   *)
(* that cannot finish leaves a retired runtime behind.                     *)
AbandonedIsRetired ==
    owner # NoRequest /\ iter[owner] = "lost" => retired
=============================================================================
