----------------------- MODULE RuntimeRequests_proofs -----------------------
(***************************************************************************)
(* The safety invariants of RuntimeRequests, for any number of streams and *)
(* plain requests.  The inductive invariant says what the place of a       *)
(* request tells of its begin and its iterator, whose iterator holds the   *)
(* single-node lock, and which phases the monitor answers for.             *)
(***************************************************************************)
EXTENDS RuntimeRequests, FiniteSetTheorems, TLAPS

(* TypeOK, but for the counter.                                            *)
Types ==
    /\ mode \in Mode
    /\ phase \in Phase
    /\ retired \in BOOLEAN
    /\ stopped \in BOOLEAN
    /\ monitor \in {"waiting", "configured", "warming", "over"}
    /\ place \in [Request -> Place]
    /\ begin \in [Request -> {"none", "called", "cleared", "waiting",
                              "returned", "raised"}]
    /\ iter \in [Request -> InThread \cup {"none", "fresh", "idle",
                                           "over", "raised", "lost"}]
    /\ owner \in Request \cup {NoRequest}
    /\ barred \subseteq Request
    /\ late \subseteq Stream

(* Nobody waits for the begin of a request that is this far.               *)
Past == {"failing", "dropping", "checking", "readying", "done"}

(* The begin of a request is under way.                                    *)
Begins(r) == begin[r] \in {"called", "cleared", "waiting"}

(* A request and its threads.                                              *)
Threads ==
    \A r \in Request :
        /\ begin[r] # "returned" => iter[r] = "none"
        /\ place[r] = "new" => begin[r] = "none"
        /\ place[r] = "generating"
               => begin[r] = "returned" /\ iter[r] \notin {"fresh", "lost"}
        /\ place[r] \in Past /\ (Begins(r) \/ iter[r] = "fresh") => r \in late
        /\ iter[r] = "lost" => r \in late
        /\ r \in barred => begin[r] = "raised"

(* The holder of the lock has an iterator that has not ended.              *)
Owned ==
    mode = "single" /\ owner # NoRequest
        => iter[owner] \in InThread \cup {"fresh", "idle", "lost"}

(* The phases the monitor, and nobody else, leads out of.                  *)
Phases ==
    /\ phase = "loading_model" => monitor \in {"waiting", "configured"}
    /\ phase = "compiling" => monitor = "warming"
    /\ phase = "stopping" => stopped

(* Somebody is left to take a busy phase back.                             *)
BusyIsWorked ==
    ~retired /\ late = {} /\ phase \in {"prefill_pending", "generating"}
        => \E r \in Request : place[r] \notin {"new", "done"}

RuntimeInv == Types /\ CountAgrees /\ Threads /\ Owned /\ Phases /\ BusyIsWorked

-----------------------------------------------------------------------------
(* Every step keeps the types.                                             *)
LEMMA TypesStep ==
    ASSUME Types, [Next]_vars
    PROVE  Types'
<1>1. ASSUME MonitorSees \/ MonitorCompiles \/ MonitorReady \/ MonitorFails
      PROVE  Types'
  BY <1>1 DEF MonitorSees, MonitorCompiles, MonitorReady, MonitorFails,
     MonitorMoves, process, history, Types, Mode, Phase, Place, InThread,
     Request
<1>2. ASSUME StopAsked PROVE Types'
  BY <1>2 DEF StopAsked, process, history, Types, Mode, Phase, Place,
     InThread, Request
<1>3. ASSUME EngineEnds PROVE Types'
  BY <1>3 DEF EngineEnds, process, history, Types, Mode, Phase, Place,
     InThread, Request
<1>4. ASSUME NEW r \in Request, Arrive(r) PROVE Types'
  BY <1>4 DEF Arrive, Goto, process, history, Types, Mode, Phase, Place,
     InThread, Request
<1>5. ASSUME NEW r \in Request,
             BeginChecks(r) \/ BeginPrefills(r) \/ BeginReturns(r) \/
             BeginRaises(r)
      PROVE  Types'
  BY <1>5 DEF BeginChecks, BeginPrefills, BeginReturns, BeginRaises,
     BeginMoves, Admitted, Turn, process, history, Types, Mode, Phase, Place,
     InThread, Request
<1>6. ASSUME NEW r \in Request,
             NextYields(r) \/ NextEnds(r) \/ NextRaises(r) \/ NextItem(r) \/
             Collected(r) \/ SettleDrains(r)
      PROVE  Types'
  BY <1>6 DEF NextYields, NextEnds, NextRaises, NextItem, Collected,
     SettleDrains, IterMoves, Turn, InThread, Free, process, history, Types,
     Mode, Phase, Place, Request
<1>7. ASSUME NEW r \in Request, Generates(r) \/ Completes(r) PROVE Types'
  BY <1>7 DEF Generates, Completes, PlaceMoves, Goto, Turn, InThread, process,
     history, Types, Mode, Phase, Place, Request
<1>8. ASSUME NEW r \in Request, Fails(r) \/ Cancel(r) PROVE Types'
  BY <1>8 DEF Fails, Cancel, Retires, PlaceMoves, Goto, process, history,
     Types, Mode, Phase, Place, InThread, Request
<1>9. ASSUME NEW r \in Stream, SettleEnds(r) \/ SettleTimesOut(r) PROVE Types'
  BY <1>9 DEF SettleEnds, SettleTimesOut, PlaceMoves, Goto, Unsettled,
     InThread, process, history, Types, Mode, Phase, Place, Request
<1>10. ASSUME NEW r \in Request,
              RetirePublishes(r) \/ Check(r) \/ Ready(r)
       PROVE  Types'
  BY <1>10 DEF RetirePublishes, Check, Ready, PlaceMoves, Goto, process,
     history, Types, Mode, Phase, Place, InThread, Request
<1>11. ASSUME NEW r \in Request, Drop(r) PROVE Types'
  BY <1>11 DEF Drop, Goto, process, history, Types, Mode, Phase, Place,
     InThread, Request
<1>12. CASE UNCHANGED vars
  BY <1>12 DEF vars, process, history, InThread, Types, Mode, Phase, Place,
     Request
<1>. QED
  BY <1>1, <1>2, <1>3, <1>4, <1>5, <1>6, <1>7, <1>8, <1>9, <1>10, <1>11, <1>12
     DEF Next, Settle, Release

(* Every step keeps a request and its threads together.                    *)
LEMMA ThreadsStep ==
    ASSUME Types, Threads, [Next]_vars
    PROVE  Threads'
<1>1. ASSUME MonitorSees \/ MonitorCompiles \/ MonitorReady \/ MonitorFails
      PROVE  Threads'
  BY <1>1 DEF MonitorSees, MonitorCompiles, MonitorReady, MonitorFails,
     MonitorMoves, process, history, Types, Threads, Begins, Past, InThread,
     Request
<1>2. ASSUME StopAsked PROVE Threads'
  BY <1>2 DEF StopAsked, process, history, Types, Threads, Begins, Past,
     InThread, Request
<1>3. ASSUME EngineEnds PROVE Threads'
  BY <1>3 DEF EngineEnds, process, history, Types, Threads, Begins, Past,
     InThread, Request
<1>4. ASSUME NEW r \in Request, Arrive(r) PROVE Threads'
  BY <1>4 DEF Arrive, Goto, process, history, Types, Threads, Begins, Past,
     InThread, Request
<1>5. ASSUME NEW r \in Request,
             BeginChecks(r) \/ BeginPrefills(r) \/ BeginReturns(r) \/
             BeginRaises(r)
      PROVE  Threads'
  BY <1>5 DEF BeginChecks, BeginPrefills, BeginReturns, BeginRaises,
     BeginMoves, Admitted, Turn, process, history, Types, Threads, Begins,
     Past, InThread, Request
<1>6. ASSUME NEW r \in Request,
             NextYields(r) \/ NextEnds(r) \/ NextRaises(r) \/ NextItem(r) \/
             Collected(r) \/ SettleDrains(r)
      PROVE  Threads'
  BY <1>6 DEF NextYields, NextEnds, NextRaises, NextItem, Collected,
     SettleDrains, IterMoves, Turn, InThread, Free, process, history, Types,
     Threads, Begins, Past, Request
<1>7. ASSUME NEW r \in Request, Generates(r) \/ Completes(r) PROVE Threads'
  BY <1>7 DEF Generates, Completes, PlaceMoves, Goto, Turn, InThread, process,
     history, Types, Threads, Begins, Past, Request
<1>8. ASSUME NEW r \in Request, Fails(r) \/ Cancel(r) PROVE Threads'
  BY <1>8 DEF Fails, Cancel, Retires, PlaceMoves, Goto, process, history,
     Types, Threads, Begins, Past, InThread, Request
<1>9. ASSUME NEW r \in Stream,
             SettleEnds(r) \/ SettleTimesOut(r)
      PROVE  Threads'
  BY <1>9 DEF SettleEnds, SettleTimesOut, PlaceMoves, Goto, Unsettled,
     InThread, process, history, Types, Threads, Begins, Past, Request
<1>10. ASSUME NEW r \in Request,
              RetirePublishes(r) \/ Check(r) \/ Ready(r)
       PROVE  Threads'
  BY <1>10 DEF RetirePublishes, Check, Ready, PlaceMoves, Goto, process,
     history, Types, Threads, Begins, Past, InThread, Request
<1>11. ASSUME NEW r \in Request, Drop(r) PROVE Threads'
  BY <1>11 DEF Drop, Goto, process, history, Types, Threads, Begins, Past,
     InThread, Request
<1>12. CASE UNCHANGED vars
  BY <1>12 DEF vars, process, history, InThread, Types, Threads, Begins, Past,
     Request
<1>. QED
  BY <1>1, <1>2, <1>3, <1>4, <1>5, <1>6, <1>7, <1>8, <1>9, <1>10, <1>11, <1>12
     DEF Next, Settle, Release

(* Every step leaves the lock with an iterator that has not ended.         *)
LEMMA OwnedStep ==
    ASSUME Types, Threads, Owned, [Next]_vars
    PROVE  Owned'
<1>1. ASSUME MonitorSees \/ MonitorCompiles \/ MonitorReady \/ MonitorFails
      PROVE  Owned'
  BY <1>1, RuntimeAssumptions DEF MonitorSees, MonitorCompiles, MonitorReady,
     MonitorFails, MonitorMoves, process, history, Types, Threads, Owned,
     InThread, Request
<1>2. ASSUME StopAsked PROVE Owned'
  BY <1>2, RuntimeAssumptions DEF StopAsked, process, history, Types, Threads,
     Owned, InThread, Request
<1>3. ASSUME EngineEnds PROVE Owned'
  BY <1>3, RuntimeAssumptions DEF EngineEnds, process, history, Types,
     Threads, Owned, InThread, Request
<1>4. ASSUME NEW r \in Request, Arrive(r) PROVE Owned'
  BY <1>4, RuntimeAssumptions DEF Arrive, Goto, process, history, Types,
     Threads, Owned, InThread, Request
<1>5. ASSUME NEW r \in Request,
             BeginChecks(r) \/ BeginPrefills(r) \/ BeginReturns(r) \/
             BeginRaises(r)
      PROVE  Owned'
  BY <1>5, RuntimeAssumptions DEF BeginChecks, BeginPrefills, BeginReturns,
     BeginRaises, BeginMoves, Admitted, Turn, process, history, Types,
     Threads, Owned, InThread, Request
<1>6. ASSUME NEW r \in Request,
             NextYields(r) \/ NextEnds(r) \/ NextRaises(r) \/ NextItem(r) \/
             Collected(r) \/ SettleDrains(r)
      PROVE  Owned'
  BY <1>6, RuntimeAssumptions DEF NextYields, NextEnds, NextRaises, NextItem,
     Collected, SettleDrains, IterMoves, Turn, InThread, Free, process,
     history, Types, Threads, Owned, Request
<1>7. ASSUME NEW r \in Request, Generates(r) \/ Completes(r) PROVE Owned'
  BY <1>7, RuntimeAssumptions DEF Generates, Completes, PlaceMoves, Goto,
     Turn, InThread, process, history, Types, Threads, Owned, Request
<1>8. ASSUME NEW r \in Request, Fails(r) \/ Cancel(r) PROVE Owned'
  BY <1>8, RuntimeAssumptions DEF Fails, Cancel, Retires, PlaceMoves, Goto,
     process, history, Types, Threads, Owned, InThread, Request
<1>9. ASSUME NEW r \in Stream, SettleEnds(r) \/ SettleTimesOut(r) PROVE Owned'
  BY <1>9, RuntimeAssumptions DEF SettleEnds, SettleTimesOut, PlaceMoves,
     Goto, Unsettled, InThread, process, history, Types, Threads, Owned,
     Request
<1>10. ASSUME NEW r \in Request,
              RetirePublishes(r) \/ Check(r) \/ Ready(r)
       PROVE  Owned'
  BY <1>10, RuntimeAssumptions DEF RetirePublishes, Check, Ready, PlaceMoves,
     Goto, process, history, Types, Threads, Owned, InThread, Request
<1>11. ASSUME NEW r \in Request, Drop(r) PROVE Owned'
  BY <1>11, RuntimeAssumptions DEF Drop, Goto, process, history, Types,
     Threads, Owned, InThread, Request
<1>12. CASE UNCHANGED vars
  BY <1>12, RuntimeAssumptions DEF vars, process, history, InThread, Types,
     Threads, Owned, Request
<1>. QED
  BY <1>1, <1>2, <1>3, <1>4, <1>5, <1>6, <1>7, <1>8, <1>9, <1>10, <1>11, <1>12
     DEF Next, Settle, Release

(* Every step keeps the monitor's phases to the monitor.                   *)
LEMMA PhasesStep ==
    ASSUME Types, Phases, [Next]_vars
    PROVE  Phases'
<1>1. ASSUME MonitorSees \/ MonitorCompiles \/ MonitorReady \/ MonitorFails
      PROVE  Phases'
  BY <1>1 DEF MonitorSees, MonitorCompiles, MonitorReady, MonitorFails,
     MonitorMoves, process, history, Phases, Types, Phase
<1>2. ASSUME StopAsked PROVE Phases'
  BY <1>2 DEF StopAsked, process, history, Phases, Types, Phase
<1>3. ASSUME EngineEnds PROVE Phases'
  BY <1>3 DEF EngineEnds, process, history, Phases, Types, Phase
<1>4. ASSUME NEW r \in Request, Arrive(r) PROVE Phases'
  BY <1>4 DEF Arrive, Goto, process, history, Phases, Types, Phase
<1>5. ASSUME NEW r \in Request,
             BeginChecks(r) \/ BeginPrefills(r) \/ BeginReturns(r) \/
             BeginRaises(r)
      PROVE  Phases'
  BY <1>5 DEF BeginChecks, BeginPrefills, BeginReturns, BeginRaises,
     BeginMoves, Admitted, Turn, process, history, Phases, Types, Phase
<1>6. ASSUME NEW r \in Request,
             NextYields(r) \/ NextEnds(r) \/ NextRaises(r) \/ NextItem(r) \/
             Collected(r) \/ SettleDrains(r)
      PROVE  Phases'
  BY <1>6 DEF NextYields, NextEnds, NextRaises, NextItem, Collected,
     SettleDrains, IterMoves, Turn, InThread, Free, process, history, Phases,
     Types, Phase
<1>7. ASSUME NEW r \in Request, Generates(r) \/ Completes(r) PROVE Phases'
  BY <1>7 DEF Generates, Completes, PlaceMoves, Goto, Turn, InThread, process,
     history, Phases, Types, Phase
<1>8. ASSUME NEW r \in Request, Fails(r) \/ Cancel(r) PROVE Phases'
  BY <1>8 DEF Fails, Cancel, Retires, PlaceMoves, Goto, process, history,
     Phases, Types, Phase
<1>9. ASSUME NEW r \in Stream,
             SettleEnds(r) \/ SettleTimesOut(r)
      PROVE  Phases'
  BY <1>9 DEF SettleEnds, SettleTimesOut, PlaceMoves, Goto, Unsettled,
     InThread, process, history, Phases, Types, Phase
<1>10. ASSUME NEW r \in Request,
              RetirePublishes(r) \/ Check(r) \/ Ready(r)
       PROVE  Phases'
  BY <1>10 DEF RetirePublishes, Check, Ready, PlaceMoves, Goto, process,
     history, Phases, Types, Phase
<1>11. ASSUME NEW r \in Request, Drop(r) PROVE Phases'
  BY <1>11 DEF Drop, Goto, process, history, Phases, Types, Phase
<1>12. CASE UNCHANGED vars
  BY <1>12 DEF vars, process, history, InThread, Phases, Types, Phase
<1>. QED
  BY <1>1, <1>2, <1>3, <1>4, <1>5, <1>6, <1>7, <1>8, <1>9, <1>10, <1>11, <1>12
     DEF Next, Settle, Release

(* The counter of a set of requests that gains or loses one of them.        *)
LEMMA OneMore ==
    ASSUME NEW S \in SUBSET Request, NEW r \in Request \ S
    PROVE  Cardinality(S \cup {r}) = Cardinality(S) + 1
  BY RuntimeAssumptions, FS_Subset, FS_AddElement DEF Request

(* The same for a set that loses one.                                      *)
LEMMA OneLess ==
    ASSUME NEW S \in SUBSET Request, NEW r \in S
    PROVE  Cardinality(S \ {r}) = Cardinality(S) - 1
  BY RuntimeAssumptions, FS_Subset, FS_RemoveElement DEF Request

(* Every step keeps the counter.                                           *)
LEMMA CountStep ==
    ASSUME Types, CountAgrees, [Next]_vars
    PROVE  CountAgrees'
<1>1. ASSUME MonitorSees \/ MonitorCompiles \/ MonitorReady \/ MonitorFails
      PROVE  CountAgrees'
  BY <1>1 DEF MonitorSees, MonitorCompiles, MonitorReady, MonitorFails,
     MonitorMoves, process, history, Types, CountAgrees, Counted, Place,
     InThread
<1>2. ASSUME StopAsked PROVE CountAgrees'
  BY <1>2 DEF StopAsked, process, history, Types, CountAgrees, Counted, Place,
     InThread
<1>3. ASSUME EngineEnds PROVE CountAgrees'
  BY <1>3 DEF EngineEnds, process, history, Types, CountAgrees, Counted,
     Place, InThread
<1>4. ASSUME NEW r \in Request, Arrive(r) PROVE CountAgrees'
  <2>1. CASE phase = "failed"
    <3>1. Counted' = Counted /\ count' = count
      BY <1>4, <2>1 DEF Arrive, Goto, Counted, Types
    <3>. QED
      BY <3>1 DEF CountAgrees
  <2>2. CASE phase # "failed"
    <3>1. Counted' = Counted \cup {r} /\ r \notin Counted /\ count' = count + 1
      BY <1>4, <2>2 DEF Arrive, Goto, Counted, Types
    <3>. QED
      BY <3>1, OneMore DEF CountAgrees, Counted
  <2>. QED
    BY <2>1, <2>2
<1>5. ASSUME NEW r \in Request,
             BeginChecks(r) \/ BeginPrefills(r) \/ BeginReturns(r) \/
             BeginRaises(r)
      PROVE  CountAgrees'
  BY <1>5 DEF BeginChecks, BeginPrefills, BeginReturns, BeginRaises,
     BeginMoves, Admitted, Turn, process, history, Types, CountAgrees,
     Counted, Place, InThread
<1>6. ASSUME NEW r \in Request,
             NextYields(r) \/ NextEnds(r) \/ NextRaises(r) \/ NextItem(r) \/
             Collected(r) \/ SettleDrains(r)
      PROVE  CountAgrees'
  BY <1>6 DEF NextYields, NextEnds, NextRaises, NextItem, Collected,
     SettleDrains, IterMoves, Turn, InThread, Free, process, history, Types,
     CountAgrees, Counted, Place
<1>7. ASSUME NEW r \in Request,
             Generates(r) \/ Completes(r)
      PROVE  CountAgrees'
  BY <1>7 DEF Generates, Completes, PlaceMoves, Goto, Turn, InThread, process,
     history, Types, CountAgrees, Counted, Place
<1>8. ASSUME NEW r \in Request, Fails(r) \/ Cancel(r) PROVE CountAgrees'
  BY <1>8 DEF Fails, Cancel, Retires, PlaceMoves, Goto, process, history,
     Types, CountAgrees, Counted, Place, InThread
<1>9. ASSUME NEW r \in Stream,
             SettleEnds(r) \/ SettleTimesOut(r)
      PROVE  CountAgrees'
  BY <1>9 DEF SettleEnds, SettleTimesOut, PlaceMoves, Goto, Unsettled,
     InThread, process, history, Types, CountAgrees, Counted, Place
<1>10. ASSUME NEW r \in Request,
              RetirePublishes(r) \/ Check(r) \/ Ready(r)
       PROVE  CountAgrees'
  BY <1>10 DEF RetirePublishes, Check, Ready, PlaceMoves, Goto, process,
     history, Types, CountAgrees, Counted, Place, InThread
<1>11. ASSUME NEW r \in Request, Drop(r) PROVE CountAgrees'
  <2>1. Counted' = Counted \ {r} /\ r \in Counted /\ count' = count - 1
    BY <1>11 DEF Drop, Goto, Counted, Types
  <2>. QED
    BY <2>1, OneLess DEF CountAgrees, Counted
<1>12. CASE UNCHANGED vars
  BY <1>12 DEF vars, process, history, InThread, Types, CountAgrees, Counted,
     Place
<1>. QED
  BY <1>1, <1>2, <1>3, <1>4, <1>5, <1>6, <1>7, <1>8, <1>9, <1>10, <1>11, <1>12
     DEF Next, Settle, Release

(* Every step leaves somebody to take a busy phase back: the last request  *)
(* to be dropped checks the phase.                                         *)
LEMMA BusyStep ==
    ASSUME Types, CountAgrees, Threads, BusyIsWorked, [Next]_vars
    PROVE  BusyIsWorked'
<1>1. ASSUME MonitorSees \/ MonitorCompiles \/ MonitorReady \/ MonitorFails
      PROVE  BusyIsWorked'
  BY <1>1 DEF MonitorSees, MonitorCompiles, MonitorReady, MonitorFails,
     MonitorMoves, process, history, Types, Threads, Begins, Past,
     BusyIsWorked, Phase, InThread
<1>2. ASSUME StopAsked PROVE BusyIsWorked'
  BY <1>2 DEF StopAsked, process, history, Types, Threads, Begins, Past,
     BusyIsWorked, Phase, InThread
<1>3. ASSUME EngineEnds PROVE BusyIsWorked'
  BY <1>3 DEF EngineEnds, process, history, Types, Threads, Begins, Past,
     BusyIsWorked, Phase, InThread
<1>4. ASSUME NEW r \in Request, Arrive(r) PROVE BusyIsWorked'
  BY <1>4 DEF Arrive, Goto, process, history, Types, Threads, Begins, Past,
     BusyIsWorked, Phase, InThread
<1>5. ASSUME NEW r \in Request,
             BeginChecks(r) \/ BeginPrefills(r) \/ BeginReturns(r) \/
             BeginRaises(r)
      PROVE  BusyIsWorked'
  BY <1>5 DEF BeginChecks, BeginPrefills, BeginReturns, BeginRaises,
     BeginMoves, Admitted, Turn, process, history, Types, Threads, Begins,
     Past, BusyIsWorked, Phase, InThread
<1>6. ASSUME NEW r \in Request,
             NextYields(r) \/ NextEnds(r) \/ NextRaises(r) \/ NextItem(r) \/
             Collected(r) \/ SettleDrains(r)
      PROVE  BusyIsWorked'
  BY <1>6 DEF NextYields, NextEnds, NextRaises, NextItem, Collected,
     SettleDrains, IterMoves, Turn, InThread, Free, process, history, Types,
     Threads, Begins, Past, BusyIsWorked, Phase
<1>7. ASSUME NEW r \in Request,
             Generates(r) \/ Completes(r)
      PROVE  BusyIsWorked'
  BY <1>7 DEF Generates, Completes, PlaceMoves, Goto, Turn, InThread, process,
     history, Types, Threads, Begins, Past, BusyIsWorked, Phase
<1>8. ASSUME NEW r \in Request, Fails(r) \/ Cancel(r) PROVE BusyIsWorked'
  BY <1>8 DEF Fails, Cancel, Retires, PlaceMoves, Goto, process, history,
     Types, Threads, Begins, Past, BusyIsWorked, Phase, InThread
<1>9. ASSUME NEW r \in Stream,
             SettleEnds(r) \/ SettleTimesOut(r)
      PROVE  BusyIsWorked'
  BY <1>9 DEF SettleEnds, SettleTimesOut, PlaceMoves, Goto, Unsettled,
     InThread, process, history, Types, Threads, Begins, Past, BusyIsWorked,
     Phase
<1>10. ASSUME NEW r \in Request,
              RetirePublishes(r) \/ Check(r) \/ Ready(r)
       PROVE  BusyIsWorked'
  BY <1>10 DEF RetirePublishes, Check, Ready, PlaceMoves, Goto, process,
     history, Types, Threads, Begins, Past, BusyIsWorked, Phase, InThread
<1>11. ASSUME NEW r \in Request, Drop(r) PROVE BusyIsWorked'
  <2>1. CASE count = 1
    BY <1>11, <2>1 DEF Drop, Goto, Types, BusyIsWorked
  <2>2. CASE count # 1
    <3>1. r \in Counted
      BY <1>11 DEF Drop, Counted
    <3>2. Counted # {r}
      BY <2>2, FS_Singleton DEF CountAgrees
    <3>3. PICK q \in Counted : q # r
      BY <3>1, <3>2
    <3>4. q \in Request /\ place'[q] \notin {"new", "done"}
      BY <1>11, <3>3 DEF Drop, Goto, Types, Counted
    <3>. QED
      BY <3>4 DEF BusyIsWorked
  <2>. QED
    BY <2>1, <2>2
<1>12. CASE UNCHANGED vars
  BY <1>12 DEF vars, process, history, InThread, Types, Threads, Begins, Past,
     BusyIsWorked, Phase
<1>. QED
  BY <1>1, <1>2, <1>3, <1>4, <1>5, <1>6, <1>7, <1>8, <1>9, <1>10, <1>11, <1>12
     DEF Next, Settle, Release

-----------------------------------------------------------------------------
(* The inductive invariant holds of every behaviour.                       *)
THEOREM InvariantHolds == Spec => []RuntimeInv
<1>1. Init => RuntimeInv
  <2>. SUFFICES ASSUME Init PROVE RuntimeInv
    OBVIOUS
  <2>1. Types
    BY DEF Init, Types, Mode, Phase, Place, InThread
  <2>2. CountAgrees
    <3>1. Counted = {}
      BY DEF Init, Counted
    <3>. QED
      BY <3>1, FS_EmptySet DEF Init, CountAgrees
  <2>3. Threads
    BY DEF Init, Threads, Begins, Past
  <2>4. Owned /\ Phases /\ BusyIsWorked
    BY DEF Init, Owned, Phases, BusyIsWorked
  <2>. QED
    BY <2>1, <2>2, <2>3, <2>4 DEF RuntimeInv
<1>2. RuntimeInv /\ [Next]_vars => RuntimeInv'
  BY TypesStep, CountStep, ThreadsStep, OwnedStep, PhasesStep, BusyStep
     DEF RuntimeInv
<1>. QED
  BY <1>1, <1>2, PTL DEF Spec

(* Type correctness of the runtime (TypeOK), the counter's bound included. *)
THEOREM TypesCorrect == Spec => []TypeOK
<1>1. RuntimeInv => TypeOK
  <2>. SUFFICES ASSUME RuntimeInv PROVE TypeOK
    OBVIOUS
  <2>1. Counted \subseteq Request /\ IsFiniteSet(Request)
    BY RuntimeAssumptions DEF Counted, Request
  <2>2. /\ Cardinality(Counted) \in Nat
        /\ Cardinality(Request) \in Nat
        /\ Cardinality(Counted) <= Cardinality(Request)
    BY <2>1, FS_Subset, FS_CardinalityType
  <2>. QED
    BY <2>2 DEF RuntimeInv, Types, CountAgrees, TypeOK
<1>. QED
  BY <1>1, InvariantHolds, PTL

(* The active request counter agrees with the requests, however each of    *)
(* them ends (CountAgrees).                                                *)
THEOREM CountCorrect == Spec => []CountAgrees
<1>1. RuntimeInv => CountAgrees
  BY DEF RuntimeInv
<1>. QED
  BY <1>1, InvariantHolds, PTL

(* A retired runtime begins no generation (RetiredAdmitsNone).             *)
THEOREM RetirementCorrect == Spec => []RetiredAdmitsNone
<1>1. RuntimeInv => RetiredAdmitsNone
  BY DEF RuntimeInv, Threads, Types, RetiredAdmitsNone
<1>. QED
  BY <1>1, InvariantHolds, PTL

(* A runtime without requests is ready again, or has failed (QuietIsReady).*)
THEOREM QuietCorrect == Spec => []QuietIsReady
<1>1. RuntimeInv => QuietIsReady
  BY DEF RuntimeInv, Types, Phase, Phases, BusyIsWorked, QuietIsReady
<1>. QED
  BY <1>1, InvariantHolds, PTL

(* The single-node lock is held by a request that gives it back, but for   *)
(* the streams whose begin came too late (LockComesBack).                  *)
THEOREM LockCorrect == Spec => []LockComesBack
<1>1. RuntimeInv => LockComesBack
  BY DEF RuntimeInv, Types, Threads, Past, Owned, LockComesBack
<1>. QED
  BY <1>1, InvariantHolds, PTL
=============================================================================
