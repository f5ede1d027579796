------------------------ MODULE AgentWatchdog_proofs ------------------------
(***************************************************************************)
(* Proofs about AgentWatchdog: its types, the sliding window over all      *)
(* restarts, the failed probes every restart is preceded by, and the       *)
(* backoff between two restarts.                                           *)
(***************************************************************************)
EXTENDS AgentWatchdog, TLAPS, WellFoundedInduction, FiniteSetTheorems

USE DEF Time

(* The list times remembers all of history but a prefix whose members left *)
(* the window that ends at n.                                              *)
Kept(times, history, n) ==
    \E k \in 0..Len(history) :
        /\ Len(times) = Len(history) - k
        /\ \A i \in 1..Len(times) : times[i] = history[k + i]
        /\ \A j \in 1..k : history[j] < n - RestartWindow

Ordered(times) == \A i, j \in 1..Len(times) : i <= j => times[i] <= times[j]

(* Restarts are recorded in the order of the clock.                        *)
InOrder ==
    /\ now <= clock
    /\ \A i \in 1..Len(restarts) : restarts[i] <= now
    /\ Ordered(restarts)

(* The failure counter never runs ahead of the failures there were.        *)
Counts ==
    /\ state.failures <= streak
    /\ disk.failures <= streak
    /\ at \in {"inspecting", "restarting"}
          => state.failures >= FailureThreshold

Budget == at = "restarting" => Len(state.restart_times) < MaxRestarts

WatchdogInv ==
    /\ TypeOK
    /\ InOrder
    /\ Kept(state.restart_times, restarts, now)
    /\ Kept(disk.restart_times, restarts, now)
    /\ Budget
    /\ Counts
    /\ RestartsSpread

-----------------------------------------------------------------------------
(* Every backoff is an integer.                                            *)
LEMMA BackoffType ==
    ASSUME NEW n \in Nat, n >= 1
    PROVE  Backoff(n) \in Int
<1>1. n - 1 \in Nat
  OBVIOUS
<1>2. 2^(n - 1) \in Int
  BY <1>1, Z3
<1>. QED
  BY <1>2, WatchdogAssumptions DEF Backoff

(* A set of numbers that is not empty has a least member.                  *)
LEMMA Least ==
    ASSUME NEW T \in SUBSET Nat, T # {}
    PROVE  \E m \in T : \A n \in T : m <= n
<1>. DEFINE R == OpToRel(<, Nat)
<1>1. IsWellFoundedOn(R, Nat)
  BY NatLessThanWellFounded
<1>2. \A m, n \in Nat : n < m => <<n, m>> \in R
  <2>1. \A m, n \in Nat : <<n, m>> \in Nat \X Nat
    OBVIOUS
  <2>. QED
    BY <2>1 DEF OpToRel
<1>. HIDE DEF R
<1>3. PICK m \in T : \A n \in T : ~(<<n, m>> \in R)
  BY <1>1, WFMin
<1>4. \A n \in T : ~(n < m)
  BY <1>2, <1>3
<1>5. m \in Nat /\ \A n \in T : n \in Nat
  OBVIOUS
<1>. QED
  BY <1>4, <1>5

(* A list in the order of the clock splits at the beginning of the window, *)
(* and InWindow keeps what follows the split.                              *)
LEMMA WindowIsSuffix ==
    ASSUME NEW times \in Seq(Nat), now \in Nat, Ordered(times)
    PROVE  \E k \in 0..Len(times) :
              /\ InWindow(times) = SubSeq(times, k + 1, Len(times))
              /\ \A j \in 1..k : times[j] < now - RestartWindow
              /\ \A j \in k+1..Len(times) : times[j] >= now - RestartWindow
<1>. DEFINE cutoff == now - RestartWindow
            Late(k) == \A j \in k+1..Len(times) : times[j] >= cutoff
            Splits(k) == /\ \A j \in 1..k : times[j] < cutoff
                         /\ \A j \in k+1..Len(times) : times[j] >= cutoff
            T == {k \in Nat : Late(k)}
<1>1. cutoff \in Int
  BY WatchdogAssumptions
<1>. HIDE DEF cutoff
<1>2. \E k \in 0..Len(times) : Splits(k)
  <2>1. Len(times) \in T
    OBVIOUS
  <2>2. PICK m \in T : \A n \in T : m <= n
    BY <2>1, Least
  <2>3. m \in 0..Len(times) /\ Late(m)
    BY <2>1, <2>2
  <2>4. \A j \in 1..m : times[j] < cutoff
    <3>1. CASE m = 0
      BY <3>1
    <3>2. CASE m > 0
      <4>1. m - 1 \in Nat /\ ~Late(m - 1)
        BY <2>2, <2>3, <3>2
      <4>2. PICK j \in m..Len(times) : ~(times[j] >= cutoff)
        BY <4>1, <2>3
      <4>3. j = m
        BY <4>2, <2>3
      <4>4. times[m] < cutoff
        BY <4>2, <4>3, <1>1, <3>2, <2>3
      <4>5. \A i \in 1..m : times[i] <= times[m] /\ times[i] \in Nat
        BY <2>3, <3>2 DEF Ordered
      <4>6. times[m] \in Int /\ \A i \in 1..m : times[i] \in Int
        BY <2>3, <3>2
      <4>. HIDE DEF T
      <4>. QED
        BY <4>4, <4>5, <4>6, <1>1
    <3>. QED
      BY <2>3, <3>1, <3>2
  <2>. QED
    BY <2>3, <2>4
<1>. DEFINE k == CHOOSE c \in 0..Len(times) : Splits(c)
<1>3. k \in 0..Len(times) /\ Splits(k)
  BY <1>2
<1>4. InWindow(times) = SubSeq(times, k + 1, Len(times))
  BY DEF InWindow, cutoff
<1>. HIDE DEF k
<1>. QED
  BY <1>3, <1>4 DEF cutoff

(* Time only makes members of the prefix older.                            *)
LEMMA KeptLater ==
    ASSUME NEW times \in Seq(Nat), NEW history \in Seq(Nat),
           NEW n \in Nat, NEW m \in Nat, n <= m, Kept(times, history, n)
    PROVE  Kept(times, history, m)
<1>1. PICK k \in 0..Len(history) :
         /\ Len(times) = Len(history) - k
         /\ \A i \in 1..Len(times) : times[i] = history[k + i]
         /\ \A j \in 1..k : history[j] < n - RestartWindow
  BY DEF Kept
<1>2. \A j \in 1..k : history[j] < m - RestartWindow
  BY <1>1, WatchdogAssumptions
<1>. QED
  BY <1>1, <1>2 DEF Kept

(* A list that remembers an ordered history is ordered.                    *)
LEMMA KeptOrdered ==
    ASSUME NEW times \in Seq(Nat), NEW history \in Seq(Nat),
           NEW n \in Nat, Ordered(history), Kept(times, history, n)
    PROVE  Ordered(times)
<1>1. PICK k \in 0..Len(history) :
         /\ Len(times) = Len(history) - k
         /\ \A i \in 1..Len(times) : times[i] = history[k + i]
  BY DEF Kept
<1>. SUFFICES ASSUME NEW i \in 1..Len(times), NEW j \in 1..Len(times), i <= j
              PROVE  times[i] <= times[j]
  BY DEF Ordered
<1>2. k + i \in 1..Len(history) /\ k + j \in 1..Len(history) /\ k + i <= k + j
  BY <1>1
<1>3. history[k + i] <= history[k + j]
  BY <1>2 DEF Ordered
<1>. QED
  BY <1>1, <1>3

(* Every member of the list is in the window.                              *)
Recent(times) ==
    \A i \in 1..Len(times) : times[i] >= now - RestartWindow

(* Pruning keeps what the window needs, and only that.                     *)
LEMMA KeptPruned ==
    ASSUME NEW times \in Seq(Nat), NEW history \in Seq(Nat), now \in Nat,
           Ordered(history), Kept(times, history, now)
    PROVE  /\ InWindow(times) \in Seq(Nat)
           /\ Kept(InWindow(times), history, now)
           /\ Recent(InWindow(times))
<1>1. PICK k \in 0..Len(history) :
         /\ Len(times) = Len(history) - k
         /\ \A i \in 1..Len(times) : times[i] = history[k + i]
         /\ \A j \in 1..k : history[j] < now - RestartWindow
  BY DEF Kept
<1>2. Ordered(times)
  BY KeptOrdered
<1>3. PICK c \in 0..Len(times) :
         /\ InWindow(times) = SubSeq(times, c + 1, Len(times))
         /\ \A j \in 1..c : times[j] < now - RestartWindow
         /\ \A j \in c+1..Len(times) : times[j] >= now - RestartWindow
  BY <1>2, WindowIsSuffix
<1>. DEFINE kept == SubSeq(times, c + 1, Len(times))
<1>4. /\ kept \in Seq(Nat)
      /\ Len(kept) = Len(times) - c
      /\ \A i \in 1..Len(kept) : kept[i] = times[c + i]
  OBVIOUS
<1>. HIDE DEF kept
<1>5. \A j \in 1..k+c : history[j] < now - RestartWindow
  <2>. SUFFICES ASSUME NEW j \in 1..k+c
                PROVE  history[j] < now - RestartWindow
    OBVIOUS
  <2>1. CASE j <= k
    BY <1>1, <2>1
  <2>2. CASE j > k
    <3>1. j - k \in 1..c /\ j - k \in 1..Len(times) /\ k + (j - k) = j
      BY <1>1, <1>3, <2>2
    <3>2. history[j] = times[j - k]
      BY <1>1, <3>1
    <3>. QED
      BY <1>3, <3>1, <3>2
  <2>. QED
    BY <2>1, <2>2
<1>6. ASSUME NEW i \in 1..Len(kept)
      PROVE  kept[i] = history[(k + c) + i]
  <2>1. c + i \in 1..Len(times) /\ k + (c + i) = (k + c) + i
    BY <1>1, <1>3, <1>4
  <2>2. times[c + i] = history[k + (c + i)]
    BY <1>1, <2>1
  <2>. QED
    BY <1>4, <2>1, <2>2
<1>7. k + c \in 0..Len(history) /\ Len(kept) = Len(history) - (k + c)
  BY <1>1, <1>3, <1>4
<1>8. Kept(kept, history, now)
  BY <1>5, <1>6, <1>7 DEF Kept
<1>9. Recent(kept)
  <2>. SUFFICES ASSUME NEW i \in 1..Len(kept)
                PROVE  kept[i] >= now - RestartWindow
    BY DEF Recent
  <2>1. c + i \in c+1..Len(times)
    BY <1>3, <1>4
  <2>. QED
    BY <1>3, <1>4, <2>1
<1>. QED
  BY <1>3, <1>4, <1>8, <1>9 DEF kept

(* A restart enters the list and the history together.                     *)
LEMMA KeptAppended ==
    ASSUME NEW times \in Seq(Nat), NEW history \in Seq(Nat), NEW n \in Nat,
           Kept(times, history, n)
    PROVE  Kept(Append(times, n), Append(history, n), n)
<1>1. PICK k \in 0..Len(history) :
         /\ Len(times) = Len(history) - k
         /\ \A i \in 1..Len(times) : times[i] = history[k + i]
         /\ \A j \in 1..k : history[j] < n - RestartWindow
  BY DEF Kept
<1>2. /\ k \in 0..Len(Append(history, n))
      /\ Len(Append(times, n)) = Len(Append(history, n)) - k
  BY <1>1
<1>3. ASSUME NEW i \in 1..Len(Append(times, n))
      PROVE  Append(times, n)[i] = Append(history, n)[k + i]
  <2>1. CASE i \in 1..Len(times)
    <3>1. k + i \in 1..Len(history) /\ times[i] = history[k + i]
      BY <1>1, <2>1
    <3>. QED
      BY <2>1, <3>1
  <2>2. CASE i = Len(times) + 1
    <3>1. k + i = Len(history) + 1
      BY <1>1, <2>2
    <3>2. Append(times, n)[i] = n
      BY <2>2
    <3>3. Append(history, n)[Len(history) + 1] = n
      OBVIOUS
    <3>4. Append(history, n)[k + i] = n
      BY ONLY <3>1, <3>3, Zenon
    <3>. QED
      BY ONLY <3>2, <3>4, Zenon
  <2>3. i \in 1..Len(times) \/ i = Len(times) + 1
    OBVIOUS
  <2>. QED
    BY ONLY <2>1, <2>2, <2>3, Zenon
<1>4. \A j \in 1..k : Append(history, n)[j] < n - RestartWindow
  BY <1>1
<1>. QED
  BY <1>2, <1>3, <1>4 DEF Kept

(* A window with room for one more restart keeps the restarts spread.      *)
Spread(history) ==
    \A i \in 1..Len(history) :
        i + MaxRestarts <= Len(history)
            => history[i + MaxRestarts] - history[i] > RestartWindow

(* A restart under budget keeps the whole history spread: see Spread.      *)
LEMMA SpreadAppended ==
    ASSUME NEW times \in Seq(Nat), NEW history \in Seq(Nat), NEW n \in Nat,
           Kept(times, history, n), Len(times) < MaxRestarts, Spread(history)
    PROVE  Spread(Append(history, n))
<1>1. PICK k \in 0..Len(history) :
         /\ Len(times) = Len(history) - k
         /\ \A j \in 1..k : history[j] < n - RestartWindow
  BY DEF Kept
<1>. DEFINE longer == Append(history, n)
<1>2. /\ Len(longer) = Len(history) + 1
      /\ \A i \in 1..Len(history) : longer[i] = history[i]
      /\ longer[Len(history) + 1] = n
  OBVIOUS
<1>. SUFFICES ASSUME NEW i \in 1..Len(longer), i + MaxRestarts <= Len(longer)
              PROVE  longer[i + MaxRestarts] - longer[i] > RestartWindow
  BY DEF Spread
<1>. HIDE DEF longer
<1>3. CASE i + MaxRestarts <= Len(history)
  <2>1. MaxRestarts \in Nat
    BY WatchdogAssumptions
  <2>2. i \in 1..Len(history) /\ i + MaxRestarts \in 1..Len(history)
    BY <1>2, <1>3, <2>1
  <2>3. history[i + MaxRestarts] - history[i] > RestartWindow
    BY <1>3, <2>2 DEF Spread
  <2>4. longer[i] = history[i]
        /\ longer[i + MaxRestarts] = history[i + MaxRestarts]
    BY <1>2, <2>2
  <2>. QED
    BY ONLY <2>3, <2>4, Zenon
<1>4. CASE i + MaxRestarts = Len(history) + 1
  <2>1. i \in 1..k
    BY <1>1, <1>4, WatchdogAssumptions
  <2>2. i \in 1..Len(history) /\ history[i] \in Nat
    BY <2>1
  <2>3. longer[i] = history[i]
    BY <1>2, <2>2
  <2>4. history[i] < n - RestartWindow
    BY <1>1, <2>1
  <2>5. longer[i + MaxRestarts] = n
    BY <1>2, <1>4
  <2>. QED
    BY <2>2, <2>3, <2>4, <2>5, WatchdogAssumptions
<1>5. i + MaxRestarts \in Int /\ i + MaxRestarts <= Len(history) + 1
  BY <1>2, WatchdogAssumptions
<1>. QED
  BY <1>3, <1>4, <1>5

(* Appending the present time keeps a list in order.                       *)
LEMMA OrderedAppended ==
    ASSUME NEW history \in Seq(Nat), NEW n \in Nat, Ordered(history),
           \A i \in 1..Len(history) : history[i] <= n
    PROVE  Ordered(Append(history, n))
<1>. DEFINE longer == Append(history, n)
<1>1. /\ Len(longer) = Len(history) + 1
      /\ \A i \in 1..Len(history) : longer[i] = history[i]
      /\ longer[Len(history) + 1] = n
  OBVIOUS
<1>. HIDE DEF longer
<1>. SUFFICES ASSUME NEW i \in 1..Len(longer), NEW j \in 1..Len(longer), i <= j
              PROVE  longer[i] <= longer[j]
  BY DEF Ordered, longer
<1>2. CASE j \in 1..Len(history)
  BY <1>1, <1>2 DEF Ordered
<1>3. CASE j = Len(history) + 1
  BY <1>1, <1>3
<1>. QED
  BY <1>1, <1>2, <1>3

-----------------------------------------------------------------------------
(* A step that leaves the history and both lists alone keeps what they     *)
(* remember, whatever the clock does.                                      *)
Memory ==
    /\ Kept(state.restart_times, restarts, now)
    /\ Kept(disk.restart_times, restarts, now)

(* Later, the two lists still remember the history: time only forgets.     *)
LEMMA MemoryKept ==
    ASSUME TypeOK, InOrder, Memory, TypeOK', now <= now',
           restarts' = restarts,
           state'.restart_times \in {state.restart_times, disk.restart_times},
           disk'.restart_times \in {state.restart_times, disk.restart_times}
    PROVE  Memory'
<1>1. /\ state.restart_times \in Seq(Nat)
      /\ disk.restart_times \in Seq(Nat)
      /\ restarts \in Seq(Nat)
      /\ now \in Nat
      /\ now' \in Nat
  BY DEF TypeOK, WatchdogState
<1>2. /\ Kept(state.restart_times, restarts, now')
      /\ Kept(disk.restart_times, restarts, now')
  BY <1>1, KeptLater DEF Memory
<1>. QED
  BY <1>2 DEF Memory

(* What an inspection leaves behind is typed and still remembers.          *)
LEMMA InspectedKeeps ==
    ASSUME TypeOK, InOrder, Memory, NEW keepalive \in BOOLEAN
    PROVE  /\ Inspected(keepalive) \in WatchdogState
           /\ Inspected(keepalive).failures = state.failures
           /\ Inspected(keepalive).restart_times = InWindow(state.restart_times)
           /\ Kept(InWindow(state.restart_times), restarts, now)
           /\ Recent(InWindow(state.restart_times))
<1>1. /\ state.restart_times \in Seq(Nat)
      /\ restarts \in Seq(Nat)
      /\ now \in Nat
      /\ state.missing_since \in Nat \cup {None}
  BY DEF TypeOK, WatchdogState
<1>2. /\ InWindow(state.restart_times) \in Seq(Nat)
      /\ Kept(InWindow(state.restart_times), restarts, now)
      /\ Recent(InWindow(state.restart_times))
  BY <1>1, KeptPruned DEF Memory, InOrder
<1>3. MissingSince(keepalive) \in Nat \cup {None}
  BY <1>1 DEF MissingSince
<1>. QED
  BY <1>2, <1>3 DEF Inspected, TypeOK, WatchdogState

-----------------------------------------------------------------------------
(* The invariant holds in every initial state.                             *)
LEMMA InitHolds == Init => WatchdogInv
<1>. SUFFICES ASSUME Init PROVE WatchdogInv
  OBVIOUS
<1>1. TypeOK
  <2>1. <<>> \in Seq(Nat) /\ "online" \in Phase
    BY DEF Phase
  <2>2. FreshState \in WatchdogState
    BY <2>1 DEF FreshState, WatchdogState
  <2>. QED
    BY <2>1, <2>2 DEF Init, TypeOK
<1>2. Kept(<<>>, <<>>, 0)
  BY DEF Kept
<1>3. /\ Kept(state.restart_times, restarts, now)
      /\ Kept(disk.restart_times, restarts, now)
  BY <1>2 DEF Init, FreshState
<1>4. InOrder /\ Budget /\ Counts /\ RestartsSpread
  BY WatchdogAssumptions
     DEF Init, FreshState, InOrder, Ordered, Budget, Counts, RestartsSpread
<1>. QED
  BY <1>1, <1>3, <1>4 DEF WatchdogInv

(* A failed probe moves every counter up, and none past another.           *)
LEMMA CountedMore ==
    ASSUME NEW n \in Nat, NEW m \in Nat, n <= m
    PROVE  /\ Counted(n) \in Nat
           /\ Counted(n) <= Counted(m)
           /\ n <= Counted(m)
           /\ n + 1 >= FailureThreshold => Counted(n) >= FailureThreshold
<1>. FailureThreshold \in Nat
  BY WatchdogAssumptions
<1>. QED
  BY DEF Counted

-----------------------------------------------------------------------------
(* Every step keeps the invariant, action by action.                       *)
LEMMA StepHolds == WatchdogInv /\ [Next]_vars => WatchdogInv'
<1>. SUFFICES ASSUME WatchdogInv, [Next]_vars PROVE WatchdogInv'
  OBVIOUS
<1>1. /\ TypeOK /\ InOrder /\ Memory /\ Budget /\ Counts /\ RestartsSpread
  BY DEF WatchdogInv, Memory
<1>2. /\ state.phase \in Phase /\ disk.phase \in Phase
      /\ state.failures \in Nat /\ disk.failures \in Nat
      /\ state.restart_times \in Seq(Nat) /\ disk.restart_times \in Seq(Nat)
      /\ state.backoff_until \in Int \cup {None}
      /\ state.missing_since \in Nat \cup {None}
      /\ restarts \in Seq(Nat) /\ now \in Nat /\ clock \in Nat
      /\ streak \in Nat /\ until \in Nat /\ answered \in BOOLEAN
  BY <1>1 DEF TypeOK, WatchdogState
<1>3. ASSUME TypeOK', Memory', InOrder', Budget', Counts', RestartsSpread'
      PROVE  WatchdogInv'
  BY <1>3 DEF WatchdogInv, Memory
<1>4. CASE TickInMaintenance
  <2>. USE <1>4 DEF TickInMaintenance, Persist
  <2>1. TypeOK'
    BY <1>1, <1>2 DEF TypeOK, WatchdogState, Phase
  <2>2. InOrder'
    BY <1>1, <1>2 DEF InOrder
  <2>3. Memory'
    BY <1>1, <2>1, MemoryKept DEF InOrder
  <2>4. Budget' /\ Counts' /\ RestartsSpread'
    BY <1>1, <1>2 DEF Budget, Counts, RestartsSpread
  <2>. QED
    BY <1>3, <2>1, <2>2, <2>3, <2>4
<1>5. CASE TickProbes
  <2>. USE <1>5 DEF TickProbes, GoOn
  <2>1. TypeOK'
    BY <1>1, <1>2 DEF TypeOK
  <2>2. InOrder'
    BY <1>1, <1>2 DEF InOrder
  <2>3. Memory'
    BY <1>1, <2>1, MemoryKept DEF InOrder
  <2>4. Budget' /\ Counts' /\ RestartsSpread'
    BY <1>1 DEF Budget, Counts, RestartsSpread
  <2>. QED
    BY <1>3, <2>1, <2>2, <2>3, <2>4
<1>6. CASE \E degraded \in BOOLEAN : ProbeAnswered(degraded)
  <2>. PICK degraded \in BOOLEAN : ProbeAnswered(degraded)
    BY <1>6
  <2>. USE DEF ProbeAnswered, Persist
  <2>1. TypeOK'
    BY <1>1, <1>2 DEF TypeOK, WatchdogState, Phase
  <2>2. InOrder'
    BY <1>1 DEF InOrder
  <2>3. Memory'
    BY <1>1, <1>2, <2>1, MemoryKept
  <2>4. Budget' /\ Counts' /\ RestartsSpread'
    BY <1>1, <1>2 DEF Budget, Counts, RestartsSpread
  <2>. QED
    BY <1>3, <2>1, <2>2, <2>3, <2>4
<1>7. CASE ProbeFailsEarly
  <2>1. PICK phase \in {"recovering", "degraded"} :
          /\ state' = [state EXCEPT !.failures = Counted(state.failures),
                                    !.phase = phase]
          /\ disk' = state'
          /\ at' = "sleeping"
          /\ streak' = Counted(streak)
          /\ UNCHANGED <<now, clock, until, restarts, answered>>
    BY <1>7 DEF ProbeFailsEarly, Persist, CountFailure
  <2>2. /\ Counted(state.failures) \in Nat
        /\ Counted(state.failures) <= Counted(streak)
        /\ Counted(streak) \in Nat
        /\ disk.failures <= Counted(streak)
    <3>1. state.failures <= streak /\ disk.failures <= streak
      BY <1>1 DEF Counts
    <3>2. /\ Counted(state.failures) \in Nat
          /\ Counted(state.failures) <= Counted(streak)
      BY <1>2, <3>1, CountedMore
    <3>3. disk.failures <= Counted(streak) /\ Counted(streak) \in Nat
      BY <1>2, <3>1, CountedMore
    <3>. QED
      BY <3>2, <3>3
  <2>3. /\ state' \in WatchdogState
        /\ state'.failures = Counted(state.failures)
        /\ state'.restart_times = state.restart_times
    BY <1>1, <2>1, <2>2 DEF TypeOK, WatchdogState, Phase
  <2>4. TypeOK'
    BY <1>1, <1>2, <2>1, <2>2, <2>3 DEF TypeOK
  <2>5. InOrder' /\ Memory'
    BY <1>1, <2>1, <2>3 DEF InOrder, Memory
  <2>6. Budget' /\ Counts' /\ RestartsSpread'
    BY <1>1, <2>1, <2>2, <2>3 DEF Budget, Counts, RestartsSpread
  <2>. QED
    BY <1>3, <2>4, <2>5, <2>6
<1>8. CASE ProbeFails
  <2>1. /\ state.failures + 1 >= FailureThreshold
        /\ state' = [state EXCEPT !.failures = Counted(state.failures)]
        /\ at' = "inspecting"
        /\ streak' = Counted(streak)
        /\ UNCHANGED <<disk, now, clock, until, restarts, answered>>
    BY <1>8 DEF ProbeFails, GoOn, CountFailure
  <2>2. /\ Counted(state.failures) \in Nat
        /\ Counted(state.failures) <= Counted(streak)
        /\ Counted(streak) \in Nat
        /\ disk.failures <= Counted(streak)
        /\ Counted(state.failures) >= FailureThreshold
    <3>1. state.failures <= streak /\ disk.failures <= streak
      BY <1>1 DEF Counts
    <3>2. /\ Counted(state.failures) \in Nat
          /\ Counted(state.failures) <= Counted(streak)
          /\ Counted(state.failures) >= FailureThreshold
      BY <1>2, <2>1, <3>1, CountedMore
    <3>3. disk.failures <= Counted(streak) /\ Counted(streak) \in Nat
      BY <1>2, <3>1, CountedMore
    <3>. QED
      BY <3>2, <3>3
  <2>3. /\ state' \in WatchdogState
        /\ state'.failures = Counted(state.failures)
        /\ state'.restart_times = state.restart_times
    BY <1>1, <2>1, <2>2 DEF TypeOK, WatchdogState
  <2>4. TypeOK'
    BY <1>1, <1>2, <2>1, <2>2, <2>3 DEF TypeOK
  <2>5. InOrder' /\ Memory'
    BY <1>1, <2>1, <2>3 DEF InOrder, Memory
  <2>6. Budget' /\ Counts' /\ RestartsSpread'
    BY <1>1, <2>1, <2>2, <2>3 DEF Budget, Counts, RestartsSpread
  <2>. QED
    BY <1>3, <2>4, <2>5, <2>6
<1>9. CASE \E keepalive \in BOOLEAN : LeaveToLaunchd(keepalive)
  <2>. PICK keepalive \in BOOLEAN : LeaveToLaunchd(keepalive)
    BY <1>9
  <2>. USE DEF LeaveToLaunchd, Persist
  <2>1. MissingSince(keepalive) \in Nat \cup {None}
    BY <1>2 DEF MissingSince
  <2>2. TypeOK'
    BY <1>1, <1>2, <2>1 DEF TypeOK, WatchdogState, Phase
  <2>3. InOrder'
    BY <1>1 DEF InOrder
  <2>4. Memory'
    BY <1>1, <1>2, <2>2, MemoryKept
  <2>5. Budget' /\ Counts' /\ RestartsSpread'
    BY <1>1, <1>2 DEF Budget, Counts, RestartsSpread
  <2>. QED
    BY <1>3, <2>2, <2>3, <2>4, <2>5
<1>10. CASE \E keepalive \in BOOLEAN :
               OpenCircuit(keepalive) \/ AwaitBackoff(keepalive)
  <2>. PICK keepalive \in BOOLEAN :
            OpenCircuit(keepalive) \/ AwaitBackoff(keepalive)
    BY <1>10
  <2>1. /\ Inspected(keepalive) \in WatchdogState
        /\ Inspected(keepalive).failures = state.failures
        /\ Inspected(keepalive).restart_times = InWindow(state.restart_times)
        /\ Kept(InWindow(state.restart_times), restarts, now)
    BY <1>1, InspectedKeeps
  <2>2. PICK phase \in {"circuit_open", "recovering"} :
          /\ state' = [Inspected(keepalive) EXCEPT !.phase = phase]
          /\ disk' = state'
          /\ at' = "sleeping"
          /\ UNCHANGED <<now, clock, until, restarts, streak, answered>>
    BY DEF OpenCircuit, AwaitBackoff, Persist
  <2>3. /\ state' \in WatchdogState
        /\ state'.failures = state.failures
        /\ state'.restart_times = InWindow(state.restart_times)
    BY <2>1, <2>2 DEF WatchdogState, Phase
  <2>4. TypeOK'
    BY <1>1, <1>2, <2>2, <2>3 DEF TypeOK
  <2>5. InOrder' /\ Memory'
    BY <1>1, <2>1, <2>2, <2>3 DEF InOrder, Memory
  <2>6. Budget' /\ Counts' /\ RestartsSpread'
    BY <1>1, <1>2, <2>2, <2>3 DEF Budget, Counts, RestartsSpread
  <2>. QED
    BY <1>3, <2>4, <2>5, <2>6
<1>11. CASE \E keepalive \in BOOLEAN : DecideRestart(keepalive)
  <2>. PICK keepalive \in BOOLEAN : DecideRestart(keepalive)
    BY <1>11
  <2>1. /\ Inspected(keepalive) \in WatchdogState
        /\ Inspected(keepalive).failures = state.failures
        /\ Inspected(keepalive).restart_times = InWindow(state.restart_times)
        /\ Kept(InWindow(state.restart_times), restarts, now)
    BY <1>1, InspectedKeeps
  <2>2. /\ at = "inspecting"
        /\ Len(InWindow(state.restart_times)) < MaxRestarts
        /\ state' = Inspected(keepalive)
        /\ at' = "restarting"
        /\ UNCHANGED <<disk, now, clock, until, restarts, streak, answered>>
    BY DEF DecideRestart, GoOn
  <2>3. TypeOK'
    BY <1>1, <1>2, <2>1, <2>2 DEF TypeOK
  <2>4. InOrder' /\ Memory'
    BY <1>1, <2>1, <2>2 DEF InOrder, Memory
  <2>5. Budget' /\ Counts' /\ RestartsSpread'
    BY <1>1, <1>2, <2>1, <2>2 DEF Budget, Counts, RestartsSpread
  <2>. QED
    BY <1>3, <2>3, <2>4, <2>5
<1>12. CASE KickstartFails
  <2>. USE <1>12 DEF KickstartFails, Persist
  <2>1. TypeOK'
    BY <1>1, <1>2 DEF TypeOK, WatchdogState, Phase
  <2>2. InOrder'
    BY <1>1 DEF InOrder
  <2>3. Memory'
    BY <1>1, <1>2, <2>1, MemoryKept
  <2>4. Budget' /\ Counts' /\ RestartsSpread'
    BY <1>1, <1>2 DEF Budget, Counts, RestartsSpread
  <2>. QED
    BY <1>3, <2>1, <2>2, <2>3, <2>4
<1>13. CASE Restart
  <2>. DEFINE times == Append(state.restart_times, now)
  <2>1. /\ at = "restarting"
        /\ state' = [state EXCEPT !.restart_times = times,
                                  !.backoff_until = now + Backoff(Len(times)),
                                  !.phase = "restarting",
                                  !.failures = 0]
        /\ disk' = state'
        /\ at' = "sleeping"
        /\ restarts' = Append(restarts, now)
        /\ streak' = 0
        /\ answered' = FALSE
        /\ UNCHANGED <<now, clock, until>>
    BY <1>13 DEF Restart, Persist
  <2>2. /\ times \in Seq(Nat)
        /\ Len(times) \in Nat /\ Len(times) >= 1
        /\ restarts' \in Seq(Nat)
    BY <1>2, <2>1
  <2>3. now + Backoff(Len(times)) \in Int
    BY <1>2, <2>2, BackoffType
  <2>. DEFINE pending == now + Backoff(Len(times))
  <2>. HIDE DEF times, pending
  <2>4. /\ state' \in WatchdogState
        /\ state'.restart_times = times
        /\ state'.failures = 0
    <3>1. state' = [state EXCEPT !.restart_times = times,
                                 !.backoff_until = pending,
                                 !.phase = "restarting",
                                 !.failures = 0]
      BY <2>1 DEF pending
    <3>2. pending \in Int
      BY <2>3 DEF pending
    <3>. QED
      BY <1>1, <2>2, <3>1, <3>2 DEF TypeOK, WatchdogState, Phase
  <2>5. TypeOK'
    BY <1>1, <1>2, <2>1, <2>2, <2>4 DEF TypeOK
  <2>6. InOrder'
    <3>1. Ordered(restarts')
      BY <1>1, <1>2, <2>1, OrderedAppended DEF InOrder
    <3>2. \A i \in 1..Len(restarts') : restarts'[i] <= now'
      BY <1>1, <1>2, <2>1 DEF InOrder
    <3>. QED
      BY <1>1, <2>1, <3>1, <3>2 DEF InOrder
  <2>7. Memory'
    <3>1. Kept(times, restarts', now)
      BY <1>1, <1>2, <2>1, KeptAppended DEF Memory, times
    <3>. QED
      BY <2>1, <2>4, <3>1 DEF Memory
  <2>8. RestartsSpread'
    <3>1. Spread(restarts)
      BY <1>1 DEF RestartsSpread, Spread
    <3>2. Spread(restarts')
      BY <1>1, <1>2, <2>1, <3>1, SpreadAppended DEF Memory, Budget
    <3>. QED
      BY <3>2 DEF RestartsSpread, Spread
  <2>9. Budget' /\ Counts'
    BY <2>1, <2>4 DEF Budget, Counts
  <2>. QED
    BY <1>3, <2>5, <2>6, <2>7, <2>8, <2>9
<1>14. CASE Reload
  <2>. USE <1>14 DEF Reload
  <2>1. TypeOK'
    BY <1>1, <1>2 DEF TypeOK
  <2>2. InOrder' /\ Memory'
    BY <1>1 DEF InOrder, Memory
  <2>3. Budget' /\ Counts' /\ RestartsSpread'
    BY <1>1 DEF Budget, Counts, RestartsSpread
  <2>. QED
    BY <1>3, <2>1, <2>2, <2>3
<1>15. CASE ClockTicks \/ \E length \in 0..MaxMaintenance :
                            PublishMaintenance(length)
  <2>1. /\ UNCHANGED <<state, disk, at, now, restarts, streak, answered>>
        /\ clock' \in Nat /\ clock <= clock' /\ until' \in Nat
    BY <1>2, <1>15, WatchdogAssumptions DEF ClockTicks, PublishMaintenance
  <2>2. TypeOK'
    BY <1>1, <2>1 DEF TypeOK
  <2>3. InOrder' /\ Memory'
    BY <1>1, <1>2, <2>1 DEF InOrder, Memory
  <2>4. Budget' /\ Counts' /\ RestartsSpread'
    BY <1>1, <2>1 DEF Budget, Counts, RestartsSpread
  <2>. QED
    BY <1>3, <2>2, <2>3, <2>4
<1>16. CASE UNCHANGED vars
  BY <1>1, <1>3, <1>16
     DEF vars, TypeOK, InOrder, Memory, Budget, Counts, RestartsSpread
<1>. QED
  BY <1>4, <1>5, <1>6, <1>7, <1>8, <1>9, <1>10, <1>11, <1>12, <1>13, <1>14,
     <1>15, <1>16 DEF Next

(* The strengthened invariant holds in every reachable state.              *)
THEOREM InvariantHolds == Spec => []WatchdogInv
<1>. QED
  BY InitHolds, StepHolds, PTL DEF Spec

(* Every variable of the watchdog keeps its type.                          *)
THEOREM TypesCorrect == Spec => []TypeOK
<1>1. WatchdogInv => TypeOK
  BY DEF WatchdogInv
<1>. QED
  BY <1>1, InvariantHolds, PTL

(* For every threshold, budget and window: the agent is never restarted    *)
(* more than MaxRestarts times in any window, across watchdog crashes.     *)
THEOREM BudgetCorrect == Spec => []RestartsSpread
<1>1. WatchdogInv => RestartsSpread
  BY DEF WatchdogInv
<1>. QED
  BY <1>1, InvariantHolds, PTL

(* Every restart follows FailureThreshold failed probes in a row.          *)
THEOREM EarnedCorrect == Spec => []RestartsAreEarned
<1>1. WatchdogInv => RestartsAreEarned
  <2>. SUFFICES ASSUME WatchdogInv, at = "restarting"
                PROVE  streak >= FailureThreshold
    BY DEF RestartsAreEarned
  <2>1. /\ state.failures >= FailureThreshold /\ state.failures <= streak
        /\ state.failures \in Nat /\ streak \in Nat
    BY DEF WatchdogInv, Counts, TypeOK, WatchdogState
  <2>. QED
    BY <2>1, WatchdogAssumptions
<1>. QED
  BY <1>1, InvariantHolds, PTL

-----------------------------------------------------------------------------
(* The backoff between two restarts.  RestartsUpTo, of a history that is a *)
(* parameter, and the time before which no restart follows it.             *)
WindowCount(history) ==
    Cardinality({j \in 1..Len(history) :
                    history[j] >= history[Len(history)] - RestartWindow})

NextAllowed(history) == history[Len(history)] + Backoff(WindowCount(history))

(* Until the agent answers, memory and disk hold the backoff of the last   *)
(* restart, computed from all the restarts of its window.                  *)
BackoffKept ==
    restarts # <<>> /\ ~answered
        => /\ NextAllowed(restarts) \in Int
           /\ state.backoff_until = NextAllowed(restarts)
           /\ disk.backoff_until = NextAllowed(restarts)

(* What a tick decided before it called launchctl still holds after.       *)
RestartInTime ==
    at = "restarting" => ~BackoffPending /\ Recent(state.restart_times)

BackoffInv == BackoffKept /\ RestartInTime

(* The pruned list and the whole history count the same restarts: those    *)
(* the list lost are those that left the window.                           *)
LEMMA ListCountsWindow ==
    ASSUME NEW times \in Seq(Nat), NEW history \in Seq(Nat), now \in Nat,
           Kept(times, history, now), Recent(times)
    PROVE  WindowCount(Append(history, now)) = Len(Append(times, now))
<1>. DEFINE longer == Append(history, now)
            n == Len(history)
            Window == {j \in 1..Len(longer) :
                          longer[j] >= longer[Len(longer)] - RestartWindow}
<1>1. PICK k \in 0..Len(history) :
         /\ Len(times) = Len(history) - k
         /\ \A i \in 1..Len(times) : times[i] = history[k + i]
         /\ \A j \in 1..k : history[j] < now - RestartWindow
  BY DEF Kept
<1>2. /\ n \in Nat
      /\ Len(longer) = n + 1
      /\ \A j \in 1..n : longer[j] = history[j] /\ history[j] \in Nat
      /\ longer[n + 1] = now
  OBVIOUS
<1>. HIDE DEF longer, n
<1>3. ASSUME NEW j \in 1..n+1
      PROVE  longer[j] >= now - RestartWindow <=> j \in k+1..n+1
  <2>1. CASE j <= k
    <3>1. j \in 1..k /\ j \in 1..n
      BY <1>1, <1>2, <2>1 DEF n
    <3>2. longer[j] = history[j] /\ history[j] \in Nat
      BY <1>2, <3>1
    <3>3. history[j] < now - RestartWindow
      BY <1>1, <3>1
    <3>. QED
      BY <2>1, <3>2, <3>3, WatchdogAssumptions
  <2>2. CASE j > k /\ j <= n
    <3>1. j - k \in 1..Len(times) /\ k + (j - k) = j /\ j \in 1..n
      BY <1>1, <1>2, <2>2 DEF n
    <3>2. times[j - k] = history[j]
      BY <1>1, <3>1
    <3>3. times[j - k] >= now - RestartWindow
      BY <3>1 DEF Recent
    <3>4. longer[j] = history[j]
      BY <1>2, <3>1
    <3>. QED
      BY <1>1, <1>2, <2>2, <3>2, <3>3, <3>4
  <2>3. CASE j = n + 1
    BY <1>1, <1>2, <2>3, WatchdogAssumptions DEF n
  <2>. QED
    BY <1>1, <1>2, <2>1, <2>2, <2>3
<1>4. Window = k+1..n+1
  BY <1>1, <1>2, <1>3
<1>5. Cardinality(k+1..n+1) = (n + 1) - (k + 1) + 1
  BY <1>1, <1>2, FS_Interval DEF n
<1>6. WindowCount(longer) = Cardinality(Window)
  BY DEF WindowCount
<1>7. Len(Append(times, now)) = Len(times) + 1
  OBVIOUS
<1>8. k \in Int /\ Cardinality(k+1..n+1) = Len(times) + 1
  BY <1>1, <1>2, <1>5 DEF n
<1>9. WindowCount(longer) = Len(times) + 1
  BY ONLY <1>4, <1>6, <1>8, Zenon
<1>. QED
  BY ONLY <1>7, <1>9, Zenon DEF longer

(* RestartsUpTo, at the last restart, is the count of its window.          *)
LEMMA CountOfLast ==
    ASSUME restarts \in Seq(Nat)
    PROVE  RestartsUpTo(Len(restarts)) = WindowCount(restarts)
BY DEF RestartsUpTo, WindowCount

LEMMA BackoffInitHolds == Init => BackoffInv
BY DEF Init, BackoffInv, BackoffKept, RestartInTime

(* A step that restarts nothing keeps the pending backoff, unless the      *)
(* agent answered.                                                         *)
LEMMA BackoffStays ==
    ASSUME BackoffKept, restarts' = restarts, answered' = answered,
           state'.backoff_until \in {state.backoff_until, disk.backoff_until},
           disk'.backoff_until \in {state.backoff_until, disk.backoff_until}
    PROVE  BackoffKept'
<1>1. NextAllowed(restarts)' = NextAllowed(restarts)
  BY DEF NextAllowed, WindowCount, Backoff
<1>. QED
  BY <1>1 DEF BackoffKept

(* Every step keeps the backoff, action by action.                         *)
LEMMA BackoffStep ==
    ASSUME WatchdogInv, BackoffInv, [Next]_vars
    PROVE  BackoffInv'
<1>1. /\ state \in WatchdogState /\ disk \in WatchdogState
      /\ restarts \in Seq(Nat) /\ now \in Nat
      /\ state.restart_times \in Seq(Nat)
  BY DEF WatchdogInv, TypeOK, WatchdogState
<1>2. CASE TickInMaintenance
  <2>. USE <1>2 DEF TickInMaintenance, Persist
  <2>1. BackoffKept'
    BY <1>1, BackoffStays DEF BackoffInv, WatchdogState
  <2>. QED
    BY <2>1 DEF BackoffInv, RestartInTime
<1>3. CASE TickProbes
  <2>. USE <1>3 DEF TickProbes, GoOn
  <2>1. BackoffKept'
    BY <1>1, BackoffStays DEF BackoffInv
  <2>. QED
    BY <2>1 DEF BackoffInv, RestartInTime
<1>4. CASE \E degraded \in BOOLEAN : ProbeAnswered(degraded)
  BY <1>4 DEF ProbeAnswered, Persist, BackoffInv, BackoffKept, RestartInTime
<1>5. CASE ProbeFailsEarly
  <2>. USE <1>5 DEF ProbeFailsEarly, Persist, CountFailure
  <2>1. BackoffKept'
    BY <1>1, BackoffStays DEF BackoffInv, WatchdogState
  <2>. QED
    BY <2>1 DEF BackoffInv, RestartInTime
<1>6. CASE ProbeFails
  <2>. USE <1>6 DEF ProbeFails, GoOn, CountFailure
  <2>1. BackoffKept'
    BY <1>1, BackoffStays DEF BackoffInv, WatchdogState
  <2>. QED
    BY <2>1 DEF BackoffInv, RestartInTime
<1>7. CASE \E keepalive \in BOOLEAN :
              \/ LeaveToLaunchd(keepalive)
              \/ OpenCircuit(keepalive)
              \/ AwaitBackoff(keepalive)
  <2>. PICK keepalive \in BOOLEAN :
              \/ LeaveToLaunchd(keepalive)
              \/ OpenCircuit(keepalive)
              \/ AwaitBackoff(keepalive)
    BY <1>7
  <2>. USE DEF LeaveToLaunchd, OpenCircuit, AwaitBackoff, Persist, Inspected
  <2>1. BackoffKept'
    BY <1>1, BackoffStays DEF BackoffInv, WatchdogState
  <2>. QED
    BY <2>1 DEF BackoffInv, RestartInTime
<1>8. CASE \E keepalive \in BOOLEAN : DecideRestart(keepalive)
  <2>. PICK keepalive \in BOOLEAN : DecideRestart(keepalive)
    BY <1>8
  <2>1. /\ ~BackoffPending
        /\ state' = Inspected(keepalive)
        /\ UNCHANGED <<disk, now, restarts, answered>>
    BY DEF DecideRestart, GoOn
  <2>2. /\ Inspected(keepalive).backoff_until = state.backoff_until
        /\ Inspected(keepalive).restart_times = InWindow(state.restart_times)
    BY <1>1 DEF Inspected, WatchdogState
  <2>3. BackoffKept'
    BY <2>1, <2>2, BackoffStays DEF BackoffInv
  <2>4. Recent(InWindow(state.restart_times))
    BY InspectedKeeps DEF WatchdogInv, Memory
  <2>5. ~BackoffPending'
    BY <2>1, <2>2 DEF BackoffPending
  <2>6. Recent(state.restart_times)'
    BY <2>1, <2>2, <2>4 DEF Recent
  <2>. QED
    BY <2>3, <2>5, <2>6 DEF BackoffInv, RestartInTime
<1>9. CASE KickstartFails
  <2>. USE <1>9 DEF KickstartFails, Persist
  <2>1. BackoffKept'
    BY <1>1, BackoffStays DEF BackoffInv, WatchdogState
  <2>. QED
    BY <2>1 DEF BackoffInv, RestartInTime
<1>10. CASE Restart
  <2>. DEFINE times == Append(state.restart_times, now)
              due == now + Backoff(Len(times))
  <2>1. /\ at = "restarting" /\ at' = "sleeping"
        /\ state' = [state EXCEPT !.restart_times = times,
                                  !.backoff_until = due,
                                  !.phase = "restarting",
                                  !.failures = 0]
        /\ disk' = state'
        /\ restarts' = Append(restarts, now)
    BY <1>10 DEF Restart, Persist
  <2>2. Len(times) \in Nat /\ Len(times) >= 1
    BY <1>1
  <2>3. due \in Int
    BY <1>1, <2>2, BackoffType
  <2>4. WindowCount(Append(restarts, now)) = Len(times)
    BY <1>1, <2>1, ListCountsWindow DEF WatchdogInv, BackoffInv, RestartInTime
  <2>5. NextAllowed(Append(restarts, now)) = due
    <3>1. Append(restarts, now)[Len(Append(restarts, now))] = now
      BY <1>1
    <3>. QED
      BY <2>4, <3>1 DEF NextAllowed
  <2>. HIDE DEF due
  <2>6. state'.backoff_until = due
    BY <1>1, <2>1 DEF WatchdogState
  <2>7. NextAllowed(restarts)' = NextAllowed(Append(restarts, now))
    BY <2>1 DEF NextAllowed, WindowCount, Backoff
  <2>. QED
    BY <2>1, <2>3, <2>5, <2>6, <2>7 DEF BackoffInv, BackoffKept, RestartInTime
<1>11. CASE Reload
  <2>1. BackoffKept'
    BY <1>11, BackoffStays DEF Reload, BackoffInv
  <2>. QED
    BY <1>11, <2>1 DEF Reload, BackoffInv, RestartInTime
<1>12. CASE \/ ClockTicks
            \/ \E length \in 0..MaxMaintenance : PublishMaintenance(length)
            \/ UNCHANGED vars
  <2>1. UNCHANGED <<state, disk, at, now, restarts, answered>>
    BY <1>12 DEF ClockTicks, PublishMaintenance, vars
  <2>2. BackoffKept'
    BY <2>1, BackoffStays DEF BackoffInv
  <2>. QED
    BY <2>1, <2>2 DEF BackoffInv, RestartInTime, BackoffPending, Recent
<1>. QED
  BY <1>2, <1>3, <1>4, <1>5, <1>6, <1>7, <1>8, <1>9, <1>10, <1>11, <1>12
     DEF Next

(* The backoff holds over the restarts that really happened, although the  *)
(* watchdog prunes its list, dies and reloads: for every base, cap, window *)
(* and budget, a restart the agent has not answered since the last one     *)
(* comes no earlier than that one's exponential backoff.                   *)
THEOREM BackoffCorrect == Spec => BackoffHonoured
<1>1. ASSUME WatchdogInv, BackoffInv, [Next]_vars,
             restarts' # restarts, restarts # <<>>, ~answered
      PROVE  now >= restarts[Len(restarts)]
                       + Backoff(RestartsUpTo(Len(restarts)))
  <2>1. at = "restarting"
    BY <1>1 DEF Next, vars, TickInMaintenance, TickProbes, ProbeAnswered,
         ProbeFailsEarly, ProbeFails, LeaveToLaunchd, OpenCircuit,
         AwaitBackoff, DecideRestart, KickstartFails, Restart, Reload,
         ClockTicks, PublishMaintenance
  <2>2. /\ NextAllowed(restarts) \in Int
        /\ state.backoff_until = NextAllowed(restarts)
        /\ ~BackoffPending
    BY <1>1, <2>1 DEF BackoffInv, BackoffKept, RestartInTime
  <2>3. now \in Nat /\ restarts \in Seq(Nat)
    BY <1>1 DEF WatchdogInv, TypeOK
  <2>4. now >= NextAllowed(restarts)
    BY <2>2, <2>3, WatchdogAssumptions DEF BackoffPending
  <2>5. RestartsUpTo(Len(restarts)) = WindowCount(restarts)
    BY <2>3, CountOfLast
  <2>. QED
    BY <2>4, <2>5 DEF NextAllowed
<1>2. Spec => []BackoffInv
  BY InvariantHolds, BackoffInitHolds, BackoffStep, PTL DEF Spec
<1>3. WatchdogInv /\ BackoffInv /\ [Next]_vars =>
        [restarts' # restarts /\ restarts # <<>> /\ ~answered
           => LET last == Len(restarts)
              IN  now >= restarts[last] + Backoff(RestartsUpTo(last))]_vars
  BY <1>1
<1>. QED
  BY <1>2, <1>3, InvariantHolds, PTL DEF Spec, BackoffHonoured
=============================================================================
