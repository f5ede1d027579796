--------------------------- MODULE AgentWatchdog ---------------------------
(***************************************************************************)
(* AgentWatchdog of tokenity/node_agent/watchdog.py: the process that      *)
(* probes the Node Agent of its machine and restarts it through launchd,   *)
(* within a budget, with an exponential backoff, and not while an          *)
(* installer has published a maintenance window.                           *)
(*                                                                         *)
(* tick() is split where it waits for something outside the process: the   *)
(* probe, the inspection of the machine, and launchctl.  Time passes and   *)
(* the watchdog may die at each of those points; what a tick decided is    *)
(* on disk only after _persist().                                          *)
(***************************************************************************)
EXTENDS Integers, Sequences, FiniteSets

CONSTANTS
    ProbeInterval,       \* probe_interval_seconds
    FailureThreshold,    \* failure_threshold
    BaseBackoff,         \* base_backoff_seconds
    MaxBackoff,          \* max_backoff_seconds
    RestartWindow,       \* restart_window_seconds
    MaxRestarts,         \* max_restarts_in_window
    KeepaliveGrace,      \* keepalive_grace_seconds
    None,                \* an absent timestamp
    MaxClock,            \* bound: the wall clock of a run stops here
    MaxMaintenance       \* bound: the longest maintenance window published

ASSUME WatchdogAssumptions ==
    /\ ProbeInterval \in Nat
    /\ FailureThreshold \in Nat \ {0}
    /\ BaseBackoff \in Nat
    /\ MaxBackoff \in Nat
    /\ RestartWindow \in Nat
    /\ MaxRestarts \in Nat \ {0}
    /\ KeepaliveGrace \in Nat
    /\ MaxClock \in Nat
    /\ MaxMaintenance \in Nat
    /\ None \notin Int

VARIABLES
    state,          \* the WatchdogState in memory
    disk,           \* the WatchdogState of the state file
    at,             \* where tick() is
    now,            \* tick()'s local: the clock when it began
    clock,          \* the wall clock
    until,          \* the end of the published maintenance window
    restarts,       \* history: the ticks that restarted the agent, by their now
    streak,         \* history: failed probes since the last answer, restart
                    \* or maintenance tick, counted up to FailureThreshold
    answered        \* history: a probe was answered since the last restart

vars == <<state, disk, at, now, clock, until, restarts, streak, answered>>

Phase ==
    {"online", "degraded", "recovering", "restarting", "circuit_open",
     "maintenance"}

Time == Nat

WatchdogState ==
    [phase : Phase, failures : Nat, restart_times : Seq(Time),
     backoff_until : Int \cup {None}, missing_since : Time \cup {None}]

FreshState ==
    [phase |-> "online", failures |-> 0, restart_times |-> <<>>,
     backoff_until |-> None, missing_since |-> None]

Init ==
    /\ state = FreshState
    /\ disk = FreshState
    /\ at = "starting"
    /\ now = 0
    /\ clock = 0
    /\ until = 0
    /\ restarts = <<>>
    /\ streak = 0
    /\ answered = FALSE

-----------------------------------------------------------------------------
(* The helpers of tick().                                                  *)

MaintenanceActive == until > clock

(* The main loop sleeps between two ticks; a new watchdog ticks at once.    *)
TickDue ==
    \/ at = "starting"
    \/ at = "sleeping" /\ clock >= now + ProbeInterval

(* One more, counted up to the threshold it is compared with.              *)
Counted(n) == IF n < FailureThreshold THEN n + 1 ELSE n

CountFailure == streak' = Counted(streak)

BackoffPending == state.backoff_until # None /\ now < state.backoff_until

(* The backoff after the n-th restart of the window, capped.               *)
Backoff(n) ==
    LET doubled == BaseBackoff * 2^(n - 1)
    IN  IF doubled < MaxBackoff THEN doubled ELSE MaxBackoff

(* Broken variant: the window begins with the tick.                        *)
LatestOnly(times) ==
    LET k == CHOOSE k \in 0..Len(times) :
                /\ \A j \in 1..k : times[j] < now
                /\ \A j \in k+1..Len(times) : times[j] >= now
    IN  SubSeq(times, k + 1, Len(times))

(* The restart times of the window.  They are appended in the order of the *)
(* clock, so the ones that have left the window are a prefix.              *)
InWindow(times) ==
    LET cutoff == now - RestartWindow
        k == CHOOSE k \in 0..Len(times) :
                /\ \A j \in 1..k : times[j] < cutoff
                /\ \A j \in k+1..Len(times) : times[j] >= cutoff
    IN  SubSeq(times, k + 1, Len(times))

(* _persist() and the end of the tick.                                     *)
Persist(new) ==
    /\ state' = new
    /\ disk' = new
    /\ at' = "sleeping"

(* tick() goes on to its next wait with what it has in memory.             *)
GoOn(new, place) ==
    /\ state' = new
    /\ at' = place
    /\ UNCHANGED disk

-----------------------------------------------------------------------------
(* The next tick finds a maintenance window: failures are forgotten.       *)
TickInMaintenance ==
    /\ TickDue
    /\ now' = clock
    /\ MaintenanceActive
    /\ Persist([state EXCEPT !.phase = "maintenance", !.failures = 0])
    /\ streak' = 0
    /\ UNCHANGED <<clock, until, restarts, answered>>

(* The next tick finds none and sends its probe.                           *)
TickProbes ==
    /\ TickDue
    /\ now' = clock
    /\ ~MaintenanceActive
    /\ GoOn(state, "probing")
    /\ UNCHANGED <<clock, until, restarts, streak, answered>>

(* Broken variant: an answer does not end the run of failures.             *)
ProbeAnsweredOnly(degraded) ==
    /\ at = "probing"
    /\ Persist([state EXCEPT !.phase = IF degraded THEN "degraded" ELSE "online",
                             !.backoff_until = None,
                             !.missing_since = None])
    /\ streak' = 0
    /\ answered' = TRUE
    /\ UNCHANGED <<now, clock, until, restarts>>

(* The agent answers, healthy or degraded: nothing is pending any more.    *)
ProbeAnswered(degraded) ==
    /\ at = "probing"
    /\ Persist([state EXCEPT !.phase = IF degraded THEN "degraded" ELSE "online",
                             !.failures = 0,
                             !.backoff_until = None,
                             !.missing_since = None])
    /\ streak' = 0
    /\ answered' = TRUE
    /\ UNCHANGED <<now, clock, until, restarts>>

(* Too few failed probes in a row to act on.                               *)
ProbeFailsEarly ==
    /\ at = "probing"
    /\ state.failures + 1 < FailureThreshold
    /\ Persist([state EXCEPT !.failures = Counted(@),
                             !.phase = IF BackoffPending THEN "recovering"
                                       ELSE "degraded"])
    /\ CountFailure
    /\ UNCHANGED <<now, clock, until, restarts, answered>>

(* Enough of them: the tick goes on to inspect the machine.                *)
ProbeFails ==
    /\ at = "probing"
    /\ state.failures + 1 >= FailureThreshold
    /\ GoOn([state EXCEPT !.failures = Counted(@)], "inspecting")
    /\ CountFailure
    /\ UNCHANGED <<now, clock, until, restarts, answered>>

(* missing_since after an inspection: set when first seen missing under a  *)
(* job launchd still runs, cleared otherwise.                              *)
MissingSince(keepalive) ==
    IF ~keepalive THEN None
    ELSE IF state.missing_since = None THEN now ELSE state.missing_since

GracePending(keepalive) ==
    keepalive /\ now - MissingSince(keepalive) < KeepaliveGrace

(* The process is gone, launchd has the job and its grace period runs.     *)
LeaveToLaunchd(keepalive) ==
    /\ at = "inspecting"
    /\ GracePending(keepalive)
    /\ Persist([state EXCEPT !.missing_since = MissingSince(keepalive),
                             !.phase = "recovering"])
    /\ UNCHANGED <<now, clock, until, restarts, streak, answered>>

(* What the inspection leaves in memory once the agent is to be restarted. *)
Inspected(keepalive) ==
    [state EXCEPT !.missing_since = MissingSince(keepalive),
                  !.restart_times = InWindow(@)]

(* The restart budget of the window is used up.                            *)
OpenCircuit(keepalive) ==
    /\ at = "inspecting"
    /\ ~GracePending(keepalive)
    /\ Len(InWindow(state.restart_times)) >= MaxRestarts
    /\ Persist([Inspected(keepalive) EXCEPT !.phase = "circuit_open"])
    /\ UNCHANGED <<now, clock, until, restarts, streak, answered>>

(* The last restart's backoff has not passed.                              *)
AwaitBackoff(keepalive) ==
    /\ at = "inspecting"
    /\ ~GracePending(keepalive)
    /\ Len(InWindow(state.restart_times)) < MaxRestarts
    /\ BackoffPending
    /\ Persist([Inspected(keepalive) EXCEPT !.phase = "recovering"])
    /\ UNCHANGED <<now, clock, until, restarts, streak, answered>>

(* Broken variant: the backoff is not looked at before a restart.          *)
DecideAtOnce(keepalive) ==
    /\ at = "inspecting"
    /\ ~GracePending(keepalive)
    /\ Len(InWindow(state.restart_times)) < MaxRestarts
    /\ GoOn(Inspected(keepalive), "restarting")
    /\ UNCHANGED <<now, clock, until, restarts, streak, answered>>

(* Nothing holds the restart back: launchctl kickstart is called.          *)
DecideRestart(keepalive) ==
    /\ at = "inspecting"
    /\ ~GracePending(keepalive)
    /\ Len(InWindow(state.restart_times)) < MaxRestarts
    /\ ~BackoffPending
    /\ GoOn(Inspected(keepalive), "restarting")
    /\ UNCHANGED <<now, clock, until, restarts, streak, answered>>

(* Broken variant: a phase the status page does not know.                  *)
KickstartFailsLoudly ==
    /\ at = "restarting"
    /\ Persist([state EXCEPT !.phase = "kickstart_failed"])
    /\ UNCHANGED <<now, clock, until, restarts, streak, answered>>

(* launchctl reports a failure: the next tick tries again.                 *)
KickstartFails ==
    /\ at = "restarting"
    /\ Persist([state EXCEPT !.phase = "recovering"])
    /\ UNCHANGED <<now, clock, until, restarts, streak, answered>>

(* launchd restarts the agent; the restart enters the budget.              *)
Restart ==
    /\ at = "restarting"
    /\ LET times == Append(state.restart_times, now)
       IN  Persist([state EXCEPT !.restart_times = times,
                                 !.backoff_until = now + Backoff(Len(times)),
                                 !.phase = "restarting",
                                 !.failures = 0])
    /\ restarts' = Append(restarts, now)
    /\ streak' = 0
    /\ answered' = FALSE
    /\ UNCHANGED <<now, clock, until>>

(* The watchdog dies, or a call of the tick raises, and a new one loads    *)
(* the state file: what the tick had in memory is gone.  A kickstart that  *)
(* launchctl carried out but did not report in time is lost here too, and  *)
(* is no restart of the history.                                           *)
Reload ==
    /\ state' = disk
    /\ at' = "starting"
    /\ UNCHANGED <<disk, now, clock, until, restarts, streak, answered>>

-----------------------------------------------------------------------------
(* The machine's clock and the installer.                                  *)

ClockTicks ==
    /\ clock < MaxClock
    /\ clock' = clock + 1
    /\ UNCHANGED <<state, disk, at, now, until, restarts, streak, answered>>

PublishMaintenance(length) ==
    /\ until' = clock + length
    /\ UNCHANGED <<state, disk, at, now, clock, restarts, streak, answered>>

Next ==
    \/ TickInMaintenance
    \/ TickProbes
    \/ \E degraded \in BOOLEAN : ProbeAnswered(degraded)
    \/ ProbeFailsEarly
    \/ ProbeFails
    \/ \E keepalive \in BOOLEAN :
          \/ LeaveToLaunchd(keepalive)
          \/ OpenCircuit(keepalive)
          \/ AwaitBackoff(keepalive)
          \/ DecideRestart(keepalive)
    \/ KickstartFails
    \/ Restart
    \/ Reload
    \/ ClockTicks
    \/ \E length \in 0..MaxMaintenance : PublishMaintenance(length)

Spec == Init /\ [][Next]_vars

-----------------------------------------------------------------------------
(* Every variable has its type.                                            *)
TypeOK ==
    /\ state \in WatchdogState
    /\ disk \in WatchdogState
    /\ at \in {"starting", "sleeping", "probing", "inspecting", "restarting"}
    /\ now \in Time
    /\ clock \in Time
    /\ until \in Time
    /\ restarts \in Seq(Time)
    /\ streak \in Nat
    /\ answered \in BOOLEAN

(* The sliding window holds over the whole life of the machine, across     *)
(* watchdog crashes and although the list of restart times is pruned: any  *)
(* MaxRestarts + 1 successive restarts span more than the window.          *)
RestartsSpread ==
    \A i \in 1..Len(restarts) :
        i + MaxRestarts <= Len(restarts)
            => restarts[i + MaxRestarts] - restarts[i] > RestartWindow

(* The agent is restarted only after FailureThreshold failed probes with   *)
(* no answer, no restart and no maintenance tick between them, whatever    *)
(* crashes of the watchdog forgot of them.                                 *)
RestartsAreEarned ==
    at = "restarting" => streak >= FailureThreshold

(* The restarts of the window that ended with the i-th of them.            *)
RestartsUpTo(i) ==
    Cardinality({j \in 1..i : restarts[j] >= restarts[i] - RestartWindow})

(* The backoff is exponential in the restarts that really happened, not    *)
(* only in those the pruned list remembers: while the agent has not        *)
(* answered, the k-th restart of a window is followed by Backoff(k).       *)
BackoffHonoured ==
    [][restarts' # restarts /\ restarts # <<>> /\ ~answered
          => LET last == Len(restarts)
             IN  now >= restarts[last] + Backoff(RestartsUpTo(last))]_vars

(* docs/installer-dmg.md:208-209: the maintenance marker is published      *)
(* before the jobs are stopped, "preventing watchdog/update restart        *)
(* races".  No kickstart begins while a window is published.               *)
NoKickstartInMaintenance ==
    [][at' = "restarting" /\ at # "restarting" => ~MaintenanceActive]_vars
=============================================================================
