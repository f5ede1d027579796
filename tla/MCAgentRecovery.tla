-------------------------- MODULE MCAgentRecovery --------------------------
(***************************************************************************)
(* Instances of AgentRecovery for TLC: a coordinator, a rank of another    *)
(* Mac's instance and a video runtime.                                     *)
(***************************************************************************)
EXTENDS AgentRecovery, TLC

CONSTANTS chat, rank, video

MCSize == [i \in Instances |-> IF i = chat THEN 4 ELSE 3]
MCFloor == [i \in Instances |-> 2]
MCHeadroom == [i \in Instances |-> IF i = chat THEN 10 ELSE 20]
MCHeadrooms == {10, 20}
MCAmounts == {3, 4}

HostSymmetry == Permutations(Pids) \cup Permutations(Ports)
=============================================================================
