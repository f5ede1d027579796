-------------------------- MODULE MCInstanceLaunch --------------------------
(***************************************************************************)
(* InstanceLaunch for TLC: a coordinator and one or two workers.           *)
(***************************************************************************)
EXTENDS InstanceLaunch

CONSTANTS w1, w2

MCOneWorker == {w1}
MCTwoWorkers == {w1, w2}
MCFirstWorker == {w1}
MCNode == {Coordinator, w1}
MCNowhere == {}
=============================================================================
