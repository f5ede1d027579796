------------------------- MODULE MCGenerationSlots -------------------------
(***************************************************************************)
(* Instances of GenerationSlots for TLC: two instances that share one of   *)
(* three machines, and requests for them.                                  *)
(***************************************************************************)
EXTENDS GenerationSlots

CONSTANTS i1, i2, r1, r2, r3, r4, n1, n2

MCRequest == {r1, r2, r3, r4}
MCRequest3 == {r1, r2, r3}
MCInstance == {i1, i2}
MCNode == {n1, n2}

(* r1 and r3 ask the two-machine instance i1, r2 asks i2 on one of its     *)
(* machines, r4 names no machine at all.                                   *)
MCInstanceOf == [r \in Request |-> IF r \in {r1, r3} THEN i1 ELSE i2]
MCSelectedNodes ==
    [r \in Request |-> CASE r = r1 -> {n1, n2}
                         [] r = r2 -> {n2}
                         [] r = r3 -> {n1}
                         [] OTHER  -> {}]

MCTimed == {r3}
MCTimedWide == {r1}
MCStoppable == {i1}
NoInstances == {}
NoRequests == {}
=============================================================================
