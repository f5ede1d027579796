----------------------------- MODULE MCGateway -----------------------------
(***************************************************************************)
(* Instances of Gateway for TLC: a streamed request on the two-machine     *)
(* jaccl instance i1, which may fail over to i2 on one of its machines,    *)
(* and a plain request for either of them.                                 *)
(***************************************************************************)
EXTENDS Gateway

CONSTANTS i1, i2, a1, a2, b1, n1, n2, ha, hb

MCRequest == {a1, a2, b1}
MCInstance == {i1, i2}
MCNode == {n1, n2}
MCHttp == {ha, hb}
MCInstanceOf == [r \in Request |-> IF r = a2 THEN i2 ELSE i1]
MCSelectedNodes == [r \in Request |-> IF r = a2 THEN {n2} ELSE {n1, n2}]
MCCallsOf == [c \in Http |-> IF c = ha THEN {a1, a2} ELSE {b1}]
MCStreamed == {ha}
MCCollective == {a1, b1}
MCStoppable == {i1}
=============================================================================
