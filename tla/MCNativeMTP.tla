----------------------------- MODULE MCNativeMTP -----------------------------
(***************************************************************************)
(* Instances of NativeMTP for TLC: two ranks; a complete checkpoint, one   *)
(* that lost a file with a tensor of the head, one without a head and one  *)
(* whose head has two layers of experts; a cache layer of each kind.       *)
(***************************************************************************)
EXTENDS NativeMTP, TLC

CONSTANTS the, cat, stop

Dense == {<<0, n>> : n \in OfHead} \cup {<<1, n>> : n \in OfLayer \cup Projections}
Qwen == [type |-> "qwen3_5", layers |-> 1, experts |-> 0,
         index |-> <<Dense>>, headers |-> {}]

Routed == {"gate", "shared_gate_proj", "shared_up_proj", "shared_down_proj", "shared_gate"}
Deep == {<<0, n>> : n \in OfHead} \cup ({1, 2} \X (OfLayer \cup Routed))
          \cup ({1, 2} \X ({1, 2} \X Projections))
DeepQwen == [type |-> "qwen3_5", layers |-> 2, experts |-> 2,
             index |-> <<Deep>>, headers |-> {}]

\* No index, and one of its two files is cut short.
CutQwen == [Qwen EXCEPT !.index = Nothing, !.headers = {<<Dense \ {<<1, "q_norm">>}>>, Nothing}]
Headless == [Qwen EXCEPT !.layers = 0, !.index = <<{}>>]

MCCheckpoints == {Qwen, CutQwen, Headless, DeepQwen}
MCPatches == <<"rotating", "qwen", "generation">>
MCKind == [linear |-> "linear", full |-> "full", rotating |-> "rotating"]

Alike == Permutations({the, cat}) \cup Permutations(Ranks)
=============================================================================
