--------------------------- MODULE SlotOwnership ---------------------------
(***************************************************************************)
(* What the generation-slot scheduler promises about the hardware: every   *)
(* node has at most one owner, and a request takes all the nodes it needs  *)
(* in one step and returns them in one step.  Queues, timeouts,            *)
(* cancellation and the instance registry are invisible at this level.     *)
(***************************************************************************)
CONSTANTS
    Request,     \* the requests that may ever ask for hardware
    Node,        \* the machines
    Footprint,   \* Footprint[r]: the machines request r needs
    Free         \* the owner of a machine nobody uses; not a request

VARIABLE owner   \* owner[n]: the request that generates on machine n

OwnerTypeOK == owner \in [Node -> Request \cup {Free}]

OwnerInit == owner = [n \in Node |-> Free]

(* All the machines r needs are free; r takes them together.               *)
Take(r) ==
    /\ \A n \in Footprint[r] : owner[n] = Free
    /\ owner' = [n \in Node |-> IF n \in Footprint[r] THEN r ELSE owner[n]]

(* r owns all the machines it needs and returns them together.             *)
GiveBack(r) ==
    /\ \A n \in Footprint[r] : owner[n] = r
    /\ owner' = [n \in Node |-> IF n \in Footprint[r] THEN Free ELSE owner[n]]

OwnerNext == \E r \in Request : Take(r) \/ GiveBack(r)

OwnerSpec == OwnerInit /\ [][OwnerNext]_owner
=============================================================================
