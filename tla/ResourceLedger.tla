--------------------------- MODULE ResourceLedger ---------------------------
(***************************************************************************)
(* The ResourceLedger of a node agent (control/instances.py): the memory   *)
(* and the ports of a node are reserved by an instance before its process  *)
(* is launched, so that two launches can never be admitted into the same   *)
(* memory or onto the same port.  Released ports stay in quarantine for    *)
(* ReuseDelay.                                                             *)
(*                                                                         *)
(* The actions take their arguments as parameters: AgentRecovery calls     *)
(* them from the agent's handlers and implements LedgerSpec, which lets    *)
(* anyone call them with anything.  Memory is counted in abstract units;   *)
(* a headroom is a percentage.                                             *)
(***************************************************************************)
EXTENDS Integers, FiniteSetsExt

CONSTANTS Instances, Ports,
          TotalMemory,     \* total_memory_bytes
          Headrooms,       \* the headroom ratios that launches ask for, in percent
          Amounts,         \* the sizes that callers ask for
          ReuseDelay,      \* port_reuse_delay_seconds
          None             \* no reservation, no owner, no quarantine, no observation

ASSUME LedgerAssumption ==
  /\ TotalMemory \in Nat
  /\ Headrooms \subseteq 0..90
  /\ Amounts \subseteq Nat
  /\ ReuseDelay \in Nat
  /\ None \notin Instances /\ None \notin Int /\ None \notin Ports

VARIABLES reserved,      \* _reservations: bytes per instance
          portOwner,     \* _ports
          quarantine     \* _quarantined_ports: how long a released port has still to wait

ledgerVars == <<reserved, portOwner, quarantine>>

-----------------------------------------------------------------------------
(* Arithmetic of the admission.                                            *)

Held(i) == IF reserved[i] = None THEN 0 ELSE reserved[i]
ReservedMemory == MapThenSumSet(Held, Instances)

Usable(h) == (TotalMemory * (100 - h)) \div 100

Larger(a, b) == IF a > b THEN a ELSE b

\* So much more memory is available: in the ledger and, where the host
\* observes it (sys is not None), on the host.
Fits(more, sys, h) ==
  /\ more <= Larger(0, Usable(h) - ReservedMemory)
  /\ sys # None => more <= Larger(0, sys)

\* live_system_available_memory_bytes: what non-reclaimable pages leave of
\* the usable memory.
LiveAvailable(inUse, h) == Larger(0, Usable(h) - inUse)

\* The reservation that an observation recommends: ten percent above it, and
\* never below the floor of weights, caches and headroom.
Recommended(observed, floor) == Larger(floor, (11 * observed + 9) \div 10)

(* Broken variant: only owners are looked at.                              *)
OwnerConflict(i, p) == portOwner[p] \notin {None, i}

PortConflict(i, p) == quarantine[p] # None \/ portOwner[p] \notin {None, i}

-----------------------------------------------------------------------------
NewLedger ==
  /\ reserved' = [i \in Instances |-> None]
  /\ portOwner' = [p \in Ports |-> None]
  /\ quarantine' = [p \in Ports |-> None]

LedgerInit ==
  /\ reserved = [i \in Instances |-> None]
  /\ portOwner = [p \in Ports |-> None]
  /\ quarantine = [p \in Ports |-> None]

Admissible(i, bytes, ps, sys, h) ==
  /\ Fits(Larger(0, bytes - Held(i)), sys, h)
  /\ \A p \in ps : ~PortConflict(i, p)

Reserve(i, bytes, ps, sys, h) ==
  /\ Admissible(i, bytes, ps, sys, h)
  /\ reserved' = [reserved EXCEPT ![i] = bytes]
  /\ portOwner' = [p \in Ports |-> IF p \in ps THEN i ELSE portOwner[p]]
  /\ UNCHANGED quarantine

ReserveRefused(i, bytes, ps, sys, h) ==
  ~Admissible(i, bytes, ps, sys, h) /\ UNCHANGED ledgerVars

Resize(i, bytes, sys, h) ==
  /\ reserved[i] # None
  /\ Fits(bytes - Held(i), sys, h)
  /\ reserved' = [reserved EXCEPT ![i] = bytes]
  /\ UNCHANGED <<portOwner, quarantine>>

Reconcile(i, observed, floor, sys, h) == Resize(i, Recommended(observed, floor), sys, h)

Release(i) ==
  /\ reserved' = [reserved EXCEPT ![i] = None]
  /\ portOwner' = [p \in Ports |-> IF portOwner[p] = i THEN None ELSE portOwner[p]]
  /\ quarantine' = [p \in Ports |-> IF portOwner[p] = i /\ ReuseDelay > 0
                                    THEN ReuseDelay ELSE quarantine[p]]

\* Time passes.  The code drops an expired port from the quarantine when it
\* next looks there (_prune_port_quarantine), which nobody can tell apart.
Tick ==
  /\ quarantine' = [p \in Ports |-> IF quarantine[p] \in {None, 1} THEN None
                                    ELSE quarantine[p] - 1]
  /\ UNCHANGED <<reserved, portOwner>>

\* An observation of the host only ever narrows what is available, so what
\* the ledger promises of all its callers is said with none.
LedgerNext ==
  \/ UNCHANGED ledgerVars
  \/ Tick
  \/ NewLedger
  \/ \E i \in Instances :
       \/ Release(i)
       \/ \E bytes \in Amounts, h \in Headrooms :
            \/ Resize(i, bytes, None, h)
            \/ \E ps \in SUBSET Ports : Reserve(i, bytes, ps, None, h)

LedgerSpec == LedgerInit /\ [][LedgerNext]_ledgerVars

-----------------------------------------------------------------------------
LedgerTypeOK ==
  /\ reserved \in [Instances -> Amounts \cup {None}]
  /\ portOwner \in [Ports -> Instances \cup {None}]
  /\ quarantine \in [Ports -> (Nat \ {0}) \cup {None}]

PortOwnersReserve ==
  \A p \in Ports : portOwner[p] # None => reserved[portOwner[p]] # None

OwnedNotQuarantined ==
  \A p \in Ports : portOwner[p] # None => quarantine[p] = None

(* A port belongs to an instance only while that instance holds a          *)
(* reservation, and never while the port is in quarantine: a release takes *)
(* all its ports with it, and no launch gets a port whose last owner may   *)
(* still be closing its sockets.  (ResourceLedger.reserve and release.)    *)
LedgerSound == PortOwnersReserve /\ OwnedNotQuarantined

=============================================================================
