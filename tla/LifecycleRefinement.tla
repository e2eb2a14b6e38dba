------------------------- MODULE LifecycleRefinement -------------------------
(***************************************************************************)
(* The lifecycle store implements the reservation ledger: a workflow is    *)
(* charged with the reservation entries of its record that are not marked  *)
(* released.                                                               *)
(***************************************************************************)
EXTENDS Lifecycle

ChargedTo(r) == r.reserved \ r.released

PhaseOf(r) ==
    CASE r.state \in {"None", "DecisionRecorded"} -> "idle"
      [] IsCapacityHolding(r.state) -> "held"
      [] r.state \in {"Committed", "ReconciledCommitted"} -> "spent"
      [] r.state \in {"Released", "ReconciledReleased"} -> "returned"

Ledger == INSTANCE ReservationLedger WITH
    Plans <- {Plan[x] : x \in Input},
    charged <- [w \in Workflow |-> ChargedTo(db[w])],
    phase <- [w \in Workflow |-> PhaseOf(db[w])]

(* Every interleaving of store transactions is, seen from the capacity     *)
(* rules, a sequence of whole acquisitions that fit and of single spends   *)
(* and returns: Reserve acquires everything in one step, Commit and        *)
(* ReconcileEffect spend, Release and ReconcileNonEffect return, and no    *)
(* other transaction of the store is visible at all.                       *)
ImplementsLedger == Ledger!LedgerSpec
=============================================================================
