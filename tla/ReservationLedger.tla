-------------------------- MODULE ReservationLedger --------------------------
(***************************************************************************)
(* What the reservation lifecycle promises to whoever sets a limit.  Each  *)
(* workflow acquires one whole reservation plan, or nothing; what it holds *)
(* is then spent or returned, once, as a whole.  At every moment the plans *)
(* held and spent fit the configured ceilings and exclusive keys.  How a   *)
(* workflow gets from one phase to the next (decisions, attempts, provider *)
(* calls, unknown outcomes, reconciliation) does not show.                 *)
(***************************************************************************)
EXTENDS Naturals, FiniteSets

CONSTANTS Workflow, Intent, Plans, Key, Amount, Additive, Ceiling, Exclusive, Retain

VARIABLES
    charged,   \* charged[w]: the intents charged to workflow w
    phase      \* phase[w]: "idle", "held", "spent" or "returned"

ledgerVars == <<charged, phase>>

(* The units of key k charged to all workflows. *)
Use(k) ==
    UNION {{<<c[1], c[2]>>} \X (1 .. Amount[c[2]]) :
           c \in {p \in Workflow \X Intent : Key[p[2]] = k /\ p[2] \in charged[p[1]]}}

(* Who owns exclusive key k: its holder, and after that its spender if the *)
(* key is retained.                                                        *)
Owner(k) ==
    {p \in Workflow \X Intent :
        /\ Key[p[2]] = k
        /\ p[2] \in charged[p[1]]
        /\ phase[p[1]] = "held" \/ k \in Retain}

Fits ==
    /\ \A k \in Additive : Cardinality(Use(k)) <= Ceiling[k]
    /\ \A k \in Exclusive : \A p, q \in Owner(k) : p = q

Move(w, from, to, set) ==
    /\ phase[w] = from
    /\ phase' = [phase EXCEPT ![w] = to]
    /\ charged' = [charged EXCEPT ![w] = set]

Acquire(w) == \E plan \in Plans : Move(w, "idle", "held", plan) /\ Fits'

Spend(w) == Move(w, "held", "spent", charged[w])

Return(w) == Move(w, "held", "returned", {})

LedgerInit ==
    /\ charged = [w \in Workflow |-> {}]
    /\ phase = [w \in Workflow |-> "idle"]

LedgerNext == \E w \in Workflow : Acquire(w) \/ Spend(w) \/ Return(w)

LedgerSpec == LedgerInit /\ [][LedgerNext]_ledgerVars
=============================================================================
