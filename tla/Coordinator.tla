---------------------------- MODULE Coordinator ----------------------------
(***************************************************************************)
(* LifecycleCoordinator (auths-runtime/production.rs) over a lifecycle     *)
(* store and its recovery index.  A session is one caller driving one      *)
(* workflow: it holds the sealed stage value the last call returned, and   *)
(* every call consumes it.  A call that fails for whatever reason (a lost  *)
(* compare-and-swap, an unavailable store, an acknowledgement lost after   *)
(* commit) leaves the caller without a stage, exactly as a crash of the    *)
(* caller does, so both are Crash.                                         *)
(*                                                                         *)
(* An input is a pair of workflow and recovery reference, the binding      *)
(* begin makes of recovery_reference_digest.  The provider and the         *)
(* evidence read from it are external: the caller commits on a response    *)
(* that shows the effect, releases on one that shows its absence.          *)
(***************************************************************************)
EXTENDS Lifecycle

CONSTANTS
    Session,      \* callers of the coordinator
    Reference,    \* recovery references
    Worker,       \* reconciliation workers
    MaxAbandon    \* how often workers give up a claimed lease

NoWorkflow == "NoWorkflow"

ASSUME CoordinatorAssumption ==
    /\ Input = Workflow \X Reference
    /\ \A w \in Workflow : InputsOf[w] = {w} \X Reference
    /\ NoWorkflow \notin Workflow
    /\ MaxAbandon \in Nat

VARIABLES
    session,     \* session[s]: the stage s holds, its workflow and revision
    bound,       \* bound[r]: the workflow reference r is bound to
    lease,       \* lease[w]: an unexpired reconciliation lease is stored
    worker,      \* worker[k]: the lease worker k holds and what it observed
    inflight,    \* provider requests on their way
    effects,     \* workflows whose provider effect happened
    calls,       \* number of provider calls issued for each workflow
    abandoned    \* leases given up so far

coordinatorVars ==
    <<db, lapsed, session, bound, lease, worker, inflight, effects, calls, abandoned>>

Stage == {"Idle", "Bound", "RecordedDecision", "Reserved", "IntentRecorded",
    "CredentialAuthorized", "AttemptStarted", "ProviderEntered",
    "Called", "EffectSeen", "NonEffectSeen", "Ambiguous", "Closed"}

IdleSession == [stage |-> "Idle", w |-> NoWorkflow, input |-> NoInput, rev |-> 0]
IdleWorker == [w |-> NoWorkflow, rev |-> 0, seen |-> "Nothing"]

Advance(s, stage) ==
    session' = [session EXCEPT ![s].stage = stage, ![s].rev = session[s].rev + 1]

Close(s) == session' = [session EXCEPT ![s].stage = "Closed"]

recoveryVars == <<bound, lease, worker, abandoned>>
providerVars == <<inflight, effects, calls>>

-----------------------------------------------------------------------------
(* Faulty variants: reference and workflow are swapped in the index; a     *)
(* workflow that is already bound takes a second reference.                *)
FaultyBindSwapped(s, w, r) ==
    /\ session[s].stage = "Idle"
    /\ bound[r] = NoWorkflow
    /\ bound' = [bound EXCEPT ![r] = r]
    /\ session' = [session EXCEPT ![s] =
          [stage |-> "Bound", w |-> w, input |-> <<w, r>>, rev |-> 0]]
    /\ UNCHANGED <<db, lapsed, lease, worker, abandoned, inflight, effects, calls>>

FaultyBindTwice(s, w, r) ==
    /\ session[s].stage = "Idle"
    /\ bound[r] = NoWorkflow
    /\ bound' = [bound EXCEPT ![r] = w]
    /\ session' = [session EXCEPT ![s] =
          [stage |-> "Bound", w |-> w, input |-> <<w, r>>, rev |-> 0]]
    /\ UNCHANGED <<db, lapsed, lease, worker, abandoned, inflight, effects, calls>>

(* begin: a fresh reference is bound first, then the decision is recorded. *)
(* A workflow that is already bound refuses every further reference.       *)
Bind(s, w, r) ==
    /\ session[s].stage = "Idle"
    /\ bound[r] = NoWorkflow
    /\ \A q \in Reference : bound[q] # w
    /\ bound' = [bound EXCEPT ![r] = w]
    /\ session' = [session EXCEPT ![s] =
          [stage |-> "Bound", w |-> w, input |-> <<w, r>>, rev |-> 0]]
    /\ UNCHANGED <<db, lapsed, lease, worker, abandoned, inflight, effects, calls>>

BeginDecision(s) ==
    /\ session[s].stage = "Bound"
    /\ RecordDecision(session[s].w, 0, session[s].input)
    /\ Advance(s, "RecordedDecision")
    /\ UNCHANGED <<recoveryVars, providerVars>>

(* One transition of a session at its stage's revision. *)
Transition(s, from, to) ==
    /\ session[s].stage = from
    /\ Advance(s, to)
    /\ UNCHANGED <<recoveryVars, providerVars>>

DoReserve(s) ==
    /\ Transition(s, "RecordedDecision", "Reserved")
    /\ Reserve(session[s].w, session[s].rev)

DoRecordIntent(s) ==
    /\ Transition(s, "Reserved", "IntentRecorded")
    /\ RecordExecutionIntent(session[s].w, session[s].rev)

DoAuthorizeCredential(s) ==
    /\ Transition(s, "IntentRecorded", "CredentialAuthorized")
    /\ AuthorizeCredential(session[s].w, session[s].rev)

DoStartAttempt(s) ==
    /\ Transition(s, "CredentialAuthorized", "AttemptStarted")
    /\ StartAttempt(session[s].w, session[s].rev)

(* Faulty variant: the call may go out before its entry is durable. *)
FaultyEnter(s) ==
    /\ Transition(s, "AttemptStarted", "ProviderEntered")
    /\ UNCHANGED <<db, lapsed>>

EnterProvider(s) ==
    /\ Transition(s, "AttemptStarted", "ProviderEntered")
    /\ MarkProviderCallEntered(session[s].w, session[s].rev)

(* Faulty variant: the caller keeps its stage value. *)
FaultyUnknown(s) ==
    /\ session[s].stage \in {"ProviderEntered", "Called", "Ambiguous"}
    /\ MarkOutcomeUnknown(session[s].w, session[s].rev)
    /\ UNCHANGED <<session, recoveryVars, providerVars>>

(* mark_unknown takes any provider-entered stage: before the call, while   *)
(* it runs, or after an ambiguous end.  The stage value is gone after it.  *)
MarkUnknown(s) ==
    /\ session[s].stage \in {"ProviderEntered", "Called", "Ambiguous"}
    /\ MarkOutcomeUnknown(session[s].w, session[s].rev)
    /\ Close(s)
    /\ UNCHANGED <<recoveryVars, providerVars>>

DoCommit(s) ==
    /\ session[s].stage = "EffectSeen"
    /\ Commit(session[s].w, session[s].rev)
    /\ Close(s)
    /\ UNCHANGED <<recoveryVars, providerVars>>

(* Faulty variant: an ambiguous end is taken for the absence of an effect. *)
FaultyRelease(s) ==
    /\ session[s].stage \in {"Reserved", "IntentRecorded", "NonEffectSeen", "Ambiguous"}
    /\ Release(session[s].w, session[s].rev, "NonEffect")
    /\ Close(s)
    /\ UNCHANGED <<recoveryVars, providerVars>>

(* cancel_reserved, cancel_intent and release_provider, all with the       *)
(* conclusion NonEffect.                                                   *)
DoRelease(s) ==
    /\ session[s].stage \in {"Reserved", "IntentRecorded", "NonEffectSeen"}
    /\ Release(session[s].w, session[s].rev, "NonEffect")
    /\ Close(s)
    /\ UNCHANGED <<recoveryVars, providerVars>>

Crash(s) ==
    /\ session[s].stage \notin {"Idle", "Closed"}
    /\ Close(s)
    /\ UNCHANGED <<db, lapsed, recoveryVars, providerVars>>

-----------------------------------------------------------------------------
(* The provider, external. *)

CallProvider(s) ==
    /\ session[s].stage = "ProviderEntered"
    /\ session' = [session EXCEPT ![s].stage = "Called"]
    /\ inflight' = inflight \cup {session[s].w}
    /\ calls' = [calls EXCEPT ![session[s].w] = @ + 1]
    /\ UNCHANGED <<db, lapsed, recoveryVars, effects>>

ProviderApplies(w) ==
    /\ w \in inflight
    /\ inflight' = inflight \ {w}
    /\ effects' = effects \cup {w}
    /\ UNCHANGED <<db, lapsed, session, recoveryVars, calls>>

ProviderDrops(w) ==
    /\ w \in inflight
    /\ inflight' = inflight \ {w}
    /\ UNCHANGED <<db, lapsed, session, recoveryVars, effects, calls>>

(* The response shows what happened, or is lost while the request may      *)
(* still be on its way.                                                    *)
Respond(s) ==
    /\ session[s].stage = "Called"
    /\ \/ /\ session[s].w \in effects
          /\ session' = [session EXCEPT ![s].stage = "EffectSeen"]
       \/ /\ session[s].w \notin effects \cup inflight
          /\ session' = [session EXCEPT ![s].stage = "NonEffectSeen"]
       \/ session' = [session EXCEPT ![s].stage = "Ambiguous"]
    /\ UNCHANGED <<db, lapsed, recoveryVars, providerVars>>

-----------------------------------------------------------------------------
(* Reconciliation *)

(* claim_reconciliation: the record is recoverable at the revision the     *)
(* worker read, and no unexpired lease is stored.                          *)
Claim(k, w) ==
    /\ worker[k] = IdleWorker
    /\ IsCapacityHolding(db[w].state)
    /\ \E r \in Reference : bound[r] = w
    /\ ~lease[w]
    /\ lease' = [lease EXCEPT ![w] = TRUE]
    /\ worker' = [worker EXCEPT ![k] = [w |-> w, rev |-> db[w].revision, seen |-> "Nothing"]]
    /\ UNCHANGED <<db, lapsed, session, bound, abandoned, providerVars>>

LeaseExpires(w) ==
    /\ lease[w]
    /\ lease' = [lease EXCEPT ![w] = FALSE]
    /\ UNCHANGED <<db, lapsed, session, bound, worker, abandoned, providerVars>>

(* The profile's observer reads the provider: the effect if it is there,   *)
(* its absence while no request is on its way, nothing otherwise.  A lease *)
(* is given for a record of any state that holds capacity, so it may read  *)
(* before a caller that is still running makes its call.                   *)
ObservedConclusion(w) ==
    IF w \in effects THEN "Effect"
    ELSE IF w \in inflight THEN "Inconclusive" ELSE "NonEffect"

Observe(k) ==
    /\ worker[k].w # NoWorkflow
    /\ worker[k].seen = "Nothing"
    /\ worker' = [worker EXCEPT ![k].seen = ObservedConclusion(worker[k].w)]
    /\ UNCHANGED <<db, lapsed, session, bound, lease, abandoned, providerVars>>

(* reconcile: the stored revision is compared with the lease's, then the   *)
(* transaction repeats the comparison.  The lease's expiry is not checked. *)
Reconcile(k) ==
    LET w == worker[k].w
        rev == worker[k].rev
    IN  /\ w # NoWorkflow
        /\ \/ worker[k].seen = "Effect" /\ ReconcileEffect(w, rev)
           \/ worker[k].seen = "NonEffect" /\ ReconcileNonEffect(w, rev)
           \/ worker[k].seen = "Inconclusive" /\ ReconcileInconclusive(w, rev, "Inconclusive")
        /\ worker' = [worker EXCEPT ![k] = IdleWorker]
        /\ UNCHANGED <<session, bound, lease, abandoned, providerVars>>

(* reconcile refuses (StaleLease, Conflict, or a rejected observation), or *)
(* the record is in a state no reconciliation applies to.                  *)
ReconcileRefused(k) ==
    LET w == worker[k].w
    IN  /\ w # NoWorkflow
        /\ \/ ~Reconcilable(w, worker[k].rev)
           \/ worker[k].seen = "Inconclusive" /\ Durable
        /\ worker' = [worker EXCEPT ![k] = IdleWorker]
        /\ UNCHANGED <<db, lapsed, session, bound, lease, abandoned, providerVars>>

Abandon(k) ==
    /\ worker[k].w # NoWorkflow
    /\ abandoned < MaxAbandon
    /\ abandoned' = abandoned + 1
    /\ worker' = [worker EXCEPT ![k] = IdleWorker]
    /\ UNCHANGED <<db, lapsed, session, bound, lease, providerVars>>

AuthorityLapses(w) ==
    /\ Lapse(w)
    /\ UNCHANGED <<session, recoveryVars, providerVars>>

-----------------------------------------------------------------------------
CoordinatorInit ==
    /\ Init
    /\ session = [s \in Session |-> IdleSession]
    /\ bound = [r \in Reference |-> NoWorkflow]
    /\ lease = [w \in Workflow |-> FALSE]
    /\ worker = [k \in Worker |-> IdleWorker]
    /\ inflight = {}
    /\ effects = {}
    /\ calls = [w \in Workflow |-> 0]
    /\ abandoned = 0

SessionStep(s) ==
    \/ BeginDecision(s)
    \/ DoReserve(s)
    \/ DoRecordIntent(s)
    \/ DoAuthorizeCredential(s)
    \/ DoStartAttempt(s)
    \/ EnterProvider(s)
    \/ CallProvider(s)
    \/ Respond(s)
    \/ MarkUnknown(s)
    \/ DoCommit(s)
    \/ DoRelease(s)

ProviderStep(w) == ProviderApplies(w) \/ ProviderDrops(w)

WorkerStep(k) ==
    \/ \E w \in Workflow : Claim(k, w)
    \/ Observe(k)
    \/ Reconcile(k)
    \/ ReconcileRefused(k)

CoordinatorNext ==
    \/ \E s \in Session :
          \/ \E w \in Workflow, r \in Reference : Bind(s, w, r)
          \/ SessionStep(s)
          \/ Crash(s)
    \/ \E k \in Worker : WorkerStep(k) \/ Abandon(k)
    \/ \E w \in Workflow : ProviderStep(w) \/ LeaseExpires(w) \/ AuthorityLapses(w)

CoordinatorSpec == CoordinatorInit /\ [][CoordinatorNext]_coordinatorVars

-----------------------------------------------------------------------------
(* Properties *)

(* Type invariant of the sessions, the recovery index and the provider. *)
CoordinatorTypeOK ==
    /\ \A s \in Session :
          /\ session[s].stage \in Stage
          /\ session[s].w \in Workflow \cup {NoWorkflow}
          /\ session[s].rev \in Nat
    /\ bound \in [Reference -> Workflow \cup {NoWorkflow}]
    /\ lease \in [Workflow -> BOOLEAN]
    /\ \A k \in Worker :
          /\ worker[k].w \in Workflow \cup {NoWorkflow}
          /\ worker[k].seen \in EffectConclusion \cup {"Nothing"}
    /\ inflight \subseteq Workflow /\ effects \subseteq Workflow
    /\ calls \in [Workflow -> Nat]
    /\ abandoned \in 0 .. MaxAbandon

(* Once a provider request may have been delivered the workflow keeps its  *)
(* capacity: whatever crashes, stale leases or late deliveries intervene,  *)
(* release needs the definite absence of the effect, and a committed       *)
(* record always stands for an effect that happened.                       *)
EffectKeepsCapacity ==
    \A w \in Workflow :
      /\ w \in effects \cup inflight =>
            db[w].state \in {"Executing", "OutcomeUnknown", "Committed", "ReconciledCommitted"}
      /\ db[w].state \in {"Committed", "ReconciledCommitted"} => w \in effects

(* One workflow leads to at most one provider call, and none before the    *)
(* call entry is durable, however many sessions and crashes there are.     *)
AtMostOneCall ==
    \A w \in Workflow :
      /\ calls[w] <= 1
      /\ calls[w] = 1 => EventsOf(db[w], "ProviderCallEntered") # {}

(* The record state a live stage value stands for. *)
StateOf(stage) ==
    CASE stage = "RecordedDecision" -> "DecisionRecorded"
      [] stage = "Reserved" -> "Reserved"
      [] stage \in {"IntentRecorded", "CredentialAuthorized"} -> "ExecutionIntentRecorded"
      [] OTHER -> "Executing"

(* A sealed stage value a session still holds is always current: nobody    *)
(* else can have moved its workflow, so a compare-and-swap of a live stage *)
(* never loses.                                                            *)
LiveStageIsCurrent ==
    \A s \in Session : session[s].stage \notin {"Idle", "Bound", "Closed"} =>
      /\ db[session[s].w].revision = session[s].rev
      /\ db[session[s].w].state = StateOf(session[s].stage)

(* A reference identifies one workflow, a workflow has one reference, and  *)
(* the record of a workflow carries the very reference it is bound to: the *)
(* mismatch status() guards against cannot arise.                          *)
ReferencesIdentify ==
    /\ \A r, q \in Reference : bound[r] = bound[q] /\ bound[r] # NoWorkflow => r = q
    /\ \A w \in Present(db) : db[w].input[1] = w /\ bound[db[w].input[2]] = w

(* Evidence that reconcile can still apply is true when it is applied,     *)
(* however long ago it was read, whoever held a lease since, and whatever  *)
(* was on its way to the provider: a lease taken before the outcome was    *)
(* marked unknown has lost its revision, and after it no call goes out.    *)
ObservationStands ==
    \A k \in Worker :
      LET w == worker[k].w
      IN  w # NoWorkflow /\ db[w].state = "OutcomeUnknown" /\ db[w].revision = worker[k].rev =>
            /\ worker[k].seen = "Effect" => w \in effects
            /\ worker[k].seen = "NonEffect" => w \notin effects \cup inflight

(* A workflow that was begun, whose caller is gone and whose outcome was   *)
(* not marked unknown. *)
Orphaned(w) ==
    /\ \E r \in Reference : bound[r] = w
    /\ \A s \in Session : session[s].w = w => session[s].stage = "Closed"
    /\ db[w].state # "OutcomeUnknown"

(* An orphaned workflow stays one: no other caller begins it again or      *)
(* calls the provider for it, and recovery, which may lease it, neither    *)
(* concludes it nor frees what it holds.                                   *)
OrphanStays ==
    [][\A w \in Workflow : Orphaned(w) =>
          Orphaned(w)' /\ db'[w] = db[w] /\ calls'[w] = calls[w]]_coordinatorVars
=============================================================================
