----------------------------- MODULE Lifecycle -----------------------------
(***************************************************************************)
(* The durable reservation and execution lifecycle: the pure transition    *)
(* function of auths-lifecycle (kernel.rs, transition.rs) evaluated inside *)
(* one atomic transaction of a lifecycle store (auths-stores/lifecycle.rs).*)
(*                                                                         *)
(* One record per workflow.  Every operation is a transaction that carries *)
(* the revision the caller last saw; the store compares it with the stored *)
(* revision, derives the capacity snapshot from all other records, applies *)
(* the transition and persists the successor record.  A transaction that   *)
(* fails any of these leaves the store as it was, so a refusal is an       *)
(* action that is not enabled.                                             *)
(*                                                                         *)
(* Digests, identifiers, times and receipts are abstracted: an input is a  *)
(* model value, "fresh and matching" evidence is evidence that is offered. *)
(* Capacity is counted in units: a reservation of amount n stands for n    *)
(* elements, and use of a key is the cardinality of the units that count   *)
(* against it.  Every u64 addition in the code is checked and an overflow  *)
(* is refused exactly as a sum above the ceiling is, so the naturals lose  *)
(* nothing.                                                                *)
(***************************************************************************)
EXTENDS Naturals, FiniteSets, Sequences

CONSTANTS
    Workflow,       \* workflow identities
    NoInput,        \* the input of a workflow without a record
    Input,          \* decision inputs, one for each set of bound commitments
    InputsOf,       \* InputsOf[w]: the inputs that name workflow w
    Eligible,       \* inputs with core authorization and complete bindings
    Cancellable,    \* inputs whose policy is BeforeAttemptAllowed
    Intent,         \* reservation intents
    Plan,           \* Plan[x]: the reservation set derived from input x
    Key, Amount,    \* capacity key and amount of an intent
    Additive,       \* keys (scope, window, unit) with an additive rule
    Ceiling,        \* ceiling of each additive key
    Exclusive,      \* keys (scope, window) with an exclusive rule
    Retain,         \* exclusive keys kept by their owner after commit
    MaxRecords,     \* maximum_records of the store
    MaxEvents, MaxAttempts, MaxObservations,
    Durable         \* TRUE: records are encoded (file, PostgreSQL); FALSE: in memory

LifecycleState == {"DecisionRecorded", "Reserved", "ExecutionIntentRecorded",
    "Executing", "Committed", "Released", "OutcomeUnknown",
    "ReconciledCommitted", "ReconciledReleased"}

Terminal == {"Committed", "Released", "ReconciledCommitted", "ReconciledReleased"}

EffectConclusion == {"Effect", "NonEffect", "Unknown", "Inconclusive"}

LifecycleEventKind == {"DecisionPersisted", "ReservationPersisted",
    "ExecutionIntentPersisted", "CredentialAuthorized", "AttemptPersisted",
    "ProviderCallEntered", "ProviderResultPersisted", "OutcomeUnknownPersisted",
    "ReconciliationObserved", "ReconciliationPersisted"}

(* The store is configured with distinct rules and nonzero ceilings, and   *)
(* both the record limit and the per-record limits are positive.           *)
ASSUME ConfigurationAssumption ==
    /\ IsFiniteSet(Workflow) /\ IsFiniteSet(Intent)
    /\ NoInput \notin Input
    /\ InputsOf \in [Workflow -> SUBSET Input]
    /\ Plan \in [Input -> SUBSET Intent]
    /\ Amount \in [Intent -> Nat]
    /\ Ceiling \in [Additive -> Nat \ {0}]
    /\ Additive \cap Exclusive = {}
    /\ Retain \subseteq Exclusive
    /\ {MaxRecords, MaxEvents, MaxAttempts, MaxObservations} \subseteq Nat \ {0}
    /\ Durable \in BOOLEAN

-----------------------------------------------------------------------------
(* Records.  A workflow without a record is the record in state "None" at  *)
(* revision 0, the value an absent expected_revision stands for.           *)

EventRecord == [from : LifecycleState \cup {"None"}, to : LifecycleState,
                kind : LifecycleEventKind]

LifecycleRecord == [
    input : Input \cup {NoInput},
    state : LifecycleState \cup {"None"},
    revision : Nat,
    reserved : SUBSET Intent,         \* reservation_entries
    committed : SUBSET Intent,        \* entries marked committed
    released : SUBSET Intent,         \* entries marked released
    intent : BOOLEAN,                 \* execution_intent is present
    credential : BOOLEAN,             \* credential_authorized
    attempts : Seq({"started", "entered"}),
    observations : Seq(EffectConclusion),
    events : Seq(EventRecord)]

NoRecord == [input |-> NoInput, state |-> "None", revision |-> 0,
    reserved |-> {}, committed |-> {}, released |-> {}, intent |-> FALSE,
    credential |-> FALSE, attempts |-> << >>, observations |-> << >>,
    events |-> << >>]

VARIABLES
    db,       \* the records of the store
    lapsed    \* workflows whose authority expired, was revoked or was reconfigured

lifecycleVars == <<db, lapsed>>

Present(d) == {w \in Workflow : d[w].state # "None"}

-----------------------------------------------------------------------------
(* Capacity *)

(* Faulty variant: an unknown outcome no longer holds its capacity. *)
FaultyHolding(state) == state \in {"Reserved", "ExecutionIntentRecorded", "Executing"}

IsCapacityHolding(state) ==
    state \in {"Reserved", "ExecutionIntentRecorded", "Executing", "OutcomeUnknown"}

(* Faulty variant: committed use is forgotten. *)
FaultyCounts(r, i) ==
    i \in r.reserved /\ i \notin r.released /\ IsCapacityHolding(r.state)

(* Whether entry i of record r counts as committed or active additive use. *)
CountsAdditive(r, i) ==
    /\ i \in r.reserved
    /\ i \in r.committed \/ (i \notin r.released /\ IsCapacityHolding(r.state))

(* Whether entry i of record r makes its workflow a live exclusive owner.  *)
CountsExclusive(r, i) ==
    /\ i \in r.reserved
    /\ i \notin r.released
    /\ IsCapacityHolding(r.state) \/ (Key[i] \in Retain /\ i \in r.committed)

UnitsOf(w, i) == {<<w, i>>} \X (1 .. Amount[i])

(* Units of key k in use by the workflows of ws in database d. *)
Used(d, ws, k) ==
    UNION {UnitsOf(c[1], c[2]) :
           c \in {p \in ws \X Intent : Key[p[2]] = k /\ CountsAdditive(d[p[1]], p[2])}}

(* Live owners of exclusive key k among the workflows of ws. *)
Owners(d, ws, k) ==
    {p \in ws \X Intent : Key[p[2]] = k /\ CountsExclusive(d[p[1]], p[2])}

(* The snapshot a transaction of workflow w derives from all others is     *)
(* well formed; otherwise the store reports Corrupt and refuses.           *)
CapacitySnapshot(d, w) ==
    /\ \A k \in Additive : Cardinality(Used(d, Workflow \ {w}, k)) <= Ceiling[k]
    /\ \A k \in Exclusive : \A p, q \in Owners(d, Workflow \ {w}, k) : p = q

(* Faulty variants: the amount of the request is left out of the sum; the  *)
(* live owner of an exclusive key is not looked at.                        *)
FaultyAvailableAmount(d, w) ==
    \A i \in Plan[d[w].input] :
        \/ /\ Key[i] \in Additive
           /\ Cardinality(Used(d, Workflow \ {w}, Key[i])) < Ceiling[Key[i]]
        \/ Key[i] \in Exclusive /\ Owners(d, Workflow \ {w}, Key[i]) = {}

FaultyAvailableOwner(d, w) ==
    \A i \in Plan[d[w].input] :
        \/ /\ Key[i] \in Additive
           /\ Amount[i] > 0
           /\ Cardinality(Used(d, Workflow \ {w}, Key[i])) + Amount[i] <= Ceiling[Key[i]]
        \/ Key[i] \in Exclusive

(* Each request of the reservation set, on its own, fits the snapshot.     *)
CapacityAvailable(d, w) ==
    \A i \in Plan[d[w].input] :
        \/ /\ Key[i] \in Additive
           /\ Amount[i] > 0
           /\ Cardinality(Used(d, Workflow \ {w}, Key[i])) + Amount[i] <= Ceiling[Key[i]]
        \/ /\ Key[i] \in Exclusive
           /\ Owners(d, Workflow \ {w}, Key[i]) = {}

-----------------------------------------------------------------------------
(* Trace of a record: event kinds and the check made before encoding.      *)

EventKindFor(from, to) ==
    CASE from = "None" /\ to = "DecisionRecorded" -> "DecisionPersisted"
      [] to = "Reserved" -> "ReservationPersisted"
      [] from = "Reserved" /\ to = "ExecutionIntentRecorded" -> "ExecutionIntentPersisted"
      [] from = "ExecutionIntentRecorded" /\ to = "ExecutionIntentRecorded" -> "CredentialAuthorized"
      [] from = "ExecutionIntentRecorded" /\ to = "Executing" -> "AttemptPersisted"
      [] from = "Executing" /\ to = "Executing" -> "ProviderCallEntered"
      [] to \in {"Committed", "Released"} -> "ProviderResultPersisted"
      [] to = "OutcomeUnknown" -> "OutcomeUnknownPersisted"
      [] to \in {"ReconciledCommitted", "ReconciledReleased"} -> "ReconciliationPersisted"
      [] OTHER -> "ReconciliationObserved"

ValidTraceEvent(e) ==
    <<e.from, e.to, e.kind>> \in
        {<<"None", "DecisionRecorded", "DecisionPersisted">>,
         <<"DecisionRecorded", "Reserved", "ReservationPersisted">>,
         <<"Reserved", "ExecutionIntentRecorded", "ExecutionIntentPersisted">>,
         <<"ExecutionIntentRecorded", "ExecutionIntentRecorded", "CredentialAuthorized">>,
         <<"ExecutionIntentRecorded", "Executing", "AttemptPersisted">>,
         <<"Executing", "Executing", "ProviderCallEntered">>,
         <<"Executing", "Committed", "ProviderResultPersisted">>,
         <<"Executing", "Released", "ProviderResultPersisted">>,
         <<"Reserved", "Released", "ProviderResultPersisted">>,
         <<"ExecutionIntentRecorded", "Released", "ProviderResultPersisted">>,
         <<"Executing", "OutcomeUnknown", "OutcomeUnknownPersisted">>,
         <<"OutcomeUnknown", "OutcomeUnknown", "ReconciliationObserved">>,
         <<"OutcomeUnknown", "ReconciledCommitted", "ReconciliationPersisted">>,
         <<"OutcomeUnknown", "ReconciledReleased", "ReconciliationPersisted">>}

ReservationsAreLive(r) == r.committed = {} /\ r.released = {}

RecordShapeIsValid(r) ==
    /\ r.state = "DecisionRecorded" =>
          r.reserved = {} /\ ~r.intent /\ ~r.credential /\ r.attempts = << >>
    /\ r.state # "DecisionRecorded" => r.reserved = Plan[r.input]
    /\ r.state = "Reserved" =>
          ~r.intent /\ ~r.credential /\ r.attempts = << >> /\ ReservationsAreLive(r)
    /\ r.state = "ExecutionIntentRecorded" =>
          r.intent /\ r.attempts = << >> /\ ReservationsAreLive(r)
    /\ r.state \in {"Executing", "OutcomeUnknown"} =>
          r.intent /\ r.attempts # << >> /\ ~r.credential /\ ReservationsAreLive(r)
    /\ r.state \in {"Committed", "ReconciledCommitted"} =>
          r.intent /\ r.attempts # << >> /\ r.committed = r.reserved /\ r.released = {}
    /\ r.state \in {"Released", "ReconciledReleased"} =>
          r.released = r.reserved /\ r.committed = {}

ValidRecordIntegrity(r) ==
    /\ r.revision > 0
    /\ Len(r.events) = r.revision
    /\ r.events[r.revision].to = r.state
    /\ RecordShapeIsValid(r)
    /\ \A n \in 1 .. Len(r.events) :
          /\ ValidTraceEvent(r.events[n])
          /\ r.events[n].from = IF n = 1 THEN "None" ELSE r.events[n - 1].to

-----------------------------------------------------------------------------
(* Transactions.  rev is the revision the caller expects; 0 when it        *)
(* expects no record.                                                      *)

Admissible(w) == w \notin lapsed

(* The transaction reaches the transition function: compare-and-swap and   *)
(* the capacity snapshot both succeed.                                     *)
Transact(w, rev) ==
    /\ db[w].revision = rev
    /\ CapacitySnapshot(db, w)

(* An existing record with room for one more event. *)
TransactExisting(w, rev) ==
    /\ Transact(w, rev)
    /\ db[w].state # "None"
    /\ Len(db[w].events) < MaxEvents

NewEvent(r, to) == [from |-> r.state, to |-> to, kind |-> EventKindFor(r.state, to)]

(* The record r moved to state "to" with the event and revision appended.  *)
AppendTransition(r, to) ==
    [r EXCEPT !.state = to,
              !.revision = r.revision + 1,
              !.events = Append(r.events, NewEvent(r, to))]

(* Persist the successor of workflow w.  An encoding store refuses a       *)
(* record that fails the integrity check its decoder makes.                *)
Persist(w, next) ==
    /\ Durable => ValidRecordIntegrity(next)
    /\ db' = [db EXCEPT ![w] = next]
    /\ UNCHANGED lapsed

(* Faulty variants: the record is created without its input; an existing   *)
(* record is replaced by a new decision.                                   *)
FaultyDecisionInput(w, rev, x) ==
    /\ Transact(w, rev)
    /\ db[w].state = "None"
    /\ x \in Eligible /\ Admissible(w)
    /\ Persist(w, AppendTransition(NoRecord, "DecisionRecorded"))

FaultyDecisionReplace(w, rev, x) ==
    /\ Transact(w, rev)
    /\ x \in Eligible /\ Admissible(w)
    /\ Persist(w, AppendTransition([NoRecord EXCEPT !.input = x], "DecisionRecorded"))

(* record_decision for a workflow without a record.  With a record the     *)
(* same input is an exact replay and a different one a conflict: neither   *)
(* changes the store.                                                      *)
RecordDecision(w, rev, x) ==
    /\ Transact(w, rev)
    /\ db[w].state = "None"
    /\ Cardinality(Present(db)) < MaxRecords
    /\ x \in InputsOf[w] \cap Eligible
    /\ Admissible(w)
    /\ Persist(w, AppendTransition([NoRecord EXCEPT !.input = x], "DecisionRecorded"))

Reserve(w, rev) ==
    /\ TransactExisting(w, rev)
    /\ db[w].state = "DecisionRecorded"
    /\ Admissible(w)
    /\ CapacityAvailable(db, w)
    /\ Persist(w, AppendTransition(
          [db[w] EXCEPT !.reserved = Plan[db[w].input]], "Reserved"))

RecordExecutionIntent(w, rev) ==
    /\ TransactExisting(w, rev)
    /\ db[w].state = "Reserved"
    /\ Admissible(w)
    /\ Persist(w, AppendTransition(
          [db[w] EXCEPT !.intent = TRUE], "ExecutionIntentRecorded"))

(* Faulty variant: an authorized credential can be authorized again. *)
FaultyCredential(w, rev) ==
    /\ TransactExisting(w, rev)
    /\ db[w].state = "ExecutionIntentRecorded"
    /\ Admissible(w)
    /\ Persist(w, AppendTransition(
          [db[w] EXCEPT !.credential = TRUE], "ExecutionIntentRecorded"))

AuthorizeCredential(w, rev) ==
    /\ TransactExisting(w, rev)
    /\ db[w].state = "ExecutionIntentRecorded"
    /\ Admissible(w)
    /\ db[w].intent
    /\ ~db[w].credential
    /\ Persist(w, AppendTransition(
          [db[w] EXCEPT !.credential = TRUE], "ExecutionIntentRecorded"))

(* Faulty variant: the credential stays authorized after the attempt. *)
FaultyAttempt(w, rev) ==
    /\ TransactExisting(w, rev)
    /\ db[w].state = "ExecutionIntentRecorded"
    /\ Admissible(w)
    /\ db[w].credential
    /\ Persist(w, AppendTransition(
          [db[w] EXCEPT !.attempts = Append(db[w].attempts, "started")], "Executing"))

StartAttempt(w, rev) ==
    /\ TransactExisting(w, rev)
    /\ db[w].state = "ExecutionIntentRecorded"
    /\ Len(db[w].attempts) < MaxAttempts
    /\ Admissible(w)
    /\ db[w].intent
    /\ db[w].credential
    /\ Persist(w, AppendTransition(
          [db[w] EXCEPT !.attempts = Append(db[w].attempts, "started"),
                        !.credential = FALSE], "Executing"))

CallEntered(r) ==
    r.attempts # << >> /\ r.attempts[Len(r.attempts)] = "entered"

MarkProviderCallEntered(w, rev) ==
    /\ TransactExisting(w, rev)
    /\ db[w].state = "Executing"
    /\ ~CallEntered(db[w])
    /\ db[w].attempts # << >>
    /\ Persist(w, AppendTransition(
          [db[w] EXCEPT !.attempts[Len(db[w].attempts)] = "entered"], "Executing"))

Commit(w, rev) ==
    /\ TransactExisting(w, rev)
    /\ db[w].state = "Executing"
    /\ CallEntered(db[w])
    /\ Persist(w, AppendTransition(
          [db[w] EXCEPT !.committed = db[w].reserved], "Committed"))

(* The release rule depends on how far the workflow has come: before an    *)
(* attempt policy or evidence suffices, after one only definite            *)
(* non-effect does.                                                        *)
ReleaseAllowed(r, conclusion) ==
    \/ /\ r.state = "Reserved"
       /\ r.attempts = << >>
       /\ r.input \in Cancellable \/ conclusion = "NonEffect"
    \/ /\ r.state = "ExecutionIntentRecorded"
       /\ r.attempts = << >>
    \/ /\ r.state = "Executing"
       /\ r.attempts # << >>
       /\ conclusion = "NonEffect"

Release(w, rev, conclusion) ==
    /\ TransactExisting(w, rev)
    /\ ReleaseAllowed(db[w], conclusion)
    /\ Persist(w, AppendTransition(
          [db[w] EXCEPT !.released = db[w].reserved], "Released"))

MarkOutcomeUnknown(w, rev) ==
    /\ TransactExisting(w, rev)
    /\ db[w].state = "Executing"
    /\ db[w].attempts # << >>
    /\ Persist(w, AppendTransition(db[w], "OutcomeUnknown"))

(* Fresh evidence that matches the execution intent is offered. *)
Reconcilable(w, rev) ==
    /\ TransactExisting(w, rev)
    /\ db[w].state = "OutcomeUnknown"
    /\ db[w].intent
    /\ Len(db[w].observations) < MaxObservations

Observed(r, conclusion) ==
    [r EXCEPT !.observations = Append(r.observations, conclusion)]

ReconcileEffect(w, rev) ==
    /\ Reconcilable(w, rev)
    /\ Persist(w, AppendTransition(
          [Observed(db[w], "Effect") EXCEPT !.committed = db[w].reserved],
          "ReconciledCommitted"))

ReconcileNonEffect(w, rev) ==
    /\ Reconcilable(w, rev)
    /\ Persist(w, AppendTransition(
          [Observed(db[w], "NonEffect") EXCEPT !.released = db[w].reserved],
          "ReconciledReleased"))

(* Inconclusive evidence is appended and the state stays. *)
ReconcileInconclusive(w, rev, conclusion) ==
    /\ Reconcilable(w, rev)
    /\ conclusion \in {"Unknown", "Inconclusive"}
    /\ Persist(w, AppendTransition(Observed(db[w], conclusion), db[w].state))

(* Authority lapses: it expires, is revoked, or the executed configuration *)
(* no longer matches the required one.                                     *)
Lapse(w) ==
    /\ w \notin lapsed
    /\ lapsed' = lapsed \cup {w}
    /\ UNCHANGED db

-----------------------------------------------------------------------------
(* The store under callers that issue any command at any time. *)

Init ==
    /\ db = [w \in Workflow |-> NoRecord]
    /\ lapsed = {}

Step(w, rev) ==
    \/ \E x \in InputsOf[w] : RecordDecision(w, rev, x)
    \/ Reserve(w, rev)
    \/ RecordExecutionIntent(w, rev)
    \/ AuthorizeCredential(w, rev)
    \/ StartAttempt(w, rev)
    \/ MarkProviderCallEntered(w, rev)
    \/ Commit(w, rev)
    \/ \E c \in EffectConclusion : Release(w, rev, c)
    \/ MarkOutcomeUnknown(w, rev)
    \/ ReconcileEffect(w, rev)
    \/ ReconcileNonEffect(w, rev)
    \/ \E c \in EffectConclusion : ReconcileInconclusive(w, rev, c)

Next == \E w \in Workflow : Step(w, db[w].revision) \/ Lapse(w)

Spec == Init /\ [][Next]_lifecycleVars

-----------------------------------------------------------------------------
(* Properties *)

(* Type invariant: every stored record has the fields of LifecycleRecordV1 *)
(* and an input that names its workflow; a workflow without a record is    *)
(* exactly the empty record.                                               *)
TypeOK ==
    /\ db \in [Workflow -> LifecycleRecord]
    /\ lapsed \subseteq Workflow
    /\ \A w \in Workflow :
          IF db[w].state = "None" THEN db[w] = NoRecord ELSE db[w].input \in InputsOf[w]

(* Committed, reserved, executing and outcome-unknown use of an additive   *)
(* key never exceeds its ceiling, over all workflows and through every     *)
(* interleaving of their transactions (capacity_available evaluated        *)
(* against capacity_snapshot in transact_database).                        *)
AdditiveCapacity ==
    \A k \in Additive : Cardinality(Used(db, Workflow, k)) <= Ceiling[k]

(* An exclusive key has at most one live owner, the retained committed     *)
(* owner included; otherwise capacity_snapshot reports Corrupt to every    *)
(* other workflow.                                                         *)
ExclusiveCapacity ==
    \A k \in Exclusive : \A p, q \in Owners(db, Workflow, k) : p = q

Conclusive(r) ==
    \A n \in 1 .. Len(r.observations) : r.observations[n] \in {"Effect", "NonEffect"}

(* Whatever sequence of transitions produced it, a record without an       *)
(* inconclusive observation passes validate_record_integrity, so no        *)
(* encoding store ever refuses a transition that the kernel allows.        *)
RecordsEncode ==
    \A w \in Present(db) : Conclusive(db[w]) => ValidRecordIntegrity(db[w])

(* Every record the transition function produces passes                    *)
(* validate_record_integrity, an inconclusive reconciliation included.     *)
EveryRecordEncodes == \A w \in Present(db) : ValidRecordIntegrity(db[w])

EventsOf(r, kind) == {n \in 1 .. Len(r.events) : r.events[n].kind = kind}

(* A workflow obtains at most one credential authorization, one attempt    *)
(* and one provider-call entry over its whole life, in this order and each *)
(* after the reservation, although the code allows sixteen attempts: no    *)
(* edge leads from Executing back to the state that starts one.            *)
OneExecution ==
    \A w \in Workflow :
      /\ Len(db[w].attempts) <= 1
      /\ \A k \in {"ReservationPersisted", "CredentialAuthorized", "AttemptPersisted", "ProviderCallEntered"} :
            Cardinality(EventsOf(db[w], k)) <= 1
      /\ \A n \in EventsOf(db[w], "ProviderCallEntered") :
            \E m \in EventsOf(db[w], "AttemptPersisted") : m < n
      /\ \A n \in EventsOf(db[w], "AttemptPersisted") :
            \E m \in EventsOf(db[w], "CredentialAuthorized") : m < n
      /\ \A n \in EventsOf(db[w], "CredentialAuthorized") :
            \E m \in EventsOf(db[w], "ReservationPersisted") : m < n

HeldBy(w) == {i \in Intent : CountsAdditive(db[w], i)}

(* Additive use of a workflow shrinks only in the step that persists a     *)
(* release, it is given back as a whole, and from an unknown outcome only  *)
(* with a NonEffect observation in the record: lapsed authority, stale     *)
(* revisions and inconclusive evidence never free it.                      *)
UseReturnedOnlyByRelease ==
    [][\A w \in Workflow : ~(HeldBy(w) \subseteq HeldBy(w)') =>
          /\ db'[w].state \in {"Released", "ReconciledReleased"}
          /\ HeldBy(w)' = {}
          /\ db[w].state = "OutcomeUnknown" =>
                db'[w].observations = Append(db[w].observations, "NonEffect")]_lifecycleVars

(* The history of a record only grows: events and revisions are appended   *)
(* one at a time, the decision input is never replaced, and a terminal     *)
(* record never changes again.                                             *)
HistoryGrows ==
    [][\A w \in Workflow : db'[w] # db[w] =>
          /\ db[w].state \notin Terminal
          /\ db'[w].revision = db[w].revision + 1
          /\ Len(db'[w].events) = db'[w].revision
          /\ SubSeq(db'[w].events, 1, Len(db[w].events)) = db[w].events
          /\ db[w].state # "None" => db'[w].input = db[w].input]_lifecycleVars
=============================================================================
