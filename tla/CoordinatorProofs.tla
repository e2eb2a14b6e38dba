-------------------------- MODULE CoordinatorProofs --------------------------
(***************************************************************************)
(* The coordinator issues one provider call per workflow and releases      *)
(* capacity only without an effect, for every number of sessions, workers, *)
(* references, crashes, lapsed leases and lost messages.                   *)
(***************************************************************************)
EXTENDS Coordinator, LifecycleProofs

SessionRecord == [stage : Stage, w : Workflow \cup {NoWorkflow},
                  input : Input \cup {NoInput}, rev : Nat]

WorkerRecord == [w : Workflow \cup {NoWorkflow}, rev : Nat,
                 seen : EffectConclusion \cup {"Nothing"}]

CoordinatorTypes ==
    /\ session \in [Session -> SessionRecord]
    /\ bound \in [Reference -> Workflow \cup {NoWorkflow}]
    /\ lease \in [Workflow -> BOOLEAN]
    /\ worker \in [Worker -> WorkerRecord]
    /\ inflight \subseteq Workflow /\ effects \subseteq Workflow
    /\ calls \in [Workflow -> Nat]
    /\ abandoned \in 0 .. MaxAbandon

(* The stages whose value seals a revision of the record. *)
Sealed == Stage \ {"Idle", "Bound", "Closed"}

(* The stages that follow the durable call entry. *)
AfterEntry == {"ProviderEntered", "Called", "EffectSeen", "NonEffectSeen", "Ambiguous"}

(* Input x names workflow w with the reference w is bound to. *)
NamesBinding(x, w) == \E r \in Reference : x = <<w, r>> /\ bound[r] = w

(* What the stage value x says about the store and the provider. *)
SessionSound(x) ==
    /\ x.stage # "Idle" => x.w \in Workflow /\ NamesBinding(x.input, x.w)
    /\ x.stage = "Bound" => db[x.w] = NoRecord /\ x.rev = 0
    /\ x.stage \in Sealed =>
          db[x.w].revision = x.rev /\ db[x.w].state = StateOf(x.stage)
    /\ x.stage \in AfterEntry => CallEntered(db[x.w])
    /\ x.stage = "ProviderEntered" => calls[x.w] = 0
    /\ x.stage = "EffectSeen" => x.w \in effects
    /\ x.stage = "NonEffectSeen" => x.w \notin effects \cup inflight

(* No two sessions drive the same workflow: its reference is bound once. *)
SoleDriver ==
    \A s, t \in Session :
      session[s].stage # "Idle" /\ session[t].stage # "Idle" /\ session[s].w = session[t].w
        => s = t

(* What the record of w says about the provider and the recovery index. *)
WorkflowSound(w) ==
    /\ calls[w] \in {0, 1}
    /\ calls[w] = 1 => CallEntered(db[w])
    /\ w \in effects \cup inflight => calls[w] = 1
    /\ db[w].state \in {"Committed", "ReconciledCommitted"} => w \in effects
    /\ db[w].state \in {"Released", "ReconciledReleased"} => w \notin effects \cup inflight
    /\ db[w].state # "None" => NamesBinding(db[w].input, w)

(* The lease of worker y is not ahead of the record, and what y observed   *)
(* is still so as long as reconcile would apply it.                        *)
WorkerSound(y) ==
    y.w \in Workflow =>
      /\ y.rev <= db[y.w].revision
      /\ db[y.w].state = "OutcomeUnknown" /\ db[y.w].revision = y.rev =>
            /\ y.seen = "Effect" => y.w \in effects
            /\ y.seen = "NonEffect" => y.w \notin effects \cup inflight

BoundOnce == \A r, q \in Reference : bound[r] = bound[q] /\ bound[r] # NoWorkflow => r = q

(* The inductive invariant of the coordinator. *)
CoordinatorInvariant ==
    /\ LifecycleInvariant /\ Executions
    /\ CoordinatorTypes
    /\ BoundOnce
    /\ SoleDriver
    /\ \A s \in Session : SessionSound(session[s])
    /\ \A w \in Workflow : WorkflowSound(w)
    /\ \A k \in Worker : WorkerSound(worker[k])

-----------------------------------------------------------------------------
(* Steps of sessions that change the store *)

(* Every other session keeps its soundness when session s moves the record *)
(* of its own workflow.                                                    *)
LEMMA OthersStaySound ==
    ASSUME CoordinatorInvariant, NEW s \in Session, NEW w \in Workflow, w = session[s].w,
           session[s].stage # "Idle", NEW t \in Session, t # s, session'[t] = session[t],
           \A v \in Workflow \ {w} : db'[v] = db[v],
           UNCHANGED <<bound, inflight, effects, calls>>
    PROVE  SessionSound(session[t])'
<1>1. SessionSound(session[t])
  BY DEF CoordinatorInvariant
<1>2. session[t].stage # "Idle" => session[t].w \in Workflow \ {w}
  BY <1>1 DEF CoordinatorInvariant, SoleDriver, SessionSound
<1>3. CASE session[t].stage = "Idle"
  BY <1>3 DEF SessionSound, Sealed, AfterEntry
<1>4. CASE session[t].stage # "Idle"
  <2>1. db'[session[t].w] = db[session[t].w]
    BY <1>2, <1>4
  <2> QED BY <1>1, <2>1 DEF SessionSound, NamesBinding
<1> QED BY <1>3, <1>4

(* A session moves the record of its workflow and holds the stage value x  *)
(* afterwards: the invariant holds again if x fits the new record and the  *)
(* new record fits what the provider did.                                  *)
LEMMA SessionTransacts ==
    ASSUME CoordinatorInvariant, NEW s \in Session, NEW x \in SessionRecord, NEW w, NEW rev,
           w = session[s].w, session[s].stage \notin {"Idle", "Closed"},
           Step(w, rev), session' = [session EXCEPT ![s] = x],
           UNCHANGED <<recoveryVars, providerVars>>,
           x.w = w, x.input = session[s].input,
           x.stage \notin {"Idle", "Bound", "EffectSeen", "NonEffectSeen"},
           x.stage \in Sealed => db'[w].revision = x.rev /\ db'[w].state = StateOf(x.stage),
           x.stage \in AfterEntry => CallEntered(db'[w]),
           x.stage = "ProviderEntered" => calls[w] = 0,
           db'[w].state \in {"Committed", "ReconciledCommitted"} => w \in effects,
           db'[w].state \in {"Released", "ReconciledReleased"} => w \notin effects \cup inflight,
           db[w].state = "None" => db'[w].input = session[s].input
    PROVE  CoordinatorInvariant'
<1>1. /\ LifecycleInvariant /\ Executions /\ CoordinatorTypes /\ BoundOnce /\ SoleDriver
      /\ SessionSound(session[s]) /\ w \in Workflow
  BY DEF CoordinatorInvariant, SessionSound
<1>2. /\ LifecycleInvariant' /\ Executions'
      /\ db'[w].state # "None"
      /\ db[w].state # "None" => db'[w].input = db[w].input
      /\ db[w].state \in Suspended => db'[w].state \in Suspended
      /\ CallEntered(db[w]) => CallEntered(db'[w])
      /\ \A v \in Workflow \ {w} : db'[v] = db[v]
      /\ db'[w].revision = db[w].revision + 1 /\ db[w].revision \in Nat
  BY <1>1, Transaction DEF LifecycleInvariant, TypeOK, LifecycleRecord
<1>3. /\ bound' = bound /\ lease' = lease /\ worker' = worker /\ abandoned' = abandoned
      /\ inflight' = inflight /\ effects' = effects /\ calls' = calls
  BY DEF recoveryVars, providerVars
<1>4. session'[s] = x /\ \A t \in Session \ {s} : session'[t] = session[t]
  BY <1>1 DEF CoordinatorTypes
<1>5. CoordinatorTypes' /\ BoundOnce'
  BY <1>1, <1>3 DEF CoordinatorTypes, BoundOnce
<1>6. SoleDriver'
  BY <1>1, <1>4 DEF SoleDriver
<1>7. ASSUME NEW t \in Session PROVE SessionSound(session[t])'
  <2>1. CASE t = s
    BY Zenon, <1>1, <1>3, <1>4, <2>1 DEF SessionSound, NamesBinding
  <2>2. CASE t # s
    BY <1>1, <1>2, <1>3, <1>4, <2>2, OthersStaySound
  <2> QED BY <2>1, <2>2
<1>8. ASSUME NEW v \in Workflow PROVE WorkflowSound(v)'
  <2>1. WorkflowSound(v)
    BY Zenon DEF CoordinatorInvariant
  <2>2. CASE v = w
    BY Zenon, <1>1, <1>2, <1>3, <2>1, <2>2 DEF WorkflowSound, NamesBinding, SessionSound
  <2>3. CASE v # w
    BY Zenon, <1>2, <1>3, <2>1, <2>3 DEF WorkflowSound, NamesBinding
  <2> QED BY <2>2, <2>3
<1>9. ASSUME NEW k \in Worker PROVE WorkerSound(worker[k])'
  <2>1. WorkerSound(worker[k]) /\ worker[k].rev \in Nat
    BY <1>1 DEF CoordinatorInvariant, CoordinatorTypes, WorkerRecord
  <2>2. CASE worker[k].w = w
    BY <1>2, <1>3, <2>1, <2>2 DEF WorkerSound
  <2>3. CASE worker[k].w # w
    BY <1>2, <1>3, <2>1, <2>3 DEF WorkerSound
  <2> QED BY <2>2, <2>3
<1> QED BY Zenon, <1>2, <1>5, <1>6, <1>7, <1>8, <1>9 DEF CoordinatorInvariant

(* The session s with stage "to" and revision n. *)
StageValue(s, to, n) == [session[s] EXCEPT !.stage = to, !.rev = n]

LEMMA StageValueFields ==
    ASSUME CoordinatorTypes, NEW s \in Session, NEW to \in Stage, NEW n \in Nat
    PROVE  /\ StageValue(s, to, n) \in SessionRecord
           /\ StageValue(s, to, n).stage = to /\ StageValue(s, to, n).rev = n
           /\ StageValue(s, to, n).w = session[s].w
           /\ StageValue(s, to, n).input = session[s].input
BY Zenon DEF CoordinatorTypes, SessionRecord, StageValue

(* The three ways a session goes on write such a value. *)
LEMMA StageWrites ==
    ASSUME CoordinatorTypes, NEW s \in Session, NEW to \in Stage
    PROVE  /\ session[s].rev \in Nat
           /\ Advance(s, to) => session' = [session EXCEPT ![s] = StageValue(s, to, session[s].rev + 1)]
           /\ Close(s) => session' = [session EXCEPT ![s] = StageValue(s, "Closed", session[s].rev)]
           /\ session' = [session EXCEPT ![s].stage = to]
                => session' = [session EXCEPT ![s] = StageValue(s, to, session[s].rev)]
<1>1. session[s].rev \in Nat /\ session[s] \in SessionRecord /\ session \in [Session -> SessionRecord]
  BY DEF CoordinatorTypes, SessionRecord
<1>2. \A q \in SessionRecord : \A z : [q EXCEPT !.stage = z] = [q EXCEPT !.stage = z, !.rev = q.rev]
  BY Zenon DEF SessionRecord
<1>3. Advance(s, to) => session' = [session EXCEPT ![s] = StageValue(s, to, session[s].rev + 1)]
  BY <1>1 DEF Advance, StageValue, SessionRecord
<1>4. Close(s) => session' = [session EXCEPT ![s] = StageValue(s, "Closed", session[s].rev)]
  BY Zenon, <1>1, <1>2 DEF Close, StageValue
<1>5. session' = [session EXCEPT ![s].stage = to]
        => session' = [session EXCEPT ![s] = StageValue(s, to, session[s].rev)]
  BY Zenon, <1>1, <1>2 DEF StageValue
<1> QED BY <1>1, <1>3, <1>4, <1>5

(* Before the call is entered nothing has reached the provider. *)
LEMMA QuietBeforeEntry ==
    ASSUME CoordinatorInvariant, NEW w \in Workflow, ~CallEntered(db[w])
    PROVE  calls[w] = 0 /\ w \notin effects \cup inflight
BY DEF CoordinatorInvariant, WorkflowSound

\* Two of the facts of TransactionStates, by themselves.
LEMMA DecisionStates ==
    ASSUME TypeOK, NEW w \in Workflow, NEW x, RecordDecision(w, 0, x)
    PROVE  db'[w].state = "DecisionRecorded" /\ db'[w].input = x
BY Zenon, TransactionStates

LEMMA ReconciledStates ==
    ASSUME TypeOK, NEW w \in Workflow, NEW rev,
           \/ ReconcileEffect(w, rev) \/ ReconcileNonEffect(w, rev)
           \/ ReconcileInconclusive(w, rev, "Inconclusive")
    PROVE  db[w].state = "OutcomeUnknown"
BY Zenon, TransactionStates

(* The steps that advance a stage by one transaction keep the invariant. *)
LEMMA AdvancingKeeps ==
    ASSUME CoordinatorInvariant, NEW s \in Session,
           \/ BeginDecision(s) \/ DoReserve(s) \/ DoRecordIntent(s)
           \/ DoAuthorizeCredential(s) \/ DoStartAttempt(s) \/ EnterProvider(s)
    PROVE  CoordinatorInvariant'
<1> DEFINE w == session[s].w
           n == session[s].rev
           x(to) == StageValue(s, to, n + 1)
<1>1. /\ LifecycleInvariant /\ TypeOK /\ Executions /\ CoordinatorTypes /\ SessionSound(session[s])
      /\ n \in Nat
  BY StageWrites DEF CoordinatorInvariant, LifecycleInvariant, Stage
<1>2. ASSUME NEW to \in Stage \ {"Idle", "Closed", "Bound", "EffectSeen", "NonEffectSeen"},
             NEW rev, session[s].stage \notin {"Idle", "Closed"}, Step(w, rev),
             Advance(s, to), UNCHANGED <<recoveryVars, providerVars>>,
             db[w].revision = n, db'[w].state = StateOf(to),
             to \in AfterEntry => CallEntered(db'[w]) /\ calls[w] = 0,
             db[w].state = "None" => db'[w].input = session[s].input
      PROVE  CoordinatorInvariant'
  <2>1. w \in Workflow
    BY <1>1, <1>2 DEF SessionSound
  <2>2. db'[w].revision = n + 1
    BY <1>1, <1>2, <2>1, Transaction
  <2>3. /\ session' = [session EXCEPT ![s] = x(to)]
        /\ x(to) \in SessionRecord /\ x(to).stage = to /\ x(to).rev = n + 1
        /\ x(to).w = w /\ x(to).input = session[s].input
    BY <1>1, <1>2, StageWrites, StageValueFields
  <2>4. db'[w].state \notin Terminal
    BY <1>2 DEF StateOf, Terminal
  <2> HIDE DEF x
  <2> QED BY Zenon, <1>2, <2>2, <2>3, <2>4, SessionTransacts DEF Terminal, AfterEntry
<1>3. session[s].stage # "Idle" => w \in Workflow
  BY <1>1 DEF SessionSound
<1> USE DEF Transition
<1>4. CASE BeginDecision(s)
  <2>1. /\ session[s].stage = "Bound" /\ w \in Workflow /\ n = 0
        /\ RecordDecision(w, 0, session[s].input) /\ Advance(s, "RecordedDecision")
        /\ UNCHANGED <<recoveryVars, providerVars>>
    BY <1>1, <1>3, <1>4 DEF BeginDecision, SessionSound
  <2>2. Step(w, 0) /\ db[w].revision = 0
    BY <2>1 DEF Step, RecordDecision, Transact
  <2>3. db'[w].state = "DecisionRecorded" /\ db'[w].input = session[s].input
    BY Zenon, <1>1, <2>1, DecisionStates
  <2> QED BY Zenon, <1>2, <2>1, <2>2, <2>3 DEF StateOf, Stage, AfterEntry
<1>5. CASE DoReserve(s)
  <2>1. /\ session[s].stage = "RecordedDecision" /\ w \in Workflow /\ Reserve(w, n)
        /\ Advance(s, "Reserved") /\ UNCHANGED <<recoveryVars, providerVars>>
    BY <1>3, <1>5 DEF DoReserve
  <2>2. Step(w, n) /\ db[w].revision = n
    BY <2>1 DEF Step, Reserve, TransactExisting, Transact
  <2>3. db[w].state # "None" /\ db'[w].state = "Reserved"
    BY <1>1, <2>1, TransactionStates
  <2> QED BY <1>2, <2>1, <2>2, <2>3 DEF StateOf, Stage, AfterEntry
<1>6. CASE DoRecordIntent(s)
  <2>1. /\ session[s].stage = "Reserved" /\ w \in Workflow /\ RecordExecutionIntent(w, n)
        /\ Advance(s, "IntentRecorded") /\ UNCHANGED <<recoveryVars, providerVars>>
    BY <1>3, <1>6 DEF DoRecordIntent
  <2>2. Step(w, n) /\ db[w].revision = n
    BY <2>1 DEF Step, RecordExecutionIntent, TransactExisting, Transact
  <2>3. db[w].state # "None" /\ db'[w].state = "ExecutionIntentRecorded"
    BY <1>1, <2>1, TransactionStates
  <2> QED BY <1>2, <2>1, <2>2, <2>3 DEF StateOf, Stage, AfterEntry
<1>7. CASE DoAuthorizeCredential(s)
  <2>1. /\ session[s].stage = "IntentRecorded" /\ w \in Workflow /\ AuthorizeCredential(w, n)
        /\ Advance(s, "CredentialAuthorized") /\ UNCHANGED <<recoveryVars, providerVars>>
    BY <1>3, <1>7 DEF DoAuthorizeCredential
  <2>2. Step(w, n) /\ db[w].revision = n
    BY Zenon, <2>1 DEF Step, AuthorizeCredential, TransactExisting, Transact
  <2>3. db[w].state # "None" /\ db'[w].state = "ExecutionIntentRecorded"
    BY <1>1, <2>1, TransactionStates
  <2> QED BY <1>2, <2>1, <2>2, <2>3 DEF StateOf, Stage, AfterEntry
<1>8. CASE DoStartAttempt(s)
  <2>1. /\ session[s].stage = "CredentialAuthorized" /\ w \in Workflow /\ StartAttempt(w, n)
        /\ Advance(s, "AttemptStarted") /\ UNCHANGED <<recoveryVars, providerVars>>
    BY <1>3, <1>8 DEF DoStartAttempt
  <2>2. Step(w, n) /\ db[w].revision = n
    BY Zenon, <2>1 DEF Step, StartAttempt, TransactExisting, Transact
  <2>3. db[w].state # "None" /\ db'[w].state = "Executing"
    BY <1>1, <2>1, TransactionStates
  <2> QED BY <1>2, <2>1, <2>2, <2>3 DEF StateOf, Stage, AfterEntry
<1>9. CASE EnterProvider(s)
  <2>1. /\ session[s].stage = "AttemptStarted" /\ w \in Workflow /\ MarkProviderCallEntered(w, n)
        /\ Advance(s, "ProviderEntered") /\ UNCHANGED <<recoveryVars, providerVars>>
    BY <1>3, <1>9 DEF EnterProvider
  <2>2. Step(w, n) /\ db[w].revision = n /\ ~CallEntered(db[w])
    BY Zenon, <2>1 DEF Step, MarkProviderCallEntered, TransactExisting, Transact
  <2>3. db[w].state = "Executing" /\ db'[w].state = "Executing"
    BY Zenon, <1>1, <2>1, TransactionStates
  <2>4. CallEntered(db'[w])
    BY Zenon, <1>1, <2>1, <2>2, <2>3, EntryIsEntered
  <2>5. calls[w] = 0
    BY <2>1, <2>2, QuietBeforeEntry
  <2> QED BY Zenon, <1>2, <2>1, <2>2, <2>3, <2>4, <2>5 DEF StateOf, Stage
<1> QED BY <1>4, <1>5, <1>6, <1>7, <1>8, <1>9

(* The steps that close a session with a transaction keep the invariant:   *)
(* it commits only an effect it saw, and releases only before the call or  *)
(* after it saw that there is none.                                        *)
LEMMA ClosingKeeps ==
    ASSUME CoordinatorInvariant, NEW s \in Session, MarkUnknown(s) \/ DoCommit(s) \/ DoRelease(s)
    PROVE  CoordinatorInvariant'
<1> DEFINE w == session[s].w
           n == session[s].rev
           x == StageValue(s, "Closed", n)
<1>1. /\ TypeOK /\ Executions /\ CoordinatorTypes /\ SessionSound(session[s]) /\ n \in Nat
  BY StageWrites DEF CoordinatorInvariant, LifecycleInvariant, Stage
<1>2. ASSUME session[s].stage \notin {"Idle", "Closed"}, Step(w, n), Close(s),
             UNCHANGED <<recoveryVars, providerVars>>,
             db[w].state # "None",
             db'[w].state \in {"Committed", "ReconciledCommitted"} => w \in effects,
             db'[w].state \in {"Released", "ReconciledReleased"} => w \notin effects \cup inflight
      PROVE  CoordinatorInvariant'
  <2>1. /\ session' = [session EXCEPT ![s] = x]
        /\ x \in SessionRecord /\ x.stage = "Closed" /\ x.w = w /\ x.input = session[s].input
    BY SMTT(20), <1>1, <1>2, StageWrites, StageValueFields DEF Stage
  <2> HIDE DEF x
  <2> QED BY Zenon, <1>2, <2>1, SessionTransacts DEF Sealed, AfterEntry
<1>3. session[s].stage # "Idle" => w \in Workflow
  BY <1>1 DEF SessionSound
<1>4. CASE MarkUnknown(s)
  <2>1. /\ session[s].stage \notin {"Idle", "Closed"} /\ w \in Workflow
        /\ MarkOutcomeUnknown(w, n) /\ Close(s) /\ UNCHANGED <<recoveryVars, providerVars>>
    BY Zenon, <1>3, <1>4 DEF MarkUnknown
  <2>2. Step(w, n) /\ db[w].state # "None" /\ db'[w].state = "OutcomeUnknown"
    BY Zenon, <1>1, <2>1, TransactionStates DEF Step
  <2> QED BY <1>2, <2>1, <2>2
<1>5. CASE DoCommit(s)
  <2>1. /\ session[s].stage = "EffectSeen" /\ w \in Workflow
        /\ Commit(w, n) /\ Close(s) /\ UNCHANGED <<recoveryVars, providerVars>>
    BY Zenon, <1>3, <1>5 DEF DoCommit
  <2>2. Step(w, n) /\ db[w].state # "None" /\ db'[w].state = "Committed"
    BY Zenon, <1>1, <2>1, TransactionStates DEF Step
  <2>3. w \in effects
    BY <1>1, <2>1 DEF SessionSound
  <2> QED BY <1>2, <2>1, <2>2, <2>3
<1>6. CASE DoRelease(s)
  <2>1. /\ session[s].stage \in {"Reserved", "IntentRecorded", "NonEffectSeen"} /\ w \in Workflow
        /\ Release(w, n, "NonEffect") /\ Close(s) /\ UNCHANGED <<recoveryVars, providerVars>>
    BY Zenon, <1>3, <1>6 DEF DoRelease
  <2>2. Step(w, n) /\ db[w].state # "None" /\ db'[w].state = "Released"
    BY Zenon, <1>1, <2>1, TransactionStates DEF Step, EffectConclusion
  <2>3. w \notin effects \cup inflight
    <3>1. CASE session[s].stage = "NonEffectSeen"
      BY Zenon, <1>1, <3>1 DEF SessionSound
    <3>2. CASE session[s].stage \in {"Reserved", "IntentRecorded"}
      <4>1. db[w].state \in {"Reserved", "ExecutionIntentRecorded"}
        BY Zenon, <1>1, <3>2 DEF SessionSound, Sealed, Stage, StateOf
      <4>2. ~CallEntered(db[w])
        BY Zenon, <1>1, <2>1, <4>1 DEF Executions, ExecutionInvariant, ExecutionStage, CallEntered
      <4> QED BY <2>1, <4>2, QuietBeforeEntry
    <3> QED BY Zenon, <2>1, <3>1, <3>2
  <2> QED BY <1>2, <2>1, <2>2, <2>3
<1> QED BY <1>4, <1>5, <1>6

-----------------------------------------------------------------------------
(* Steps that leave the store alone *)

(* begin binds a fresh reference to a workflow without a record. *)
LEMMA BindKeeps ==
    ASSUME CoordinatorInvariant, NEW s \in Session, NEW w \in Workflow, NEW r \in Reference,
           Bind(s, w, r)
    PROVE  CoordinatorInvariant'
<1> DEFINE x == [stage |-> "Bound", w |-> w, input |-> <<w, r>>, rev |-> 0]
<1>1. /\ session[s].stage = "Idle" /\ bound[r] = NoWorkflow /\ \A q \in Reference : bound[q] # w
      /\ bound' = [bound EXCEPT ![r] = w] /\ session' = [session EXCEPT ![s] = x]
      /\ UNCHANGED <<db, lapsed, lease, worker, abandoned, inflight, effects, calls>>
  BY DEF Bind
<1>2. /\ LifecycleInvariant /\ Executions /\ CoordinatorTypes /\ BoundOnce /\ SoleDriver
      /\ \A t \in Session : SessionSound(session[t])
      /\ \A v \in Workflow : WorkflowSound(v)
      /\ \A k \in Worker : WorkerSound(worker[k])
  BY DEF CoordinatorInvariant
<1>3. /\ x \in SessionRecord /\ x.stage = "Bound" /\ x.w = w /\ x.input = <<w, r>> /\ x.rev = 0
  BY CoordinatorAssumption DEF SessionRecord, Stage
<1> HIDE DEF x
<1>4. session'[s] = x /\ \A t \in Session \ {s} : session'[t] = session[t]
  BY <1>1, <1>2 DEF CoordinatorTypes
<1>5. bound'[r] = w /\ \A q \in Reference \ {r} : bound'[q] = bound[q]
  BY <1>1, <1>2 DEF CoordinatorTypes
<1>6. \A v \in Workflow : \A y : NamesBinding(y, v) => NamesBinding(y, v)'
  BY Zenon, <1>1, <1>5, CoordinatorAssumption DEF NamesBinding
<1>7. LifecycleInvariant' /\ Executions'
  BY Zenon, <1>1, <1>2, RecordsUntouched DEF LifecycleInvariant, TypeOK
<1>8. CoordinatorTypes'
  BY <1>1, <1>2, <1>3 DEF CoordinatorTypes
<1>9. BoundOnce'
  BY Zenon, <1>1, <1>2, <1>5 DEF BoundOnce
<1>10. ASSUME NEW t \in Session, session[t].stage # "Idle" PROVE session[t].w # w
  BY <1>1, <1>2, <1>10 DEF SessionSound, NamesBinding
<1>11. SoleDriver'
  BY <1>1, <1>2, <1>3, <1>4, <1>10 DEF SoleDriver
<1>12. ASSUME NEW t \in Session PROVE SessionSound(session[t])'
  <2>1. CASE t = s
    <3>1. db[w] = NoRecord
      BY <1>1, <1>2 DEF WorkflowSound, NamesBinding, LifecycleInvariant, TypeOK
    <3>2. NamesBinding(<<w, r>>, w)'
      BY Zenon, <1>5 DEF NamesBinding
    <3> QED BY Zenon, <1>1, <1>3, <1>4, <2>1, <3>1, <3>2 DEF SessionSound, Sealed, AfterEntry
  <2>2. CASE t # s
    BY SMTT(20), <1>1, <1>2, <1>4, <1>6, <2>2 DEF SessionSound
  <2> QED BY Zenon, <2>1, <2>2
<1>13. ASSUME NEW v \in Workflow PROVE WorkflowSound(v)'
  BY Zenon, <1>1, <1>2, <1>6 DEF WorkflowSound
<1>14. ASSUME NEW k \in Worker PROVE WorkerSound(worker[k])'
  BY <1>1, <1>2 DEF WorkerSound
<1> QED BY Zenon, <1>7, <1>8, <1>9, <1>11, <1>12, <1>13, <1>14 DEF CoordinatorInvariant

(* A session that only changes its stage keeps the invariant if the new    *)
(* stage value is sound.                                                   *)
LEMMA RestagingKeeps ==
    ASSUME CoordinatorInvariant, NEW s \in Session, NEW to \in Stage \ {"Idle"},
           session[s].stage # "Idle", session' = [session EXCEPT ![s].stage = to],
           UNCHANGED <<db, lapsed, recoveryVars, providerVars>>,
           SessionSound(StageValue(s, to, session[s].rev))
    PROVE  CoordinatorInvariant'
<1> DEFINE x == StageValue(s, to, session[s].rev)
<1>1. /\ LifecycleInvariant /\ Executions /\ CoordinatorTypes /\ BoundOnce /\ SoleDriver
      /\ \A t \in Session : SessionSound(session[t])
      /\ \A v \in Workflow : WorkflowSound(v)
      /\ \A k \in Worker : WorkerSound(worker[k])
  BY DEF CoordinatorInvariant
<1>2. /\ bound' = bound /\ lease' = lease /\ worker' = worker /\ abandoned' = abandoned
      /\ inflight' = inflight /\ effects' = effects /\ calls' = calls
      /\ db' = db /\ lapsed' = lapsed
  BY DEF recoveryVars, providerVars
<1>3. /\ session' = [session EXCEPT ![s] = x]
      /\ x \in SessionRecord /\ x.stage = to /\ x.w = session[s].w
  <2>1. session[s].rev \in Nat /\ session' = [session EXCEPT ![s] = x]
    BY Zenon, <1>1, StageWrites
  <2>2. x \in SessionRecord /\ x.stage = to /\ x.w = session[s].w
    BY <1>1, <2>1, StageValueFields
  <2> QED BY Zenon, <2>1, <2>2
<1>4. SessionSound(x)
  OBVIOUS
<1> HIDE DEF x
<1>5. session'[s] = x /\ \A t \in Session \ {s} : session'[t] = session[t]
  BY <1>1, <1>3 DEF CoordinatorTypes
<1>6. LifecycleInvariant' /\ Executions'
  BY <1>1, <1>2, RecordsUntouched DEF LifecycleInvariant, TypeOK
<1>7. CoordinatorTypes' /\ BoundOnce'
  BY <1>1, <1>2, <1>3 DEF CoordinatorTypes, BoundOnce
<1>8. SoleDriver'
  BY SMTT(20), <1>1, <1>3, <1>5 DEF SoleDriver
<1>9. ASSUME NEW t \in Session PROVE SessionSound(session[t])'
  <2>1. SessionSound(session'[t])
    BY <1>1, <1>4, <1>5
  <2> QED BY <1>2, <2>1 DEF SessionSound, NamesBinding
<1>10. ASSUME NEW v \in Workflow PROVE WorkflowSound(v)'
  BY <1>1, <1>2 DEF WorkflowSound, NamesBinding
<1>11. ASSUME NEW k \in Worker PROVE WorkerSound(worker[k])'
  BY <1>1, <1>2 DEF WorkerSound
<1> QED BY Zenon, <1>6, <1>7, <1>8, <1>9, <1>10, <1>11 DEF CoordinatorInvariant

(* A crashed caller, and a response, keep the invariant. *)
LEMMA CrashAndRespondKeep ==
    ASSUME CoordinatorInvariant, NEW s \in Session, Crash(s) \/ Respond(s)
    PROVE  CoordinatorInvariant'
<1> DEFINE x(to) == StageValue(s, to, session[s].rev)
<1>1. CoordinatorTypes /\ SessionSound(session[s]) /\ session[s].rev \in Nat
  BY StageWrites DEF CoordinatorInvariant, Stage
<1>2. ASSUME NEW to \in Stage
      PROVE  /\ x(to).stage = to /\ x(to).w = session[s].w
             /\ x(to).input = session[s].input /\ x(to).rev = session[s].rev
  BY <1>1, StageValueFields
<1> HIDE DEF x
<1>3. CASE Crash(s)
  <2>1. /\ session[s].stage # "Idle" /\ session' = [session EXCEPT ![s].stage = "Closed"]
        /\ UNCHANGED <<db, lapsed, recoveryVars, providerVars>>
    BY <1>3 DEF Crash, Close
  <2>2. SessionSound(x("Closed"))
    BY <1>1, <1>2, <2>1 DEF SessionSound, Sealed, AfterEntry, Stage
  <2> QED BY Zenon, <2>1, <2>2, RestagingKeeps DEF x, Stage
<1>4. CASE Respond(s)
  <2>1. session[s].stage = "Called" /\ UNCHANGED <<db, lapsed, recoveryVars, providerVars>>
    BY <1>4 DEF Respond
  <2>2. PICK to \in {"EffectSeen", "NonEffectSeen", "Ambiguous"} :
           /\ session' = [session EXCEPT ![s].stage = to]
           /\ to = "EffectSeen" => session[s].w \in effects
           /\ to = "NonEffectSeen" => session[s].w \notin effects \cup inflight
    BY <1>4 DEF Respond
  <2>3. SessionSound(x(to))
    BY SMTT(20), <1>1, <1>2, <2>1, <2>2 DEF SessionSound, Sealed, AfterEntry, Stage, StateOf
  <2> QED BY Zenon, <2>1, <2>2, <2>3, RestagingKeeps DEF x, Stage
<1> QED BY <1>3, <1>4

(* The provider call is issued once: it is the only step that counts one,  *)
(* it leaves the stage that allows it, and no other session and no worker  *)
(* with an observation is at this workflow.                                *)
LEMMA CallKeeps ==
    ASSUME CoordinatorInvariant, NEW s \in Session, CallProvider(s)
    PROVE  CoordinatorInvariant'
<1> DEFINE w == session[s].w
           x == StageValue(s, "Called", session[s].rev)
<1>1. /\ LifecycleInvariant /\ Executions /\ CoordinatorTypes /\ BoundOnce /\ SoleDriver
      /\ \A t \in Session : SessionSound(session[t])
      /\ \A v \in Workflow : WorkflowSound(v)
      /\ \A k \in Worker : WorkerSound(worker[k])
  BY DEF CoordinatorInvariant
<1>2. /\ session[s].stage = "ProviderEntered"
      /\ session' = [session EXCEPT ![s].stage = "Called"]
      /\ inflight' = inflight \cup {w} /\ calls' = [calls EXCEPT ![w] = calls[w] + 1]
      /\ bound' = bound /\ lease' = lease /\ worker' = worker /\ abandoned' = abandoned
      /\ effects' = effects /\ db' = db /\ lapsed' = lapsed
  BY DEF CallProvider, recoveryVars
<1>3. /\ w \in Workflow /\ NamesBinding(session[s].input, w) /\ CallEntered(db[w])
      /\ calls[w] = 0 /\ db[w].state = "Executing" /\ db[w].revision = session[s].rev
  BY <1>1, <1>2 DEF SessionSound, Sealed, Stage, AfterEntry, StateOf
<1>4. calls'[w] = 1 /\ \A v \in Workflow \ {w} : calls'[v] = calls[v]
  BY <1>1, <1>2, <1>3 DEF CoordinatorTypes
<1>5. /\ session' = [session EXCEPT ![s] = x] /\ x \in SessionRecord /\ x.stage = "Called"
      /\ x.w = w /\ x.input = session[s].input /\ x.rev = session[s].rev
  <2>1. "Called" \in Stage
    BY DEF Stage
  <2>2. session[s].rev \in Nat /\ session' = [session EXCEPT ![s] = x]
    BY Zenon, <1>1, <1>2, <2>1, StageWrites
  <2>3. /\ x \in SessionRecord /\ x.stage = "Called"
        /\ x.w = w /\ x.input = session[s].input /\ x.rev = session[s].rev
    BY <1>1, <2>1, <2>2, StageValueFields
  <2> QED BY <2>2, <2>3
<1> HIDE DEF x
<1>6. session'[s] = x /\ \A t \in Session \ {s} : session'[t] = session[t]
  BY <1>1, <1>5 DEF CoordinatorTypes
<1>7. LifecycleInvariant' /\ Executions'
  BY <1>1, <1>2, RecordsUntouched DEF LifecycleInvariant, TypeOK
<1>8. CoordinatorTypes' /\ BoundOnce'
  BY <1>1, <1>2, <1>3, <1>5 DEF CoordinatorTypes, BoundOnce
<1>9. SoleDriver'
  BY <1>1, <1>2, <1>5, <1>6 DEF SoleDriver
<1>10. ASSUME NEW t \in Session PROVE SessionSound(session[t])'
  <2>1. CASE t = s
    BY Zenon, <1>2, <1>3, <1>5, <1>6, <2>1 DEF SessionSound, NamesBinding, Sealed, AfterEntry, StateOf
  <2>2. CASE t # s
    <3>1. session[t].stage # "Idle" => session[t].w \in Workflow \ {w}
      BY <1>1, <1>2, <2>2 DEF SoleDriver, SessionSound
    <3> QED BY SMTT(20), <1>1, <1>2, <1>4, <1>6, <2>2, <3>1 DEF SessionSound, NamesBinding, Sealed, AfterEntry
  <2> QED BY <2>1, <2>2
<1>11. ASSUME NEW v \in Workflow PROVE WorkflowSound(v)'
  BY <1>1, <1>2, <1>3, <1>4 DEF WorkflowSound, NamesBinding
<1>12. ASSUME NEW k \in Worker PROVE WorkerSound(worker[k])'
  BY <1>1, <1>2, <1>3 DEF WorkerSound, Suspended, Terminal
<1> QED BY Zenon, <1>7, <1>8, <1>9, <1>10, <1>11, <1>12 DEF CoordinatorInvariant

(* The provider applies or drops a request on its way. *)
LEMMA ProviderKeeps ==
    ASSUME CoordinatorInvariant, NEW w \in Workflow, ProviderStep(w)
    PROVE  CoordinatorInvariant'
<1>1. /\ LifecycleInvariant /\ Executions /\ CoordinatorTypes /\ BoundOnce /\ SoleDriver
      /\ \A t \in Session : SessionSound(session[t])
      /\ \A v \in Workflow : WorkflowSound(v)
      /\ \A k \in Worker : WorkerSound(worker[k])
  BY DEF CoordinatorInvariant
<1>2. /\ w \in inflight /\ inflight' = inflight \ {w}
      /\ effects' = effects \cup {w} \/ effects' = effects
      /\ bound' = bound /\ lease' = lease /\ worker' = worker /\ abandoned' = abandoned
      /\ calls' = calls /\ db' = db /\ lapsed' = lapsed /\ session' = session
  BY Zenon DEF ProviderStep, ProviderApplies, ProviderDrops, recoveryVars
<1>3. LifecycleInvariant' /\ Executions'
  BY <1>1, <1>2, RecordsUntouched DEF LifecycleInvariant, TypeOK
<1>4. CoordinatorTypes' /\ BoundOnce' /\ SoleDriver'
  BY Zenon, <1>1, <1>2 DEF CoordinatorTypes, BoundOnce, SoleDriver
<1>5. ASSUME NEW t \in Session PROVE SessionSound(session[t])'
  BY Zenon, <1>1, <1>2 DEF SessionSound, NamesBinding
<1>6. ASSUME NEW v \in Workflow PROVE WorkflowSound(v)'
  BY Zenon, <1>1, <1>2 DEF WorkflowSound, NamesBinding
<1>7. ASSUME NEW k \in Worker PROVE WorkerSound(worker[k])'
  BY Zenon, <1>1, <1>2 DEF WorkerSound
<1> QED BY <1>3, <1>4, <1>5, <1>6, <1>7 DEF CoordinatorInvariant

-----------------------------------------------------------------------------
(* Reconciliation *)

(* A worker without a lease claims nothing about any workflow. *)
LEMMA IdleWorkerSound ==
    /\ IdleWorker \in WorkerRecord
    /\ IdleWorker.seen = "Nothing"
    /\ WorkerSound(IdleWorker)
BY CoordinatorAssumption DEF IdleWorker, WorkerRecord, WorkerSound

(* A step that changes a worker, leases and the count of abandoned ones    *)
(* keeps the invariant if what the worker holds afterwards is sound.       *)
LEMMA WorkerKeeps ==
    ASSUME CoordinatorInvariant, NEW k \in Worker, NEW y \in WorkerRecord, WorkerSound(y),
           worker' = [worker EXCEPT ![k] = y],
           lease' \in [Workflow -> BOOLEAN], abandoned' \in 0 .. MaxAbandon,
           UNCHANGED <<db, lapsed, session, bound, providerVars>>
    PROVE  CoordinatorInvariant'
<1>1. /\ LifecycleInvariant /\ Executions /\ CoordinatorTypes /\ BoundOnce /\ SoleDriver
      /\ \A t \in Session : SessionSound(session[t])
      /\ \A v \in Workflow : WorkflowSound(v)
      /\ \A j \in Worker : WorkerSound(worker[j])
  BY DEF CoordinatorInvariant
<1>2. /\ bound' = bound /\ session' = session /\ db' = db /\ lapsed' = lapsed
      /\ inflight' = inflight /\ effects' = effects /\ calls' = calls
  BY DEF providerVars
<1>3. LifecycleInvariant' /\ Executions'
  BY <1>1, <1>2, RecordsUntouched DEF LifecycleInvariant, TypeOK
<1>4. CoordinatorTypes' /\ BoundOnce' /\ SoleDriver'
  BY Zenon, <1>1, <1>2 DEF CoordinatorTypes, BoundOnce, SoleDriver
<1>5. ASSUME NEW t \in Session PROVE SessionSound(session[t])'
  BY Zenon, <1>1, <1>2 DEF SessionSound, NamesBinding
<1>6. ASSUME NEW v \in Workflow PROVE WorkflowSound(v)'
  BY Zenon, <1>1, <1>2 DEF WorkflowSound, NamesBinding
<1>7. ASSUME NEW j \in Worker PROVE WorkerSound(worker[j])'
  <2>1. worker'[j] = IF j = k THEN y ELSE worker[j]
    BY <1>1 DEF CoordinatorTypes
  <2>2. WorkerSound(worker'[j])
    BY <1>1, <2>1
  <2> QED BY <1>2, <2>2 DEF WorkerSound
<1> QED BY <1>3, <1>4, <1>5, <1>6, <1>7 DEF CoordinatorInvariant

(* Claiming, observing, being refused and giving up keep the invariant. *)
LEMMA WorkerStepKeeps ==
    ASSUME CoordinatorInvariant, NEW k \in Worker,
           \/ \E w \in Workflow : Claim(k, w)
           \/ Observe(k) \/ ReconcileRefused(k) \/ Abandon(k)
    PROVE  CoordinatorInvariant'
<1>1. CoordinatorTypes /\ TypeOK
  BY DEF CoordinatorInvariant, LifecycleInvariant
<1>2. ASSUME NEW w \in Workflow, Claim(k, w) PROVE CoordinatorInvariant'
  <2> DEFINE y == [w |-> w, rev |-> db[w].revision, seen |-> "Nothing"]
  <2>1. /\ lease' = [lease EXCEPT ![w] = TRUE] /\ worker' = [worker EXCEPT ![k] = y]
        /\ UNCHANGED <<db, lapsed, session, bound, abandoned, providerVars>>
    BY Zenon, <1>2 DEF Claim
  <2>2. y \in WorkerRecord /\ WorkerSound(y)
    BY <1>1 DEF TypeOK, LifecycleRecord, WorkerRecord, WorkerSound
  <2> HIDE DEF y
  <2>3. lease' \in [Workflow -> BOOLEAN] /\ abandoned' \in 0 .. MaxAbandon
    BY <1>1, <2>1 DEF CoordinatorTypes
  <2> QED BY Zenon, <2>1, <2>2, <2>3, WorkerKeeps
<1>3. CASE Observe(k)
  <2> DEFINE w == worker[k].w
             y == [worker[k] EXCEPT !.seen = ObservedConclusion(w)]
  <2>1. /\ w # NoWorkflow
        /\ worker' = [worker EXCEPT ![k].seen = ObservedConclusion(w)]
        /\ UNCHANGED <<db, lapsed, session, bound, lease, abandoned, providerVars>>
    BY <1>3 DEF Observe
  <2>2. worker' = [worker EXCEPT ![k] = y] /\ worker[k] \in WorkerRecord
    BY <1>1, <2>1 DEF CoordinatorTypes
  <2>3. /\ y \in WorkerRecord /\ y.w = w /\ w \in Workflow /\ y.seen = ObservedConclusion(w)
    BY <2>1, <2>2 DEF WorkerRecord, ObservedConclusion, EffectConclusion
  <2> HIDE DEF y
  <2>4. WorkerSound(y)
    <3>1. WorkerSound(worker[k]) /\ y.rev = worker[k].rev
      BY <2>2 DEF CoordinatorInvariant, WorkerRecord, y
    <3> QED BY <2>3, <3>1 DEF WorkerSound, ObservedConclusion
  <2>5. lease' \in [Workflow -> BOOLEAN] /\ abandoned' \in 0 .. MaxAbandon
    BY <1>1, <2>1 DEF CoordinatorTypes
  <2> QED BY Zenon, <2>1, <2>2, <2>3, <2>4, <2>5, WorkerKeeps
<1>4. CASE ReconcileRefused(k) \/ Abandon(k)
  <2>1. /\ worker' = [worker EXCEPT ![k] = IdleWorker]
        /\ lease' = lease /\ abandoned' \in 0 .. MaxAbandon
        /\ UNCHANGED <<db, lapsed, session, bound, providerVars>>
    BY <1>1, <1>4, CoordinatorAssumption DEF ReconcileRefused, Abandon, CoordinatorTypes
  <2>2. lease' \in [Workflow -> BOOLEAN]
    BY <1>1, <2>1 DEF CoordinatorTypes
  <2> QED BY Zenon, <2>1, <2>2, IdleWorkerSound, WorkerKeeps
<1> QED BY <1>2, <1>3, <1>4

(* Reconciliation moves a record that no session holds any more, and       *)
(* settles it as the provider did.                                         *)
LEMMA ReconcileKeeps ==
    ASSUME CoordinatorInvariant, NEW k \in Worker, Reconcile(k)
    PROVE  CoordinatorInvariant'
<1> DEFINE w == worker[k].w
           rev == worker[k].rev
<1>1. /\ LifecycleInvariant /\ Executions /\ CoordinatorTypes /\ BoundOnce /\ SoleDriver
      /\ \A t \in Session : SessionSound(session[t])
      /\ \A v \in Workflow : WorkflowSound(v)
      /\ \A j \in Worker : WorkerSound(worker[j])
  BY DEF CoordinatorInvariant
<1>2. /\ w # NoWorkflow /\ worker' = [worker EXCEPT ![k] = IdleWorker]
      /\ session' = session /\ bound' = bound /\ lease' = lease /\ abandoned' = abandoned
      /\ inflight' = inflight /\ effects' = effects /\ calls' = calls
  BY Zenon DEF Reconcile, providerVars
<1>3. w \in Workflow /\ TypeOK
  BY <1>1, <1>2 DEF CoordinatorTypes, WorkerRecord, LifecycleInvariant
<1>4. \/ worker[k].seen = "Effect" /\ ReconcileEffect(w, rev)
      \/ worker[k].seen = "NonEffect" /\ ReconcileNonEffect(w, rev)
      \/ worker[k].seen = "Inconclusive" /\ ReconcileInconclusive(w, rev, "Inconclusive")
  BY Zenon DEF Reconcile
<1>5. Step(w, rev)
  BY <1>4 DEF Step, EffectConclusion
<1>6. /\ db[w].state = "OutcomeUnknown"
      /\ db'[w].state = "ReconciledCommitted" => w \in effects
      /\ db'[w].state = "ReconciledReleased" => w \notin effects \cup inflight
      /\ db'[w].state \in {"ReconciledCommitted", "ReconciledReleased", "OutcomeUnknown"}
  <2>1. db[w].revision = rev
    BY <1>4 DEF ReconcileEffect, ReconcileNonEffect, ReconcileInconclusive, Reconcilable,
                TransactExisting, Transact
  <2> QED BY Zenon, <1>1, <1>3, <1>4, <2>1, TransactionStates DEF WorkerSound
<1>7. /\ LifecycleInvariant' /\ Executions'
      /\ db'[w].input = db[w].input
      /\ CallEntered(db[w]) => CallEntered(db'[w])
      /\ \A v \in Workflow \ {w} : db'[v] = db[v]
      /\ db'[w].revision = db[w].revision + 1
  BY Zenon, <1>1, <1>3, <1>5, <1>6, Transaction
<1>8. CoordinatorTypes' /\ BoundOnce' /\ SoleDriver'
  BY <1>1, <1>2, IdleWorkerSound DEF CoordinatorTypes, BoundOnce, SoleDriver
<1>9. ASSUME NEW t \in Session PROVE SessionSound(session[t])'
  <2>1. session[t].w = w => session[t].stage \notin Sealed \cup {"Bound"}
    BY Zenon, <1>1, <1>6, NoRecordFields DEF SessionSound, StateOf
  <2>2. CASE session[t].stage \in {"Idle", "Closed"}
    BY <1>1, <1>2, <2>2 DEF SessionSound, NamesBinding, Sealed, AfterEntry
  <2>3. CASE session[t].stage \notin {"Idle", "Closed"}
    <3>1. session[t].stage \in Sealed \cup {"Bound"}
      BY Zenon, <1>1, <2>3 DEF CoordinatorTypes, SessionRecord, Sealed
    <3>2. session[t].w \in Workflow \ {w}
      BY Zenon, <1>1, <2>1, <2>3, <3>1 DEF SessionSound
    <3>3. db'[session[t].w] = db[session[t].w]
      BY <1>7, <3>2
    <3> QED BY Zenon, <1>1, <1>2, <3>3 DEF SessionSound, NamesBinding
  <2> QED BY <2>2, <2>3
<1>10. ASSUME NEW v \in Workflow PROVE WorkflowSound(v)'
  <2>1. CASE v = w
    BY SMTT(20), <1>1, <1>2, <1>6, <1>7, <2>1 DEF WorkflowSound, NamesBinding
  <2>2. CASE v # w
    BY SMTT(20), <1>1, <1>2, <1>7, <2>2 DEF WorkflowSound, NamesBinding
  <2> QED BY Zenon, <2>1, <2>2
<1>11. ASSUME NEW j \in Worker PROVE WorkerSound(worker[j])'
  <2>1. worker'[j] = IF j = k THEN IdleWorker ELSE worker[j]
    BY Zenon, <1>1, <1>2 DEF CoordinatorTypes
  <2>2. WorkerSound(worker'[j])
    BY Zenon, <1>1, <2>1, IdleWorkerSound
  <2>3. worker'[j].rev \in Nat /\ db[w].revision \in Nat
    BY <1>3, <1>8 DEF CoordinatorTypes, WorkerRecord, TypeOK, LifecycleRecord
  <2>4. CASE worker'[j].w = w
    BY SMTT(20), <1>2, <1>7, <2>2, <2>3, <2>4 DEF WorkerSound
  <2>5. CASE worker'[j].w # w
    BY <1>2, <1>7, <2>2, <2>5 DEF WorkerSound
  <2> QED BY <2>4, <2>5
<1> QED BY Zenon, <1>7, <1>8, <1>9, <1>10, <1>11 DEF CoordinatorInvariant

-----------------------------------------------------------------------------
(* The coordinator *)

(* Before begin is called for the first time the invariant holds. *)
LEMMA CoordinatorInitInvariant == CoordinatorInit => CoordinatorInvariant
<1> SUFFICES ASSUME CoordinatorInit PROVE CoordinatorInvariant
  OBVIOUS
<1>1. LifecycleInvariant /\ Executions
  BY InitInvariant, InitExecutions DEF CoordinatorInit
<1>2. /\ \A s \in Session : session[s] = IdleSession
      /\ \A k \in Worker : worker[k] = IdleWorker
      /\ \A w \in Workflow : db[w] = NoRecord /\ calls[w] = 0
      /\ inflight = {} /\ effects = {} /\ \A r \in Reference : bound[r] = NoWorkflow
  BY DEF CoordinatorInit, Init
<1>3. /\ IdleSession \in SessionRecord /\ IdleSession.stage = "Idle"
  BY DEF IdleSession, SessionRecord, Stage
<1>4. CoordinatorTypes
  BY SMTT(20), <1>3, IdleWorkerSound, CoordinatorAssumption DEF CoordinatorInit, CoordinatorTypes
<1>5. BoundOnce /\ SoleDriver
  BY Zenon, <1>2, <1>3 DEF BoundOnce, SoleDriver
<1>6. \A s \in Session : SessionSound(session[s])
  BY Zenon, <1>2, <1>3 DEF SessionSound, Sealed, AfterEntry
<1>7. \A w \in Workflow : WorkflowSound(w)
  BY SMTT(20), <1>2, NoRecordFields DEF WorkflowSound
<1>8. \A k \in Worker : WorkerSound(worker[k])
  BY <1>2, IdleWorkerSound
<1> QED BY <1>1, <1>4, <1>5, <1>6, <1>7, <1>8 DEF CoordinatorInvariant

(* Leases that expire and authority that lapses keep the invariant. *)
LEMMA TimeKeeps ==
    ASSUME CoordinatorInvariant, NEW w \in Workflow, LeaseExpires(w) \/ AuthorityLapses(w)
    PROVE  CoordinatorInvariant'
<1>1. /\ LifecycleInvariant /\ Executions /\ CoordinatorTypes /\ BoundOnce /\ SoleDriver
      /\ \A t \in Session : SessionSound(session[t])
      /\ \A v \in Workflow : WorkflowSound(v)
      /\ \A k \in Worker : WorkerSound(worker[k])
  BY DEF CoordinatorInvariant
<1>2. /\ lease' = [lease EXCEPT ![w] = FALSE] \/ lease' = lease
      /\ lapsed' = lapsed \cup {w} \/ lapsed' = lapsed
      /\ session' = session /\ bound' = bound /\ worker' = worker /\ abandoned' = abandoned
      /\ inflight' = inflight /\ effects' = effects /\ calls' = calls /\ db' = db
  BY Zenon DEF LeaseExpires, AuthorityLapses, Lapse, recoveryVars, providerVars
<1>3. LifecycleInvariant' /\ Executions'
  BY <1>1, <1>2, RecordsUntouched DEF LifecycleInvariant, TypeOK
<1>4. CoordinatorTypes' /\ BoundOnce' /\ SoleDriver'
  BY Zenon, <1>1, <1>2 DEF CoordinatorTypes, BoundOnce, SoleDriver
<1>5. ASSUME NEW t \in Session PROVE SessionSound(session[t])'
  BY Zenon, <1>1, <1>2 DEF SessionSound, NamesBinding
<1>6. ASSUME NEW v \in Workflow PROVE WorkflowSound(v)'
  BY Zenon, <1>1, <1>2 DEF WorkflowSound, NamesBinding
<1>7. ASSUME NEW k \in Worker PROVE WorkerSound(worker[k])'
  BY <1>1, <1>2 DEF WorkerSound
<1> QED BY <1>3, <1>4, <1>5, <1>6, <1>7 DEF CoordinatorInvariant

(* Nothing happens. *)
LEMMA CoordinatorStutters ==
    ASSUME CoordinatorInvariant, UNCHANGED coordinatorVars
    PROVE  CoordinatorInvariant'
<1>1. /\ LifecycleInvariant /\ Executions /\ CoordinatorTypes /\ BoundOnce /\ SoleDriver
      /\ \A t \in Session : SessionSound(session[t])
      /\ \A v \in Workflow : WorkflowSound(v)
      /\ \A k \in Worker : WorkerSound(worker[k])
  BY DEF CoordinatorInvariant
<1>2. /\ session' = session /\ bound' = bound /\ worker' = worker /\ abandoned' = abandoned
      /\ inflight' = inflight /\ effects' = effects /\ calls' = calls /\ db' = db
      /\ lease' = lease /\ lapsed' = lapsed
  BY Zenon DEF coordinatorVars
<1>3. LifecycleInvariant' /\ Executions'
  BY Zenon, <1>1, <1>2, RecordsUntouched DEF LifecycleInvariant, TypeOK
<1>4. CoordinatorTypes' /\ BoundOnce' /\ SoleDriver'
  BY Zenon, <1>1, <1>2 DEF CoordinatorTypes, BoundOnce, SoleDriver
<1>5. ASSUME NEW t \in Session PROVE SessionSound(session[t])'
  BY Zenon, <1>1, <1>2 DEF SessionSound, NamesBinding
<1>6. ASSUME NEW v \in Workflow PROVE WorkflowSound(v)'
  BY <1>1, <1>2 DEF WorkflowSound, NamesBinding
<1>7. ASSUME NEW k \in Worker PROVE WorkerSound(worker[k])'
  BY Zenon, <1>1, <1>2 DEF WorkerSound
<1> QED BY <1>3, <1>4, <1>5, <1>6, <1>7 DEF CoordinatorInvariant

(* The inductive invariant holds in every reachable state: each reference  *)
(* and each workflow has one driver, and stage values, records, leases and *)
(* observations agree with what the provider did.                          *)
THEOREM CoordinatorInvariance == CoordinatorSpec => []CoordinatorInvariant
<1>1. CoordinatorInvariant /\ [CoordinatorNext]_coordinatorVars => CoordinatorInvariant'
  <2> SUFFICES ASSUME CoordinatorInvariant, [CoordinatorNext]_coordinatorVars
               PROVE  CoordinatorInvariant'
    OBVIOUS
  <2>1. ASSUME NEW s \in Session, NEW w \in Workflow, NEW r \in Reference, Bind(s, w, r)
        PROVE  CoordinatorInvariant'
    BY <2>1, BindKeeps
  <2>2. ASSUME NEW s \in Session, SessionStep(s) \/ Crash(s)
        PROVE  CoordinatorInvariant'
    BY <2>2, AdvancingKeeps, ClosingKeeps, CrashAndRespondKeep, CallKeeps DEF SessionStep
  <2>3. ASSUME NEW k \in Worker, WorkerStep(k) \/ Abandon(k)
        PROVE  CoordinatorInvariant'
    BY <2>3, WorkerStepKeeps, ReconcileKeeps DEF WorkerStep
  <2>4. ASSUME NEW w \in Workflow, ProviderStep(w) \/ LeaseExpires(w) \/ AuthorityLapses(w)
        PROVE  CoordinatorInvariant'
    BY <2>4, ProviderKeeps, TimeKeeps
  <2>5. CASE UNCHANGED coordinatorVars
    BY <2>5, CoordinatorStutters
  <2> QED BY <2>1, <2>2, <2>3, <2>4, <2>5 DEF CoordinatorNext
<1> QED BY <1>1, CoordinatorInitInvariant, PTL DEF CoordinatorSpec

(* Sessions, the recovery index, workers and the provider stay well        *)
(* formed, however many of them there are.                                 *)
THEOREM CoordinatorTypeCorrect == CoordinatorSpec => []CoordinatorTypeOK
<1>1. CoordinatorInvariant => CoordinatorTypeOK
  BY Zenon DEF CoordinatorInvariant, CoordinatorTypes, SessionRecord, WorkerRecord, CoordinatorTypeOK
<1> QED BY <1>1, CoordinatorInvariance, PTL

(* A workflow whose request may have been delivered keeps its capacity,    *)
(* and a committed record stands for an effect, whatever sessions crash,   *)
(* leases expire and workers race.                                         *)
THEOREM EffectKeepsCapacityAlways == CoordinatorSpec => []EffectKeepsCapacity
<1>1. CoordinatorInvariant => EffectKeepsCapacity
  <2> SUFFICES ASSUME CoordinatorInvariant, NEW w \in Workflow
               PROVE  /\ w \in effects \cup inflight =>
                            db[w].state \in {"Executing", "OutcomeUnknown", "Committed", "ReconciledCommitted"}
                      /\ db[w].state \in {"Committed", "ReconciledCommitted"} => w \in effects
    BY DEF EffectKeepsCapacity
  <2>1. WorkflowSound(w) /\ db[w] \in LifecycleRecord /\ ExecutionStage(db[w])
    BY DEF CoordinatorInvariant, LifecycleInvariant, TypeOK, Executions, ExecutionInvariant
  <2>2. w \in effects \cup inflight => db[w].state \in {"Executing"} \cup Suspended
    BY Zenon, <2>1, EnteredStates DEF WorkflowSound
  <2> QED BY <2>1, <2>2 DEF WorkflowSound, Suspended, Terminal
<1> QED BY <1>1, CoordinatorInvariance, PTL

(* One workflow leads to at most one provider call, and none without a     *)
(* durable call entry, for every number of sessions and crashes.           *)
THEOREM AtMostOneCallAlways == CoordinatorSpec => []AtMostOneCall
<1>1. CoordinatorInvariant => AtMostOneCall
  BY SMTT(20) DEF CoordinatorInvariant, WorkflowSound, Executions, ExecutionInvariant, AtMostOneCall
<1> QED BY <1>1, CoordinatorInvariance, PTL

(* The compare-and-swap of a stage value that is still held never loses:   *)
(* nobody else can have moved the workflow.                                *)
THEOREM LiveStageIsCurrentAlways == CoordinatorSpec => []LiveStageIsCurrent
<1>1. CoordinatorInvariant => LiveStageIsCurrent
  BY Zenon DEF CoordinatorInvariant, CoordinatorTypes, SessionRecord, SessionSound, Sealed,
         LiveStageIsCurrent
<1> QED BY <1>1, CoordinatorInvariance, PTL

(* References and workflows identify each other, and a record carries the  *)
(* reference its workflow is bound to.                                     *)
THEOREM ReferencesIdentifyAlways == CoordinatorSpec => []ReferencesIdentify
<1>1. CoordinatorInvariant => ReferencesIdentify
  <2> SUFFICES ASSUME CoordinatorInvariant PROVE ReferencesIdentify
    OBVIOUS
  <2>1. BoundOnce
    BY DEF CoordinatorInvariant
  <2>2. ASSUME NEW w \in Present(db) PROVE db[w].input[1] = w /\ bound[db[w].input[2]] = w
    <3>1. w \in Workflow /\ db[w].state # "None"
      BY DEF Present
    <3>2. PICK r \in Reference : db[w].input = <<w, r>> /\ bound[r] = w
      BY <3>1 DEF CoordinatorInvariant, WorkflowSound, NamesBinding
    <3> QED BY <3>2
  <2> QED BY <2>1, <2>2 DEF BoundOnce, ReferencesIdentify
<1> QED BY <1>1, CoordinatorInvariance, PTL

(* What a worker has observed is true whenever reconcile can apply it: the *)
(* revision of the lease fences off whatever was read before the caller    *)
(* gave up, for every number of sessions, workers and expired leases.      *)
THEOREM ObservationStandsAlways == CoordinatorSpec => []ObservationStands
<1>1. CoordinatorInvariant => ObservationStands
  BY DEF CoordinatorInvariant, CoordinatorTypes, WorkerRecord, WorkerSound, ObservationStands
<1> QED BY <1>1, CoordinatorInvariance, PTL

(* A workflow whose caller is gone and whose outcome was not marked        *)
(* unknown is never begun again, called for or moved, by other callers of  *)
(* begin or by reconcile.                                                  *)
THEOREM OrphanStaysAlways == CoordinatorSpec => OrphanStays
<1> DEFINE Kept(w) == Orphaned(w)' /\ db'[w] = db[w] /\ calls'[w] = calls[w]
<1>1. CoordinatorInvariant /\ [CoordinatorNext]_coordinatorVars =>
        [\A w \in Workflow : Orphaned(w) => Kept(w)]_coordinatorVars
  <2> SUFFICES ASSUME CoordinatorInvariant, CoordinatorNext, NEW w \in Workflow, Orphaned(w)
               PROVE  Kept(w)
    BY Zenon
  <2>1. /\ CoordinatorTypes /\ TypeOK /\ w # NoWorkflow
        /\ \A s \in Session : session[s].stage # "Idle" => session[s].w \in Workflow
    BY CoordinatorAssumption
    DEF CoordinatorInvariant, LifecycleInvariant, SessionSound
  <2>2. PICK r \in Reference : bound[r] = w
    BY DEF Orphaned
  <2>3. ASSUME db'[w] = db[w], calls'[w] = calls[w], bound'[r] = w,
               \A s \in Session : session'[s] = session[s] \/ session'[s].w # w
                                 \/ session'[s].stage = "Closed"
        PROVE  Kept(w)
    BY <2>3 DEF Orphaned
  <2>4. ASSUME NEW v \in Workflow, v # w, NEW n, Step(v, n) PROVE db'[w] = db[w]
    BY <2>4, Transaction DEF CoordinatorInvariant
  <2>5. ASSUME NEW s \in Session, NEW v \in Workflow, NEW q \in Reference, Bind(s, v, q)
        PROVE  Kept(w)
    <3>1. /\ v # w /\ q # r /\ db' = db /\ calls' = calls
          /\ bound' = [bound EXCEPT ![q] = v]
          /\ session' = [session EXCEPT ![s] =
                [stage |-> "Bound", w |-> v, input |-> <<v, q>>, rev |-> 0]]
      BY <2>1, <2>2, <2>5 DEF Bind
    <3>2. bound'[r] = w /\ \A t \in Session : session'[t] = session[t] \/ session'[t].w # w
      BY <2>1, <2>2, <3>1 DEF CoordinatorTypes
    <3> QED BY <2>3, <3>1, <3>2
  <2>6. ASSUME NEW s \in Session, SessionStep(s) \/ Crash(s) PROVE Kept(w)
    <3>1. /\ session[s].stage \notin {"Idle", "Closed"} /\ bound' = bound
          /\ \E stage, n : session' = [session EXCEPT ![s].stage = stage, ![s].rev = n]
      BY <2>6 DEF SessionStep, Crash, Close, Advance, Transition, recoveryVars, BeginDecision,
                  DoReserve, DoRecordIntent, DoAuthorizeCredential, DoStartAttempt, EnterProvider,
                  CallProvider, Respond, MarkUnknown, DoCommit, DoRelease
    <3>2. session[s].w \in Workflow \ {w}
      BY <2>1, <3>1 DEF Orphaned
    <3>3. \A t \in Session : session'[t] = session[t] \/ session'[t].w # w
      BY <2>1, <3>1, <3>2 DEF CoordinatorTypes, SessionRecord
    <3>4. db' = db \/ \E n : Step(session[s].w, n)
      BY <2>6 DEF SessionStep, Crash, BeginDecision, DoReserve, DoRecordIntent,
                  DoAuthorizeCredential, DoStartAttempt, EnterProvider, Transition, CallProvider,
                  Respond, MarkUnknown, DoCommit, DoRelease, Step, EffectConclusion, RecordDecision
    <3>5. calls'[w] = calls[w]
      BY <2>1, <2>6, <3>2 DEF SessionStep, Crash, Transition, providerVars, BeginDecision,
                  DoReserve, DoRecordIntent, DoAuthorizeCredential, DoStartAttempt, EnterProvider,
                  CallProvider, Respond, MarkUnknown, DoCommit, DoRelease, CoordinatorTypes
    <3> QED BY Zenon, <2>2, <2>3, <2>4, <3>1, <3>2, <3>3, <3>4, <3>5
  <2>7. ASSUME NEW k \in Worker, WorkerStep(k) \/ Abandon(k) PROVE Kept(w)
    <3>1. session' = session /\ bound' = bound /\ calls' = calls
      BY <2>7 DEF WorkerStep, Claim, Observe, Reconcile, ReconcileRefused, Abandon, providerVars
    <3>2. \/ db' = db
          \/ worker[k].w \in Workflow /\ db[worker[k].w].state = "OutcomeUnknown"
               /\ \E n : Step(worker[k].w, n)
      <4>1. CASE ~Reconcile(k)
        BY <2>7, <4>1 DEF WorkerStep, Claim, Observe, ReconcileRefused, Abandon
      <4>2. CASE Reconcile(k)
        <5>1. worker[k].w \in Workflow
          BY <2>1, <4>2 DEF Reconcile, CoordinatorTypes, WorkerRecord
        <5>2. /\ db[worker[k].w].state = "OutcomeUnknown"
          BY Zenon, <2>1, <4>2, <5>1, ReconciledStates DEF Reconcile
        <5>3. \E n : Step(worker[k].w, n)
          BY Zenon, <4>2 DEF Reconcile, Step, EffectConclusion
        <5> QED BY <5>1, <5>2, <5>3
      <4> QED BY <4>1, <4>2
    <3>3. db'[w] = db[w]
      BY <2>4, <3>2 DEF Orphaned
    <3> QED BY <2>2, <2>3, <3>1, <3>3
  <2>8. ASSUME NEW v \in Workflow, ProviderStep(v) \/ LeaseExpires(v) \/ AuthorityLapses(v)
        PROVE  Kept(w)
    <3>1. db' = db /\ session' = session /\ bound' = bound /\ calls' = calls
      BY <2>8 DEF ProviderStep, ProviderApplies, ProviderDrops, LeaseExpires, AuthorityLapses,
                  Lapse, recoveryVars, providerVars
    <3> QED BY <2>2, <2>3, <3>1
  <2> QED BY Zenon, <2>5, <2>6, <2>7, <2>8 DEF CoordinatorNext
<1> QED BY <1>1, CoordinatorInvariance, PTL DEF CoordinatorSpec, OrphanStays

(* The coordinator uses the store as the store's specification says:       *)
(* every step of a session or a worker is one transaction at the stored    *)
(* revision, a lapse of authority, or invisible to the store.  So every    *)
(* theorem about Spec is one about the coordinator.                        *)
THEOREM CoordinatorImplementsLifecycle == CoordinatorSpec => Spec
<1>1. CoordinatorInit => Init
  BY DEF CoordinatorInit
<1>2. CoordinatorInvariant /\ [CoordinatorNext]_coordinatorVars => [Next]_lifecycleVars
  <2> SUFFICES ASSUME CoordinatorInvariant, [CoordinatorNext]_coordinatorVars
               PROVE  [Next]_lifecycleVars
    OBVIOUS
  <2>1. ASSUME NEW w \in Workflow, NEW n, Step(w, n) PROVE [Next]_lifecycleVars
    BY <2>1, StepAtRevision DEF Next
  <2>2. CASE db' = db /\ lapsed' = lapsed
    BY <2>2 DEF lifecycleVars
  <2>3. ASSUME NEW s \in Session, SessionStep(s) PROVE [Next]_lifecycleVars
    <3>1. session[s].stage # "Idle" => session[s].w \in Workflow
      BY Zenon DEF CoordinatorInvariant, SessionSound
    <3>2. \/ db' = db /\ lapsed' = lapsed
          \/ session[s].stage # "Idle" /\ \E n : Step(session[s].w, n)
      BY <2>3 DEF SessionStep, BeginDecision, DoReserve, DoRecordIntent, DoAuthorizeCredential,
                  DoStartAttempt, EnterProvider, Transition, CallProvider, Respond, MarkUnknown,
                  DoCommit, DoRelease, Step, EffectConclusion, RecordDecision
    <3> QED BY Zenon, <2>1, <2>2, <3>1, <3>2
  <2>4. ASSUME NEW k \in Worker, WorkerStep(k) PROVE [Next]_lifecycleVars
    <3>1. worker[k].w # NoWorkflow => worker[k].w \in Workflow
      BY DEF CoordinatorInvariant, CoordinatorTypes, WorkerRecord
    <3>2. \/ db' = db /\ lapsed' = lapsed
          \/ worker[k].w # NoWorkflow /\ \E n : Step(worker[k].w, n)
      BY <2>4 DEF WorkerStep, Claim, Observe, Reconcile, ReconcileRefused, Step, EffectConclusion
    <3> QED BY <2>1, <2>2, <3>1, <3>2
  <2>5. ASSUME NEW w \in Workflow, ProviderStep(w) \/ LeaseExpires(w) \/ AuthorityLapses(w)
        PROVE  [Next]_lifecycleVars
    BY <2>2, <2>5 DEF ProviderStep, ProviderApplies, ProviderDrops, LeaseExpires,
                      AuthorityLapses, Next
  <2>6. ASSUME NEW s \in Session, NEW w \in Workflow, NEW r \in Reference, Bind(s, w, r)
        PROVE  [Next]_lifecycleVars
    BY <2>2, <2>6 DEF Bind
  <2>7. ASSUME NEW s \in Session, Crash(s) PROVE [Next]_lifecycleVars
    BY <2>2, <2>7 DEF Crash
  <2>8. ASSUME NEW k \in Worker, Abandon(k) PROVE [Next]_lifecycleVars
    BY <2>2, <2>8 DEF Abandon
  <2>9. CASE UNCHANGED coordinatorVars
    BY <2>2, <2>9 DEF coordinatorVars
  <2> QED BY Zenon, <2>3, <2>4, <2>5, <2>6, <2>7, <2>8, <2>9 DEF CoordinatorNext
<1> QED BY <1>1, <1>2, CoordinatorInvariance, PTL DEF CoordinatorSpec, Spec
=============================================================================
