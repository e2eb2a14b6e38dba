--------------------------- MODULE LifecycleProofs ---------------------------
(***************************************************************************)
(* Proofs about the lifecycle for every set of workflows, intents, plans,  *)
(* capacity rules and limits.                                              *)
(***************************************************************************)
EXTENDS Lifecycle, FiniteSetTheorems, SequenceTheorems, TLAPS

-----------------------------------------------------------------------------
(* Type correctness *)

(* The event kind append_transition records is one of the ten kinds,       *)
(* whatever the two states (event_kind_for ends in a wildcard arm).        *)
LEMMA EventKindType ==
    ASSUME NEW from, NEW to
    PROVE  EventKindFor(from, to) \in LifecycleEventKind
BY DEF EventKindFor, LifecycleEventKind

(* append_transition turns a record into a record that is present. *)
LEMMA AppendTransitionType ==
    ASSUME NEW r \in LifecycleRecord, NEW to \in LifecycleState
    PROVE  /\ AppendTransition(r, to) \in LifecycleRecord
           /\ AppendTransition(r, to).state # "None"
<1>1. NewEvent(r, to) \in EventRecord
  BY EventKindType DEF NewEvent, EventRecord, LifecycleRecord
<1>2. Append(r.events, NewEvent(r, to)) \in Seq(EventRecord)
  BY <1>1 DEF LifecycleRecord
<1>3. r.revision + 1 \in Nat
  BY DEF LifecycleRecord
<1> QED BY Zenon, <1>2, <1>3 DEF AppendTransition, LifecycleRecord, LifecycleState

(* append_transition changes state, revision and events, nothing else. *)
LEMMA AppendTransitionFields ==
    ASSUME NEW r \in LifecycleRecord, NEW to
    PROVE  /\ AppendTransition(r, to).state = to
           /\ AppendTransition(r, to).revision = r.revision + 1
           /\ AppendTransition(r, to).events = Append(r.events, NewEvent(r, to))
           /\ AppendTransition(r, to).input = r.input
           /\ AppendTransition(r, to).reserved = r.reserved
           /\ AppendTransition(r, to).committed = r.committed
           /\ AppendTransition(r, to).released = r.released
           /\ AppendTransition(r, to).intent = r.intent
           /\ AppendTransition(r, to).credential = r.credential
           /\ AppendTransition(r, to).attempts = r.attempts
           /\ AppendTransition(r, to).observations = r.observations
BY DEF AppendTransition, LifecycleRecord

(* Persisting a well-formed, present record whose input names its workflow *)
(* keeps the store well formed.                                            *)
LEMMA PersistType ==
    ASSUME TypeOK, NEW w \in Workflow, NEW q \in LifecycleRecord, NEW to \in LifecycleState,
           q.input \in InputsOf[w], Persist(w, AppendTransition(q, to))
    PROVE  TypeOK'
<1> DEFINE n == AppendTransition(q, to)
<1>1. n \in LifecycleRecord /\ n.state # "None" /\ n.input \in InputsOf[w]
  BY AppendTransitionType, AppendTransitionFields
<1>2. db' = [db EXCEPT ![w] = n] /\ lapsed' = lapsed
  BY DEF Persist
<1> HIDE DEF n
<1> QED BY <1>1, <1>2 DEF TypeOK

(* Every transaction persists a well-formed record of its workflow. *)
LEMMA StepType ==
    ASSUME TypeOK, NEW w \in Workflow, NEW rev, Step(w, rev)
    PROVE  TypeOK'
<1> DEFINE r == db[w]
<1>0. r \in LifecycleRecord
  BY DEF TypeOK
<1>a. r.state # "None" => r.input \in InputsOf[w] /\ Plan[r.input] \in SUBSET Intent
  BY ConfigurationAssumption DEF TypeOK
<1>o. ASSUME NEW c \in EffectConclusion
      PROVE  Observed(r, c) \in LifecycleRecord /\ Observed(r, c).input = r.input
  <2>1. Append(r.observations, c) \in Seq(EffectConclusion)
    BY <1>0 DEF LifecycleRecord
  <2> QED BY Zenon, <1>0, <2>1 DEF LifecycleRecord, Observed
<1> USE DEF LifecycleState
<1>1. ASSUME NEW x \in InputsOf[w], RecordDecision(w, rev, x)
      PROVE  TypeOK'
  <2> DEFINE q == [NoRecord EXCEPT !.input = x]
  <2>1. q \in LifecycleRecord /\ q.input = x
    <3>1. /\ << >> \in Seq({"started", "entered"})
          /\ << >> \in Seq(EffectConclusion)
          /\ << >> \in Seq(EventRecord)
      OBVIOUS
    <3>2. x \in Input /\ 0 \in Nat
      BY ConfigurationAssumption
    <3> QED BY Zenon, <3>1, <3>2 DEF NoRecord, LifecycleRecord
  <2>2. Persist(w, AppendTransition(q, "DecisionRecorded"))
    BY <1>1 DEF RecordDecision
  <2> HIDE DEF q
  <2> QED BY <2>1, <2>2, PersistType
<1>2. CASE Reserve(w, rev)
  <2> DEFINE q == [r EXCEPT !.reserved = Plan[r.input]]
  <2>1. r.state # "None" /\ Persist(w, AppendTransition(q, "Reserved"))
    BY <1>2 DEF Reserve
  <2>2. q \in LifecycleRecord /\ q.input = r.input
    BY Zenon, <1>0, <1>a, <2>1 DEF LifecycleRecord
  <2> HIDE DEF q
  <2> QED BY <1>a, <2>1, <2>2, PersistType
<1>3. CASE RecordExecutionIntent(w, rev)
  <2> DEFINE q == [r EXCEPT !.intent = TRUE]
  <2>1. r.state # "None" /\ Persist(w, AppendTransition(q, "ExecutionIntentRecorded"))
    BY <1>3 DEF RecordExecutionIntent
  <2>2. q \in LifecycleRecord /\ q.input = r.input
    BY Zenon, <1>0 DEF LifecycleRecord
  <2> HIDE DEF q
  <2> QED BY <1>a, <2>1, <2>2, PersistType
<1>4. CASE AuthorizeCredential(w, rev)
  <2> DEFINE q == [r EXCEPT !.credential = TRUE]
  <2>1. r.state # "None" /\ Persist(w, AppendTransition(q, "ExecutionIntentRecorded"))
    BY <1>4 DEF AuthorizeCredential
  <2>2. q \in LifecycleRecord /\ q.input = r.input
    BY Zenon, <1>0 DEF LifecycleRecord
  <2> HIDE DEF q
  <2> QED BY <1>a, <2>1, <2>2, PersistType
<1>5. CASE StartAttempt(w, rev)
  <2> DEFINE q == [r EXCEPT !.attempts = Append(r.attempts, "started"), !.credential = FALSE]
  <2>1. r.state # "None" /\ Persist(w, AppendTransition(q, "Executing"))
    BY <1>5 DEF StartAttempt
  <2>2. Append(r.attempts, "started") \in Seq({"started", "entered"})
    BY <1>0 DEF LifecycleRecord
  <2>3. q \in LifecycleRecord /\ q.input = r.input
    BY Zenon, <1>0, <2>2 DEF LifecycleRecord
  <2> HIDE DEF q
  <2> QED BY <1>a, <2>1, <2>3, PersistType
<1>6. CASE MarkProviderCallEntered(w, rev)
  <2> DEFINE q == [r EXCEPT !.attempts[Len(r.attempts)] = "entered"]
  <2>1. r.state # "None" /\ Persist(w, AppendTransition(q, "Executing"))
    BY <1>6 DEF MarkProviderCallEntered
  <2>2. [r.attempts EXCEPT ![Len(r.attempts)] = "entered"] \in Seq({"started", "entered"})
    <3>1. r.attempts \in Seq({"started", "entered"}) /\ r.attempts # << >>
      BY <1>0, <1>6 DEF LifecycleRecord, MarkProviderCallEntered
    <3> QED BY <3>1, ExceptSeq, EmptySeq, LenProperties
  <2>3. q = [r EXCEPT !.attempts = [r.attempts EXCEPT ![Len(r.attempts)] = "entered"]]
    BY <1>0 DEF LifecycleRecord
  <2>4. q \in LifecycleRecord /\ q.input = r.input
    BY Zenon, <1>0, <2>2, <2>3 DEF LifecycleRecord
  <2> HIDE DEF q
  <2> QED BY <1>a, <2>1, <2>4, PersistType
<1>7. CASE Commit(w, rev)
  <2> DEFINE q == [r EXCEPT !.committed = r.reserved]
  <2>1. r.state # "None" /\ Persist(w, AppendTransition(q, "Committed"))
    BY <1>7 DEF Commit
  <2>2. q \in LifecycleRecord /\ q.input = r.input
    BY Zenon, <1>0 DEF LifecycleRecord
  <2> HIDE DEF q
  <2> QED BY <1>a, <2>1, <2>2, PersistType
<1>8. ASSUME NEW c, Release(w, rev, c)
      PROVE  TypeOK'
  <2> DEFINE q == [r EXCEPT !.released = r.reserved]
  <2>1. r.state # "None" /\ Persist(w, AppendTransition(q, "Released"))
    BY <1>8 DEF Release, TransactExisting
  <2>2. q \in LifecycleRecord /\ q.input = r.input
    BY Zenon, <1>0 DEF LifecycleRecord
  <2> HIDE DEF q
  <2> QED BY <1>a, <2>1, <2>2, PersistType
<1>9. CASE MarkOutcomeUnknown(w, rev)
  BY <1>0, <1>a, <1>9, PersistType DEF MarkOutcomeUnknown
<1>10. CASE ReconcileEffect(w, rev)
  <2> DEFINE q == [Observed(r, "Effect") EXCEPT !.committed = r.reserved]
  <2>1. r.state # "None" /\ Persist(w, AppendTransition(q, "ReconciledCommitted"))
    BY <1>10 DEF ReconcileEffect, Reconcilable
  <2>2. q \in LifecycleRecord /\ q.input = r.input
    BY Zenon, <1>0, <1>o DEF LifecycleRecord, EffectConclusion
  <2> HIDE DEF q
  <2> QED BY <1>a, <2>1, <2>2, PersistType
<1>11. CASE ReconcileNonEffect(w, rev)
  <2> DEFINE q == [Observed(r, "NonEffect") EXCEPT !.released = r.reserved]
  <2>1. r.state # "None" /\ Persist(w, AppendTransition(q, "ReconciledReleased"))
    BY <1>11 DEF ReconcileNonEffect, Reconcilable
  <2>2. q \in LifecycleRecord /\ q.input = r.input
    BY Zenon, <1>0, <1>o DEF LifecycleRecord, EffectConclusion
  <2> HIDE DEF q
  <2> QED BY <1>a, <2>1, <2>2, PersistType
<1>12. ASSUME NEW c \in EffectConclusion, ReconcileInconclusive(w, rev, c)
       PROVE  TypeOK'
  <2> DEFINE q == Observed(r, c)
  <2>1. r.state = "OutcomeUnknown" /\ Persist(w, AppendTransition(q, "OutcomeUnknown"))
    BY <1>12 DEF ReconcileInconclusive, Reconcilable
  <2>2. q \in LifecycleRecord /\ q.input = r.input
    BY <1>0, <1>o
  <2> HIDE DEF q
  <2> QED BY <1>a, <2>1, <2>2, PersistType
<1> QED
  BY <1>1, <1>2, <1>3, <1>4, <1>5, <1>6, <1>7, <1>8, <1>9, <1>10, <1>11, <1>12 DEF Step

(* Every reachable store is well formed: Spec keeps TypeOK. *)
THEOREM TypeCorrect == Spec => []TypeOK
<1>1. Init => TypeOK
  BY ConfigurationAssumption
  DEF Init, TypeOK, NoRecord, LifecycleRecord, LifecycleState
<1>2. TypeOK /\ [Next]_lifecycleVars => TypeOK'
  <2> SUFFICES ASSUME TypeOK, [Next]_lifecycleVars
               PROVE  TypeOK'
    OBVIOUS
  <2>1. ASSUME NEW w \in Workflow, Step(w, db[w].revision)
        PROVE  TypeOK'
    BY <2>1, StepType
  <2>2. ASSUME NEW w \in Workflow, Lapse(w)
        PROVE  TypeOK'
    BY <2>2 DEF Lapse, TypeOK
  <2>3. CASE UNCHANGED lifecycleVars
    BY <2>3 DEF lifecycleVars, TypeOK
  <2> QED BY <2>1, <2>2, <2>3 DEF Next
<1> QED BY <1>1, <1>2, PTL DEF Spec

-----------------------------------------------------------------------------
(* What each transaction does to the record of its workflow, field by      *)
(* field: r is the record before, n the record after.                      *)

SameEntries(r, n) ==
    /\ n.input = r.input
    /\ n.reserved = r.reserved
    /\ n.committed = r.committed
    /\ n.released = r.released

Decides(w, r, n) ==
    /\ r.state = "None" /\ n.state = "DecisionRecorded"
    /\ n.input \in InputsOf[w]
    /\ n.reserved = {} /\ n.committed = {} /\ n.released = {}
    /\ ~n.intent /\ ~n.credential
    /\ n.attempts = << >> /\ n.observations = << >>

Acquires(r, n) ==
    /\ r.state = "DecisionRecorded" /\ n.state = "Reserved"
    /\ n.input = r.input /\ n.reserved = Plan[r.input]
    /\ n.committed = r.committed /\ n.released = r.released
    /\ n.intent = r.intent /\ n.credential = r.credential
    /\ n.attempts = r.attempts /\ n.observations = r.observations

Keeps(r, n) ==
    /\ SameEntries(r, n)
    /\ \/ /\ r.state = "Reserved" /\ n.state = "ExecutionIntentRecorded"
          /\ n.intent /\ n.credential = r.credential
          /\ n.attempts = r.attempts /\ n.observations = r.observations
       \/ /\ r.state = "ExecutionIntentRecorded" /\ n.state = "ExecutionIntentRecorded"
          /\ ~r.credential /\ n.credential /\ n.intent = r.intent
          /\ n.attempts = r.attempts /\ n.observations = r.observations
       \/ /\ r.state = "ExecutionIntentRecorded" /\ n.state = "Executing"
          /\ r.credential /\ ~n.credential /\ n.intent = r.intent
          /\ n.attempts = Append(r.attempts, "started") /\ n.observations = r.observations
       \/ /\ r.state = "Executing" /\ n.state = "Executing"
          /\ n.credential = r.credential /\ n.intent = r.intent
          /\ r.attempts # << >> /\ ~CallEntered(r)
          /\ n.attempts = [r.attempts EXCEPT ![Len(r.attempts)] = "entered"]
          /\ n.observations = r.observations
       \/ /\ r.state = "Executing" /\ n.state = "OutcomeUnknown"
          /\ n.credential = r.credential /\ n.intent = r.intent
          /\ n.attempts = r.attempts /\ n.observations = r.observations
       \/ /\ r.state = "OutcomeUnknown" /\ n.state = "OutcomeUnknown"
          /\ n.credential = r.credential /\ n.intent = r.intent
          /\ n.attempts = r.attempts
          /\ \E c \in {"Unknown", "Inconclusive"} : n.observations = Append(r.observations, c)

Spends(r, n) ==
    /\ n.input = r.input /\ n.reserved = r.reserved
    /\ n.committed = r.reserved /\ n.released = r.released
    /\ n.credential = r.credential /\ n.intent = r.intent /\ n.attempts = r.attempts
    /\ \/ /\ r.state = "Executing" /\ n.state = "Committed"
          /\ n.observations = r.observations
       \/ /\ r.state = "OutcomeUnknown" /\ n.state = "ReconciledCommitted"
          /\ n.observations = Append(r.observations, "Effect")

Returns(r, n) ==
    /\ n.input = r.input /\ n.reserved = r.reserved
    /\ n.committed = r.committed /\ n.released = r.reserved
    /\ n.credential = r.credential /\ n.intent = r.intent /\ n.attempts = r.attempts
    /\ \/ /\ r.state \in {"Reserved", "ExecutionIntentRecorded", "Executing"}
          /\ n.state = "Released"
          /\ n.observations = r.observations
       \/ /\ r.state = "OutcomeUnknown" /\ n.state = "ReconciledReleased"
          /\ n.observations = Append(r.observations, "NonEffect")

Appends(r, n) ==
    /\ n.revision = r.revision + 1
    /\ n.events = Append(r.events, NewEvent(r, n.state))

Moves(w, r, n) ==
    /\ Appends(r, n)
    /\ Decides(w, r, n) \/ Acquires(r, n) \/ Keeps(r, n) \/ Spends(r, n) \/ Returns(r, n)

(* The record that stands for an absent one. *)
LEMMA NoRecordFields ==
    NoRecord.state = "None" /\ NoRecord.revision = 0 /\ NoRecord.events = << >>
BY DEF NoRecord

(* Only a decision creates a record; every other move starts from one. *)
LEMMA MovesFromRecord ==
    ASSUME NEW w, NEW r, NEW n, Moves(w, r, n), ~Decides(w, r, n)
    PROVE  r.state # "None"
<1>1. Acquires(r, n) => r.state # "None"
  BY DEF Acquires
<1>2. Keeps(r, n) => r.state # "None"
  BY DEF Keeps
<1>3. Spends(r, n) => r.state # "None"
  BY DEF Spends
<1>4. Returns(r, n) => r.state # "None"
  BY DEF Returns
<1> QED BY <1>1, <1>2, <1>3, <1>4 DEF Moves

(* No move leads to the absent record. *)
LEMMA MovesToRecord ==
    ASSUME NEW w, NEW r, NEW n, Moves(w, r, n)
    PROVE  n.state # "None"
<1>1. Decides(w, r, n) => n.state # "None"
  BY DEF Decides
<1>2. Acquires(r, n) => n.state # "None"
  BY DEF Acquires
<1>3. Keeps(r, n) => n.state # "None"
  BY DEF Keeps
<1>4. Spends(r, n) => n.state # "None"
  BY DEF Spends
<1>5. Returns(r, n) => n.state # "None"
  BY DEF Returns
<1> QED BY <1>1, <1>2, <1>3, <1>4, <1>5 DEF Moves

(* The record of workflow w becomes q, moved to state "to". *)
Writes(w, q, to) ==
    /\ Appends(db[w], db'[w])
    /\ db'[w].state = to
    /\ db'[w].input = q.input /\ db'[w].reserved = q.reserved
    /\ db'[w].committed = q.committed /\ db'[w].released = q.released
    /\ db'[w].intent = q.intent /\ db'[w].credential = q.credential
    /\ db'[w].attempts = q.attempts /\ db'[w].observations = q.observations
    /\ db' = [db EXCEPT ![w] = db'[w]]
    /\ lapsed' = lapsed

(* The record of a transaction is the payload with the transition appended,*)
(* and no other record changes.                                            *)
LEMMA PersistFields ==
    ASSUME TypeOK, NEW w \in Workflow, NEW q \in LifecycleRecord, NEW to,
           q.state = db[w].state, q.revision = db[w].revision, q.events = db[w].events,
           Persist(w, AppendTransition(q, to))
    PROVE  Writes(w, q, to)
<1> DEFINE n == AppendTransition(q, to)
<1>1. db' = [db EXCEPT ![w] = n] /\ lapsed' = lapsed
  BY DEF Persist
<1> HIDE DEF n
<1>2. db'[w] = n /\ db' = [db EXCEPT ![w] = db'[w]]
  BY <1>1 DEF TypeOK
<1>3. NewEvent(q, to) = NewEvent(db[w], to)
  BY DEF NewEvent
<1>4. db'[w] = AppendTransition(q, to)
  BY <1>2 DEF n
<1> QED BY <1>1, <1>2, <1>3, <1>4, AppendTransitionFields DEF Appends, Writes

(* Every transaction is one of the moves, of its own record only. *)
LEMMA StepMoves ==
    ASSUME TypeOK, NEW w \in Workflow, NEW rev, Step(w, rev)
    PROVE  /\ Moves(w, db[w], db'[w])
           /\ db' = [db EXCEPT ![w] = db'[w]]
           /\ lapsed' = lapsed
<1> DEFINE r == db[w]
           n == db'[w]
           Goal == Moves(w, r, n) /\ db' = [db EXCEPT ![w] = n] /\ lapsed' = lapsed
           SameHead(q) == q.state = r.state /\ q.revision = r.revision /\ q.events = r.events
<1>0. r \in LifecycleRecord
  BY DEF TypeOK
<1>a. r.state # "None" => r.input \in InputsOf[w] /\ Plan[r.input] \in SUBSET Intent
  BY ConfigurationAssumption DEF TypeOK
<1>1. ASSUME NEW x \in InputsOf[w], RecordDecision(w, rev, x)
      PROVE  Goal
  <2> DEFINE q == [NoRecord EXCEPT !.input = x]
  <2>1. r.state = "None" /\ Persist(w, AppendTransition(q, "DecisionRecorded"))
    BY <1>1 DEF RecordDecision
  <2>2. r = NoRecord
    BY <2>1 DEF TypeOK
  <2>3. q \in LifecycleRecord
    <3>1. x \in Input
      BY ConfigurationAssumption
    <3> QED BY Zenon, <1>0, <2>2, <3>1 DEF LifecycleRecord
  <2>4. /\ SameHead(q) /\ q.input = x
        /\ q.reserved = {} /\ q.committed = {} /\ q.released = {}
        /\ ~q.intent /\ ~q.credential /\ q.attempts = << >> /\ q.observations = << >>
    BY <2>2 DEF NoRecord
  <2> HIDE DEF q
  <2>8. Writes(w, q, "DecisionRecorded")
    BY <2>1, <2>3, <2>4, PersistFields
  <2>9. Decides(w, r, n)
    BY <2>1, <2>3, <2>4, <2>8 DEF Writes, Decides
  <2> QED BY <2>8, <2>9 DEF Writes, Moves
<1>2. CASE Reserve(w, rev)
  <2> DEFINE q == [r EXCEPT !.reserved = Plan[r.input]]
  <2>1. r.state = "DecisionRecorded" /\ Persist(w, AppendTransition(q, "Reserved"))
    BY <1>2 DEF Reserve
  <2>2. q \in LifecycleRecord /\ SameHead(q)
    BY Zenon, <1>0, <1>a, <2>1 DEF LifecycleRecord
  <2>3. /\ q.input = r.input /\ q.reserved = Plan[r.input] /\ q.committed = r.committed
        /\ q.released = r.released /\ q.credential = r.credential /\ q.intent = r.intent /\ q.attempts = r.attempts /\ q.observations = r.observations
    BY <1>0 DEF LifecycleRecord
  <2> HIDE DEF q
  <2>8. Writes(w, q, "Reserved")
    BY <2>1, <2>2, <2>3, PersistFields
  <2>9. Acquires(r, n)
    BY <2>1, <2>2, <2>3, <2>8 DEF Writes, Acquires
  <2> QED BY <2>8, <2>9 DEF Writes, Moves
<1>3. CASE RecordExecutionIntent(w, rev)
  <2> DEFINE q == [r EXCEPT !.intent = TRUE]
  <2>1. r.state = "Reserved" /\ Persist(w, AppendTransition(q, "ExecutionIntentRecorded"))
    BY <1>3 DEF RecordExecutionIntent
  <2>2. q \in LifecycleRecord /\ SameHead(q)
    BY Zenon, <1>0, <1>a, <2>1 DEF LifecycleRecord
  <2>3. /\ q.input = r.input /\ q.reserved = r.reserved /\ q.committed = r.committed /\ q.released = r.released
        /\ q.intent /\ q.credential = r.credential /\ q.attempts = r.attempts /\ q.observations = r.observations
    BY <1>0 DEF LifecycleRecord
  <2> HIDE DEF q
  <2>8. Writes(w, q, "ExecutionIntentRecorded")
    BY <2>1, <2>2, <2>3, PersistFields
  <2>9. Keeps(r, n)
    BY <2>1, <2>2, <2>3, <2>8 DEF Writes, Keeps, SameEntries
  <2> QED BY <2>8, <2>9 DEF Writes, Moves
<1>4. CASE AuthorizeCredential(w, rev)
  <2> DEFINE q == [r EXCEPT !.credential = TRUE]
  <2>1. r.state = "ExecutionIntentRecorded" /\ ~r.credential /\ Persist(w, AppendTransition(q, "ExecutionIntentRecorded"))
    BY <1>4 DEF AuthorizeCredential
  <2>2. q \in LifecycleRecord /\ SameHead(q)
    BY Zenon, <1>0, <1>a, <2>1 DEF LifecycleRecord
  <2>3. /\ q.input = r.input /\ q.reserved = r.reserved /\ q.committed = r.committed /\ q.released = r.released
        /\ q.credential /\ q.intent = r.intent /\ q.attempts = r.attempts /\ q.observations = r.observations
    BY <1>0 DEF LifecycleRecord
  <2> HIDE DEF q
  <2>8. Writes(w, q, "ExecutionIntentRecorded")
    BY <2>1, <2>2, <2>3, PersistFields
  <2>9. Keeps(r, n)
    BY <2>1, <2>2, <2>3, <2>8 DEF Writes, Keeps, SameEntries
  <2> QED BY <2>8, <2>9 DEF Writes, Moves
<1>5. CASE StartAttempt(w, rev)
  <2> DEFINE q == [r EXCEPT !.attempts = Append(r.attempts, "started"), !.credential = FALSE]
  <2>1. r.state = "ExecutionIntentRecorded" /\ r.credential /\ Persist(w, AppendTransition(q, "Executing"))
    BY <1>5 DEF StartAttempt
  <2>5. Append(r.attempts, "started") \in Seq({"started", "entered"})
    BY <1>0 DEF LifecycleRecord
  <2>2. q \in LifecycleRecord /\ SameHead(q)
    BY Zenon, <1>0, <2>5 DEF LifecycleRecord
  <2>3. /\ q.input = r.input /\ q.reserved = r.reserved /\ q.committed = r.committed /\ q.released = r.released
        /\ q.attempts = Append(r.attempts, "started") /\ ~q.credential
        /\ q.intent = r.intent /\ q.observations = r.observations
    BY <1>0 DEF LifecycleRecord
  <2> HIDE DEF q
  <2>8. Writes(w, q, "Executing")
    BY <2>1, <2>2, <2>3, PersistFields
  <2>9. Keeps(r, n)
    BY <2>1, <2>2, <2>3, <2>8 DEF Writes, Keeps, SameEntries
  <2> QED BY <2>8, <2>9 DEF Writes, Moves
<1>6. CASE MarkProviderCallEntered(w, rev)
  <2> DEFINE q == [r EXCEPT !.attempts = [r.attempts EXCEPT ![Len(r.attempts)] = "entered"]]
  <2>1. /\ r.state = "Executing" /\ r.attempts # << >> /\ ~CallEntered(r)
        /\ Persist(w, AppendTransition(q, "Executing"))
    BY <1>6 DEF MarkProviderCallEntered
  <2>5. [r.attempts EXCEPT ![Len(r.attempts)] = "entered"] \in Seq({"started", "entered"})
    <3>1. r.attempts \in Seq({"started", "entered"})
      BY <1>0 DEF LifecycleRecord
    <3> QED BY <2>1, <3>1, ExceptSeq, EmptySeq, LenProperties
  <2>2. q \in LifecycleRecord /\ SameHead(q)
    BY Zenon, <1>0, <2>5 DEF LifecycleRecord
  <2>3. /\ q.input = r.input /\ q.reserved = r.reserved /\ q.committed = r.committed /\ q.released = r.released
        /\ q.attempts = [r.attempts EXCEPT ![Len(r.attempts)] = "entered"]
        /\ q.credential = r.credential /\ q.intent = r.intent /\ q.observations = r.observations
    BY <1>0 DEF LifecycleRecord
  <2> HIDE DEF q
  <2>8. Writes(w, q, "Executing")
    BY <2>1, <2>2, <2>3, PersistFields
  <2>9. Keeps(r, n)
    BY <2>1, <2>2, <2>3, <2>8 DEF Writes, Keeps, SameEntries
  <2> QED BY <2>8, <2>9 DEF Writes, Moves
<1>7. CASE Commit(w, rev)
  <2> DEFINE q == [r EXCEPT !.committed = r.reserved]
  <2>1. r.state = "Executing" /\ Persist(w, AppendTransition(q, "Committed"))
    BY <1>7 DEF Commit
  <2>2. q \in LifecycleRecord /\ SameHead(q)
    BY Zenon, <1>0, <1>a, <2>1 DEF LifecycleRecord
  <2>3. /\ q.input = r.input /\ q.reserved = r.reserved /\ q.committed = r.reserved
        /\ q.released = r.released /\ q.credential = r.credential /\ q.intent = r.intent /\ q.attempts = r.attempts /\ q.observations = r.observations
    BY <1>0 DEF LifecycleRecord
  <2> HIDE DEF q
  <2>8. Writes(w, q, "Committed")
    BY <2>1, <2>2, <2>3, PersistFields
  <2>9. Spends(r, n)
    BY <2>1, <2>2, <2>3, <2>8 DEF Writes, Spends
  <2> QED BY <2>8, <2>9 DEF Writes, Moves
<1>8. ASSUME NEW c \in EffectConclusion, Release(w, rev, c)
      PROVE  Goal
  <2> DEFINE q == [r EXCEPT !.released = r.reserved]
  <2>1. r.state \in {"Reserved", "ExecutionIntentRecorded", "Executing"} /\ Persist(w, AppendTransition(q, "Released"))
    BY <1>8 DEF Release, ReleaseAllowed
  <2>2. q \in LifecycleRecord /\ SameHead(q)
    BY Zenon, <1>0, <1>a, <2>1 DEF LifecycleRecord
  <2>3. /\ q.input = r.input /\ q.reserved = r.reserved /\ q.committed = r.committed
        /\ q.released = r.reserved /\ q.credential = r.credential /\ q.intent = r.intent /\ q.attempts = r.attempts /\ q.observations = r.observations
    BY <1>0 DEF LifecycleRecord
  <2> HIDE DEF q
  <2>8. Writes(w, q, "Released")
    BY <2>1, <2>2, <2>3, PersistFields
  <2>9. Returns(r, n)
    BY <2>1, <2>2, <2>3, <2>8 DEF Writes, Returns
  <2> QED BY <2>8, <2>9 DEF Writes, Moves
<1>9. CASE MarkOutcomeUnknown(w, rev)
  <2>1. r.state = "Executing" /\ Persist(w, AppendTransition(r, "OutcomeUnknown"))
    BY <1>9 DEF MarkOutcomeUnknown
  <2>8. Writes(w, r, "OutcomeUnknown")
    BY <1>0, <2>1, PersistFields
  <2>9. Keeps(r, n)
    BY <1>0, <2>1, <2>8 DEF Writes, Keeps, SameEntries
  <2> QED BY <2>8, <2>9 DEF Writes, Moves
<1>o. ASSUME NEW c \in EffectConclusion
      PROVE  /\ Observed(r, c) \in LifecycleRecord /\ SameHead(Observed(r, c))
             /\ Observed(r, c).input = r.input /\ Observed(r, c).reserved = r.reserved
             /\ Observed(r, c).committed = r.committed /\ Observed(r, c).released = r.released
             /\ Observed(r, c).credential = r.credential /\ Observed(r, c).intent = r.intent
             /\ Observed(r, c).attempts = r.attempts
             /\ Observed(r, c).observations = Append(r.observations, c)
  <2>1. Append(r.observations, c) \in Seq(EffectConclusion)
    BY <1>0 DEF LifecycleRecord
  <2> QED BY Zenon, <1>0, <2>1 DEF LifecycleRecord, Observed
<1>10. CASE ReconcileEffect(w, rev)
  <2> DEFINE o == Observed(r, "Effect")
             q == [o EXCEPT !.committed = r.reserved]
  <2>1. r.state = "OutcomeUnknown" /\ Persist(w, AppendTransition(q, "ReconciledCommitted"))
    BY <1>10 DEF ReconcileEffect, Reconcilable
  <2>2. /\ o \in LifecycleRecord /\ SameHead(o)
        /\ o.input = r.input /\ o.reserved = r.reserved
        /\ o.committed = r.committed /\ o.released = r.released
        /\ o.credential = r.credential /\ o.intent = r.intent /\ o.attempts = r.attempts
        /\ o.observations = Append(r.observations, "Effect")
    BY <1>o DEF EffectConclusion
  <2> HIDE DEF o
  <2>3. q \in LifecycleRecord /\ SameHead(q)
    BY Zenon, <1>0, <2>2 DEF LifecycleRecord
  <2>4. /\ q.input = r.input /\ q.reserved = r.reserved
        /\ q.committed = r.reserved /\ q.released = r.released
        /\ q.credential = r.credential /\ q.intent = r.intent /\ q.attempts = r.attempts
        /\ q.observations = Append(r.observations, "Effect")
    BY <2>2 DEF LifecycleRecord
  <2> HIDE DEF q
  <2>8. Writes(w, q, "ReconciledCommitted")
    BY <2>1, <2>3, <2>4, PersistFields
  <2>9. Spends(r, n)
    BY <2>1, <2>3, <2>4, <2>8 DEF Writes, Spends
  <2> QED BY <2>8, <2>9 DEF Writes, Moves
<1>11. CASE ReconcileNonEffect(w, rev)
  <2> DEFINE o == Observed(r, "NonEffect")
             q == [o EXCEPT !.released = r.reserved]
  <2>1. r.state = "OutcomeUnknown" /\ Persist(w, AppendTransition(q, "ReconciledReleased"))
    BY Zenon, <1>11 DEF ReconcileNonEffect, Reconcilable
  <2>2. /\ o \in LifecycleRecord /\ SameHead(o)
        /\ o.input = r.input /\ o.reserved = r.reserved
        /\ o.committed = r.committed /\ o.released = r.released
        /\ o.credential = r.credential /\ o.intent = r.intent /\ o.attempts = r.attempts
        /\ o.observations = Append(r.observations, "NonEffect")
    BY <1>o DEF EffectConclusion
  <2> HIDE DEF o
  <2>3. q \in LifecycleRecord /\ SameHead(q)
    BY Zenon, <1>0, <2>2 DEF LifecycleRecord
  <2>4. /\ q.input = r.input /\ q.reserved = r.reserved
        /\ q.committed = r.committed /\ q.released = r.reserved
        /\ q.credential = r.credential /\ q.intent = r.intent /\ q.attempts = r.attempts
        /\ q.observations = Append(r.observations, "NonEffect")
    BY <2>2 DEF LifecycleRecord
  <2> HIDE DEF q
  <2>8. Writes(w, q, "ReconciledReleased")
    BY <2>1, <2>3, <2>4, PersistFields
  <2>9. Returns(r, n)
    BY <2>1, <2>3, <2>4, <2>8 DEF Writes, Returns
  <2> QED BY <2>8, <2>9 DEF Writes, Moves
<1>12. ASSUME NEW c \in EffectConclusion, ReconcileInconclusive(w, rev, c)
       PROVE  Goal
  <2> DEFINE q == Observed(r, c)
  <2>1. /\ r.state = "OutcomeUnknown" /\ c \in {"Unknown", "Inconclusive"}
        /\ Persist(w, AppendTransition(q, "OutcomeUnknown"))
    BY <1>12 DEF ReconcileInconclusive, Reconcilable
  <2>2. /\ q \in LifecycleRecord /\ SameHead(q)
        /\ q.input = r.input /\ q.reserved = r.reserved
        /\ q.committed = r.committed /\ q.released = r.released
        /\ q.credential = r.credential /\ q.intent = r.intent /\ q.attempts = r.attempts
        /\ q.observations = Append(r.observations, c)
    BY <1>o
  <2> HIDE DEF q
  <2>8. Writes(w, q, "OutcomeUnknown")
    BY Zenon, <2>1, <2>2, PersistFields
  <2>9. Keeps(r, n)
    BY <2>1, <2>2, <2>8 DEF Writes, Keeps, SameEntries
  <2> QED BY <2>8, <2>9 DEF Writes, Moves
<1> QED
  BY <1>1, <1>2, <1>3, <1>4, <1>5, <1>6, <1>7, <1>8, <1>9, <1>10, <1>11, <1>12 DEF Step

-----------------------------------------------------------------------------
(* Records pass the integrity check *)

(* The event kinds of the transitions the kernel allows. *)
LEMMA EventKinds ==
    /\ EventKindFor("None", "DecisionRecorded") = "DecisionPersisted"
    /\ EventKindFor("DecisionRecorded", "Reserved") = "ReservationPersisted"
    /\ EventKindFor("Reserved", "ExecutionIntentRecorded") = "ExecutionIntentPersisted"
    /\ EventKindFor("ExecutionIntentRecorded", "ExecutionIntentRecorded") = "CredentialAuthorized"
    /\ EventKindFor("ExecutionIntentRecorded", "Executing") = "AttemptPersisted"
    /\ EventKindFor("Executing", "Executing") = "ProviderCallEntered"
    /\ EventKindFor("Executing", "OutcomeUnknown") = "OutcomeUnknownPersisted"
    /\ EventKindFor("OutcomeUnknown", "OutcomeUnknown") = "OutcomeUnknownPersisted"
    /\ EventKindFor("Executing", "Committed") = "ProviderResultPersisted"
    /\ \A s \in {"Reserved", "ExecutionIntentRecorded", "Executing"} :
          EventKindFor(s, "Released") = "ProviderResultPersisted"
    /\ EventKindFor("OutcomeUnknown", "ReconciledCommitted") = "ReconciliationPersisted"
    /\ EventKindFor("OutcomeUnknown", "ReconciledReleased") = "ReconciliationPersisted"
BY Zenon DEF EventKindFor

(* An inductive form of validate_record_integrity: it also says that a     *)
(* fresh decision has no entries marked, and it asks for valid events only *)
(* as long as no observation was inconclusive.                             *)
RecordInvariant(r) ==
    /\ r.revision > 0
    /\ Len(r.events) = r.revision
    /\ r.events[r.revision].to = r.state
    /\ RecordShapeIsValid(r)
    /\ r.state = "DecisionRecorded" => ReservationsAreLive(r)
    /\ \A m \in 1 .. Len(r.events) :
          r.events[m].from = IF m = 1 THEN "None" ELSE r.events[m - 1].to
    /\ Conclusive(r) => \A m \in 1 .. Len(r.events) : ValidTraceEvent(r.events[m])

(* A move keeps the shape of the record. *)
LEMMA MovesKeepShape ==
    ASSUME NEW w \in Workflow, NEW r \in LifecycleRecord, NEW n \in LifecycleRecord,
           r = NoRecord \/ RecordInvariant(r), Moves(w, r, n)
    PROVE  /\ RecordShapeIsValid(n)
           /\ n.state = "DecisionRecorded" => ReservationsAreLive(n)
<1> USE DEF RecordShapeIsValid, ReservationsAreLive
<1>1. CASE Decides(w, r, n)
  BY Zenon, <1>1 DEF Decides
<1>2. CASE ~Decides(w, r, n)
  <2>1. r.state # "None" /\ RecordInvariant(r)
    BY <1>2, MovesFromRecord, NoRecordFields
  <2>2. CASE Acquires(r, n)
    BY Zenon, <2>1, <2>2 DEF Acquires, RecordInvariant
  <2>3. CASE Keeps(r, n)
    <3>1. r.state = "ExecutionIntentRecorded" /\ n.state = "Executing" => n.attempts # << >>
      <4>1. r.state = "ExecutionIntentRecorded" /\ n.state = "Executing" =>
               n.attempts = Append(r.attempts, "started")
        BY <2>3 DEF Keeps
      <4>2. r.attempts \in Seq({"started", "entered"})
        BY DEF LifecycleRecord
      <4>3. Append(r.attempts, "started") # << >>
        <5>1. "started" \in {"started", "entered"}
          OBVIOUS
        <5> QED BY ONLY <4>2, <5>1, AppendProperties
      <4> QED BY <4>1, <4>3
    <3>2. r.state = "Executing" /\ n.state = "Executing" => n.attempts # << >>
      <4> SUFFICES ASSUME r.state = "Executing", n.state = "Executing"
                   PROVE  n.attempts # << >>
        OBVIOUS
      <4>1. /\ n.attempts = [r.attempts EXCEPT ![Len(r.attempts)] = "entered"]
            /\ r.attempts # << >> /\ r.attempts \in Seq({"started", "entered"})
        BY <2>3 DEF Keeps, LifecycleRecord
      <4> QED BY <4>1, ExceptSeq, EmptySeq, LenProperties
    <3> QED BY <2>1, <2>3, <3>1, <3>2 DEF Keeps, SameEntries, RecordInvariant
  <2>4. CASE Spends(r, n)
    BY Zenon, <2>1, <2>4 DEF Spends, RecordInvariant
  <2>5. CASE Returns(r, n)
    BY <2>1, <2>5 DEF Returns, RecordInvariant
  <2> QED BY <1>2, <2>2, <2>3, <2>4, <2>5 DEF Moves
<1> QED BY <1>1, <1>2

(* A record that stays conclusive was conclusive, and the move appended an *)
(* event that valid_trace_event accepts.                                   *)
LEMMA MovesAppendValid ==
    ASSUME NEW w \in Workflow, NEW r \in LifecycleRecord, NEW n \in LifecycleRecord,
           r.state = "None" => r = NoRecord, Moves(w, r, n), Conclusive(n)
    PROVE  /\ Conclusive(r)
           /\ ValidTraceEvent(NewEvent(r, n.state))
<1>1. /\ r.observations \in Seq(EffectConclusion) /\ Len(r.observations) \in Nat
      /\ n.observations \in Seq(EffectConclusion)
  BY LenProperties DEF LifecycleRecord
<1>2. ASSUME NEW c \in EffectConclusion, n.observations = Append(r.observations, c)
      PROVE  Conclusive(r) /\ c \in {"Effect", "NonEffect"}
  <2>1. /\ Len(n.observations) = Len(r.observations) + 1
        /\ n.observations[Len(r.observations) + 1] = c
        /\ \A i \in 1 .. Len(r.observations) : n.observations[i] = r.observations[i]
    BY SMTT(20), <1>1, <1>2, AppendProperties
  <2> QED BY <1>1, <2>1 DEF Conclusive
<1>3. Conclusive(r)
  <2>1. CASE n.observations = r.observations
    BY <2>1 DEF Conclusive
  <2>2. CASE Decides(w, r, n)
    BY <2>2, EmptySeq DEF Decides, Conclusive, NoRecord
  <2>3. CASE \E c \in EffectConclusion : n.observations = Append(r.observations, c)
    BY <1>2, <2>3
  <2> QED BY <2>1, <2>2, <2>3
          DEF Moves, Acquires, Keeps, Spends, Returns, EffectConclusion
<1>4. ~(r.state = "OutcomeUnknown" /\ n.state = "OutcomeUnknown")
  BY <1>2 DEF Moves, Decides, Acquires, Keeps, Spends, Returns, EffectConclusion
<1>5. <<r.state, n.state>> \in
        {<<"None", "DecisionRecorded">>, <<"DecisionRecorded", "Reserved">>,
         <<"Reserved", "ExecutionIntentRecorded">>,
         <<"ExecutionIntentRecorded", "ExecutionIntentRecorded">>,
         <<"ExecutionIntentRecorded", "Executing">>, <<"Executing", "Executing">>,
         <<"Executing", "Committed">>, <<"Executing", "Released">>,
         <<"Reserved", "Released">>, <<"ExecutionIntentRecorded", "Released">>,
         <<"Executing", "OutcomeUnknown">>, <<"OutcomeUnknown", "ReconciledCommitted">>,
         <<"OutcomeUnknown", "ReconciledReleased">>}
  BY <1>4 DEF Moves, Decides, Acquires, Keeps, Spends, Returns
<1>6. ValidTraceEvent(NewEvent(r, n.state))
  BY <1>5, EventKinds DEF ValidTraceEvent, NewEvent
<1> QED BY <1>3, <1>6

(* A move keeps the record invariant. *)
LEMMA MovesKeepRecord ==
    ASSUME NEW w \in Workflow, NEW r \in LifecycleRecord, NEW n \in LifecycleRecord,
           r = NoRecord \/ (r.state # "None" /\ RecordInvariant(r)), Moves(w, r, n)
    PROVE  RecordInvariant(n)
<1> DEFINE e == NewEvent(r, n.state)
<1>1. RecordShapeIsValid(n) /\ (n.state = "DecisionRecorded" => ReservationsAreLive(n))
  BY MovesKeepShape
<1>2. /\ r.events \in Seq(EventRecord) /\ Len(r.events) \in Nat
      /\ r.revision \in Nat /\ r.revision = Len(r.events)
      /\ r.revision > 0 => r.events[r.revision].to = r.state
      /\ r.revision = 0 => r.state = "None"
  BY LenProperties, EmptySeq DEF RecordInvariant, NoRecord, LifecycleRecord
<1>3. /\ e \in EventRecord /\ e.from = r.state /\ e.to = n.state
      /\ n.revision = r.revision + 1 /\ n.events = Append(r.events, e)
  <2>1. e.from = r.state /\ e.to = n.state
    BY DEF NewEvent
  <2>2. n.state \in LifecycleState
    BY DEF Moves, Decides, Acquires, Keeps, Spends, Returns, LifecycleState
  <2>3. e \in EventRecord
    BY <2>2, EventKindType DEF NewEvent, EventRecord, LifecycleRecord
  <2> QED BY <2>1, <2>3 DEF Moves, Appends
<1> HIDE DEF e
<1>4. /\ Len(n.events) = n.revision
      /\ n.events[n.revision] = e
      /\ \A m \in 1 .. r.revision : n.events[m] = r.events[m]
  BY <1>2, <1>3, AppendProperties
<1>5. ASSUME NEW m \in 1 .. Len(n.events)
      PROVE  n.events[m].from = IF m = 1 THEN "None" ELSE n.events[m - 1].to
  <2>1. CASE m <= r.revision
    <3>0. r.revision > 0
      BY <1>2, <1>3, <1>4, <2>1
    <3>1. r.revision > 0 /\ RecordInvariant(r)
      BY <3>0, NoRecordFields
    <3>2. r.events[m].from = IF m = 1 THEN "None" ELSE r.events[m - 1].to
      BY <1>2, <2>1, <3>1 DEF RecordInvariant
    <3>3. m \in 1 .. r.revision /\ (m # 1 => m - 1 \in 1 .. r.revision)
      BY <1>2, <1>3, <1>4, <2>1
    <3> QED BY <1>4, <3>2, <3>3
  <2>2. CASE m = r.revision + 1
    BY <1>2, <1>3, <1>4, <2>2
  <2> QED BY <1>2, <1>3, <1>4, <2>1, <2>2
<1>6. ASSUME Conclusive(n), NEW m \in 1 .. Len(n.events)
      PROVE  ValidTraceEvent(n.events[m])
  <2>1. Conclusive(r) /\ ValidTraceEvent(e)
    BY <1>6, MovesAppendValid DEF e, NoRecord
  <2>2. CASE m <= r.revision
    <3>0. r.revision > 0
      BY <1>2, <1>3, <1>4, <2>2
    <3>1. r.revision > 0 /\ RecordInvariant(r)
      BY <3>0, NoRecordFields
    <3> QED BY <1>2, <1>4, <2>1, <2>2, <3>1 DEF RecordInvariant
  <2>3. CASE m = r.revision + 1
    BY <1>3, <1>4, <2>1, <2>3
  <2> QED BY <1>2, <1>3, <1>4, <2>2, <2>3
<1> QED BY <1>1, <1>2, <1>3, <1>4, <1>5, <1>6 DEF RecordInvariant

(* The inductive invariant of the store: it is well formed and every       *)
(* workflow has either no record or one that satisfies the record          *)
(* invariant.                                                              *)
LifecycleInvariant ==
    /\ TypeOK
    /\ \A w \in Workflow :
          db[w] = NoRecord \/ (db[w].state # "None" /\ RecordInvariant(db[w]))

(* The empty store satisfies the inductive invariant. *)
LEMMA InitInvariant == Init => LifecycleInvariant
<1> SUFFICES ASSUME Init PROVE LifecycleInvariant
  OBVIOUS
<1>1. TypeOK
  BY ConfigurationAssumption
  DEF Init, TypeOK, NoRecord, LifecycleRecord, LifecycleState
<1> QED BY <1>1 DEF Init, LifecycleInvariant

(* A transaction keeps the inductive invariant. *)
LEMMA StepInvariant ==
    ASSUME LifecycleInvariant, NEW w \in Workflow, NEW rev, Step(w, rev)
    PROVE  LifecycleInvariant'
<1>1. TypeOK /\ TypeOK'
  BY StepType DEF LifecycleInvariant
<1>2. Moves(w, db[w], db'[w]) /\ db' = [db EXCEPT ![w] = db'[w]]
  BY <1>1, StepMoves
<1>3. db[w] \in LifecycleRecord /\ db'[w] \in LifecycleRecord
  BY <1>1 DEF TypeOK
<1>4. RecordInvariant(db'[w])
  BY <1>2, <1>3, MovesKeepRecord DEF LifecycleInvariant
<1>5. db'[w].state # "None"
  BY <1>2, MovesToRecord
<1>6. ASSUME NEW v \in Workflow
      PROVE  db'[v] = NoRecord \/ (db'[v].state # "None" /\ RecordInvariant(db'[v]))
  <2>1. CASE v = w
    BY <1>4, <1>5, <2>1
  <2>2. CASE v # w
    <3>1. db'[v] = db[v]
      BY <1>1, <1>2, <2>2 DEF TypeOK
    <3> QED BY <3>1 DEF LifecycleInvariant
  <2> QED BY <2>1, <2>2
<1> QED BY <1>1, <1>6 DEF LifecycleInvariant

(* Every transaction, and every lapse of authority, preserves it. *)
LEMMA NextInvariant == LifecycleInvariant /\ [Next]_lifecycleVars => LifecycleInvariant'
<1> SUFFICES ASSUME LifecycleInvariant, [Next]_lifecycleVars
             PROVE  LifecycleInvariant'
  OBVIOUS
<1>1. ASSUME NEW w \in Workflow, Step(w, db[w].revision)
      PROVE  LifecycleInvariant'
  BY <1>1, StepInvariant
<1>2. ASSUME NEW w \in Workflow, Lapse(w)
      PROVE  LifecycleInvariant'
  BY <1>2 DEF Lapse, TypeOK, LifecycleInvariant
<1>3. CASE UNCHANGED lifecycleVars
  BY <1>3 DEF lifecycleVars, TypeOK, LifecycleInvariant
<1> QED BY <1>1, <1>2, <1>3 DEF Next

(* The inductive invariant of the store holds in every reachable state: in *)
(* each record shape, event chain and revision agree with its state, as    *)
(* validate_record_integrity demands.                                      *)
THEOREM Invariance == Spec => []LifecycleInvariant
BY InitInvariant, NextInvariant, PTL DEF Spec

(* Every record without an inconclusive observation passes the integrity   *)
(* check of the encoder, for every plan, ceiling and limit: an encoding    *)
(* store never refuses what the kernel allowed, conclusive evidence given. *)
THEOREM RecordsEncodeAlways == Spec => []RecordsEncode
<1>1. LifecycleInvariant => RecordsEncode
  BY DEF LifecycleInvariant, RecordsEncode, Present, NoRecord, RecordInvariant,
         ValidRecordIntegrity
<1> QED BY <1>1, Invariance, PTL

-----------------------------------------------------------------------------
(* The history only grows *)

(* Appending one element keeps a sequence as a prefix. *)
LEMMA AppendKeepsPrefix ==
    ASSUME NEW S, NEW s \in Seq(S), NEW e \in S
    PROVE  SubSeq(Append(s, e), 1, Len(s)) = s
<1>1. /\ Append(s, e) \in Seq(S) /\ Len(s) \in Nat /\ Len(Append(s, e)) = Len(s) + 1
      /\ \A i \in 1 .. Len(s) : Append(s, e)[i] = s[i] /\ s[i] \in S
  BY AppendProperties, LenProperties, ElementOfSeq
<1>2. CASE Len(s) = 0
  <2>1. s = << >>
    BY <1>2, EmptySeq
  <2> QED BY <1>2, <2>1, SubSeqEmpty
<1>3. CASE Len(s) > 0
  <2> DEFINE t == SubSeq(Append(s, e), 1, Len(s))
  <2>1. t \in Seq(S) /\ Len(t) = Len(s) /\ \A i \in 1 .. Len(s) : t[i] = Append(s, e)[i]
    BY <1>1, <1>3, SubSeqProperties
  <2> HIDE DEF t
  <2>2. t = s
    BY <1>1, <2>1, SeqEqual
  <2> QED BY <2>2 DEF t
<1> QED BY <1>1, <1>2, <1>3

(* For every configuration, the history of a record only grows, its        *)
(* decision input is fixed and a terminal record is final.                 *)
THEOREM HistoryGrowsAlways == Spec => HistoryGrows
<1> DEFINE A == \A w \in Workflow : db'[w] # db[w] =>
          /\ db[w].state \notin Terminal
          /\ db'[w].revision = db[w].revision + 1
          /\ Len(db'[w].events) = db'[w].revision
          /\ SubSeq(db'[w].events, 1, Len(db[w].events)) = db[w].events
          /\ db[w].state # "None" => db'[w].input = db[w].input
<1>1. LifecycleInvariant /\ [Next]_lifecycleVars => [A]_lifecycleVars
  <2> SUFFICES ASSUME LifecycleInvariant, Next
               PROVE  A
    OBVIOUS
  <2>1. ASSUME NEW w \in Workflow, Step(w, db[w].revision)
        PROVE  A
    <3>1. TypeOK /\ LifecycleInvariant'
      BY <2>1, StepInvariant DEF LifecycleInvariant
    <3>2. Moves(w, db[w], db'[w]) /\ \A v \in Workflow \ {w} : db'[v] = db[v]
      BY <2>1, <3>1, StepMoves DEF TypeOK
    <3>3. /\ db[w].state \notin Terminal
          /\ db[w].state # "None" => db'[w].input = db[w].input
      BY Zenon, <3>2 DEF Moves, Decides, Acquires, Keeps, SameEntries, Spends, Returns, Terminal
    <3>4. /\ db'[w].revision = db[w].revision + 1
          /\ db'[w].events = Append(db[w].events, NewEvent(db[w], db'[w].state))
      BY <3>2 DEF Moves, Appends
    <3>5. Len(db'[w].events) = db'[w].revision
      <4>1. db'[w].state # "None"
        BY <3>2, MovesToRecord
      <4> QED BY <3>1, <4>1, NoRecordFields DEF LifecycleInvariant, RecordInvariant
    <3>6. SubSeq(db'[w].events, 1, Len(db[w].events)) = db[w].events
      <4>1. db'[w].state \in LifecycleState
        BY Zenon, <3>2 DEF Moves, Decides, Acquires, Keeps, Spends, Returns, LifecycleState
      <4>2. NewEvent(db[w], db'[w].state) \in EventRecord /\ db[w].events \in Seq(EventRecord)
        BY Zenon, <3>1, <4>1, EventKindType DEF TypeOK, NewEvent, EventRecord, LifecycleRecord
      <4> QED BY <3>4, <4>2, AppendKeepsPrefix
    <3> QED BY Zenon, <3>2, <3>3, <3>4, <3>5, <3>6
  <2>2. CASE db' = db
    BY <2>2
  <2> QED BY <2>1, <2>2 DEF Next, Lapse
<1> QED BY <1>1, Invariance, PTL DEF Spec, HistoryGrows

-----------------------------------------------------------------------------
(* A workflow is executed at most once: in whatever order commands arrive, *)
(* the milestones of an execution can only stand at fixed places of a      *)
(* record's history.                                                       *)

(* How far a record that is not settled yet has come is its revision. *)
ExecutionStage(r) ==
    /\ r.state = "None" => r.revision = 0
    /\ r.state = "DecisionRecorded" => r.revision = 1 /\ ~r.credential
    /\ r.state = "Reserved" => r.revision = 2 /\ ~r.credential
    /\ r.state = "ExecutionIntentRecorded" => r.revision = IF r.credential THEN 4 ELSE 3
    /\ r.state = "Executing" => r.revision = IF CallEntered(r) THEN 6 ELSE 5
    /\ r.state \in {"None", "DecisionRecorded", "Reserved", "ExecutionIntentRecorded"} =>
          r.attempts = << >>
    /\ Len(r.attempts) <= 1

(* A milestone of the execution can only be the event of its revision. *)
Placed(kind, m) ==
    /\ kind = "ReservationPersisted" => m = 2
    /\ kind = "CredentialAuthorized" => m = 4
    /\ kind = "AttemptPersisted" => m = 5
    /\ kind = "ProviderCallEntered" => m = 6

(* The milestone that precedes one of this kind is in the history. *)
Preceded(r, kind) ==
    /\ kind = "CredentialAuthorized" => r.events[2].kind = "ReservationPersisted"
    /\ kind = "AttemptPersisted" => r.events[4].kind = "CredentialAuthorized"
    /\ kind = "ProviderCallEntered" => r.events[5].kind = "AttemptPersisted"

(* The last milestone a record that is not settled yet has passed. *)
Passed(r) ==
    /\ r.state \in {"Reserved", "ExecutionIntentRecorded"} =>
          r.events[2].kind = "ReservationPersisted"
    /\ r.state = "ExecutionIntentRecorded" /\ r.credential =>
          r.events[4].kind = "CredentialAuthorized"
    /\ r.state = "Executing" => r.events[5].kind = "AttemptPersisted"

ExecutionInvariant(r) ==
    /\ Len(r.events) = r.revision
    /\ ExecutionStage(r)
    /\ Passed(r)
    /\ CallEntered(r) => EventsOf(r, "ProviderCallEntered") # {}
    /\ \A m \in 1 .. Len(r.events) :
          Placed(r.events[m].kind, m) /\ Preceded(r, r.events[m].kind)

-----------------------------------------------------------------------------
(* Moves *)

(* One attempt is added to none, and entering the call keeps it one. *)
LEMMA MovesKeepAttempts ==
    ASSUME NEW w, NEW r \in LifecycleRecord, NEW n \in LifecycleRecord,
           ExecutionStage(r), Keeps(r, n)
    PROVE  /\ Len(n.attempts) <= 1
           /\ r.state = "ExecutionIntentRecorded" /\ n.state = "Executing" => ~CallEntered(n)
           /\ r.state = "Executing" /\ n.state = "Executing" => CallEntered(n) /\ ~CallEntered(r)
           /\ n.state \in {"Reserved", "ExecutionIntentRecorded"} => n.attempts = << >>
<1> DEFINE T == {"started", "entered"}
<1>0. r.attempts \in Seq(T) /\ n.attempts \in Seq(T) /\ Len(r.attempts) \in Nat
  BY LenProperties DEF LifecycleRecord
<1>1. CASE r.state = "ExecutionIntentRecorded" /\ n.state = "Executing"
  <2>1. n.attempts = Append(r.attempts, "started") /\ r.attempts = << >>
    BY <1>1 DEF Keeps, ExecutionStage
  <2>2. Len(n.attempts) = 1 /\ n.attempts[1] = "started"
    BY <2>1
  <2> QED BY <1>1, <2>2 DEF CallEntered
<1>2. CASE r.state = "Executing" /\ n.state = "Executing"
  <2>1. /\ n.attempts = [r.attempts EXCEPT ![Len(r.attempts)] = "entered"]
        /\ r.attempts # << >> /\ ~CallEntered(r)
    BY <1>2 DEF Keeps
  <2>2. Len(r.attempts) = 1
    <3>1. Len(r.attempts) \in Nat \ {0}
      BY <1>0, <2>1, EmptySeq
    <3>2. Len(r.attempts) <= 1
      BY DEF ExecutionStage
    <3>3. \A l \in Nat \ {0} : l <= 1 => l = 1
      OBVIOUS
    <3> QED BY ONLY Zenon, <3>1, <3>2, <3>3
  <2>3. Len(n.attempts) = 1 /\ n.attempts[1] = "entered"
    BY <1>0, <2>1, <2>2, ExceptSeq
  <2>4. n.attempts # << >>
    BY <2>3
  <2> QED BY <1>2, <2>1, <2>3, <2>4 DEF CallEntered
<1>3. CASE ~(r.state = "ExecutionIntentRecorded" /\ n.state = "Executing")
           /\ ~(r.state = "Executing" /\ n.state = "Executing")
  <2>1. n.attempts = r.attempts
    BY <1>3 DEF Keeps
  <2>2. n.state \in {"Reserved", "ExecutionIntentRecorded"} =>
           r.state \in {"Reserved", "ExecutionIntentRecorded"}
    BY DEF Keeps
  <2> QED BY <1>3, <2>1, <2>2 DEF ExecutionStage
<1> QED BY <1>1, <1>2, <1>3

(* A call that was entered stays entered, and the move that enters it is   *)
(* the one that leaves the record executing.                               *)
LEMMA MovesKeepEntry ==
    ASSUME NEW w, NEW r \in LifecycleRecord, NEW n \in LifecycleRecord,
           ExecutionStage(r), Moves(w, r, n)
    PROVE  /\ CallEntered(r) => CallEntered(n)
           /\ CallEntered(n) /\ ~CallEntered(r) => r.state = "Executing" /\ n.state = "Executing"
<1>1. CASE Decides(w, r, n)
  BY <1>1 DEF Decides, CallEntered, ExecutionStage
<1>2. CASE Acquires(r, n)
  BY <1>2 DEF Acquires, CallEntered
<1>3. CASE Keeps(r, n)
  <2>1. CASE n.attempts = r.attempts
    BY <2>1 DEF CallEntered
  <2>2. CASE n.attempts # r.attempts
    <3>1. \/ r.state = "ExecutionIntentRecorded" /\ n.state = "Executing"
          \/ r.state = "Executing" /\ n.state = "Executing"
      BY <1>3, <2>2 DEF Keeps
    <3>2. /\ r.state = "ExecutionIntentRecorded" /\ n.state = "Executing" => ~CallEntered(n)
          /\ r.state = "Executing" /\ n.state = "Executing" => CallEntered(n) /\ ~CallEntered(r)
      BY <1>3, MovesKeepAttempts
    <3>3. r.state = "ExecutionIntentRecorded" => ~CallEntered(r)
      BY DEF CallEntered, ExecutionStage
    <3> QED BY <3>1, <3>2, <3>3
  <2> QED BY <2>1, <2>2
<1>4. CASE Spends(r, n)
  BY <1>4 DEF Spends, CallEntered
<1>5. CASE Returns(r, n)
  BY <1>5 DEF Returns, CallEntered
<1> QED BY <1>1, <1>2, <1>3, <1>4, <1>5 DEF Moves

(* A move goes on from the stage of its record. *)
LEMMA MovesKeepStage ==
    ASSUME NEW w, NEW r \in LifecycleRecord, NEW n \in LifecycleRecord,
           ExecutionStage(r), Moves(w, r, n)
    PROVE  ExecutionStage(n)
<1>0. n.revision = r.revision + 1 /\ r.revision \in Nat
  BY DEF Moves, Appends, LifecycleRecord
<1>1. CASE Decides(w, r, n)
  <2>1. Len(n.attempts) = 0
    BY <1>1 DEF Decides
  <2> QED BY <1>0, <1>1, <2>1 DEF Decides, ExecutionStage
<1>2. CASE Acquires(r, n)
  BY <1>0, <1>2 DEF Acquires, ExecutionStage
<1>3. CASE Keeps(r, n)
  <2>1. /\ Len(n.attempts) <= 1
        /\ r.state = "ExecutionIntentRecorded" /\ n.state = "Executing" => ~CallEntered(n)
        /\ r.state = "Executing" /\ n.state = "Executing" => CallEntered(n) /\ ~CallEntered(r)
        /\ n.state \in {"Reserved", "ExecutionIntentRecorded"} => n.attempts = << >>
    BY <1>3, MovesKeepAttempts
  <2>2. n.state \in {"ExecutionIntentRecorded", "Executing", "OutcomeUnknown"}
    BY <1>3 DEF Keeps
  <2>3. n.state = "ExecutionIntentRecorded" => n.revision = IF n.credential THEN 4 ELSE 3
    BY <1>0, <1>3 DEF Keeps, ExecutionStage
  <2>4. n.state = "Executing" => n.revision = IF CallEntered(n) THEN 6 ELSE 5
    BY <1>0, <1>3, <2>1 DEF Keeps, ExecutionStage
  <2> QED BY <2>1, <2>2, <2>3, <2>4 DEF ExecutionStage
<1>4. CASE Spends(r, n)
  BY <1>4 DEF Spends, ExecutionStage
<1>5. CASE Returns(r, n)
  BY Zenon, <1>5 DEF Returns, ExecutionStage
<1> QED BY <1>1, <1>2, <1>3, <1>4, <1>5 DEF Moves

(* The event a move appends stands at its place, after its predecessor,    *)
(* and is the milestone the new state has passed.                          *)
LEMMA MovesAppendMilestone ==
    ASSUME NEW w, NEW r \in LifecycleRecord, NEW n \in LifecycleRecord,
           NEW k, k = EventKindFor(r.state, n.state),
           ExecutionStage(r), Passed(r), Moves(w, r, n)
    PROVE  /\ Placed(k, n.revision)
           /\ Preceded(r, k)
           /\ n.state = "Reserved" => k = "ReservationPersisted"
           /\ n.state = "ExecutionIntentRecorded" =>
                 /\ r.events[2].kind = "ReservationPersisted"
                 /\ r.revision >= 2
                 /\ n.credential => k = "CredentialAuthorized"
           /\ n.state = "Executing" =>
                 \/ k = "AttemptPersisted"
                 \/ r.events[5].kind = "AttemptPersisted" /\ r.revision = 5
<1> USE DEF Placed, Preceded
<1>0. n.revision = r.revision + 1 /\ r.revision \in Nat
  BY DEF Moves, Appends, LifecycleRecord
<1>1. CASE Decides(w, r, n)
  <2>1. k = "DecisionPersisted" /\ n.state = "DecisionRecorded"
    BY <1>1, EventKinds DEF Decides
  <2> QED BY <2>1
<1>2. CASE Acquires(r, n)
  <2>1. k = "ReservationPersisted" /\ n.state = "Reserved" /\ r.revision = 1
    BY SMTT(20), <1>2, EventKinds DEF Acquires, ExecutionStage
  <2> QED BY <1>0, <2>1
<1>3. CASE Keeps(r, n)
  <2>1. CASE r.state = "Reserved"
    <3>1. k = "ExecutionIntentPersisted" /\ n.state = "ExecutionIntentRecorded" /\ ~n.credential
      BY <1>3, <2>1, EventKinds DEF Keeps, ExecutionStage
    <3> QED BY SMTT(20), <2>1, <3>1 DEF Passed, ExecutionStage
  <2>2. CASE r.state = "ExecutionIntentRecorded" /\ n.state = "ExecutionIntentRecorded"
    <3>1. k = "CredentialAuthorized" /\ r.revision = 3
      BY <1>3, <2>2, EventKinds DEF Keeps, ExecutionStage
    <3> QED BY SMTT(20), <1>0, <2>2, <3>1 DEF Passed
  <2>3. CASE r.state = "ExecutionIntentRecorded" /\ n.state = "Executing"
    <3>1. k = "AttemptPersisted" /\ r.revision = 4 /\ r.credential
      BY <1>3, <2>3, EventKinds DEF Keeps, ExecutionStage
    <3> QED BY SMTT(20), <1>0, <2>3, <3>1 DEF Passed
  <2>4. CASE r.state = "Executing" /\ n.state = "Executing"
    <3>1. k = "ProviderCallEntered" /\ r.revision = 5
      BY <1>3, <2>4, EventKinds DEF Keeps, ExecutionStage
    <3> QED BY SMTT(20), <1>0, <2>4, <3>1 DEF Passed
  <2>5. CASE n.state = "OutcomeUnknown"
    <3>1. k = "OutcomeUnknownPersisted"
      BY <1>3, <2>5, EventKinds DEF Keeps
    <3> QED BY Zenon, <2>5, <3>1
  <2> QED BY <1>3, <2>1, <2>2, <2>3, <2>4, <2>5 DEF Keeps
<1>4. CASE Spends(r, n)
  <2>1. /\ k \in {"ProviderResultPersisted", "ReconciliationPersisted"}
        /\ n.state \in {"Committed", "ReconciledCommitted"}
    BY <1>4, EventKinds DEF Spends
  <2> QED BY <2>1
<1>5. CASE Returns(r, n)
  <2>1. /\ k \in {"ProviderResultPersisted", "ReconciliationPersisted"}
        /\ n.state \in {"Released", "ReconciledReleased"}
    BY <1>5, EventKinds DEF Returns
  <2> QED BY <2>1
<1> QED BY <1>1, <1>2, <1>3, <1>4, <1>5 DEF Moves

(* A move keeps the execution invariant. *)
LEMMA MovesKeepExecution ==
    ASSUME NEW w, NEW r \in LifecycleRecord, NEW n \in LifecycleRecord,
           ExecutionInvariant(r), Moves(w, r, n)
    PROVE  ExecutionInvariant(n)
<1> DEFINE e == NewEvent(r, n.state)
           k == EventKindFor(r.state, n.state)
<1>1. /\ r.events \in Seq(EventRecord) /\ r.revision \in Nat
      /\ Len(r.events) = r.revision /\ ExecutionStage(r) /\ Passed(r)
  BY DEF ExecutionInvariant, LifecycleRecord
<1>2. ExecutionStage(n)
  BY <1>1, MovesKeepStage
<1>3. /\ Placed(k, n.revision) /\ Preceded(r, k)
      /\ n.state = "Reserved" => k = "ReservationPersisted"
      /\ n.state = "ExecutionIntentRecorded" =>
            /\ r.events[2].kind = "ReservationPersisted"
            /\ r.revision >= 2
            /\ n.credential => k = "CredentialAuthorized"
      /\ n.state = "Executing" =>
            \/ k = "AttemptPersisted"
            \/ r.events[5].kind = "AttemptPersisted" /\ r.revision = 5
  BY <1>1, MovesAppendMilestone
<1>4. e \in EventRecord /\ e.kind = k
  <2>1. n.state \in LifecycleState
    BY MovesToRecord DEF LifecycleRecord
  <2> QED BY <2>1, EventKindType DEF NewEvent, EventRecord, LifecycleRecord
<1>5. n.revision = r.revision + 1 /\ n.events = Append(r.events, e)
  BY DEF Moves, Appends
<1> HIDE DEF e, k
<1>6. /\ Len(n.events) = n.revision /\ n.events[n.revision].kind = k
      /\ \A m \in 1 .. r.revision : n.events[m] = r.events[m]
  BY <1>1, <1>4, <1>5, AppendProperties
<1>7. Passed(n)
  <2>1. n.state = "Reserved" => n.events[2].kind = "ReservationPersisted"
    BY <1>2, <1>3, <1>6 DEF ExecutionStage
  <2>2. n.state = "ExecutionIntentRecorded" => n.events[2].kind = "ReservationPersisted"
    BY <1>1, <1>3, <1>6
  <2>3. n.state = "ExecutionIntentRecorded" /\ n.credential =>
           n.events[4].kind = "CredentialAuthorized"
    BY <1>2, <1>3, <1>6 DEF ExecutionStage
  <2>4. n.state = "Executing" => n.events[5].kind = "AttemptPersisted"
    BY <1>1, <1>3, <1>6 DEF Placed
  <2> QED BY <2>1, <2>2, <2>3, <2>4 DEF Passed
<1>8. ASSUME NEW m \in 1 .. Len(n.events)
      PROVE  Placed(n.events[m].kind, m) /\ Preceded(n, n.events[m].kind)
  <2>1. CASE m \in 1 .. r.revision
    <3>1. n.events[m].kind = r.events[m].kind
      BY <1>6, <2>1
    <3>2. Placed(r.events[m].kind, m) /\ Preceded(r, r.events[m].kind)
      BY Zenon, <1>1, <2>1 DEF ExecutionInvariant
    <3>3. Preceded(n, r.events[m].kind)
      BY SMTT(20), <1>1, <1>6, <2>1, <3>2 DEF Placed, Preceded
    <3> QED BY <3>1, <3>2, <3>3
  <2>2. CASE m = n.revision
    <3>1. Preceded(n, k)
      BY <1>1, <1>3, <1>5, <1>6 DEF Placed, Preceded
    <3> QED BY <1>3, <1>6, <2>2, <3>1
  <2> QED BY <1>1, <1>5, <1>6, <2>1, <2>2
<1>9. CallEntered(n) => EventsOf(n, "ProviderCallEntered") # {}
  <2> SUFFICES ASSUME CallEntered(n) PROVE EventsOf(n, "ProviderCallEntered") # {}
    OBVIOUS
  <2>1. CASE CallEntered(r)
    <3>1. PICK m \in 1 .. Len(r.events) : r.events[m].kind = "ProviderCallEntered"
      BY <2>1 DEF ExecutionInvariant, EventsOf
    <3>2. m \in 1 .. Len(n.events) /\ n.events[m].kind = "ProviderCallEntered"
      BY <1>1, <1>5, <1>6, <3>1
    <3> QED BY <3>2 DEF EventsOf
  <2>2. CASE ~CallEntered(r)
    <3>1. r.state = "Executing" /\ n.state = "Executing"
      BY <1>1, <2>2, MovesKeepEntry
    <3>2. k = "ProviderCallEntered"
      BY <3>1, EventKinds DEF k
    <3>3. n.revision \in 1 .. Len(n.events)
      BY <1>1, <1>5, <1>6
    <3> QED BY <1>6, <3>2, <3>3 DEF EventsOf
  <2> QED BY <2>1, <2>2
<1> QED BY <1>2, <1>6, <1>7, <1>8, <1>9 DEF ExecutionInvariant

-----------------------------------------------------------------------------
(* The store *)

Executions == \A w \in Workflow : ExecutionInvariant(db[w])

(* Nothing has been executed in the empty store. *)
LEMMA InitExecutions == Init => Executions
<1>1. NoRecord.attempts = << >> /\ Len(<< >>) = 0
  BY DEF NoRecord
<1>2. ExecutionInvariant(NoRecord)
  BY <1>1, NoRecordFields DEF ExecutionInvariant, ExecutionStage, Passed, CallEntered
<1> QED BY <1>2 DEF Init, Executions

(* A transaction keeps the execution invariant of every record. *)
LEMMA StepExecutions ==
    ASSUME LifecycleInvariant, Executions, NEW w \in Workflow, NEW rev, Step(w, rev)
    PROVE  Executions'
<1>1. TypeOK /\ db[w] \in LifecycleRecord /\ db'[w] \in LifecycleRecord
  BY StepType DEF LifecycleInvariant, TypeOK
<1>2. Moves(w, db[w], db'[w]) /\ \A v \in Workflow \ {w} : db'[v] = db[v]
  BY <1>1, StepMoves DEF TypeOK
<1>3. ExecutionInvariant(db'[w])
  BY <1>1, <1>2, MovesKeepExecution DEF Executions
<1> QED BY <1>2, <1>3 DEF Executions

(* For every configuration, no record ever has two reservations, two       *)
(* credential authorizations, two attempts or two provider-call entries,   *)
(* and each comes after the one it needs.                                  *)
THEOREM OneExecutionAlways == Spec => []OneExecution
<1>1. LifecycleInvariant /\ Executions /\ [Next]_lifecycleVars => Executions'
  <2> SUFFICES ASSUME LifecycleInvariant, Executions, [Next]_lifecycleVars
               PROVE  Executions'
    OBVIOUS
  <2>1. ASSUME NEW w \in Workflow, Step(w, db[w].revision)
        PROVE  Executions'
    BY <2>1, StepExecutions
  <2>2. CASE db' = db
    BY <2>2 DEF Executions
  <2> QED BY <2>1, <2>2 DEF Next, Lapse, lifecycleVars
<1>2. LifecycleInvariant /\ Executions => OneExecution
  <2> SUFFICES ASSUME LifecycleInvariant, Executions, NEW w \in Workflow
               PROVE  /\ Len(db[w].attempts) <= 1
                      /\ \A k \in {"ReservationPersisted", "CredentialAuthorized", "AttemptPersisted", "ProviderCallEntered"} :
                            Cardinality(EventsOf(db[w], k)) <= 1
                      /\ \A m \in EventsOf(db[w], "ProviderCallEntered") :
                            \E l \in EventsOf(db[w], "AttemptPersisted") : l < m
                      /\ \A m \in EventsOf(db[w], "AttemptPersisted") :
                            \E l \in EventsOf(db[w], "CredentialAuthorized") : l < m
                      /\ \A m \in EventsOf(db[w], "CredentialAuthorized") :
                            \E l \in EventsOf(db[w], "ReservationPersisted") : l < m
    BY Zenon DEF OneExecution
  <2> DEFINE r == db[w]
  <2>1. /\ ExecutionInvariant(r) /\ r.revision \in Nat /\ Len(r.events) = r.revision
    BY Zenon DEF Executions, ExecutionInvariant, LifecycleInvariant, TypeOK, LifecycleRecord
  <2> HIDE DEF r
  <2>2. \A m \in 1 .. r.revision :
           Placed(r.events[m].kind, m) /\ Preceded(r, r.events[m].kind)
    BY <2>1 DEF ExecutionInvariant
  <2>3. Len(r.attempts) <= 1
    BY <2>1 DEF ExecutionInvariant, ExecutionStage
  <2>4. /\ EventsOf(r, "ReservationPersisted") \subseteq {2}
        /\ EventsOf(r, "CredentialAuthorized") \subseteq {4}
        /\ EventsOf(r, "AttemptPersisted") \subseteq {5}
        /\ EventsOf(r, "ProviderCallEntered") \subseteq {6}
    BY <2>1, <2>2 DEF EventsOf, Placed
  <2>5. \A x, S : S \subseteq {x} => Cardinality(S) <= 1
    <3> SUFFICES ASSUME NEW x, NEW S, S \subseteq {x} PROVE Cardinality(S) <= 1
      BY Zenon
    <3>1. IsFiniteSet({x}) /\ Cardinality({x}) = 1
      BY Zenon, FS_Singleton
    <3>2. S \in SUBSET {x}
      OBVIOUS
    <3>3. Cardinality(S) <= Cardinality({x})
      BY ONLY <3>1, <3>2, FS_Subset
    <3> QED BY <3>1, <3>3
  <2>6. \A m \in EventsOf(r, "ProviderCallEntered") : m = 6 /\ 5 \in EventsOf(r, "AttemptPersisted")
    BY <2>1, <2>2 DEF EventsOf, Placed, Preceded
  <2>7. \A m \in EventsOf(r, "AttemptPersisted") : m = 5 /\ 4 \in EventsOf(r, "CredentialAuthorized")
    BY <2>1, <2>2 DEF EventsOf, Placed, Preceded
  <2>8. \A m \in EventsOf(r, "CredentialAuthorized") : m = 4 /\ 2 \in EventsOf(r, "ReservationPersisted")
    BY <2>1, <2>2 DEF EventsOf, Placed, Preceded
  <2>9. \A k \in {"ReservationPersisted", "CredentialAuthorized", "AttemptPersisted", "ProviderCallEntered"} :
           Cardinality(EventsOf(r, k)) <= 1
    BY <2>4, <2>5
  <2> QED BY <2>3, <2>6, <2>7, <2>8, <2>9 DEF r
<1> QED BY <1>1, <1>2, InitExecutions, Invariance, PTL DEF Spec

-----------------------------------------------------------------------------
(* What callers of the store rely on, whatever they run beside it *)

(* The state each transaction leads from and to. *)
LEMMA TransactionStates ==
    ASSUME TypeOK, NEW w \in Workflow, NEW rev
    PROVE  /\ \A x : RecordDecision(w, rev, x) =>
                 db[w].state = "None" /\ db'[w].state = "DecisionRecorded" /\ db'[w].input = x
           /\ Reserve(w, rev) => db[w].state = "DecisionRecorded" /\ db'[w].state = "Reserved"
           /\ RecordExecutionIntent(w, rev) =>
                 db[w].state = "Reserved" /\ db'[w].state = "ExecutionIntentRecorded"
           /\ AuthorizeCredential(w, rev) =>
                 db[w].state = "ExecutionIntentRecorded" /\ db'[w].state = "ExecutionIntentRecorded"
           /\ StartAttempt(w, rev) =>
                 db[w].state = "ExecutionIntentRecorded" /\ db'[w].state = "Executing"
           /\ MarkProviderCallEntered(w, rev) =>
                 db[w].state = "Executing" /\ db'[w].state = "Executing"
           /\ Commit(w, rev) => db[w].state = "Executing" /\ db'[w].state = "Committed"
           /\ \A c : Release(w, rev, c) =>
                 /\ db[w].state \in {"Reserved", "ExecutionIntentRecorded", "Executing"}
                 /\ db'[w].state = "Released"
           /\ MarkOutcomeUnknown(w, rev) =>
                 db[w].state = "Executing" /\ db'[w].state = "OutcomeUnknown"
           /\ ReconcileEffect(w, rev) =>
                 db[w].state = "OutcomeUnknown" /\ db'[w].state = "ReconciledCommitted"
           /\ ReconcileNonEffect(w, rev) =>
                 db[w].state = "OutcomeUnknown" /\ db'[w].state = "ReconciledReleased"
           /\ \A c : ReconcileInconclusive(w, rev, c) =>
                 db[w].state = "OutcomeUnknown" /\ db'[w].state = "OutcomeUnknown"
<1> USE DEF Persist, AppendTransition, TypeOK, LifecycleRecord
<1>1. ASSUME NEW x, RecordDecision(w, rev, x)
      PROVE  db[w].state = "None" /\ db'[w].state = "DecisionRecorded" /\ db'[w].input = x
  BY <1>1 DEF RecordDecision, NoRecord
<1>2. Reserve(w, rev) => db[w].state = "DecisionRecorded" /\ db'[w].state = "Reserved"
  BY DEF Reserve
<1>3. RecordExecutionIntent(w, rev) =>
        db[w].state = "Reserved" /\ db'[w].state = "ExecutionIntentRecorded"
  BY DEF RecordExecutionIntent
<1>4. AuthorizeCredential(w, rev) =>
        db[w].state = "ExecutionIntentRecorded" /\ db'[w].state = "ExecutionIntentRecorded"
  BY DEF AuthorizeCredential
<1>5. StartAttempt(w, rev) =>
        db[w].state = "ExecutionIntentRecorded" /\ db'[w].state = "Executing"
  BY DEF StartAttempt
<1>6. MarkProviderCallEntered(w, rev) =>
        db[w].state = "Executing" /\ db'[w].state = "Executing"
  BY DEF MarkProviderCallEntered
<1>7. Commit(w, rev) => db[w].state = "Executing" /\ db'[w].state = "Committed"
  BY DEF Commit
<1>8. ASSUME NEW c, Release(w, rev, c)
      PROVE  /\ db[w].state \in {"Reserved", "ExecutionIntentRecorded", "Executing"}
             /\ db'[w].state = "Released"
  BY <1>8 DEF Release, ReleaseAllowed
<1>9. MarkOutcomeUnknown(w, rev) =>
        db[w].state = "Executing" /\ db'[w].state = "OutcomeUnknown"
  BY DEF MarkOutcomeUnknown
<1>10. ReconcileEffect(w, rev) =>
         db[w].state = "OutcomeUnknown" /\ db'[w].state = "ReconciledCommitted"
  BY DEF ReconcileEffect, Reconcilable, Observed
<1>11. ReconcileNonEffect(w, rev) =>
         db[w].state = "OutcomeUnknown" /\ db'[w].state = "ReconciledReleased"
  BY DEF ReconcileNonEffect, Reconcilable, Observed
<1>12. ASSUME NEW c, ReconcileInconclusive(w, rev, c)
       PROVE  db[w].state = "OutcomeUnknown" /\ db'[w].state = "OutcomeUnknown"
  BY <1>12 DEF ReconcileInconclusive, Reconcilable, Observed
<1> QED BY Zenon, <1>1, <1>2, <1>3, <1>4, <1>5, <1>6, <1>7, <1>8, <1>9, <1>10, <1>11, <1>12

(* A record no execution can move any more. *)
Suspended == {"OutcomeUnknown"} \cup Terminal

(* Only reconciliation moves a suspended record, and it stays suspended; a *)
(* settled one does not move at all.                                       *)
LEMMA MovesKeepSuspended ==
    ASSUME NEW w, NEW r, NEW n, Moves(w, r, n)
    PROVE  /\ r.state \in Suspended => n.state \in Suspended
           /\ r.state \notin Terminal
<1> USE DEF Suspended, Terminal
<1>1. CASE Decides(w, r, n)
  BY <1>1 DEF Decides
<1>2. CASE Acquires(r, n)
  BY <1>2 DEF Acquires
<1>3. CASE Keeps(r, n)
  BY <1>3 DEF Keeps
<1>4. CASE Spends(r, n)
  BY <1>4 DEF Spends
<1>5. CASE Returns(r, n)
  BY Zenon, <1>5 DEF Returns
<1> QED BY <1>1, <1>2, <1>3, <1>4, <1>5 DEF Moves

(* A transaction of one workflow, seen from outside the store: the store   *)
(* invariants hold after it, the revision of its record grows by one, an   *)
(* entered call stays entered, and all other records are as before.        *)
LEMMA Transaction ==
    ASSUME LifecycleInvariant, Executions, NEW w \in Workflow, NEW rev, Step(w, rev)
    PROVE  /\ LifecycleInvariant' /\ Executions'
           /\ db'[w] \in LifecycleRecord
           /\ db'[w].revision = db[w].revision + 1
           /\ db'[w].state # "None"
           /\ db[w].state # "None" => db'[w].input = db[w].input
           /\ db[w].state \in Suspended => db'[w].state \in Suspended
           /\ db[w].state \notin Terminal
           /\ CallEntered(db[w]) => CallEntered(db'[w])
           /\ \A v \in Workflow \ {w} : db'[v] = db[v]
           /\ lapsed' = lapsed
<1>1. LifecycleInvariant' /\ Executions'
  BY StepInvariant, StepExecutions
<1>2. TypeOK /\ db[w] \in LifecycleRecord /\ db'[w] \in LifecycleRecord
  BY <1>1 DEF LifecycleInvariant, TypeOK
<1>3. Moves(w, db[w], db'[w]) /\ lapsed' = lapsed /\ \A v \in Workflow \ {w} : db'[v] = db[v]
  BY <1>2, StepMoves DEF TypeOK
<1>4. db'[w].revision = db[w].revision + 1 /\ db'[w].state # "None"
  BY Zenon, <1>3, MovesToRecord DEF Moves, Appends
<1>5. db[w].state # "None" => db'[w].input = db[w].input
  BY Zenon, <1>3 DEF Moves, Decides, Acquires, Keeps, SameEntries, Spends, Returns
<1>6. /\ db[w].state \in Suspended => db'[w].state \in Suspended
      /\ db[w].state \notin Terminal
  BY Zenon, <1>3, MovesKeepSuspended
<1>7. CallEntered(db[w]) => CallEntered(db'[w])
  BY <1>2, <1>3, MovesKeepEntry DEF Executions, ExecutionInvariant
<1> QED BY <1>1, <1>2, <1>3, <1>4, <1>5, <1>6, <1>7

(* The store invariants are about the records alone. *)
LEMMA RecordsUntouched ==
    ASSUME LifecycleInvariant, Executions, db' = db, lapsed' \subseteq Workflow
    PROVE  LifecycleInvariant' /\ Executions'
BY DEF LifecycleInvariant, TypeOK, Executions

(* A record whose call was entered is executing or past it. *)
LEMMA EnteredStates ==
    ASSUME NEW r \in LifecycleRecord, ExecutionStage(r), CallEntered(r)
    PROVE  r.state \in {"Executing"} \cup Suspended
BY DEF ExecutionStage, CallEntered, LifecycleRecord, LifecycleState, Suspended, Terminal

(* An executing record that is executing again has just entered its call. *)
LEMMA EntryIsEntered ==
    ASSUME LifecycleInvariant, Executions, NEW w \in Workflow, NEW rev, Step(w, rev),
           db[w].state = "Executing", db'[w].state = "Executing"
    PROVE  CallEntered(db'[w])
<1>1. TypeOK /\ db[w] \in LifecycleRecord /\ db'[w] \in LifecycleRecord
  BY Zenon, StepType DEF LifecycleInvariant, TypeOK
<1>2. Moves(w, db[w], db'[w]) /\ ExecutionStage(db[w])
  BY Zenon, <1>1, StepMoves DEF Executions, ExecutionInvariant
<1>3. Keeps(db[w], db'[w])
  BY <1>2 DEF Moves, Decides, Acquires, Spends, Returns
<1> QED BY <1>1, <1>2, <1>3, MovesKeepAttempts

(* A transaction is applied at the stored revision only. *)
LEMMA StepAtRevision ==
    ASSUME NEW w \in Workflow, NEW rev, Step(w, rev)
    PROVE  Step(w, db[w].revision)
<1>1. db[w].revision = rev
  BY Zenon DEF Step, RecordDecision, Reserve, RecordExecutionIntent, AuthorizeCredential,
         StartAttempt, MarkProviderCallEntered, Commit, Release, MarkOutcomeUnknown,
         ReconcileEffect, ReconcileNonEffect, ReconcileInconclusive, Reconcilable,
         TransactExisting, Transact
<1> QED BY <1>1
=============================================================================
