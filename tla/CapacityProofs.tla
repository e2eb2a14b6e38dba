--------------------------- MODULE CapacityProofs ---------------------------
(***************************************************************************)
(* Capacity is never oversubscribed, and is given back only by a release,  *)
(* for every set of workflows, plans, rules and limits; and the file store *)
(* keeps what it acknowledged and opens only sound databases, for every    *)
(* number of failures, restarts and power losses.                          *)
(***************************************************************************)
EXTENDS FileStore, LifecycleRefinement, LifecycleProofs

(* No plan names the same capacity key twice.  capacity_available checks   *)
(* each request against the snapshot on its own, so this is what the       *)
(* capacity theorems rest on.                                              *)
DistinctKeys == \A x \in Input : \A i, j \in Plan[x] : Key[i] = Key[j] => i = j

-----------------------------------------------------------------------------
(* Units and their cardinality *)

(* A reservation of amount n stands for n units. *)
LEMMA UnitsCardinality ==
    ASSUME NEW w, NEW i \in Intent
    PROVE  IsFiniteSet(UnitsOf(w, i)) /\ Cardinality(UnitsOf(w, i)) = Amount[i]
<1> DEFINE one == {<<w, i>>}
           units == 1 .. Amount[i]
<1>1. Amount[i] \in Nat
  BY ConfigurationAssumption
<1>2. IsFiniteSet(one) /\ Cardinality(one) = 1
  BY Zenon, FS_Singleton
<1>3. IsFiniteSet(units) /\ Cardinality(units) = Amount[i]
  BY <1>1, FS_Interval
<1> HIDE DEF one, units
<1>4. IsFiniteSet(one \X units) /\ Cardinality(one \X units) = 1 * Amount[i]
  BY <1>2, <1>3, FS_Product
<1> QED BY <1>1, <1>4 DEF UnitsOf, one, units

(* The units in use of a key are finitely many. *)
LEMMA UsedFinite ==
    ASSUME NEW d, NEW ws \in SUBSET Workflow, NEW k
    PROVE  IsFiniteSet(Used(d, ws, k)) /\ Cardinality(Used(d, ws, k)) \in Nat
<1> DEFINE S == {p \in ws \X Intent : Key[p[2]] = k /\ CountsAdditive(d[p[1]], p[2])}
           T == {UnitsOf(c[1], c[2]) : c \in S}
           f == [c \in S |-> UnitsOf(c[1], c[2])]
<1>1. IsFiniteSet(S)
  <2>1. IsFiniteSet(ws) /\ IsFiniteSet(Intent)
    BY ConfigurationAssumption, FS_Subset
  <2>2. IsFiniteSet(ws \X Intent)
    BY <2>1, FS_Product
  <2>3. S \in SUBSET (ws \X Intent)
    OBVIOUS
  <2> QED BY <2>2, <2>3, FS_Subset
<1>2. f \in Surjection(S, T)
  BY DEF Surjection
<1>3. \A t \in T : IsFiniteSet(t)
  BY UnitsCardinality
<1>4. IsFiniteSet(T)
  <2> HIDE DEF S, T, f
  <2> QED BY <1>1, <1>2, FS_Surjection
<1>5. IsFiniteSet(UNION T)
  <2> HIDE DEF T
  <2> QED BY <1>3, <1>4, FS_UNION
<1>6. Used(d, ws, k) = UNION T
  BY DEF Used
<1> QED BY <1>5, <1>6, FS_CardinalityType

(* A unit is in use exactly when some counted reservation entry has it. *)
LEMMA UsedMember ==
    ASSUME NEW d, NEW ws, NEW k, NEW u
    PROVE  u \in Used(d, ws, k) <=>
             \E v \in ws, i \in Intent :
                 Key[i] = k /\ CountsAdditive(d[v], i) /\ u \in UnitsOf(v, i)
<1> DEFINE S == {p \in ws \X Intent : Key[p[2]] = k /\ CountsAdditive(d[p[1]], p[2])}
<1>1. u \in Used(d, ws, k) <=> \E c \in S : u \in UnitsOf(c[1], c[2])
  BY DEF Used
<1>2. ASSUME NEW c \in S, u \in UnitsOf(c[1], c[2])
      PROVE  \E v \in ws, i \in Intent :
                 Key[i] = k /\ CountsAdditive(d[v], i) /\ u \in UnitsOf(v, i)
  <2>1. c[1] \in ws /\ c[2] \in Intent /\ Key[c[2]] = k /\ CountsAdditive(d[c[1]], c[2])
    OBVIOUS
  <2> QED BY <1>2, <2>1
<1>3. ASSUME NEW v \in ws, NEW i \in Intent,
             Key[i] = k, CountsAdditive(d[v], i), u \in UnitsOf(v, i)
      PROVE  \E c \in S : u \in UnitsOf(c[1], c[2])
  <2>1. <<v, i>> \in S
    BY <1>3
  <2> HIDE DEF S
  <2>2. u \in UnitsOf(<<v, i>>[1], <<v, i>>[2])
    BY <1>3
  <2> QED BY <2>1, <2>2
<1> HIDE DEF S
<1> QED BY <1>1, <1>2, <1>3

(* The use of all workflows is the use of one and the use of the others. *)
LEMMA UsedSplit ==
    ASSUME NEW d, NEW w \in Workflow, NEW k
    PROVE  Used(d, Workflow, k) = Used(d, Workflow \ {w}, k) \cup Used(d, {w}, k)
BY UsedMember

(* The use of workflows whose records are the same is the same. *)
LEMMA UsedSame ==
    ASSUME NEW d, NEW e, NEW ws, NEW k, \A v \in ws : d[v] = e[v]
    PROVE  Used(d, ws, k) = Used(e, ws, k)
<1>1. \A u : u \in Used(d, ws, k) <=> u \in Used(e, ws, k)
  BY UsedMember
<1> QED BY Zenon, <1>1

-----------------------------------------------------------------------------
(* Only a reservation adds use *)

(* Of all transactions only Reserve adds to the entries that count. *)
LEMMA ReserveIsAcquire ==
    ASSUME TypeOK, NEW w \in Workflow, NEW rev, Step(w, rev), Acquires(db[w], db'[w])
    PROVE  CapacityAvailable(db, w)
<1>1. db[w].state = "DecisionRecorded"
  BY DEF Acquires
<1>2. Reserve(w, rev)
  BY <1>1 DEF Step, RecordDecision, RecordExecutionIntent, AuthorizeCredential, StartAttempt,
              MarkProviderCallEntered, Commit, Release, ReleaseAllowed, MarkOutcomeUnknown,
              ReconcileEffect, ReconcileNonEffect, ReconcileInconclusive, Reconcilable
<1> QED BY <1>2 DEF Reserve

(* A move other than a reservation adds nothing to what a record counts    *)
(* for, additive or exclusive.                                             *)
LEMMA MovesAddNothing ==
    ASSUME NEW w \in Workflow, NEW r \in LifecycleRecord, NEW n \in LifecycleRecord,
           r = NoRecord \/ (r.state # "None" /\ RecordInvariant(r)),
           Moves(w, r, n), ~Acquires(r, n), NEW i \in Intent
    PROVE  /\ CountsAdditive(n, i) => CountsAdditive(r, i)
           /\ CountsExclusive(n, i) => CountsExclusive(r, i)
<1> USE DEF CountsAdditive, CountsExclusive, IsCapacityHolding
<1>1. CASE Decides(w, r, n)
  BY <1>1 DEF Decides
<1>2. CASE Keeps(r, n)
  BY <1>2 DEF Keeps, SameEntries
<1>3. CASE Spends(r, n)
  <2>1. RecordShapeIsValid(r)
    BY <1>3 DEF Spends, RecordInvariant, NoRecord
  <2> QED BY <1>3, <2>1 DEF Spends, RecordShapeIsValid, ReservationsAreLive
<1>4. CASE Returns(r, n)
  BY <1>4 DEF Returns
<1> QED BY <1>1, <1>2, <1>3, <1>4 DEF Moves

(* A freshly reserved record counts for the intents of its plan. *)
LEMMA AcquiresPlan ==
    ASSUME NEW w \in Workflow, NEW r \in LifecycleRecord, NEW n,
           Acquires(r, n), NEW i \in Intent, CountsAdditive(n, i) \/ CountsExclusive(n, i)
    PROVE  i \in Plan[r.input]
BY DEF Acquires, CountsAdditive, CountsExclusive

-----------------------------------------------------------------------------
(* Additive capacity *)

(* A transaction of workflow w keeps every additive key within its ceiling. *)
LEMMA StepAdditive ==
    ASSUME DistinctKeys, LifecycleInvariant, AdditiveCapacity,
           NEW w \in Workflow, NEW rev, Step(w, rev)
    PROVE  AdditiveCapacity'
<1> SUFFICES ASSUME NEW k \in Additive
             PROVE  Cardinality(Used(db', Workflow, k)) <= Ceiling[k]
  BY DEF AdditiveCapacity
<1> DEFINE r == db[w]
           n == db'[w]
           others == Used(db, Workflow \ {w}, k)
<1>1. /\ TypeOK /\ r \in LifecycleRecord /\ n \in LifecycleRecord
      /\ r = NoRecord \/ (r.state # "None" /\ RecordInvariant(r))
  BY StepType DEF LifecycleInvariant, TypeOK
<1>2. Moves(w, r, n) /\ \A v \in Workflow \ {w} : db'[v] = db[v]
  BY <1>1, StepMoves DEF TypeOK
<1>3. Used(db', Workflow, k) = others \cup Used(db', {w}, k)
  BY <1>2, UsedSplit, UsedSame
<1>4. Used(db, Workflow, k) = others \cup Used(db, {w}, k)
  BY UsedSplit
<1>5. /\ IsFiniteSet(others) /\ Cardinality(others) \in Nat
      /\ IsFiniteSet(Used(db, Workflow, k)) /\ Cardinality(Used(db, Workflow, k)) \in Nat
      /\ Cardinality(Used(db, Workflow, k)) <= Ceiling[k] /\ Ceiling[k] \in Nat
  BY UsedFinite, ConfigurationAssumption DEF AdditiveCapacity
<1>6. CASE Used(db', {w}, k) \subseteq Used(db, {w}, k)
  <2>1. Used(db', Workflow, k) \in SUBSET Used(db, Workflow, k)
    BY <1>3, <1>4, <1>6
  <2>2. Cardinality(Used(db', Workflow, k)) <= Cardinality(Used(db, Workflow, k))
    BY <1>5, <2>1, FS_Subset
  <2>3. Cardinality(Used(db', Workflow, k)) \in Nat
    BY <1>5, <2>1, FS_Subset, FS_CardinalityType
  <2> QED BY <1>5, <2>2, <2>3
<1>7. CASE ~Acquires(r, n)
  <2>1. \A i \in Intent : CountsAdditive(n, i) => CountsAdditive(r, i)
    BY <1>1, <1>2, <1>7, MovesAddNothing
  <2>2. Used(db', {w}, k) \subseteq Used(db, {w}, k)
    BY <2>1, UsedMember
  <2> QED BY <1>6, <2>2
<1>8. CASE Acquires(r, n)
  <2>1. CapacityAvailable(db, w) /\ r.input \in Input /\ Plan[r.input] \subseteq Intent
    BY <1>1, <1>8, ReserveIsAcquire, ConfigurationAssumption DEF TypeOK, Acquires, NoRecord
  <2>2. CASE \E i \in Plan[r.input] : Key[i] = k
    <3>1. PICK i \in Plan[r.input] : Key[i] = k
      BY <2>2
    <3>2. i \in Intent /\ Amount[i] \in Nat /\ Cardinality(others) + Amount[i] <= Ceiling[k]
      BY Zenon, <2>1, <3>1, ConfigurationAssumption DEF CapacityAvailable
    <3>3. Used(db', {w}, k) \in SUBSET UnitsOf(w, i)
      <4> SUFFICES ASSUME NEW u \in Used(db', {w}, k)
                   PROVE  u \in UnitsOf(w, i)
        OBVIOUS
      <4>1. PICK j \in Intent : Key[j] = k /\ CountsAdditive(n, j) /\ u \in UnitsOf(w, j)
        BY UsedMember
      <4>2. j \in Plan[r.input]
        BY <1>1, <1>8, <4>1, AcquiresPlan
      <4>3. j = i
        BY <2>1, <3>1, <4>1, <4>2 DEF DistinctKeys
      <4> QED BY <4>1, <4>3
    <3>4. /\ IsFiniteSet(Used(db', {w}, k)) /\ Cardinality(Used(db', {w}, k)) \in Nat
          /\ Cardinality(Used(db', {w}, k)) <= Amount[i]
      <4>1. IsFiniteSet(UnitsOf(w, i)) /\ Cardinality(UnitsOf(w, i)) = Amount[i]
        BY <3>2, UnitsCardinality
      <4>2. /\ IsFiniteSet(Used(db', {w}, k))
            /\ Cardinality(Used(db', {w}, k)) <= Cardinality(UnitsOf(w, i))
        BY Zenon, <3>3, <4>1, FS_Subset
      <4> QED BY <4>1, <4>2, FS_CardinalityType
    <3>5. /\ IsFiniteSet(others \cap Used(db', {w}, k))
          /\ Cardinality(others \cap Used(db', {w}, k)) \in Nat
      BY Zenon, <1>5, FS_Intersection, FS_CardinalityType
    <3>6. Cardinality(Used(db', Workflow, k)) =
            Cardinality(others) + Cardinality(Used(db', {w}, k))
              - Cardinality(others \cap Used(db', {w}, k))
      BY Zenon, <1>3, <1>5, <3>4, FS_Union
    <3> QED BY <1>5, <3>2, <3>4, <3>5, <3>6
  <2>3. CASE \A i \in Plan[r.input] : Key[i] # k
    <3>1. Used(db', {w}, k) = {}
      BY <1>1, <1>8, <2>3, UsedMember, AcquiresPlan
    <3> QED BY <1>6, <3>1
  <2> QED BY <2>2, <2>3
<1> QED BY <1>7, <1>8

(* The empty store uses nothing. *)
LEMMA InitAdditive == Init => AdditiveCapacity
<1> SUFFICES ASSUME Init, NEW k \in Additive
             PROVE  Cardinality(Used(db, Workflow, k)) <= Ceiling[k]
  BY DEF AdditiveCapacity
<1>1. Used(db, Workflow, k) = {}
  BY UsedMember DEF Init, NoRecord, CountsAdditive
<1>2. Ceiling[k] \in Nat
  BY ConfigurationAssumption
<1> QED BY <1>1, <1>2, FS_EmptySet

(* Additive capacity is never oversubscribed, whatever the number of       *)
(* workflows and however their transactions interleave, as long as no plan *)
(* names a key twice.                                                      *)
THEOREM AdditiveCapacityAlways ==
    ASSUME DistinctKeys
    PROVE  Spec => []AdditiveCapacity
<1>2. LifecycleInvariant /\ AdditiveCapacity /\ [Next]_lifecycleVars => AdditiveCapacity'
  <2> SUFFICES ASSUME LifecycleInvariant, AdditiveCapacity, [Next]_lifecycleVars
               PROVE  AdditiveCapacity'
    OBVIOUS
  <2>1. ASSUME NEW w \in Workflow, Step(w, db[w].revision)
        PROVE  AdditiveCapacity'
    BY <2>1, StepAdditive
  <2>2. CASE db' = db
    BY <2>2 DEF AdditiveCapacity
  <2> QED BY <2>1, <2>2 DEF Next, Lapse, lifecycleVars
<1> QED BY <1>2, InitAdditive, Invariance, PTL DEF Spec

-----------------------------------------------------------------------------
(* Exclusive capacity *)

(* A transaction of workflow w leaves at most one owner of an exclusive key. *)
LEMMA StepExclusive ==
    ASSUME DistinctKeys, LifecycleInvariant, ExclusiveCapacity,
           NEW w \in Workflow, NEW rev, Step(w, rev)
    PROVE  ExclusiveCapacity'
<1> SUFFICES ASSUME NEW k \in Exclusive,
                    NEW v1 \in Workflow, NEW i1 \in Intent,
                    NEW v2 \in Workflow, NEW i2 \in Intent,
                    Key[i1] = k, CountsExclusive(db'[v1], i1),
                    Key[i2] = k, CountsExclusive(db'[v2], i2)
             PROVE  v1 = v2 /\ i1 = i2
  BY DEF ExclusiveCapacity, Owners
<1> DEFINE r == db[w]
           n == db'[w]
<1>1. /\ TypeOK /\ r \in LifecycleRecord /\ n \in LifecycleRecord
      /\ r = NoRecord \/ (r.state # "None" /\ RecordInvariant(r))
  BY StepType DEF LifecycleInvariant, TypeOK
<1>2. Moves(w, r, n) /\ \A v \in Workflow \ {w} : db'[v] = db[v]
  BY <1>1, StepMoves DEF TypeOK
<1>3. ASSUME NEW v \in Workflow, NEW i \in Intent, Key[i] = k, CountsExclusive(db[v], i),
             NEW u \in Workflow, NEW j \in Intent, Key[j] = k, CountsExclusive(db[u], j)
      PROVE  v = u /\ i = j
  <2>1. <<v, i>> \in Owners(db, Workflow, k) /\ <<u, j>> \in Owners(db, Workflow, k)
    BY <1>3 DEF Owners
  <2>2. <<v, i>> = <<u, j>>
    BY <2>1 DEF ExclusiveCapacity
  <2> QED BY <2>2
<1>4. CASE ~Acquires(r, n)
  <2>1. \A i \in Intent : CountsExclusive(n, i) => CountsExclusive(r, i)
    BY <1>1, <1>2, <1>4, MovesAddNothing
  <2>2. CountsExclusive(db[v1], i1) /\ CountsExclusive(db[v2], i2)
    BY <1>2, <2>1
  <2> QED BY <1>3, <2>2
<1>5. CASE Acquires(r, n)
  <2>1. /\ CapacityAvailable(db, w) /\ r.input \in Input
        /\ Additive \cap Exclusive = {}
    BY <1>1, <1>5, ReserveIsAcquire, ConfigurationAssumption DEF TypeOK, Acquires, NoRecord
  <2>2. \A i \in Intent : CountsExclusive(n, i) => i \in Plan[r.input]
    BY <1>1, <1>5, AcquiresPlan
  <2>3. ASSUME NEW i \in Intent, Key[i] = k, CountsExclusive(n, i),
               NEW u \in Workflow \ {w}, NEW j \in Intent, Key[j] = k
        PROVE  ~CountsExclusive(db[u], j)
    <3>1. Owners(db, Workflow \ {w}, k) = {}
      BY Zenon, <2>1, <2>2, <2>3 DEF CapacityAvailable
    <3>2. CountsExclusive(db[u], j) => <<u, j>> \in Owners(db, Workflow \ {w}, k)
      BY <2>3 DEF Owners
    <3> QED BY <3>1, <3>2
  <2>4. CASE v1 = w /\ v2 = w
    BY <2>1, <2>2, <2>4 DEF DistinctKeys
  <2>5. CASE v1 # w /\ v2 # w
    BY <1>2, <1>3, <2>5
  <2>6. CASE v1 = w /\ v2 # w
    BY <1>2, <2>3, <2>6
  <2>7. CASE v1 # w /\ v2 = w
    BY <1>2, <2>3, <2>7
  <2> QED BY SMTT(20), <2>4, <2>5, <2>6, <2>7
<1> QED BY <1>4, <1>5

(* An exclusive key never has two live owners, for all workflows and       *)
(* interleavings, as long as no plan names a key twice: the Corrupt answer *)
(* of capacity_snapshot is then unreachable.                               *)
THEOREM ExclusiveCapacityAlways ==
    ASSUME DistinctKeys
    PROVE  Spec => []ExclusiveCapacity
<1>1. Init => ExclusiveCapacity
  BY DEF Init, NoRecord, ExclusiveCapacity, Owners, CountsExclusive
<1>2. LifecycleInvariant /\ ExclusiveCapacity /\ [Next]_lifecycleVars => ExclusiveCapacity'
  <2> SUFFICES ASSUME LifecycleInvariant, ExclusiveCapacity, [Next]_lifecycleVars
               PROVE  ExclusiveCapacity'
    OBVIOUS
  <2>1. ASSUME NEW w \in Workflow, Step(w, db[w].revision)
        PROVE  ExclusiveCapacity'
    BY <2>1, StepExclusive
  <2>2. CASE db' = db
    BY <2>2 DEF ExclusiveCapacity
  <2> QED BY <2>1, <2>2 DEF Next, Lapse, lifecycleVars
<1> QED BY <1>1, <1>2, Invariance, PTL DEF Spec

-----------------------------------------------------------------------------
(* Capacity is returned only by a release *)

(* A move that is not a return keeps what the record counts for; a return  *)
(* gives all of it back.                                                   *)
LEMMA MovesReturn ==
    ASSUME NEW w \in Workflow, NEW r \in LifecycleRecord, NEW n \in LifecycleRecord,
           r = NoRecord \/ (r.state # "None" /\ RecordInvariant(r)),
           Moves(w, r, n), NEW i \in Intent
    PROVE  IF Returns(r, n) THEN ~CountsAdditive(n, i)
                            ELSE CountsAdditive(r, i) => CountsAdditive(n, i)
<1> USE DEF CountsAdditive, IsCapacityHolding
<1>1. CASE Decides(w, r, n)
  BY SMTT(20), <1>1 DEF Decides, NoRecord, Returns
<1>2. CASE ~Decides(w, r, n)
  <2>1. RecordInvariant(r) /\ RecordShapeIsValid(r)
    BY <1>2, MovesFromRecord, NoRecordFields DEF RecordInvariant
  <2>2. CASE Acquires(r, n)
    BY Zenon, <2>1, <2>2 DEF Acquires, Returns, RecordShapeIsValid
  <2>3. CASE Keeps(r, n)
    BY <2>3 DEF Keeps, SameEntries, Returns
  <2>4. CASE Spends(r, n)
    BY <2>4 DEF Spends, Returns
  <2>5. CASE Returns(r, n)
    BY <2>1, <2>5 DEF Returns, RecordShapeIsValid, ReservationsAreLive
  <2> QED BY Zenon, <1>2, <2>2, <2>3, <2>4, <2>5 DEF Moves
<1> QED BY Zenon, <1>1, <1>2

(* For every configuration, capacity comes back only in the step that      *)
(* persists a release, as a whole, and out of an unknown outcome only with *)
(* a NonEffect observation.                                                *)
THEOREM UseReturnedOnlyByReleaseAlways == Spec => UseReturnedOnlyByRelease
<1> DEFINE A == \A w \in Workflow : ~(HeldBy(w) \subseteq HeldBy(w)') =>
          /\ db'[w].state \in {"Released", "ReconciledReleased"}
          /\ HeldBy(w)' = {}
          /\ db[w].state = "OutcomeUnknown" =>
                db'[w].observations = Append(db[w].observations, "NonEffect")
<1>1. LifecycleInvariant /\ [Next]_lifecycleVars => [A]_lifecycleVars
  <2> SUFFICES ASSUME LifecycleInvariant, Next
               PROVE  A
    OBVIOUS
  <2>1. ASSUME NEW w \in Workflow, Step(w, db[w].revision)
        PROVE  A
    <3>1. /\ TypeOK /\ db[w] \in LifecycleRecord /\ db'[w] \in LifecycleRecord
          /\ db[w] = NoRecord \/ (db[w].state # "None" /\ RecordInvariant(db[w]))
      BY <2>1, StepType DEF LifecycleInvariant, TypeOK
    <3>2. Moves(w, db[w], db'[w]) /\ \A v \in Workflow \ {w} : db'[v] = db[v]
      BY <2>1, <3>1, StepMoves DEF TypeOK
    <3>3. CASE Returns(db[w], db'[w])
      <4>1. HeldBy(w)' = {}
        BY <3>1, <3>2, <3>3, MovesReturn DEF HeldBy
      <4>2. \A v \in Workflow \ {w} : HeldBy(v) \subseteq HeldBy(v)'
        BY <3>2 DEF HeldBy
      <4> QED BY <3>3, <4>1, <4>2 DEF Returns
    <3>4. CASE ~Returns(db[w], db'[w])
      <4>1. HeldBy(w) \subseteq HeldBy(w)'
        BY <3>1, <3>2, <3>4, MovesReturn DEF HeldBy
      <4>2. \A v \in Workflow \ {w} : HeldBy(v) \subseteq HeldBy(v)'
        BY <3>2 DEF HeldBy
      <4> QED BY <4>1, <4>2
    <3> QED BY <3>3, <3>4
  <2>2. CASE db' = db
    BY <2>2 DEF HeldBy
  <2> QED BY <2>1, <2>2 DEF Next, Lapse
<1> QED BY <1>1, Invariance, PTL DEF Spec, UseReturnedOnlyByRelease

-----------------------------------------------------------------------------
(* The lifecycle store implements the reservation ledger, for every        *)
(* configuration whose plans name no capacity key twice.                   *)

(* The phase of a record by its state. *)
LEMMA Phases ==
    ASSUME NEW r
    PROVE  /\ r.state \in {"None", "DecisionRecorded"} => PhaseOf(r) = "idle"
           /\ r.state \in {"Reserved", "ExecutionIntentRecorded", "Executing", "OutcomeUnknown"}
                => PhaseOf(r) = "held"
           /\ r.state \in {"Committed", "ReconciledCommitted"} => PhaseOf(r) = "spent"
           /\ r.state \in {"Released", "ReconciledReleased"} => PhaseOf(r) = "returned"
BY DEF PhaseOf, IsCapacityHolding

(* What is charged is what counts against the rules. *)
LEMMA ChargedCounts ==
    ASSUME NEW r \in LifecycleRecord, NEW i \in Intent,
           r = NoRecord \/ (r.state # "None" /\ RecordInvariant(r))
    PROVE  /\ CountsAdditive(r, i) <=> i \in ChargedTo(r)
           /\ CountsExclusive(r, i) <=>
                i \in ChargedTo(r) /\ (PhaseOf(r) = "held" \/ Key[i] \in Retain)
<1> USE DEF CountsAdditive, CountsExclusive, ChargedTo
<1>1. CASE r = NoRecord
  BY <1>1 DEF NoRecord
<1>2. CASE r.state # "None" /\ RecordInvariant(r)
  <2>1. RecordShapeIsValid(r) /\ r.state \in LifecycleState
    BY <1>2 DEF RecordInvariant, LifecycleRecord
  <2>2. CASE r.state = "DecisionRecorded"
    BY <2>1, <2>2 DEF RecordShapeIsValid
  <2>3. CASE IsCapacityHolding(r.state)
    BY <2>1, <2>3, Phases DEF RecordShapeIsValid, ReservationsAreLive, IsCapacityHolding
  <2>4. CASE r.state \in {"Committed", "ReconciledCommitted"}
    BY <2>1, <2>4, Phases DEF RecordShapeIsValid, IsCapacityHolding
  <2>5. CASE r.state \in {"Released", "ReconciledReleased"}
    BY <2>1, <2>5 DEF RecordShapeIsValid, IsCapacityHolding
  <2> QED BY Zenon, <2>1, <2>2, <2>3, <2>4, <2>5 DEF LifecycleState, IsCapacityHolding
<1> QED BY <1>1, <1>2

(* The ledger's capacity condition is the store's. *)
LEMMA LedgerFits ==
    LifecycleInvariant /\ AdditiveCapacity /\ ExclusiveCapacity => Ledger!Fits
<1> SUFFICES ASSUME LifecycleInvariant, AdditiveCapacity, ExclusiveCapacity
             PROVE  Ledger!Fits
  OBVIOUS
<1> DEFINE charged == [w \in Workflow |-> ChargedTo(db[w])]
           phase == [w \in Workflow |-> PhaseOf(db[w])]
<1>1. ASSUME NEW w \in Workflow, NEW i \in Intent
      PROVE  /\ CountsAdditive(db[w], i) <=> i \in charged[w]
             /\ CountsExclusive(db[w], i) <=>
                  i \in charged[w] /\ (phase[w] = "held" \/ Key[i] \in Retain)
  BY ChargedCounts DEF LifecycleInvariant, TypeOK
<1>2. ASSUME NEW k \in Additive
      PROVE  Cardinality(Ledger!Use(k)) <= Ceiling[k]
  <2>1. {p \in Workflow \X Intent : Key[p[2]] = k /\ p[2] \in charged[p[1]]} =
        {p \in Workflow \X Intent : Key[p[2]] = k /\ CountsAdditive(db[p[1]], p[2])}
    <3> HIDE DEF charged
    <3> QED BY <1>1
  <2>2. Ledger!Use(k) = Used(db, Workflow, k)
    BY Zenon, <2>1 DEF Ledger!Use, Used, UnitsOf
  <2> QED BY <2>2 DEF AdditiveCapacity
<1>3. ASSUME NEW k \in Exclusive
      PROVE  \A p, q \in Ledger!Owner(k) : p = q
  <2>1. Ledger!Owner(k) = Owners(db, Workflow, k)
    <3> HIDE DEF charged, phase
    <3>1. Owners(db, Workflow, k) =
            {p \in Workflow \X Intent : Key[p[2]] = k /\ p[2] \in charged[p[1]]
                                        /\ (phase[p[1]] = "held" \/ k \in Retain)}
      BY <1>1 DEF Owners
    <3> QED BY <3>1 DEF Ledger!Owner, charged, phase
  <2> QED BY <2>1 DEF ExclusiveCapacity
<1>4. ASSUME NEW S PROVE Ledger!Cardinality(S) = Cardinality(S)
  BY DEF Ledger!Cardinality, Cardinality
<1> QED BY <1>2, <1>3, <1>4 DEF Ledger!Fits

(* A transaction is one ledger step of its workflow, or invisible. *)
LEMMA StepSimulates ==
    ASSUME LifecycleInvariant, Ledger!Fits', NEW w \in Workflow, NEW rev, Step(w, rev)
    PROVE  [Ledger!LedgerNext]_(Ledger!ledgerVars)
<1> DEFINE r == db[w]
           n == db'[w]
           charged == [v \in Workflow |-> ChargedTo(db[v])]
           phase == [v \in Workflow |-> PhaseOf(db[v])]
<1>1. /\ TypeOK /\ r \in LifecycleRecord /\ n \in LifecycleRecord
      /\ r = NoRecord \/ (r.state # "None" /\ RecordInvariant(r))
  BY StepType DEF LifecycleInvariant, TypeOK
<1>2. Moves(w, r, n) /\ \A v \in Workflow \ {w} : db'[v] = db[v]
  BY <1>1, StepMoves DEF TypeOK
<1>3. ASSUME NEW set, NEW to, ChargedTo(n) = set, PhaseOf(n) = to
      PROVE  /\ charged' = [charged EXCEPT ![w] = set]
             /\ phase' = [phase EXCEPT ![w] = to]
  BY Zenon, <1>2, <1>3
<1>4. ASSUME ChargedTo(n) = ChargedTo(r), PhaseOf(n) = PhaseOf(r)
      PROVE  UNCHANGED Ledger!ledgerVars
  <2>1. charged' = charged /\ phase' = phase
    BY <1>2, <1>4
  <2> QED BY <2>1 DEF Ledger!ledgerVars
<1>5. CASE Decides(w, r, n)
  <2>1. ChargedTo(n) = {} /\ ChargedTo(r) = {} /\ PhaseOf(n) = "idle" /\ PhaseOf(r) = "idle"
    BY SMTT(20), <1>1, <1>5, Phases DEF Decides, ChargedTo, NoRecord
  <2> QED BY <1>4, <2>1
<1>6. CASE ~Decides(w, r, n)
  <2>1. RecordShapeIsValid(r) /\ (r.state = "DecisionRecorded" => ReservationsAreLive(r))
    <3>1. r # NoRecord
      BY <1>2, <1>6, MovesFromRecord, NoRecordFields
    <3> QED BY <1>1, <3>1 DEF RecordInvariant
  <2>2. CASE Acquires(r, n)
    <3>1. ChargedTo(n) = Plan[r.input] /\ PhaseOf(n) = "held" /\ PhaseOf(r) = "idle"
      BY Zenon, <2>1, <2>2, Phases DEF Acquires, ChargedTo, ReservationsAreLive
    <3>2. r.input \in Input
      BY <1>1, <2>2, ConfigurationAssumption DEF TypeOK, Acquires, NoRecord
    <3>3. /\ charged' = [charged EXCEPT ![w] = Plan[r.input]]
          /\ phase' = [phase EXCEPT ![w] = "held"]
      BY Zenon, <1>3, <3>1
    <3>4. Ledger!Move(w, "idle", "held", Plan[r.input])
      BY <3>1, <3>3 DEF Ledger!Move
    <3>5. Ledger!Acquire(w)
      BY <3>2, <3>4 DEF Ledger!Acquire
    <3> QED BY <3>5 DEF Ledger!LedgerNext
  <2>3. CASE Keeps(r, n)
    <3>1. ChargedTo(n) = ChargedTo(r) /\ PhaseOf(n) = PhaseOf(r)
      BY <2>3, Phases DEF Keeps, SameEntries, ChargedTo
    <3> QED BY SMTT(20), <1>4, <3>1
  <2>4. CASE Spends(r, n)
    <3>1. ChargedTo(n) = charged[w] /\ PhaseOf(n) = "spent" /\ PhaseOf(r) = "held"
      BY <2>4, Phases DEF Spends, ChargedTo
    <3>2. /\ charged' = [charged EXCEPT ![w] = charged[w]]
          /\ phase' = [phase EXCEPT ![w] = "spent"]
      BY Zenon, <1>3, <3>1
    <3>3. Ledger!Spend(w)
      BY <3>1, <3>2 DEF Ledger!Spend, Ledger!Move
    <3> QED BY <3>3 DEF Ledger!LedgerNext
  <2>5. CASE Returns(r, n)
    <3>1. ChargedTo(n) = {} /\ PhaseOf(n) = "returned" /\ PhaseOf(r) = "held"
      BY <2>5, Phases DEF Returns, ChargedTo
    <3>2. /\ charged' = [charged EXCEPT ![w] = {}]
          /\ phase' = [phase EXCEPT ![w] = "returned"]
      BY Zenon, <1>3, <3>1
    <3>3. Ledger!Return(w)
      BY <3>1, <3>2 DEF Ledger!Return, Ledger!Move
    <3> QED BY <3>3 DEF Ledger!LedgerNext
  <2> QED BY Zenon, <1>2, <1>6, <2>2, <2>3, <2>4, <2>5 DEF Moves
<1> QED BY <1>5, <1>6

(* The store implements the ledger: what a workflow reserves is acquired   *)
(* as a whole, within every ceiling and exclusive key, and is spent or     *)
(* returned once, for every configuration without a repeated key.          *)
THEOREM StoreImplementsLedger ==
    ASSUME DistinctKeys
    PROVE  Spec => ImplementsLedger
<1>1. Init => Ledger!LedgerInit
  <2> SUFFICES ASSUME Init PROVE Ledger!LedgerInit
    OBVIOUS
  <2>1. \A w \in Workflow : ChargedTo(db[w]) = {} /\ PhaseOf(db[w]) = "idle"
    BY Phases DEF Init, NoRecord, ChargedTo
  <2> QED BY <2>1 DEF Ledger!LedgerInit
<1>2. LifecycleInvariant /\ Ledger!Fits' /\ [Next]_lifecycleVars
        => [Ledger!LedgerNext]_(Ledger!ledgerVars)
  <2> SUFFICES ASSUME LifecycleInvariant, Ledger!Fits', [Next]_lifecycleVars
               PROVE  [Ledger!LedgerNext]_(Ledger!ledgerVars)
    OBVIOUS
  <2>1. ASSUME NEW w \in Workflow, Step(w, db[w].revision)
        PROVE  [Ledger!LedgerNext]_(Ledger!ledgerVars)
    BY <2>1, StepSimulates
  <2>2. CASE db' = db
    BY <2>2 DEF Ledger!ledgerVars
  <2> QED BY <2>1, <2>2 DEF Next, Lapse, lifecycleVars
<1> QED
  BY <1>1, <1>2, LedgerFits, Invariance, AdditiveCapacityAlways, ExclusiveCapacityAlways, PTL
  DEF Spec, ImplementsLedger, Ledger!LedgerSpec

-----------------------------------------------------------------------------
(* The file store *)

(* Every database the store may hold or be opened with. *)
Contents == survivors \cup {db, memory, file}

(* Only a transaction brings a new database about: errors, restarts and    *)
(* power losses choose among those that are there.                         *)
LEMMA NoNewContents ==
    ASSUME [FileNext]_fileVars, ~ \E w \in Workflow : TransactDatabase(w)
    PROVE  Contents' \subseteq Contents
<1>1. CASE \E w \in Workflow : FileLapse(w)
  BY <1>1 DEF FileLapse, Lapse, Contents
<1>2. CASE PersistDatabase
  BY <1>2 DEF PersistDatabase, Contents
<1>3. CASE FailsBeforeReplace
  BY <1>3 DEF FailsBeforeReplace, PersistFails, Contents
<1>4. CASE FailsAfterReplace
  BY <1>4 DEF FailsAfterReplace, PersistFails, Contents
<1>5. CASE ProcessRestarts
  BY <1>5 DEF ProcessRestarts, Open, Contents
<1>6. CASE PowerLoss
  BY <1>6 DEF PowerLoss, Open, Contents
<1>7. CASE UNCHANGED fileVars
  BY <1>7 DEF fileVars, Contents
<1> QED BY Zenon, <1>1, <1>2, <1>3, <1>4, <1>5, <1>6, <1>7 DEF FileNext

(* A transaction adds its successor database and nothing else. *)
LEMMA TransactContents ==
    ASSUME NEW w, TransactDatabase(w)
    PROVE  Contents' \subseteq Contents \cup {db'} /\ acked' = acked
BY DEF TransactDatabase, Contents

(* Acknowledged histories change only when persist_database succeeds. *)
LEMMA AckedOnlyByPersist ==
    ASSUME [FileNext]_fileVars, ~PersistDatabase
    PROVE  acked' = acked
BY DEF FileNext, TransactDatabase, FileLapse, FailsBeforeReplace, FailsAfterReplace,
       PersistFails, ProcessRestarts, PowerLoss, Open, fileVars

(* No step of the file store changes lapsed to something that is no set of *)
(* workflows.                                                              *)
LEMMA LapsedType ==
    ASSUME TypeOK, [FileNext]_fileVars
    PROVE  lapsed' \subseteq Workflow
<1>1. ASSUME NEW w \in Workflow, TransactDatabase(w) PROVE lapsed' \subseteq Workflow
  BY <1>1, StepMoves DEF TransactDatabase, TypeOK
<1>2. ASSUME NEW w \in Workflow, FileLapse(w) PROVE lapsed' \subseteq Workflow
  BY <1>2 DEF FileLapse, Lapse, TypeOK
<1>3. CASE lapsed' = lapsed
  BY <1>3 DEF TypeOK
<1> QED BY Zenon, <1>1, <1>2, <1>3 DEF FileNext, PersistDatabase, FailsBeforeReplace,
           FailsAfterReplace, PersistFails, ProcessRestarts, PowerLoss, Open, fileVars

-----------------------------------------------------------------------------
(* Acknowledged transitions survive *)

(* A sequence that starts with t still does when an element is appended. *)
LEMMA AppendStartsWith ==
    ASSUME NEW S, NEW s \in Seq(S), NEW t \in Seq(S), NEW e \in S, StartsWith(s, t)
    PROVE  StartsWith(Append(s, e), t)
<1>1. /\ Len(s) \in Nat /\ Len(t) \in Nat /\ Len(t) <= Len(s) /\ SubSeq(s, 1, Len(t)) = t
  BY LenProperties DEF StartsWith
<1>2. /\ Len(Append(s, e)) = Len(s) + 1
      /\ \A i \in 1 .. Len(s) : Append(s, e)[i] = s[i] /\ s[i] \in S
  BY AppendProperties, ElementOfSeq
<1> DEFINE u == SubSeq(Append(s, e), 1, Len(t))
           v == SubSeq(s, 1, Len(t))
<1>3. CASE Len(t) = 0
  BY <1>1, <1>2, <1>3, SubSeqEmpty DEF StartsWith
<1>4. CASE Len(t) > 0
  <2>1. \A i \in 1 .. Len(t) : Append(s, e)[i] = s[i] /\ s[i] \in S /\ Append(s, e)[i] \in S
    BY <1>1, <1>2
  <2>2. u \in Seq(S) /\ Len(u) = Len(t) /\ \A i \in 1 .. Len(t) : u[i] = Append(s, e)[i]
    BY <1>1, <1>4, <2>1, SubSeqProperties
  <2>3. v \in Seq(S) /\ Len(v) = Len(t) /\ \A i \in 1 .. Len(t) : v[i] = s[i]
    BY <1>1, <1>4, <2>1, SubSeqProperties
  <2> HIDE DEF u, v
  <2>4. u = v
    <3>1. Len(u) = Len(v) /\ \A i \in 1 .. Len(u) : u[i] = v[i]
      BY Zenon, <2>1, <2>2, <2>3
    <3>2. u \in Seq(S) /\ v \in Seq(S)
      BY <2>2, <2>3
    <3> QED BY ONLY <3>1, <3>2, SeqEqual
  <2> QED BY <1>1, <1>2, <2>4 DEF u, v, StartsWith
<1> QED BY <1>1, <1>3, <1>4

(* A database with the types of TypeOK. *)
WellTyped(d) ==
    /\ d \in [Workflow -> LifecycleRecord]
    /\ \A w \in Workflow :
          IF d[w].state = "None" THEN d[w] = NoRecord ELSE d[w].input \in InputsOf[w]

Acknowledges(d) == \A w \in Workflow : StartsWith(d[w].events, acked[w])

(* The inductive invariant: also the successor database that is being      *)
(* persisted extends what was acknowledged.                                *)
AcknowledgedInvariant ==
    /\ lapsed \subseteq Workflow
    /\ acked \in [Workflow -> Seq(EventRecord)]
    /\ \A d \in Contents : WellTyped(d) /\ Acknowledges(d)

(* A transaction only appends to the history of its workflow. *)
LEMMA StepAppends ==
    ASSUME TypeOK, NEW w \in Workflow, NEW rev, Step(w, rev)
    PROVE  /\ \E e \in EventRecord : db'[w].events = Append(db[w].events, e)
           /\ \A v \in Workflow \ {w} : db'[v] = db[v]
<1>1. Moves(w, db[w], db'[w]) /\ db' = [db EXCEPT ![w] = db'[w]]
  BY StepMoves
<1>2. db[w] \in LifecycleRecord /\ db'[w] \in LifecycleRecord
  BY StepType DEF TypeOK
<1>3. db'[w].state \in LifecycleState
  BY Zenon, <1>1, <1>2, MovesToRecord DEF LifecycleRecord
<1>4. NewEvent(db[w], db'[w].state) \in EventRecord
  BY Zenon, <1>2, <1>3, EventKindType DEF NewEvent, EventRecord, LifecycleRecord
<1>5. db'[w].events = Append(db[w].events, NewEvent(db[w], db'[w].state))
  BY <1>1 DEF Moves, Appends
<1> QED BY <1>1, <1>4, <1>5 DEF TypeOK

(* Acknowledged transitions are never lost, for every configuration and    *)
(* however often writes fail, the process restarts and power is lost.      *)
THEOREM AcknowledgedSurvivesAlways == FileSpec => []AcknowledgedSurvives
<1>1. FileInit => AcknowledgedInvariant
  <2> SUFFICES ASSUME FileInit PROVE AcknowledgedInvariant
    OBVIOUS
  <2>1. TypeOK
    BY InitInvariant DEF FileInit, LifecycleInvariant
  <2>2. Contents = {db} /\ acked = [w \in Workflow |-> << >>]
    BY DEF FileInit, Contents
  <2>3. StartsWith(<< >>, << >>)
    BY SubSeqEmpty DEF StartsWith
  <2>4. Acknowledges(db)
    BY <2>2, <2>3, NoRecordFields DEF FileInit, Init, Acknowledges
  <2>5. acked \in [Workflow -> Seq(EventRecord)]
    BY <2>2, EmptySeq
  <2> QED BY <2>1, <2>2, <2>4, <2>5 DEF AcknowledgedInvariant, WellTyped, TypeOK
<1>2. AcknowledgedInvariant /\ [FileNext]_fileVars => AcknowledgedInvariant'
  <2> SUFFICES ASSUME AcknowledgedInvariant, [FileNext]_fileVars
               PROVE  AcknowledgedInvariant'
    OBVIOUS
  <2>0. TypeOK /\ WellTyped(db) /\ Acknowledges(db)
    BY Zenon DEF AcknowledgedInvariant, Contents, WellTyped, TypeOK
  <2>l. lapsed' \subseteq Workflow
    BY <2>0, LapsedType
  <2>1. ASSUME NEW w \in Workflow, TransactDatabase(w)
        PROVE  AcknowledgedInvariant'
    <3>1. Step(w, db[w].revision)
      BY Zenon, <2>1 DEF TransactDatabase
    <3>2. TypeOK' /\ WellTyped(db')
      BY <2>0, <3>1, StepType DEF TypeOK, WellTyped
    <3>3. PICK e \in EventRecord : /\ db'[w].events = Append(db[w].events, e)
                                  /\ \A v \in Workflow \ {w} : db'[v] = db[v]
      BY Zenon, <2>0, <3>1, StepAppends
    <3>4. db[w].events \in Seq(EventRecord) /\ acked[w] \in Seq(EventRecord)
      BY <2>0 DEF TypeOK, LifecycleRecord, AcknowledgedInvariant
    <3>5. StartsWith(db'[w].events, acked[w])
      BY <2>0, <3>3, <3>4, AppendStartsWith DEF Acknowledges
    <3>6. \A v \in Workflow : StartsWith(db'[v].events, acked[v])
      BY Zenon, <2>0, <3>3, <3>5 DEF Acknowledges
    <3>7. Contents' \subseteq Contents \cup {db'} /\ acked' = acked
      BY <2>1, TransactContents
    <3>8. ASSUME NEW d \in Contents' PROVE WellTyped(d) /\ Acknowledges(d)'
      BY Zenon, <3>2, <3>6, <3>7 DEF Acknowledges, AcknowledgedInvariant
    <3> QED BY <2>l, <3>7, <3>8 DEF AcknowledgedInvariant, WellTyped, Acknowledges
  <2>2. CASE PersistDatabase
    <3>1. /\ Contents' = {db}
          /\ acked' = [w \in Workflow |-> IF db[w] = memory[w] THEN acked[w] ELSE db[w].events]
      BY <2>2 DEF PersistDatabase, Contents
    <3>2. ASSUME NEW w \in Workflow
          PROVE  /\ acked'[w] \in Seq(EventRecord)
                 /\ StartsWith(db[w].events, acked'[w])
      <4>1. db[w].events \in Seq(EventRecord) /\ acked[w] \in Seq(EventRecord)
        BY <2>0 DEF TypeOK, LifecycleRecord, AcknowledgedInvariant
      <4>2. StartsWith(db[w].events, db[w].events)
        BY <4>1, SubSeqFull, LenProperties DEF StartsWith
      <4> QED BY Zenon, <2>0, <3>1, <4>1, <4>2 DEF Acknowledges
    <3>3. acked' \in [Workflow -> Seq(EventRecord)]
      BY <3>1, <3>2
    <3> QED BY Zenon, <2>0, <2>l, <3>1, <3>2, <3>3 DEF AcknowledgedInvariant, Acknowledges, WellTyped
  <2>3. CASE ~PersistDatabase /\ ~ \E w \in Workflow : TransactDatabase(w)
    <3>1. Contents' \subseteq Contents /\ acked' = acked
      BY <2>3, NoNewContents, AckedOnlyByPersist
    <3> QED BY <2>l, <3>1 DEF AcknowledgedInvariant, Acknowledges, WellTyped
  <2> QED BY <2>1, <2>2, <2>3
<1>3. AcknowledgedInvariant => AcknowledgedSurvives
  BY DEF AcknowledgedInvariant, AcknowledgedSurvives, Acknowledges, Contents
<1> QED BY <1>1, <1>2, <1>3, PTL DEF FileSpec

-----------------------------------------------------------------------------
(* Only sound databases are opened *)

(* An encoding store persists only records that pass the integrity check. *)
LEMMA StepEncodes ==
    ASSUME TypeOK, NEW w \in Workflow, NEW rev, Step(w, rev)
    PROVE  ValidRecordIntegrity(db'[w])
<1>1. ASSUME NEW next, Persist(w, next)
      PROVE  ValidRecordIntegrity(db'[w])
  BY Zenon, <1>1, FileStoreAssumption DEF Persist, TypeOK
<1>2. \E next : Persist(w, next)
  <2>1. ASSUME NEW x \in InputsOf[w], RecordDecision(w, rev, x) PROVE \E next : Persist(w, next)
    BY <2>1 DEF RecordDecision
  <2>2. Reserve(w, rev) => \E next : Persist(w, next)
    BY DEF Reserve
  <2>3. RecordExecutionIntent(w, rev) => \E next : Persist(w, next)
    BY DEF RecordExecutionIntent
  <2>4. AuthorizeCredential(w, rev) => \E next : Persist(w, next)
    BY DEF AuthorizeCredential
  <2>5. StartAttempt(w, rev) => \E next : Persist(w, next)
    BY DEF StartAttempt
  <2>6. MarkProviderCallEntered(w, rev) => \E next : Persist(w, next)
    BY DEF MarkProviderCallEntered
  <2>7. Commit(w, rev) => \E next : Persist(w, next)
    BY DEF Commit
  <2>8. ASSUME NEW c \in EffectConclusion, Release(w, rev, c) PROVE \E next : Persist(w, next)
    BY Zenon, <2>8 DEF Release
  <2>9. MarkOutcomeUnknown(w, rev) => \E next : Persist(w, next)
    BY DEF MarkOutcomeUnknown
  <2>10. ReconcileEffect(w, rev) \/ ReconcileNonEffect(w, rev) => \E next : Persist(w, next)
    BY DEF ReconcileEffect, ReconcileNonEffect
  <2>11. ASSUME NEW c \in EffectConclusion, ReconcileInconclusive(w, rev, c)
         PROVE  \E next : Persist(w, next)
    BY Zenon, <2>11 DEF ReconcileInconclusive
  <2> QED BY Zenon, <2>1, <2>2, <2>3, <2>4, <2>5, <2>6, <2>7, <2>8, <2>9, <2>10, <2>11 DEF Step
<1> QED BY <1>1, <1>2

(* What is known of db, said of any database. *)
Sound(d) ==
    /\ WellTyped(d)
    /\ \A w \in Workflow : d[w] = NoRecord \/ (d[w].state # "None" /\ RecordInvariant(d[w]))
    /\ \A k \in Additive : Cardinality(Used(d, Workflow, k)) <= Ceiling[k]
    /\ \A k \in Exclusive : \A p, q \in Owners(d, Workflow, k) : p = q
    /\ \A w \in Workflow : d[w].state # "None" => ValidRecordIntegrity(d[w])

(* A transaction leads from a sound database to a sound one. *)
LEMMA StepSound ==
    ASSUME DistinctKeys, lapsed \subseteq Workflow, Sound(db),
           NEW w \in Workflow, NEW rev, Step(w, rev)
    PROVE  Sound(db')
<1>1. LifecycleInvariant /\ AdditiveCapacity /\ ExclusiveCapacity
  BY DEF Sound, WellTyped, LifecycleInvariant, TypeOK, AdditiveCapacity, ExclusiveCapacity
<1>2. TypeOK
  BY <1>1 DEF LifecycleInvariant
<1>3. LifecycleInvariant' /\ AdditiveCapacity' /\ ExclusiveCapacity'
  BY Zenon, <1>1, StepInvariant, StepAdditive, StepExclusive
<1>4. \A v \in Workflow : db'[v].state # "None" => ValidRecordIntegrity(db'[v])
  BY <1>2, StepEncodes, StepAppends DEF Sound
<1> QED BY Zenon, <1>3, <1>4 DEF Sound, WellTyped, LifecycleInvariant, TypeOK, AdditiveCapacity,
                          ExclusiveCapacity

(* Whatever database the store is opened with after errors, restarts and   *)
(* power losses, capacity is not exceeded in it, no exclusive key has two  *)
(* owners and every record decodes, for every configuration in which no    *)
(* plan names a key twice.                                                 *)
THEOREM SurvivorsAreSoundAlways ==
    ASSUME DistinctKeys
    PROVE  FileSpec => []SurvivorsAreSound
<1> DEFINE SoundInvariant == lapsed \subseteq Workflow /\ \A d \in Contents : Sound(d)
<1>1. FileInit => SoundInvariant
  <2> SUFFICES ASSUME FileInit PROVE SoundInvariant
    OBVIOUS
  <2>1. LifecycleInvariant /\ AdditiveCapacity
    BY Zenon, InitInvariant, InitAdditive DEF FileInit
  <2>2. ExclusiveCapacity /\ \A w \in Workflow : db[w].state = "None"
    BY Zenon DEF FileInit, Init, NoRecord, ExclusiveCapacity, Owners, CountsExclusive
  <2>3. Sound(db)
    BY SMTT(20), <2>1, <2>2 DEF Sound, WellTyped, LifecycleInvariant, TypeOK, AdditiveCapacity,
                      ExclusiveCapacity
  <2> QED BY <2>3 DEF FileInit, Init, Contents
<1>2. SoundInvariant /\ [FileNext]_fileVars => SoundInvariant'
  <2> SUFFICES ASSUME SoundInvariant, [FileNext]_fileVars
               PROVE  SoundInvariant'
    OBVIOUS
  <2>0. Sound(db) /\ TypeOK
    BY DEF Contents, Sound, WellTyped, TypeOK
  <2>1. lapsed' \subseteq Workflow
    BY <2>0, LapsedType
  <2>2. ASSUME NEW w \in Workflow, TransactDatabase(w)
        PROVE  \A d \in Contents' : Sound(d)
    <3>1. Sound(db')
      BY <2>0, <2>2, StepSound DEF TransactDatabase
    <3> QED BY <2>2, <3>1, TransactContents
  <2>3. ASSUME ~ \E w \in Workflow : TransactDatabase(w)
        PROVE  \A d \in Contents' : Sound(d)
    BY Zenon, <2>3, NoNewContents
  <2> QED BY <2>1, <2>2, <2>3 DEF Sound, WellTyped
<1>3. SoundInvariant => SurvivorsAreSound
  BY DEF Sound, SurvivorsAreSound, Contents
<1> QED BY <1>1, <1>2, <1>3, PTL DEF FileSpec
=============================================================================
