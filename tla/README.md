# A TLA+ model of the Auths reservation lifecycle and effect gateway

Auths decides whether an agent may act, reserves the capacity the action needs, lets
one provider call happen, and settles the reservation from what the provider did.
The decision is a pure function. What is hard is the state behind it: records that
several callers move at the same time, calls whose outcome is not known, processes
that stop between two steps. There are two such bodies of state. The *lifecycle* keeps a
record per workflow and is driven by a coordinator or by an integration. The *gateway*
holds the credential of a provider connection, keeps a journal of attempts and sends each
approved request itself. This directory models both in TLA+, checks them with TLC and
proves their main safety properties with TLAPS.

## 1. The system and what is modelled

| Part | Source (under `src/product/`) | Module | Status |
|---|---|---|---|
| Lifecycle transition kernel | `runtime/auths-lifecycle/src/{kernel,transition,model}.rs` | `Lifecycle` | modelled |
| Record integrity of the codec | `runtime/auths-lifecycle/src/codec.rs` | `Lifecycle` (`ValidRecordIntegrity`) | partly: the wire format is pure encoding |
| Sealed transaction boundary | `runtime/auths-lifecycle/src/sealed.rs` | `Lifecycle`, `Coordinator` | partly: digest comparisons are abstracted |
| Lifecycle stores | `stores/auths-stores/src/lifecycle.rs` | `Lifecycle`, `FileStore`, `Coordinator` | partly: no SQL sessions, pooling, TLS |
| Lifecycle coordinator, recovery references and leases | `runtime/auths-runtime/src/production.rs` | `Coordinator` | modelled |
| Records service and its ledger | `integrations/auths-records-api/src/{service,ledger}.rs` | `RecordsService` | modelled |
| Gateway transition and order kernel | `runtime/auths-gateway-kernel/src/` | `GatewayAttempt`, `GatewaySubmit` | modelled |
| Gateway attempt journal and submission | `runtime/auths-gateway/src/{store,submit,entry,bounds}.rs`, `store/` | `GatewaySubmit`, `EffectGate`, `AttemptFiles`, `AtomicRecords` | partly: no candidate and content reads, no disclosures |
| Gateway connection administration | `runtime/auths-gateway/src/{connection,engine,generation_floor}.rs`, credential journal, candidate workflow, server | `GatewayConnection` | partly: no installation, no candidate reads |
| Connection records and credential store | `runtime/auths-connections/src/` | `GatewayConnection` | partly: no size limits, no in-memory store |
| Approval quorum | `sdk/auths-approval-quorum` | none | verifies approvals its caller holds; keeps no state |
| Other integrations | `integrations/*` | none | drive the same lifecycle; `RecordsService` stands for them |
| Bounded policy | `policy/auths-bounded-policy` | none | pure function; its result is an input of the models |
| Proof verification core | `src/core/` | none | pure cryptographic verification, subject of the Lean development under `formal/` |

`PROJECT.json` holds the same inventory, the source lines of every definition, and the
hazards of this code with the properties that watch over each.

### How the parts interact

A caller of the lifecycle (the records service, or a product driving the coordinator) sends
a command with the revision it last saw. The store runs it as one transaction: it
compares the revision, sums up the capacity all *other* workflows use, calls the
transition kernel, and persists the successor. A caller gets an authorization only from an
acknowledged transaction, so a refused or lost one leaves it with nothing.

    RecordsService   Coordinator         callers: sessions, deliveries, workers
            \         /     \
             Lifecycle       bound, lease    store transactions; recovery index
                 |
             FileStore                   memory, file, what a power loss may leave
                 :
             ReservationLedger           the abstract promise (refinement)

A submission to the gateway claims a journal record together with rows of every counter it
is charged to, makes its prerequisite reads, leases the credential, stores its *entry*, and
only then sends. The entry is the permit: whoever stored it may send, nobody else, and a
task that stops in between leaves a record that says so. Operators change the connection
beside this, on every host, through one shared record.

    GatewayConnection                    admin commands, hosts, credential stores
         : the connection row and its generation
    GatewaySubmit  ----:  EffectGate     tasks, journal, rows; at most one send (refinement)
         |
    GatewayAttempt                       the transition rule of one record
         : insert all, replace, sweep
    AttemptFiles   ----:  AtomicRecords  batch file, rollback, power loss (refinement)

`Coordinator`, `RecordsService` and `FileStore` extend `Lifecycle`, and `GatewaySubmit`
extends `GatewayAttempt`; they use its definitions unchanged. `GatewaySubmit` and
`GatewayConnection` meet in the connection row: in `GatewaySubmit` it may change at any
time, in `GatewayConnection` a submission is reduced to its three reads of it.

## 2. Modules

**`Lifecycle`** has one record per workflow in `db` (absent: state `"None"`, revision 0)
and one action per `TransitionCommandV1`. Guards follow `transition_code` and the
per-command predicates; successor records follow `apply_payload` and
`append_transition`. `Transact` is `transact_database` up to the kernel call:
compare-and-swap and the capacity snapshot. `Persist` includes the integrity check an
encoding store makes (`Durable`). A refusal changes nothing and is an action that is not
enabled. `lapsed` stands for expiry, revocation and a changed configuration, which the
code checks in the same places. Abstractions:

- Digests, identifiers, times and receipts are gone. An input is a model value and
  evidence that is offered is fresh and matches the intent.
- Capacity is counted in units. Use of a key is the cardinality of a set, so sums need
  no recursion. `u64` additions are checked in the code and an overflow is refused like a
  sum above the ceiling, so naturals lose nothing.
- An exact replay of a decision changes no state, and is left out like a conflict.
- More than 32 rules make every snapshot too large; the model assumes fewer.

**`ReservationLedger`** is the abstract promise: each workflow acquires a whole plan that
fits, or nothing, and later spends or returns it once, as a whole. **`LifecycleRefinement`**
maps records to it: charged are the entries not marked released, and the
phase follows from the state.

**`FileStore`** splits a transaction of `PersistentLifecycleStore`: `TransactDatabase`
builds the successor (`db` is then ahead of `memory`); `PersistDatabase` writes, replaces,
syncs and exchanges; `FailsBeforeReplace` and `FailsAfterReplace` are the error returns.
`survivors` are the contents a power loss may leave at the path. `ProcessRestarts` reads
the file as it is, `PowerLoss` any survivor. A process that stops in the middle of a write
is a failed write followed by a restart.

**`Coordinator`** has sessions that hold a sealed stage value, the reference index
(`bound`), leases, workers and an external provider. `begin` is two steps (`Bind`,
`BeginDecision`), as in the code, because it may stop between them. A call that
returns an error consumes the stage value, so any error and any crash of the caller is
`Crash`. `Claim` is the PostgreSQL claim; the in-memory index checks less. `reconcile`
does not look at the lease's expiry, and neither does `Reconcile`. The observer is
external and reports non-effect only when the request can no longer arrive: this is an
assumption on integrations, not something the coordinator enforces.

**`RecordsService`** gives every delivery a program counter through `execute_create` and
`execute_read`. Each store transaction and each ledger call is one step. What
`recover_existing` was given is kept in `known`, so a decision taken on an old record is
taken on an old record in the model too. `traffic` is chosen at the start: which
deliveries arrive, whether those of one action overlap, whether they are repeated until
the outcome is settled, and how many faults there are. Reads count against a disclosure
budget in units of one read. A version mismatch or an oversized projection is denied like
an absent record, which is what the ledger does. `RequestExpires` is the time of
a request running out: a delivery that starts later is refused by `common_freshness`.

**`GatewayAttempt`** is `valid_transition`: one journal record (its *view*) and the field by
field rule for replacing it. Digests and byte strings are optional values, which are sets with
at most one element. **`GatewaySubmit`** is the journal and the tasks over it. A key is
`<<operation, 0>>` for the operation and `<<operation, i>>` for its i-th prerequisite read.
A task's `phase` follows `order.rs`; between two phases other tasks, the clock, the sweep,
the connection and the provider may move. Insertion of a claim with its rows, and
replacement under the fence, are atomic, and each may take effect without its
acknowledgement. What a task holds of the journal (`own`, `lent`, `candidate`, `conn`) was
read earlier and may be stale. Time is counted in metering windows. `load` is the workload
of a behaviour: which operations each task may submit and with which bytes.
**`EffectGate`** is the promise: an effect is reserved, excluded, entered and recorded in this
order, and invoked at most once, after it was entered. *Sent* and *invoked* mean that the
request was handed to the network (`client.execute`); `RefuseSend` is a transport error before
that point, after which the outcome is recorded as unknown and nothing was sent.

**`AttemptFiles`** is `FileGatewayAttemptStore`: records as files, and a batch as a batch file
that is written, followed by its targets, and deleted again. Every change of the directory
and every sync is a step. `Interrupted` is a call that fails or a process that stops;
`HostStops` is a power loss, which leaves any of `surviving`. `ordered` says what
the file system promises about changes since the last sync: a prefix survives, or any
subset of them. Loads never see a batch file, because `shared` rolls the batch back first.
**`AtomicRecords`** is the promise: batches are all or none.

**`GatewayConnection`** has the shared connection record and, per host, the generation floor,
the credential store and the server's cached copy of it, the journal of cleanup notes and
the scheduled retirements. A session is one admin command and steps at every await; a task
is a submission reduced to its three reads of the connection. The emergency stop, which disables
or revokes, the
collection of credentials and the staging and publication of candidates run in operator
processes beside the server; such a process reads the credential store under the writer lock
and writes it in a later step, and `Locked` refuses whoever asks for the lock in between. A
candidate is staged by one command, which leaves a proposal, and published by another
(`PublishCandidate`), after reads and an approval that may turn out to be missing or stale. A
commitment is the pair of generation and secret it is computed from. `Restore` puts back an older record of the shared
store. `load` chooses the commands, the submissions and the faults.

The `MC...` modules give constants their values; `MCFileStore` runs `FileStore` and
`AttemptFiles` one at a time in one specification, since they share nothing. Definitions
named `Faulty...` are plausible mistakes in the code; each one is the counter-model of a
property and violates it when it takes the place of the real definition.

## 3. Runs

| Run | Properties | States | What it shows |
|---|---|---|---|
| `lifecycle_kernel` | `TypeOK`, `AdditiveCapacity`, `ExclusiveCapacity`, `OneExecution`, `RecordsEncode`, `UseReturnedOnlyByRelease`, `HistoryGrows`, `ImplementsLedger` | 193,336 | Three workflows compete for an additive key and two exclusive keys: capacity, history, single execution, integrity of records, and the refinement of the reservation ledger. |
| `lifecycle_inconclusive` | `EveryRecordEncodes` | violated | An inconclusive reconciliation yields a record that fails the integrity check, so encoding stores refuse it. |
| `lifecycle_samekey` | `AdditiveCapacity` | violated | Two intents of one workflow on the same additive key are checked one by one and exceed the ceiling together. |
| `file_restart` | `AcknowledgedSurvives`, `SurvivorsAreSound`, `ConfirmedStays`, `ImplementsRecords` | 484,034 | Failed writes, interrupted processes and power losses, in both file stores: nothing acknowledged is lost, lifecycle databases are sound, and gateway batches are seen whole or not at all. |
| `coordinator_workers` | `CoordinatorTypeOK`, `EffectKeepsCapacity`, `AtMostOneCall`, `LiveStageIsCurrent`, `ReferencesIdentify`, `ObservationStands`, `OrphanStays` | 307,042 | Two sessions and two workers on one workflow, with crashes, late deliveries, stale and abandoned leases: effects keep capacity, one provider call, live stages are current, references identify, the evidence a worker can still apply is true, and a workflow whose caller is gone is moved by nobody. |
| `records_deliveries` | `ServiceTypeOK`, `OneExecutor`, `ReceiptsTellTruth`, `StuckIsEffectFree`, `SequentialKeepsCapacity`, `RedeliveryResolves` | 170,018 | Overlapping and sequential deliveries of creates and reads, with ledger errors, crashes and requests that expire: one executor per action, receipts of effects are true, sequential deliveries keep capacity, and redelivery resolves every entered call for as long as a request of the action is not expired. |
| `records_race` | `EffectKeepsCapacity` | violated | A second delivery that arrives while the first is between call entry and the ledger call releases the capacity of an effect that then happens. |
| `gateway_submit` | `SubmitTypeOK`, `AtMostOneSend`, `JournalTellsTruth`, `WindowCapacity`, `LifetimeCapacity`, `LedgerExact`, `PrerequisitesFirst`, `SubmissionEnds`, `ImplementsGate` | 127,764 | Two concurrent submissions, stops anywhere, sends the transport refuses, changes of the connection, windows that end and rows that are swept: one request per key, a truthful journal, an exact ledger of capacity, prerequisites before entry, and the refinement of the gate. |
| `gateway_early` | `InFlightReadsArePositive` | violated | A recovery read made while the mutation is in flight is recorded as a mismatch after its response has arrived. |
| `connection_admin` | `ConnectionTypeOK`, `DrainedMeansRecorded`, `LinearAuthority`, `RetirementSpares`, `CandidateIsKept`, `AdminEnds` | 164,261 | Admin commands of two hosts, in the servers and in operator processes, beside submissions, store errors, restarts and a restore: a drained answer is true, authority never goes back, retirement spares what is in use, a published candidate is in custody, and every command is answered. |
| `connection_rotations` | `PublishedIsKept` | violated | Of two rotations through one server, the second discards the credential the first has published. |
| `connection_revocations` | `RevocationFinishes` | violated | A repeated revocation answers with success and deletes nothing, although the store holds secrets again. |

Deadlock is not checked: all these systems come to rest, when every workflow is terminal,
every submission has ended and every command is answered.

### What the runs ask

- *Capacity under contention.* `AdditiveCapacity`, `ExclusiveCapacity` and the refinement
  `ImplementsLedger`: no order of reservations, commits, releases and reconciliations
  oversubscribes a key or gives an exclusive key two owners. In the gateway, where rows are
  chosen outside the lock and outlive their window: `WindowCapacity`, `LifetimeCapacity`, and
  `LedgerExact`, which says that rows and claims account for each other exactly.
- *Single execution.* `OneExecution` (store), `AtMostOneCall` (coordinator), `OneExecutor`
  (service), `AtMostOneSend` and `ImplementsGate` (gateway).
- *Unknown outcomes.* `UseReturnedOnlyByRelease`, `EffectKeepsCapacity`,
  `SequentialKeepsCapacity`, `ReceiptsTellTruth`, `StuckIsEffectFree`, `JournalTellsTruth`:
  capacity an effect may have used is never freed and nothing on record denies an effect. An
  unknown outcome in the gateway's journal says neither that a request was sent nor that it
  was not: the transport may refuse before it reaches the network, and `send` maps every error
  to `Unknown`.
- *Stale state.* `HistoryGrows`, `LiveStageIsCurrent`, `ReferencesIdentify`,
  `ObservationStands`, `OrphanStays`, `PrerequisitesFirst`, `RetirementSpares`,
  `CandidateIsKept`.
- *Authority while in use.* `DrainedMeansRecorded` and `LinearAuthority`.
- *Durability.* `RecordsEncode`, `AcknowledgedSurvives`, `SurvivorsAreSound`,
  `ConfirmedStays`, `ImplementsRecords`.
- *Progress.* `RedeliveryResolves`, `SubmissionEnds`, `AdminEnds`.

### Six disagreements

1. `lifecycle_inconclusive`: `event_kind_for` labels an inconclusive reconciliation
   `OutcomeUnknownPersisted`; `valid_trace_event` accepts only `ReconciliationObserved`
   there. Encoding stores refuse the record, while the specification (0026) calls
   inconclusive evidence durable. `RecordsEncode` therefore excludes such records.
2. `lifecycle_samekey`: `capacity_available` compares each intent of a plan with the
   ceiling on its own, so two intents on one key may exceed it together. The capacity
   theorems assume `DistinctKeys`.
3. `records_race`: a redelivery treats an entered call as abandoned. If the first
   delivery is still running, its ledger call comes after the release. `records_deliveries`
   shows that capacity is kept when deliveries of one action do not overlap
   (`SequentialKeepsCapacity`), and checks what holds even when they do.
4. `gateway_early`: specification 0063 says that a re-observation "records only positive
   evidence", so that it may run while the attempt is in flight. The refinement looks at the
   source when the read is *applied*: a read granted before the effect and applied after the
   response is recorded as a mismatch, and that is final.
5. `connection_rotations`: a rotation first deletes what is stored at the next generation of
   the record it loaded. If another rotation has published that generation in between, the
   deleted credential is the one the shared record names.

6. `connection_revocations`: `delete_generations` works on the server's cached entries, with no
   lock and no reload, and succeeds without a write when nothing is cached. A process that stages
   a candidate and read the credential file before a revocation's deletion writes the secrets back
   after it; a second revocation finds the cached copy empty, deletes nothing and answers with
   success. The comments say that every operation reloads under the lock, and that a repeated
   revocation finishes the deletion. The connection stays revoked, so no lease is given out, and
   a later collection, or a revocation after the server's restart, does delete.

Four more observations have no run of their own.

A record left `Executing` by a caller that stopped gets a lease, but `reconcile` is refused for
it and `mark_unknown` needs the stage value that was lost. `OrphanStays` shows that it stays as it
is. Specification 0026 says that "Recovery MUST also conservatively interpret an `executing`
record without a durable terminal result as outcome unknown"; who would do so is not in `src/`.

The records service refuses an expired request before it looks at the lifecycle, also when it is
the redelivery of a call that was entered in time. A record still open then is never resolved by
redelivery, and its capacity stays in use; `RedeliveryResolves` is about the time before.

A deletion by the server that has an old copy of the credential file writes back what a collection
had removed from the file only. `RetirementSpares` and `CandidateIsKept` hold because a connection
is rotated either by the server or through candidates; they say nothing about a mixture of the
two.

The last needs a file system that reorders directory changes: after a failed sync of the batch
file's deletion, a power loss may keep a later replacement and bring the batch file back, and the rollback then deletes the other
records of the batch. Neither change was acknowledged, so `ConfirmedStays` holds and nothing
was sent; `ImplementsRecords` is claimed for ordered file systems only.

### Bounds

- Lifecycle: three workflows, because a snapshot excludes the caller and a conflict of two
  others needs a third to see it. The additive ceiling 3 with amounts 1 and 2 gives plans
  that fit in pairs, plans that do not, and one exact fit. One exclusive key is retained
  after commit and one is not. The memory store (`Durable = FALSE`) reaches more states than
  the encoding ones, and `MaxRecords = 3` leaves room for all three; the record limit only
  refuses. `MaxEvents = 12` is above the longest history without inconclusive evidence (eight
  events). `MaxAttempts = 2` would allow the second attempt that `OneExecution` excludes.
  `MaxObservations = 2` is reached by inconclusive evidence.
- FileStore: two workflows, one unit; two failed writes and two restarts let an unacknowledged
  record become visible, be built on, and be followed by another.
- AttemptFiles: two batches whose claims compete for one slot, a record inserted by itself,
  one replacement of each, two interrupted operations and two power losses, with ordered and
  with unordered directories. A rollback may itself be interrupted and lost.
- Coordinator: one workflow, two references, two sessions that may drive it together, two
  workers, two abandoned leases. The second reference is what a caller needs who would begin
  an orphaned workflow again.
- RecordsService: four kinds of traffic: two overlapping deliveries of a create with two
  faults; the same in turn and repeated; a create overlapping a read of its target; two creates
  that compete. Two faults are a crash and a failed recovery from it. Requests may expire at any
  time.
- GatewaySubmit: six workloads of two tasks: the same operation twice, the same operation with
  other bytes, operations that compete for a sum over three windows, a retry beside a
  competitor, a mutation beside its recovery reads, and two operations that compete for an
  engagement that admits one. In between the connection may change twice.
- GatewayConnection: twenty workloads of up to three commands on two hosts and up to two
  submissions, with at most one store error or restart, or one restore. Five of them stage and
  publish candidates: two proposals for one generation, a publication twice, beside a
  collection, a revocation and another host's change. Three changes reach `MaxGeneration = 4`, so the limit cuts no behaviour short (the refusal at the last generation
  is covered by the proofs only); of two compare-and-swap rounds one may be lost, or both.

### Fairness

None is assumed of the coordinator: nothing under `src/` calls `claim_reconciliation` but tests,
so there is no schedule of its workers, and no property says that an unknown outcome is
reconciled in the end. `FairServiceSpec`: a delivery is a call
that runs to its end; a request with an open outcome is delivered again, and when
deliveries of one action take turns each gets its turn (strong fairness of `Start`).
Redelivery is the caller's part, and it ends when the requests have expired.
Faults are bounded, so `RedeliveryResolves` says: once faults stop. `FairSpec` of
`GatewaySubmit`: a task that has begun goes on; its code has no unbounded retry, and every
wait on the provider has a deadline. The code gives up a claim after 32 rounds lost to
other tasks (`MAX_CLAIM_ROUNDS`); the model has no such limit, so `SubmissionEnds` says that the
rounds end by themselves. `FairSpec` of `GatewayConnection`: a command that
has begun goes on. Nothing is assumed of submissions, so `AdminEnds` holds beside one that
never ends: the drain gives up.

## 4. Proofs

The proofs hold for every number of workflows, intents, keys, sessions, deliveries, tasks, hosts
and files and for every plan, ceiling and limit that satisfies the named assumption of the module
they are about: `ConfigurationAssumption` (`Lifecycle`), `CoordinatorAssumption`,
`ServiceAssumption` (`RecordsService`), `FilesAssumption` (`AttemptFiles`), `SubmitAssumption` and
`RevisionAssumption` (`GatewaySubmit`, `GatewayAttempt`) and `ConnectionAssumption`. They say what
kind of thing the constants are and that different things have different names. Beyond that:

- an input of the coordinator is a workflow with a reference, and one of the service is a delivery,
  since these are what the digests in a record bind;
- batches and names of records, and mutations and recovery reads, are distinct;
- a connection is rotated by its server (`rotate`, `prepare`, `commit`) or through candidates
  (`stage`, `publish`), never both, because the recipe decides (`require_offline_rotation`).

| Module | Theorem | Statement |
|---|---|---|
| `LifecycleProofs` | `TypeCorrect` | `Spec => []TypeOK` |
| | `Invariance` | `Spec => []LifecycleInvariant`, the inductive invariant |
| | `RecordsEncodeAlways` | `Spec => []RecordsEncode` |
| | `HistoryGrowsAlways` | `Spec => HistoryGrows` |
| | `OneExecutionAlways` | `Spec => []OneExecution` |
| `CapacityProofs` | `AdditiveCapacityAlways` | `Spec => []AdditiveCapacity`, given `DistinctKeys` |
| | `ExclusiveCapacityAlways` | `Spec => []ExclusiveCapacity`, given `DistinctKeys` |
| | `UseReturnedOnlyByReleaseAlways` | `Spec => UseReturnedOnlyByRelease` |
| | `StoreImplementsLedger` | `Spec => ImplementsLedger`, given `DistinctKeys` |
| | `AcknowledgedSurvivesAlways` | `FileSpec => []AcknowledgedSurvives` |
| | `SurvivorsAreSoundAlways` | `FileSpec => []SurvivorsAreSound`, given `DistinctKeys` |
| `CoordinatorProofs` | `CoordinatorInvariance` | `CoordinatorSpec => []CoordinatorInvariant`, the inductive invariant |
| | `CoordinatorTypeCorrect` | `CoordinatorSpec => []CoordinatorTypeOK` |
| | `AtMostOneCallAlways` | `CoordinatorSpec => []AtMostOneCall` |
| | `EffectKeepsCapacityAlways` | `CoordinatorSpec => []EffectKeepsCapacity` |
| | `LiveStageIsCurrentAlways` | `CoordinatorSpec => []LiveStageIsCurrent` |
| | `ReferencesIdentifyAlways` | `CoordinatorSpec => []ReferencesIdentify` |
| | `ObservationStandsAlways` | `CoordinatorSpec => []ObservationStands` |
| | `OrphanStaysAlways` | `CoordinatorSpec => OrphanStays` |
| | `CoordinatorImplementsLifecycle` | `CoordinatorSpec => Spec` |
| `RecordsProofs` | `ServiceInvariance` | `ServiceSpec => []ServiceInvariant`, the inductive invariant |
| | `ServiceTypeCorrect` | `ServiceSpec => []ServiceTypeOK` |
| | `OneExecutorAlways` | `ServiceSpec => []OneExecutor` |
| | `ReceiptsTellTruthAlways` | `ServiceSpec => []ReceiptsTellTruth` |
| | `StuckIsEffectFreeAlways` | `ServiceSpec => []StuckIsEffectFree` |
| | `SequentialKeepsCapacityAlways` | `ServiceSpec => []SequentialKeepsCapacity` |
| | `ServiceImplementsLifecycle` | `ServiceSpec => Spec` |
| `GatewayProofs` | `PermitIsUnique` | `Spec => []PermitInv`, the inductive invariant |
| | `OneSend` | `Spec => []AtMostOneSend` |
| | `TrueJournal` | `Spec => []JournalTellsTruth` |
| | `GatewayImplementsGate` | `Spec => ImplementsGate` |
| | `ChargesAreApart` | `Spec => []ChargeInv`, the inductive invariant of capacity |
| | `SubmitTypeCorrect` | `Spec => []SubmitTypeOK` |
| | `PrerequisitesFirstAlways` | `Spec => []PrerequisitesFirst` |
| `MeteringProofs` | `MetersAreExact` | `Spec => []MeterInv`, the inductive invariant of metering |
| | `LifetimeCapacityAlways` | `Spec => []LifetimeCapacity` |
| | `WindowCapacityAlways` | `Spec => []WindowCapacity` |
| | `LedgerExactAlways` | `Spec => []LedgerExact` |
| `ConnectionProofs` | `AuthorityIsKept` | `Spec => []AuthorityInv`, the inductive invariant |
| | `DrainedIsTrue` | `Spec => []DrainedMeansRecorded` |
| | `AuthorityIsLinear` | `Spec => LinearAuthority` |
| | `CredentialsAreKept` | `Spec => [](AuthorityInv /\ CredentialInv)`, the inductive invariant of the credentials |
| | `ConnectionTypeCorrect` | `Spec => []ConnectionTypeOK` |
| | `CandidateIsKeptAlways` | `Spec => []CandidateIsKept` |
| | `RetirementSparesAlways` | `Spec => RetirementSpares` |
| `AttemptFilesProofs` | `AcknowledgedRecordsStay` | `FilesSpec => []ConfirmedStays` |
| | `FilesImplementRecords` | `FilesSpec => ImplementsRecords` |

**The lifecycle.** `StepMoves` classifies the twelve transactions into five kinds of move
on one record: a decision (`Decides`), a reservation (`Acquires`), a step that leaves the
entries alone (`Keeps`), a settlement (`Spends`) and a release (`Returns`). Everything
after it argues about five moves instead of twelve actions.

*The inductive invariant.* `RecordsEncode` is not inductive: after a release
the record must have all its entries released and none committed, which is only so if no
entry was marked before. `LifecycleInvariant` adds to the type invariant that every record
has the shape its state demands (entries are live before they are settled, a decision has none),
that the event chain ends in the current state, and that its length is the revision. Each
move preserves it (`MovesKeepRecord`), and it implies `RecordsEncode`.

*Capacity.* Only `Acquires` adds use (`MovesAddNothing`), and the transaction that acquires
checked each intent against the use of the others (`ReserveIsAcquire`). With distinct keys
in a plan the new use of a key is that of the others plus one intent, and the cardinality of
a disjoint union gives the bound. The ceilings themselves form the induction hypothesis.

*Refinement.* The initial store maps to the idle ledger. `Acquires` is `Acquire`,
`Spends` is `Spend`, `Returns` is `Return`, `Decides` and `Keeps` are stutters. The capacity
theorems supply `Fits'`.

*Single execution.* `OneExecution` counts events and is not inductive. `ExecutionInvariant`
ties the revision of an unsettled record to how far it has come (`ExecutionStage`): a reservation can
only be event 2, a credential 4, an attempt 5, a call entry 6. Two of a kind would have to
share a place. What matters in the code is that a credential is refused while one is
authorized, that an attempt consumes it, and that no edge leads back from `Executing`.

*The file store.* Errors, restarts and power losses only choose among databases that are
already there (`NoNewContents`); a transaction adds one, its successor. So an invariant of
every database in `Contents` (memory, file, successor, survivors) needs an argument for
transactions and for the acknowledgement only. The successor must be part of it: a failure
after the replacement makes it visible although it was never acknowledged.
`SurvivorsAreSound` reuses the step lemmas of the capacity proofs, and the encoder's
check for records with inconclusive evidence.

**The coordinator.** `LiveStageIsCurrent` says that the compare-and-swap of a stage value still
held never loses, and it is not inductive: another session could move the record. It cannot,
because a workflow is driven by the session that bound its reference and by no other
(`SoleDriver`, from `BoundOnce`), and a worker moves only records that have left their session.
`CoordinatorInvariant` adds what each stage value, record and observation says of the provider: a
session that saw an effect is right, one that saw none has nothing in flight, and a worker's
observation is still true when it is applied, because the record it is about can no longer send
(`ObservationStands`). `OrphanStays` rests on `BoundOnce` too: the reference of an orphan is taken,
so no session gets a stage of it, and a worker's reconciliation needs `OutcomeUnknown`.
`CoordinatorImplementsLifecycle` shows that every step is one transaction of the store, or none,
so all that is proved about the lifecycle holds under the coordinator.

**The records service.** Deliveries of one action overlap, so what a delivery knows may be old.
`DeliverySound` says in which way it may be: its revision is never ahead of the record, and what it
saw settled is settled still, since settled records are final. That is enough for `OneExecutor`,
`ReceiptsTellTruth` and `StuckIsEffectFree`. `SequentialKeepsCapacity` needs more, and only holds
when deliveries take turns: `Sequential` says that one runs at a time and that the ledger's answer
it holds is not overtaken. Without this premise the run `records_race` shows the opposite.

**The gateway.** `AtMostOneSend` says nothing about who may still send. `PermitInv` adds that a
task about to send has its record at `EntryGranted`, that nothing was sent for this key, and
that no other task is about to send for it. The record is the permit: only the task whose
replacement takes it from `Reserved` to `EntryGranted` gets there, the comparison under the
fence lets one such replacement succeed, and no transition leads back. That a task must not
send when its grant was stored but not acknowledged is the case the invariant is about. The
rest of it relates the journal to the provider: unsent stages have sent nothing, stages with
a response have sent once, a task whose send was refused has sent nothing although it was
entered, and a positive answer of a recovery read is the truth, which is
what lets a refinement write `ObservedByProvider`. Most steps move one task between phases
without a permit (`QuietStep`) or rewrite one record (`TruthfulWrite`), so each argument is
made once. For the refinement, `NextMoves` says that every step makes at most one journal
move, which `MoveIsGateStep` maps to the gate, and `SendIsInvoke` adds the request.

*Capacity and prerequisites.* Rows are chosen outside the lock, outlive the window they were taken
for and are swept, so the rows in the store do not bound what entered. `ChargeInv` says instead that
each record names the rows it was charged, that no two records that entered name the same row of
the same window, also when the row is long gone, and that an operation that enters does so in the
window of its rows. The rows it names are then an injection of the entered operations into the
rows of the counter, which bounds their number (`EntriesApart`, `PigeonholeHolds`). A claim gets a row only if it is
free in the store, and a row of a record that may still enter is in the store, since the sweep
spares it. For the prerequisites the invariant says that a read at `ResponseRecorded` stays what it
is, because acquisitions have no further stage, and that the grant looked at all of them.

*Metering.* A sum counter keeps no total of its own. Each row carries the total up to itself, and a
task adds its amount to the total of the last row it found, outside the lock. Under the lock the
insertion asks that the places it takes are free and that the row before a sum's place still holds
the total it started from (`validate_predecessors`); of the rows before the places of other counters
it asks nothing. `MeterInv` says why the ledger is exact all the same. The rows of a window that has
not expired follow one another: each is the first, or goes on from the row before it (`RowsInv`).
The place a task is about to claim, however old its search, has a row before it that is still there
while the window lasts (`CandidateFollows`), since the sweep deletes expired windows only. The
totals then are sums: the operations that entered at places up to a row spent at most what the row
says (`TotalUpto`), and no row says more than the capacity. When a window expires its rows go, and
the bound would go with them. `SumsInv` therefore speaks of the operations that entered rather than
of the rows, for all windows: an operation only enters in the present window (`SumsNext`), so the
sum of an expired one does not change. That the rows are an exact ledger (`LedgerUpto`) is the same
argument with the amounts of the rows.

*Sums.* `Total` is a fold over a set, that is, a recursive function on sets chosen with `CHOOSE`. That
it is the sum (`TotalSplit`: one member and the rest) is proved by induction on cardinality, and
the sums over a prefix of rows by induction on the last row. The induction theorems of the library
take an operator, which the back ends cannot instantiate. `Induction` is instead stated for a *set* of
numbers and proved from the least element of its complement (`LeastNat`, from the
well-foundedness of `<`).

**The connection.** `DrainedMeansRecorded` is not inductive: a submission may reach its last
reload after the answer, and only the floor keeps it from an older record. `AuthorityInv` adds
that the floor of a host has seen the record each of its commands goes on with, and that the
record of the last entry is the floor or below it. Floors only rise (`Rises`), also across
restarts and restores, so `LinearAuthority` follows.

*The credentials.* `RetirementSpares` is about a deletion that was decided long before it happens:
by a retirement scheduled after a rotation, by the record a collector looked at, by the server's
copy of the store, by what another process has read of it. `CredentialInv` says two things about
all of these. Every record one of them was decided by lies behind the shared record (`Older`), so
the generations it condemns are *spent*: no later record names them again (`Spent`,
`SupersededAreSpent`). And the store, the copy and what a process holds under the lock agree on
every credential that is *alive*, the one the record names and those a later record may name
(`CopyAgrees`, `HeldAgrees`). Copies may well differ in what is spent. A step then either changes
the shared record, which only spends more (`AdvanceClaims`), or writes a store, and
`StoreSession` asks of each such write that it keeps what another process relies on. With
candidates the server's copy is not kept in step with the operator's process, and the argument
rests on the separation of the two ways to rotate. All of it holds until the shared store is
restored or the connection is revoked; of a restored one the invariant only keeps the types.

**The attempt files.** `FilesInv` says that whatever may survive a power loss still has what
was acknowledged *and that its batch file lists none of it* (`Holds`): without the second part
a rollback could delete an acknowledged record. `StepOK` says how far the operation under way
has come, which is why the sync between the targets and the deletion of the batch file is
needed. For the refinement a directory is mapped to what a reader finds after the rollback.
The deletion of the batch file then inserts the whole batch, each sync is `Flush`, and
all other steps of an insertion, and of a rollback, are stutters or leave the contents alone.

**Only model-checked.** The three liveness properties `RedeliveryResolves`, `SubmissionEnds`
and `AdminEnds`: liveness under fairness is outside what the back ends handle. Every
other property of a passing run is proved, and the proofs cover what the instances leave out: in
`gateway_submit` no two operations compete for a count counter's last row in one window, and in
`file_restart` no key is exclusive.

## 5. Not modelled

- Cryptography, digests, canonical encodings and clocks. Where the code compares them the
  model assumes that the comparison succeeds, or that it fails and nothing happens.
- Poisoned locks, SQL errors, pool exhaustion: refusals that change nothing. PostgreSQL
  stores are taken to be atomic per call; their sessions and isolation are not modelled.
- `GatewaySubmit` takes its store to be atomic, and a change that is seen to stay. On files a
  change that was never acknowledged may be seen and then lost with the host. A task sends only
  after its own grant was acknowledged, and that sync covers every earlier change of the
  directory. That the two modules compose is this argument, not a checked result.
- In the gateway: reads of candidates and content, disclosures and policy evaluation, which
  keep their records in the same journal under the transition rule that is modelled. The reads
  a candidate is published on are therefore an outcome that `PublishCandidate` may find
  missing. The installation of a connection, with and without candidate reads, is the initial
  state of `GatewayConnection`.
- `DrainedMeansRecorded` counts the entry of the mutation itself, as the code does; prerequisite and
  recovery reads are not counted as in flight by either.
- Authority that lapses after an attempt was started: the code does not look at it again, by
  intention, and neither do the models.
- Schema set-up, migrations, configuration parsing, command line tools, demonstration services.
- The parts without a module in section 1: they keep no state of their own, or keep it in the
  lifecycle that is modelled.
