--------------------------- MODULE RecordsService ---------------------------
(***************************************************************************)
(* RecordsService::execute of the records-api integration: deliveries of   *)
(* the same or of different actions, each driving the shared lifecycle of  *)
(* its action's workflow and the domain ledger that holds the records.     *)
(* Every store transaction and every ledger call is one step, so           *)
(* deliveries interleave between any two of them.                          *)
(*                                                                         *)
(* Proof, policy and presentation checks come before the lifecycle.  Of    *)
(* these the freshness checks are modelled, since what they answer changes *)
(* between two deliveries of a request: a delivery reads the time once,    *)
(* and one that comes too late is refused before it sees the lifecycle.    *)
(* The expiry and configuration gates of the lifecycle hold for one that   *)
(* was not, so nothing lapses here.  The decision input carries the        *)
(* delivery's own receipt digest, so an input is a delivery.  A redelivery *)
(* carries the identity, and so the receipt, of the first.                 *)
(***************************************************************************)
EXTENDS Lifecycle

CONSTANTS
    Delivery,     \* deliveries of requests
    ActionOf,     \* ActionOf[d]: the workflow of the action d carries
    TargetOf,     \* TargetOf[w]: the record the action of w creates or reads
    Reads,        \* the workflows whose action is a read
    MaxDisclosed, \* maximum_disclosed_bytes, in reads
    Traffic       \* the ways requests are delivered: which deliveries are made;
                  \*   overlap: FALSE, one starts only after those of its action ended;
                  \*   redelivery: TRUE, one is made again after it ended or crashed;
                  \*   faults: the crashes and ledger errors met

ASSUME ServiceAssumption ==
    /\ Input = Delivery
    /\ ActionOf \in [Delivery -> Workflow]
    /\ \A w \in Workflow : InputsOf[w] = {d \in Delivery : ActionOf[d] = w}
    /\ Traffic \subseteq [deliveries : SUBSET Delivery, overlap : BOOLEAN,
                          redelivery : BOOLEAN, faults : Nat]
    /\ Reads \subseteq Workflow
    /\ MaxDisclosed \in Nat

VARIABLES
    pc,          \* where each delivery is
    rev,         \* revision of the record each delivery last saw
    known,       \* what it goes on with: a loaded state, a ledger answer, its outcome
    completed,   \* completed_actions of the ledger
    records,     \* records of the ledger
    disclosed,   \* disclosed_bytes of the policy, in reads
    receipts,    \* receipts[d]: ExecutionClassification of the stored bundle of d
    faults,      \* faults so far
    expired,     \* deliveries whose action or presentation has expired
    traffic      \* how requests are delivered

serviceVars == <<db, lapsed, pc, rev, known, completed, records, disclosed, receipts, faults,
                 expired, traffic>>
ledgerVars == <<completed, records, disclosed, receipts>>

Running == {"decide", "load", "reserve", "intent", "credential", "attempt", "enter",
            "call", "commit", "release", "unknown", "observe", "reconcile", "recover", "finish"}

Goto(d, label) == pc' = [pc EXCEPT ![d] = label]

(* Go on to finish with this classification. *)
Conclude(d, class) ==
    /\ known' = [known EXCEPT ![d] = class]
    /\ Goto(d, "finish")

(* The transaction t of delivery d is acknowledged at the next revision. *)
Acknowledged(d, label) ==
    /\ rev' = [rev EXCEPT ![d] = rev[d] + 1]
    /\ Goto(d, label)
    /\ UNCHANGED <<known, ledgerVars, faults>>

(* A refused transaction ends the delivery with StateUnavailable. *)
Refused(d) ==
    /\ Goto(d, "failed")
    /\ UNCHANGED <<db, lapsed, rev, known, ledgerVars, faults>>

(* What recover_existing distinguishes in the record it is given. *)
LoadedAs(r) == IF r.state = "Executing" /\ CallEntered(r) THEN "Entered" ELSE r.state

-----------------------------------------------------------------------------
(* evaluate_create or evaluate_read, the presentation, and start_lifecycle *)

(* An expired request is answered by a receipt that says it was not        *)
(* authorized, also where an earlier delivery left its outcome open.       *)
Start(d) ==
    /\ pc[d] = "new"
    /\ d \in traffic.deliveries
    /\ traffic.overlap \/ \A e \in Delivery :
          ActionOf[e] = ActionOf[d] => pc[e] \notin Running
    /\ \/ d \in expired /\ Conclude(d, "NotAuthorized")
       \/ d \notin expired /\ Goto(d, "decide") /\ UNCHANGED known
    /\ UNCHANGED <<db, lapsed, rev, ledgerVars, faults>>

Decide(d) ==
    /\ pc[d] = "decide"
    /\ LET w == ActionOf[d] IN
       \/ RecordDecision(w, 0, d) /\ Acknowledged(d, "reserve")
       \/ /\ db[w].revision # 0
          /\ Goto(d, "load")
          /\ UNCHANGED <<db, lapsed, rev, known, ledgerVars, faults>>

(* Load the record of a workflow that already exists.  A decision that was *)
(* never reserved is taken up where it stopped.                            *)
Load(d) ==
    /\ pc[d] = "load"
    /\ LET r == db[ActionOf[d]] IN
       /\ rev' = [rev EXCEPT ![d] = r.revision]
       /\ IF r.state = "DecisionRecorded"
          THEN Goto(d, "reserve") /\ UNCHANGED known
          ELSE Goto(d, "recover") /\ known' = [known EXCEPT ![d] = LoadedAs(r)]
    /\ UNCHANGED <<db, lapsed, ledgerVars, faults>>

DoReserve(d) ==
    /\ pc[d] = "reserve"
    /\ LET w == ActionOf[d] IN
       \/ Reserve(w, rev[d]) /\ Acknowledged(d, "intent")
       \/ /\ db[w].revision = rev[d] /\ ~CapacityAvailable(db, w)
          /\ Conclude(d, "DefiniteNonEffect")
          /\ UNCHANGED <<db, lapsed, rev, ledgerVars, faults>>
       \/ /\ db[w].revision # rev[d]
          /\ rev' = [rev EXCEPT ![d] = db[w].revision]
          /\ known' = [known EXCEPT ![d] = LoadedAs(db[w])]
          /\ Goto(d, "recover")
          /\ UNCHANGED <<db, lapsed, ledgerVars, faults>>

(* The stage "label": its transaction is applied, or the delivery ends. *)
DoRecordIntent(d) ==
    /\ pc[d] = "intent"
    /\ \/ RecordExecutionIntent(ActionOf[d], rev[d]) /\ Acknowledged(d, "credential")
       \/ db[ActionOf[d]].revision # rev[d] /\ Refused(d)

DoAuthorizeCredential(d) ==
    /\ pc[d] = "credential"
    /\ \/ AuthorizeCredential(ActionOf[d], rev[d]) /\ Acknowledged(d, "attempt")
       \/ db[ActionOf[d]].revision # rev[d] /\ Refused(d)

DoStartAttempt(d) ==
    /\ pc[d] = "attempt"
    /\ \/ StartAttempt(ActionOf[d], rev[d]) /\ Acknowledged(d, "enter")
       \/ db[ActionOf[d]].revision # rev[d] /\ Refused(d)

(* Faulty variant: the ledger is called without a durable call entry. *)
FaultyEnter(d) ==
    /\ pc[d] = "enter"
    /\ Goto(d, "call")
    /\ UNCHANGED <<db, lapsed, rev, known, ledgerVars, faults>>

EnterProvider(d) ==
    /\ pc[d] = "enter"
    /\ \/ MarkProviderCallEntered(ActionOf[d], rev[d]) /\ Acknowledged(d, "call")
       \/ db[ActionOf[d]].revision # rev[d] /\ Refused(d)

-----------------------------------------------------------------------------
(* execute_create and execute_read after the lifecycle is ready *)

(* Faulty variant: the record is stored under the identity of the action. *)
FaultyCreate(d) ==
    /\ pc[d] = "call"
    /\ completed' = completed \cup {ActionOf[d]}
    /\ records' = records \cup {ActionOf[d]}
    /\ Goto(d, "commit")
    /\ UNCHANGED <<db, lapsed, rev, known, disclosed, receipts, faults>>

(* RecordsLedger::create.  The ledger checks that the sealed command's     *)
(* authorizations match each other; it does not look at the lifecycle.     *)
LedgerCreate(d) ==
    /\ pc[d] = "call"
    /\ ActionOf[d] \notin Reads
    /\ LET w == ActionOf[d] IN
       \/ /\ w \in completed
          /\ Goto(d, "commit")
          /\ UNCHANGED ledgerVars
       \/ /\ w \notin completed
          /\ TargetOf[w] \in records
          /\ Goto(d, "release")
          /\ UNCHANGED ledgerVars
       \/ /\ w \notin completed
          /\ TargetOf[w] \notin records
          /\ completed' = completed \cup {w}
          /\ records' = records \cup {TargetOf[w]}
          /\ Goto(d, "commit")
          /\ UNCHANGED <<disclosed, receipts>>
    /\ UNCHANGED <<db, lapsed, rev, known, faults>>

(* RecordsLedger::read.  A record of another version, or one whose         *)
(* projection exceeds the response limit, is denied as an absent one is.   *)
LedgerRead(d) ==
    /\ pc[d] = "call"
    /\ ActionOf[d] \in Reads
    /\ LET w == ActionOf[d]
           readable == TargetOf[w] \in records /\ disclosed < MaxDisclosed
       IN
       \/ /\ w \in completed
          /\ Goto(d, "commit")
          /\ UNCHANGED ledgerVars
       \/ /\ w \notin completed /\ ~readable
          /\ Goto(d, "release")
          /\ UNCHANGED ledgerVars
       \/ /\ w \notin completed /\ readable
          /\ completed' = completed \cup {w}
          /\ disclosed' = disclosed + 1
          /\ Goto(d, "commit")
          /\ UNCHANGED <<records, receipts>>
    /\ UNCHANGED <<db, lapsed, rev, known, faults>>

(* The ledger returns an error; mutate leaves it as it was. *)
LedgerFails(d) ==
    /\ pc[d] = "call"
    /\ faults < traffic.faults
    /\ faults' = faults + 1
    /\ Goto(d, "unknown")
    /\ UNCHANGED <<db, lapsed, rev, known, ledgerVars>>

CommitEffect(d) ==
    /\ pc[d] = "commit"
    /\ \/ /\ Commit(ActionOf[d], rev[d])
          /\ Conclude(d, "Executed")
          /\ UNCHANGED <<rev, ledgerVars, faults>>
       \/ db[ActionOf[d]].revision # rev[d] /\ Refused(d)

ReleaseNonEffect(d) ==
    /\ pc[d] = "release"
    /\ \/ /\ Release(ActionOf[d], rev[d], "NonEffect")
          /\ Conclude(d, "DefiniteNonEffect")
          /\ UNCHANGED <<rev, ledgerVars, faults>>
       \/ db[ActionOf[d]].revision # rev[d] /\ Refused(d)

(* The first half of reconcile_after_provider_error, and of the recovery   *)
(* of a record that is executing with its call entered.                    *)
MarkUnknown(d) ==
    /\ pc[d] = "unknown"
    /\ \/ MarkOutcomeUnknown(ActionOf[d], rev[d]) /\ Acknowledged(d, "observe")
       \/ db[ActionOf[d]].revision # rev[d] /\ Refused(d)

(* Faulty variants: the ledger is not asked, and the effect is taken to be *)
(* there; or not to be there.                                              *)
FaultyCompletedEffect(d) ==
    /\ pc[d] = "observe"
    /\ known' = [known EXCEPT ![d] = "Effect"]
    /\ Goto(d, "reconcile")
    /\ UNCHANGED <<db, lapsed, rev, ledgerVars, faults>>

FaultyCompletedAbsent(d) ==
    /\ pc[d] = "observe"
    /\ known' = [known EXCEPT ![d] = "NonEffect"]
    /\ Goto(d, "reconcile")
    /\ UNCHANGED <<db, lapsed, rev, ledgerVars, faults>>

(* RecordsLedger::completed, whose answer is used by a later transaction. *)
LedgerCompleted(d) ==
    /\ pc[d] = "observe"
    /\ \/ /\ known' = [known EXCEPT ![d] = IF ActionOf[d] \in completed THEN "Effect" ELSE "NonEffect"]
          /\ Goto(d, "reconcile")
          /\ UNCHANGED faults
       \/ /\ faults < traffic.faults
          /\ faults' = faults + 1
          /\ Conclude(d, "OutcomeUnknown")
    /\ UNCHANGED <<db, lapsed, rev, ledgerVars>>

ReconcileKnown(d) ==
    /\ pc[d] = "reconcile"
    /\ LET w == ActionOf[d] IN
       \/ /\ known[d] = "Effect"
          /\ ReconcileEffect(w, rev[d])
          /\ Conclude(d, "ReplayEffect")
          /\ UNCHANGED <<rev, ledgerVars, faults>>
       \/ /\ known[d] = "NonEffect"
          /\ ReconcileNonEffect(w, rev[d])
          /\ Conclude(d, "ReplayNonEffect")
          /\ UNCHANGED <<rev, ledgerVars, faults>>
       \/ db[w].revision # rev[d] /\ Refused(d)

(* Faulty variants: an entered call is issued again; or is left alone. *)
FaultyRecoverCalls(d) ==
    /\ pc[d] = "recover"
    /\ known[d] = "Entered"
    /\ Goto(d, "call")
    /\ UNCHANGED <<db, lapsed, rev, known, ledgerVars, faults>>

FaultyRecoverIgnores(d) ==
    /\ pc[d] = "recover"
    /\ \/ known[d] = "OutcomeUnknown" /\ Goto(d, "observe")
       \/ known[d] # "OutcomeUnknown" /\ Goto(d, "failed")
    /\ UNCHANGED <<db, lapsed, rev, known, ledgerVars, faults>>

(* recover_existing: the answer depends on the record as it was loaded. *)
RecoverExisting(d) ==
    /\ pc[d] = "recover"
    /\ \/ /\ known[d] \in {"Committed", "ReconciledCommitted"}
          /\ ActionOf[d] \in completed
          /\ Conclude(d, "ReplayEffect")
       \/ /\ known[d] \in {"Released", "ReconciledReleased", "DecisionRecorded"}
          /\ Conclude(d, "ReplayNonEffect")
       \/ known[d] = "OutcomeUnknown" /\ Goto(d, "observe") /\ UNCHANGED known
       \/ known[d] = "Entered" /\ Goto(d, "unknown") /\ UNCHANGED known
       \/ /\ \/ known[d] \in {"Reserved", "ExecutionIntentRecorded", "Executing"}
             \/ known[d] \in {"Committed", "ReconciledCommitted"} /\ ActionOf[d] \notin completed
          /\ Goto(d, "failed")
          /\ UNCHANGED known
    /\ UNCHANGED <<db, lapsed, rev, ledgerVars, faults>>

(* finish: the receipt bundle is appended to the ledger, or the delivery   *)
(* ends in an error although its transition is durable.                    *)
AppendReceipt(d) ==
    /\ pc[d] = "finish"
    /\ \/ /\ receipts' = [receipts EXCEPT ![d] = known[d]]
          /\ Goto(d, "done")
          /\ UNCHANGED faults
       \/ /\ faults < traffic.faults
          /\ faults' = faults + 1
          /\ Goto(d, "failed")
          /\ UNCHANGED receipts
    /\ UNCHANGED <<db, lapsed, rev, known, completed, records, disclosed>>

Crash(d) ==
    /\ pc[d] \in Running
    /\ faults < traffic.faults
    /\ faults' = faults + 1
    /\ Goto(d, "crashed")
    /\ UNCHANGED <<db, lapsed, rev, known, ledgerVars>>

Redeliver(d) ==
    /\ traffic.redelivery
    /\ pc[d] \in {"done", "failed", "crashed"}
    /\ Goto(d, "new")
    /\ UNCHANGED <<db, lapsed, rev, known, ledgerVars, faults>>

(* The time passes the end of the action of d, or of its presentation. *)
RequestExpires(d) ==
    /\ d \in traffic.deliveries \ expired
    /\ expired' = expired \cup {d}
    /\ UNCHANGED <<db, lapsed, pc, rev, known, ledgerVars, faults>>

-----------------------------------------------------------------------------
(* Earlier actions left records in the ledger and used up part of the      *)
(* disclosure budget, as far as these deliveries can tell.                 *)
ServiceInit ==
    /\ Init
    /\ traffic \in Traffic
    /\ pc = [d \in Delivery |-> "new"]
    /\ rev = [d \in Delivery |-> 0]
    /\ known = [d \in Delivery |-> "Nothing"]
    /\ completed = {}
    /\ records \in SUBSET {TargetOf[ActionOf[d]] : d \in traffic.deliveries}
    /\ disclosed \in {n \in 0 .. MaxDisclosed :
          n > 0 => \E d \in traffic.deliveries : ActionOf[d] \in Reads}
    /\ receipts = [d \in Delivery |-> "None"]
    /\ faults = 0
    /\ expired = {}

DeliveryStep(d) ==
    \/ Start(d)
    \/ Redeliver(d)
    \/ Decide(d)
    \/ Load(d)
    \/ DoReserve(d)
    \/ DoRecordIntent(d)
    \/ DoAuthorizeCredential(d)
    \/ DoStartAttempt(d)
    \/ EnterProvider(d)
    \/ LedgerCreate(d)
    \/ LedgerRead(d)
    \/ LedgerFails(d)
    \/ CommitEffect(d)
    \/ ReleaseNonEffect(d)
    \/ MarkUnknown(d)
    \/ LedgerCompleted(d)
    \/ ReconcileKnown(d)
    \/ RecoverExisting(d)
    \/ AppendReceipt(d)

ServiceNext ==
    /\ \E d \in Delivery :
          \/ (DeliveryStep(d) \/ Crash(d)) /\ UNCHANGED expired
          \/ RequestExpires(d)
    /\ UNCHANGED traffic

ServiceSpec == ServiceInit /\ [][ServiceNext]_serviceVars

(* A delivery is a call that runs to its end, and a request whose outcome  *)
(* is open is delivered again.  Deliveries of one action may take turns in *)
(* starting, so this is strong fairness of the start.                      *)
FairServiceSpec ==
    /\ ServiceSpec
    /\ \A d \in Delivery : WF_serviceVars(DeliveryStep(d) /\ UNCHANGED <<expired, traffic>>)
                             /\ SF_serviceVars(Start(d) /\ UNCHANGED <<expired, traffic>>)

-----------------------------------------------------------------------------
(* Properties *)

ExecutionClassification == {"Executed", "DefiniteNonEffect", "ReplayEffect",
    "ReplayNonEffect", "OutcomeUnknown", "NotAuthorized"}

(* Type invariant of the deliveries and the ledger; the disclosure budget  *)
(* of the policy is respected.                                             *)
ServiceTypeOK ==
    /\ pc \in [Delivery -> Running \cup {"new", "done", "failed", "crashed"}]
    /\ rev \in [Delivery -> Nat]
    /\ receipts \in [Delivery -> ExecutionClassification \cup {"None"}]
    /\ completed \subseteq Workflow
    /\ records \subseteq {TargetOf[w] : w \in Workflow}
    /\ disclosed \in 0 .. MaxDisclosed
    /\ faults \in 0 .. traffic.faults
    /\ expired \subseteq traffic.deliveries

(* An action whose effect is in the ledger keeps the capacity it reserved, *)
(* and no receipt says that it had no effect: no redelivery, crash or      *)
(* ledger error lets recovery release it.                                  *)
EffectKeepsCapacity ==
    \A w \in completed :
      /\ db[w].state \notin {"Released", "ReconciledReleased"}
      /\ \A d \in Delivery : ActionOf[d] = w => receipts[d] # "ReplayNonEffect"

(* Deliveries of an action that never overlap keep that promise, whatever  *)
(* crashes, errors and redeliveries come between them.                     *)
SequentialKeepsCapacity == ~traffic.overlap => EffectKeepsCapacity

(* Delivery d holds or has used a provider-call authorization. *)
Executes(d) ==
    \/ pc[d] \in {"call", "commit", "release"}
    \/ pc[d] = "finish" /\ known[d] = "Executed"
    \/ receipts[d] = "Executed"

(* The provider-call authorization of an action reaches one delivery only: *)
(* of all deliveries of an action, at most one is between call entry and   *)
(* its result, or reports the effect as executed by it.                    *)
OneExecutor ==
    \A d, e \in Delivery :
      d # e /\ ActionOf[d] = ActionOf[e] => ~(Executes(d) /\ Executes(e))

(* What a receipt says is what the ledger and the store hold: committed    *)
(* records, and "Executed" or "ReplayEffect" receipts, stand for a         *)
(* completed action whose capacity is committed.                           *)
ReceiptsTellTruth ==
    /\ \A w \in Workflow :
          db[w].state \in {"Committed", "ReconciledCommitted"} => w \in completed
    /\ \A d \in Delivery :
          receipts[d] \in {"Executed", "ReplayEffect"} =>
            db[ActionOf[d]].state \in {"Committed", "ReconciledCommitted"}

(* A record that redelivery cannot move, because it stopped before its     *)
(* call entry, belongs to an action without an effect: the capacity that   *)
(* stays held there is never capacity of a hidden effect.                  *)
StuckIsEffectFree ==
    \A w \in Workflow :
      (\/ db[w].state \in {"None", "DecisionRecorded", "Reserved", "ExecutionIntentRecorded"}
       \/ db[w].state = "Executing" /\ ~CallEntered(db[w])) => w \notin completed

(* An action whose call was entered reaches a terminal record as long as   *)
(* faults do not go on forever and a request for it that has not expired   *)
(* keeps being delivered.  Once every request for it has expired nothing   *)
(* in the service resolves a record left open.                             *)
RedeliveryResolves ==
    \A w \in Workflow :
      (/\ traffic.redelivery
       /\ db[w].state = "OutcomeUnknown" \/ (db[w].state = "Executing" /\ CallEntered(db[w])))
        ~> \/ db[w].state \in Terminal
           \/ {d \in traffic.deliveries : ActionOf[d] = w} \subseteq expired
=============================================================================
