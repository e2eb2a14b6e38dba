---------------------------- MODULE RecordsProofs ----------------------------
(***************************************************************************)
(* The records service executes an action in one delivery only and its     *)
(* receipts tell the truth, for every number of deliveries, actions,       *)
(* crashes, ledger errors and redeliveries, overlapping or not.            *)
(***************************************************************************)
EXTENDS RecordsService, LifecycleProofs

(* What a delivery may go on with. *)
Knowledge == {"Nothing", "None", "Entered", "Effect", "NonEffect"}
               \cup LifecycleState \cup ExecutionClassification

ServiceTypes ==
    /\ pc \in [Delivery -> Running \cup {"new", "done", "failed", "crashed"}]
    /\ rev \in [Delivery -> Nat]
    /\ known \in [Delivery -> Knowledge]
    /\ receipts \in [Delivery -> ExecutionClassification \cup {"None"}]
    /\ completed \subseteq Workflow
    /\ records \subseteq {TargetOf[w] : w \in Workflow}
    /\ disclosed \in 0 .. MaxDisclosed
    /\ traffic \in Traffic
    /\ faults \in 0 .. traffic.faults

SpentStates == {"Committed", "ReconciledCommitted"}
ReturnedStates == {"Released", "ReconciledReleased"}

(* A classification agrees with the record of the action. *)
ClassSound(class, state) ==
    /\ class \in {"Executed", "ReplayEffect"} => state \in SpentStates
    /\ class = "ReplayNonEffect" => state \in ReturnedStates

(* What delivery d saw and goes on with, compared with store and ledger.   *)
(* The revision of an earlier delivery of the same request may be stale,   *)
(* but never ahead of the record.                                          *)
DeliverySound(d) ==
    LET w == ActionOf[d]
        state == db[ActionOf[d]].state
    IN  /\ rev[d] <= db[w].revision
        /\ Executes(d) => CallEntered(db[w])
        /\ pc[d] = "reserve" => rev[d] = 1
        /\ pc[d] = "commit" => w \in completed
        /\ pc[d] = "reconcile" /\ known[d] = "Effect" => w \in completed
        /\ pc[d] = "recover" =>
              /\ known[d] # "DecisionRecorded"
              /\ known[d] \in SpentStates => state \in SpentStates
              /\ known[d] \in ReturnedStates => state \in ReturnedStates
        /\ pc[d] = "finish" =>
              known[d] \in ExecutionClassification /\ ClassSound(known[d], state)
        /\ ClassSound(receipts[d], state)

(* What the ledger holds, compared with the record of w. *)
ActionSound(w) ==
    /\ w \in completed => CallEntered(db[w])
    /\ db[w].state \in SpentStates => w \in completed

(* Delivery d holds the ledger's answer that its action has no effect. *)
SawNoEffect(d) == pc[d] = "release" \/ (pc[d] = "reconcile" /\ known[d] = "NonEffect")

(* Deliveries of an action that do not overlap: one runs at a time, the    *)
(* record waits for it, and nobody makes an answer of the ledger stale.    *)
Sequential ==
    /\ \A d, e \in Delivery :
          d # e /\ ActionOf[d] = ActionOf[e] => ~(pc[d] \in Running /\ pc[e] \in Running)
    /\ \A d \in Delivery :
          /\ pc[d] \in {"call", "commit", "release"} => db[ActionOf[d]].state = "Executing"
          /\ SawNoEffect(d) => ActionOf[d] \notin completed
    /\ \A w \in completed : db[w].state \notin ReturnedStates

(* The inductive invariant of the service. *)
ServiceInvariant ==
    /\ LifecycleInvariant /\ Executions
    /\ ServiceTypes
    /\ \A d \in Delivery : DeliverySound(d)
    /\ \A w \in Workflow : ActionSound(w)
    /\ OneExecutor
    /\ ~traffic.overlap => Sequential

-----------------------------------------------------------------------------
(* One delivery at a time changes what is its own *)

OnlyDelivery(d) ==
    \A e \in Delivery \ {d} :
      pc'[e] = pc[e] /\ rev'[e] = rev[e] /\ known'[e] = known[e] /\ receipts'[e] = receipts[e]

(* At most one transaction, of workflow w, happens in the store. *)
AtMostOneStep(w) == (db' = db /\ lapsed' = lapsed) \/ \E n : Step(w, n)

(* What no transaction takes back. *)
LEMMA StoreGrows ==
    ASSUME LifecycleInvariant, Executions, NEW w \in Workflow, AtMostOneStep(w)
    PROVE  /\ LifecycleInvariant' /\ Executions'
           /\ \A v \in Workflow \ {w} : db'[v] = db[v]
           /\ db[w].revision \in Nat /\ db'[w].revision \in Nat
           /\ db[w].revision <= db'[w].revision
           /\ CallEntered(db[w]) => CallEntered(db'[w])
           /\ db[w].state \in Terminal => db'[w] = db[w]
<1>1. CASE db' = db /\ lapsed' = lapsed
  BY <1>1, RecordsUntouched DEF LifecycleInvariant, TypeOK, LifecycleRecord
<1>2. ASSUME NEW n, Step(w, n)
      PROVE  /\ LifecycleInvariant' /\ Executions'
             /\ \A v \in Workflow \ {w} : db'[v] = db[v]
             /\ db'[w].revision = db[w].revision + 1
             /\ CallEntered(db[w]) => CallEntered(db'[w])
             /\ db[w].state \notin Terminal
  BY <1>2, Transaction
<1>3. db[w].revision \in Nat
  BY DEF LifecycleInvariant, TypeOK, LifecycleRecord
<1> QED BY <1>1, <1>2, <1>3 DEF AtMostOneStep

(* What one delivery does leaves every other one sound: revisions, call    *)
(* entries and completed actions only grow, and settled records are final. *)
LEMMA OthersStaySound ==
    ASSUME ServiceInvariant, NEW d \in Delivery, NEW w, w = ActionOf[d], OnlyDelivery(d),
           AtMostOneStep(w), completed' = completed \/ completed' = completed \cup {w},
           NEW e \in Delivery \ {d}
    PROVE  DeliverySound(e)' /\ (Executes(e)' <=> Executes(e))
<1> DEFINE v == ActionOf[e]
<1>1. /\ LifecycleInvariant /\ Executions /\ ServiceTypes /\ DeliverySound(e)
      /\ w \in Workflow /\ v \in Workflow
  BY ServiceAssumption DEF ServiceInvariant
<1>2. pc'[e] = pc[e] /\ rev'[e] = rev[e] /\ known'[e] = known[e] /\ receipts'[e] = receipts[e]
  BY DEF OnlyDelivery
<1>3. Executes(e)' <=> Executes(e)
  BY <1>2 DEF Executes
<1>4. /\ db[v].revision \in Nat /\ db'[v].revision \in Nat
      /\ db[v].revision <= db'[v].revision
      /\ CallEntered(db[v]) => CallEntered(db'[v])
      /\ db[v].state \in Terminal => db'[v] = db[v]
  <2>1. /\ db[w].revision \in Nat /\ db'[w].revision \in Nat
        /\ db[w].revision <= db'[w].revision
        /\ CallEntered(db[w]) => CallEntered(db'[w])
        /\ db[w].state \in Terminal => db'[w] = db[w]
        /\ \A u \in Workflow \ {w} : db'[u] = db[u]
    BY <1>1, StoreGrows
  <2>2. db[v].revision \in Nat
    BY <1>1 DEF LifecycleInvariant, TypeOK, LifecycleRecord
  <2>3. CASE v = w
    BY <2>1, <2>3
  <2>4. CASE v # w
    <3>1. db'[v] = db[v]
      BY <1>1, <2>1, <2>4
    <3> QED BY <2>2, <3>1
  <2> QED BY <2>3, <2>4
<1>5. rev[e] \in Nat /\ rev[e] <= db'[v].revision
  BY <1>1, <1>4 DEF ServiceTypes, DeliverySound
<1>6. \A class : ClassSound(class, db[v].state) => ClassSound(class, db'[v].state)
  BY <1>4 DEF ClassSound, SpentStates, ReturnedStates, Terminal
<1>7. /\ db[v].state \in SpentStates => db'[v].state \in SpentStates
      /\ db[v].state \in ReturnedStates => db'[v].state \in ReturnedStates
  BY <1>4 DEF SpentStates, ReturnedStates, Terminal
<1>8. v \in completed => v \in completed'
  OBVIOUS
<1>9. DeliverySound(e)'
  BY Zenon, <1>1, <1>2, <1>3, <1>4, <1>5, <1>6, <1>7, <1>8 DEF DeliverySound
<1> QED BY <1>3, <1>9

(* What a step of delivery d may do beside leaving d and its action sound: *)
(* become the executor of an action only when nobody entered its call, and *)
(* where deliveries do not overlap, run alone and act on nothing stale.    *)
MayTake(d) ==
    LET w == ActionOf[d] IN
    /\ Executes(d)' => Executes(d) \/ ~CallEntered(db[w])
    /\ ~traffic.overlap =>
          /\ \/ pc'[d] \notin Running
             \/ pc[d] \in Running
             \/ \A e \in Delivery : ActionOf[e] = w => pc[e] \notin Running
          /\ pc[d] \in Running \/ (db' = db /\ completed' = completed)
          /\ pc'[d] \in {"call", "commit", "release"} => db'[w].state = "Executing"
          /\ SawNoEffect(d)' => w \notin completed'
          /\ w \in completed' => db'[w].state \notin ReturnedStates

LEMMA DeliveryKeeps ==
    ASSUME ServiceInvariant, NEW d \in Delivery, NEW w, w = ActionOf[d], OnlyDelivery(d),
           AtMostOneStep(w), completed' = completed \/ completed' = completed \cup {w},
           traffic' = traffic, ServiceTypes', DeliverySound(d)', ActionSound(w)', MayTake(d)
    PROVE  ServiceInvariant'
<1>1. /\ LifecycleInvariant /\ Executions /\ ServiceTypes /\ OneExecutor
      /\ \A e \in Delivery : DeliverySound(e) /\ ActionOf[e] \in Workflow
      /\ \A v \in Workflow : ActionSound(v)
      /\ ~traffic.overlap => Sequential
      /\ w \in Workflow
  BY ServiceAssumption DEF ServiceInvariant
<1>2. \A e \in Delivery \ {d} : DeliverySound(e)' /\ (Executes(e)' <=> Executes(e))
  BY OthersStaySound
<1>3. LifecycleInvariant' /\ Executions' /\ \A v \in Workflow \ {w} : db'[v] = db[v]
  BY <1>1, StoreGrows
<1>4. \A v \in Workflow : ActionSound(v)'
  <2> TAKE v \in Workflow
  <2>1. CASE v # w
    <3>1. db'[v] = db[v] /\ (v \in completed' <=> v \in completed)
      BY <1>3, <2>1
    <3> QED BY <1>1, <3>1 DEF ActionSound
  <2> QED BY <2>1
<1>5. OneExecutor'
  <2> SUFFICES ASSUME NEW a \in Delivery, NEW b \in Delivery, a # b, ActionOf[a] = ActionOf[b],
                      Executes(a)', Executes(b)'
               PROVE  FALSE
    BY DEF OneExecutor
  <2>1. ASSUME NEW e \in Delivery \ {d}, ActionOf[e] = w, Executes(e)', Executes(d)'
        PROVE  FALSE
    <3>1. Executes(e) /\ CallEntered(db[w])
      BY <1>1, <1>2, <2>1 DEF DeliverySound
    <3>2. Executes(d)
      BY <2>1, <3>1 DEF MayTake
    <3> QED BY Zenon, <1>1, <2>1, <3>1, <3>2 DEF OneExecutor
  <2>2. CASE a = d \/ b = d
    BY <2>1, <2>2
  <2>3. CASE a # d /\ b # d
    BY <1>1, <1>2, <2>3 DEF OneExecutor
  <2> QED BY <2>2, <2>3
<1>6. ASSUME ~traffic'.overlap
      PROVE  Sequential'
  <2>1. ~traffic.overlap /\ Sequential
    BY <1>1, <1>6
  <2>2. \A e \in Delivery \ {d} : pc'[e] = pc[e] /\ known'[e] = known[e]
    BY DEF OnlyDelivery
  <2>3. ASSUME NEW a \in Delivery, NEW b \in Delivery, a # b, ActionOf[a] = ActionOf[b]
        PROVE  ~(pc'[a] \in Running /\ pc'[b] \in Running)
    <3>1. ASSUME NEW e \in Delivery \ {d}, ActionOf[e] = w, pc'[e] \in Running, pc'[d] \in Running
          PROVE  FALSE
      <4>1. pc[e] \in Running
        BY <2>2, <3>1
      <4>2. pc[d] \in Running
        BY <2>1, <3>1, <4>1 DEF MayTake
      <4> QED BY <2>1, <3>1, <4>1, <4>2 DEF Sequential
    <3>2. CASE a = d \/ b = d
      BY <2>3, <3>1, <3>2
    <3>3. CASE a # d /\ b # d
      BY <2>1, <2>2, <2>3, <3>3 DEF Sequential
    <3> QED BY <3>2, <3>3
  <2>4. ASSUME NEW e \in Delivery
        PROVE  /\ pc'[e] \in {"call", "commit", "release"} => db'[ActionOf[e]].state = "Executing"
               /\ SawNoEffect(e)' => ActionOf[e] \notin completed'
    <3>1. CASE e = d
      BY <2>1, <3>1 DEF MayTake
    <3>2. CASE e # d
      <4>1. pc'[e] = pc[e] /\ (SawNoEffect(e)' <=> SawNoEffect(e))
        BY <2>2, <3>2 DEF SawNoEffect
      <4>2. /\ pc[e] \in {"call", "commit", "release"} => db[ActionOf[e]].state = "Executing"
            /\ SawNoEffect(e) => ActionOf[e] \notin completed
        BY <2>1 DEF Sequential
      <4>3. CASE ActionOf[e] # w
        <5>1. db'[ActionOf[e]] = db[ActionOf[e]]
          BY <1>1, <1>3, <4>3
        <5> QED BY <4>1, <4>2, <4>3, <5>1
      <4>4. CASE ActionOf[e] = w
        <5>1. CASE pc[e] \in Running
          <6>1. pc[d] \notin Running
            BY <2>1, <3>2, <4>4, <5>1 DEF Sequential
          <6>2. db' = db /\ completed' = completed
            BY <2>1, <6>1 DEF MayTake
          <6> QED BY <4>1, <4>2, <6>2
        <5>2. CASE pc[e] \notin Running
          BY <4>1, <5>2 DEF Running, SawNoEffect
        <5> QED BY <5>1, <5>2
      <4> QED BY <4>3, <4>4
    <3> QED BY <3>1, <3>2
  <2>5. ASSUME NEW v \in completed'
        PROVE  db'[v].state \notin ReturnedStates
    <3>1. CASE v = w
      BY <2>1, <2>5, <3>1 DEF MayTake
    <3>2. CASE v # w
      <4>1. v \in completed /\ v \in Workflow
        BY <1>1, <3>2 DEF ServiceTypes
      <4> QED BY Zenon, <1>3, <2>1, <3>2, <4>1 DEF Sequential
    <3> QED BY <3>1, <3>2
  <2> QED BY <2>3, <2>4, <2>5 DEF Sequential
<1>7. \A e \in Delivery : DeliverySound(e)'
  BY <1>2
<1> QED BY <1>3, <1>4, <1>5, <1>6, <1>7 DEF ServiceInvariant

-----------------------------------------------------------------------------
(* The three kinds of steps a delivery takes *)

(* Delivery d goes on without touching store, ledger or its receipt. *)
LEMMA QuietKeeps ==
    ASSUME ServiceInvariant, NEW d \in Delivery, NEW w, w = ActionOf[d], OnlyDelivery(d),
           db' = db, lapsed' = lapsed, completed' = completed, receipts' = receipts,
           traffic' = traffic, ServiceTypes',
           rev'[d] <= db[w].revision,
           pc'[d] # "call",
           pc'[d] = "reserve" => rev'[d] = 1,
           pc'[d] = "commit" => pc[d] = "call" /\ w \in completed,
           pc'[d] = "release" => pc[d] = "call" /\ w \notin completed,
           pc'[d] = "reconcile" => known'[d] = IF w \in completed THEN "Effect" ELSE "NonEffect",
           pc'[d] = "recover" =>
              /\ known'[d] # "DecisionRecorded"
              /\ known'[d] \in SpentStates => db[w].state \in SpentStates
              /\ known'[d] \in ReturnedStates => db[w].state \in ReturnedStates,
           pc'[d] = "finish" =>
              known'[d] \in ExecutionClassification \ {"Executed"} /\ ClassSound(known'[d], db[w].state),
           \/ pc'[d] \notin Running \/ pc[d] \in Running \/ traffic.overlap
           \/ \A e \in Delivery : ActionOf[e] = w => pc[e] \notin Running
    PROVE  ServiceInvariant'
<1>1. /\ DeliverySound(d) /\ ActionSound(w) /\ w \in Workflow
      /\ ~traffic.overlap => Sequential
  BY ServiceAssumption DEF ServiceInvariant
<1>2. Executes(d)' => Executes(d)
  BY Zenon DEF Executes
<1>3. DeliverySound(d)'
  BY Zenon, <1>1, <1>2 DEF DeliverySound
<1>4. ActionSound(w)'
  BY <1>1 DEF ActionSound
<1>5. SawNoEffect(d)' => w \notin completed'
  BY DEF SawNoEffect
<1>6. MayTake(d)
  <2>1. ~traffic.overlap =>
          /\ pc'[d] \in {"call", "commit", "release"} => db'[w].state = "Executing"
          /\ w \in completed' => db'[w].state \notin ReturnedStates
    BY Zenon, <1>1 DEF Sequential
  <2> QED BY Zenon, <1>2, <1>5, <2>1 DEF MayTake
<1>7. AtMostOneStep(w)
  BY DEF AtMostOneStep
<1> QED BY Zenon, <1>3, <1>4, <1>6, <1>7, DeliveryKeeps

(* Delivery d ends here with an error or by a crash. *)
LEMMA EndKeeps ==
    ASSUME ServiceInvariant, NEW d \in Delivery, NEW label \in {"failed", "crashed", "new"},
           Goto(d, label), UNCHANGED <<db, lapsed, rev, known, ledgerVars, traffic>>,
           faults' \in 0 .. traffic.faults
    PROVE  ServiceInvariant'
<1>1. ServiceTypes /\ DeliverySound(d)
  BY DEF ServiceInvariant
<1>2. /\ pc' = [pc EXCEPT ![d] = label] /\ rev' = rev /\ known' = known /\ receipts' = receipts
      /\ completed' = completed /\ records' = records /\ disclosed' = disclosed
      /\ db' = db /\ lapsed' = lapsed /\ traffic' = traffic
  BY DEF Goto, ledgerVars
<1>3. ServiceTypes' /\ pc'[d] = label /\ OnlyDelivery(d)
  BY <1>1, <1>2 DEF ServiceTypes, OnlyDelivery
<1>4. rev'[d] <= db[ActionOf[d]].revision
  BY <1>1, <1>2 DEF DeliverySound
<1>5. label \notin Running
  BY DEF Running
<1> QED BY <1>2, <1>3, <1>4, <1>5, QuietKeeps

LEMMA RefusedKeeps ==
    ASSUME ServiceInvariant, NEW d \in Delivery, Refused(d), traffic' = traffic
    PROVE  ServiceInvariant'
<1>1. faults' \in 0 .. traffic.faults
  BY DEF Refused, ServiceInvariant, ServiceTypes
<1> QED BY <1>1, EndKeeps DEF Refused

(* Delivery d takes a transaction of its action and goes on. *)
LEMMA TransactionKeeps ==
    ASSUME ServiceInvariant, NEW d \in Delivery, NEW w, w = ActionOf[d], OnlyDelivery(d),
           NEW n, Step(w, n), completed' = completed, receipts' = receipts,
           traffic' = traffic, ServiceTypes', pc[d] \in Running,
           rev'[d] <= db'[w].revision,
           pc'[d] \notin {"commit", "release", "reconcile", "recover"},
           pc'[d] = "reserve" => rev'[d] = 1,
           pc'[d] = "call" =>
              ~CallEntered(db[w]) /\ CallEntered(db'[w]) /\ db'[w].state = "Executing",
           pc'[d] = "finish" =>
              /\ known'[d] \in ExecutionClassification
              /\ ClassSound(known'[d], db'[w].state)
              /\ known'[d] = "Executed" => Executes(d),
           db'[w].state \in SpentStates => w \in completed,
           ~traffic.overlap /\ w \in completed => db'[w].state \notin ReturnedStates
    PROVE  ServiceInvariant'
<1>1. /\ LifecycleInvariant /\ Executions
      /\ DeliverySound(d) /\ ActionSound(w) /\ w \in Workflow
  BY ServiceAssumption DEF ServiceInvariant
<1>2. CallEntered(db[w]) => CallEntered(db'[w])
  BY <1>1, Transaction
<1>3. db[w].state \notin Terminal
  BY Zenon, <1>1, Transaction
<1>4. ClassSound(receipts[d], db'[w].state)
  BY Zenon, <1>1, <1>3 DEF DeliverySound, ClassSound, SpentStates, ReturnedStates, Terminal
<1>5. Executes(d)' => Executes(d) \/ ~CallEntered(db[w])
  BY DEF Executes
<1>6. Executes(d)' => CallEntered(db'[w])
  <2>1. Executes(d) => CallEntered(db'[w])
    BY Zenon, <1>1, <1>2 DEF DeliverySound
  <2> QED BY Zenon, <2>1 DEF Executes
<1>7. DeliverySound(d)'
  BY Zenon, <1>4, <1>6 DEF DeliverySound
<1>8. ActionSound(w)'
  BY Zenon, <1>1, <1>2 DEF ActionSound
<1>9. MayTake(d)
  BY <1>5 DEF MayTake, SawNoEffect
<1>10. AtMostOneStep(w)
  BY Zenon DEF AtMostOneStep
<1> QED BY Zenon, <1>7, <1>8, <1>9, <1>10, DeliveryKeeps

(* The transaction is acknowledged at the revision it wrote. *)
LEMMA AcknowledgedKeeps ==
    ASSUME ServiceInvariant, NEW d \in Delivery, NEW w, w = ActionOf[d],
           Step(w, rev[d]), rev[d] = db[w].revision, traffic' = traffic, pc[d] \in Running,
           NEW label \in {"reserve", "intent", "credential", "attempt", "enter", "call", "observe"},
           Acknowledged(d, label),
           label = "reserve" => rev[d] = 0,
           label = "call" =>
              ~CallEntered(db[w]) /\ CallEntered(db'[w]) /\ db'[w].state = "Executing",
           db'[w].state \notin SpentStates \cup ReturnedStates
    PROVE  ServiceInvariant'
<1>1. /\ LifecycleInvariant /\ Executions /\ ServiceTypes /\ w \in Workflow
  BY Zenon, ServiceAssumption DEF ServiceInvariant
<1>2. /\ pc' = [pc EXCEPT ![d] = label] /\ rev' = [rev EXCEPT ![d] = rev[d] + 1]
      /\ known' = known /\ receipts' = receipts /\ faults' = faults
      /\ completed' = completed /\ records' = records /\ disclosed' = disclosed
  BY Zenon DEF Acknowledged, Goto, ledgerVars
<1>3. label \in Running
  BY Zenon DEF Running
<1>4. ServiceTypes' /\ pc'[d] = label /\ rev'[d] = rev[d] + 1 /\ OnlyDelivery(d)
  BY SMTT(20), <1>1, <1>2, <1>3 DEF ServiceTypes, OnlyDelivery
<1>5. rev[d] \in Nat /\ db'[w].revision = db[w].revision + 1
  BY Zenon, <1>1, Transaction DEF ServiceTypes
<1>6. rev'[d] <= db'[w].revision
  BY <1>4, <1>5
<1>7. label = "reserve" => rev'[d] = 1
  BY SMTT(20), <1>4
<1> QED BY Zenon, <1>2, <1>4, <1>6, <1>7, TransactionKeeps

(* The transaction decides the outcome, and the delivery goes to finish. *)
LEMMA ConcludedKeeps ==
    ASSUME ServiceInvariant, NEW d \in Delivery, NEW w, w = ActionOf[d],
           NEW n, Step(w, n), traffic' = traffic, pc[d] \in Running,
           NEW class \in ExecutionClassification, Conclude(d, class),
           UNCHANGED <<rev, ledgerVars, faults>>,
           ClassSound(class, db'[w].state),
           class = "Executed" => Executes(d),
           db'[w].state \in SpentStates => w \in completed,
           ~traffic.overlap /\ w \in completed => db'[w].state \notin ReturnedStates
    PROVE  ServiceInvariant'
<1>1. /\ LifecycleInvariant /\ Executions /\ ServiceTypes /\ w \in Workflow /\ DeliverySound(d)
  BY ServiceAssumption DEF ServiceInvariant
<1>2. /\ pc' = [pc EXCEPT ![d] = "finish"] /\ known' = [known EXCEPT ![d] = class]
      /\ rev' = rev /\ receipts' = receipts /\ faults' = faults
      /\ completed' = completed /\ records' = records /\ disclosed' = disclosed
  BY DEF Conclude, Goto, ledgerVars
<1>3. "finish" \in Running /\ class \in Knowledge
  BY Zenon DEF Running, Knowledge
<1>4. ServiceTypes' /\ pc'[d] = "finish" /\ known'[d] = class /\ OnlyDelivery(d)
  BY <1>1, <1>2, <1>3 DEF ServiceTypes, OnlyDelivery
<1>5. /\ rev[d] \in Nat /\ rev[d] <= db[w].revision /\ db[w].revision \in Nat
      /\ db'[w].revision = db[w].revision + 1
  BY Zenon, <1>1, Transaction DEF ServiceTypes, DeliverySound, LifecycleInvariant, TypeOK, LifecycleRecord
<1>6. rev'[d] <= db'[w].revision
  BY <1>2, <1>5
<1> QED BY Zenon, <1>2, <1>4, <1>6, TransactionKeeps

-----------------------------------------------------------------------------
(* Every step of a delivery keeps the invariant *)

LEMMA StartKeeps ==
    ASSUME ServiceInvariant, NEW d \in Delivery, Start(d), traffic' = traffic
    PROVE  ServiceInvariant'
<1>1. ServiceTypes /\ DeliverySound(d)
  BY DEF ServiceInvariant
<1>2. /\ rev' = rev /\ receipts' = receipts /\ faults' = faults
      /\ completed' = completed /\ records' = records /\ disclosed' = disclosed
      /\ db' = db /\ lapsed' = lapsed
      /\ traffic.overlap \/ \A e \in Delivery : ActionOf[e] = ActionOf[d] => pc[e] \notin Running
  BY DEF Start, ledgerVars
<1>3. rev'[d] <= db[ActionOf[d]].revision
  BY Zenon, <1>1, <1>2 DEF DeliverySound
<1>4. CASE Goto(d, "decide") /\ UNCHANGED known
  <2>1. pc' = [pc EXCEPT ![d] = "decide"] /\ known' = known
    BY <1>4 DEF Goto
  <2>2. ServiceTypes' /\ pc'[d] = "decide" /\ OnlyDelivery(d)
    BY Zenon, <1>1, <1>2, <2>1 DEF ServiceTypes, OnlyDelivery, Running
  <2> QED BY <1>2, <1>3, <2>2, QuietKeeps
<1>5. CASE Conclude(d, "NotAuthorized")
  <2>1. pc' = [pc EXCEPT ![d] = "finish"] /\ known' = [known EXCEPT ![d] = "NotAuthorized"]
    BY <1>5 DEF Conclude, Goto
  <2>2. /\ "NotAuthorized" \in ExecutionClassification \ {"Executed"}
        /\ ClassSound("NotAuthorized", db[ActionOf[d]].state)
    BY Zenon DEF ExecutionClassification, ClassSound
  <2>3. /\ ServiceTypes' /\ pc'[d] = "finish" /\ known'[d] = "NotAuthorized"
        /\ OnlyDelivery(d)
    BY <1>1, <1>2, <2>1, <2>2 DEF ServiceTypes, OnlyDelivery, Running, Knowledge
  <2> QED BY <1>2, <1>3, <2>2, <2>3, QuietKeeps
<1> QED BY Zenon, <1>4, <1>5 DEF Start

LEMMA DecideKeeps ==
    ASSUME ServiceInvariant, NEW d \in Delivery, Decide(d), traffic' = traffic
    PROVE  ServiceInvariant'
<1> DEFINE w == ActionOf[d]
<1>1. /\ LifecycleInvariant /\ Executions /\ ServiceTypes /\ w \in Workflow /\ DeliverySound(d)
      /\ pc[d] = "decide" /\ "decide" \in Running /\ rev[d] \in Nat
  BY Zenon, ServiceAssumption DEF ServiceInvariant, Decide, Running, ServiceTypes
<1>2. CASE RecordDecision(w, 0, d) /\ Acknowledged(d, "reserve")
  <2>1. db[w].revision = 0 /\ d \in InputsOf[w]
    BY <1>2 DEF RecordDecision, Transact
  <2>2. rev[d] = 0
    BY SMTT(20), <1>1, <2>1 DEF DeliverySound
  <2>3. Step(w, rev[d])
    BY <1>2, <2>1, <2>2 DEF Step
  <2>4. db'[w].state = "DecisionRecorded"
    BY Zenon, <1>1, <1>2, TransactionStates DEF LifecycleInvariant
  <2>5. db'[w].state \notin SpentStates \cup ReturnedStates
    BY <2>4 DEF SpentStates, ReturnedStates
  <2> QED BY Zenon, <1>1, <1>2, <2>1, <2>2, <2>3, <2>5, AcknowledgedKeeps
<1>3. CASE /\ Goto(d, "load")
           /\ UNCHANGED <<db, lapsed, rev, known, ledgerVars, faults>>
  <2>1. /\ pc' = [pc EXCEPT ![d] = "load"] /\ rev' = rev /\ known' = known
        /\ receipts' = receipts /\ faults' = faults
        /\ completed' = completed /\ records' = records /\ disclosed' = disclosed
        /\ db' = db /\ lapsed' = lapsed
    BY <1>3 DEF Goto, ledgerVars
  <2>2. ServiceTypes' /\ pc'[d] = "load" /\ OnlyDelivery(d)
    BY <1>1, <2>1 DEF ServiceTypes, OnlyDelivery, Running
  <2>3. rev'[d] <= db[w].revision
    BY Zenon, <1>1, <2>1 DEF DeliverySound
  <2> QED BY Zenon, <1>1, <2>1, <2>2, <2>3, QuietKeeps
<1> QED BY Zenon, <1>2, <1>3 DEF Decide

(* What a delivery loads says no more than the record does. *)
LEMMA LoadedSound ==
    ASSUME NEW r \in LifecycleRecord
    PROVE  /\ LoadedAs(r) \in Knowledge
           /\ LoadedAs(r) = "DecisionRecorded" => r.state = "DecisionRecorded"
           /\ LoadedAs(r) \in SpentStates => r.state \in SpentStates
           /\ LoadedAs(r) \in ReturnedStates => r.state \in ReturnedStates
<1>1. LoadedAs(r) = "Entered" \/ LoadedAs(r) = r.state
  BY DEF LoadedAs
<1>2. r.state \in LifecycleState \cup {"None"}
  BY Zenon DEF LifecycleRecord
<1> QED BY <1>1, <1>2 DEF Knowledge, SpentStates, ReturnedStates

(* The delivery goes to recover with the record it loaded. *)
LEMMA RecoverLoadedKeeps ==
    ASSUME ServiceInvariant, NEW d \in Delivery, NEW w, w = ActionOf[d], pc[d] \in Running,
           db[w].state # "DecisionRecorded", traffic' = traffic,
           rev' = [rev EXCEPT ![d] = db[w].revision],
           known' = [known EXCEPT ![d] = LoadedAs(db[w])],
           Goto(d, "recover"), UNCHANGED <<db, lapsed, ledgerVars, faults>>
    PROVE  ServiceInvariant'
<1>1. /\ ServiceTypes /\ w \in Workflow /\ db[w] \in LifecycleRecord /\ db[w].revision \in Nat
  <2>1. ServiceTypes /\ LifecycleInvariant
    BY DEF ServiceInvariant
  <2>2. w \in Workflow
    BY Zenon, ServiceAssumption
  <2>3. db[w] \in LifecycleRecord
    BY Zenon, <2>1, <2>2 DEF LifecycleInvariant, TypeOK
  <2> QED BY Zenon, <2>1, <2>2, <2>3 DEF LifecycleRecord
<1> DEFINE k == LoadedAs(db[w])
           m == db[w].revision
<1>2. /\ k \in Knowledge /\ k # "DecisionRecorded"
      /\ k \in SpentStates => db[w].state \in SpentStates
      /\ k \in ReturnedStates => db[w].state \in ReturnedStates
  BY Zenon, <1>1, LoadedSound
<1>3. /\ pc' = [pc EXCEPT ![d] = "recover"]
      /\ rev' = [rev EXCEPT ![d] = m] /\ known' = [known EXCEPT ![d] = k]
      /\ receipts' = receipts /\ faults' = faults
      /\ completed' = completed /\ records' = records /\ disclosed' = disclosed
      /\ db' = db /\ lapsed' = lapsed
  BY Zenon DEF Goto, ledgerVars
<1>4. m \in Nat /\ m <= db[w].revision
  BY <1>1
<1> HIDE DEF k, m
<1>5. "recover" \in Running
  BY Zenon DEF Running
<1>6. /\ ServiceTypes' /\ OnlyDelivery(d)
      /\ pc'[d] = "recover" /\ rev'[d] = m /\ known'[d] = k
  BY SMTT(20), <1>1, <1>2, <1>3, <1>4, <1>5 DEF ServiceTypes, OnlyDelivery
<1> QED BY <1>2, <1>3, <1>4, <1>6, QuietKeeps

LEMMA LoadKeeps ==
    ASSUME ServiceInvariant, NEW d \in Delivery, Load(d), traffic' = traffic
    PROVE  ServiceInvariant'
<1> DEFINE w == ActionOf[d]
<1>1. /\ ServiceTypes /\ w \in Workflow /\ db[w] \in LifecycleRecord /\ db[w].revision \in Nat
      /\ ExecutionStage(db[w])
      /\ pc[d] = "load" /\ "load" \in Running /\ "reserve" \in Running
  BY Zenon, ServiceAssumption
  DEF ServiceInvariant, LifecycleInvariant, TypeOK, LifecycleRecord, Executions,
      ExecutionInvariant, Load, Running
<1>2. /\ rev' = [rev EXCEPT ![d] = db[w].revision]
      /\ UNCHANGED <<db, lapsed, ledgerVars, faults>>
  BY DEF Load
<1>3. CASE db[w].state = "DecisionRecorded"
  <2>1. db[w].revision = 1
    BY Zenon, <1>1, <1>3 DEF ExecutionStage
  <2>2. /\ pc' = [pc EXCEPT ![d] = "reserve"] /\ rev' = [rev EXCEPT ![d] = 1]
        /\ known' = known /\ receipts' = receipts /\ faults' = faults
        /\ completed' = completed /\ records' = records /\ disclosed' = disclosed
        /\ db' = db /\ lapsed' = lapsed
    BY Zenon, <1>2, <1>3, <2>1 DEF Load, Goto, ledgerVars
  <2>3. /\ ServiceTypes' /\ OnlyDelivery(d) /\ pc'[d] = "reserve" /\ rev'[d] = 1
    BY <1>1, <2>2 DEF ServiceTypes, OnlyDelivery
  <2>4. rev'[d] <= db[w].revision
    BY <2>1, <2>3
  <2> QED BY Zenon, <1>1, <2>2, <2>3, <2>4, QuietKeeps
<1>4. CASE db[w].state # "DecisionRecorded"
  <2>1. Goto(d, "recover") /\ known' = [known EXCEPT ![d] = LoadedAs(db[w])]
    BY Zenon, <1>4 DEF Load
  <2> QED BY Zenon, <1>1, <1>2, <1>4, <2>1, RecoverLoadedKeeps
<1> QED BY <1>3, <1>4

(* The delivery goes to finish without a transaction. *)
LEMMA FinishKeeps ==
    ASSUME ServiceInvariant, NEW d \in Delivery, NEW w, w = ActionOf[d], pc[d] \in Running,
           NEW class \in ExecutionClassification \ {"Executed"}, Conclude(d, class),
           ClassSound(class, db[w].state), traffic' = traffic,
           UNCHANGED <<db, lapsed, rev, ledgerVars>>, faults' \in 0 .. traffic.faults
    PROVE  ServiceInvariant'
<1>1. ServiceTypes /\ DeliverySound(d)
  BY DEF ServiceInvariant
<1>2. /\ pc' = [pc EXCEPT ![d] = "finish"] /\ known' = [known EXCEPT ![d] = class]
      /\ rev' = rev /\ receipts' = receipts
      /\ completed' = completed /\ records' = records /\ disclosed' = disclosed
      /\ db' = db /\ lapsed' = lapsed
  BY DEF Conclude, Goto, ledgerVars
<1>3. "finish" \in Running /\ class \in Knowledge
  BY Zenon DEF Running, Knowledge
<1>4. ServiceTypes' /\ OnlyDelivery(d) /\ pc'[d] = "finish" /\ known'[d] = class
  BY SMTT(20), <1>1, <1>2, <1>3 DEF ServiceTypes, OnlyDelivery
<1>5. rev'[d] <= db[w].revision
  BY <1>1, <1>2 DEF DeliverySound
<1> QED BY Zenon, <1>2, <1>4, <1>5, QuietKeeps

LEMMA DoReserveKeeps ==
    ASSUME ServiceInvariant, NEW d \in Delivery, DoReserve(d), traffic' = traffic
    PROVE  ServiceInvariant'
<1> DEFINE w == ActionOf[d]
<1>1. /\ LifecycleInvariant /\ Executions /\ ServiceTypes /\ w \in Workflow /\ DeliverySound(d)
      /\ pc[d] = "reserve" /\ "reserve" \in Running /\ ExecutionStage(db[w])
  BY Zenon, ServiceAssumption DEF ServiceInvariant, DoReserve, Running, Executions, ExecutionInvariant
<1>2. CASE Reserve(w, rev[d]) /\ Acknowledged(d, "intent")
  <2>1. Step(w, rev[d]) /\ rev[d] = db[w].revision
    BY <1>2 DEF Step, Reserve, TransactExisting, Transact
  <2>2. db'[w].state = "Reserved"
    BY Zenon, <1>1, <1>2, TransactionStates DEF LifecycleInvariant
  <2>3. db'[w].state \notin SpentStates \cup ReturnedStates
    BY <2>2 DEF SpentStates, ReturnedStates
  <2> QED BY Zenon, <1>1, <1>2, <2>1, <2>3, AcknowledgedKeeps
<1>3. CASE /\ Conclude(d, "DefiniteNonEffect")
           /\ UNCHANGED <<db, lapsed, rev, ledgerVars, faults>>
  <2>1. /\ "DefiniteNonEffect" \in ExecutionClassification \ {"Executed"}
        /\ ClassSound("DefiniteNonEffect", db[w].state)
    BY Zenon DEF ExecutionClassification, ClassSound
  <2>2. faults' \in 0 .. traffic.faults
    BY <1>1, <1>3 DEF ServiceTypes
  <2> QED BY Zenon, <1>1, <1>3, <2>1, <2>2, FinishKeeps
<1>4. CASE /\ db[w].revision # rev[d]
           /\ rev' = [rev EXCEPT ![d] = db[w].revision]
           /\ known' = [known EXCEPT ![d] = LoadedAs(db[w])]
           /\ Goto(d, "recover")
           /\ UNCHANGED <<db, lapsed, ledgerVars, faults>>
  <2>1. db[w].state # "DecisionRecorded"
    BY Zenon, <1>1, <1>4 DEF DeliverySound, ExecutionStage
  <2> QED BY Zenon, <1>1, <1>4, <2>1, RecoverLoadedKeeps
<1> QED BY Zenon, <1>2, <1>3, <1>4 DEF DoReserve

(* The three transactions between the reservation and the provider call. *)
LEMMA PrepareKeeps ==
    ASSUME ServiceInvariant, NEW d \in Delivery, traffic' = traffic,
           DoRecordIntent(d) \/ DoAuthorizeCredential(d) \/ DoStartAttempt(d)
    PROVE  ServiceInvariant'
<1> DEFINE w == ActionOf[d]
<1>1. /\ LifecycleInvariant /\ Executions /\ ServiceTypes /\ w \in Workflow
      /\ pc[d] \in Running
  BY Zenon, ServiceAssumption
  DEF ServiceInvariant, DoRecordIntent, DoAuthorizeCredential, DoStartAttempt, Running
<1>2. ASSUME NEW label \in {"credential", "attempt", "enter"}, Acknowledged(d, label),
             \/ RecordExecutionIntent(w, rev[d])
             \/ AuthorizeCredential(w, rev[d])
             \/ StartAttempt(w, rev[d])
      PROVE  ServiceInvariant'
  <2>1. Step(w, rev[d]) /\ rev[d] = db[w].revision
    BY <1>2 DEF Step, RecordExecutionIntent, AuthorizeCredential, StartAttempt,
                TransactExisting, Transact
  <2>2. db'[w].state \in {"ExecutionIntentRecorded", "Executing"}
    BY Zenon, <1>1, <1>2, TransactionStates DEF LifecycleInvariant
  <2>3. db'[w].state \notin SpentStates \cup ReturnedStates
    BY <2>2 DEF SpentStates, ReturnedStates
  <2> QED BY Zenon, <1>1, <1>2, <2>1, <2>3, AcknowledgedKeeps
<1>3. CASE Refused(d)
  BY <1>3, RefusedKeeps
<1> QED BY Zenon, <1>2, <1>3 DEF DoRecordIntent, DoAuthorizeCredential, DoStartAttempt

(* The one step that makes a delivery the executor of its action. *)
LEMMA EnterProviderKeeps ==
    ASSUME ServiceInvariant, NEW d \in Delivery, EnterProvider(d), traffic' = traffic
    PROVE  ServiceInvariant'
<1> DEFINE w == ActionOf[d]
<1>1. /\ LifecycleInvariant /\ Executions /\ ServiceTypes /\ w \in Workflow
      /\ pc[d] \in Running
  BY Zenon, ServiceAssumption DEF ServiceInvariant, EnterProvider, Running
<1>2. CASE MarkProviderCallEntered(w, rev[d]) /\ Acknowledged(d, "call")
  <2>1. Step(w, rev[d]) /\ rev[d] = db[w].revision /\ ~CallEntered(db[w])
    BY <1>2 DEF Step, MarkProviderCallEntered, TransactExisting, Transact
  <2>2. db[w].state = "Executing" /\ db'[w].state = "Executing"
    BY Zenon, <1>1, <1>2, TransactionStates DEF LifecycleInvariant
  <2>3. CallEntered(db'[w])
    BY Zenon, <1>1, <2>1, <2>2, EntryIsEntered
  <2>4. db'[w].state \notin SpentStates \cup ReturnedStates
    BY <2>2 DEF SpentStates, ReturnedStates
  <2> QED BY Zenon, <1>1, <1>2, <2>1, <2>2, <2>3, <2>4, AcknowledgedKeeps
<1>3. CASE Refused(d)
  BY <1>3, RefusedKeeps
<1> QED BY Zenon, <1>2, <1>3 DEF EnterProvider

-----------------------------------------------------------------------------
(* The ledger *)

(* The ledger answers the call without a change: the action is completed   *)
(* already, or it is refused.                                              *)
LEMMA AnsweredKeeps ==
    ASSUME ServiceInvariant, NEW d \in Delivery, pc[d] = "call", traffic' = traffic,
           NEW label \in {"commit", "release"}, Goto(d, label),
           label = "commit" <=> ActionOf[d] \in completed,
           UNCHANGED <<db, lapsed, rev, known, faults>>, UNCHANGED ledgerVars
    PROVE  ServiceInvariant'
<1>1. ServiceTypes /\ DeliverySound(d)
  BY DEF ServiceInvariant
<1>2. /\ pc' = [pc EXCEPT ![d] = label] /\ rev' = rev /\ known' = known
      /\ receipts' = receipts /\ faults' = faults
      /\ completed' = completed /\ records' = records /\ disclosed' = disclosed
      /\ db' = db /\ lapsed' = lapsed
  BY Zenon DEF Goto, ledgerVars
<1>3. label \in Running /\ pc[d] \in Running
  BY DEF Running
<1>4. ServiceTypes' /\ OnlyDelivery(d) /\ pc'[d] = label
  BY Zenon, <1>1, <1>2, <1>3 DEF ServiceTypes, OnlyDelivery
<1>5. rev'[d] <= db[ActionOf[d]].revision
  BY <1>1, <1>2 DEF DeliverySound
<1>6. /\ label = "commit" => ActionOf[d] \in completed
      /\ label = "release" => ActionOf[d] \notin completed
  OBVIOUS
<1> QED BY Zenon, <1>2, <1>3, <1>4, <1>5, <1>6, QuietKeeps

(* The ledger completes the action. *)
LEMMA CompletedKeeps ==
    ASSUME ServiceInvariant, NEW d \in Delivery, NEW w, w = ActionOf[d],
           pc[d] = "call", traffic' = traffic,
           completed' = completed \cup {w}, Goto(d, "commit"),
           records' = records \cup {TargetOf[w]} \/ records' = records,
           disclosed' \in 0 .. MaxDisclosed, receipts' = receipts,
           UNCHANGED <<db, lapsed, rev, known, faults>>
    PROVE  ServiceInvariant'
<1>1. /\ ServiceTypes /\ DeliverySound(d) /\ ActionSound(w) /\ w \in Workflow
      /\ ~traffic.overlap => Sequential
  BY Zenon, ServiceAssumption DEF ServiceInvariant
<1>2. /\ pc' = [pc EXCEPT ![d] = "commit"] /\ rev' = rev /\ known' = known
      /\ faults' = faults /\ db' = db /\ lapsed' = lapsed
  BY DEF Goto
<1>3. "commit" \in Running /\ pc[d] \in Running
  BY DEF Running
<1>4. records' \subseteq {TargetOf[v] : v \in Workflow}
  BY Zenon, <1>1 DEF ServiceTypes
<1>5. ServiceTypes' /\ OnlyDelivery(d) /\ pc'[d] = "commit"
  BY <1>1, <1>2, <1>3, <1>4 DEF ServiceTypes, OnlyDelivery
<1>6. Executes(d) /\ CallEntered(db[w])
  BY Zenon, <1>1 DEF Executes, DeliverySound
<1>7. DeliverySound(d)'
  BY Zenon, <1>1, <1>2, <1>5, <1>6 DEF DeliverySound
<1>8. ActionSound(w)'
  BY Zenon, <1>2, <1>6 DEF ActionSound
<1>9. MayTake(d)
  <2>1. ~traffic.overlap => db'[w].state = "Executing"
    BY Zenon, <1>1, <1>2 DEF Sequential
  <2> QED BY Zenon, <1>3, <1>5, <1>6, <2>1 DEF MayTake, SawNoEffect, ReturnedStates
<1>10. AtMostOneStep(w)
  BY Zenon, <1>2 DEF AtMostOneStep
<1> QED BY Zenon, <1>5, <1>7, <1>8, <1>9, <1>10, DeliveryKeeps

LEMMA LedgerCreateKeeps ==
    ASSUME ServiceInvariant, NEW d \in Delivery, LedgerCreate(d), traffic' = traffic
    PROVE  ServiceInvariant'
<1> DEFINE w == ActionOf[d]
<1>1. pc[d] = "call" /\ UNCHANGED <<db, lapsed, rev, known, faults>>
  BY DEF LedgerCreate
<1>2. CASE w \in completed /\ Goto(d, "commit") /\ UNCHANGED ledgerVars
  BY <1>1, <1>2, AnsweredKeeps
<1>3. CASE w \notin completed /\ Goto(d, "release") /\ UNCHANGED ledgerVars
  BY Zenon, <1>1, <1>3, AnsweredKeeps
<1>4. CASE /\ completed' = completed \cup {w}
           /\ records' = records \cup {TargetOf[w]}
           /\ Goto(d, "commit")
           /\ UNCHANGED <<disclosed, receipts>>
  <2>1. disclosed' \in 0 .. MaxDisclosed
    BY Zenon, <1>4 DEF ServiceInvariant, ServiceTypes
  <2> QED BY Zenon, <1>1, <1>4, <2>1, CompletedKeeps
<1> QED BY Zenon, <1>2, <1>3, <1>4 DEF LedgerCreate

LEMMA LedgerReadKeeps ==
    ASSUME ServiceInvariant, NEW d \in Delivery, LedgerRead(d), traffic' = traffic
    PROVE  ServiceInvariant'
<1> DEFINE w == ActionOf[d]
<1>1. pc[d] = "call" /\ UNCHANGED <<db, lapsed, rev, known, faults>>
  BY Zenon DEF LedgerRead
<1>2. CASE w \in completed /\ Goto(d, "commit") /\ UNCHANGED ledgerVars
  BY <1>1, <1>2, AnsweredKeeps
<1>3. CASE w \notin completed /\ Goto(d, "release") /\ UNCHANGED ledgerVars
  BY <1>1, <1>3, AnsweredKeeps
<1>4. CASE /\ disclosed < MaxDisclosed
           /\ completed' = completed \cup {w}
           /\ disclosed' = disclosed + 1
           /\ Goto(d, "commit")
           /\ UNCHANGED <<records, receipts>>
  <2>1. disclosed' \in 0 .. MaxDisclosed
    BY <1>4, ServiceAssumption DEF ServiceInvariant, ServiceTypes
  <2> QED BY Zenon, <1>1, <1>4, <2>1, CompletedKeeps
<1> QED BY Zenon, <1>2, <1>3, <1>4 DEF LedgerRead

(* The delivery turns to finding out what happened. *)
LEMMA AskKeeps ==
    ASSUME ServiceInvariant, NEW d \in Delivery, pc[d] \in Running, traffic' = traffic,
           NEW label \in {"unknown", "observe"}, Goto(d, label),
           UNCHANGED <<db, lapsed, rev, known, ledgerVars>>, faults' \in 0 .. traffic.faults
    PROVE  ServiceInvariant'
<1>1. ServiceTypes /\ DeliverySound(d)
  BY DEF ServiceInvariant
<1>2. /\ pc' = [pc EXCEPT ![d] = label] /\ rev' = rev /\ known' = known
      /\ receipts' = receipts
      /\ completed' = completed /\ records' = records /\ disclosed' = disclosed
      /\ db' = db /\ lapsed' = lapsed
  BY DEF Goto, ledgerVars
<1>3. ServiceTypes' /\ OnlyDelivery(d) /\ pc'[d] = label
  BY <1>1, <1>2 DEF ServiceTypes, OnlyDelivery, Running
<1>4. rev'[d] <= db[ActionOf[d]].revision
  BY Zenon, <1>1, <1>2 DEF DeliverySound
<1> QED BY Zenon, <1>2, <1>3, <1>4, QuietKeeps

(* Another failure is within what the traffic allows. *)
LEMMA OneMoreFault ==
    ASSUME ServiceTypes, faults < traffic.faults, faults' = faults + 1
    PROVE  faults' \in 0 .. traffic.faults
<1>1. traffic.faults \in Nat
  BY ServiceAssumption DEF ServiceTypes
<1>2. faults \in 0 .. traffic.faults
  BY DEF ServiceTypes
<1> QED BY ONLY SMTT(20), <1>1, <1>2, faults < traffic.faults, faults' = faults + 1

LEMMA LedgerFailsKeeps ==
    ASSUME ServiceInvariant, NEW d \in Delivery, LedgerFails(d), traffic' = traffic
    PROVE  ServiceInvariant'
<1>1. pc[d] \in Running
  BY DEF LedgerFails, Running
<1>2. faults' \in 0 .. traffic.faults
  BY OneMoreFault DEF LedgerFails, ServiceInvariant
<1> QED BY <1>1, <1>2, AskKeeps DEF LedgerFails

LEMMA LedgerCompletedKeeps ==
    ASSUME ServiceInvariant, NEW d \in Delivery, LedgerCompleted(d), traffic' = traffic
    PROVE  ServiceInvariant'
<1> DEFINE k == IF ActionOf[d] \in completed THEN "Effect" ELSE "NonEffect"
<1>1. /\ ServiceTypes /\ DeliverySound(d) /\ pc[d] \in Running
      /\ UNCHANGED <<db, lapsed, rev, ledgerVars>>
  BY DEF ServiceInvariant, LedgerCompleted, Running
<1>2. CASE known' = [known EXCEPT ![d] = k] /\ Goto(d, "reconcile") /\ UNCHANGED faults
  <2>1. /\ pc' = [pc EXCEPT ![d] = "reconcile"] /\ known' = [known EXCEPT ![d] = k]
        /\ rev' = rev /\ receipts' = receipts /\ faults' = faults
        /\ completed' = completed /\ records' = records /\ disclosed' = disclosed
        /\ db' = db /\ lapsed' = lapsed
    BY <1>1, <1>2 DEF Goto, ledgerVars
  <2>2. k \in Knowledge /\ "reconcile" \in Running
    BY DEF Knowledge, Running
  <2>3. ServiceTypes' /\ OnlyDelivery(d) /\ pc'[d] = "reconcile" /\ known'[d] = k
    BY Zenon, <1>1, <2>1, <2>2 DEF ServiceTypes, OnlyDelivery
  <2>4. rev'[d] <= db[ActionOf[d]].revision
    BY Zenon, <1>1, <2>1 DEF DeliverySound
  <2> QED BY Zenon, <1>1, <2>1, <2>3, <2>4, QuietKeeps
<1>3. CASE /\ faults < traffic.faults
           /\ faults' = faults + 1
           /\ Conclude(d, "OutcomeUnknown")
  <2>1. faults' \in 0 .. traffic.faults
    BY Zenon, <1>1, <1>3, OneMoreFault
  <2>2. /\ "OutcomeUnknown" \in ExecutionClassification \ {"Executed"}
        /\ ClassSound("OutcomeUnknown", db[ActionOf[d]].state)
    BY DEF ExecutionClassification, ClassSound
  <2> QED BY Zenon, <1>1, <1>3, <2>1, <2>2, FinishKeeps
<1> QED BY <1>2, <1>3 DEF LedgerCompleted

-----------------------------------------------------------------------------
(* The outcome *)

LEMMA CommitEffectKeeps ==
    ASSUME ServiceInvariant, NEW d \in Delivery, CommitEffect(d), traffic' = traffic
    PROVE  ServiceInvariant'
<1> DEFINE w == ActionOf[d]
<1>1. /\ LifecycleInvariant /\ w \in Workflow /\ DeliverySound(d)
      /\ pc[d] = "commit" /\ pc[d] \in Running
  BY Zenon, ServiceAssumption DEF ServiceInvariant, CommitEffect, Running
<1>2. CASE Commit(w, rev[d]) /\ Conclude(d, "Executed") /\ UNCHANGED <<rev, ledgerVars, faults>>
  <2>1. Step(w, rev[d])
    BY Zenon, <1>2 DEF Step
  <2>2. db'[w].state = "Committed"
    BY Zenon, <1>1, <1>2, TransactionStates DEF LifecycleInvariant
  <2>3. Executes(d) /\ w \in completed
    BY Zenon, <1>1 DEF Executes, DeliverySound
  <2>4. /\ ClassSound("Executed", db'[w].state) /\ db'[w].state \notin ReturnedStates
        /\ "Executed" \in ExecutionClassification
    BY Zenon, <2>2 DEF ClassSound, SpentStates, ReturnedStates, ExecutionClassification
  <2> QED BY Zenon, <1>1, <1>2, <2>1, <2>3, <2>4, ConcludedKeeps
<1>3. CASE Refused(d)
  BY <1>3, RefusedKeeps
<1> QED BY Zenon, <1>2, <1>3 DEF CommitEffect

LEMMA ReleaseNonEffectKeeps ==
    ASSUME ServiceInvariant, NEW d \in Delivery, ReleaseNonEffect(d), traffic' = traffic
    PROVE  ServiceInvariant'
<1> DEFINE w == ActionOf[d]
<1>1. /\ LifecycleInvariant /\ w \in Workflow /\ pc[d] = "release" /\ pc[d] \in Running
      /\ ~traffic.overlap => Sequential
  BY Zenon, ServiceAssumption DEF ServiceInvariant, ReleaseNonEffect, Running
<1>2. CASE /\ Release(w, rev[d], "NonEffect")
           /\ Conclude(d, "DefiniteNonEffect")
           /\ UNCHANGED <<rev, ledgerVars, faults>>
  <2>1. Step(w, rev[d])
    BY Zenon, <1>2 DEF Step, EffectConclusion
  <2>2. db'[w].state = "Released"
    BY Zenon, <1>1, <1>2, TransactionStates DEF LifecycleInvariant
  <2>3. ~traffic.overlap => w \notin completed
    BY <1>1 DEF Sequential, SawNoEffect
  <2>4. /\ ClassSound("DefiniteNonEffect", db'[w].state) /\ db'[w].state \notin SpentStates
        /\ "DefiniteNonEffect" \in ExecutionClassification
    BY Zenon, <2>2 DEF ClassSound, SpentStates, ExecutionClassification
  <2> QED BY Zenon, <1>1, <1>2, <2>1, <2>3, <2>4, ConcludedKeeps
<1>3. CASE Refused(d)
  BY <1>3, RefusedKeeps
<1> QED BY Zenon, <1>2, <1>3 DEF ReleaseNonEffect

LEMMA MarkUnknownKeeps ==
    ASSUME ServiceInvariant, NEW d \in Delivery, MarkUnknown(d), traffic' = traffic
    PROVE  ServiceInvariant'
<1> DEFINE w == ActionOf[d]
<1>1. LifecycleInvariant /\ w \in Workflow /\ pc[d] \in Running
  BY Zenon, ServiceAssumption DEF ServiceInvariant, MarkUnknown, Running
<1>2. CASE MarkOutcomeUnknown(w, rev[d]) /\ Acknowledged(d, "observe")
  <2>1. Step(w, rev[d]) /\ rev[d] = db[w].revision
    BY Zenon, <1>2 DEF Step, MarkOutcomeUnknown, TransactExisting, Transact
  <2>2. db'[w].state = "OutcomeUnknown"
    BY Zenon, <1>1, <1>2, TransactionStates DEF LifecycleInvariant
  <2>3. db'[w].state \notin SpentStates \cup ReturnedStates
    BY <2>2 DEF SpentStates, ReturnedStates
  <2> QED BY Zenon, <1>1, <1>2, <2>1, <2>3, AcknowledgedKeeps
<1>3. CASE Refused(d)
  BY <1>3, RefusedKeeps
<1> QED BY <1>2, <1>3 DEF MarkUnknown

LEMMA ReconcileKnownKeeps ==
    ASSUME ServiceInvariant, NEW d \in Delivery, ReconcileKnown(d), traffic' = traffic
    PROVE  ServiceInvariant'
<1> DEFINE w == ActionOf[d]
<1>1. /\ LifecycleInvariant /\ w \in Workflow /\ DeliverySound(d)
      /\ pc[d] = "reconcile" /\ pc[d] \in Running
      /\ ~traffic.overlap => Sequential
  BY Zenon, ServiceAssumption DEF ServiceInvariant, ReconcileKnown, Running
<1>2. CASE /\ known[d] = "Effect"
           /\ ReconcileEffect(w, rev[d])
           /\ Conclude(d, "ReplayEffect")
           /\ UNCHANGED <<rev, ledgerVars, faults>>
  <2>1. Step(w, rev[d])
    BY Zenon, <1>2 DEF Step
  <2>2. db'[w].state = "ReconciledCommitted"
    BY Zenon, <1>1, <1>2, TransactionStates DEF LifecycleInvariant
  <2>3. w \in completed
    BY Zenon, <1>1, <1>2 DEF DeliverySound
  <2>4. /\ ClassSound("ReplayEffect", db'[w].state) /\ db'[w].state \notin ReturnedStates
        /\ "ReplayEffect" \in ExecutionClassification
    BY Zenon, <2>2 DEF ClassSound, SpentStates, ReturnedStates, ExecutionClassification
  <2> QED BY Zenon, <1>1, <1>2, <2>1, <2>3, <2>4, ConcludedKeeps
<1>3. CASE /\ known[d] = "NonEffect"
           /\ ReconcileNonEffect(w, rev[d])
           /\ Conclude(d, "ReplayNonEffect")
           /\ UNCHANGED <<rev, ledgerVars, faults>>
  <2>1. Step(w, rev[d])
    BY Zenon, <1>3 DEF Step
  <2>2. db'[w].state = "ReconciledReleased"
    BY Zenon, <1>1, <1>3, TransactionStates DEF LifecycleInvariant
  <2>3. ~traffic.overlap => w \notin completed
    BY Zenon, <1>1, <1>3 DEF Sequential, SawNoEffect
  <2>4. /\ ClassSound("ReplayNonEffect", db'[w].state) /\ db'[w].state \notin SpentStates
        /\ "ReplayNonEffect" \in ExecutionClassification
    BY <2>2 DEF ClassSound, SpentStates, ReturnedStates, ExecutionClassification
  <2> QED BY Zenon, <1>1, <1>3, <2>1, <2>3, <2>4, ConcludedKeeps
<1>4. CASE Refused(d)
  BY <1>4, RefusedKeeps
<1> QED BY Zenon, <1>2, <1>3, <1>4 DEF ReconcileKnown

LEMMA RecoverExistingKeeps ==
    ASSUME ServiceInvariant, NEW d \in Delivery, RecoverExisting(d), traffic' = traffic
    PROVE  ServiceInvariant'
<1> DEFINE w == ActionOf[d]
<1>1. /\ DeliverySound(d) /\ pc[d] = "recover" /\ pc[d] \in Running
      /\ UNCHANGED <<db, lapsed, rev, ledgerVars, faults>>
      /\ faults' \in 0 .. traffic.faults
  BY Zenon DEF ServiceInvariant, ServiceTypes, RecoverExisting, Running
<1>2. CASE known[d] \in {"Committed", "ReconciledCommitted"} /\ Conclude(d, "ReplayEffect")
  <2>1. db[w].state \in SpentStates
    BY <1>1, <1>2 DEF DeliverySound, SpentStates
  <2>2. /\ ClassSound("ReplayEffect", db[w].state)
        /\ "ReplayEffect" \in ExecutionClassification \ {"Executed"}
    BY Zenon, <2>1 DEF ClassSound, ExecutionClassification
  <2> QED BY SMTT(20), <1>1, <1>2, <2>2, FinishKeeps
<1>3. CASE /\ known[d] \in {"Released", "ReconciledReleased", "DecisionRecorded"}
           /\ Conclude(d, "ReplayNonEffect")
  <2>1. db[w].state \in ReturnedStates
    BY <1>1, <1>3 DEF DeliverySound, ReturnedStates
  <2>2. /\ ClassSound("ReplayNonEffect", db[w].state)
        /\ "ReplayNonEffect" \in ExecutionClassification \ {"Executed"}
    BY <2>1 DEF ClassSound, ExecutionClassification
  <2> QED BY Zenon, <1>1, <1>3, <2>2, FinishKeeps
<1>4. CASE (Goto(d, "observe") \/ Goto(d, "unknown")) /\ UNCHANGED known
  BY <1>1, <1>4, AskKeeps
<1>5. CASE Goto(d, "failed") /\ UNCHANGED known
  BY Zenon, <1>1, <1>5, EndKeeps
<1> QED BY Zenon, <1>2, <1>3, <1>4, <1>5 DEF RecoverExisting

LEMMA AppendReceiptKeeps ==
    ASSUME ServiceInvariant, NEW d \in Delivery, AppendReceipt(d), traffic' = traffic
    PROVE  ServiceInvariant'
<1> DEFINE w == ActionOf[d]
<1>1. /\ ServiceTypes /\ DeliverySound(d) /\ ActionSound(w) /\ w \in Workflow
      /\ pc[d] = "finish" /\ pc[d] \in Running
      /\ UNCHANGED <<db, lapsed, rev, known, completed, records, disclosed>>
      /\ ~traffic.overlap => Sequential
  BY Zenon, ServiceAssumption DEF ServiceInvariant, AppendReceipt, Running
<1>2. CASE receipts' = [receipts EXCEPT ![d] = known[d]] /\ Goto(d, "done") /\ UNCHANGED faults
  <2>1. pc' = [pc EXCEPT ![d] = "done"]
    BY <1>2 DEF Goto
  <2>2. known[d] \in ExecutionClassification /\ ClassSound(known[d], db[w].state)
    BY Zenon, <1>1 DEF DeliverySound
  <2>3. ServiceTypes' /\ OnlyDelivery(d) /\ pc'[d] = "done" /\ receipts'[d] = known[d]
    BY Zenon, <1>1, <1>2, <2>1, <2>2 DEF ServiceTypes, OnlyDelivery
  <2>4. Executes(d)' => Executes(d)
    BY <1>1, <2>3 DEF Executes
  <2>5. DeliverySound(d)'
    BY Zenon, <1>1, <2>2, <2>3, <2>4 DEF DeliverySound
  <2>6. ActionSound(w)'
    BY Zenon, <1>1 DEF ActionSound
  <2>7. MayTake(d)
    BY Zenon, <1>1, <2>3, <2>4 DEF MayTake, SawNoEffect, Running, Sequential
  <2>8. AtMostOneStep(w)
    BY Zenon, <1>1 DEF AtMostOneStep
  <2> QED BY Zenon, <1>1, <2>3, <2>5, <2>6, <2>7, <2>8, DeliveryKeeps
<1>3. CASE /\ faults < traffic.faults /\ faults' = faults + 1
           /\ Goto(d, "failed") /\ UNCHANGED receipts
  <2>1. faults' \in 0 .. traffic.faults
    BY Zenon, <1>1, <1>3, OneMoreFault
  <2>2. UNCHANGED <<db, lapsed, rev, known, ledgerVars, traffic>>
    BY <1>1, <1>3 DEF ledgerVars
  <2> QED BY <1>3, <2>1, <2>2, EndKeeps
<1> QED BY Zenon, <1>2, <1>3 DEF AppendReceipt

(* A crash, a request made again and one that expires change no record. *)
LEMMA CrashKeeps ==
    ASSUME ServiceInvariant, NEW d \in Delivery, Crash(d), traffic' = traffic
    PROVE  ServiceInvariant'
<1>1. faults' \in 0 .. traffic.faults
  BY OneMoreFault DEF Crash, ServiceInvariant
<1> QED BY <1>1, EndKeeps DEF Crash

LEMMA RedeliverKeeps ==
    ASSUME ServiceInvariant, NEW d \in Delivery, Redeliver(d), traffic' = traffic
    PROVE  ServiceInvariant'
<1>1. faults' \in 0 .. traffic.faults
  BY DEF Redeliver, ServiceInvariant, ServiceTypes
<1> QED BY <1>1, EndKeeps DEF Redeliver

LEMMA ExpiryKeeps ==
    ASSUME ServiceInvariant, traffic' = traffic,
           UNCHANGED <<db, lapsed, pc, rev, known, ledgerVars, faults>>
    PROVE  ServiceInvariant'
<1>1. /\ pc' = pc /\ rev' = rev /\ known' = known /\ receipts' = receipts /\ faults' = faults
      /\ completed' = completed /\ records' = records /\ disclosed' = disclosed
      /\ db' = db /\ lapsed' = lapsed
  BY DEF ledgerVars
<1>2. LifecycleInvariant' /\ Executions'
  BY <1>1, RecordsUntouched DEF ServiceInvariant, LifecycleInvariant, TypeOK
<1>3. ServiceTypes'
  BY Zenon, <1>1 DEF ServiceInvariant, ServiceTypes
<1>4. (\A d \in Delivery : DeliverySound(d)') /\ (\A w \in Workflow : ActionSound(w)')
  BY Zenon, <1>1 DEF ServiceInvariant, DeliverySound, ActionSound, Executes
<1>5. OneExecutor'
  BY Zenon, <1>1 DEF ServiceInvariant, OneExecutor, Executes
<1>6. ~traffic'.overlap => Sequential'
  BY <1>1 DEF ServiceInvariant, Sequential, SawNoEffect
<1> QED BY Zenon, <1>2, <1>3, <1>4, <1>5, <1>6 DEF ServiceInvariant

LEMMA DeliveryStepKeeps ==
    ASSUME ServiceInvariant, NEW d \in Delivery, DeliveryStep(d), traffic' = traffic
    PROVE  ServiceInvariant'
BY Zenon, StartKeeps, RedeliverKeeps, DecideKeeps, LoadKeeps, DoReserveKeeps, PrepareKeeps,
   EnterProviderKeeps, LedgerCreateKeeps, LedgerReadKeeps, LedgerFailsKeeps,
   CommitEffectKeeps, ReleaseNonEffectKeeps, MarkUnknownKeeps, LedgerCompletedKeeps,
   ReconcileKnownKeeps, RecoverExistingKeeps, AppendReceiptKeeps
DEF DeliveryStep

LEMMA ServiceInitInvariant == ServiceInit => ServiceInvariant
<1> SUFFICES ASSUME ServiceInit PROVE ServiceInvariant
  BY SMTT(20)
<1>1. LifecycleInvariant /\ Executions /\ db = [w \in Workflow |-> NoRecord]
  BY InitInvariant, InitExecutions DEF ServiceInit, Init
<1>2. /\ traffic \in Traffic /\ traffic.deliveries \subseteq Delivery /\ traffic.faults \in Nat
  BY ServiceAssumption DEF ServiceInit
<1>3. records \subseteq {TargetOf[w] : w \in Workflow}
  BY <1>2, ServiceAssumption DEF ServiceInit
<1>4. ServiceTypes
  BY <1>2, <1>3 DEF ServiceInit, ServiceTypes, Knowledge
<1>5. \A w \in Workflow : db[w].state = "None" /\ db[w].revision = 0
  BY Zenon, <1>1, NoRecordFields
<1>6. \A d \in Delivery : /\ ActionOf[d] \in Workflow /\ pc[d] = "new" /\ rev[d] = 0
                          /\ receipts[d] = "None" /\ ~Executes(d)
  BY Zenon, ServiceAssumption DEF ServiceInit, Executes
<1>7. \A d \in Delivery : DeliverySound(d)
  BY <1>5, <1>6 DEF DeliverySound, ClassSound
<1>8. completed = {} /\ \A w \in Workflow : ActionSound(w)
  BY <1>5 DEF ServiceInit, ActionSound, SpentStates
<1>9. OneExecutor /\ Sequential
  BY <1>6, <1>8 DEF OneExecutor, Sequential, SawNoEffect, Running
<1> QED BY Zenon, <1>1, <1>4, <1>7, <1>8, <1>9 DEF ServiceInvariant

LEMMA ServiceNextInvariant ==
    ServiceInvariant /\ [ServiceNext]_serviceVars => ServiceInvariant'
<1> SUFFICES ASSUME ServiceInvariant, [ServiceNext]_serviceVars
             PROVE  ServiceInvariant'
  OBVIOUS
<1>1. ASSUME NEW d \in Delivery, DeliveryStep(d) \/ Crash(d), traffic' = traffic
      PROVE  ServiceInvariant'
  BY Zenon, <1>1, DeliveryStepKeeps, CrashKeeps
<1>2. ASSUME NEW d \in Delivery, RequestExpires(d), traffic' = traffic
      PROVE  ServiceInvariant'
  BY Zenon, <1>2, ExpiryKeeps DEF RequestExpires
<1>3. CASE UNCHANGED serviceVars
  <2>1. traffic' = traffic /\ UNCHANGED <<db, lapsed, pc, rev, known, ledgerVars, faults>>
    BY <1>3 DEF serviceVars, ledgerVars
  <2> QED BY <2>1, ExpiryKeeps
<1> QED BY <1>1, <1>2, <1>3 DEF ServiceNext

-----------------------------------------------------------------------------
(* Theorems *)

(* The service keeps its inductive invariant: whatever deliveries, crashes *)
(* and ledger errors interleave, no delivery is ahead of the record, every *)
(* completed action has its call entered and every receipt stands.         *)
THEOREM ServiceInvariance == ServiceSpec => []ServiceInvariant
BY ServiceInitInvariant, ServiceNextInvariant, PTL DEF ServiceSpec

(* The deliveries and the ledger stay well typed, and RecordsLedger::read  *)
(* never discloses more than the policy's maximum.                         *)
THEOREM ServiceTypeCorrect == ServiceSpec => []ServiceTypeOK
<1> DEFINE Expiries == expired \subseteq traffic.deliveries
<1>1. ServiceInvariant /\ Expiries => ServiceTypeOK
  BY DEF ServiceInvariant, ServiceTypes, ServiceTypeOK
<1>2. ServiceInit => Expiries
  BY DEF ServiceInit
<1>3. Expiries /\ [ServiceNext]_serviceVars => Expiries'
  <2>1. ASSUME Expiries, NEW d \in Delivery, RequestExpires(d), traffic' = traffic
        PROVE  Expiries'
    BY Zenon, <2>1 DEF RequestExpires
  <2> QED BY Zenon, <2>1 DEF ServiceNext, serviceVars
<1> QED BY <1>1, <1>2, <1>3, ServiceInvariance, PTL DEF ServiceSpec

(* Of all deliveries of an action, overlapping, crashed or made again, one *)
(* at most holds the provider-call authorization or reports the effect as  *)
(* executed by it.                                                         *)
THEOREM OneExecutorAlways == ServiceSpec => []OneExecutor
<1>1. ServiceInvariant => OneExecutor
  BY Zenon DEF ServiceInvariant
<1> QED BY <1>1, ServiceInvariance, PTL

(* finish never stores an effect receipt for an action that is not         *)
(* completed in the ledger and committed in the store.                     *)
THEOREM ReceiptsTellTruthAlways == ServiceSpec => []ReceiptsTellTruth
<1>1. ServiceInvariant => ReceiptsTellTruth
  BY Zenon DEF ServiceInvariant, ReceiptsTellTruth, ActionSound, DeliverySound, ClassSound, SpentStates
<1> QED BY <1>1, ServiceInvariance, PTL

(* The records that recover_existing gives up on, because they stopped     *)
(* before their call entry, belong to actions the ledger never completed.  *)
THEOREM StuckIsEffectFreeAlways == ServiceSpec => []StuckIsEffectFree
<1>1. ServiceInvariant => StuckIsEffectFree
  <2> SUFFICES ASSUME ServiceInvariant, NEW w \in Workflow, w \in completed
               PROVE  /\ CallEntered(db[w])
                      /\ db[w].state \notin {"None", "DecisionRecorded", "Reserved",
                                             "ExecutionIntentRecorded"}
    BY Zenon DEF StuckIsEffectFree
  <2>1. /\ CallEntered(db[w]) /\ db[w] \in LifecycleRecord /\ ExecutionStage(db[w])
    BY DEF ServiceInvariant, ActionSound, LifecycleInvariant, TypeOK, Executions,
           ExecutionInvariant
  <2>2. db[w].state \in {"Executing"} \cup Suspended
    BY Zenon, <2>1, EnteredStates
  <2> QED BY Zenon, <2>1, <2>2 DEF Suspended, Terminal
<1> QED BY <1>1, ServiceInvariance, PTL

(* Where the deliveries of an action do not overlap, recovery never        *)
(* releases the capacity of a completed action and no receipt denies its   *)
(* effect, whatever crashes, errors and redeliveries come between them.    *)
THEOREM SequentialKeepsCapacityAlways == ServiceSpec => []SequentialKeepsCapacity
<1>1. ServiceInvariant => SequentialKeepsCapacity
  <2> SUFFICES ASSUME ServiceInvariant, ~traffic.overlap, NEW w \in completed
               PROVE  /\ db[w].state \notin ReturnedStates
                      /\ \A d \in Delivery : ActionOf[d] = w => receipts[d] # "ReplayNonEffect"
    BY Zenon DEF SequentialKeepsCapacity, EffectKeepsCapacity, ReturnedStates
  <2>1. db[w].state \notin ReturnedStates
    BY Zenon DEF ServiceInvariant, Sequential
  <2>2. \A d \in Delivery : ClassSound(receipts[d], db[ActionOf[d]].state)
    BY DEF ServiceInvariant, DeliverySound
  <2> QED BY <2>1, <2>2 DEF ClassSound
<1> QED BY <1>1, ServiceInvariance, PTL

(* Every step of the service is a step of the lifecycle store or leaves it *)
(* as it was, so all that holds of the store holds beneath the service.    *)
THEOREM ServiceImplementsLifecycle == ServiceSpec => Spec
<1>1. ServiceInit => Init
  BY DEF ServiceInit
<1>2. ServiceInvariant /\ [ServiceNext]_serviceVars => [Next]_lifecycleVars
  <2> SUFFICES ASSUME ServiceInvariant, [ServiceNext]_serviceVars
               PROVE  Next \/ (db' = db /\ lapsed' = lapsed)
    BY DEF lifecycleVars
  <2>1. ASSUME NEW d \in Delivery, DeliveryStep(d)
        PROVE  Next \/ (db' = db /\ lapsed' = lapsed)
    <3> DEFINE w == ActionOf[d]
    <3>0. w \in Workflow
      BY Zenon, ServiceAssumption
    <3>1. AtMostOneStep(w)
      <4> USE DEF AtMostOneStep
      <4>1. CASE Start(d) \/ Redeliver(d) \/ Load(d) \/ AppendReceipt(d)
        BY Zenon, <4>1 DEF Start, Redeliver, Load, AppendReceipt
      <4>2. CASE LedgerCreate(d) \/ LedgerRead(d) \/ LedgerFails(d) \/ LedgerCompleted(d)
                   \/ RecoverExisting(d)
        BY Zenon, <4>2 DEF LedgerCreate, LedgerRead, LedgerFails, LedgerCompleted, RecoverExisting
      <4>3. CASE Decide(d)
        <5>1. \A n : RecordDecision(w, n, d) => Step(w, n)
          BY DEF Step, RecordDecision
        <5> QED BY Zenon, <4>3, <5>1 DEF Decide, Refused
      <4>4. CASE DoReserve(d)
        BY Zenon, <4>4 DEF DoReserve, Refused, Step
      <4>5. CASE DoRecordIntent(d) \/ DoAuthorizeCredential(d) \/ DoStartAttempt(d)
        BY Zenon, <4>5 DEF DoRecordIntent, DoAuthorizeCredential, DoStartAttempt, Refused, Step
      <4>6. CASE EnterProvider(d) \/ CommitEffect(d) \/ MarkUnknown(d)
        BY Zenon, <4>6 DEF EnterProvider, CommitEffect, MarkUnknown, Refused, Step
      <4>7. CASE ReleaseNonEffect(d)
        BY Zenon, <4>7 DEF ReleaseNonEffect, Refused, Step, EffectConclusion
      <4>8. CASE ReconcileKnown(d)
        BY Zenon, <4>8 DEF ReconcileKnown, Refused, Step
      <4> QED BY Zenon, <2>1, <4>1, <4>2, <4>3, <4>4, <4>5, <4>6, <4>7, <4>8 DEF DeliveryStep
    <3>2. ASSUME NEW n, Step(w, n)
          PROVE  Next
      BY <3>0, <3>2, StepAtRevision DEF Next
    <3> QED BY <3>1, <3>2 DEF AtMostOneStep
  <2>2. ASSUME NEW d \in Delivery, Crash(d)
        PROVE  db' = db /\ lapsed' = lapsed
    BY <2>2 DEF Crash
  <2>3. ASSUME NEW d \in Delivery, RequestExpires(d)
        PROVE  db' = db /\ lapsed' = lapsed
    BY <2>3 DEF RequestExpires
  <2>4. CASE UNCHANGED serviceVars
    BY <2>4 DEF serviceVars
  <2> QED BY <2>1, <2>2, <2>3, <2>4 DEF ServiceNext
<1> QED BY <1>1, <1>2, ServiceInvariance, PTL DEF ServiceSpec, Spec
=============================================================================
