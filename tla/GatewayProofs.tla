---------------------------- MODULE GatewayProofs ----------------------------
(***************************************************************************)
(* The gateway sends at most one request for a mutation or a read, its     *)
(* journal says what happened, and every step it takes is a step of the    *)
(* abstract gate: for any number of tasks, operations, reads and counters. *)
(***************************************************************************)
EXTENDS GatewaySubmit, TLAPS

TaskShape(x) ==
  DOMAIN x = {"phase", "op", "read", "binding", "at", "conn", "candidate", "own", "lent", "answer"}

ViewShape(v) ==
  DOMAIN v = {"protocol", "revision", "stage", "refusal", "fixed", "entry", "pre_entry",
              "response", "locator", "acknowledgement", "reading", "evidence",
              "observation", "link"}

Unsent == {"Reserved", "NotEntered"}

\* The stages that do not say a request was sent.
Unsaid == Unsent \cup {"EntryGranted", "Unknown"}

\* The phases of a task that may send, or might have.
Spare == {"Send", "Unsent"}

\* An answer that says a mutation was found at the provider tells the truth.
TrueAnswers(k, answers) ==
  (IsRecovery(k) /\ SourceOf[k[1]] \in Echo)
    => \A q \in answers : q.value = "match" => SourceOf[k[1]] \in applied

(***************************************************************************)
(* The inductive invariant: what the journal, the provider and the         *)
(* requests sent say of each other, and what a task in each phase knows.   *)
(***************************************************************************)
StoreInv ==
  /\ journal = [k \in Key |-> journal[k]]
  /\ sent \in [Key -> {0, 1}]
  /\ \A k \in Key :
       /\ \A v \in journal[k] : ViewShape(v) /\ TrueAnswers(k, v.response)
       /\ \A u, v \in journal[k] : u = v
       /\ journal[k] = {} => sent[k] = 0
       /\ \A v \in journal[k] :
            /\ v.stage \in Unsent => sent[k] = 0
            /\ v.stage \notin Unsaid \/ v.response # {} => sent[k] = 1
            /\ v.stage = "ObservedByProvider" => k[1] \in applied
  /\ \A o \in Op : o \in air \cup applied => sent[<<o, 0>>] = 1

\* A task that may send, or has given up sending, holds the only permit for
\* its key.
Permitted(t) ==
  /\ KeyOf(t) \in Key
  /\ \E v \in journal[KeyOf(t)] : v.stage = "EntryGranted"
  /\ sent[KeyOf(t)] = 0

TaskOK(t) ==
  /\ TaskShape(run[t])
  /\ Phase(t) = "Idle" \/ KeyOf(t) \in Key
  /\ Phase(t) # "Record" => run[t].answer = {}
  /\ Phase(t) \in Spare => Permitted(t)
  /\ Phase(t) \in {"Await", "Record"} => sent[KeyOf(t)] = 1
  /\ TrueAnswers(KeyOf(t), run[t].answer)

TaskInv ==
  /\ run = [t \in Task |-> run[t]]
  /\ \A t \in Task : TaskOK(t)
  /\ \A t, u \in Task :
       Phase(t) \in Spare /\ Phase(u) \in Spare /\ KeyOf(t) = KeyOf(u) => t = u

PermitInv == load \in Workload /\ StoreInv /\ TaskInv

(***************************************************************************)
(* A task in a phase that neither holds a permit nor awaits an answer.     *)
(***************************************************************************)
Quiet(x) ==
  /\ TaskShape(x)
  /\ x.phase \notin {"Send", "Unsent", "Await", "Record"}
  /\ x.answer = {}
  /\ x.phase = "Idle" \/ <<x.op, x.read>> \in Key

\* The elements of a sequence.
LEMMA SeqElement ==
  ASSUME NEW S, NEW seq \in Seq(S), NEW i \in 1..Len(seq)
  PROVE seq[i] \in S
OBVIOUS

LEMMA BecomeFacts ==
  ASSUME NEW t \in Task, NEW x, run = [u \in Task |-> run[u]], Become(t, x)
  PROVE /\ run' = [u \in Task |-> run'[u]]
        /\ run'[t] = x
        /\ \A u \in Task : u # t => run'[u] = run[u]
BY DEF Become

LEMMA QuietIdle == Quiet(Idle)
BY DEF Quiet, Idle, TaskShape

\* Tasks other than the one that moved keep what they know, when requests
\* sent stay sent, applied effects stay applied, and no permit is disturbed.
LEMMA OthersKept ==
  ASSUME TaskInv, NEW t \in Task, NEW u \in Task, u # t,
         run'[u] = run[u],
         sent \in [Key -> {0, 1}],
         \A k \in Key : sent[k] = 1 => sent'[k] = 1,
         applied \subseteq applied',
         Phase(u) \in Spare => Permitted(u)'
  PROVE TaskOK(u)'
<1>1. TaskOK(u)
  BY DEF TaskInv
<1>2. Phase(u)' = Phase(u) /\ KeyOf(u)' = KeyOf(u)
  BY DEF Phase, KeyOf
<1>3. TrueAnswers(KeyOf(u), run[u].answer)'
  BY <1>1, <1>2 DEF TaskOK, TrueAnswers, IsRecovery
<1>4. Phase(u) \in {"Await", "Record"} => KeyOf(u) \in Key
  BY <1>1 DEF TaskOK
<1> QED
  BY <1>1, <1>2, <1>3, <1>4 DEF TaskOK

\* A step after which the task is quiet, and which disturbs no permit.
LEMMA QuietTask ==
  ASSUME TaskInv, NEW t \in Task, NEW x, Quiet(x), Become(t, x),
         sent \in [Key -> {0, 1}], sent' = sent, applied' = applied,
         \A u \in Task : u # t /\ Phase(u) \in Spare => Permitted(u)'
  PROVE TaskInv'
<1>1. /\ run' = [u \in Task |-> run'[u]]
      /\ run'[t] = x
      /\ \A u \in Task : u # t => run'[u] = run[u]
  BY BecomeFacts DEF TaskInv
<1>2. ASSUME NEW u \in Task, u # t PROVE TaskOK(u)'
  BY <1>1, <1>2, OthersKept
<1>3. TaskOK(t)'
  BY <1>1 DEF TaskOK, Quiet, Phase, KeyOf, TrueAnswers, Spare
<1>4. \A u, w \in Task :
        (Phase(u) \in Spare /\ Phase(w) \in Spare /\ KeyOf(u) = KeyOf(w) => u = w)'
  BY <1>1 DEF TaskInv, Quiet, Phase, KeyOf, Spare
<1> QED
  BY <1>1, <1>2, <1>3, <1>4 DEF TaskInv

LEMMA QuietStep ==
  ASSUME PermitInv, NEW t \in Task, NEW x, Quiet(x), Become(t, x),
         UNCHANGED <<load, journal, sent, air, applied>>
  PROVE PermitInv'
<1>1. StoreInv'
  BY DEF PermitInv, StoreInv, TrueAnswers
<1>2. \A u \in Task : u # t /\ Phase(u) \in Spare => Permitted(u)'
  <2> SUFFICES ASSUME NEW u \in Task, u # t, Phase(u) \in Spare PROVE Permitted(u)'
    OBVIOUS
  <2>1. Permitted(u)
    BY DEF PermitInv, TaskInv, TaskOK
  <2>2. KeyOf(u)' = KeyOf(u)
    BY BecomeFacts DEF KeyOf, PermitInv, TaskInv
  <2> QED
    BY <2>1, <2>2 DEF Permitted
<1>3. TaskInv'
  BY <1>2, QuietTask DEF PermitInv, StoreInv
<1> QED
  BY <1>1, <1>3 DEF PermitInv

LEMMA KeyFacts ==
  /\ \A o \in Operation : <<o, 0>> \in Key
  /\ \A o \in Operation : \A i \in 1..Reads[o] : <<o, i>> \in Key
  /\ \A o, i : <<o, i>> \in Key => o \in Operation /\ i \in Nat
BY SubmitAssumption DEF Key, Operation

\* What a task that is neither idle nor recording has in hand.
LEMMA TaskFacts ==
  ASSUME PermitInv, NEW t \in Task, Phase(t) \notin {"Idle", "Record"}
  PROVE /\ TaskShape(run[t]) /\ run[t].answer = {}
        /\ <<run[t].op, run[t].read>> \in Key
        /\ run[t].op \in Operation /\ run[t].read \in Nat
BY KeyFacts DEF PermitInv, TaskInv, TaskOK, KeyOf

LEMMA QuietGo ==
  ASSUME NEW t \in Task, NEW phase, phase \notin {"Send", "Unsent", "Await", "Record"},
         TaskShape(run[t]), run[t].answer = {}, <<run[t].op, run[t].read>> \in Key
  PROVE Quiet([run[t] EXCEPT !.phase = phase])
BY DEF Quiet, TaskShape

LEMMA QuietHold ==
  ASSUME NEW t \in Task, NEW phase, NEW held, phase \notin {"Send", "Unsent", "Await", "Record"},
         TaskShape(run[t]), run[t].answer = {}, <<run[t].op, run[t].read>> \in Key,
         Hold(t, phase, held)
  PROVE \E x : Quiet(x) /\ Become(t, x)
<1>1. Quiet([run[t] EXCEPT !.phase = phase, !.own = held])
  BY DEF Quiet, TaskShape
<1>2. Quiet([run[t] EXCEPT !.phase = phase, !.lent = held])
  BY DEF Quiet, TaskShape
<1>3. CASE run[t].read = 0
  <2>1. Become(t, [run[t] EXCEPT !.phase = phase, !.own = held])
    BY <1>3 DEF Hold
  <2> QED BY <1>1, <2>1
<1>4. CASE run[t].read # 0
  <2>1. Become(t, [run[t] EXCEPT !.phase = phase, !.lent = held])
    BY <1>4 DEF Hold
  <2> QED BY <1>2, <2>1
<1> QED BY <1>3, <1>4

LEMMA QuietAfterRead ==
  ASSUME NEW t \in Task, NEW i \in Nat, TaskShape(run[t]), run[t].answer = {},
         run[t].op \in Operation
  PROVE Quiet(AfterRead(t, i))
<1>1. CASE i < Reads[run[t].op]
  <2> DEFINE x == [run[t] EXCEPT !.phase = "Lookup", !.read = i + 1, !.lent = {},
                                 !.candidate = <<>>]
  <2>1. <<run[t].op, i + 1>> \in Key
    BY <1>1, KeyFacts, SubmitAssumption
  <2>2. Quiet(x)
    BY <2>1 DEF Quiet, TaskShape
  <2>3. AfterRead(t, i) = x
    BY <1>1 DEF AfterRead
  <2> QED BY <2>2, <2>3
<1>2. CASE ~(i < Reads[run[t].op])
  <2> DEFINE next == CASE run[t].op \in Recovery -> "Grant"
                       [] run[t].op \in Checkpoints -> "Checkpoint"
                       [] OTHER -> "Enter"
             x == [run[t] EXCEPT !.read = 0, !.lent = {}, !.phase = next]
  <2>1. next \in {"Grant", "Checkpoint", "Enter"}
    OBVIOUS
  <2>2. AfterRead(t, i) = x
    BY <1>2 DEF AfterRead
  <2>3. <<run[t].op, 0>> \in Key
    BY KeyFacts
  <2> HIDE DEF next
  <2>4. Quiet(x)
    BY <2>1, <2>3 DEF Quiet, TaskShape
  <2> QED BY <2>2, <2>4
<1> QED BY <1>1, <1>2

(***************************************************************************)
(* Steps that only move a task, and steps of the surroundings.             *)
(***************************************************************************)
LEMMA MoveStep ==
  ASSUME PermitInv, NEW t \in Task,
         (\E o, b : o \in Operation /\ Begin(t, o, b)) \/ Lookup(t) \/ Search(t)
           \/ Reload(t) \/ ReadEvidence(t) \/ Enter(t) \/ Halt(t)
  PROVE PermitInv'
<1> SUFFICES (\E x : Quiet(x) /\ Become(t, x))
               /\ UNCHANGED <<load, journal, sent, air, applied>>
  BY QuietStep
<1>1. UNCHANGED <<load, journal, sent, air, applied>>
  BY Zenon DEF Begin, Lookup, Search, Reload, ReadEvidence, Enter, Halt
<1>2. ASSUME NEW o, NEW b, o \in Operation, Begin(t, o, b)
      PROVE \E x : Quiet(x) /\ Become(t, x)
  <2> DEFINE x == [Idle EXCEPT !.phase = "Lookup", !.op = o, !.binding = b,
                               !.at = now, !.conn = conn]
  <2>1. <<o, 0>> \in Key
    BY <1>2, KeyFacts
  <2>2. Quiet(x)
    BY <2>1 DEF Quiet, Idle, TaskShape
  <2>3. Become(t, x)
    BY Zenon, <1>2 DEF Begin
  <2> QED BY <2>2, <2>3
<1>3. ASSUME NEW phase, phase \notin {"Send", "Unsent", "Await", "Record"}, Go(t, phase),
             Phase(t) \notin {"Idle", "Record"}
      PROVE \E x : Quiet(x) /\ Become(t, x)
  BY Zenon, <1>3, TaskFacts, QuietGo DEF Go
<1>4. Stop(t) => \E x : Quiet(x) /\ Become(t, x)
  BY QuietIdle DEF Stop
<1>5. CASE Lookup(t)
  <2>1. Phase(t) \notin {"Idle", "Record"}
    BY <1>5 DEF Lookup
  <2>2. Quiet([run[t] EXCEPT !.phase = "Search", !.candidate = <<>>])
    BY <2>1, TaskFacts DEF Quiet, TaskShape
  <2>3. \/ Become(t, [run[t] EXCEPT !.phase = "Search", !.candidate = <<>>])
        \/ Hold(t, AfterClaim(t), journal[KeyOf(t)]) \/ Go(t, "Evidence") \/ Stop(t)
    BY <1>5 DEF Lookup
  <2>4. AfterClaim(t) \notin {"Send", "Unsent", "Await", "Record"}
    BY DEF AfterClaim
  <2>5. CASE Hold(t, AfterClaim(t), journal[KeyOf(t)])
    BY Zenon, <1>1, <2>1, <2>4, <2>5, TaskFacts, QuietHold
  <2> QED BY <1>1, <2>1, <2>2, <2>3, <2>5, <1>3, <1>4
<1>6. CASE Search(t)
  <2>1. Phase(t) = "Search"
    BY <1>6 DEF Search
  <2>2. PICK c : \/ Become(t, [run[t] EXCEPT !.candidate = c])
                 \/ Go(t, "Lookup") \/ Stop(t)
    BY Zenon, <1>6 DEF Search
  <2>3. Quiet([run[t] EXCEPT !.candidate = c])
    BY <2>1, TaskFacts DEF Quiet, TaskShape, Phase
  <2> QED BY <1>1, <2>1, <2>2, <2>3, <1>3, <1>4
<1>7. CASE Reload(t)
  <2>1. Phase(t) = "Reload"
    BY <1>7 DEF Reload
  <2>2. Become(t, AfterRead(t, 0)) \/ Go(t, "Refuse") \/ Stop(t)
    BY <1>7 DEF Reload
  <2>3. Quiet(AfterRead(t, 0))
    BY Zenon, <2>1, TaskFacts, QuietAfterRead
  <2> QED BY <1>1, <2>1, <2>2, <2>3, <1>3, <1>4
<1>8. CASE ReadEvidence(t)
  <2> DEFINE x == [run[t] EXCEPT !.phase = "Refuse", !.read = 0, !.lent = {}]
  <2>1. Phase(t) = "Evidence"
    BY <1>8 DEF ReadEvidence
  <2>2. Become(t, AfterRead(t, run[t].read)) \/ Become(t, x) \/ Stop(t)
    BY <1>8 DEF ReadEvidence
  <2>3. Quiet(AfterRead(t, run[t].read))
    BY Zenon, <2>1, TaskFacts, QuietAfterRead
  <2>4. Quiet(x)
    BY Zenon, <2>1, TaskFacts, KeyFacts DEF Quiet, TaskShape
  <2> QED BY <1>1, <2>2, <2>3, <2>4, <1>4
<1>9. CASE Enter(t)
  BY <1>1, <1>9, <1>3 DEF Enter
<1>10. CASE Halt(t)
  BY <1>1, <1>10, <1>4 DEF Halt
<1> QED BY <1>1, <1>2, <1>5, <1>6, <1>7, <1>8, <1>9, <1>10

LEMMA SurroundingsStep ==
  ASSUME PermitInv,
         Tick \/ sweep_expired \/ ConnectionChange \/ \E o \in Op : Apply(o) \/ Lose(o)
  PROVE PermitInv'
<1>1. /\ UNCHANGED <<load, journal, run, sent>>
      /\ air' \cup applied' \subseteq air \cup applied /\ applied \subseteq applied'
  BY DEF Tick, sweep_expired, ConnectionChange, Apply, Lose
<1>2. StoreInv'
  BY <1>1 DEF PermitInv, StoreInv, TrueAnswers
<1>3. ASSUME NEW t \in Task PROVE TaskOK(t)'
  BY <1>1 DEF PermitInv, TaskInv, TaskOK, TrueAnswers, Permitted, Phase, KeyOf
<1> QED
  BY <1>1, <1>2, <1>3 DEF PermitInv, TaskInv, Phase, KeyOf

(***************************************************************************)
(* Writes.  The record a task compares and replaces is the stored one; a   *)
(* record that replaces it keeps the journal true when it says no more     *)
(* than was sent and applied, and disturbs no permit when it replaces no   *)
(* grant still to be used.                                                 *)
(***************************************************************************)
LEMMA HeldView ==
  ASSUME PermitInv, NEW t \in Task, Phase(t) # "Idle", Unchanged(t)
  PROVE LET v == CHOOSE v \in Held(t) : TRUE
            k == KeyOf(t)
        IN /\ k \in Key /\ v \in journal[k]
           /\ ViewShape(v) /\ TrueAnswers(k, v.response)
           /\ v.stage \in Unsent => sent[k] = 0
           /\ v.response # {} => sent[k] = 1
           /\ \A u \in journal[k] : u = v
<1>1. KeyOf(t) \in Key
  BY DEF PermitInv, TaskInv, TaskOK
<1>2. (CHOOSE v \in Held(t) : TRUE) \in journal[KeyOf(t)]
  BY DEF Unchanged
<1> QED
  BY <1>1, <1>2 DEF PermitInv, StoreInv

\* A record that says no more than what happened to its key.
Truthful(k, new) ==
  /\ ViewShape(new)
  /\ TrueAnswers(k, new.response)
  /\ new.stage \in Unsent => sent[k] = 0
  /\ new.stage \notin Unsaid \/ new.response # {} => sent[k] = 1
  /\ new.stage = "ObservedByProvider" => k[1] \in applied

LEMMA TruthfulWrite ==
  ASSUME PermitInv, NEW k \in Key, NEW new, Truthful(k, new),
         journal' = [journal EXCEPT ![k] = {new}],
         UNCHANGED <<sent, air, applied>>
  PROVE StoreInv'
<1>1. /\ journal' = [m \in Key |-> journal'[m]]
      /\ journal'[k] = {new}
      /\ \A m \in Key : m # k => journal'[m] = journal[m]
  BY Zenon DEF PermitInv, StoreInv
<1>2. \A m, a : TrueAnswers(m, a)' <=> TrueAnswers(m, a)
  BY DEF TrueAnswers
<1>3. ASSUME NEW m \in Key
      PROVE (/\ \A v \in journal[m] : ViewShape(v) /\ TrueAnswers(m, v.response)
             /\ \A u, v \in journal[m] : u = v
             /\ journal[m] = {} => sent[m] = 0
             /\ \A v \in journal[m] :
                  /\ v.stage \in Unsent => sent[m] = 0
                  /\ v.stage \notin Unsaid \/ v.response # {} => sent[m] = 1
                  /\ v.stage = "ObservedByProvider" => m[1] \in applied)'
  <2>1. CASE m = k
    BY <1>1, <1>2, <2>1 DEF Truthful
  <2>2. CASE m # k
    BY <1>1, <1>2, <2>2 DEF PermitInv, StoreInv
  <2> QED BY <2>1, <2>2
<1> QED
  BY <1>1, <1>3 DEF PermitInv, StoreInv

LEMMA PermitKept ==
  ASSUME PermitInv, NEW k \in Key, NEW new,
         journal' = [journal EXCEPT ![k] = {new}], sent' = sent,
         NEW u \in Task, Phase(u) \in Spare, run'[u] = run[u],
         (\A v \in journal[k] : v.stage = "EntryGranted" => sent[k] = 1) \/ KeyOf(u) # k
  PROVE Permitted(u)' /\ KeyOf(u) # k
<1>1. Permitted(u)
  BY DEF PermitInv, TaskInv, TaskOK
<1>2. KeyOf(u) # k
  BY <1>1 DEF Permitted
<1>3. KeyOf(u)' = KeyOf(u)
  BY DEF KeyOf
<1>4. journal'[KeyOf(u)] = journal[KeyOf(u)]
  BY <1>1, <1>2 DEF Permitted, PermitInv, StoreInv
<1> QED
  BY <1>1, <1>2, <1>3, <1>4 DEF Permitted

LEMMA QuietWrite ==
  ASSUME PermitInv, NEW t \in Task, NEW k \in Key, NEW new, NEW x,
         Truthful(k, new),
         \/ \A v \in journal[k] : v.stage = "EntryGranted" => sent[k] = 1
         \/ Phase(t) \in Spare /\ KeyOf(t) = k,
         journal' = [journal EXCEPT ![k] = {new}],
         Quiet(x), Become(t, x),
         UNCHANGED <<load, sent, air, applied>>
  PROVE PermitInv'
<1>1. StoreInv'
  BY Zenon, TruthfulWrite
<1>2. \A u \in Task : u # t => run'[u] = run[u]
  BY BecomeFacts DEF PermitInv, TaskInv
<1>3. \A u \in Task : u # t /\ Phase(u) \in Spare => Permitted(u)'
  <2> SUFFICES ASSUME NEW u \in Task, u # t, Phase(u) \in Spare PROVE Permitted(u)'
    OBVIOUS
  <2>1. (\A v \in journal[k] : v.stage = "EntryGranted" => sent[k] = 1) \/ KeyOf(u) # k
    BY Zenon DEF PermitInv, TaskInv
  <2> QED BY Zenon, <1>2, <2>1, PermitKept
<1>4. TaskInv'
  BY <1>3, QuietTask DEF PermitInv, StoreInv
<1> QED
  BY <1>1, <1>4 DEF PermitInv

LEMMA ClaimTruthful ==
  ASSUME PermitInv, NEW k \in Key, journal[k] = {}, NEW b, NEW charged, NEW stage \in Unsent
  PROVE Truthful(k, claim_record(k, b, stage, charged))
<1> DEFINE new == claim_record(k, b, stage, charged)
<1>1. new.stage = stage /\ new.response = {} /\ ViewShape(new)
  BY DEF claim_record, ViewShape
<1>2. sent[k] = 0
  BY DEF PermitInv, StoreInv
<1> QED
  BY <1>1, <1>2 DEF Truthful, TrueAnswers, Unsent, Unsaid

LEMMA InsertStep ==
  ASSUME PermitInv, NEW t \in Task, Insert(t)
  PROVE PermitInv'
<1> DEFINE k == KeyOf(t)
           b == run[t].binding
<1>1. /\ Phase(t) = "Search" /\ k \in Key
      /\ TaskShape(run[t]) /\ run[t].answer = {} /\ <<run[t].op, run[t].read>> \in Key
  BY TaskFacts DEF Insert, Searched, KeyOf
<1>2. UNCHANGED <<load, sent, air, applied>>
  BY DEF Insert
<1>3. ASSUME Go(t, "Lookup") \/ Go(t, "Evidence") \/ Stop(t)
      PROVE \E x : Quiet(x) /\ Become(t, x)
  BY <1>1, <1>3, QuietGo, QuietIdle DEF Go, Stop
<1>4. CASE journal' = journal /\ (Go(t, "Lookup") \/ Go(t, "Evidence") \/ Stop(t))
  BY <1>2, <1>3, <1>4, QuietStep
<1>5. CASE /\ journal[k] = {}
           /\ journal' = [journal EXCEPT ![k] = {claim_record(k, b, "NotEntered", {})}]
           /\ Go(t, "Evidence") \/ Stop(t)
  <2>1. Truthful(k, claim_record(k, b, "NotEntered", {}))
    BY <1>1, <1>5, ClaimTruthful DEF Unsent
  <2> QED BY Zenon, <1>1, <1>2, <1>3, <1>5, <2>1, QuietWrite
<1>6. ASSUME journal' = journal, NEW c, Become(t, [run[t] EXCEPT !.candidate = c])
      PROVE PermitInv'
  <2>1. Quiet([run[t] EXCEPT !.candidate = c])
    BY <1>1 DEF Quiet, TaskShape, Phase
  <2> QED BY <1>2, <1>6, <2>1, QuietStep
<1>7. ASSUME journal[k] = {}, NEW charged,
             journal' = [journal EXCEPT ![k] = {claim_record(k, b, "Reserved", charged)}],
             Hold(t, AfterClaim(t), {claim_record(k, b, "Reserved", charged)})
      PROVE PermitInv'
  <2>1. Truthful(k, claim_record(k, b, "Reserved", charged))
    BY <1>1, <1>7, ClaimTruthful DEF Unsent
  <2>2. AfterClaim(t) \notin {"Send", "Unsent", "Await", "Record"}
    BY DEF AfterClaim
  <2>3. \E x : Quiet(x) /\ Become(t, x)
    BY <1>1, <1>7, <2>2, QuietHold
  <2> QED BY Zenon, <1>1, <1>2, <1>7, <2>1, <2>3, QuietWrite
<1>8. CASE journal[k] # {} /\ Go(t, "Lookup") /\ UNCHANGED <<journal, slots>>
  BY <1>4, <1>8
<1> DEFINE fenced == EntryValid(t) /\ eligible_source(k, b)
<1>9. CASE /\ journal[k] = {} /\ refusal(t)
           /\ journal' = IF fenced
                THEN [journal EXCEPT ![k] = {claim_record(k, b, "NotEntered", {})}]
                ELSE journal
           /\ IF fenced /\ IsPrerequisite(k) THEN Go(t, "Evidence") ELSE Stop(t)
  <2> HIDE DEF fenced
  <2> QED BY <1>9, <1>4, <1>5
<1>10. CASE \E n \in Occupied(t) :
                /\ \A m \in Occupied(t) : n <= m
                /\ Become(t, [run[t] EXCEPT !.candidate = advance(t, n)])
                /\ journal' = journal
  BY <1>10, <1>6
<1> DEFINE charged == {[counter |-> r.counter, window |-> r.window, slot |-> r.slot] : r \in Batch(t)}
<1>11. CASE /\ journal[k] = {}
            /\ IF fenced /\ validate_predecessors(t)
                 THEN LET v == {claim_record(k, b, "Reserved", charged)}
                      IN /\ journal' = [journal EXCEPT ![k] = v]
                         /\ Hold(t, AfterClaim(t), v)
                 ELSE Stop(t) /\ UNCHANGED journal
  <2> HIDE DEF fenced, charged
  <2> QED BY <1>11, <1>7, <1>4
<1> QED
  BY <1>8, <1>9, <1>10, <1>11 DEF Insert

LEMMA CheckpointStep ==
  ASSUME PermitInv, NEW t \in Task, record_checkpoint(t)
  PROVE PermitInv'
<1> DEFINE k == KeyOf(t)
           v == CHOOSE v \in Held(t) : TRUE
           new == [Advanced(v, v.stage) EXCEPT !.pre_entry = {"read"}]
<1>1. /\ Phase(t) = "Checkpoint" /\ k \in Key
      /\ TaskShape(run[t]) /\ run[t].answer = {} /\ <<run[t].op, run[t].read>> \in Key
  BY TaskFacts DEF record_checkpoint, KeyOf
<1>2. UNCHANGED <<load, sent, air, applied>>
  BY DEF record_checkpoint
<1>3. CASE journal' = journal /\ (Go(t, "Enter") \/ Stop(t))
  BY Zenon, <1>1, <1>2, <1>3, QuietGo, QuietIdle, QuietStep DEF Go, Stop
<1>4. CASE /\ Unchanged(t) /\ valid_transition(v, new)
           /\ journal' = [journal EXCEPT ![k] = {new}] /\ Hold(t, "Enter", {new})
  <2>1. /\ v \in journal[k] /\ ViewShape(v) /\ TrueAnswers(k, v.response)
        /\ v.stage \in Unsent => sent[k] = 0
        /\ v.response # {} => sent[k] = 1
        /\ \A u \in journal[k] : u = v
    BY <1>1, <1>4, HeldView
  <2> HIDE DEF v
  <2>2. ViewShape(new) /\ new.stage = v.stage /\ new.response = v.response
    BY <2>1 DEF ViewShape, Advanced
  <2>3. v.stage = "Reserved"
    BY <1>4, <2>2 DEF valid_transition, stage_transition_allowed
  <2>4. Truthful(k, new)
    BY <2>1, <2>2, <2>3 DEF Truthful, Unsent, Unsaid
  <2>5. \E x : Quiet(x) /\ Become(t, x)
    BY <1>1, <1>4, QuietHold
  <2>6. \A u \in journal[k] : u.stage = "EntryGranted" => sent[k] = 1
    BY <2>1, <2>3
  <2> HIDE DEF new
  <2> QED BY Zenon, <1>1, <1>2, <1>4, <2>4, <2>5, <2>6, QuietWrite
<1> QED
  BY Zenon, <1>3, <1>4 DEF record_checkpoint

LEMMA NotEnteredStep ==
  ASSUME PermitInv, NEW t \in Task, record_not_entered(t)
  PROVE PermitInv'
<1> DEFINE k == KeyOf(t)
           v == CHOOSE v \in Held(t) : TRUE
<1>1. Phase(t) = "Refuse" /\ k \in Key
  BY TaskFacts DEF record_not_entered, KeyOf
<1>2. UNCHANGED <<load, sent, air, applied>> /\ Become(t, Idle) /\ Quiet(Idle)
  BY QuietIdle DEF record_not_entered, Stop
<1>3. CASE journal' = journal
  BY <1>2, <1>3, QuietStep
<1>4. ASSUME NEW p, Unchanged(t), valid_transition(v, NotEntered(v, p)),
             journal' = [journal EXCEPT ![k] = {NotEntered(v, p)}]
      PROVE PermitInv'
  <2>1. /\ v \in journal[k] /\ ViewShape(v) /\ TrueAnswers(k, v.response)
        /\ v.stage \in Unsent => sent[k] = 0
        /\ v.response # {} => sent[k] = 1
        /\ \A u \in journal[k] : u = v
    BY <1>1, <1>4, HeldView
  <2> HIDE DEF v
  <2>2. /\ ViewShape(NotEntered(v, p))
        /\ NotEntered(v, p).stage = "NotEntered" /\ NotEntered(v, p).response = v.response
    BY <2>1 DEF ViewShape, Advanced, NotEntered
  <2>3. v.stage = "Reserved"
    BY <1>4, <2>2 DEF valid_transition, stage_transition_allowed
  <2>4. Truthful(k, NotEntered(v, p))
    BY <2>1, <2>2, <2>3 DEF Truthful, Unsent, Unsaid
  <2>5. \A u \in journal[k] : u.stage = "EntryGranted" => sent[k] = 1
    BY <2>1, <2>3
  <2> QED BY Zenon, <1>1, <1>2, <1>4, <2>4, <2>5, QuietWrite
<1>5. PICK p : journal' = IF Unchanged(t) /\ valid_transition(v, NotEntered(v, p))
                            THEN [journal EXCEPT ![k] = {NotEntered(v, p)}] ELSE journal
  BY DEF record_not_entered
<1> HIDE DEF v, k
<1> QED
  BY <1>3, <1>4, <1>5

(***************************************************************************)
(* The grant, the request and its answer.                                  *)
(***************************************************************************)
LEMMA GrantStep ==
  ASSUME PermitInv, NEW t \in Task, grant_entry(t)
  PROVE PermitInv'
<1> DEFINE k == KeyOf(t)
           v == CHOOSE v \in Held(t) : TRUE
           new == [Advanced(v, "EntryGranted") EXCEPT
                     !.entry = {[at |-> now, generation |-> conn.generation,
                                 source |-> SourceStage(k)]}]
<1>1. /\ Phase(t) = "Grant" /\ k \in Key
      /\ TaskShape(run[t]) /\ run[t].answer = {} /\ <<run[t].op, run[t].read>> \in Key
  BY TaskFacts DEF grant_entry, KeyOf
<1>2. UNCHANGED <<load, sent, air, applied>>
  BY DEF grant_entry
<1>3. CASE journal' = journal /\ Stop(t)
  BY <1>2, <1>3, QuietIdle, QuietStep DEF Stop
<1>4. CASE /\ Unchanged(t) /\ v.stage = "Reserved"
           /\ journal' = [journal EXCEPT ![k] = {new}] /\ Hold(t, "Send", {new})
  <2>1. /\ v \in journal[k] /\ ViewShape(v) /\ TrueAnswers(k, v.response)
        /\ v.stage \in Unsent => sent[k] = 0
        /\ v.response # {} => sent[k] = 1
        /\ \A u \in journal[k] : u = v
    BY Zenon, <1>1, <1>4, HeldView
  <2> HIDE DEF v
  <2>2. ViewShape(new) /\ new.stage = "EntryGranted" /\ new.response = v.response
    BY <2>1 DEF ViewShape, Advanced
  <2>3. Truthful(k, new) /\ sent[k] = 0
    BY <1>4, <2>1, <2>2 DEF Truthful, Unsent, Unsaid
  <2>4. \A u \in journal[k] : u.stage = "EntryGranted" => sent[k] = 1
    BY <1>4, <2>1
  <2> HIDE DEF new
  <2>5. StoreInv'
    BY Zenon, <1>1, <1>2, <1>4, <2>3, TruthfulWrite
  <2>6. PICK x : /\ Become(t, x) /\ TaskShape(x) /\ x.phase = "Send"
                 /\ x.op = run[t].op /\ x.read = run[t].read /\ x.answer = {}
    <3>1. CASE run[t].read = 0
      BY Zenon, <1>1, <1>4, <3>1 DEF Hold, TaskShape
    <3>2. CASE run[t].read # 0
      BY Zenon, <1>1, <1>4, <3>2 DEF Hold, TaskShape
    <3> QED BY <3>1, <3>2
  <2>7. /\ run' = [u \in Task |-> run'[u]]
        /\ run'[t] = x
        /\ \A u \in Task : u # t => run'[u] = run[u]
    BY <2>6, BecomeFacts DEF PermitInv, TaskInv
  <2>8. ASSUME NEW u \in Task, u # t, Phase(u) \in Spare
        PROVE Permitted(u)' /\ KeyOf(u) # k
    BY Zenon, <1>1, <1>2, <1>4, <2>4, <2>7, <2>8, PermitKept
  <2>9. ASSUME NEW u \in Task, u # t PROVE TaskOK(u)'
    BY <1>2, <2>7, <2>8, <2>9, OthersKept DEF PermitInv, StoreInv
  <2>10. TaskOK(t)'
    <3>1. KeyOf(t)' = k /\ Phase(t)' = "Send" /\ run'[t].answer = {}
      BY <2>6, <2>7 DEF KeyOf, Phase
    <3>2. journal'[k] = {new}
      BY <1>1, <1>4 DEF PermitInv, StoreInv
    <3>3. Permitted(t)'
      BY <1>1, <1>2, <2>2, <2>3, <3>1, <3>2 DEF Permitted
    <3> QED
      BY <1>1, <2>6, <2>7, <3>1, <3>3 DEF TaskOK, TrueAnswers
  <2>11. \A u, w \in Task :
           (Phase(u) \in Spare /\ Phase(w) \in Spare /\ KeyOf(u) = KeyOf(w) => u = w)'
    <3>1. KeyOf(t)' = k
      BY <2>6, <2>7 DEF KeyOf
    <3>2. \A u \in Task : u # t => Phase(u)' = Phase(u) /\ KeyOf(u)' = KeyOf(u)
      BY <2>7 DEF Phase, KeyOf
    <3> QED
      BY <3>1, <3>2, <2>8 DEF PermitInv, TaskInv
  <2> QED
    BY <1>2, <2>5, <2>7, <2>9, <2>10, <2>11 DEF PermitInv, TaskInv
<1> QED
  BY <1>3, <1>4 DEF grant_entry

LEMMA SendStep ==
  ASSUME PermitInv, NEW t \in Task, Send(t)
  PROVE PermitInv'
<1> DEFINE k == KeyOf(t)
           x == [run[t] EXCEPT !.phase = "Await"]
<1>1. /\ Phase(t) = "Send" /\ k \in Key /\ Permitted(t)
      /\ TaskShape(run[t]) /\ run[t].answer = {}
  BY TaskFacts DEF Send, KeyOf, PermitInv, TaskInv, TaskOK, Spare
<1>2. /\ TaskShape(x) /\ x.phase = "Await" /\ x.answer = {}
      /\ x.op = run[t].op /\ x.read = run[t].read
  BY <1>1 DEF TaskShape
<1>3. /\ run' = [u \in Task |-> run'[u]]
      /\ run'[t] = x
      /\ \A u \in Task : u # t => run'[u] = run[u]
  <2>1. Become(t, x)
    BY DEF Send, Go
  <2> HIDE DEF x
  <2> QED BY <2>1, BecomeFacts DEF PermitInv, TaskInv
<1> HIDE DEF x
<1>4. UNCHANGED <<load, journal, applied>>
  BY DEF Send
<1>5. sent[k] = 0
  BY <1>1 DEF Permitted
<1>6. /\ sent' \in [Key -> {0, 1}] /\ sent'[k] = 1
      /\ \A m \in Key : m # k => sent'[m] = sent[m]
  BY <1>1, <1>5 DEF Send, PermitInv, StoreInv
<1>7. ASSUME NEW u \in Task, u # t, Phase(u) \in Spare PROVE Permitted(u)'
  <2>1. KeyOf(u) # k /\ Permitted(u)
    BY <1>1, <1>7 DEF PermitInv, TaskInv, TaskOK, Spare
  <2> QED
    BY <1>3, <1>4, <1>6, <1>7, <2>1 DEF Permitted, KeyOf
<1>8. StoreInv'
  <2>1. PICK g \in journal[k] : g.stage = "EntryGranted"
    BY <1>1 DEF Permitted
  <2>2. \A g2 \in journal[k] : g2.stage = "EntryGranted"
    BY <1>1, <2>1 DEF PermitInv, StoreInv
  <2>3. journal[k] # {}
    BY <2>1
  <2>4. \A o \in Op : o \in (air \cup applied)' => sent'[<<o, 0>>] = 1
    <3> SUFFICES ASSUME NEW o \in Op, o \in (air \cup applied)' PROVE sent'[<<o, 0>>] = 1
      OBVIOUS
    <3>1. <<o, 0>> \in Key
      BY KeyFacts DEF Operation
    <3>2. o \in air \cup applied \/ (IsMutation(k) /\ o = k[1])
      BY <1>4 DEF Send
    <3>3. CASE o \in air \cup applied
      BY <1>6, <3>1, <3>3 DEF PermitInv, StoreInv
    <3>4. CASE IsMutation(k) /\ o = k[1]
      <4>1. k = <<o, 0>>
        BY <3>4 DEF KeyOf, IsMutation
      <4> QED BY <4>1, <1>6
    <3> QED BY <3>2, <3>3, <3>4
  <2>5. \A m, a : TrueAnswers(m, a)' <=> TrueAnswers(m, a)
    BY <1>4 DEF TrueAnswers
  <2>6. ASSUME NEW m \in Key
        PROVE (/\ \A v \in journal[m] : ViewShape(v) /\ TrueAnswers(m, v.response)
               /\ \A u, v \in journal[m] : u = v
               /\ journal[m] = {} => sent[m] = 0
               /\ \A v \in journal[m] :
                    /\ v.stage \in Unsent => sent[m] = 0
                    /\ v.stage \notin Unsaid \/ v.response # {} => sent[m] = 1
                    /\ v.stage = "ObservedByProvider" => m[1] \in applied)'
    <3>1. CASE m = k
      BY <1>4, <1>6, <2>2, <2>3, <2>5, <3>1 DEF PermitInv, StoreInv, Unsent
    <3>2. CASE m # k
      BY <1>4, <1>6, <2>5, <3>2 DEF PermitInv, StoreInv
    <3> QED BY <3>1, <3>2
  <2> QED
    BY <1>4, <1>6, <2>4, <2>6 DEF PermitInv, StoreInv
<1>9. ASSUME NEW u \in Task, u # t PROVE TaskOK(u)'
  BY <1>3, <1>4, <1>6, <1>7, <1>9, OthersKept DEF PermitInv, StoreInv
<1>10. TaskOK(t)'
  <2>1. KeyOf(t)' = k /\ Phase(t)' = "Await"
    BY <1>2, <1>3 DEF KeyOf, Phase
  <2> QED
    BY <1>1, <1>2, <1>3, <1>6, <2>1 DEF TaskOK, TrueAnswers, Spare
<1>11. \A u, w \in Task :
        (Phase(u) \in Spare /\ Phase(w) \in Spare /\ KeyOf(u) = KeyOf(w) => u = w)'
  BY <1>2, <1>3 DEF PermitInv, TaskInv, Phase, KeyOf, Spare
<1> QED
  BY <1>3, <1>4, <1>8, <1>9, <1>10, <1>11 DEF PermitInv, TaskInv

\* A task that gives up sending still holds the permit it used up.
LEMMA RefuseSendStep ==
  ASSUME PermitInv, NEW t \in Task, RefuseSend(t)
  PROVE PermitInv'
<1> DEFINE x == [run[t] EXCEPT !.phase = "Unsent"]
<1>1. /\ Phase(t) \in Spare /\ KeyOf(t) \in Key /\ Permitted(t)
      /\ TaskShape(run[t]) /\ run[t].answer = {} /\ TrueAnswers(KeyOf(t), run[t].answer)
  BY TaskFacts DEF RefuseSend, KeyOf, PermitInv, TaskInv, TaskOK, Spare
<1>2. /\ TaskShape(x) /\ x.phase = "Unsent" /\ x.answer = {}
      /\ x.op = run[t].op /\ x.read = run[t].read
  BY <1>1 DEF TaskShape
<1>3. Become(t, x) /\ UNCHANGED <<load, journal, sent, air, applied>>
  BY DEF RefuseSend, Go
<1> HIDE DEF x
<1>4. /\ run' = [u \in Task |-> run'[u]]
      /\ run'[t] = x
      /\ \A u \in Task : u # t => run'[u] = run[u]
  BY <1>3, BecomeFacts DEF PermitInv, TaskInv
<1>5. StoreInv'
  BY <1>3 DEF PermitInv, StoreInv, TrueAnswers
<1>6. ASSUME NEW u \in Task
      PROVE /\ KeyOf(u)' = KeyOf(u) /\ (Permitted(u) => Permitted(u)')
            /\ Phase(u)' \in Spare => Phase(u) \in Spare
  <2>1. KeyOf(u)' = KeyOf(u)
    BY <1>2, <1>4 DEF KeyOf
  <2>2. Phase(u)' \in Spare => Phase(u) \in Spare
    BY <1>1, <1>4 DEF Phase
  <2> QED BY <1>3, <2>1, <2>2 DEF Permitted
<1>7. ASSUME NEW u \in Task, u # t PROVE TaskOK(u)'
  <2>1. Phase(u) \in Spare => Permitted(u)'
    BY <1>6, <1>7 DEF PermitInv, TaskInv, TaskOK
  <2> QED
    BY <1>3, <1>4, <1>7, <2>1, OthersKept DEF PermitInv, StoreInv
<1>8. TaskOK(t)'
  <2>1. Phase(t)' = "Unsent"
    BY <1>2, <1>4 DEF Phase
  <2> QED
    BY <1>1, <1>2, <1>4, <1>6, <2>1 DEF TaskOK, TrueAnswers
<1>9. \A u, w \in Task :
        (Phase(u) \in Spare /\ Phase(w) \in Spare /\ KeyOf(u) = KeyOf(w) => u = w)'
  BY Zenon, <1>6 DEF PermitInv, TaskInv
<1> QED
  BY <1>3, <1>4, <1>5, <1>7, <1>8, <1>9 DEF PermitInv, TaskInv

LEMMA AnswerStep ==
  ASSUME PermitInv, NEW t \in Task, Answer(t) \/ Timeout(t)
  PROVE PermitInv'
<1> DEFINE k == KeyOf(t)
<1>1. /\ Phase(t) = "Await" /\ k \in Key /\ sent[k] = 1
      /\ TaskShape(run[t]) /\ run[t].answer = {}
  BY Zenon, TaskFacts DEF Answer, Timeout, KeyOf, PermitInv, TaskInv, TaskOK
<1>2. UNCHANGED <<load, journal, sent, air, applied>>
  BY Zenon DEF Answer, Timeout
<1>3. PICK x : /\ Become(t, x) /\ TaskShape(x) /\ x.phase = "Record"
               /\ x.op = run[t].op /\ x.read = run[t].read
               /\ TrueAnswers(k, x.answer)
  <2>1. CASE Timeout(t)
    <3> DEFINE y == [run[t] EXCEPT !.phase = "Record"]
    <3>1. TaskShape(y) /\ y.phase = "Record" /\ y.op = run[t].op /\ y.read = run[t].read
             /\ y.answer = {}
      BY <1>1 DEF TaskShape
    <3>2. TrueAnswers(k, y.answer)
      BY <3>1 DEF TrueAnswers
    <3> QED BY Zenon, <2>1, <3>1, <3>2 DEF Timeout, Go
  <2>2. CASE Answer(t)
    <3>1. PICK value \in Answers(k) :
            Become(t, [run[t] EXCEPT !.phase = "Record",
                                     !.answer = {[value |-> value, at |-> now]}])
      BY Zenon, <2>2 DEF Answer
    <3> DEFINE y == [run[t] EXCEPT !.phase = "Record",
                                   !.answer = {[value |-> value, at |-> now]}]
    <3>2. TaskShape(y) /\ y.phase = "Record" /\ y.op = run[t].op /\ y.read = run[t].read
             /\ y.answer = {[value |-> value, at |-> now]}
      BY <1>1 DEF TaskShape
    <3>3. (IsRecovery(k) /\ SourceOf[k[1]] \in Echo /\ value = "match")
             => SourceOf[k[1]] \in applied
      BY SubmitAssumption DEF Answers, IsRecovery, IsMutation, IsPrerequisite
    <3>4. TrueAnswers(k, y.answer)
      BY <3>2, <3>3 DEF TrueAnswers
    <3> QED BY Zenon, <3>1, <3>2, <3>4
  <2> QED BY <2>1, <2>2
<1>4. /\ run' = [u \in Task |-> run'[u]]
      /\ run'[t] = x
      /\ \A u \in Task : u # t => run'[u] = run[u]
  BY <1>3, BecomeFacts DEF PermitInv, TaskInv
<1>5. StoreInv'
  BY <1>2 DEF PermitInv, StoreInv, TrueAnswers
<1>6. ASSUME NEW u \in Task, u # t, Phase(u) \in Spare PROVE Permitted(u)'
  <2>1. Permitted(u)
    BY <1>6 DEF PermitInv, TaskInv, TaskOK
  <2> QED
    BY <1>2, <1>4, <1>6, <2>1 DEF Permitted, KeyOf
<1>7. ASSUME NEW u \in Task, u # t PROVE TaskOK(u)'
  BY <1>2, <1>4, <1>6, <1>7, OthersKept DEF PermitInv, StoreInv
<1>8. TaskOK(t)'
  <2>1. KeyOf(t)' = k /\ Phase(t)' = "Record"
    BY <1>3, <1>4 DEF KeyOf, Phase
  <2>2. TrueAnswers(KeyOf(t), run[t].answer)'
    BY <1>2, <1>3, <1>4, <2>1 DEF TrueAnswers, IsRecovery
  <2> QED
    BY <1>1, <1>2, <1>3, <1>4, <2>1, <2>2 DEF TaskOK, Spare
<1>9. \A u, w \in Task :
        (Phase(u) \in Spare /\ Phase(w) \in Spare /\ KeyOf(u) = KeyOf(w) => u = w)'
  BY <1>3, <1>4 DEF PermitInv, TaskInv, Phase, KeyOf, Spare
<1> QED
  BY <1>2, <1>4, <1>5, <1>7, <1>8, <1>9 DEF PermitInv, TaskInv

LEMMA ResponseStep ==
  ASSUME PermitInv, NEW t \in Task, record_response(t)
  PROVE PermitInv'
<1> DEFINE k == KeyOf(t)
           v == CHOOSE v \in Held(t) : TRUE
           x == [run[t] EXCEPT !.phase = "Evidence", !.answer = {}]
<1>1. /\ k \in Key /\ TaskShape(run[t]) /\ TrueAnswers(k, run[t].answer)
      /\ \/ Phase(t) = "Record" /\ sent[k] = 1
         \/ Phase(t) \in Spare /\ run[t].answer = {}
  BY Zenon DEF record_response, PermitInv, TaskInv, TaskOK, Spare
<1>2. UNCHANGED <<load, sent, air, applied>>
  BY DEF record_response
<1>3. PICK y : Quiet(y) /\ Become(t, y)
  <2>1. Quiet(x)
    BY <1>1 DEF Quiet, TaskShape, KeyOf
  <2>2. Become(t, x) \/ Stop(t)
    BY DEF record_response
  <2> QED BY <2>1, <2>2, QuietIdle DEF Stop
<1>4. CASE journal' = journal
  BY <1>2, <1>3, <1>4, QuietStep
<1>5. CASE Unchanged(t) /\ journal' = [journal EXCEPT ![k] = {Recorded(t, v)}]
  <2>0. Phase(t) # "Idle"
    BY <1>1 DEF Spare
  <2>1. ViewShape(v) /\ TrueAnswers(k, v.response) /\ (v.response # {} => sent[k] = 1)
    BY <1>5, <2>0, HeldView
  <2> HIDE DEF v
  <2>2. /\ ViewShape(Recorded(t, v))
        /\ \/ Recorded(t, v).stage = "Unknown" /\ Recorded(t, v).response = v.response
           \/ /\ Recorded(t, v).stage = "ResponseRecorded" /\ run[t].answer # {}
              /\ Recorded(t, v).response = run[t].answer
    <3>1. CASE run[t].answer = {}
      <4>1. Recorded(t, v) = Advanced(v, "Unknown")
        BY <3>1 DEF Recorded
      <4> QED BY <2>1, <4>1 DEF Advanced, ViewShape
    <3>2. CASE run[t].answer # {}
      <4>1. PICK l : Recorded(t, v) = [Advanced(v, "ResponseRecorded") EXCEPT
                                        !.response = run[t].answer, !.locator = l]
        BY Zenon, <3>2 DEF Recorded
      <4> QED BY <2>1, <3>2, <4>1 DEF Advanced, ViewShape
    <3> QED BY <3>1, <3>2
  <2>3. Truthful(k, Recorded(t, v))
    BY <1>1, <2>1, <2>2 DEF Truthful, Unsent, Unsaid
  <2>4. \/ \A u \in journal[k] : u.stage = "EntryGranted" => sent[k] = 1
        \/ Phase(t) \in Spare /\ KeyOf(t) = k
    BY Zenon, <1>1
  <2> QED BY Zenon, <1>1, <1>2, <1>3, <1>5, <2>3, <2>4, QuietWrite
<1> QED
  BY <1>4, <1>5 DEF record_response

\* What a recovery read may add to its source: a mutation still in flight is
\* only ever found at the provider, so it was sent and applied.
LEMMA RefineFacts ==
  ASSUME PermitInv, NEW r \in Recovery, refine_recovery(r)
  PROVE LET k == <<SourceOf[r], 0>> IN
        /\ k \in Key
        /\ sent[k] = 1
        /\ \E new : Truthful(k, new) /\ journal' = [journal EXCEPT ![k] = {new}]
                      /\ new.stage \in {"Observed", "ObservedByProvider"}
<1> DEFINE o == SourceOf[r]
           k == <<o, 0>>
<1>1. PICK v \in journal[k], read \in journal[<<r, 0>>] : \E answer \in read.response :
        LET new == refinement(v, o, answer.value) IN
        /\ recovery_target(v, o)
        /\ ~absent(v.response)
             \/ (new.stage = "ObservedByProvider" /\ resolves_unknown(v.link))
        /\ valid_transition(v, new)
        /\ journal' = [journal EXCEPT ![k] = {new}]
  BY Zenon DEF refine_recovery
<1>2. PICK answer \in read.response :
        LET new == refinement(v, o, answer.value) IN
        /\ recovery_target(v, o)
        /\ ~absent(v.response)
             \/ (new.stage = "ObservedByProvider" /\ resolves_unknown(v.link))
        /\ valid_transition(v, new)
        /\ journal' = [journal EXCEPT ![k] = {new}]
  BY Zenon, <1>1
<1> DEFINE new == refinement(v, o, answer.value)
<1>3. o \in Op /\ k \in Key /\ <<r, 0>> \in Key /\ r \in Recovery
  BY SubmitAssumption, KeyFacts DEF Operation
<1>4. ViewShape(v) /\ TrueAnswers(k, v.response) /\ TrueAnswers(<<r, 0>>, read.response)
  BY <1>1, <1>2, <1>3 DEF PermitInv, StoreInv
<1>5. /\ ViewShape(new) /\ new.response = v.response
      /\ new.stage \in {"Observed", "ObservedByProvider"}
      /\ new.stage = "ObservedByProvider" => o \in Echo /\ answer.value = "match"
  <2>1. CASE o \in Echo /\ answer.value = "match"
    <3>1. new = [Advanced(v, "ObservedByProvider") EXCEPT !.evidence = TRUE]
      BY <2>1 DEF refinement
    <3> QED BY Zenon, <1>4, <2>1, <3>1 DEF Advanced, ViewShape
  <2>2. CASE ~(o \in Echo /\ answer.value = "match")
    <3>1. PICK reading : new = [Advanced(v, "Observed") EXCEPT !.reading = reading]
      BY Zenon, <2>2 DEF refinement
    <3> QED BY <1>4, <2>2, <3>1 DEF Advanced, ViewShape
  <2> QED BY <2>1, <2>2
<1>6. new.stage = "ObservedByProvider" => o \in applied
  BY <1>2, <1>3, <1>4, <1>5 DEF TrueAnswers, IsRecovery
<1> HIDE DEF new
<1>7. sent[k] = 1
  <2>1. CASE v.response # {}
    BY <1>1, <1>3, <2>1 DEF PermitInv, StoreInv
  <2>2. CASE v.response = {}
    <3>1. o \in applied
      BY <1>2, <1>6, <2>2 DEF new, absent
    <3> QED BY Zenon, <1>3, <3>1 DEF PermitInv, StoreInv
  <2> QED BY <2>1, <2>2
<1>8. Truthful(k, new)
  BY <1>4, <1>5, <1>6, <1>7 DEF Truthful, Unsent, Unsaid
<1>9. journal' = [journal EXCEPT ![k] = {new}]
  BY <1>2 DEF new
<1> QED
  BY Zenon, <1>3, <1>5, <1>7, <1>8, <1>9

LEMMA RefineStep ==
  ASSUME PermitInv, NEW r \in Recovery, refine_recovery(r)
  PROVE PermitInv'
<1> DEFINE k == <<SourceOf[r], 0>>
<1>1. UNCHANGED <<load, run, sent, air, applied>>
  BY DEF refine_recovery
<1>2. PICK new : /\ Truthful(k, new) /\ journal' = [journal EXCEPT ![k] = {new}]
                 /\ k \in Key /\ sent[k] = 1
  BY RefineFacts
<1>3. StoreInv'
  BY Zenon, <1>1, <1>2, TruthfulWrite
<1>4. ASSUME NEW u \in Task, Phase(u) \in Spare PROVE Permitted(u)'
  BY Zenon, <1>1, <1>2, <1>4, PermitKept
<1>5. ASSUME NEW u \in Task PROVE TaskOK(u)'
  BY <1>1, <1>4, <1>5 DEF PermitInv, TaskInv, TaskOK, Phase, KeyOf, TrueAnswers
<1> QED
  BY <1>1, <1>3, <1>5 DEF PermitInv, TaskInv, Phase, KeyOf

(***************************************************************************)
(* The theorems.                                                           *)
(***************************************************************************)
LEMMA PermitInit == Init => PermitInv
<1> SUFFICES ASSUME Init PROVE PermitInv
  OBVIOUS
<1>1. StoreInv
  BY DEF Init, StoreInv
<1>2. \A t \in Task : run[t] = Idle
  BY DEF Init
<1>3. ASSUME NEW t \in Task PROVE TaskOK(t)
  BY <1>2, QuietIdle DEF TaskOK, Quiet, Idle, Phase, TrueAnswers, Spare
<1> QED
  BY <1>1, <1>2, <1>3 DEF Init, PermitInv, TaskInv, Idle, Phase, Spare

LEMMA PermitNext == PermitInv /\ [Next]_vars => PermitInv'
<1> SUFFICES ASSUME PermitInv, [Next]_vars PROVE PermitInv'
  OBVIOUS
<1>1. ASSUME NEW t \in Task, Step(t) \/ Halt(t) PROVE PermitInv'
  BY <1>1, MoveStep, InsertStep, CheckpointStep, NotEnteredStep, GrantStep, SendStep,
     RefuseSendStep, AnswerStep, ResponseStep DEF Step
<1>2. ASSUME NEW t \in Task, NEW f \in load.offer[t], Begin(t, f[1], f[2]) PROVE PermitInv'
  <2>1. f[1] \in Operation
    BY SubmitAssumption DEF PermitInv
  <2> QED BY <1>2, <2>1, MoveStep
<1>3. ASSUME NEW r \in Recovery, refine_recovery(r) PROVE PermitInv'
  BY <1>3, RefineStep
<1>4. CASE UNCHANGED vars
  <2>1. StoreInv'
    BY <1>4 DEF vars, PermitInv, StoreInv, TrueAnswers
  <2>2. ASSUME NEW t \in Task PROVE TaskOK(t)'
    BY <1>4 DEF vars, PermitInv, TaskInv, TaskOK, Permitted, Phase, KeyOf, TrueAnswers
  <2> QED
    BY <1>4, <2>1, <2>2 DEF vars, PermitInv, TaskInv, Phase, KeyOf
<1> QED
  BY <1>1, <1>2, <1>3, <1>4, SurroundingsStep DEF Next

\* In every behaviour of the gateway the journal, the provider and the tasks
\* agree: a task about to send holds the only permit for its key.
THEOREM PermitIsUnique == Spec => []PermitInv
<1>1. PermitInv /\ [Next]_vars => PermitInv'
  BY PermitNext
<1> QED
  BY <1>1, PermitInit, PTL DEF Spec

\* However many tasks reopen a reservation, and wherever they stop, at most
\* one request is sent for a mutation or a read.
THEOREM OneSend == Spec => []AtMostOneSend
<1>1. PermitInv => AtMostOneSend
  BY DEF PermitInv, StoreInv, AtMostOneSend
<1> QED
  BY <1>1, PermitIsUnique, PTL

\* What the journal says was not entered was not sent, what it says has a
\* response or an observation was sent once, and what the provider was seen to
\* have done it did; of an unknown outcome it says neither.
THEOREM TrueJournal == Spec => []JournalTellsTruth
<1>1. PermitInv => JournalTellsTruth
  BY DEF PermitInv, StoreInv, JournalTellsTruth, StageIs, Unsent, Unsaid
<1> QED
  BY <1>1, PermitIsUnique, PTL

(***************************************************************************)
(* The refinement.  A step changes at most one record, as the transition   *)
(* rule allows, or sends one request.                                      *)
(***************************************************************************)
Replaced(k, new) == journal' = [journal EXCEPT ![k] = {new}]

JournalMove ==
  \E k \in Key : \E new :
    /\ Replaced(k, new)
    /\ \/ journal[k] = {} /\ new.stage \in Unsent
       \/ \E v \in journal[k] : stage_transition_allowed(v.stage, new.stage, v.link)

LEMMA InsertMoves ==
  ASSUME PermitInv, NEW t \in Task, Insert(t)
  PROVE (journal' = journal \/ JournalMove) /\ sent' = sent
<1> DEFINE k == KeyOf(t)
           b == run[t].binding
<1>1. k \in Key
  BY TaskFacts DEF Insert, Searched, KeyOf
<1>2. PICK stage \in Unsent : \E charged :
        \/ journal' = journal
        \/ journal[k] = {} /\ Replaced(k, claim_record(k, b, stage, charged))
  BY Zenon DEF Insert, Unsent, Replaced
<1>3. \A charged : claim_record(k, b, stage, charged).stage = stage
  BY DEF claim_record
<1> QED
  BY <1>1, <1>2, <1>3 DEF JournalMove, Insert

LEMMA HeldMoves ==
  ASSUME PermitInv, NEW t \in Task,
         record_checkpoint(t) \/ record_not_entered(t) \/ grant_entry(t) \/ record_response(t)
  PROVE (journal' = journal \/ JournalMove) /\ sent' = sent
<1> DEFINE k == KeyOf(t)
           v == CHOOSE v \in Held(t) : TRUE
<1>1. Phase(t) # "Idle" /\ k \in Key
  BY DEF record_checkpoint, record_not_entered, grant_entry, record_response,
         PermitInv, TaskInv, TaskOK
<1>2. PICK new : \/ journal' = journal
                 \/ Unchanged(t) /\ valid_transition(v, new) /\ Replaced(k, new)
  <2>1. CASE record_checkpoint(t)
    BY Zenon, <2>1 DEF record_checkpoint, Replaced
  <2>2. CASE record_not_entered(t)
    BY Zenon, <2>2 DEF record_not_entered, Replaced
  <2>3. CASE grant_entry(t)
    BY Zenon, <2>3 DEF grant_entry, Replaced
  <2>4. CASE record_response(t)
    BY Zenon, <2>4 DEF record_response, Replaced
  <2> QED BY <2>1, <2>2, <2>3, <2>4
<1>3. sent' = sent
  BY DEF record_checkpoint, record_not_entered, grant_entry, record_response
<1>4. ASSUME Unchanged(t), valid_transition(v, new), Replaced(k, new)
      PROVE JournalMove
  <2>1. v \in journal[k]
    BY Zenon, <1>1, <1>4, HeldView
  <2>2. stage_transition_allowed(v.stage, new.stage, v.link)
    BY <1>4 DEF valid_transition
  <2> HIDE DEF v
  <2> QED BY Zenon, <1>1, <1>4, <2>1, <2>2 DEF JournalMove
<1> QED BY <1>2, <1>3, <1>4

LEMMA RefineMoves ==
  ASSUME PermitInv, NEW r \in Recovery, refine_recovery(r)
  PROVE JournalMove /\ sent' = sent
<1> DEFINE o == SourceOf[r]
           k == <<o, 0>>
<1>1. PICK v, new : v \in journal[k] /\ valid_transition(v, new) /\ Replaced(k, new)
  BY Zenon DEF refine_recovery, Replaced
<1>2. k \in Key
  BY RefineFacts
<1> QED
  BY Zenon, <1>1, <1>2 DEF JournalMove, valid_transition, refine_recovery

LEMMA NextMoves ==
  ASSUME PermitInv, [Next]_vars
  PROVE \/ (journal' = journal \/ JournalMove) /\ sent' = sent
        \/ \E t \in Task : Send(t)
<1>1. ASSUME NEW t \in Task, Step(t)
      PROVE \/ (journal' = journal \/ JournalMove) /\ sent' = sent
            \/ Send(t)
  <2>1. CASE Lookup(t) \/ Search(t) \/ Reload(t) \/ ReadEvidence(t) \/ Enter(t)
             \/ RefuseSend(t) \/ Answer(t) \/ Timeout(t)
    BY Zenon, <2>1 DEF Lookup, Search, Reload, ReadEvidence, Enter, RefuseSend, Answer, Timeout
  <2> QED BY <1>1, <2>1, InsertMoves, HeldMoves DEF Step
<1>2. ASSUME NEW t \in Task, Halt(t) \/ \E f \in load.offer[t] : Begin(t, f[1], f[2])
      PROVE journal' = journal /\ sent' = sent
  BY Zenon, <1>2 DEF Halt, Begin
<1>3. ASSUME \/ \E o \in Op : Apply(o) \/ Lose(o)
             \/ Tick \/ sweep_expired \/ ConnectionChange \/ UNCHANGED vars
      PROVE journal' = journal /\ sent' = sent
  BY <1>3 DEF Apply, Lose, Tick, sweep_expired, ConnectionChange, vars
<1> QED
  BY <1>1, <1>2, <1>3, RefineMoves DEF Next

\* What the gate makes of a record.
LEMMA Statuses ==
  ASSUME StoreInv, NEW k \in Key
  PROVE /\ journal[k] = {} => StatusOf(k) = "free"
        /\ \A v \in journal[k] :
             /\ v.stage = "Reserved" => StatusOf(k) = "reserved"
             /\ v.stage = "NotEntered" => StatusOf(k) = "excluded"
             /\ v.stage = "EntryGranted" => StatusOf(k) = "entered"
             /\ v.stage = "Unknown" => StatusOf(k) = "unknown"
             /\ v.stage \notin Unsaid => StatusOf(k) = "recorded"
<1>1. CASE journal[k] = {}
  BY <1>1 DEF StatusOf, StageIs
<1>2. ASSUME NEW v \in journal[k]
      PROVE /\ v.stage = "Reserved" => StatusOf(k) = "reserved"
            /\ v.stage = "NotEntered" => StatusOf(k) = "excluded"
            /\ v.stage = "EntryGranted" => StatusOf(k) = "entered"
            /\ v.stage = "Unknown" => StatusOf(k) = "unknown"
            /\ v.stage \notin Unsaid => StatusOf(k) = "recorded"
  <2>1. ASSUME NEW stages PROVE StageIs(k, stages) <=> v.stage \in stages
    BY DEF StoreInv, StageIs
  <2> QED
    BY <2>1 DEF StatusOf, Unsent, Unsaid
<1> QED
  BY <1>1, <1>2

LEMMA MoveIsGateStep ==
  ASSUME PermitInv, PermitInv', JournalMove, sent' = sent
  PROVE [Gate!GateNext]_(Gate!gate)
<1> DEFINE status == [m \in Key |-> StatusOf(m)]
<1>0. PICK k \in Key : \E new :
        /\ Replaced(k, new)
        /\ \/ journal[k] = {} /\ new.stage \in Unsent
           \/ \E v \in journal[k] : stage_transition_allowed(v.stage, new.stage, v.link)
  BY DEF JournalMove
<1>1. PICK new :
        /\ Replaced(k, new)
        /\ \/ journal[k] = {} /\ new.stage \in Unsent
           \/ \E v \in journal[k] : stage_transition_allowed(v.stage, new.stage, v.link)
  BY <1>0
<1>2. /\ new \in journal'[k]
      /\ \A m \in Key : m # k => journal'[m] = journal[m]
  BY <1>1 DEF Replaced, PermitInv, StoreInv
<1>3. \A m \in Key : m # k => StatusOf(m)' = StatusOf(m)
  BY <1>2 DEF StatusOf, StageIs
<1>4. status' = [status EXCEPT ![k] = StatusOf(k)']
  BY Zenon, <1>3
<1>5. /\ new.stage = "Reserved" => StatusOf(k)' = "reserved"
      /\ new.stage = "NotEntered" => StatusOf(k)' = "excluded"
      /\ new.stage = "EntryGranted" => StatusOf(k)' = "entered"
      /\ new.stage = "Unknown" => StatusOf(k)' = "unknown"
      /\ new.stage \notin Unsaid => StatusOf(k)' = "recorded" /\ sent[k] = 1
  <2>1. StoreInv'
    BY DEF PermitInv
  <2>2. ASSUME NEW stages PROVE StageIs(k, stages)' <=> new.stage \in stages
    BY <1>2, <2>1 DEF StoreInv, StageIs
  <2> QED
    BY <1>2, <2>1, <2>2 DEF StatusOf, Unsent, Unsaid, StoreInv
<1>6. ASSUME StatusOf(k)' = StatusOf(k) PROVE UNCHANGED Gate!gate
  <2>1. status' = status
    BY Zenon, <1>4, <1>6
  <2> QED BY <2>1 DEF Gate!gate
<1>7. status[k] = StatusOf(k)
  OBVIOUS
<1>8. CASE journal[k] = {} /\ new.stage \in Unsent
  <2>1. StatusOf(k) = "free"
    BY <1>8, Statuses DEF PermitInv
  <2>2. Gate!Reserve(k) \/ Gate!Exclude(k)
    BY Zenon, <1>4, <1>5, <1>7, <1>8, <2>1 DEF Gate!Reserve, Gate!Exclude, Gate!Move, Unsent
  <2> QED BY <2>2 DEF Gate!GateNext
<1>9. ASSUME NEW v \in journal[k], stage_transition_allowed(v.stage, new.stage, v.link)
      PROVE [Gate!GateNext]_(Gate!gate)
  <2>1. /\ v.stage = "Reserved" => StatusOf(k) = "reserved"
        /\ v.stage = "EntryGranted" => StatusOf(k) = "entered"
        /\ v.stage = "Unknown" => StatusOf(k) = "unknown"
        /\ v.stage \notin Unsaid => StatusOf(k) = "recorded"
    BY <1>9, Statuses DEF PermitInv
  <2>2. CASE v.stage = "Reserved"
    <3>1. new.stage \in {"Reserved", "NotEntered", "EntryGranted"}
      BY <1>9, <2>2 DEF stage_transition_allowed
    <3>2. CASE new.stage = "Reserved"
      BY <1>5, <1>6, <2>1, <2>2, <3>2
    <3>3. CASE new.stage \in {"NotEntered", "EntryGranted"}
      <4>1. Gate!Exclude(k) \/ Gate!EnterGate(k)
        BY Zenon, <1>4, <1>5, <1>7, <2>1, <2>2, <3>3 DEF Gate!Exclude, Gate!EnterGate, Gate!Move
      <4> QED BY <4>1 DEF Gate!GateNext
    <3> QED BY <3>1, <3>2, <3>3
  <2>3. CASE v.stage = "EntryGranted" /\ new.stage = "Unknown"
    <3>1. Gate!GiveUp(k)
      BY <1>4, <1>5, <1>7, <2>1, <2>3 DEF Gate!GiveUp, Gate!Move
    <3> QED BY <3>1 DEF Gate!GateNext
  <2>4. CASE v.stage \in {"EntryGranted", "Unknown"} /\ new.stage # "Unknown"
    <3>1. StatusOf(k)' = "recorded" /\ sent[k] = 1
      BY <1>5, <1>9, <2>4 DEF stage_transition_allowed, Unsent, Unsaid
    <3>2. Gate!Record(k)
      BY <1>4, <1>7, <2>1, <2>4, <3>1 DEF Gate!Record, Gate!Move
    <3> QED BY <3>2 DEF Gate!GateNext
  <2>5. CASE v.stage \notin {"Reserved", "EntryGranted", "Unknown"}
    <3>1. v.stage \notin Unsent /\ new.stage \notin Unsaid
      BY <1>9, <2>5 DEF stage_transition_allowed, Unsent, Unsaid
    <3> QED BY <1>5, <1>6, <2>1, <2>5, <3>1 DEF Unsaid
  <2>6. ~(v.stage = "Unknown" /\ new.stage = "Unknown")
    BY <1>9 DEF stage_transition_allowed
  <2> QED BY <2>2, <2>3, <2>4, <2>5, <2>6
<1> QED BY <1>1, <1>8, <1>9

LEMMA SendIsInvoke ==
  ASSUME PermitInv, NEW t \in Task, Send(t)
  PROVE Gate!GateNext
<1> DEFINE k == KeyOf(t)
           status == [m \in Key |-> StatusOf(m)]
<1>1. k \in Key /\ Permitted(t)
  BY DEF Send, PermitInv, TaskInv, TaskOK, Spare
<1>2. status[k] = "entered" /\ sent[k] = 0
  BY <1>1, Statuses DEF Permitted, PermitInv
<1>3. sent' = [sent EXCEPT ![k] = 1]
  BY <1>1, <1>2 DEF Send, PermitInv, StoreInv
<1>4. status' = status
  BY DEF Send, StatusOf, StageIs
<1>5. Gate!Invoke(k)
  BY <1>2, <1>3, <1>4 DEF Gate!Invoke
<1> QED BY <1>1, <1>5 DEF Gate!GateNext

\* Every step of the gateway is a step of the abstract gate, or none: each
\* mutation and each read is sent at most once, only after its entry was stored
\* and never after its outcome was, and its record never takes back what it said.
THEOREM GatewayImplementsGate == Spec => ImplementsGate
<1>1. Init => Gate!GateInit
  <2> SUFFICES ASSUME Init PROVE Gate!GateInit
    OBVIOUS
  <2>1. \A k \in Key : StatusOf(k) = "free"
    BY PermitInit, Statuses DEF Init, PermitInv
  <2> QED BY <2>1 DEF Init, Gate!GateInit
<1>2. PermitInv /\ PermitInv' /\ [Next]_vars => [Gate!GateNext]_(Gate!gate)
  <2> SUFFICES ASSUME PermitInv, PermitInv', [Next]_vars
               PROVE [Gate!GateNext]_(Gate!gate)
    OBVIOUS
  <2>1. CASE journal' = journal /\ sent' = sent
    BY <2>1 DEF Gate!gate, StatusOf, StageIs
  <2>2. CASE JournalMove /\ sent' = sent
    BY <2>2, MoveIsGateStep
  <2>3. CASE \E t \in Task : Send(t)
    BY <2>3, SendIsInvoke
  <2> QED BY <2>1, <2>2, <2>3, NextMoves
<1> QED
  BY <1>1, <1>2, PermitIsUnique, PTL DEF Spec, ImplementsGate, Gate!GateSpec

(***************************************************************************)
(* Capacity.  The rows of a window are deleted once it has passed, so what *)
(* bounds the operations entered in it is that each one's own record names *)
(* the row it was charged to, and that no two entered ones name the same.  *)
(***************************************************************************)
CountersIn(k) == {CountersOf(k)[n] : n \in 1..Len(CountersOf(k))}

Place(r) == [counter |-> r.counter, window |-> r.window, slot |-> r.slot]

\* A row of the store at place p for the claim of k.
RowFor(p, k) == \E r \in slots : Place(r) = p /\ r.claim = k

\* What the record v of k is charged to: all of its counters or none, within
\* their rows, in the window it entered, and by rows still in the store.
Charged(k, v) ==
  /\ v.stage # "NotEntered" => \A c \in CountersIn(k) : \E p \in v.fixed.charged : p.counter = c
  /\ \A p \in v.fixed.charged :
       /\ p = Place(p)
       /\ p.window \in Nat
       /\ p.slot \in Nat /\ p.slot < Rows(p.counter)
       /\ Current(p) => RowFor(p, k)
       /\ \A e \in v.entry : p.window = WindowOf(p.counter, e.at)

\* What the record v of k says of the past.
Dated(k, v) ==
  /\ v.protocol = IF IsMutation(k) THEN "Mutation" ELSE "Acquisition"
  /\ \A e \in v.entry : e.at \in Nat /\ e.at <= now
  /\ \A r, q \in v.response : r = q
  /\ \A r \in v.response : r.at \in Nat /\ r.at <= now

OneClaimPerPlace == \A r, q \in slots : Place(r) = Place(q) => r.claim = q.claim

EnteredApart ==
  \A k, m \in Key : \A v \in journal[k], u \in journal[m] :
    v.entry # {} /\ u.entry # {} /\ v.fixed.charged \cap u.fixed.charged # {} => k = m

\* The reads of operation o were answered before it entered at time `at`.
ReadsDone(o, at) ==
  \A i \in 1..Reads[o] :
    /\ StageIs(<<o, i>>, {"ResponseRecorded"})
    /\ \A v \in journal[<<o, i>>] : \A r \in v.response : r.value = "good" /\ r.at <= at
    /\ \A e \in EnteredAt(<<o, i>>) : e <= at /\ at <= e + EvidenceAge

RecordInv ==
  /\ \A k \in Key : \A v \in journal[k] : consistent(v) /\ Charged(k, v) /\ Dated(k, v)
  /\ OneClaimPerPlace
  /\ EnteredApart
  /\ PrerequisitesFirst

\* The candidate of a task: one row for each counter searched so far, and an
\* engagement's row below its ceiling.
CandidateOK(x) ==
  LET k == <<x.op, x.read>> IN
  /\ x.candidate \in Seq([slot : Nat, total : Nat])
  /\ Len(x.candidate) <= Len(CountersOf(k))
  /\ \A n \in 1..Len(x.candidate) :
       n > Len(Protocol_counters(k)) => x.candidate[n].slot < Rows(CountersOf(k)[n])

TaskDated(x) ==
  /\ x.at \in Nat /\ x.at <= now
  /\ x.phase = "Search" => CandidateOK(x)
  /\ \A r, q \in x.answer : r = q
  /\ \A r \in x.answer : r.at \in Nat /\ r.at <= now

WorldInv ==
  /\ now \in 0..load.last
  /\ conn \in [generation : 1..load.generations, active : BOOLEAN]
  /\ air \subseteq Op /\ applied \subseteq Op
  /\ slots \subseteq RowType

ChargeInv ==
  /\ PermitInv
  /\ WorldInv
  /\ RecordInv
  /\ \A t \in Task : TaskDated(run[t])

LEMMA ConstantFacts ==
  /\ Sums \subseteq Counter
  /\ RowsOf \in [Counter -> Nat]
  /\ BoundOf \in [Operation -> Seq(Counter)]
  /\ Amount \in [Operation -> Nat]
  /\ CeilingOf \in [Engagement -> Nat]
  /\ EngagementOf \in [Key -> Seq(Engagement)]
  /\ RecoveryAttempts \in Nat /\ EvidenceAge \in Nat
  /\ \A w \in Workload : w.last \in Nat /\ w.generations \in Nat \ {0}
BY SubmitAssumption

LEMMA WorldFacts ==
  ASSUME ChargeInv
  PROVE now \in Nat /\ load.last \in Nat /\ load.generations \in Nat \ {0}
BY ConstantFacts DEF ChargeInv, WorldInv, PermitInv

(***************************************************************************)
(* Steps that leave the journal and the rows alone, and the sweep.         *)
(***************************************************************************)
LEMMA RecordsUntouched ==
  ASSUME ChargeInv, UNCHANGED <<journal, slots>>, now' \in Nat, now <= now'
  PROVE RecordInv'
<1>1. now \in Nat
  BY WorldFacts
<1>2. OneClaimPerPlace' /\ EnteredApart' /\ PrerequisitesFirst'
  <2>1. OneClaimPerPlace'
    BY DEF ChargeInv, RecordInv, OneClaimPerPlace, Place
  <2>2. EnteredApart'
    BY DEF ChargeInv, RecordInv, EnteredApart
  <2>3. PrerequisitesFirst'
    BY Zenon DEF ChargeInv, RecordInv, PrerequisitesFirst, EnteredAt, StageIs
  <2> QED BY <2>1, <2>2, <2>3
<1>3. ASSUME NEW k \in Key, NEW v \in journal[k]
      PROVE (consistent(v) /\ Charged(k, v) /\ Dated(k, v))'
  <2>1. consistent(v) /\ Charged(k, v) /\ Dated(k, v)
    BY DEF ChargeInv, RecordInv
  <2>2. Dated(k, v)'
    BY <1>1, <2>1 DEF Dated
  <2>3. \A p : p.window \in Nat /\ Current(p)' => Current(p)
    BY <1>1 DEF Current
  <2>4. \A p : RowFor(p, k)' <=> RowFor(p, k)
    BY Zenon DEF RowFor
  <2>5. Charged(k, v)'
    BY <2>1, <2>3, <2>4 DEF Charged
  <2> QED BY <2>1, <2>2, <2>5
<1> QED
  BY <1>2, <1>3 DEF RecordInv

LEMMA RecordsSwept ==
  ASSUME ChargeInv, NEW s \in slots, Expired(s), slots' = slots \ {s},
         UNCHANGED <<journal, now>>
  PROVE RecordInv'
<1>1. now \in Nat
  BY WorldFacts
<1>2. OneClaimPerPlace' /\ EnteredApart' /\ PrerequisitesFirst'
  <2>1. OneClaimPerPlace'
    BY DEF ChargeInv, RecordInv, OneClaimPerPlace, Place
  <2>2. EnteredApart'
    BY DEF ChargeInv, RecordInv, EnteredApart
  <2>3. PrerequisitesFirst'
    BY Zenon DEF ChargeInv, RecordInv, PrerequisitesFirst, EnteredAt, StageIs
  <2> QED BY <2>1, <2>2, <2>3
<1>3. ASSUME NEW k \in Key, NEW v \in journal[k]
      PROVE (consistent(v) /\ Charged(k, v) /\ Dated(k, v))'
  <2>1. consistent(v) /\ Charged(k, v) /\ Dated(k, v)
    BY DEF ChargeInv, RecordInv
  <2>2. Dated(k, v)'
    BY <2>1 DEF Dated
  <2>3. \A p : Current(p)' <=> Current(p)
    BY DEF Current
  <2>4. ASSUME NEW p \in v.fixed.charged, Current(p) PROVE RowFor(p, k)'
    <3>1. PICK r \in slots : Place(r) = p /\ r.claim = k
      BY <2>1, <2>4 DEF Charged, RowFor
    <3>2. p.counter = r.counter /\ p.window = r.window /\ p.window \in Nat
      BY <2>1, <3>1 DEF Charged, Place
    <3>3. r # s
      BY SMTT(20), <1>1, <2>4, <3>2 DEF Current, Expired
    <3> QED BY <3>1, <3>3 DEF RowFor
  <2>5. Charged(k, v)'
    BY <2>1, <2>3, <2>4 DEF Charged
  <2> QED BY <2>1, <2>2, <2>5
<1> QED
  BY <1>2, <1>3 DEF RecordInv

(***************************************************************************)
(* Writes.  A record that replaces the one under its key keeps the rest    *)
(* when it is itself in order, shares no place with another entered one,   *)
(* and the reads of an entered operation are not among the replaced.       *)
(***************************************************************************)
LEMMA ReplacedFacts ==
  ASSUME StoreInv, NEW k \in Key, NEW new, Replaced(k, new)
  PROVE /\ journal'[k] = {new}
        /\ \A m \in Key : m # k => journal'[m] = journal[m]
BY DEF StoreInv, Replaced

LEMMA PrerequisitesKept ==
  ASSUME StoreInv, PrerequisitesFirst, NEW k \in Key, NEW new, Replaced(k, new),
         \A v \in journal[k] : v.stage = "ResponseRecorded" => k[2] = 0,
         \A e \in new.entry : k[2] = 0 => e.at \in EnteredAt(k) \/ ReadsDone(k[1], e.at)
  PROVE PrerequisitesFirst'
<1> SUFFICES ASSUME NEW o \in Operation, NEW at \in EnteredAt(<<o, 0>>)'
             PROVE ReadsDone(o, at)'
  BY Zenon DEF PrerequisitesFirst, ReadsDone
<1>1. <<o, 0>> \in Key /\ \A i \in 1..Reads[o] : <<o, i>> \in Key
  BY KeyFacts
<1>2. \A x \in EnteredAt(<<o, 0>>) : ReadsDone(o, x)
  BY DEF PrerequisitesFirst, ReadsDone
<1>3. ReadsDone(o, at)
  <2>1. CASE k = <<o, 0>>
    <3>1. journal'[<<o, 0>>] = {new}
      BY <2>1, ReplacedFacts
    <3>2. PICK e \in new.entry : e.at = at
      BY <3>1 DEF EnteredAt
    <3>3. k[2] = 0 /\ k[1] = o
      BY <2>1
    <3> QED BY <1>2, <2>1, <3>2, <3>3
  <2>2. CASE k # <<o, 0>>
    <3>1. EnteredAt(<<o, 0>>)' = EnteredAt(<<o, 0>>)
      BY <1>1, <2>2, ReplacedFacts DEF EnteredAt
    <3> QED BY <1>2, <3>1
  <2> QED BY <2>1, <2>2
<1>4. ASSUME NEW i \in 1..Reads[o] PROVE journal'[<<o, i>>] = journal[<<o, i>>]
  <2>1. PICK v \in journal[<<o, i>>] : v.stage = "ResponseRecorded"
    BY Zenon, <1>3 DEF ReadsDone, StageIs
  <2>2. i # 0
    BY KeyFacts, SubmitAssumption
  <2>3. k # <<o, i>>
    <3> SUFFICES ASSUME k = <<o, i>> PROVE FALSE
      OBVIOUS
    <3>1. k[2] = i
      OBVIOUS
    <3> QED BY <2>1, <2>2, <3>1
  <2> QED BY <1>1, <2>3, ReplacedFacts
<1>5. ASSUME NEW i \in 1..Reads[o]
      PROVE /\ StageIs(<<o, i>>, {"ResponseRecorded"})' <=> StageIs(<<o, i>>, {"ResponseRecorded"})
            /\ EnteredAt(<<o, i>>)' = EnteredAt(<<o, i>>)
  BY Zenon, <1>4 DEF StageIs, EnteredAt
<1> QED
  BY <1>3, <1>4, <1>5 DEF ReadsDone

LEMMA RecordsWritten ==
  ASSUME ChargeInv, NEW k \in Key, NEW new, Replaced(k, new),
         slots \subseteq slots', now' = now, OneClaimPerPlace',
         consistent(new), Charged(k, new)', Dated(k, new)',
         \A m \in Key : \A u \in journal[m] :
           m # k /\ u.entry # {} /\ new.entry # {} => new.fixed.charged \cap u.fixed.charged = {},
         \A v \in journal[k] : v.stage = "ResponseRecorded" => k[2] = 0,
         \A e \in new.entry : k[2] = 0 => e.at \in EnteredAt(k) \/ ReadsDone(k[1], e.at)
  PROVE RecordInv'
<1>1. /\ journal'[k] = {new}
      /\ \A m \in Key : m # k => journal'[m] = journal[m]
  BY ReplacedFacts DEF ChargeInv, PermitInv
<1>2. PrerequisitesFirst'
  BY Zenon, PrerequisitesKept DEF ChargeInv, PermitInv, RecordInv
<1>3. ASSUME NEW m \in Key, m # k, NEW v \in journal[m]
      PROVE (consistent(v) /\ Charged(m, v) /\ Dated(m, v))'
  <2>1. consistent(v) /\ Charged(m, v) /\ Dated(m, v)
    BY Zenon DEF ChargeInv, RecordInv
  <2>2. Dated(m, v)'
    BY <2>1 DEF Dated
  <2>3. \A p : (Current(p)' <=> Current(p)) /\ (RowFor(p, m) => RowFor(p, m)')
    BY DEF Current, RowFor
  <2>4. Charged(m, v)'
    BY Zenon, <2>1, <2>3 DEF Charged
  <2> QED BY Zenon, <2>1, <2>2, <2>4
<1>4. \A m \in Key : \A v \in journal'[m] : (consistent(v) /\ Charged(m, v) /\ Dated(m, v))'
  <2> TAKE m \in Key
  <2> TAKE v \in journal'[m]
  <2>1. CASE m = k
    BY Zenon, <1>1, <2>1
  <2>2. CASE m # k
    BY Zenon, <1>1, <1>3, <2>2
  <2> QED BY <2>1, <2>2
<1>5. EnteredApart'
  <2> SUFFICES ASSUME NEW m \in Key, NEW n \in Key, NEW v \in journal'[m], NEW u \in journal'[n],
                      v.entry # {}, u.entry # {}, v.fixed.charged \cap u.fixed.charged # {}, m # n
               PROVE FALSE
    BY DEF EnteredApart
  <2>1. CASE m = k
    <3>1. v = new /\ u \in journal[n]
      BY Zenon, <1>1, <2>1
    <3> QED BY Zenon, <2>1, <3>1
  <2>2. CASE n = k
    <3>1. u = new /\ v \in journal[m]
      BY Zenon, <1>1, <2>2
    <3>2. new.fixed.charged \cap v.fixed.charged = {}
      BY Zenon, <2>2, <3>1
    <3> QED BY Zenon, <3>1, <3>2
  <2>3. CASE m # k /\ n # k
    BY SMTT(20), <1>1, <2>3 DEF ChargeInv, RecordInv, EnteredApart
  <2> QED BY Zenon, <2>1, <2>2, <2>3
<1> QED
  BY Zenon, <1>2, <1>4, <1>5 DEF RecordInv

\* Any write that grants no entry.
LEMMA RecordsRewritten ==
  ASSUME ChargeInv, NEW k \in Key, NEW v \in journal[k], NEW new,
         valid_transition(v, new), Replaced(k, new), UNCHANGED <<slots, now>>,
         new.stage # "EntryGranted",
         \/ new.response = v.response
         \/ /\ \A r, q \in new.response : r = q
            /\ \A r \in new.response : r.at \in Nat /\ r.at <= now
  PROVE RecordInv'
<1>1. consistent(v) /\ Charged(k, v) /\ Dated(k, v)
  BY Zenon DEF ChargeInv, RecordInv
<1>2. new.entry = v.entry /\ new.fixed = v.fixed /\ new.protocol = v.protocol /\ consistent(new)
  BY Zenon DEF valid_transition, entry_kept
<1>3. v.stage # "NotEntered" /\ (v.stage = "ResponseRecorded"
                                   => new.stage \in {"Observed", "ObservedByProvider"})
  BY Zenon DEF valid_transition, stage_transition_allowed
<1>4. Dated(k, new)'
  BY <1>1, <1>2 DEF Dated
<1>5. Charged(k, new)'
  <2>1. \A p : (Current(p)' <=> Current(p)) /\ (RowFor(p, k) <=> RowFor(p, k)')
    BY DEF Current, RowFor
  <2> QED BY Zenon, <1>1, <1>2, <1>3, <2>1 DEF Charged
<1>6. v.stage = "ResponseRecorded" => k[2] = 0
  BY Zenon, <1>1, <1>2, <1>3 DEF Dated, IsMutation, consistent, protocol_consistent
<1>7. \A u \in journal[k] : u = v
  <2>1. StoreInv
    BY Zenon DEF ChargeInv, PermitInv
  <2> QED BY Zenon, <2>1 DEF StoreInv
<1>8. \A e \in new.entry : e.at \in EnteredAt(k)
  BY <1>2 DEF EnteredAt
<1>9. \A m \in Key : \A u \in journal[m] :
        m # k /\ u.entry # {} /\ new.entry # {} => new.fixed.charged \cap u.fixed.charged = {}
  BY Zenon, <1>2 DEF ChargeInv, RecordInv, EnteredApart
<1>10. OneClaimPerPlace'
  BY DEF ChargeInv, RecordInv, OneClaimPerPlace, Place
<1> QED
  BY Zenon, <1>2, <1>4, <1>5, <1>6, <1>7, <1>8, <1>9, <1>10, RecordsWritten

\* The grant: its rows are still there in the window of the moment, so no
\* other operation entered on one of them.
LEMMA RecordsGranted ==
  ASSUME ChargeInv, NEW k \in Key, NEW v \in journal[k], NEW new,
         valid_transition(v, new), Replaced(k, new), UNCHANGED <<slots, now>>,
         v.stage = "Reserved", new.stage = "EntryGranted", new.response = v.response,
         \A e \in new.entry : e.at = now,
         \A p \in v.fixed.charged : p.window = WindowOf(p.counter, now) /\ RowFor(p, k),
         k[2] = 0 => ReadsDone(k[1], now)
  PROVE RecordInv'
<1>0. now \in Nat
  BY WorldFacts
<1>1. consistent(v) /\ Charged(k, v) /\ Dated(k, v)
  BY Zenon DEF ChargeInv, RecordInv
<1>2. new.fixed = v.fixed /\ new.protocol = v.protocol /\ consistent(new)
  BY Zenon DEF valid_transition
<1>3. Dated(k, new)'
  <2>1. now' = now /\ new.response = v.response /\ \A e \in new.entry : e.at = now
    OBVIOUS
  <2> QED BY ONLY SMTT(20), <1>0, <1>1, <1>2, <2>1 DEF Dated
<1>4. Charged(k, new)'
  <2>1. \A p : (Current(p)' <=> Current(p)) /\ (RowFor(p, k) <=> RowFor(p, k)')
    BY DEF Current, RowFor
  <2> QED BY Zenon, <1>1, <1>2, <2>1 DEF Charged
<1>5. \A u \in journal[k] : u = v
  BY DEF ChargeInv, PermitInv, StoreInv
<1>6. ASSUME NEW m \in Key, NEW u \in journal[m], m # k, u.entry # {},
             NEW p \in new.fixed.charged, p \in u.fixed.charged
      PROVE FALSE
  <2>1. p.window = WindowOf(p.counter, now) /\ RowFor(p, k)
    BY Zenon, <1>2
  <2>2. Current(p)
    BY <1>0, <2>1 DEF Current, WindowOf
  <2>3. RowFor(p, m)
    BY Zenon, <1>6, <2>2 DEF ChargeInv, RecordInv, Charged
  <2>4. PICK r \in slots : Place(r) = p /\ r.claim = k
    BY Zenon, <2>1 DEF RowFor
  <2>5. PICK q \in slots : Place(q) = p /\ q.claim = m
    BY Zenon, <2>3 DEF RowFor
  <2> QED BY Zenon, <1>6, <2>4, <2>5 DEF ChargeInv, RecordInv, OneClaimPerPlace
<1>7. \A m \in Key : \A u \in journal[m] :
        m # k /\ u.entry # {} /\ new.entry # {} => new.fixed.charged \cap u.fixed.charged = {}
  BY Zenon, <1>6
<1>8. OneClaimPerPlace'
  BY Zenon DEF ChargeInv, RecordInv, OneClaimPerPlace, Place
<1> QED
  BY Zenon, <1>2, <1>3, <1>4, <1>5, <1>7, <1>8, RecordsWritten

\* What the grant checked of the reads.
LEMMA GrantedReadsDone ==
  ASSUME ChargeInv, NEW t \in Task, validate_prerequisites(t), run[t].read = 0,
         run[t].op \in Operation
  PROVE ReadsDone(run[t].op, now)
<1> DEFINE o == run[t].op
<1> SUFFICES ASSUME NEW i \in 1..Reads[o]
             PROVE /\ StageIs(<<o, i>>, {"ResponseRecorded"})
                   /\ \A v \in journal[<<o, i>>] : \A r \in v.response :
                        r.value = "good" /\ r.at <= now
                   /\ \A e \in EnteredAt(<<o, i>>) : e <= now /\ now <= e + EvidenceAge
  BY DEF ReadsDone
<1>1. "good" \in Evidence(<<o, i>>, run[t].binding)
  BY DEF validate_prerequisites
<1>2. PICK v \in journal[<<o, i>>] :
        /\ v.stage = "ResponseRecorded"
        /\ \A e \in v.entry : now <= e.at + EvidenceAge
        /\ \E r \in v.response : r.value = "good"
  BY <1>1 DEF Evidence
<1>3. <<o, i>> \in Key
  BY KeyFacts
<1>4. Dated(<<o, i>>, v)
  BY <1>3 DEF ChargeInv, RecordInv
<1>5. \A u \in journal[<<o, i>>] : u = v
  BY Zenon, <1>3 DEF ChargeInv, PermitInv, StoreInv
<1>6. \A r \in v.response : r.value = "good" /\ r.at <= now
  BY <1>2, <1>4 DEF Dated
<1>7. \A e \in EnteredAt(<<o, i>>) : e <= now /\ now <= e + EvidenceAge
  BY <1>2, <1>4, <1>5 DEF EnteredAt, Dated
<1> QED
  BY <1>2, <1>5, <1>6, <1>7 DEF StageIs

(***************************************************************************)
(* The claim: the counters of a key, the rows of a candidate, and the      *)
(* insertion of all of them or of an exclusion.                            *)
(***************************************************************************)
LEMMA ProtocolFacts ==
  ASSUME NEW k \in Key
  PROVE /\ Protocol_counters(k) \in Seq({<<"metered", c>> : c \in Counter} \cup {Allocation(k)})
        /\ IsRecovery(k) => /\ 1 \in 1..Len(Protocol_counters(k))
                            /\ Protocol_counters(k)[1] = Allocation(k)
<1>1. k[1] \in Operation
  BY SubmitAssumption DEF Key
<1>2. BoundOf[k[1]] \in Seq(Counter)
  BY <1>1, ConstantFacts
<1> DEFINE b == BoundOf[k[1]]
           S == {<<"metered", c>> : c \in Counter} \cup {Allocation(k)}
           metered == [i \in 1..Len(b) |-> <<"metered", b[i]>>]
<1>3. metered \in Seq(S)
  <2> HIDE DEF b
  <2>1. Len(b) \in Nat /\ \A i \in 1..Len(b) : b[i] \in Counter
    BY <1>2 DEF b
  <2> QED BY <2>1
<1>4. <<Allocation(k)>> \in Seq(S)
  OBVIOUS
<1>5. <<Allocation(k)>> \o metered \in Seq(S)
  <2> HIDE DEF metered, S
  <2> QED BY <1>3, <1>4
<1>6. IsRecovery(k) => ~IsMutation(k) /\ ~IsPrerequisite(k)
  BY SubmitAssumption DEF IsMutation, IsPrerequisite, IsRecovery
<1>7. Protocol_counters(k) = CASE IsMutation(k) -> metered
                               [] IsPrerequisite(k) -> <<Allocation(k)>>
                               [] OTHER -> <<Allocation(k)>> \o metered
  BY DEF Protocol_counters
<1>8. /\ 1 \in 1..Len(<<Allocation(k)>> \o metered)
      /\ (<<Allocation(k)>> \o metered)[1] = Allocation(k)
  <2> HIDE DEF metered, S
  <2>1. Len(metered) \in Nat
    BY <1>3
  <2> QED BY <1>3, <1>4, <2>1
<1>9. Protocol_counters(k) \in Seq(S)
  <2> HIDE DEF metered, S
  <2> QED BY <1>3, <1>4, <1>5, <1>7
<1>10. IsRecovery(k) => Protocol_counters(k) = <<Allocation(k)>> \o metered
  BY Zenon, <1>6, <1>7
<1> HIDE DEF metered
<1> QED
  BY <1>8, <1>9, <1>10

LEMMA CounterFacts ==
  ASSUME NEW k \in Key
  PROVE /\ Len(Protocol_counters(k)) \in Nat /\ Len(CountersOf(k)) \in Nat
        /\ Len(Protocol_counters(k)) <= Len(CountersOf(k))
        /\ \A n \in 1..Len(CountersOf(k)) :
             \/ \E c \in Counter : CountersOf(k)[n] = <<"metered", c>>
             \/ CountersOf(k)[n] = Allocation(k)
             \/ \E e \in Engagement : CountersOf(k)[n] = <<"engagement", e>>
        /\ \A n \in 1..Len(Protocol_counters(k)) : CountersOf(k)[n] = Protocol_counters(k)[n]
        /\ \A n \in 1..Len(CountersOf(k)) :
             n > Len(Protocol_counters(k)) => CountersOf(k)[n][1] = "engagement"
<1> DEFINE S == {<<"metered", c>> : c \in Counter} \cup {Allocation(k)}
           p == Protocol_counters(k)
           E == {<<"engagement", e>> : e \in Engagement}
           x == EngagementOf[k]
           y == [i \in 1..Len(x) |-> <<"engagement", x[i]>>]
<1>1. p \in Seq(S)
  BY ProtocolFacts
<1>2. x \in Seq(Engagement)
  BY ConstantFacts
<1>3. y \in Seq(E)
  <2> HIDE DEF x
  <2>1. Len(x) \in Nat /\ \A i \in 1..Len(x) : x[i] \in Engagement
    BY <1>2
  <2> QED BY <2>1
<1>4. CountersOf(k) = p \o y
  BY DEF CountersOf
<1> HIDE DEF p, y, S, E
<1>5. /\ Len(p) \in Nat /\ Len(y) \in Nat /\ Len(p \o y) = Len(p) + Len(y)
      /\ \A n \in 1..Len(p) : (p \o y)[n] = p[n] /\ p[n] \in S
      /\ \A n \in 1..(Len(p) + Len(y)) : n > Len(p) => (p \o y)[n] = y[n - Len(p)] /\ y[n - Len(p)] \in E
  BY <1>1, <1>3
<1>6. \A n \in 1..Len(CountersOf(k)) : CountersOf(k)[n] \in S \cup E
  BY <1>4, <1>5
<1>7. ASSUME NEW n \in 1..Len(CountersOf(k)), n > Len(p) PROVE CountersOf(k)[n][1] = "engagement"
  <2>1. CountersOf(k)[n] \in E
    BY <1>4, <1>5, <1>7
  <2> QED BY <2>1 DEF E
<1> QED
  BY <1>4, <1>5, <1>6, <1>7 DEF p, S, E

LEMMA RowsFacts ==
  ASSUME NEW k \in Key, NEW n \in 1..Len(CountersOf(k))
  PROVE Rows(CountersOf(k)[n]) \in Nat
<1> DEFINE c == CountersOf(k)[n]
<1>1. \/ \E d \in Counter : c = <<"metered", d>>
      \/ c = Allocation(k)
      \/ \E e \in Engagement : c = <<"engagement", e>>
  BY CounterFacts
<1> HIDE DEF c
<1>2. ASSUME NEW d \in Counter, c = <<"metered", d>> PROVE Rows(c) \in Nat
  BY <1>2, ConstantFacts DEF Rows
<1>3. ASSUME NEW e \in Engagement, c = <<"engagement", e>> PROVE Rows(c) \in Nat
  BY <1>3, ConstantFacts DEF Rows
<1>4. CASE c = Allocation(k)
  <2>1. c[1] = "allocation"
    BY <1>4 DEF Allocation
  <2>2. Rows(c) \in {1, RecoveryAttempts}
    BY <2>1, Zenon DEF Rows
  <2> QED BY <2>2, ConstantFacts DEF c
<1> QED
  BY <1>1, <1>2, <1>3, <1>4 DEF c

LEMMA ClaimFacts ==
  ASSUME NEW k \in Key, NEW b, NEW charged, NEW stage \in Unsent
  PROVE LET new == claim_record(k, b, stage, charged)
        IN /\ new.stage = stage /\ new.entry = {} /\ new.response = {}
           /\ new.fixed.charged = charged
           /\ new.protocol = IF IsMutation(k) THEN "Mutation" ELSE "Acquisition"
           /\ consistent(new)
<1> DEFINE new == claim_record(k, b, stage, charged)
<1>1. /\ new.stage = stage /\ new.entry = {} /\ new.response = {}
      /\ new.fixed.charged = charged
      /\ new.protocol = IF IsMutation(k) THEN "Mutation" ELSE "Acquisition"
      /\ new.pre_entry = {} /\ new.locator = {} /\ new.acknowledgement = {}
      /\ new.revision = 1 /\ new.refusal = (stage = "NotEntered")
      /\ new.reading = "None" /\ new.evidence = FALSE
      /\ ~IsMutation(k) => new.observation = FALSE /\ new.link = "None"
  BY Zenon DEF claim_record
<1> HIDE DEF new
<1>2. 1 \in 1..MaxRevision
  BY RevisionAssumption
<1>3. protocol_consistent(new)
  BY Zenon, <1>1 DEF protocol_consistent, absent, Unsent
<1>4. consistent(new)
  BY Zenon, <1>1, <1>2, <1>3 DEF consistent, absent, Unsent, requires_entry, requires_response,
     permits_response
<1> QED
  BY <1>1, <1>4 DEF new

\* The rows of a complete candidate that was not refused.
LEMMA BatchFacts ==
  ASSUME ChargeInv, NEW t \in Task, Phase(t) = "Search", ~refusal(t),
         Len(run[t].candidate) = Len(CountersOf(KeyOf(t))),
         NEW n \in 1..Len(CountersOf(KeyOf(t)))
  PROVE LET r == CandidateRow(t, n)
        IN /\ r \in RowType /\ r.claim = KeyOf(t)
           /\ r.counter = CountersOf(KeyOf(t))[n]
           /\ r.slot < Rows(r.counter)
<1> DEFINE k == KeyOf(t)
           c == CountersOf(k)[n]
           e == run[t].candidate[n]
           a == IF IsSum(c) THEN Amount[run[t].op] ELSE 0
           r == CandidateRow(t, n)
<1>1. k \in Key /\ run[t].op \in Operation /\ k = <<run[t].op, run[t].read>>
  BY TaskFacts DEF ChargeInv, KeyOf
<1>2. /\ run[t].candidate \in Seq([slot : Nat, total : Nat])
      /\ \A i \in 1..Len(run[t].candidate) :
           i > Len(Protocol_counters(k)) => run[t].candidate[i].slot < Rows(CountersOf(k)[i])
      /\ run[t].at \in Nat /\ run[t].at <= now
  BY Zenon, <1>1 DEF ChargeInv, TaskDated, CandidateOK, Phase
<1>3. e \in [slot : Nat, total : Nat]
  <2>1. n \in 1..Len(run[t].candidate)
    OBVIOUS
  <2> QED BY Zenon, <1>2, <2>1, SeqElement
<1>4. e.slot \in Nat /\ e.total \in Nat
  BY <1>3
<1>5. a \in Nat
  BY <1>1, ConstantFacts
<1>6. Rows(c) \in Nat
  BY <1>1, RowsFacts
<1>7. e.slot < Rows(c)
  <2>1. CASE n > Len(Protocol_counters(k))
    BY Zenon, <1>2, <2>1
  <2>2. CASE n \in 1..Len(Protocol_counters(k))
    <3>1. Len(run[t].candidate) >= Len(Protocol_counters(k))
      BY Zenon, <1>1, CounterFacts
    <3>2. ~(e.slot >= Rows(c))
      BY <2>2, <3>1 DEF refusal
    <3> HIDE DEF e, c
    <3> QED BY <1>4, <1>6, <3>2
  <2>3. Len(Protocol_counters(k)) \in Nat
    BY <1>1, CounterFacts
  <2> QED BY <2>1, <2>2, <2>3
<1>8. WindowOf(c, run[t].at) \in 0..load.last
  <2>1. now \in 0..load.last /\ load.last \in Nat
    BY WorldFacts DEF ChargeInv, WorldInv
  <2> HIDE DEF c
  <2> QED BY <1>2, <2>1 DEF WindowOf
<1>9. c \in UNION {{CountersOf(m)[i] : i \in 1..Len(CountersOf(m))} : m \in Key}
  BY <1>1
<1>10. r = [counter |-> c, window |-> WindowOf(c, run[t].at), slot |-> e.slot,
            claim |-> k, amount |-> a, cumulative |-> e.total + a]
  BY Zenon DEF CandidateRow
<1> HIDE DEF c, e, a, r, k
<1>11. r \in RowType
  BY <1>1, <1>4, <1>5, <1>8, <1>9, <1>10 DEF RowType
<1>12. r.claim = k /\ r.counter = c /\ r.slot = e.slot
  BY <1>10
<1> QED
  BY <1>7, <1>11, <1>12 DEF r, c, k

LEMMA RecordsClaimed ==
  ASSUME ChargeInv, NEW t \in Task, Phase(t) = "Search", ~refusal(t),
         Len(run[t].candidate) = Len(CountersOf(KeyOf(t))),
         NEW k, k = KeyOf(t), NEW batch, batch = Batch(t), NEW b,
         journal[k] = {}, Occupied(t) = {},
         Replaced(k, claim_record(k, b, "Reserved", {Place(r) : r \in batch})),
         slots' = slots \cup batch, UNCHANGED <<now, load>>
  PROVE RecordInv' /\ (slots \subseteq RowType)'
<1> DEFINE charged == {Place(r) : r \in batch}
           new == claim_record(k, b, "Reserved", charged)
<1>1. k \in Key
  BY Zenon, TaskFacts DEF ChargeInv, KeyOf
<1>2. ASSUME NEW r \in batch
      PROVE /\ r \in RowType /\ r.claim = k /\ r.slot < Rows(r.counter)
            /\ \A q \in slots : Place(q) # Place(r)
  <2>1. PICK n \in 1..Len(CountersOf(k)) : r = CandidateRow(t, n)
    BY Zenon DEF Batch
  <2>2. r \in RowType /\ r.claim = k /\ r.slot < Rows(r.counter)
    BY <2>1, BatchFacts
  <2>3. Row(r.counter, r.window, r.slot) = {}
    BY Zenon, <2>1 DEF Occupied
  <2>4. \A q \in slots : Place(q) # Place(r)
    BY SMTT(20), <2>3 DEF Row, Place
  <2> QED BY <2>2, <2>4
<1>3. (slots \subseteq RowType)'
  BY <1>2 DEF ChargeInv, WorldInv, RowType
<1>4. OneClaimPerPlace'
  <2> SUFFICES ASSUME NEW r \in slots \cup batch, NEW q \in slots \cup batch,
                      Place(r) = Place(q)
               PROVE r.claim = q.claim
    BY Zenon DEF OneClaimPerPlace, Place
  <2>1. CASE r \in slots /\ q \in slots
    BY Zenon, <2>1 DEF ChargeInv, RecordInv, OneClaimPerPlace
  <2>2. CASE r \in batch /\ q \in batch
    BY Zenon, <1>2, <2>2
  <2> QED BY Zenon, <1>2, <2>1, <2>2
<1>5. /\ new.stage = "Reserved" /\ new.entry = {} /\ new.response = {}
      /\ new.fixed.charged = charged
      /\ new.protocol = IF IsMutation(k) THEN "Mutation" ELSE "Acquisition"
      /\ consistent(new)
  BY Zenon, <1>1, ClaimFacts DEF Unsent
<1> HIDE DEF new
<1>6. Dated(k, new)'
  BY Zenon, <1>5 DEF Dated
<1>7. ASSUME NEW p \in charged
      PROVE /\ p = Place(p) /\ p.window \in Nat
            /\ p.slot \in Nat /\ p.slot < Rows(p.counter)
            /\ RowFor(p, k)'
  <2>1. PICK r \in batch : p = Place(r)
    BY SMTT(20)
  <2>2. r \in RowType /\ r.claim = k /\ r.slot < Rows(r.counter)
    BY Zenon, <1>2
  <2>3. p.counter = r.counter /\ p.window = r.window /\ p.slot = r.slot /\ p = Place(p)
    BY Zenon, <2>1 DEF Place
  <2>4. r.window \in Nat /\ r.slot \in Nat
    <3>1. r.window \in 0..load.last /\ r.slot \in Nat
      BY Zenon, <2>2 DEF RowType
    <3> QED BY SMTT(20), <3>1
  <2>5. RowFor(p, k)'
    BY <2>1, <2>2 DEF RowFor, Place
  <2> QED BY <2>2, <2>3, <2>4, <2>5
<1>8. ASSUME NEW c \in CountersIn(k) PROVE \E p \in charged : p.counter = c
  <2>1. PICK n \in 1..Len(CountersOf(k)) : c = CountersOf(k)[n]
    BY DEF CountersIn
  <2>2. CandidateRow(t, n) \in batch
    BY DEF Batch
  <2>3. Place(CandidateRow(t, n)) \in charged
    BY <2>2
  <2>4. Place(CandidateRow(t, n)).counter = c
    BY Zenon, <2>1 DEF Place, CandidateRow
  <2> QED BY Zenon, <2>3, <2>4
<1> HIDE DEF charged
<1>9. Charged(k, new)'
  BY Zenon, <1>5, <1>7, <1>8 DEF Charged
<1>10. Replaced(k, new)
  BY DEF new, charged
<1> QED
  BY Zenon, <1>1, <1>3, <1>4, <1>5, <1>6, <1>9, <1>10, RecordsWritten

LEMMA RecordsExcluded ==
  ASSUME ChargeInv, NEW k \in Key, journal[k] = {}, NEW b,
         Replaced(k, claim_record(k, b, "NotEntered", {})), UNCHANGED <<now, slots>>
  PROVE RecordInv'
<1> DEFINE new == claim_record(k, b, "NotEntered", {})
<1>1. /\ new.stage = "NotEntered" /\ new.entry = {} /\ new.response = {}
      /\ new.fixed.charged = {}
      /\ new.protocol = IF IsMutation(k) THEN "Mutation" ELSE "Acquisition"
      /\ consistent(new)
  BY Zenon, ClaimFacts DEF Unsent
<1> HIDE DEF new
<1>2. Dated(k, new)' /\ Charged(k, new)'
  BY Zenon, <1>1 DEF Dated, Charged
<1>3. OneClaimPerPlace'
  BY DEF ChargeInv, RecordInv, OneClaimPerPlace, Place
<1>4. Replaced(k, new)
  BY DEF new
<1> QED
  BY Zenon, <1>1, <1>2, <1>3, <1>4, RecordsWritten

(***************************************************************************)
(* What a step makes of the task that takes it.                            *)
(***************************************************************************)
LEMMA TaskMoves ==
  ASSUME ChargeInv, NEW t \in Task, now' = now, \E x : TaskDated(x) /\ Become(t, x)
  PROVE \A u \in Task : TaskDated(run[u])'
<1>1. PICK x : TaskDated(x) /\ Become(t, x)
  OBVIOUS
<1>2. run'[t] = x /\ \A u \in Task : u # t => run'[u] = run[u]
  BY <1>1, BecomeFacts DEF ChargeInv, PermitInv, TaskInv
<1> SUFFICES ASSUME NEW u \in Task PROVE TaskDated(run[u])'
  OBVIOUS
<1>3. \E y : run'[u] = y /\ TaskDated(y)
  BY Zenon, <1>1, <1>2 DEF ChargeInv
<1> QED
  BY Zenon, <1>3 DEF TaskDated, CandidateOK

LEMMA IdleDated == ChargeInv => TaskDated(Idle)
BY WorldFacts DEF TaskDated, Idle

LEMMA OnwardDated ==
  ASSUME ChargeInv, NEW t \in Task, NEW x, x.phase # "Search", x.at = run[t].at,
         x.answer = {} \/ x.answer = run[t].answer
  PROVE TaskDated(x)
BY DEF ChargeInv, TaskDated

LEMMA ShapeFacts == ASSUME ChargeInv, NEW t \in Task PROVE TaskShape(run[t])
BY DEF ChargeInv, PermitInv, TaskInv, TaskOK

LEMMA GoDated ==
  ASSUME ChargeInv, NEW t \in Task, NEW phase, phase # "Search", Go(t, phase)
  PROVE \E x : TaskDated(x) /\ Become(t, x)
<1> DEFINE x == [run[t] EXCEPT !.phase = phase]
<1>1. x.phase = phase /\ x.at = run[t].at /\ x.answer = run[t].answer
  BY ShapeFacts DEF TaskShape
<1>2. Become(t, x)
  BY DEF Go
<1> HIDE DEF x
<1> QED BY <1>1, <1>2, OnwardDated

LEMMA StopDated ==
  ASSUME ChargeInv, NEW t \in Task, Stop(t)
  PROVE \E x : TaskDated(x) /\ Become(t, x)
BY Zenon, IdleDated DEF Stop

LEMMA HoldDated ==
  ASSUME ChargeInv, NEW t \in Task, NEW phase, NEW held, phase # "Search", Hold(t, phase, held)
  PROVE \E x : TaskDated(x) /\ Become(t, x)
<1> DEFINE x == [run[t] EXCEPT !.phase = phase, !.own = held]
           y == [run[t] EXCEPT !.phase = phase, !.lent = held]
<1>1. /\ x.phase = phase /\ x.at = run[t].at /\ x.answer = run[t].answer
      /\ y.phase = phase /\ y.at = run[t].at /\ y.answer = run[t].answer
  BY ShapeFacts DEF TaskShape
<1>2. Become(t, x) \/ Become(t, y)
  BY DEF Hold
<1> HIDE DEF x, y
<1> QED BY <1>1, <1>2, OnwardDated

LEMMA AfterReadDated ==
  ASSUME ChargeInv, NEW t \in Task, NEW i
  PROVE TaskDated(AfterRead(t, i))
<1> DEFINE next == CASE run[t].op \in Recovery -> "Grant"
                     [] run[t].op \in Checkpoints -> "Checkpoint"
                     [] OTHER -> "Enter"
           x == [run[t] EXCEPT !.phase = "Lookup", !.read = i + 1, !.lent = {}, !.candidate = <<>>]
           y == [run[t] EXCEPT !.read = 0, !.lent = {}, !.phase = next]
<1>1. AfterRead(t, i) = x \/ AfterRead(t, i) = y
  BY DEF AfterRead
<1>2. next # "Search"
  OBVIOUS
<1> HIDE DEF next
<1>3. /\ x.phase = "Lookup" /\ x.at = run[t].at /\ x.answer = run[t].answer
      /\ y.phase = next /\ y.at = run[t].at /\ y.answer = run[t].answer
  BY ShapeFacts DEF TaskShape
<1> HIDE DEF x, y
<1> QED BY <1>1, <1>2, <1>3, OnwardDated

LEMMA CandidateDated ==
  ASSUME ChargeInv, NEW t \in Task, NEW c, NEW x,
         x = [run[t] EXCEPT !.candidate = c]
           \/ x = [run[t] EXCEPT !.phase = "Search", !.candidate = c],
         c \in Seq([slot : Nat, total : Nat]),
         Len(c) <= Len(CountersOf(KeyOf(t))),
         \A n \in 1..Len(c) :
           n > Len(Protocol_counters(KeyOf(t))) => c[n].slot < Rows(CountersOf(KeyOf(t))[n])
  PROVE TaskDated(x)
<1>1. /\ x.candidate = c /\ x.at = run[t].at
      /\ x.answer = run[t].answer /\ <<x.op, x.read>> = KeyOf(t)
  BY Zenon, ShapeFacts DEF TaskShape, KeyOf
<1>2. CandidateOK(x)
  BY Zenon, <1>1 DEF CandidateOK
<1> QED
  BY <1>1, <1>2 DEF TaskDated, ChargeInv

\* A row that is there has a total.
LEMMA TotalFacts ==
  ASSUME ChargeInv, NEW c, NEW w, NEW s, Row(c, w, s) # {}
  PROVE cumulative(c, w, s) \in Nat
<1>1. (CHOOSE r \in Row(c, w, s) : TRUE) \in slots
  BY DEF Row
<1>2. \A r \in slots : r.cumulative \in Nat
  BY DEF ChargeInv, WorldInv, RowType
<1> QED
  BY <1>1, <1>2 DEF cumulative

LEMMA SearchTask ==
  ASSUME ChargeInv, NEW t \in Task, Search(t)
  PROVE \E x : TaskDated(x) /\ Become(t, x)
<1> DEFINE k == KeyOf(t)
           old == run[t].candidate
           n == Len(old) + 1
           c == CountersOf(k)[n]
           w == WindowOf(c, run[t].at)
<1>1. Phase(t) = "Search" /\ n <= Len(CountersOf(k))
  BY DEF Search
<1>2. k \in Key
  BY <1>1, TaskFacts DEF ChargeInv, KeyOf
<1>3. /\ old \in Seq([slot : Nat, total : Nat])
      /\ \A i \in 1..Len(old) :
           i > Len(Protocol_counters(k)) => old[i].slot < Rows(CountersOf(k)[i])
  BY Zenon, <1>1 DEF ChargeInv, TaskDated, CandidateOK, Phase, KeyOf
<1>4. Len(old) \in Nat /\ n \in 1..Len(CountersOf(k))
  BY <1>1, <1>2, <1>3, CounterFacts
<1>5. PICK s \in frontier(c, w) :
        LET total == IF IsSum(c) /\ s > 0 THEN cumulative(c, w, s - 1) ELSE 0
        IN \/ Go(t, "Lookup") \/ Stop(t)
           \/ /\ ~(c[1] = "engagement" /\ s = Rows(c))
              /\ Become(t, [run[t] EXCEPT !.candidate = Append(@, [slot |-> s, total |-> total])])
  BY Zenon DEF Search
<1> DEFINE total == IF IsSum(c) /\ s > 0 THEN cumulative(c, w, s - 1) ELSE 0
           new == Append(old, [slot |-> s, total |-> total])
<1>6. Rows(c) \in Nat
  BY <1>2, <1>4, RowsFacts
<1>7. /\ s \in Nat
      /\ c[1] # "allocation" => s \in 0..Rows(c) /\ (s > 0 => Row(c, w, s - 1) # {})
  <2> HIDE DEF c, w
  <2> QED BY <1>5, <1>6 DEF frontier
<1>8. total \in Nat
  <2>1. IsSum(c) => c[1] # "allocation"
    BY DEF IsSum
  <2> HIDE DEF c, w
  <2> QED BY Zenon, <1>7, <2>1, TotalFacts
<1>9. CASE Become(t, [run[t] EXCEPT !.candidate = new]) /\ ~(c[1] = "engagement" /\ s = Rows(c))
  <2>1. n > Len(Protocol_counters(k)) => s < Rows(c)
    <3>1. n > Len(Protocol_counters(k)) => c[1] = "engagement"
      BY Zenon, <1>2, <1>4, CounterFacts
    <3> HIDE DEF c, w
    <3> QED BY SMTT(20), <1>6, <1>7, <1>9, <3>1
  <2> HIDE DEF total
  <2>2. [slot |-> s, total |-> total] \in [slot : Nat, total : Nat]
    BY Zenon, <1>7, <1>8
  <2>3. /\ new \in Seq([slot : Nat, total : Nat]) /\ Len(new) = n
        /\ \A i \in 1..Len(old) : new[i] = old[i]
        /\ new[n] = [slot |-> s, total |-> total]
    BY SMTT(20), <1>3, <2>2
  <2>4. \A i \in 1..Len(new) :
          i > Len(Protocol_counters(k)) => new[i].slot < Rows(CountersOf(k)[i])
    <3> SUFFICES ASSUME NEW i \in 1..Len(new), i > Len(Protocol_counters(k))
                 PROVE new[i].slot < Rows(CountersOf(k)[i])
      BY SMTT(20)
    <3>1. CASE i = n
      BY SMTT(20), <2>1, <2>3, <3>1
    <3>2. CASE i \in 1..Len(old)
      BY <1>3, <2>3, <3>2
    <3> QED BY SMTT(20), <1>4, <2>3, <3>1, <3>2
  <2> HIDE DEF new
  <2>5. TaskDated([run[t] EXCEPT !.candidate = new])
    BY Zenon, <1>1, <2>3, <2>4, CandidateDated
  <2> QED BY <1>9, <2>5
<1> HIDE DEF c, w
<1> QED
  BY <1>5, <1>9, GoDated, StopDated

LEMMA TupleIsSeq ==
  ASSUME NEW S, NEW m \in Nat, NEW f \in [1..m -> S]
  PROVE f \in Seq(S) /\ Len(f) = m
OBVIOUS

LEMMA AdvanceTask ==
  ASSUME ChargeInv, NEW t \in Task, Searched(t), ~refusal(t), NEW n \in Occupied(t),
         Become(t, [run[t] EXCEPT !.candidate = advance(t, n)])
  PROVE \E x : TaskDated(x) /\ Become(t, x)
<1> DEFINE k == KeyOf(t)
           old == run[t].candidate
           c == CountersOf(k)[n]
           w == WindowOf(c, run[t].at)
           total == IF IsSum(c) THEN cumulative(c, w, old[n].slot) ELSE 0
           P == Len(Protocol_counters(k))
           new == [i \in 1..P |-> IF i = n THEN [slot |-> old[n].slot + 1, total |-> total]
                                           ELSE old[i]]
<1>1. Phase(t) = "Search" /\ Len(old) = Len(CountersOf(k))
  BY DEF Searched
<1>2. k \in Key
  BY <1>1, TaskFacts DEF ChargeInv, KeyOf
<1>3. old \in Seq([slot : Nat, total : Nat])
  BY Zenon, <1>1 DEF ChargeInv, TaskDated, CandidateOK, Phase
<1>4. P \in Nat /\ P <= Len(old) /\ Len(old) \in Nat
  BY <1>1, <1>2, CounterFacts
<1>5. \A i \in 1..Len(old) : old[i] \in [slot : Nat, total : Nat]
  BY Zenon, <1>3, SeqElement
<1>6. n \in 1..Len(old) /\ Row(c, w, old[n].slot) # {}
  BY <1>1 DEF Occupied, CandidateRow
<1>7. total \in Nat
  <2> HIDE DEF c, w
  <2> QED BY <1>6, TotalFacts
<1> HIDE DEF total
<1>8. [slot |-> old[n].slot + 1, total |-> total] \in [slot : Nat, total : Nat]
  BY <1>5, <1>6, <1>7
<1>9. advance(t, n) = new
  BY DEF advance, total
<1>10. new \in Seq([slot : Nat, total : Nat]) /\ Len(new) = P
  <2> HIDE DEF P
  <2>1. \A i \in 1..P : new[i] \in [slot : Nat, total : Nat]
    BY <1>4, <1>5, <1>8
  <2>2. new \in [1..P -> [slot : Nat, total : Nat]]
    BY <2>1
  <2> HIDE DEF new
  <2> QED BY Zenon, <1>4, <2>2, TupleIsSeq
<1>11. P <= Len(CountersOf(k))
  BY <1>1, <1>4
<1> HIDE DEF new
<1>12. TaskDated([run[t] EXCEPT !.candidate = new])
  <2>1. \A i \in 1..Len(new) : ~(i > Len(Protocol_counters(k)))
    BY <1>4, <1>10
  <2> QED BY Zenon, <1>10, <1>11, <2>1, CandidateDated
<1> QED
  BY <1>9, <1>12

LEMMA StepTask ==
  ASSUME ChargeInv, NEW t \in Task,
         Step(t) \/ Halt(t) \/ \E f \in load.offer[t] : Begin(t, f[1], f[2])
  PROVE \E x : TaskDated(x) /\ Become(t, x)
<1>1. CASE \E f \in load.offer[t] : Begin(t, f[1], f[2])
  <2>1. PICK f : Begin(t, f[1], f[2])
    BY <1>1
  <2> DEFINE x == [Idle EXCEPT !.phase = "Lookup", !.op = f[1], !.binding = f[2],
                               !.at = now, !.conn = conn]
  <2>2. x.phase = "Lookup" /\ x.at = now /\ x.answer = {}
    BY DEF Idle
  <2>3. Become(t, x)
    BY Zenon, <2>1 DEF Begin
  <2> HIDE DEF x
  <2>4. TaskDated(x)
    BY SMTT(20), <2>2, WorldFacts DEF TaskDated
  <2> QED BY <2>3, <2>4
<1>2. CASE Halt(t)
  BY Zenon, <1>2, StopDated DEF Halt
<1>3. CASE Lookup(t)
  <2> DEFINE x == [run[t] EXCEPT !.phase = "Search", !.candidate = <<>>]
  <2>1. \/ Become(t, x) \/ Hold(t, AfterClaim(t), journal[KeyOf(t)])
        \/ Go(t, "Evidence") \/ Stop(t)
    BY <1>3 DEF Lookup
  <2>2. KeyOf(t) \in Key
    BY <1>3, TaskFacts DEF Lookup, ChargeInv, KeyOf
  <2>3. TaskDated(x)
    <3>1. <<>> \in Seq([slot : Nat, total : Nat]) /\ Len(<<>>) = 0
      BY SMTT(20)
    <3>2. 0 <= Len(CountersOf(KeyOf(t)))
      BY <2>2, CounterFacts
    <3>3. PICK c : c = <<>>
      OBVIOUS
    <3>4. x = [run[t] EXCEPT !.phase = "Search", !.candidate = c]
      BY <3>3
    <3>5. c \in Seq([slot : Nat, total : Nat]) /\ Len(c) = 0
      BY <3>1, <3>3
    <3>6. \A n \in 1..Len(c) : FALSE
      BY <3>5
    <3> HIDE DEF x
    <3> QED BY Zenon, <3>2, <3>4, <3>5, <3>6, CandidateDated
  <2>4. AfterClaim(t) # "Search"
    BY DEF AfterClaim
  <2> HIDE DEF x
  <2> QED BY <2>1, <2>3, <2>4, HoldDated, GoDated, StopDated
<1>4. CASE Search(t)
  BY <1>4, SearchTask
<1>5. CASE Insert(t)
  <2>1. AfterClaim(t) # "Search"
    BY DEF AfterClaim
  <2>2. \/ Go(t, "Lookup") \/ Go(t, "Evidence") \/ Stop(t)
        \/ \E v : Hold(t, AfterClaim(t), v)
        \/ /\ Searched(t) /\ ~refusal(t)
           /\ \E n \in Occupied(t) : Become(t, [run[t] EXCEPT !.candidate = advance(t, n)])
    BY Zenon, <1>5 DEF Insert
  <2> QED BY Zenon, <2>1, <2>2, AdvanceTask, HoldDated, GoDated, StopDated
<1>6. CASE Reload(t)
  BY <1>6, AfterReadDated, GoDated, StopDated DEF Reload
<1>7. CASE ReadEvidence(t)
  <2> DEFINE x == [run[t] EXCEPT !.phase = "Refuse", !.read = 0, !.lent = {}]
  <2>1. Become(t, AfterRead(t, run[t].read)) \/ Become(t, x) \/ Stop(t)
    BY <1>7 DEF ReadEvidence
  <2>2. x.phase = "Refuse" /\ x.at = run[t].at /\ x.answer = run[t].answer
    BY ShapeFacts DEF TaskShape
  <2> HIDE DEF x
  <2> QED BY Zenon, <2>1, <2>2, AfterReadDated, OnwardDated, StopDated
<1>8. CASE record_checkpoint(t)
  <2>1. Go(t, "Enter") \/ Stop(t) \/ \E v : Hold(t, "Enter", v)
    BY <1>8 DEF record_checkpoint
  <2> QED BY Zenon, <2>1, HoldDated, GoDated, StopDated
<1>9. CASE record_not_entered(t)
  BY Zenon, <1>9, StopDated DEF record_not_entered
<1>10. CASE Enter(t)
  BY Zenon, <1>10, GoDated DEF Enter
<1>11. CASE grant_entry(t)
  <2>1. Stop(t) \/ \E v : Hold(t, "Send", v)
    BY SMTT(20), <1>11 DEF grant_entry
  <2> QED BY Zenon, <2>1, HoldDated, StopDated
<1>12. CASE Send(t) \/ RefuseSend(t)
  BY <1>12, GoDated DEF Send, RefuseSend
<1>13. CASE Answer(t)
  <2>1. PICK value : Become(t, [run[t] EXCEPT !.phase = "Record",
                                              !.answer = {[value |-> value, at |-> now]}])
    BY Zenon, <1>13 DEF Answer
  <2> DEFINE x == [run[t] EXCEPT !.phase = "Record", !.answer = {[value |-> value, at |-> now]}]
  <2>2. x.phase = "Record" /\ x.at = run[t].at /\ x.answer = {[value |-> value, at |-> now]}
    BY ShapeFacts DEF TaskShape
  <2> HIDE DEF x
  <2>3. now \in Nat /\ TaskDated(run[t])
    BY Zenon, WorldFacts DEF ChargeInv
  <2>4. TaskDated(x)
    BY ONLY <2>2, <2>3 DEF TaskDated
  <2> QED BY Zenon, <2>1, <2>4 DEF x
<1>14. CASE Timeout(t)
  BY Zenon, <1>14, GoDated DEF Timeout
<1>15. CASE record_response(t)
  <2> DEFINE x == [run[t] EXCEPT !.phase = "Evidence", !.answer = {}]
  <2>1. Become(t, x) \/ Stop(t)
    BY <1>15 DEF record_response
  <2>2. x.phase = "Evidence" /\ x.at = run[t].at /\ x.answer = {}
    BY ShapeFacts DEF TaskShape
  <2> HIDE DEF x
  <2> QED BY Zenon, <2>1, <2>2, OnwardDated, StopDated
<1> QED
  BY Zenon, <1>1, <1>2, <1>3, <1>4, <1>5, <1>6, <1>7, <1>8, <1>9, <1>10, <1>11, <1>12, <1>13,
     <1>14, <1>15 DEF Step

(***************************************************************************)
(* What a step makes of the journal and the rows.                          *)
(***************************************************************************)
LEMMA InsertRecords ==
  ASSUME ChargeInv, NEW t \in Task, Insert(t)
  PROVE RecordInv' /\ (slots \subseteq RowType)'
<1>1. Phase(t) = "Search" /\ KeyOf(t) \in Key /\ Searched(t)
  BY TaskFacts DEF Insert, Searched, ChargeInv, KeyOf
<1>2. UNCHANGED <<load, now>> /\ now \in Nat
  BY WorldFacts DEF Insert
<1>3. slots' = slots => (slots \subseteq RowType)'
  BY <1>2 DEF ChargeInv, WorldInv, RowType
<1>4. CASE UNCHANGED <<journal, slots>>
  BY SMTT(20), <1>2, <1>3, <1>4, RecordsUntouched
<1>5. CASE /\ slots' = slots /\ journal[KeyOf(t)] = {}
           /\ Replaced(KeyOf(t), claim_record(KeyOf(t), run[t].binding, "NotEntered", {}))
  BY <1>1, <1>2, <1>3, <1>5, RecordsExcluded
<1>6. CASE /\ ~refusal(t) /\ Occupied(t) = {} /\ journal[KeyOf(t)] = {}
           /\ Replaced(KeyOf(t), claim_record(KeyOf(t), run[t].binding, "Reserved",
                                              {Place(r) : r \in Batch(t)}))
           /\ slots' = slots \cup Batch(t)
  <2>1. Len(run[t].candidate) = Len(CountersOf(KeyOf(t)))
    BY Zenon, <1>1, <1>6 DEF Searched
  <2> QED BY Zenon, <1>1, <1>2, <1>6, <2>1, RecordsClaimed
<1> QED
  BY <1>4, <1>5, <1>6 DEF Insert, Replaced, Place

LEMMA ResponseStays ==
  ASSUME NEW v, NEW new, valid_transition(v, new), new.stage # "ResponseRecorded"
  PROVE new.response = v.response
BY DEF valid_transition, response_kept

LEMMA HeldRecords ==
  ASSUME ChargeInv, NEW t \in Task,
         record_checkpoint(t) \/ record_not_entered(t) \/ record_response(t)
  PROVE RecordInv'
<1> DEFINE k == KeyOf(t)
           v == CHOOSE v \in Held(t) : TRUE
<1>1. Phase(t) # "Idle" /\ k \in Key
  BY DEF record_checkpoint, record_not_entered, record_response,
         ChargeInv, PermitInv, TaskInv, TaskOK
<1>2. UNCHANGED <<slots, now>> /\ now \in Nat
  BY WorldFacts DEF record_checkpoint, record_not_entered, record_response
<1>3. Unchanged(t) => v \in journal[k] /\ ViewShape(v)
  BY Zenon, <1>1, HeldView DEF ChargeInv
<1>4. CASE journal' = journal
  BY <1>2, <1>4, RecordsUntouched
<1>5. ASSUME Unchanged(t), NEW new, valid_transition(v, new), Replaced(k, new),
             new.stage \notin {"EntryGranted", "ResponseRecorded"}
      PROVE RecordInv'
  <2> HIDE DEF v
  <2>1. new.response = v.response
    BY Zenon, <1>5, ResponseStays
  <2> QED BY Zenon, <1>1, <1>2, <1>3, <1>5, <2>1, RecordsRewritten
<1>6. CASE record_checkpoint(t)
  <2> DEFINE new == [Advanced(v, v.stage) EXCEPT !.pre_entry = {"read"}]
  <2>1. \/ journal' = journal
        \/ Unchanged(t) /\ valid_transition(v, new) /\ Replaced(k, new)
    BY Zenon, <1>6 DEF record_checkpoint, Replaced
  <2> HIDE DEF v
  <2>2. Unchanged(t) => new.stage = v.stage
    BY <1>3 DEF ViewShape, Advanced
  <2> HIDE DEF new
  <2>3. Unchanged(t) /\ valid_transition(v, new)
          => new.stage \notin {"EntryGranted", "ResponseRecorded"}
    BY <2>2 DEF valid_transition, stage_transition_allowed
  <2> QED BY <1>4, <1>5, <2>1, <2>3
<1>7. CASE record_not_entered(t)
  <2>1. PICK p : \/ journal' = journal
                 \/ /\ Unchanged(t) /\ valid_transition(v, NotEntered(v, p))
                    /\ Replaced(k, NotEntered(v, p))
    BY Zenon, <1>7 DEF record_not_entered, Replaced
  <2> HIDE DEF v
  <2>2. Unchanged(t) => NotEntered(v, p).stage = "NotEntered"
    BY <1>3 DEF ViewShape, Advanced, NotEntered
  <2> QED BY <1>4, <1>5, <2>1, <2>2
<1>8. CASE record_response(t)
  <2> DEFINE new == Recorded(t, v)
             located == /\ IsMutation(KeyOf(t)) /\ ObservationOf[run[t].op] = "ResponseLocator"
                        /\ \E r \in run[t].answer : r.value = "done"
             full == [Advanced(v, "ResponseRecorded") EXCEPT
                        !.response = run[t].answer, !.locator = IF located THEN {"id"} ELSE {}]
  <2>1. \/ journal' = journal
        \/ Unchanged(t) /\ valid_transition(v, new) /\ Replaced(k, new)
    BY <1>8 DEF record_response, Replaced
  <2>2. new = IF run[t].answer = {} THEN Advanced(v, "Unknown") ELSE full
    BY DEF Recorded
  <2> HIDE DEF v, located
  <2>3. Unchanged(t) => /\ Advanced(v, "Unknown").stage = "Unknown"
                        /\ full.stage = "ResponseRecorded" /\ full.response = run[t].answer
    BY Zenon, <1>3 DEF ViewShape, Advanced
  <2>4. /\ \A r, q \in run[t].answer : r = q
        /\ \A r \in run[t].answer : r.at \in Nat /\ r.at <= now
    BY Zenon DEF ChargeInv, TaskDated
  <2> HIDE DEF new, full
  <2>5. CASE Unchanged(t) /\ valid_transition(v, new) /\ Replaced(k, new)
    <3>1. CASE run[t].answer = {}
      BY SMTT(20), <1>5, <2>2, <2>3, <2>5, <3>1
    <3>2. CASE run[t].answer # {}
      <4>1. new.stage = "ResponseRecorded" /\ new.response = run[t].answer
        BY Zenon, <2>2, <2>3, <2>5, <3>2
      <4>2. /\ \A r, q \in new.response : r = q
            /\ \A r \in new.response : r.at \in Nat /\ r.at <= now
        BY Zenon, <2>4, <4>1
      <4>3. new.stage # "EntryGranted"
        BY <4>1
      <4> QED BY Zenon, <1>1, <1>2, <1>3, <2>5, <4>2, <4>3, RecordsRewritten
    <3> QED BY Zenon, <3>1, <3>2
  <2> QED BY <1>4, <2>1, <2>5
<1> QED
  BY <1>6, <1>7, <1>8

LEMMA GrantRecords ==
  ASSUME ChargeInv, NEW t \in Task, grant_entry(t)
  PROVE RecordInv'
<1> DEFINE k == KeyOf(t)
           v == CHOOSE v \in Held(t) : TRUE
           entry == {[at |-> now, generation |-> conn.generation, source |-> SourceStage(k)]}
           new == [Advanced(v, "EntryGranted") EXCEPT !.entry = entry]
<1>1. /\ Phase(t) = "Grant" /\ k \in Key /\ run[t].op \in Operation
      /\ k = <<run[t].op, run[t].read>>
  BY TaskFacts DEF grant_entry, KeyOf, ChargeInv
<1>2. UNCHANGED <<slots, now>> /\ now \in Nat
  BY WorldFacts DEF grant_entry
<1>3. Unchanged(t) => v \in journal[k] /\ ViewShape(v)
  BY Zenon, <1>1, HeldView DEF ChargeInv
<1>4. \/ journal' = journal
      \/ /\ Unchanged(t) /\ v.stage = "Reserved" /\ validate_reservations(t, v)
         /\ validate_prerequisites(t) /\ valid_transition(v, new) /\ Replaced(k, new)
  BY DEF grant_entry, Replaced
<1> HIDE DEF v
<1>5. CASE journal' = journal
  BY <1>2, <1>5, RecordsUntouched
<1>6. CASE /\ Unchanged(t) /\ v.stage = "Reserved" /\ validate_reservations(t, v)
           /\ validate_prerequisites(t) /\ valid_transition(v, new) /\ Replaced(k, new)
  <2>1. new.stage = "EntryGranted" /\ new.entry = entry
    BY <1>3, <1>6 DEF ViewShape, Advanced
  <2>2. \A e \in entry : e.at = now
    OBVIOUS
  <2> HIDE DEF new, entry
  <2>3. new.response = v.response
    BY Zenon, <1>6, <2>1, ResponseStays
  <2>4. k[2] = 0 => ReadsDone(k[1], now)
    <3> SUFFICES ASSUME k[2] = 0 PROVE ReadsDone(k[1], now)
      OBVIOUS
    <3>1. run[t].read = 0 /\ k[1] = run[t].op
      BY <1>1
    <3> QED BY Zenon, <1>1, <1>6, <3>1, GrantedReadsDone
  <2>5. Charged(k, v)
    BY Zenon, <1>1, <1>3, <1>6 DEF ChargeInv, RecordInv
  <2>6. ASSUME NEW p \in v.fixed.charged
        PROVE p.window = WindowOf(p.counter, now) /\ RowFor(p, k)
    <3>1. /\ p.window = WindowOf(p.counter, now)
          /\ \E r \in Row(p.counter, p.window, p.slot) : r.claim = k
      BY Zenon, <1>6 DEF validate_reservations
    <3>2. p = Place(p)
      BY <2>5 DEF Charged
    <3>3. RowFor(p, k)
      BY Zenon, <3>1, <3>2 DEF Row, RowFor, Place
    <3> QED BY Zenon, <3>1, <3>3
  <2> QED BY Zenon, <1>1, <1>2, <1>3, <1>6, <2>1, <2>2, <2>3, <2>4, <2>6, RecordsGranted
<1> QED
  BY <1>4, <1>5, <1>6

LEMMA RefineRecords ==
  ASSUME ChargeInv, NEW r \in Recovery, refine_recovery(r)
  PROVE RecordInv'
<1> DEFINE o == SourceOf[r]
           k == <<o, 0>>
<1>1. PICK v, a : /\ v \in journal[k] /\ valid_transition(v, refinement(v, o, a))
                  /\ Replaced(k, refinement(v, o, a))
  BY Zenon DEF refine_recovery, Replaced
<1>2. k \in Key
  BY Zenon, RefineFacts DEF ChargeInv
<1>3. UNCHANGED <<slots, now>>
  BY DEF refine_recovery
<1>4. ViewShape(v)
  BY <1>1, <1>2 DEF ChargeInv, PermitInv, StoreInv
<1> DEFINE new == refinement(v, o, a)
<1>5. new.stage \in {"Observed", "ObservedByProvider"}
  BY SMTT(20), <1>4 DEF refinement, ViewShape, Advanced
<1> HIDE DEF new
<1>6. v \in journal[k] /\ valid_transition(v, new) /\ Replaced(k, new)
  BY Zenon, <1>1 DEF new
<1>7. new.response = v.response
  BY <1>5, <1>6, ResponseStays
<1> QED
  BY <1>2, <1>3, <1>5, <1>6, <1>7, RecordsRewritten

(***************************************************************************)
(* The theorems about capacity.                                            *)
(***************************************************************************)
LEMMA ChargeInit == Init => ChargeInv
<1> SUFFICES ASSUME Init PROVE ChargeInv
  OBVIOUS
<1>1. PermitInv
  BY PermitInit
<1>2. load.last \in Nat /\ load.generations \in Nat \ {0}
  BY ConstantFacts DEF Init
<1>3. WorldInv
  BY <1>2 DEF Init, WorldInv
<1>4. \A k \in Key : journal[k] = {}
  BY DEF Init
<1>5. PrerequisitesFirst
  BY Zenon, <1>4, KeyFacts DEF PrerequisitesFirst, EnteredAt
<1>6. RecordInv
  BY Zenon, <1>4, <1>5 DEF Init, RecordInv, OneClaimPerPlace, EnteredApart
<1>7. \A t \in Task : TaskDated(run[t])
  BY DEF Init, Idle, TaskDated
<1> QED
  BY <1>1, <1>3, <1>6, <1>7 DEF ChargeInv

LEMMA WorldNext ==
  ASSUME ChargeInv, [Next]_vars, slots' = slots \/ (slots \subseteq RowType)'
  PROVE WorldInv'
<1>0. now \in Nat /\ load.last \in Nat /\ load.generations \in Nat \ {0}
  BY WorldFacts
<1>1. load' = load
  BY Zenon DEF Next, vars, Step, Halt, Begin, Lookup, Search, Insert, Reload, ReadEvidence,
         record_checkpoint, record_not_entered, Enter, grant_entry, Send, RefuseSend, Answer, Timeout,
         record_response, Apply, Lose, refine_recovery, Tick, sweep_expired, ConnectionChange
<1>2. (slots \subseteq RowType)'
  BY <1>1 DEF ChargeInv, WorldInv, RowType
<1>3. UNCHANGED now \/ Tick
  BY Zenon DEF Next, vars, Step, Halt, Begin, Lookup, Search, Insert, Reload, ReadEvidence,
         record_checkpoint, record_not_entered, Enter, grant_entry, Send, RefuseSend, Answer, Timeout,
         record_response, Apply, Lose, refine_recovery, sweep_expired, ConnectionChange
<1>4. UNCHANGED conn \/ ConnectionChange
  BY Zenon DEF Next, vars, Step, Halt, Begin, Lookup, Search, Insert, Reload, ReadEvidence,
         record_checkpoint, record_not_entered, Enter, grant_entry, Send, RefuseSend, Answer, Timeout,
         record_response, Apply, Lose, refine_recovery, Tick, sweep_expired
<1>5. \/ UNCHANGED <<air, applied>>
      \/ \E o \in Op : Apply(o) \/ Lose(o)
      \/ \E t \in Task : Send(t)
  BY ZenonT(30) DEF Next, vars, Step, Halt, Begin, Lookup, Search, Insert, Reload, ReadEvidence,
         record_checkpoint, record_not_entered, Enter, grant_entry, RefuseSend, Answer, Timeout,
         record_response, refine_recovery, Tick, sweep_expired, ConnectionChange
<1>6. now' \in 0..load'.last
  BY <1>0, <1>1, <1>3 DEF ChargeInv, WorldInv, Tick
<1>7. conn' \in [generation : 1..load'.generations, active : BOOLEAN]
  BY <1>0, <1>1, <1>4 DEF ChargeInv, WorldInv, ConnectionChange
<1>8. air' \subseteq Op /\ applied' \subseteq Op
  BY <1>5 DEF ChargeInv, WorldInv, Apply, Lose, Send, IsMutation
<1> QED
  BY <1>2, <1>6, <1>7, <1>8 DEF WorldInv

LEMMA ChargeNext == ChargeInv /\ [Next]_vars => ChargeInv'
<1> SUFFICES ASSUME ChargeInv, [Next]_vars PROVE ChargeInv'
  OBVIOUS
<1>0. now \in Nat
  BY WorldFacts
<1>1. PermitInv'
  BY PermitNext DEF ChargeInv
<1>2. ASSUME NEW t \in Task,
             Step(t) \/ Halt(t) \/ \E f \in load.offer[t] : Begin(t, f[1], f[2])
      PROVE /\ RecordInv' /\ (slots' = slots \/ (slots \subseteq RowType)')
            /\ \A u \in Task : TaskDated(run[u])'
  <2>1. now' = now
    BY Zenon, <1>2 DEF Step, Halt, Begin, Lookup, Search, Insert, Reload, ReadEvidence,
         record_checkpoint, record_not_entered, Enter, grant_entry, Send, RefuseSend, Answer, Timeout,
         record_response
  <2>2. \A u \in Task : TaskDated(run[u])'
    BY <1>2, <2>1, StepTask, TaskMoves
  <2>3. CASE Insert(t)
    BY <2>2, <2>3, InsertRecords
  <2>4. CASE record_checkpoint(t) \/ record_not_entered(t) \/ record_response(t)
             \/ grant_entry(t)
    <3>1. slots' = slots
      BY <2>4 DEF record_checkpoint, record_not_entered, record_response, grant_entry
    <3> QED BY <2>2, <2>4, <3>1, HeldRecords, GrantRecords
  <2>5. CASE UNCHANGED <<journal, slots>>
    BY <1>0, <2>1, <2>2, <2>5, RecordsUntouched
  <2>6. \/ Insert(t) \/ record_checkpoint(t) \/ record_not_entered(t)
        \/ record_response(t) \/ grant_entry(t) \/ UNCHANGED <<journal, slots>>
    BY Zenon, <1>2 DEF Step, Halt, Begin, Lookup, Search, Reload, ReadEvidence, Enter, Send,
                RefuseSend, Answer, Timeout
  <2> QED BY <2>3, <2>4, <2>5, <2>6
<1>3. ASSUME UNCHANGED <<journal, slots, run>>, now' \in Nat, now <= now'
      PROVE RecordInv' /\ \A u \in Task : TaskDated(run[u])'
  <2>1. RecordInv'
    BY Zenon, <1>3, RecordsUntouched
  <2>2. ASSUME NEW u \in Task PROVE TaskDated(run[u])'
    <3>1. TaskDated(run[u])
      BY DEF ChargeInv
    <3>2. run'[u] = run[u] /\ CandidateOK(run[u])' = CandidateOK(run[u])
      BY Zenon, <1>3 DEF CandidateOK
    <3> QED BY <1>0, <1>3, <3>1, <3>2 DEF TaskDated
  <2> QED BY <2>1, <2>2
<1>4. ASSUME UNCHANGED <<run, now>>
      PROVE \A u \in Task : TaskDated(run[u])'
  BY <1>4 DEF ChargeInv, TaskDated, CandidateOK
<1>5. ASSUME NEW r \in Recovery, refine_recovery(r)
      PROVE RecordInv' /\ slots' = slots /\ \A u \in Task : TaskDated(run[u])'
  BY Zenon, <1>4, <1>5, RefineRecords DEF refine_recovery
<1>6. CASE sweep_expired
  <2>1. RecordInv' /\ slots' \subseteq slots /\ UNCHANGED <<run, now, load>>
    BY <1>6, RecordsSwept DEF sweep_expired
  <2>2. (slots \subseteq RowType)'
    BY <2>1 DEF ChargeInv, WorldInv, RowType
  <2>3. WorldInv'
    BY <2>2, WorldNext
  <2> QED BY <1>1, <1>4, <2>1, <2>3 DEF ChargeInv
<1>7. CASE Tick \/ ConnectionChange \/ UNCHANGED vars \/ \E o \in Op : Apply(o) \/ Lose(o)
  <2>1. UNCHANGED <<journal, slots, run>> /\ now' \in Nat /\ now <= now'
    BY <1>0, <1>7 DEF Tick, ConnectionChange, vars, Apply, Lose
  <2> QED BY Zenon, <1>1, <1>3, <2>1, WorldNext DEF ChargeInv
<1>8. CASE \/ \E t \in Task : Step(t) \/ Halt(t) \/ \E f \in load.offer[t] : Begin(t, f[1], f[2])
           \/ \E r \in Recovery : refine_recovery(r)
  BY Zenon, <1>1, <1>2, <1>5, <1>8, WorldNext DEF ChargeInv
<1> QED
  BY Zenon, <1>6, <1>7, <1>8 DEF Next

\* In every behaviour of the gateway an entered operation holds a row of each
\* of its counters in the window it entered, and no two hold the same.
THEOREM ChargesAreApart == Spec => []ChargeInv
<1>1. ChargeInv /\ [Next]_vars => ChargeInv'
  BY ChargeNext
<1> QED
  BY <1>1, ChargeInit, PTL DEF Spec

\* The journal holds at most one record per key, always one the transition
\* rule accepts as consistent, and rows, tasks and provider are well formed.
THEOREM SubmitTypeCorrect == Spec => []SubmitTypeOK
<1>1. ChargeInv => SubmitTypeOK
  <2> SUFFICES ASSUME ChargeInv PROVE SubmitTypeOK
    OBVIOUS
  <2>1. \A k \in Key : \A v, u \in journal[k] : u = v /\ consistent(v)
    BY DEF ChargeInv, RecordInv, PermitInv, StoreInv
  <2>2. sent \in [Key -> Nat] /\ load \in Workload
    BY DEF ChargeInv, PermitInv, StoreInv
  <2>3. \A t \in Task : Phase(t) # "Idle" => KeyOf(t) \in Key
    BY DEF ChargeInv, PermitInv, TaskInv, TaskOK
  <2> QED BY Zenon, <2>1, <2>2, <2>3 DEF ChargeInv, WorldInv, SubmitTypeOK
<1> QED
  BY <1>1, ChargesAreApart, PTL

\* Before an operation enters every read it depends on was granted, answered
\* and found good, no longer ago than evidence may be old; none comes after.
THEOREM PrerequisitesFirstAlways == Spec => []PrerequisitesFirst
<1>1. ChargeInv => PrerequisitesFirst
  BY DEF ChargeInv, RecordInv
<1> QED
  BY <1>1, ChargesAreApart, PTL

=============================================================================
