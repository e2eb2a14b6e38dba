---------------------------- MODULE GatewaySubmit ----------------------------
(***************************************************************************)
(* The gateway's submission of one metered effect, at most once: the       *)
(* ordered step machine (auths-gateway-kernel/src/order.rs, performed by   *)
(* auths-gateway/src/submit.rs), the attempt journal with its count, sum   *)
(* and allocation slots (store.rs, store/capacity.rs), the prerequisite    *)
(* and recovery reads kept in the same journal (store/acquisition.rs), and *)
(* the refinement of a source from a recovery read                         *)
(* (store/acquisition/recovery.rs).                                        *)
(*                                                                         *)
(* Several tasks, of one gateway process or of several, run submissions of *)
(* the same operations over one store.  The store's insert-all and         *)
(* fenced-replace are atomic; a call may take effect without its           *)
(* acknowledgement, and a task may stop anywhere.                          *)
(*                                                                         *)
(* A key is <<operation, 0>> for the operation's own record and            *)
(* <<operation, i>> for its i-th prerequisite read.  Time is counted in    *)
(* metering windows.                                                       *)
(***************************************************************************)
EXTENDS GatewayAttempt, Sequences, FiniteSets

Ext == INSTANCE FiniteSetsExt

CONSTANTS
  Op,               \* mutations
  Recovery,         \* recovery reads, operations of their own
  SourceOf,         \* recovery read -> the mutation it reads back
  Task,             \* concurrent submissions
  Counter,          \* count and sum counters of the installed policy
  Sums,             \* those that bound a sum rather than a count
  RowsOf,           \* counter -> how many rows it may have in one window
  CapacityOf,       \* sum counter -> the sum it admits in one window
  BoundOf,          \* operation -> the sequence of counters it is charged to
  Amount,           \* operation -> the amount its sum counters are charged
  Engagement,       \* ancestor engagements, counted over their lifetime
  CeilingOf,        \* engagement -> how many operations it admits
  EngagementOf,     \* key -> the sequence of engagements it is charged to
  Reads,            \* operation -> how many prerequisite reads it declares
  Checkpoints,      \* mutations that record what they read before entry
  ObservationOf,    \* mutation -> "None", "VerifiedLocator", "ResponseLocator"
  Echo,             \* mutations whose recipe declares a provider echo
  RecoveryAttempts, \* lifetime recovery reads of one mutation
  EntryDeadline,    \* how long after its start a submission may enter
  EvidenceAge,      \* how long after its grant a prerequisite read may be used
  RecoveryAge,      \* how long after its receipt a recovery read may be used
  Workload          \* bounded workloads: [offer, last, generations] records

VARIABLES
  load,     \* the workload of this behaviour: offer says which <<operation,
            \* binding>> each task may submit, last and generations bound the
            \* clock and the changes of the connection
  now,      \* the gateway clock
  conn,     \* the shared connection row: its generation, and whether active
  journal,  \* key -> {} or {view}
  slots,    \* the count, sum, allocation and engagement rows
  run,      \* the tasks
  sent,     \* key -> how many requests were sent for it
  air,      \* mutations sent and not yet decided by the provider
  applied   \* mutations the provider applied

vars == <<load, now, conn, journal, slots, run, sent, air, applied>>

Operation == Op \cup Recovery

Key == {<<o, 0>> : o \in Operation}
         \cup UNION {{<<o, i>> : i \in 1..Reads[o]} : o \in Operation}

ASSUME SubmitAssumption ==
  /\ Op \cap Recovery = {}
  /\ SourceOf \in [Recovery -> Op]
  /\ Reads \in [Operation -> Nat]
  /\ Sums \subseteq Counter
  /\ RowsOf \in [Counter -> Nat]
  /\ BoundOf \in [Operation -> Seq(Counter)]
  /\ Amount \in [Operation -> Nat]
  /\ CapacityOf \in [Sums -> Nat]
  /\ CeilingOf \in [Engagement -> Nat]
  /\ EngagementOf \in [Key -> Seq(Engagement)]
  /\ {RecoveryAttempts, EntryDeadline, EvidenceAge, RecoveryAge} \subseteq Nat
  /\ \A w \in Workload :
       /\ w.last \in Nat /\ w.generations \in Nat \ {0}
       /\ \A t \in Task : \A f \in w.offer[t] : f[1] \in Operation

IsMutation(k) == k[1] \in Op /\ k[2] = 0
IsPrerequisite(k) == k[2] > 0
IsRecovery(k) == k[1] \in Recovery /\ k[2] = 0

provider_link(o) ==
  IF o \notin Echo \/ ObservationOf[o] = "None" THEN "None"
  ELSE IF ObservationOf[o] = "VerifiedLocator" THEN "Verified" ELSE "AfterResponse"

(***************************************************************************)
(* What a key is charged to, in the order the rows are inserted: the       *)
(* lifetime allocation of a read (one row for a prerequisite,              *)
(* RecoveryAttempts for the reads of one source), the windowed counters of *)
(* its bound, the ancestor engagements.  A row of a lifetime counter       *)
(* belongs to no window and never expires.                                 *)
(***************************************************************************)
Allocation(k) == <<"allocation", IF IsRecovery(k) THEN <<SourceOf[k[1]], 0>> ELSE k>>

Protocol_counters(k) ==
  LET metered == [i \in 1..Len(BoundOf[k[1]]) |-> <<"metered", BoundOf[k[1]][i]>>]
  IN CASE IsMutation(k) -> metered
       [] IsPrerequisite(k) -> <<Allocation(k)>>
       [] OTHER -> <<Allocation(k)>> \o metered

CountersOf(k) ==
  Protocol_counters(k)
    \o [i \in 1..Len(EngagementOf[k]) |-> <<"engagement", EngagementOf[k][i]>>]

IsSum(c) == c[1] = "metered" /\ c[2] \in Sums

Rows(c) ==
  CASE c[1] = "metered" -> RowsOf[c[2]]
    [] c[1] = "engagement" -> CeilingOf[c[2]]
    [] OTHER -> IF c[2][2] > 0 THEN 1 ELSE RecoveryAttempts

WindowOf(c, at) == IF c[1] = "metered" THEN at ELSE 0

Row(c, w, s) == {r \in slots : r.counter = c /\ r.window = w /\ r.slot = s}

cumulative(c, w, s) == (CHOOSE r \in Row(c, w, s) : TRUE).cumulative

(***************************************************************************)
(* Journal records, and the tasks.  A task holds the exact record it last  *)
(* read or wrote under the operation's own key (own) and under the key of  *)
(* the prerequisite it is acquiring (lent).                                *)
(***************************************************************************)
\* A claim stored as excluded without its refusal.
FaultyClaimRecord(k, binding, stage, charged) ==
  [protocol |-> IF IsMutation(k) THEN "Mutation" ELSE "Acquisition",
   revision |-> 1, stage |-> stage, refusal |-> FALSE,
   fixed |-> [binding |-> binding, charged |-> charged],
   entry |-> {}, pre_entry |-> {}, response |-> {}, locator |-> {},
   acknowledgement |-> {}, reading |-> "None", evidence |-> FALSE,
   observation |-> (IsMutation(k) /\ ObservationOf[k[1]] # "None"),
   link |-> IF IsMutation(k) THEN provider_link(k[1]) ELSE "None"]

claim_record(k, binding, stage, charged) ==
  [protocol |-> IF IsMutation(k) THEN "Mutation" ELSE "Acquisition",
   revision |-> 1, stage |-> stage, refusal |-> (stage = "NotEntered"),
   fixed |-> [binding |-> binding, charged |-> charged],
   entry |-> {}, pre_entry |-> {}, response |-> {}, locator |-> {},
   acknowledgement |-> {}, reading |-> "None", evidence |-> FALSE,
   observation |-> (IsMutation(k) /\ ObservationOf[k[1]] # "None"),
   link |-> IF IsMutation(k) THEN provider_link(k[1]) ELSE "None"]

Idle == [phase |-> "Idle", op |-> "none", read |-> 0, binding |-> "none", at |-> 0,
         conn |-> [generation |-> 0, active |-> FALSE], candidate |-> <<>>,
         own |-> {}, lent |-> {}, answer |-> {}]

Phase(t) == run[t].phase
KeyOf(t) == <<run[t].op, run[t].read>>
Held(t) == IF run[t].read = 0 THEN run[t].own ELSE run[t].lent

Become(t, task) == run' = [run EXCEPT ![t] = task]
Stop(t) == Become(t, Idle)
Go(t, phase) == Become(t, [run[t] EXCEPT !.phase = phase])

\* The task goes on to `phase` holding the record `held` of its current key.
Hold(t, phase, held) ==
  Become(t, IF run[t].read = 0 THEN [run[t] EXCEPT !.phase = phase, !.own = held]
                               ELSE [run[t] EXCEPT !.phase = phase, !.lent = held])

\* A write that does not compare what is stored.
FaultyUnchanged(t) == Held(t) # {}

\* The store still has exactly the record the task holds.
Unchanged(t) == Held(t) # {} /\ journal[KeyOf(t)] = Held(t)

Advanced(v, stage) == [v EXCEPT !.revision = @ + 1, !.stage = stage]

(***************************************************************************)
(* The write fence: current connection bytes and the entry deadline        *)
(* (entry.rs), and for a read the record it is made for                    *)
(* (store/acquisition.rs, eligible_source).                                *)
(***************************************************************************)
EntryValid(t) ==
  /\ conn = run[t].conn
  /\ conn.active
  /\ now <= run[t].at + EntryDeadline

recovery_target(v, o) ==
  /\ v.stage \in {"EntryGranted", "Unknown", "ResponseRecorded"}
  /\ \/ ObservationOf[o] = "VerifiedLocator"
     \/ ObservationOf[o] = "ResponseLocator" /\ ~absent(v.locator)

eligible_source(k, binding) ==
  /\ IsPrerequisite(k) =>
       \E v \in journal[<<k[1], 0>>] :
         v.stage = "Reserved" /\ absent(v.entry) /\ v.fixed.binding = binding
  /\ IsRecovery(k) =>
       \E v \in journal[<<SourceOf[k[1]], 0>>] : recovery_target(v, SourceOf[k[1]])

\* The entry of a read keeps the record it was granted for.
SourceStage(k) ==
  IF IsRecovery(k) THEN (CHOOSE v \in journal[<<SourceOf[k[1]], 0>>] : TRUE).stage ELSE "None"

\* A recorded prerequisite answer that may still be used.
Evidence(k, binding) ==
  UNION {IF /\ v.stage = "ResponseRecorded" /\ v.fixed.binding = binding
            /\ \A e \in v.entry : now <= e.at + EvidenceAge
         THEN {r.value : r \in v.response} ELSE {} : v \in journal[k]}

\* A grant that does not look at which window its rows belong to.
FaultyReservations(t, v) ==
  \A c \in v.fixed.charged : \E r \in Row(c.counter, c.window, c.slot) : r.claim = KeyOf(t)

validate_reservations(t, v) ==
  \A c \in v.fixed.charged :
    /\ c.window = WindowOf(c.counter, now)
    /\ \E r \in Row(c.counter, c.window, c.slot) : r.claim = KeyOf(t)

\* A grant that trusts the reads made before it.
FaultyPrerequisites(t) == TRUE

validate_prerequisites(t) ==
  run[t].read = 0 =>
    \A i \in 1..Reads[run[t].op] : "good" \in Evidence(<<run[t].op, i>>, run[t].binding)

(***************************************************************************)
(* Before the claim: a submission whose operation already has a final      *)
(* record gets that record back; otherwise the clock is read, the effect   *)
(* verified and admitted, and the connection prepared.                     *)
(***************************************************************************)
Begin(t, o, b) ==
  /\ Phase(t) = "Idle"
  /\ \A v \in journal[<<o, 0>>] : v.fixed.binding # b \/ v.stage = "Reserved"
  /\ conn.active
  /\ Become(t, [Idle EXCEPT !.phase = "Lookup", !.op = o, !.binding = b,
                            !.at = now, !.conn = conn])
  /\ UNCHANGED <<load, now, conn, journal, slots, sent, air, applied>>

(***************************************************************************)
(* The claim.  History comes first: a reserved record of the same binding  *)
(* is reopened, any other record is only reported.                         *)
(***************************************************************************)
\* After read number i is in hand: the next prerequisite, or entry.
AfterRead(t, i) ==
  IF i < Reads[run[t].op]
    THEN [run[t] EXCEPT !.phase = "Lookup", !.read = i + 1, !.lent = {}, !.candidate = <<>>]
    ELSE [run[t] EXCEPT !.read = 0, !.lent = {},
                        !.phase = CASE run[t].op \in Recovery -> "Grant"
                                    [] run[t].op \in Checkpoints -> "Checkpoint"
                                    [] OTHER -> "Enter"]

AfterClaim(t) == IF run[t].read > 0 THEN "Grant" ELSE "Reload"

Lookup(t) ==
  LET k == KeyOf(t) IN
  /\ Phase(t) = "Lookup"
  /\ IF journal[k] = {} THEN Become(t, [run[t] EXCEPT !.phase = "Search", !.candidate = <<>>])
     ELSE IF \E v \in journal[k] : v.stage = "Reserved" /\ v.fixed.binding = run[t].binding
       THEN Hold(t, AfterClaim(t), journal[k])
     ELSE IF IsPrerequisite(k) THEN Go(t, "Evidence") ELSE Stop(t)
  /\ UNCHANGED <<load, now, conn, journal, slots, sent, air, applied>>

(***************************************************************************)
(* The candidate: for each counter the first free row, found outside the   *)
(* lock by a search over the occupied prefix, and for a sum the total so   *)
(* far.  A read's allocation is tried from its first row on.               *)
(***************************************************************************)
frontier(c, w) ==
  IF c[1] = "allocation" THEN {0}
  ELSE {s \in 0..Rows(c) : /\ s = Rows(c) \/ Row(c, w, s) = {}
                           /\ s = 0 \/ Row(c, w, s - 1) # {}}

\* An off-by-one at the last row.
FaultyRefusal(t) ==
  /\ Len(run[t].candidate) >= Len(Protocol_counters(KeyOf(t)))
  /\ \E n \in 1..Len(Protocol_counters(KeyOf(t))) :
       LET c == CountersOf(KeyOf(t))[n]
           e == run[t].candidate[n]
       IN \/ e.slot > Rows(c)
          \/ IsSum(c) /\ e.total + Amount[run[t].op] > CapacityOf[c[2]]

\* The protocol's own counters have no room: the claim is to be excluded.
refusal(t) ==
  /\ Len(run[t].candidate) >= Len(Protocol_counters(KeyOf(t)))
  /\ \E n \in 1..Len(Protocol_counters(KeyOf(t))) :
       LET c == CountersOf(KeyOf(t))[n]
           e == run[t].candidate[n]
       IN \/ e.slot >= Rows(c)
          \/ IsSum(c) /\ e.total + Amount[run[t].op] > CapacityOf[c[2]]

Search(t) ==
  LET k == KeyOf(t)
      n == Len(run[t].candidate) + 1
      c == CountersOf(k)[n]
      w == WindowOf(c, run[t].at)
  IN /\ Phase(t) = "Search"
     /\ n <= Len(CountersOf(k))
     /\ ~refusal(t)
     /\ \E s \in frontier(c, w) :
          LET total == IF IsSum(c) /\ s > 0 THEN cumulative(c, w, s - 1) ELSE 0
          IN IF c[1] = "engagement" /\ s = Rows(c)
               THEN IF journal[k] # {} THEN Go(t, "Lookup") ELSE Stop(t)
               ELSE Become(t, [run[t] EXCEPT !.candidate = Append(@, [slot |-> s, total |-> total])])
     /\ UNCHANGED <<load, now, conn, journal, slots, sent, air, applied>>

Searched(t) ==
  Phase(t) = "Search" /\ (Len(run[t].candidate) = Len(CountersOf(KeyOf(t))) \/ refusal(t))

CandidateRow(t, n) ==
  LET c == CountersOf(KeyOf(t))[n]
      e == run[t].candidate[n]
      a == IF IsSum(c) THEN Amount[run[t].op] ELSE 0
  IN [counter |-> c, window |-> WindowOf(c, run[t].at), slot |-> e.slot,
      claim |-> KeyOf(t), amount |-> a, cumulative |-> e.total + a]

Batch(t) == {CandidateRow(t, n) : n \in 1..Len(CountersOf(KeyOf(t)))}

Occupied(t) ==
  {n \in 1..Len(CountersOf(KeyOf(t))) :
     LET r == CandidateRow(t, n) IN Row(r.counter, r.window, r.slot) # {}}

\* The row before a sum's candidate still holds the total it was computed from.
validate_predecessors(t) ==
  \A r \in Batch(t) :
    IsSum(r.counter) /\ r.slot > 0 =>
      /\ Row(r.counter, r.window, r.slot - 1) # {}
      /\ cumulative(r.counter, r.window, r.slot - 1) + r.amount = r.cumulative

\* A collision that does not move past the occupied row.
FaultyAdvance(t, n) ==
  [i \in 1..Len(Protocol_counters(KeyOf(t))) |-> run[t].candidate[i]]

\* The candidate after the row at position n was found occupied: a protocol
\* counter moves past it, and the engagements are searched again.
advance(t, n) ==
  LET k == KeyOf(t)
      c == CountersOf(k)[n]
      e == run[t].candidate[n]
      total == IF IsSum(c) THEN cumulative(c, WindowOf(c, run[t].at), e.slot) ELSE 0
  IN [i \in 1..Len(Protocol_counters(k)) |->
        IF i = n THEN [slot |-> e.slot + 1, total |-> total] ELSE run[t].candidate[i]]

(***************************************************************************)
(* One insertion under the lock.  Existing rows are reported before        *)
(* anything else is looked at; then the fence decides; then the claim and  *)
(* every row it is charged to are stored together, or none.  A claim that  *)
(* found no room is stored alone, as excluded.                             *)
(***************************************************************************)
Insert(t) ==
  LET k == KeyOf(t)
      b == run[t].binding
      charged == {[counter |-> r.counter, window |-> r.window, slot |-> r.slot] : r \in Batch(t)}
      fenced == EntryValid(t) /\ eligible_source(k, b)
  IN /\ Searched(t)
     /\ \/ /\ journal[k] # {}
           /\ Go(t, "Lookup")
           /\ UNCHANGED <<journal, slots>>
        \/ /\ journal[k] = {} /\ refusal(t)
           /\ journal' = IF fenced
                THEN [journal EXCEPT ![k] = {claim_record(k, b, "NotEntered", {})}]
                ELSE journal
           /\ IF fenced /\ IsPrerequisite(k) THEN Go(t, "Evidence") ELSE Stop(t)
           /\ UNCHANGED slots
        \/ /\ journal[k] = {} /\ ~refusal(t)
           /\ \E n \in Occupied(t) :
                /\ \A m \in Occupied(t) : n <= m
                /\ Become(t, [run[t] EXCEPT !.candidate = advance(t, n)])
           /\ UNCHANGED <<journal, slots>>
        \/ /\ journal[k] = {} /\ ~refusal(t) /\ Occupied(t) = {}
           /\ IF fenced /\ validate_predecessors(t)
                THEN LET v == {claim_record(k, b, "Reserved", charged)}
                     IN /\ journal' = [journal EXCEPT ![k] = v]
                        /\ slots' = slots \cup Batch(t)
                        /\ Hold(t, AfterClaim(t), v)
                ELSE Stop(t) /\ UNCHANGED <<journal, slots>>
     /\ UNCHANGED <<load, now, conn, sent, air, applied>>

(***************************************************************************)
(* After the claim: the connection is reloaded and the credential leased,  *)
(* then each prerequisite is read through the same journal, once per       *)
(* operation.  A refusal is recorded; a read that did not resolve is not,  *)
(* so that another task's valid read is not poisoned.                      *)
(***************************************************************************)
Reload(t) ==
  /\ Phase(t) = "Reload"
  /\ \/ /\ run[t].op \in Op => conn = run[t].conn
        /\ Become(t, AfterRead(t, 0))
     \/ IF run[t].op \in Op THEN Go(t, "Refuse") ELSE Stop(t)
  /\ UNCHANGED <<load, now, conn, journal, slots, sent, air, applied>>

ReadEvidence(t) ==
  LET found == Evidence(KeyOf(t), run[t].binding) IN
  /\ Phase(t) = "Evidence"
  /\ IF "good" \in found THEN Become(t, AfterRead(t, run[t].read))
     ELSE IF found # {} /\ run[t].op \in Op
       THEN Become(t, [run[t] EXCEPT !.phase = "Refuse", !.read = 0, !.lent = {}])
       ELSE Stop(t)
  /\ UNCHANGED <<load, now, conn, journal, slots, sent, air, applied>>

record_checkpoint(t) ==
  LET v == CHOOSE v \in Held(t) : TRUE
      new == [Advanced(v, v.stage) EXCEPT !.pre_entry = {"read"}]
  IN /\ Phase(t) = "Checkpoint"
     /\ IF ~absent(v.pre_entry) THEN Go(t, "Enter") /\ UNCHANGED journal
        ELSE IF Unchanged(t) /\ valid_transition(v, new)
          THEN /\ journal' = [journal EXCEPT ![KeyOf(t)] = {new}]
               /\ Hold(t, "Enter", {new})
          ELSE Stop(t) /\ UNCHANGED journal
     /\ UNCHANGED <<load, now, conn, slots, sent, air, applied>>

\* A refusal written over whatever is stored.
FaultyNotEntered(t) ==
  LET v == CHOOSE v \in Held(t) : TRUE IN
  /\ Phase(t) = "Refuse"
  /\ Stop(t)
  /\ journal' = [journal EXCEPT ![KeyOf(t)] = {[Advanced(v, "NotEntered") EXCEPT !.refusal = TRUE]}]
  /\ UNCHANGED <<load, now, conn, slots, sent, air, applied>>

\* A refusal keeps what was read before it, or adds it.
NotEntered(v, read) ==
  [Advanced(v, "NotEntered") EXCEPT
     !.refusal = TRUE, !.pre_entry = IF absent(v.pre_entry) THEN read ELSE v.pre_entry]

record_not_entered(t) ==
  LET v == CHOOSE v \in Held(t) : TRUE IN
  /\ Phase(t) = "Refuse"
  /\ Stop(t)
  /\ \E p \in {v.pre_entry} \cup IF run[t].op \in Checkpoints THEN {{"read"}} ELSE {} :
       journal' = IF Unchanged(t) /\ valid_transition(v, NotEntered(v, p))
                    THEN [journal EXCEPT ![KeyOf(t)] = {NotEntered(v, p)}] ELSE journal
  /\ UNCHANGED <<load, now, conn, slots, sent, air, applied>>

(***************************************************************************)
(* Entry: the connection is reloaded and the deadline checked, then the    *)
(* grant is stored under the lock with every fact it rests on checked      *)
(* again.  Only the task whose grant was acknowledged holds a permit.      *)
(***************************************************************************)
Enter(t) ==
  /\ Phase(t) = "Enter"
  /\ \/ /\ conn = run[t].conn
        /\ now <= run[t].at + EntryDeadline
        /\ Go(t, "Grant")
     \/ Go(t, "Refuse")
  /\ UNCHANGED <<load, now, conn, journal, slots, sent, air, applied>>

\* A grant whose permit does not wait for the store's acknowledgement.
FaultyGrant(t) ==
  LET k == KeyOf(t)
      v == CHOOSE v \in Held(t) : TRUE
      new == [Advanced(v, "EntryGranted") EXCEPT
                !.entry = {[at |-> now, generation |-> conn.generation,
                            source |-> SourceStage(k)]}]
  IN /\ Phase(t) = "Grant"
     /\ IF Unchanged(t) /\ EntryValid(t) /\ eligible_source(k, run[t].binding)
             /\ validate_prerequisites(t)
        THEN journal' = [journal EXCEPT ![k] = {new}] /\ Hold(t, "Send", {new})
        ELSE Go(t, "Send") /\ UNCHANGED journal
     /\ UNCHANGED <<load, now, conn, slots, sent, air, applied>>

grant_entry(t) ==
  LET k == KeyOf(t)
      v == CHOOSE v \in Held(t) : TRUE
      new == [Advanced(v, "EntryGranted") EXCEPT
                !.entry = {[at |-> now, generation |-> conn.generation,
                            source |-> SourceStage(k)]}]
  IN /\ Phase(t) = "Grant"
     /\ IF /\ Unchanged(t)
           /\ v.stage = "Reserved" /\ v.fixed.binding = run[t].binding
           /\ EntryValid(t)
           /\ eligible_source(k, run[t].binding)
           /\ validate_reservations(t, v)
           /\ validate_prerequisites(t)
           /\ valid_transition(v, new)
        THEN journal' = [journal EXCEPT ![k] = {new}] /\ Hold(t, "Send", {new})
        ELSE Stop(t) /\ UNCHANGED journal
     /\ UNCHANGED <<load, now, conn, slots, sent, air, applied>>

\* The permit is consumed and the request goes out.
Send(t) ==
  LET k == KeyOf(t) IN
  /\ Phase(t) = "Send"
  /\ sent' = [sent EXCEPT ![k] = @ + 1]
  /\ air' = IF IsMutation(k) THEN air \cup {k[1]} ELSE air
  /\ Go(t, "Await")
  /\ UNCHANGED <<load, now, conn, journal, slots, applied>>

\* The permit is consumed and the transport refuses before any request leaves:
\* the lease has expired, or the request cannot be built.  The submission takes
\* that for no complete response.
RefuseSend(t) ==
  /\ Phase(t) = "Send"
  /\ Go(t, "Unsent")
  /\ UNCHANGED <<load, now, conn, journal, slots, sent, air, applied>>

(***************************************************************************)
(* The provider.  A mutation in the air is applied or lost, at any time.   *)
(* A read answers from the provider's state when it is answered: an echo   *)
(* matches only if the mutation it names was applied.                      *)
(***************************************************************************)
Apply(o) ==
  /\ o \in air
  /\ air' = air \ {o}
  /\ applied' = applied \cup {o}
  /\ UNCHANGED <<load, now, conn, journal, slots, run, sent>>

Lose(o) ==
  /\ o \in air
  /\ air' = air \ {o}
  /\ UNCHANGED <<load, now, conn, journal, slots, run, sent, applied>>

Answers(k) ==
  CASE IsMutation(k) -> {"error"} \cup IF k[1] \in applied THEN {"done"} ELSE {}
    [] IsPrerequisite(k) -> {"good", "bad"}
    [] OTHER -> IF SourceOf[k[1]] \notin Echo THEN {"match", "mismatch"}
                ELSE IF SourceOf[k[1]] \in applied THEN {"match"} ELSE {"mismatch"}

Answer(t) ==
  /\ Phase(t) = "Await"
  /\ IsMutation(KeyOf(t)) => run[t].op \notin air
  /\ \E value \in Answers(KeyOf(t)) :
       Become(t, [run[t] EXCEPT !.phase = "Record", !.answer = {[value |-> value, at |-> now]}])
  /\ UNCHANGED <<load, now, conn, journal, slots, sent, air, applied>>

\* The transport gave no complete response.
Timeout(t) ==
  /\ Phase(t) = "Await"
  /\ Go(t, "Record")
  /\ UNCHANGED <<load, now, conn, journal, slots, sent, air, applied>>

Recorded(t, v) ==
  LET located == /\ IsMutation(KeyOf(t)) /\ ObservationOf[run[t].op] = "ResponseLocator"
                 /\ \E r \in run[t].answer : r.value = "done"
  IN IF run[t].answer = {} THEN Advanced(v, "Unknown")
     ELSE [Advanced(v, "ResponseRecorded") EXCEPT
             !.response = run[t].answer, !.locator = IF located THEN {"id"} ELSE {}]

record_response(t) ==
  LET v == CHOOSE v \in Held(t) : TRUE
      stored == Unchanged(t) /\ valid_transition(v, Recorded(t, v))
  IN /\ Phase(t) \in {"Record", "Unsent"}
     /\ journal' = IF stored THEN [journal EXCEPT ![KeyOf(t)] = {Recorded(t, v)}] ELSE journal
     /\ IF stored /\ IsPrerequisite(KeyOf(t)) /\ run[t].answer # {}
          THEN Become(t, [run[t] EXCEPT !.phase = "Evidence", !.answer = {}])
          ELSE Stop(t)
     /\ UNCHANGED <<load, now, conn, slots, sent, air, applied>>

(***************************************************************************)
(* A recorded recovery read refines its source, under the lock and without *)
(* any request.  A reading that does not match is recorded only beside a   *)
(* recorded response.                                                      *)
(***************************************************************************)
refinement(v, o, answer) ==
  CASE o \in Echo /\ answer = "match" ->
         [Advanced(v, "ObservedByProvider") EXCEPT !.evidence = TRUE]
    [] OTHER ->
         [Advanced(v, "Observed") EXCEPT
            !.reading = CASE answer = "match" -> "Match"
                          [] o \in Echo -> "EchoMismatch"
                          [] OTHER -> "Mismatch"]

refine_recovery(r) ==
  LET o == SourceOf[r]
      k == <<o, 0>>
  IN \E v \in journal[k], read \in journal[<<r, 0>>] : \E answer \in read.response :
       LET new == refinement(v, o, answer.value) IN
       /\ recovery_target(v, o)
       /\ now <= answer.at + RecoveryAge
       /\ ~absent(v.response)
            \/ (new.stage = "ObservedByProvider" /\ resolves_unknown(v.link))
       /\ valid_transition(v, new)
       /\ journal' = [journal EXCEPT ![k] = {new}]
       /\ UNCHANGED <<load, now, conn, slots, run, sent, air, applied>>

(***************************************************************************)
(* Surroundings.  A task may stop anywhere: its process dies, the store    *)
(* does not answer or its acknowledgement is lost, the authority lapses.   *)
(* Rows of a window are deleted once the window after it has ended.  The   *)
(* connection is changed by its administrators (GatewayConnection).        *)
(***************************************************************************)
Halt(t) ==
  /\ Phase(t) # "Idle"
  /\ Stop(t)
  /\ UNCHANGED <<load, now, conn, journal, slots, sent, air, applied>>

Tick ==
  /\ now < load.last
  /\ now' = now + 1
  /\ UNCHANGED <<load, conn, journal, slots, run, sent, air, applied>>

\* Rows deleted as soon as their window has ended.
FaultyExpired(r) == r.counter[1] = "metered" /\ now >= r.window + 1

Expired(r) == r.counter[1] = "metered" /\ now >= r.window + 2

sweep_expired ==
  /\ \E r \in slots : Expired(r) /\ slots' = slots \ {r}
  /\ UNCHANGED <<load, now, conn, journal, run, sent, air, applied>>

ConnectionChange ==
  /\ conn.generation < load.generations
  /\ \E active \in BOOLEAN : conn' = [generation |-> conn.generation + 1, active |-> active]
  /\ UNCHANGED <<load, now, journal, slots, run, sent, air, applied>>

Init ==
  /\ load \in Workload
  /\ now = 0
  /\ conn = [generation |-> 1, active |-> TRUE]
  /\ journal = [k \in Key |-> {}]
  /\ slots = {}
  /\ run = [t \in Task |-> Idle]
  /\ sent = [k \in Key |-> 0]
  /\ air = {}
  /\ applied = {}

\* One step of the code a task is running.
Step(t) ==
  \/ Lookup(t) \/ Search(t) \/ Insert(t) \/ Reload(t) \/ ReadEvidence(t)
  \/ record_checkpoint(t) \/ record_not_entered(t) \/ Enter(t) \/ grant_entry(t)
  \/ Send(t) \/ RefuseSend(t) \/ Answer(t) \/ Timeout(t) \/ record_response(t)

Next ==
  \/ \E t \in Task : Step(t) \/ Halt(t) \/ \E f \in load.offer[t] : Begin(t, f[1], f[2])
  \/ \E o \in Op : Apply(o) \/ Lose(o)
  \/ \E r \in Recovery : refine_recovery(r)
  \/ Tick \/ sweep_expired \/ ConnectionChange

Spec == Init /\ [][Next]_vars

FairSpec == Spec /\ \A t \in Task : WF_vars(Step(t))

-----------------------------------------------------------------------------
(***************************************************************************)
(* Properties.                                                             *)
(***************************************************************************)
RowType ==
  [counter : UNION {{CountersOf(k)[n] : n \in 1..Len(CountersOf(k))} : k \in Key},
   window : 0..load.last, slot : Nat, claim : Key, amount : Nat, cumulative : Nat]

\* Every record the journal holds is one the transition rule accepts as
\* consistent, there is at most one under a key, and rows and tasks are well
\* formed.
SubmitTypeOK ==
  /\ load \in Workload /\ now \in 0..load.last
  /\ conn \in [generation : 1..load.generations, active : BOOLEAN]
  /\ \A k \in Key : \A v, u \in journal[k] : u = v /\ consistent(v)
  /\ slots \subseteq RowType
  /\ \A t \in Task : Phase(t) # "Idle" => KeyOf(t) \in Key
  /\ sent \in [Key -> Nat]
  /\ air \subseteq Op /\ applied \subseteq Op

\* However many tasks reopen the same reservation, and wherever they stop, at
\* most one request is ever sent for a key, mutation or read.
AtMostOneSend == \A k \in Key : sent[k] <= 1

StageIs(k, stages) == \E v \in journal[k] : v.stage \in stages

\* What the journal says of a key is what happened: nothing was sent for one
\* that is absent, reserved or excluded; exactly one request was sent for one
\* with a response or an observation; an effect observed by the provider took
\* place.  An unknown outcome says neither: the transport may have refused.
JournalTellsTruth ==
  \A k \in Key :
    /\ journal[k] = {} \/ StageIs(k, {"Reserved", "NotEntered"}) => sent[k] = 0
    /\ StageIs(k, {"ResponseRecorded", "Observed", "ObservedByProvider"}) => sent[k] = 1
    /\ StageIs(k, {"ObservedByProvider"}) => k[1] \in applied

EnteredAt(k) == UNION {{e.at : e \in v.entry} : v \in journal[k]}
Entered(k) == EnteredAt(k) # {}

ChargedTo(c) ==
  {k \in Key : \E n \in 1..Len(CountersOf(k)) : CountersOf(k)[n] = c}

\* The sum of amount[x] over the members x of S.
Total(amount, S) == Ext!FoldSet(LAMBDA x, sum : amount[x] + sum, 0, S)

\* In no window do the operations entered in it exceed the count or the sum
\* of a counter they are charged to, although rows are chosen outside the
\* lock, reservations outlive their window and old rows are deleted.
WindowCapacity ==
  \A c \in Counter, w \in 0..now :
    LET S == {k \in ChargedTo(<<"metered", c>>) : w \in EnteredAt(k)}
    IN /\ Cardinality(S) <= RowsOf[c]
       /\ c \in Sums => Total([k \in Key |-> Amount[k[1]]], S) <= CapacityOf[c]

\* Over its lifetime no engagement admits more operations than its ceiling,
\* and no mutation more recovery reads than its allocation.
LifetimeCapacity ==
  /\ \A e \in Engagement :
       Cardinality({k \in ChargedTo(<<"engagement", e>>) : Entered(k)}) <= CeilingOf[e]
  /\ \A o \in Op :
       Cardinality({r \in Recovery : SourceOf[r] = o /\ Entered(<<r, 0>>)}) <= RecoveryAttempts

Current(r) == r.window + 2 > now \/ r.counter[1] # "metered"

\* The rows of a window not yet expired are an exact ledger of its claims: a
\* gapless prefix, each total the sum of the amounts up to it, and a row for
\* exactly the counters its claim says it is charged to, all of them or none.
LedgerExact ==
  LET rows == {r \in slots : Current(r)} IN
  /\ \A r \in rows :
       LET upto == {q \in rows : q.counter = r.counter /\ q.window = r.window /\ q.slot <= r.slot}
       IN /\ {q.slot : q \in upto} = 0..r.slot
          /\ Cardinality(upto) = r.slot + 1
          /\ IsSum(r.counter) =>
               r.cumulative = Total([q \in slots |-> q.amount], upto)
          /\ \E v \in journal[r.claim] :
               [counter |-> r.counter, window |-> r.window, slot |-> r.slot] \in v.fixed.charged
  /\ \A k \in Key : \A v \in journal[k] :
       /\ \A c \in v.fixed.charged : Current(c) => Row(c.counter, c.window, c.slot) # {}
       /\ {c.counter : c \in v.fixed.charged}
            \in {{}, {CountersOf(k)[n] : n \in 1..Len(CountersOf(k))}}

\* An operation that entered had every prerequisite read answered, to its
\* satisfaction, before it entered, by a read granted no longer ago than the
\* evidence may be old, and no read is granted for it afterwards.
PrerequisitesFirst ==
  \A o \in Operation : \A at \in EnteredAt(<<o, 0>>) : \A i \in 1..Reads[o] :
    /\ StageIs(<<o, i>>, {"ResponseRecorded"})
    /\ \A v \in journal[<<o, i>>] : \A r \in v.response : r.value = "good" /\ r.at <= at
    /\ \A e \in EnteredAt(<<o, i>>) : e <= at /\ at <= e + EvidenceAge

\* Every submission comes to an end: no sequence of collisions, replays and
\* conflicts with other tasks keeps one going for ever.
SubmissionEnds == \A t \in Task : (Phase(t) # "Idle") ~> (Phase(t) = "Idle")

\* "A re-observation records only positive evidence [...], so it may run while
\* the original attempt is in flight": a mutation recorded as not matching was
\* contradicted by a read granted when it was in flight no more.
InFlightReadsArePositive ==
  \A o \in Op : \A v \in journal[<<o, 0>>] :
    v.reading \in {"Mismatch", "EchoMismatch"} =>
      \E q \in Recovery : SourceOf[q] = o /\ \E u \in journal[<<q, 0>>] :
        /\ \A e \in u.entry : e.source # "EntryGranted"
        /\ \E answer \in u.response : answer.value = "mismatch"

(***************************************************************************)
(* The abstract gate, and what the journal says of it.                     *)
(***************************************************************************)
StatusOf(k) ==
  CASE journal[k] = {} -> "free"
    [] StageIs(k, {"Reserved"}) -> "reserved"
    [] StageIs(k, {"NotEntered"}) -> "excluded"
    [] StageIs(k, {"EntryGranted"}) -> "entered"
    [] StageIs(k, {"Unknown"}) -> "unknown"
    [] OTHER -> "recorded"

Gate == INSTANCE EffectGate WITH
          Effect <- Key, status <- [k \in Key |-> StatusOf(k)], invoked <- sent

\* Every step of the gateway is a step of the abstract gate, or none: each
\* mutation and each read is sent at most once, only after its entry was stored
\* and never after its outcome was, and its record never takes back what it said.
ImplementsGate == Gate!GateSpec
=============================================================================
