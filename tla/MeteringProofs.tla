--------------------------- MODULE MeteringProofs ---------------------------
(***************************************************************************)
(* What the gateway's counters admit (GatewaySubmit): the rows of a window *)
(* not yet expired are an exact ledger of the claims charged to it, and    *)
(* neither the number of the operations that entered in a window nor the   *)
(* sum of their amounts exceeds the counter.                               *)
(***************************************************************************)
EXTENDS GatewayProofs

Before(p, r) == p.counter = r.counter /\ p.window = r.window /\ p.slot = r.slot - 1

\* A row is the first of its window, or goes on from the row before it.
Follows(r) ==
  \/ r.slot = 0 /\ r.cumulative = r.amount
  \/ \E p \in slots : Before(p, r) /\ (IsSum(r.counter) => r.cumulative = p.cumulative + r.amount)

RowOK(r) ==
  /\ r.amount = IF IsSum(r.counter) THEN Amount[r.claim[1]] ELSE 0
  /\ IsSum(r.counter) => r.cumulative <= CapacityOf[r.counter[2]]
  /\ \E v \in journal[r.claim] : Place(r) \in v.fixed.charged
  /\ Current(r) => Follows(r)

OneRowPerPlace == \A r, q \in slots : Current(r) /\ Place(r) = Place(q) => r = q

\* A claim is charged to all of its counters or to none.
Whole(k, v) == {p.counter : p \in v.fixed.charged} \in {{}, CountersIn(k)}

RowsInv ==
  /\ \A r \in slots : RowOK(r)
  /\ OneRowPerPlace
  /\ \A k \in Key : \A v \in journal[k] : Whole(k, v)

\* What a search has found so far: the row before the candidate stays taken
\* while its window lasts.
EntryFollows(c, w, e) ==
  /\ (e.slot = 0 \/ ~IsSum(c)) => e.total = 0
  /\ e.slot > 0 /\ Current([counter |-> c, window |-> w]) => Row(c, w, e.slot - 1) # {}

CandidateFollows(x) ==
  x.phase = "Search" =>
    \A n \in 1..Len(x.candidate) :
      LET c == CountersOf(<<x.op, x.read>>)[n]
      IN EntryFollows(c, WindowOf(c, x.at), x.candidate[n])

-----------------------------------------------------------------------------
(* Steps that insert no row *)

\* Time only takes rows out of the windows not yet expired.
LEMMA CurrentFacts ==
  ASSUME now \in Nat, now' \in Nat, now <= now', NEW r, r.window \in Nat, Current(r)'
  PROVE Current(r)
BY DEF Current

LEMMA RowShape ==
  ASSUME ChargeInv, NEW r \in slots
  PROVE /\ r.claim \in Key /\ r.window \in Nat /\ r.slot \in Nat
        /\ r.amount \in Nat /\ r.cumulative \in Nat
<1>1. r \in RowType /\ load.last \in Nat
  BY Zenon, WorldFacts DEF ChargeInv, WorldInv
<1>2. /\ r.claim \in Key /\ r.window \in 0..load.last /\ r.slot \in Nat
      /\ r.amount \in Nat /\ r.cumulative \in Nat
  BY Zenon, <1>1 DEF RowType
<1> QED BY <1>1, <1>2

\* Rows only go once their window has expired, and claims keep their charges.
LEMMA RowsKept ==
  ASSUME ChargeInv, RowsInv, now' \in Nat, now <= now', slots' \subseteq slots,
         \A r \in slots : Current(r) => r \in slots',
         \A k \in Key : \A v \in journal[k] : \E u \in journal'[k] : u.fixed = v.fixed,
         \A k \in Key : \A u \in journal'[k] :
           u.fixed.charged = {} \/ \E v \in journal[k] : u.fixed = v.fixed
  PROVE RowsInv'
<1>0. now \in Nat
  BY WorldFacts
<1>1. ASSUME NEW r \in slots' PROVE RowOK(r)'
  <2>1. r \in slots /\ RowOK(r)
    BY Zenon DEF RowsInv
  <2>2. /\ r.claim \in Key /\ r.window \in Nat
    BY Zenon, <2>1, RowShape
  <2>3. \E v \in journal'[r.claim] : Place(r) \in v.fixed.charged
    BY <2>1, <2>2 DEF RowOK
  <2>4. ASSUME Current(r)' PROVE Follows(r)'
    <3>1. Current(r) /\ Follows(r)
      BY Zenon, <1>0, <2>1, <2>2, <2>4, CurrentFacts DEF RowOK
    <3>2. CASE r.slot = 0 /\ r.cumulative = r.amount
      BY <3>2 DEF Follows
    <3>3. ASSUME NEW p \in slots, Before(p, r),
                 IsSum(r.counter) => r.cumulative = p.cumulative + r.amount
          PROVE Follows(r)'
      <4>1. Current(p)
        BY Zenon, <3>1, <3>3 DEF Current, Before
      <4> QED BY Zenon, <3>3, <4>1 DEF Follows, Before
    <3> QED BY <3>1, <3>2, <3>3 DEF Follows
  <2> QED BY Zenon, <2>1, <2>3, <2>4 DEF RowOK, Place
<1>2. OneRowPerPlace'
  <2> SUFFICES ASSUME NEW r \in slots', NEW q \in slots', Current(r)', Place(r) = Place(q)
               PROVE r = q
    BY Zenon DEF OneRowPerPlace, Place
  <2>1. Current(r)
    BY Zenon, <1>0, RowShape, CurrentFacts
  <2> QED BY Zenon, <2>1 DEF RowsInv, OneRowPerPlace
<1>3. ASSUME NEW k \in Key, NEW u \in journal'[k] PROVE Whole(k, u)'
  <2>1. CASE u.fixed.charged = {}
    BY <2>1 DEF Whole
  <2>2. ASSUME NEW v \in journal[k], u.fixed = v.fixed PROVE Whole(k, u)'
    BY Zenon, <2>2 DEF RowsInv, Whole
  <2> QED BY <2>1, <2>2
<1> QED BY Zenon, <1>1, <1>2, <1>3 DEF RowsInv

\* What a search has found stays so while its window lasts.
LEMMA EntryStays ==
  ASSUME ChargeInv, now' \in Nat, now <= now', \A r \in slots : Current(r) => r \in slots',
         NEW c, NEW w \in Nat, NEW e, EntryFollows(c, w, e)
  PROVE EntryFollows(c, w, e)'
<1> DEFINE p == [counter |-> c, window |-> w]
<1>1. p.counter = c /\ p.window = w
  OBVIOUS
<1> HIDE DEF p
<1>2. Current(p)' => Current(p)
  BY Zenon, <1>1, WorldFacts, CurrentFacts
<1>3. ASSUME e.slot > 0, Current(p), Row(c, w, e.slot - 1) # {} PROVE Row(c, w, e.slot - 1)' # {}
  <2>1. PICK r \in slots : r.counter = c /\ r.window = w /\ r.slot = e.slot - 1
    BY <1>3 DEF Row
  <2>2. Current(r)
    BY Zenon, <1>1, <1>3, <2>1 DEF Current
  <2>3. r \in slots'
    BY Zenon, <2>2
  <2> QED BY <2>1, <2>3 DEF Row
<1> QED BY Zenon, <1>2, <1>3 DEF EntryFollows, p

LEMMA CandidateStays ==
  ASSUME ChargeInv, now' \in Nat, now <= now', \A r \in slots : Current(r) => r \in slots',
         NEW x, x.at \in Nat, CandidateFollows(x)
  PROVE CandidateFollows(x)'
<1> SUFFICES ASSUME x.phase = "Search", NEW n \in 1..Len(x.candidate)
             PROVE LET c == CountersOf(<<x.op, x.read>>)[n]
                   IN EntryFollows(c, WindowOf(c, x.at), x.candidate[n])'
  BY Zenon DEF CandidateFollows
<1> DEFINE c == CountersOf(<<x.op, x.read>>)[n]
<1>1. EntryFollows(c, WindowOf(c, x.at), x.candidate[n])
  BY Zenon DEF CandidateFollows
<1> HIDE DEF c
<1>2. WindowOf(c, x.at) \in Nat
  BY DEF WindowOf
<1>3. EntryFollows(c, WindowOf(c, x.at), x.candidate[n])'
  BY Zenon, <1>1, <1>2, EntryStays
<1> QED BY Zenon, <1>3 DEF c

(***************************************************************************)
(* What a step makes of the candidate of the task that takes it.           *)
(***************************************************************************)
LEMMA Elsewhere ==
  ASSUME ChargeInv, NEW t \in Task,
         \/ \E phase : phase # "Search" /\ (Go(t, phase) \/ \E held : Hold(t, phase, held))
         \/ Stop(t) \/ \E i : Become(t, AfterRead(t, i))
  PROVE \E x : Become(t, x) /\ CandidateFollows(x)
<1>1. TaskShape(run[t])
  BY ShapeFacts
<1>2. ASSUME NEW phase, phase # "Search", Go(t, phase)
      PROVE \E x : Become(t, x) /\ CandidateFollows(x)
  <2>1. [run[t] EXCEPT !.phase = phase].phase = phase
    BY <1>1 DEF TaskShape
  <2> QED BY Zenon, <1>2, <2>1 DEF Go, CandidateFollows
<1>3. ASSUME NEW phase, phase # "Search", NEW held, Hold(t, phase, held)
      PROVE \E x : Become(t, x) /\ CandidateFollows(x)
  <2> DEFINE x == [run[t] EXCEPT !.phase = phase, !.own = held]
             y == [run[t] EXCEPT !.phase = phase, !.lent = held]
  <2>1. x.phase = phase /\ y.phase = phase
    BY Zenon, <1>1 DEF TaskShape
  <2>2. Become(t, x) \/ Become(t, y)
    BY Zenon, <1>3 DEF Hold
  <2> HIDE DEF x, y
  <2> QED BY Zenon, <1>3, <2>1, <2>2 DEF CandidateFollows
<1>4. CASE Stop(t)
  <2>1. Idle.phase # "Search"
    BY DEF Idle
  <2> QED BY Zenon, <1>4, <2>1 DEF Stop, CandidateFollows
<1>5. ASSUME NEW i, Become(t, AfterRead(t, i))
      PROVE \E x : Become(t, x) /\ CandidateFollows(x)
  <2>1. AfterRead(t, i).phase # "Search"
    BY Zenon, <1>1 DEF TaskShape, AfterRead
  <2> QED BY Zenon, <1>5, <2>1 DEF CandidateFollows
<1> QED BY Zenon, <1>2, <1>3, <1>4, <1>5

\* A search adds the first free row after an occupied prefix.
LEMMA SearchFollows ==
  ASSUME ChargeInv, NEW t \in Task, CandidateFollows(run[t]), Search(t)
  PROVE \E x : Become(t, x) /\ CandidateFollows(x)
<1> DEFINE k == KeyOf(t)
           old == run[t].candidate
           n == Len(old) + 1
           c == CountersOf(k)[n]
           w == WindowOf(c, run[t].at)
<1>1. Phase(t) = "Search" /\ n <= Len(CountersOf(k))
  BY DEF Search
<1>2. k \in Key
  BY <1>1, TaskFacts DEF ChargeInv, KeyOf
<1>3. old \in Seq([slot : Nat, total : Nat])
  BY Zenon, <1>1 DEF ChargeInv, TaskDated, CandidateOK, Phase, KeyOf
<1>4. Len(old) \in Nat /\ n \in 1..Len(CountersOf(k))
  BY <1>1, <1>2, <1>3, CounterFacts
<1>5. PICK s \in frontier(c, w) :
        LET total == IF IsSum(c) /\ s > 0 THEN cumulative(c, w, s - 1) ELSE 0
        IN \/ Go(t, "Lookup") \/ Stop(t)
           \/ Become(t, [run[t] EXCEPT !.candidate = Append(@, [slot |-> s, total |-> total])])
  BY Zenon DEF Search
<1> DEFINE total == IF IsSum(c) /\ s > 0 THEN cumulative(c, w, s - 1) ELSE 0
           e == [slot |-> s, total |-> total]
           new == Append(old, e)
           x == [run[t] EXCEPT !.candidate = new]
<1>6. Rows(c) \in Nat
  BY <1>2, <1>4, RowsFacts
<1>7. EntryFollows(c, w, e)
  <2>1. s \in Nat /\ (s > 0 => Row(c, w, s - 1) # {})
    <3> HIDE DEF c, w
    <3> QED BY <1>5, <1>6 DEF frontier
  <2>2. (s = 0 \/ ~IsSum(c)) => total = 0
    <3> HIDE DEF c, w
    <3> QED BY <2>1
  <2>3. e.slot = s /\ e.total = total
    OBVIOUS
  <2> HIDE DEF c, w, total, e
  <2> QED BY Zenon, <2>1, <2>2, <2>3 DEF EntryFollows
<1> HIDE DEF e
<1>8. /\ Len(new) = n /\ new[n] = e
      /\ \A i \in 1..Len(old) : new[i] = old[i]
  BY <1>3
<1>9. /\ x.candidate = new /\ x.at = run[t].at /\ <<x.op, x.read>> = k
  BY Zenon, ShapeFacts DEF TaskShape, KeyOf
<1> HIDE DEF new
<1>10. ASSUME NEW i \in 1..Len(new)
       PROVE EntryFollows(CountersOf(k)[i], WindowOf(CountersOf(k)[i], run[t].at), new[i])
  <2>1. CASE i = n
    BY <1>7, <1>8, <2>1
  <2>2. CASE i \in 1..Len(old)
    BY Zenon, <1>1, <1>8, <2>2 DEF CandidateFollows, Phase, KeyOf
  <2> QED BY <1>4, <1>8, <2>1, <2>2
<1>11. CandidateFollows(x)
  <2> HIDE DEF x
  <2> QED BY Zenon, <1>9, <1>10 DEF CandidateFollows
<1>12. Go(t, "Lookup") \/ Stop(t) \/ Become(t, x)
  BY <1>5 DEF new, e
<1> HIDE DEF x
<1> QED BY Zenon, <1>11, <1>12, Elsewhere

\* After a collision the candidate follows the row it collided with.
LEMMA AdvanceFollows ==
  ASSUME ChargeInv, NEW t \in Task, CandidateFollows(run[t]), Searched(t), ~refusal(t),
         NEW n \in Occupied(t), Become(t, [run[t] EXCEPT !.candidate = advance(t, n)])
  PROVE \E x : Become(t, x) /\ CandidateFollows(x)
<1> DEFINE k == KeyOf(t)
           old == run[t].candidate
           c == CountersOf(k)[n]
           w == WindowOf(c, run[t].at)
           total == IF IsSum(c) THEN cumulative(c, w, old[n].slot) ELSE 0
           P == Len(Protocol_counters(k))
           e == [slot |-> old[n].slot + 1, total |-> total]
           new == [i \in 1..P |-> IF i = n THEN e ELSE old[i]]
           x == [run[t] EXCEPT !.candidate = new]
<1>1. Phase(t) = "Search" /\ Len(old) = Len(CountersOf(k))
  BY DEF Searched
<1>2. k \in Key
  BY <1>1, TaskFacts DEF ChargeInv, KeyOf
<1>3. old \in Seq([slot : Nat, total : Nat])
  BY Zenon, <1>1 DEF ChargeInv, TaskDated, CandidateOK, Phase
<1>4. P \in Nat /\ P <= Len(old) /\ Len(old) \in Nat
  BY <1>1, <1>2, CounterFacts
<1>5. n \in 1..Len(old) /\ Row(c, w, old[n].slot) # {}
  BY <1>1 DEF Occupied, CandidateRow
<1>6. old[n].slot \in Nat
  <2>1. old[n] \in [slot : Nat, total : Nat]
    BY Zenon, <1>3, <1>5, SeqElement
  <2> QED BY <2>1
<1>7. EntryFollows(c, w, e)
  <2>1. e.slot = old[n].slot + 1 /\ e.total = total
    OBVIOUS
  <2>2. e.slot # 0 /\ e.slot - 1 = old[n].slot
    BY <1>6, <2>1
  <2>3. ~IsSum(c) => total = 0
    BY Zenon
  <2> HIDE DEF c, w, total, e
  <2> QED BY Zenon, <1>5, <2>1, <2>2, <2>3 DEF EntryFollows
<1>8. advance(t, n) = new
  BY DEF advance
<1> HIDE DEF e
<1>9. \A i \in 1..P : new[i] = IF i = n THEN e ELSE old[i]
  BY Zenon
<1>10. Len(new) = P
  <2> HIDE DEF P
  <2> QED BY <1>4
<1>11. /\ x.candidate = new /\ x.at = run[t].at /\ <<x.op, x.read>> = k
  BY Zenon, ShapeFacts DEF TaskShape, KeyOf
<1>12. Become(t, x)
  BY <1>8
<1> HIDE DEF new, x
<1>13. ASSUME NEW i \in 1..Len(new)
       PROVE EntryFollows(CountersOf(k)[i], WindowOf(CountersOf(k)[i], run[t].at), new[i])
  <2>1. CASE i = n
    BY <1>7, <1>9, <1>10, <2>1
  <2>2. CASE i # n
    <3>1. new[i] = old[i] /\ i \in 1..Len(old)
      BY <1>4, <1>9, <1>10, <2>2
    <3> QED BY Zenon, <1>1, <3>1 DEF CandidateFollows, Phase, KeyOf
  <2> QED BY Zenon, <2>1, <2>2
<1>14. CandidateFollows(x)
  BY Zenon, <1>11, <1>13 DEF CandidateFollows
<1> QED BY Zenon, <1>12, <1>14

LEMMA StepFollows ==
  ASSUME ChargeInv, NEW t \in Task, CandidateFollows(run[t]),
         Step(t) \/ Halt(t) \/ \E f \in load.offer[t] : Begin(t, f[1], f[2])
  PROVE \E x : Become(t, x) /\ CandidateFollows(x)
<1>0. TaskShape(run[t]) /\ AfterClaim(t) # "Search"
  BY ShapeFacts DEF AfterClaim
<1>1. CASE \E f \in load.offer[t] : Begin(t, f[1], f[2])
  <2>1. PICK f : Begin(t, f[1], f[2])
    BY <1>1
  <2> DEFINE x == [Idle EXCEPT !.phase = "Lookup", !.op = f[1], !.binding = f[2],
                               !.at = now, !.conn = conn]
  <2>2. x.phase = "Lookup"
    BY DEF Idle
  <2>3. Become(t, x)
    BY Zenon, <2>1 DEF Begin
  <2> HIDE DEF x
  <2> QED BY <2>2, <2>3 DEF CandidateFollows
<1>2. CASE Lookup(t)
  <2> DEFINE x == [run[t] EXCEPT !.phase = "Search", !.candidate = <<>>]
  <2>1. \/ Become(t, x) \/ Hold(t, AfterClaim(t), journal[KeyOf(t)])
        \/ Go(t, "Evidence") \/ Stop(t)
    BY <1>2 DEF Lookup
  <2>2. x.candidate = <<>>
    BY <1>0 DEF TaskShape
  <2>3. \A n \in 1..Len(<<>>) : FALSE
    BY SMT
  <2> HIDE DEF x
  <2>4. CandidateFollows(x)
    BY Zenon, <2>2, <2>3 DEF CandidateFollows
  <2> QED BY Zenon, <1>0, <2>1, <2>4, Elsewhere
<1>3. CASE Search(t)
  BY <1>3, SearchFollows
<1>4. CASE Insert(t)
  <2>1. \/ Go(t, "Lookup") \/ Go(t, "Evidence") \/ Stop(t)
        \/ \E v : Hold(t, AfterClaim(t), v)
        \/ /\ Searched(t) /\ ~refusal(t)
           /\ \E n \in Occupied(t) : Become(t, [run[t] EXCEPT !.candidate = advance(t, n)])
    BY Zenon, <1>4 DEF Insert
  <2> QED BY Zenon, <1>0, <2>1, AdvanceFollows, Elsewhere
<1>5. CASE ReadEvidence(t)
  <2> DEFINE x == [run[t] EXCEPT !.phase = "Refuse", !.read = 0, !.lent = {}]
  <2>1. Become(t, AfterRead(t, run[t].read)) \/ Become(t, x) \/ Stop(t)
    BY <1>5 DEF ReadEvidence
  <2>2. x.phase = "Refuse"
    BY <1>0 DEF TaskShape
  <2> HIDE DEF x
  <2>3. CandidateFollows(x)
    BY Zenon, <2>2 DEF CandidateFollows
  <2> QED BY Zenon, <2>1, <2>3, Elsewhere
<1>6. CASE Answer(t)
  <2>1. PICK value : Become(t, [run[t] EXCEPT !.phase = "Record",
                                              !.answer = {[value |-> value, at |-> now]}])
    BY Zenon, <1>6 DEF Answer
  <2> DEFINE x == [run[t] EXCEPT !.phase = "Record", !.answer = {[value |-> value, at |-> now]}]
  <2>2. x.phase = "Record"
    BY <1>0 DEF TaskShape
  <2> HIDE DEF x
  <2>3. CandidateFollows(x)
    BY Zenon, <2>2 DEF CandidateFollows
  <2> QED BY Zenon, <2>1, <2>3 DEF x
<1>7. CASE record_response(t)
  <2> DEFINE x == [run[t] EXCEPT !.phase = "Evidence", !.answer = {}]
  <2>1. Become(t, x) \/ Stop(t)
    BY <1>7 DEF record_response
  <2>2. x.phase = "Evidence"
    BY <1>0 DEF TaskShape
  <2> HIDE DEF x
  <2>3. CandidateFollows(x)
    BY Zenon, <2>2 DEF CandidateFollows
  <2> QED BY Zenon, <2>1, <2>3, Elsewhere
<1>8. CASE Reload(t)
  BY Zenon, <1>8, Elsewhere DEF Reload
<1>9. CASE record_checkpoint(t)
  <2>1. Go(t, "Enter") \/ Stop(t) \/ \E v : Hold(t, "Enter", v)
    BY <1>9 DEF record_checkpoint
  <2> QED BY Zenon, <2>1, Elsewhere
<1>10. CASE grant_entry(t)
  <2>1. Stop(t) \/ \E v : Hold(t, "Send", v)
    BY SMTT(20), <1>10 DEF grant_entry
  <2> QED BY Zenon, <2>1, Elsewhere
<1>11. CASE Halt(t) \/ record_not_entered(t) \/ Enter(t) \/ Send(t) \/ RefuseSend(t)
             \/ Timeout(t)
  <2>1. Stop(t) \/ \E phase \in {"Grant", "Refuse", "Await", "Unsent", "Record"} : Go(t, phase)
    BY Zenon, <1>11 DEF Halt, record_not_entered, Enter, Send, RefuseSend, Timeout
  <2> QED BY Zenon, <2>1, Elsewhere
<1> QED
  BY Zenon, <1>1, <1>2, <1>3, <1>4, <1>5, <1>6, <1>7, <1>8, <1>9, <1>10, <1>11 DEF Step

-----------------------------------------------------------------------------
(* The claim *)

LEMMA CandidateRowIs ==
  ASSUME NEW t, NEW n
  PROVE LET c == CountersOf(KeyOf(t))[n]
            e == run[t].candidate[n]
            a == IF IsSum(c) THEN Amount[run[t].op] ELSE 0
            r == CandidateRow(t, n)
        IN /\ r.counter = c /\ r.window = WindowOf(c, run[t].at) /\ r.slot = e.slot
           /\ r.claim = KeyOf(t) /\ r.amount = a /\ r.cumulative = e.total + a
BY Zenon DEF CandidateRow

\* The rows of a claim that is stored: each goes on from the row before it,
\* within the counter's capacity.
LEMMA ClaimedRow ==
  ASSUME ChargeInv, NEW t \in Task, CandidateFollows(run[t]), Phase(t) = "Search", ~refusal(t),
         Len(run[t].candidate) = Len(CountersOf(KeyOf(t))), validate_predecessors(t),
         NEW n \in 1..Len(CountersOf(KeyOf(t)))
  PROVE LET r == CandidateRow(t, n)
        IN /\ r.amount = IF IsSum(r.counter) THEN Amount[r.claim[1]] ELSE 0
           /\ IsSum(r.counter) => r.cumulative <= CapacityOf[r.counter[2]]
           /\ Current(r) => Follows(r)
           /\ r.cumulative = IF IsSum(r.counter) /\ r.slot > 0
                             THEN cumulative(r.counter, r.window, r.slot - 1) + r.amount
                             ELSE r.amount
<1> DEFINE k == KeyOf(t)
           c == CountersOf(k)[n]
           w == WindowOf(c, run[t].at)
           e == run[t].candidate[n]
           a == IF IsSum(c) THEN Amount[run[t].op] ELSE 0
           r == CandidateRow(t, n)
<1>1. /\ r.counter = c /\ r.window = w /\ r.slot = e.slot
      /\ r.claim = k /\ r.amount = a /\ r.cumulative = e.total + a
  BY Zenon, CandidateRowIs
<1>2. k \in Key /\ k[1] = run[t].op
  BY TaskFacts DEF ChargeInv, KeyOf
<1>3. EntryFollows(c, w, e)
  BY Zenon DEF CandidateFollows, Phase, KeyOf
<1>4. r \in RowType /\ r \in Batch(t)
  BY BatchFacts DEF Batch
<1>5. r.slot \in Nat /\ r.amount \in Nat
  BY Zenon, <1>4 DEF RowType
<1>6. IsSum(c) => r.cumulative <= CapacityOf[c[2]]
  <2> SUFFICES ASSUME IsSum(c) PROVE e.total + Amount[run[t].op] <= CapacityOf[c[2]]
    BY <1>1
  <2>1. n \in 1..Len(Protocol_counters(k)) /\ Len(run[t].candidate) >= Len(Protocol_counters(k))
    BY <1>2, CounterFacts DEF IsSum
  <2>2. ~(e.total + Amount[run[t].op] > CapacityOf[c[2]])
    BY <2>1 DEF refusal
  <2>3. CapacityOf[c[2]] \in Nat /\ Amount[run[t].op] \in Nat
    BY Zenon, SubmitAssumption, TaskFacts DEF IsSum, ChargeInv
  <2>4. e.total \in Nat
    <3>1. run[t].candidate \in Seq([slot : Nat, total : Nat])
      BY Zenon DEF ChargeInv, TaskDated, CandidateOK, Phase
    <3>2. e \in [slot : Nat, total : Nat]
      BY Zenon, <3>1, SeqElement
    <3> QED BY <3>2
  <2> HIDE DEF e, c
  <2> QED BY <2>2, <2>3, <2>4
<1>7. IsSum(c) /\ r.slot > 0 =>
        /\ Row(c, w, r.slot - 1) # {}
        /\ cumulative(c, w, r.slot - 1) + r.amount = r.cumulative
  BY Zenon, <1>1, <1>4 DEF validate_predecessors
<1>8. r.slot = 0 \/ ~IsSum(c) => r.cumulative = r.amount
  <2>1. r.slot = 0 \/ ~IsSum(c) => e.total = 0
    BY Zenon, <1>1, <1>3 DEF EntryFollows
  <2> HIDE DEF r, e, c, a
  <2> QED BY <1>1, <1>5, <2>1
<1>9. ASSUME Current(r) PROVE Follows(r)
  <2>1. CASE r.slot = 0
    BY Zenon, <1>8, <2>1 DEF Follows
  <2>2. CASE r.slot > 0
    <3>1. Row(c, w, r.slot - 1) # {}
      BY Zenon, <1>1, <1>3, <1>9, <2>2 DEF EntryFollows, Current
    <3> DEFINE p == CHOOSE p \in Row(c, w, r.slot - 1) : TRUE
    <3>2. p \in Row(c, w, r.slot - 1)
      BY <3>1
    <3>3. p.cumulative = cumulative(c, w, r.slot - 1)
      BY DEF cumulative
    <3>4. p \in slots /\ Before(p, r)
      BY Zenon, <1>1, <3>2 DEF Row, Before
    <3>5. IsSum(r.counter) => r.cumulative = p.cumulative + r.amount
      BY Zenon, <1>1, <1>7, <2>2, <3>3
    <3> HIDE DEF p
    <3> QED BY Zenon, <3>4, <3>5 DEF Follows
  <2> QED BY <1>5, <2>1, <2>2
<1>10. r.amount = IF IsSum(r.counter) THEN Amount[r.claim[1]] ELSE 0
  BY Zenon, <1>1, <1>2
<1>11. r.cumulative = IF IsSum(r.counter) /\ r.slot > 0
                      THEN cumulative(r.counter, r.window, r.slot - 1) + r.amount
                      ELSE r.amount
  <2> HIDE DEF r, c, w
  <2> QED BY <1>1, <1>5, <1>7, <1>8
<1> HIDE DEF c
<1> QED BY Zenon, <1>1, <1>6, <1>9, <1>10, <1>11

\* The claim is stored with all of its rows, none of which was taken.
LEMMA RowsClaimed ==
  ASSUME ChargeInv, RowsInv, NEW t \in Task, CandidateFollows(run[t]), Phase(t) = "Search",
         ~refusal(t), Len(run[t].candidate) = Len(CountersOf(KeyOf(t))), validate_predecessors(t),
         NEW k, k = KeyOf(t), NEW batch, batch = Batch(t), NEW b,
         journal[k] = {}, Occupied(t) = {},
         Replaced(k, claim_record(k, b, "Reserved", {Place(r) : r \in batch})),
         slots' = slots \cup batch, UNCHANGED now
  PROVE RowsInv'
<1> DEFINE charged == {Place(r) : r \in batch}
           new == claim_record(k, b, "Reserved", charged)
<1>1. k \in Key
  BY Zenon, TaskFacts DEF ChargeInv, KeyOf
<1>2. new.fixed.charged = charged
  <2> HIDE DEF charged
  <2> QED BY Zenon DEF claim_record
<1>3. journal'[k] = {new} /\ \A m \in Key : m # k => journal'[m] = journal[m]
  BY Zenon, ReplacedFacts, <1>1 DEF ChargeInv, PermitInv
<1> HIDE DEF new
<1>4. ASSUME NEW r, Follows(r) PROVE Follows(r)'
  BY <1>4 DEF Follows, Before
<1>5. \A r : Current(r)' <=> Current(r)
  BY DEF Current
<1>6. ASSUME NEW r \in slots PROVE RowOK(r)'
  <2>1. RowOK(r) /\ r.claim \in Key
    BY Zenon, RowShape DEF RowsInv
  <2>2. journal'[r.claim] = journal[r.claim]
    BY Zenon, <1>3, <2>1 DEF RowOK
  <2> QED BY Zenon, <1>4, <1>5, <2>1, <2>2 DEF RowOK, Place
<1>7. ASSUME NEW r \in batch
      PROVE /\ RowOK(r)' /\ \A q \in slots : Place(q) # Place(r)
            /\ r \in RowType /\ r.claim = k
            /\ r.amount = IF IsSum(r.counter) THEN Amount[k[1]] ELSE 0
            /\ r.cumulative = IF IsSum(r.counter) /\ r.slot > 0
                              THEN cumulative(r.counter, r.window, r.slot - 1) + r.amount
                              ELSE r.amount
  <2>1. PICK n \in 1..Len(CountersOf(k)) : r = CandidateRow(t, n)
    BY Zenon DEF Batch
  <2>2. r \in RowType /\ r.claim = k
    BY <2>1, BatchFacts
  <2>3. /\ r.amount = IF IsSum(r.counter) THEN Amount[r.claim[1]] ELSE 0
        /\ IsSum(r.counter) => r.cumulative <= CapacityOf[r.counter[2]]
        /\ Current(r) => Follows(r)
        /\ r.cumulative = IF IsSum(r.counter) /\ r.slot > 0
                          THEN cumulative(r.counter, r.window, r.slot - 1) + r.amount
                          ELSE r.amount
    BY Zenon, <2>1, ClaimedRow
  <2>4. Row(r.counter, r.window, r.slot) = {}
    BY Zenon, <2>1 DEF Occupied
  <2>5. \A q \in slots : Place(q) # Place(r)
    BY SMTT(20), <2>4 DEF Row, Place
  <2>6. Place(r) \in new.fixed.charged
    BY Zenon, <1>2
  <2>7. RowOK(r)'
    BY Zenon, <1>3, <1>4, <1>5, <2>2, <2>3, <2>6 DEF RowOK, Place
  <2> QED BY Zenon, <2>2, <2>3, <2>5, <2>7
<1>8. OneRowPerPlace'
  <2> SUFFICES ASSUME NEW r \in slots \cup batch, NEW q \in slots \cup batch,
                      Current(r), Place(r) = Place(q)
               PROVE r = q
    BY Zenon, <1>5 DEF OneRowPerPlace, Place
  <2>1. CASE r \in slots /\ q \in slots
    BY Zenon, <2>1 DEF RowsInv, OneRowPerPlace
  <2>2. CASE r \in batch /\ q \in batch
    <3>1. r.counter = q.counter /\ r.window = q.window /\ r.slot = q.slot
      BY DEF Place
    <3>2. r \in RowType /\ q \in RowType /\ r.claim = q.claim
      BY Zenon, <1>7, <2>2
    <3>3. r.amount = q.amount /\ r.cumulative = q.cumulative
      BY Zenon, <1>7, <2>2, <3>1
    <3> QED BY <3>1, <3>2, <3>3 DEF RowType
  <2> QED BY Zenon, <1>7, <2>1, <2>2
<1>9. Whole(k, new)'
  <2>1. ASSUME NEW c \in CountersIn(k) PROVE c \in {p.counter : p \in charged}
    <3>1. PICK n \in 1..Len(CountersOf(k)) : c = CountersOf(k)[n]
      BY DEF CountersIn
    <3>2. CandidateRow(t, n) \in batch
      BY DEF Batch
    <3>3. Place(CandidateRow(t, n)) \in charged
      BY <3>2
    <3>4. Place(CandidateRow(t, n)).counter = c
      BY Zenon, <3>1 DEF Place, CandidateRow
    <3> QED BY Zenon, <3>3, <3>4
  <2>2. ASSUME NEW p \in charged PROVE p.counter \in CountersIn(k)
    <3>1. PICK r \in batch : p = Place(r)
      OBVIOUS
    <3>2. PICK n \in 1..Len(CountersOf(k)) : r = CandidateRow(t, n)
      BY Zenon DEF Batch
    <3>3. p.counter = CountersOf(k)[n]
      BY Zenon, <3>1, <3>2 DEF Place, CandidateRow
    <3> QED BY Zenon, <3>3 DEF CountersIn
  <2> HIDE DEF charged
  <2>3. {p.counter : p \in charged} = CountersIn(k)
    BY Zenon, <2>1, <2>2
  <2> QED BY Zenon, <1>2, <2>3 DEF Whole
<1>10. ASSUME NEW m \in Key, NEW v \in journal'[m] PROVE Whole(m, v)'
  <2>1. CASE m = k
    BY Zenon, <1>3, <1>9, <2>1
  <2>2. CASE m # k
    BY Zenon, <1>3, <2>2 DEF RowsInv, Whole
  <2> QED BY <2>1, <2>2
<1> QED BY Zenon, <1>6, <1>7, <1>8, <1>10 DEF RowsInv

-----------------------------------------------------------------------------
(* Writes under a key that has a record *)

\* A record is replaced as the transition rule allows, and one that enters
\* enters now.
Rewritten ==
  \E k \in Key : \E u : \E v \in journal[k] :
    /\ Replaced(k, u) /\ valid_transition(v, u)
    /\ u.stage = "EntryGranted" => \A e \in u.entry : e.at = now

LEMMA HeldRewrites ==
  ASSUME ChargeInv, NEW t \in Task,
         record_checkpoint(t) \/ record_not_entered(t) \/ grant_entry(t) \/ record_response(t)
  PROVE slots' = slots /\ (journal' = journal \/ Rewritten)
<1> DEFINE k == KeyOf(t)
           v == CHOOSE v \in Held(t) : TRUE
<1>1. Phase(t) # "Idle" /\ k \in Key
  BY DEF record_checkpoint, record_not_entered, grant_entry, record_response,
         ChargeInv, PermitInv, TaskInv, TaskOK
<1>2. Unchanged(t) => v \in journal[k] /\ ViewShape(v)
  BY Zenon, <1>1, HeldView DEF ChargeInv
<1>3. PICK u : \/ journal' = journal
               \/ /\ Unchanged(t) /\ valid_transition(v, u) /\ Replaced(k, u)
                  /\ u.stage = "EntryGranted" => \A e \in u.entry : e.at = now
  <2>1. CASE record_checkpoint(t)
    <3> DEFINE new == [Advanced(v, v.stage) EXCEPT !.pre_entry = {"read"}]
    <3>1. \/ journal' = journal
          \/ Unchanged(t) /\ valid_transition(v, new) /\ Replaced(k, new)
      BY Zenon, <2>1 DEF record_checkpoint, Replaced
    <3> HIDE DEF v
    <3>2. Unchanged(t) => new.stage = v.stage
      BY <1>2 DEF ViewShape, Advanced
    <3> HIDE DEF new
    <3>3. Unchanged(t) /\ valid_transition(v, new) => new.stage # "EntryGranted"
      BY <3>2 DEF valid_transition, stage_transition_allowed
    <3> QED BY Zenon, <3>1, <3>3
  <2>2. CASE record_not_entered(t)
    <3>1. PICK p : \/ journal' = journal
                   \/ /\ Unchanged(t) /\ valid_transition(v, NotEntered(v, p))
                      /\ Replaced(k, NotEntered(v, p))
      BY Zenon, <2>2 DEF record_not_entered, Replaced
    <3> HIDE DEF v
    <3>2. Unchanged(t) => NotEntered(v, p).stage = "NotEntered"
      BY <1>2 DEF ViewShape, Advanced, NotEntered
    <3> QED BY Zenon, <3>1, <3>2
  <2>3. CASE grant_entry(t)
    <3> DEFINE entry == {[at |-> now, generation |-> conn.generation, source |-> SourceStage(k)]}
               new == [Advanced(v, "EntryGranted") EXCEPT !.entry = entry]
    <3>1. \/ journal' = journal
          \/ Unchanged(t) /\ valid_transition(v, new) /\ Replaced(k, new)
      BY <2>3 DEF grant_entry, Replaced
    <3> HIDE DEF v
    <3>2. \A e \in entry : e.at = now
      OBVIOUS
    <3> HIDE DEF entry
    <3>3. Unchanged(t) => new.entry = entry
      BY <1>2 DEF ViewShape, Advanced
    <3> HIDE DEF new
    <3> QED BY Zenon, <3>1, <3>2, <3>3
  <2>4. CASE record_response(t)
    <3> DEFINE located == /\ IsMutation(KeyOf(t)) /\ ObservationOf[run[t].op] = "ResponseLocator"
                          /\ \E r \in run[t].answer : r.value = "done"
               full == [Advanced(v, "ResponseRecorded") EXCEPT
                          !.response = run[t].answer, !.locator = IF located THEN {"id"} ELSE {}]
               new == Recorded(t, v)
    <3>1. \/ journal' = journal
          \/ Unchanged(t) /\ valid_transition(v, new) /\ Replaced(k, new)
      BY <2>4 DEF record_response, Replaced
    <3>2. new = IF run[t].answer = {} THEN Advanced(v, "Unknown") ELSE full
      BY DEF Recorded
    <3> HIDE DEF v, located
    <3>3. Unchanged(t) => /\ Advanced(v, "Unknown").stage = "Unknown"
                          /\ full.stage = "ResponseRecorded"
      BY Zenon, <1>2 DEF ViewShape, Advanced
    <3> HIDE DEF new, full
    <3> QED BY Zenon, <3>1, <3>2, <3>3
  <2> QED BY Zenon, <2>1, <2>2, <2>3, <2>4
<1>4. slots' = slots
  BY DEF record_checkpoint, record_not_entered, grant_entry, record_response
<1> HIDE DEF v
<1> QED BY Zenon, <1>1, <1>2, <1>3, <1>4 DEF Rewritten

LEMMA RefineRewrites ==
  ASSUME ChargeInv, NEW r \in Recovery, refine_recovery(r)
  PROVE slots' = slots /\ run' = run /\ now' = now /\ Rewritten
<1> DEFINE o == SourceOf[r]
           k == <<o, 0>>
<1>1. PICK v, a : /\ v \in journal[k] /\ valid_transition(v, refinement(v, o, a))
                  /\ Replaced(k, refinement(v, o, a))
  BY Zenon DEF refine_recovery, Replaced
<1>2. k \in Key
  BY Zenon, RefineFacts DEF ChargeInv
<1>3. slots' = slots /\ run' = run /\ now' = now
  BY DEF refine_recovery
<1>4. ViewShape(v)
  BY <1>1, <1>2 DEF ChargeInv, PermitInv, StoreInv
<1> DEFINE new == refinement(v, o, a)
<1>5. new.stage \in {"Observed", "ObservedByProvider"}
  BY SMTT(20), <1>4 DEF refinement, ViewShape, Advanced
<1> HIDE DEF new
<1>6. v \in journal[k] /\ valid_transition(v, new) /\ Replaced(k, new)
  BY <1>1 DEF new
<1>7. new.stage # "EntryGranted"
  BY <1>5
<1> QED BY Zenon, <1>2, <1>3, <1>6, <1>7 DEF Rewritten

\* A claim that found no room is stored without a row.
Excluded ==
  \E k \in Key : \E u : /\ Replaced(k, u) /\ journal[k] = {}
                        /\ u.entry = {} /\ u.fixed.charged = {}

\* A claim is stored with its rows.
Claimed ==
  /\ \E k \in Key : \E u : Replaced(k, u) /\ journal[k] = {} /\ u.entry = {}
  /\ slots \subseteq slots'
  /\ RowsInv'

LEMMA InsertRewrites ==
  ASSUME ChargeInv, RowsInv, NEW t \in Task, CandidateFollows(run[t]), Insert(t)
  PROVE \/ slots' = slots /\ (journal' = journal \/ Excluded)
        \/ Claimed
<1> DEFINE k == KeyOf(t)
           b == run[t].binding
<1>1. Phase(t) = "Search" /\ k \in Key /\ Searched(t) /\ now' = now
  BY TaskFacts DEF Insert, Searched, ChargeInv, KeyOf
<1>2. CASE /\ slots' = slots /\ journal[k] = {}
           /\ Replaced(k, claim_record(k, b, "NotEntered", {}))
  <2> DEFINE new == claim_record(k, b, "NotEntered", {})
  <2>1. new.entry = {} /\ new.fixed.charged = {}
    BY Zenon DEF claim_record
  <2> HIDE DEF new
  <2> QED BY Zenon, <1>1, <1>2, <2>1 DEF Excluded, new
<1>3. CASE /\ ~refusal(t) /\ Occupied(t) = {} /\ journal[k] = {} /\ validate_predecessors(t)
           /\ Replaced(k, claim_record(k, b, "Reserved", {Place(r) : r \in Batch(t)}))
           /\ slots' = slots \cup Batch(t)
  <2> DEFINE charged == {Place(r) : r \in Batch(t)}
             new == claim_record(k, b, "Reserved", charged)
  <2>1. Len(run[t].candidate) = Len(CountersOf(k))
    BY Zenon, <1>1, <1>3 DEF Searched
  <2>2. RowsInv'
    BY Zenon, <1>1, <1>3, <2>1, RowsClaimed
  <2>3. new.entry = {}
    <3> HIDE DEF charged
    <3> QED BY Zenon DEF claim_record
  <2>4. slots \subseteq slots'
    BY Zenon, <1>3
  <2> HIDE DEF new
  <2> QED BY Zenon, <1>1, <1>3, <2>2, <2>3, <2>4 DEF Claimed, new
<1> QED
  BY <1>2, <1>3 DEF Insert, Replaced, Place

-----------------------------------------------------------------------------
(* Every step *)

LEMMA NextRewrites ==
  ASSUME ChargeInv, RowsInv, \A t \in Task : CandidateFollows(run[t]), [Next]_vars
  PROVE \/ slots' = slots /\ (journal' = journal \/ Rewritten \/ Excluded)
        \/ journal' = journal /\ \E r \in slots : Expired(r) /\ slots' = slots \ {r}
        \/ Claimed
<1>1. ASSUME NEW t \in Task, Step(t)
      PROVE \/ slots' = slots /\ (journal' = journal \/ Rewritten \/ Excluded)
            \/ Claimed
  <2>1. CASE Insert(t)
    BY Zenon, <2>1, InsertRewrites
  <2>2. CASE record_checkpoint(t) \/ record_not_entered(t) \/ grant_entry(t) \/ record_response(t)
    BY Zenon, <2>2, HeldRewrites
  <2>3. CASE Lookup(t) \/ Search(t) \/ Reload(t) \/ ReadEvidence(t) \/ Enter(t)
             \/ Send(t) \/ RefuseSend(t) \/ Answer(t) \/ Timeout(t)
    BY Zenon, <2>3 DEF Lookup, Search, Reload, ReadEvidence, Enter, Send, RefuseSend, Answer,
                        Timeout
  <2> QED BY Zenon, <1>1, <2>1, <2>2, <2>3 DEF Step
<1>2. ASSUME NEW t \in Task, Halt(t) \/ \E f \in load.offer[t] : Begin(t, f[1], f[2])
      PROVE journal' = journal /\ slots' = slots
  BY Zenon, <1>2 DEF Halt, Begin
<1>3. ASSUME \/ \E o \in Op : Apply(o) \/ Lose(o)
             \/ Tick \/ ConnectionChange \/ UNCHANGED vars
      PROVE journal' = journal /\ slots' = slots
  BY <1>3 DEF Apply, Lose, Tick, ConnectionChange, vars
<1>4. CASE sweep_expired
  BY Zenon, <1>4 DEF sweep_expired
<1>5. ASSUME NEW r \in Recovery, refine_recovery(r) PROVE slots' = slots /\ Rewritten
  BY Zenon, <1>5, RefineRewrites
<1> QED
  BY Zenon, <1>1, <1>2, <1>3, <1>4, <1>5 DEF Next

LEMMA ClockNext ==
  ASSUME ChargeInv, [Next]_vars
  PROVE now \in Nat /\ now' \in Nat /\ now <= now' /\ now' <= now + 1
<1>1. UNCHANGED now \/ Tick
  BY Zenon DEF Next, vars, Step, Halt, Begin, Lookup, Search, Insert, Reload, ReadEvidence,
         record_checkpoint, record_not_entered, Enter, grant_entry, Send, RefuseSend, Answer, Timeout,
         record_response, Apply, Lose, refine_recovery, sweep_expired, ConnectionChange
<1> QED BY <1>1, WorldFacts DEF Tick

\* What is kept of a claim, and that operations enter now.
ClaimsKept ==
  /\ \A k \in Key : \A v \in journal[k] : \E u \in journal'[k] : u.fixed = v.fixed
  /\ \A k \in Key : \A u \in journal'[k] :
       u.fixed.charged = {} \/ \E v \in journal[k] : u.fixed = v.fixed

EntriesNow == \A k \in Key : \A w : w # now => (w \in EnteredAt(k)' <=> w \in EnteredAt(k))

LEMMA RewrittenKeeps ==
  ASSUME ChargeInv, Rewritten
  PROVE ClaimsKept /\ EntriesNow
<1>1. PICK k \in Key : \E u : \E v \in journal[k] :
        /\ Replaced(k, u) /\ valid_transition(v, u)
        /\ u.stage = "EntryGranted" => \A e \in u.entry : e.at = now
  BY DEF Rewritten
<1>2. PICK u, v : /\ v \in journal[k] /\ Replaced(k, u) /\ valid_transition(v, u)
                  /\ u.stage = "EntryGranted" => \A e \in u.entry : e.at = now
  BY Zenon, <1>1
<1>3. StoreInv
  BY Zenon DEF ChargeInv, PermitInv
<1>4. journal'[k] = {u} /\ \A m \in Key : m # k => journal'[m] = journal[m]
  BY Zenon, <1>2, <1>3, ReplacedFacts
<1>5. journal[k] = {v}
  BY Zenon, <1>2, <1>3 DEF StoreInv
<1>6. u.fixed = v.fixed
  BY Zenon, <1>2 DEF valid_transition
<1>7. \A e \in u.entry : e.at # now => e \in v.entry
  BY Zenon, <1>2 DEF valid_transition, entry_kept
<1>8. \A e \in v.entry : e \in u.entry
  BY Zenon, <1>2 DEF valid_transition, entry_kept, absent
<1>9. ClaimsKept
  <2>1. ASSUME NEW m \in Key, NEW x \in journal[m] PROVE \E y \in journal'[m] : y.fixed = x.fixed
    BY Zenon, <1>4, <1>5, <1>6
  <2>2. ASSUME NEW m \in Key, NEW y \in journal'[m] PROVE \E x \in journal[m] : y.fixed = x.fixed
    BY Zenon, <1>2, <1>4, <1>6
  <2> QED BY Zenon, <2>1, <2>2 DEF ClaimsKept
<1>10. ASSUME NEW m \in Key, NEW w, w # now PROVE w \in EnteredAt(m)' <=> w \in EnteredAt(m)
  <2>1. CASE m = k
    <3>1. w \in EnteredAt(k) <=> \E e \in v.entry : e.at = w
      BY <1>5 DEF EnteredAt
    <3>2. w \in EnteredAt(k)' <=> \E e \in u.entry : e.at = w
      BY <1>4 DEF EnteredAt
    <3> QED BY Zenon, <1>7, <1>8, <1>10, <2>1, <3>1, <3>2
  <2>2. CASE m # k
    BY Zenon, <1>4, <2>2 DEF EnteredAt
  <2> QED BY <2>1, <2>2
<1> QED BY Zenon, <1>9, <1>10 DEF EntriesNow

\* A new record has not entered.
LEMMA StoredKeeps ==
  ASSUME ChargeInv, NEW k \in Key, NEW u, Replaced(k, u), journal[k] = {}, u.entry = {}
  PROVE EntriesNow /\ (u.fixed.charged = {} => ClaimsKept)
<1>1. journal'[k] = {u} /\ \A m \in Key : m # k => journal'[m] = journal[m]
  BY Zenon, ReplacedFacts DEF ChargeInv, PermitInv
<1>2. ASSUME NEW m \in Key, NEW w PROVE w \in EnteredAt(m)' <=> w \in EnteredAt(m)
  <2>1. CASE m = k
    BY <1>1, <2>1 DEF EnteredAt
  <2>2. CASE m # k
    BY Zenon, <1>1, <2>2 DEF EnteredAt
  <2> QED BY <2>1, <2>2
<1>3. ASSUME u.fixed.charged = {} PROVE ClaimsKept
  BY Zenon, <1>1, <1>3 DEF ClaimsKept
<1> QED BY Zenon, <1>2, <1>3 DEF EntriesNow

LEMMA RowsNext ==
  ASSUME ChargeInv, RowsInv, \A t \in Task : CandidateFollows(run[t]), [Next]_vars
  PROVE RowsInv' /\ EntriesNow /\ \A r \in slots : Current(r) => r \in slots'
<1>0. now \in Nat /\ now' \in Nat /\ now <= now'
  BY ClockNext
<1>1. ASSUME slots' = slots, ClaimsKept
      PROVE RowsInv' /\ \A r \in slots : Current(r) => r \in slots'
  <2>1. slots' \subseteq slots /\ \A r \in slots : Current(r) => r \in slots'
    BY Zenon, <1>1
  <2> QED BY Zenon, <1>0, <1>1, <2>1, RowsKept DEF ClaimsKept
<1>2. journal' = journal => ClaimsKept /\ EntriesNow
  BY Zenon DEF ClaimsKept, EntriesNow, EnteredAt
<1>3. Excluded => ClaimsKept /\ EntriesNow
  BY Zenon, StoredKeeps DEF Excluded
<1>4. CASE Claimed
  BY Zenon, <1>4, StoredKeeps DEF Claimed
<1>5. CASE journal' = journal /\ \E r \in slots : Expired(r) /\ slots' = slots \ {r}
  <2>1. PICK r \in slots : Expired(r) /\ slots' = slots \ {r}
    BY Zenon, <1>5
  <2>2. ~Current(r)
    BY <1>0, <2>1, RowShape DEF Expired, Current
  <2>3. slots' \subseteq slots /\ \A q \in slots : Current(q) => q \in slots'
    BY Zenon, <2>1, <2>2
  <2> QED BY Zenon, <1>0, <1>2, <1>5, <2>3, RowsKept DEF ClaimsKept
<1> QED
  BY Zenon, <1>1, <1>2, <1>3, <1>4, <1>5, NextRewrites, RewrittenKeeps

LEMMA CandidatesNext ==
  ASSUME ChargeInv, ChargeInv', RowsInv, \A t \in Task : CandidateFollows(run[t]), [Next]_vars
  PROVE \A t \in Task : CandidateFollows(run[t])'
<1>0. now' \in Nat /\ now <= now' /\ \A r \in slots : Current(r) => r \in slots'
  BY Zenon, ClockNext, RowsNext
<1> SUFFICES ASSUME NEW u \in Task PROVE CandidateFollows(run[u])'
  OBVIOUS
<1>1. ASSUME NEW t \in Task,
             Step(t) \/ Halt(t) \/ \E f \in load.offer[t] : Begin(t, f[1], f[2])
      PROVE \E x : run'[u] = x /\ CandidateFollows(x)
  <2>1. PICK x : Become(t, x) /\ CandidateFollows(x)
    BY Zenon, <1>1, StepFollows
  <2>2. run'[t] = x /\ (u # t => run'[u] = run[u])
    BY <2>1, BecomeFacts DEF ChargeInv, PermitInv, TaskInv
  <2> QED BY Zenon, <2>1, <2>2
<1>2. \/ run' = run
      \/ \E t \in Task : Step(t) \/ Halt(t) \/ \E f \in load.offer[t] : Begin(t, f[1], f[2])
  BY Zenon DEF Next, vars, Apply, Lose, refine_recovery, Tick, sweep_expired, ConnectionChange
<1>3. \E x : run'[u] = x /\ CandidateFollows(x)
  BY Zenon, <1>1, <1>2
<1>4. PICK x : run'[u] = x /\ CandidateFollows(x)
  BY <1>3
<1>5. x.at \in Nat
  BY Zenon, <1>4 DEF ChargeInv, TaskDated
<1>6. CandidateFollows(x)'
  BY Zenon, <1>0, <1>4, <1>5, CandidateStays
<1> QED BY Zenon, <1>4, <1>6 DEF CandidateFollows

-----------------------------------------------------------------------------
(* Counting *)

\* What the counts need of finite sets: a set that maps one to one into the
\* first n numbers has at most n members.
MapsInto(S, n) == \E f \in [S -> 0..(n - 1)] : \A k, m \in S : f[k] = f[m] => k = m

Pigeonhole == \A S : \A n \in Nat : MapsInto(S, n) => Cardinality(S) <= n

\* Operations that entered on one counter in one window hold different rows.
LEMMA EntriesApart ==
  ASSUME ChargeInv, NEW c, NEW w, NEW S, S \subseteq Key, Rows(c) \in Nat,
         \A k \in S : c \in CountersIn(k)
                        /\ \E v \in journal[k] : \E e \in v.entry : WindowOf(c, e.at) = w
  PROVE MapsInto(S, Rows(c))
<1> DEFINE P(s) == [counter |-> c, window |-> w, slot |-> s]
           On(k, s) == \E v \in journal[k] : v.entry # {} /\ P(s) \in v.fixed.charged
           T == 0..(Rows(c) - 1)
           f == [k \in S |-> CHOOSE s \in T : On(k, s)]
<1>1. ASSUME NEW k \in S PROVE \E s \in T : On(k, s)
  <2>1. k \in Key /\ c \in CountersIn(k)
    OBVIOUS
  <2>2. PICK v \in journal[k] : \E e \in v.entry : WindowOf(c, e.at) = w
    BY SMTT(20)
  <2>3. consistent(v) /\ Charged(k, v)
    BY <2>1 DEF ChargeInv, RecordInv
  <2>4. v.stage # "NotEntered"
    BY Zenon, <2>2, <2>3 DEF consistent, requires_entry, absent
  <2>5. PICK p \in v.fixed.charged : p.counter = c
    BY Zenon, <2>1, <2>3, <2>4 DEF Charged
  <2>6. p = Place(p) /\ p.window = w /\ p.slot \in Nat /\ p.slot < Rows(c)
    BY <2>2, <2>3, <2>5 DEF Charged
  <2>7. p = P(p.slot)
    BY Zenon, <2>5, <2>6 DEF Place
  <2>8. p.slot \in T
    BY <2>6
  <2>9. v.entry # {} /\ P(p.slot) \in v.fixed.charged
    BY Zenon, <2>2, <2>5, <2>7
  <2> HIDE DEF P, T
  <2> QED BY Zenon, <2>8, <2>9
<1>2. ASSUME NEW k \in S, NEW m \in S, NEW s, On(k, s), On(m, s) PROVE k = m
  <2>1. PICK v \in journal[k] : v.entry # {} /\ P(s) \in v.fixed.charged
    BY Zenon, <1>2
  <2>2. PICK u \in journal[m] : u.entry # {} /\ P(s) \in u.fixed.charged
    BY <1>2
  <2> HIDE DEF P
  <2>3. v.fixed.charged \cap u.fixed.charged # {}
    BY Zenon, <2>1, <2>2
  <2> QED BY Zenon, <2>1, <2>2, <2>3 DEF ChargeInv, RecordInv, EnteredApart
<1> HIDE DEF On, T
<1>3. \A k \in S : f[k] \in T /\ On(k, f[k])
  BY Zenon, <1>1
<1>4. f \in [S -> T]
  BY Zenon, <1>3
<1> HIDE DEF f
<1>5. \A k, m \in S : f[k] = f[m] => k = m
  BY <1>2, <1>3
<1> QED BY Zenon, <1>4, <1>5 DEF T, MapsInto

LEMMA LifetimeCounts == ASSUME ChargeInv, Pigeonhole PROVE LifetimeCapacity
<1>1. ASSUME NEW e \in Engagement
      PROVE Cardinality({k \in ChargedTo(<<"engagement", e>>) : Entered(k)}) <= CeilingOf[e]
  <2> DEFINE c == <<"engagement", e>>
             S == {k \in ChargedTo(c) : Entered(k)}
  <2>1. c[1] = "engagement" /\ c[2] = e
    OBVIOUS
  <2>2. Rows(c) = CeilingOf[e] /\ \A at : WindowOf(c, at) = 0
    BY <2>1 DEF Rows, WindowOf
  <2>3. Rows(c) \in Nat
    BY Zenon, <2>2, ConstantFacts
  <2> HIDE DEF c
  <2>4. ASSUME NEW k \in S
        PROVE /\ k \in Key /\ c \in CountersIn(k)
              /\ \E v \in journal[k] : \E x \in v.entry : WindowOf(c, x.at) = 0
    BY <2>2 DEF ChargedTo, CountersIn, Entered, EnteredAt
  <2>5. Cardinality(S) <= Rows(c)
    <3> HIDE DEF S
    <3>1. S \subseteq Key
      BY Zenon, <2>4
    <3> QED BY Zenon, <2>3, <2>4, <3>1, EntriesApart DEF Pigeonhole
  <2> QED BY <2>2, <2>5 DEF c
<1>2. ASSUME NEW o \in Op
      PROVE Cardinality({r \in Recovery : SourceOf[r] = o /\ Entered(<<r, 0>>)})
              <= RecoveryAttempts
  <2> DEFINE c == <<"allocation", <<o, 0>>>>
             R == {r \in Recovery : SourceOf[r] = o /\ Entered(<<r, 0>>)}
             S == {<<r, 0>> : r \in R}
  <2>1. c[1] = "allocation" /\ c[2] = <<o, 0>>
    OBVIOUS
  <2>2. Rows(c) = RecoveryAttempts /\ \A at : WindowOf(c, at) = 0
    BY <2>1 DEF Rows, WindowOf
  <2>3. Rows(c) \in Nat
    BY Zenon, <2>2, ConstantFacts
  <2>4. ASSUME NEW r \in R
        PROVE /\ <<r, 0>> \in Key /\ c \in CountersIn(<<r, 0>>)
              /\ \E v \in journal[<<r, 0>>] : \E x \in v.entry : WindowOf(c, x.at) = 0
    <3>1. <<r, 0>> \in Key
      BY KeyFacts DEF Operation
    <3>2. IsRecovery(<<r, 0>>) /\ Allocation(<<r, 0>>) = c
      BY DEF IsRecovery, Allocation
    <3> HIDE DEF c
    <3>3. /\ 1 \in 1..Len(Protocol_counters(<<r, 0>>))
          /\ Protocol_counters(<<r, 0>>)[1] = c
      BY Zenon, <3>1, <3>2, ProtocolFacts
    <3>4. 1 \in 1..Len(CountersOf(<<r, 0>>)) /\ CountersOf(<<r, 0>>)[1] = c
      BY <3>1, <3>3, CounterFacts
    <3> QED BY <2>2, <3>1, <3>4 DEF CountersIn, Entered, EnteredAt
  <2> HIDE DEF c, R
  <2>5. S \subseteq Key /\ \A k \in S : c \in CountersIn(k)
          /\ \E v \in journal[k] : \E x \in v.entry : WindowOf(c, x.at) = 0
    BY <2>4
  <2> HIDE DEF S
  <2>6. MapsInto(S, Rows(c))
    BY Zenon, <2>3, <2>5, EntriesApart
  <2>f. PICK f \in [S -> 0..(Rows(c) - 1)] : \A k, m \in S : f[k] = f[m] => k = m
    BY Zenon, <2>6 DEF MapsInto
  <2> DEFINE g == [r \in R |-> f[<<r, 0>>]]
  <2>7. \A r \in R : <<r, 0>> \in S
    BY Zenon DEF S
  <2>8. g \in [R -> 0..(Rows(c) - 1)] /\ \A q, r \in R : g[q] = g[r] => q = r
    BY <2>f, <2>7
  <2>9. Cardinality(R) <= Rows(c)
    <3> HIDE DEF g
    <3>1. MapsInto(R, Rows(c))
      BY Zenon, <2>8 DEF MapsInto
    <3> QED BY Zenon, <2>3, <3>1 DEF Pigeonhole
  <2> QED BY <2>2, <2>9 DEF R
<1> QED
  BY Zenon, <1>1, <1>2 DEF LifetimeCapacity

\* The part of WindowCapacity that counts.
WindowCount ==
  \A c \in Counter, w \in 0..now :
    Cardinality({k \in ChargedTo(<<"metered", c>>) : w \in EnteredAt(k)}) <= RowsOf[c]

LEMMA WindowCounts == ASSUME ChargeInv, Pigeonhole PROVE WindowCount
<1>1. ASSUME NEW d \in Counter, NEW w
      PROVE Cardinality({k \in ChargedTo(<<"metered", d>>) : w \in EnteredAt(k)}) <= RowsOf[d]
  <2> DEFINE c == <<"metered", d>>
             S == {k \in ChargedTo(c) : w \in EnteredAt(k)}
  <2>1. c[1] = "metered" /\ c[2] = d
    OBVIOUS
  <2>2. Rows(c) = RowsOf[d] /\ \A at : WindowOf(c, at) = at
    BY <2>1 DEF Rows, WindowOf
  <2>3. Rows(c) \in Nat
    BY Zenon, <2>2, ConstantFacts
  <2> HIDE DEF c
  <2>4. ASSUME NEW k \in S
        PROVE /\ k \in Key /\ c \in CountersIn(k)
              /\ \E v \in journal[k] : \E x \in v.entry : WindowOf(c, x.at) = w
    BY <2>2 DEF ChargedTo, CountersIn, EnteredAt
  <2>5. Cardinality(S) <= Rows(c)
    <3> HIDE DEF S
    <3>1. S \subseteq Key
      BY Zenon, <2>4
    <3> QED BY Zenon, <2>3, <2>4, <3>1, EntriesApart DEF Pigeonhole
  <2> QED BY <2>2, <2>5 DEF c
<1> QED
  BY Zenon, <1>1 DEF WindowCount

INSTANCE FiniteSetTheorems
INSTANCE WellFoundedInduction

LEMMA PigeonholeHolds == Pigeonhole
<1> SUFFICES ASSUME NEW S, NEW n \in Nat, NEW f \in [S -> 0..(n - 1)],
                    \A k, m \in S : f[k] = f[m] => k = m
             PROVE Cardinality(S) <= n
  BY DEF Pigeonhole, MapsInto
<1>1. f \in Injection(S, 0..(n - 1))
  BY Zenon DEF Injection, IsInjective
<1>2. IsFiniteSet(0..(n - 1)) /\ Cardinality(0..(n - 1)) = n
  BY FS_Interval
<1> QED
  BY SMTT(20), <1>1, <1>2, FS_Injection

-----------------------------------------------------------------------------
(***************************************************************************)
(* Sums.  A finite set can be summed one member at a time, in any order.   *)
(***************************************************************************)
LEMMA LeastNat ==
  ASSUME NEW T, T \subseteq Nat, T # {}
  PROVE \E n \in T : \A m \in T : n <= m
<1>1. PICK n \in T : \A m \in T : ~(<<m, n>> \in OpToRel(<, Nat))
  BY Zenon, WFMin, NatLessThanWellFounded
<1>2. \A m \in T : ~(m < n)
  BY Zenon, <1>1 DEF OpToRel
<1> QED
  BY <1>2

\* Induction over the natural numbers, with the set of numbers that have the
\* property.
LEMMA Induction ==
  ASSUME NEW I, 0 \in I, \A n \in Nat : n \in I => n + 1 \in I
  PROVE Nat \subseteq I
<1> SUFFICES ASSUME Nat \ I # {} PROVE FALSE
  OBVIOUS
<1>1. PICK n \in Nat \ I : \A m \in Nat \ I : n <= m
  BY Zenon, LeastNat
<1>2. n - 1 \in Nat /\ n - 1 \notin Nat \ I
  BY <1>1
<1> QED
  BY <1>1, <1>2

\* The recursion that sums amount over the subsets of S.
Pick(s) == CHOOSE x \in s : TRUE
Solves(amount, S, g) ==
  g = [s \in S |-> IF s = {} THEN 0 ELSE amount[Pick(s)] + g[s \ {Pick(s)}]]

LEMMA TotalIs ==
  ASSUME NEW amount, NEW S
  PROVE Total(amount, S) = (CHOOSE g : Solves(amount, SUBSET S, g))[S]
BY Zenon DEF Total, Ext!FoldSet, Ext!MapThenFoldSet, Solves, Pick

Upto(S, n) == {s \in SUBSET S : Cardinality(s) <= n}

LEMMA SmallerSets ==
  ASSUME NEW S, IsFiniteSet(S), NEW n \in Nat, NEW s \in Upto(S, n + 1), s # {}
  PROVE Pick(s) \in s /\ s \ {Pick(s)} \in Upto(S, n)
<1>1. Pick(s) \in s
  BY Zenon DEF Pick
<1>2. s \subseteq S /\ IsFiniteSet(s) /\ Cardinality(s) <= n + 1
  BY FS_Subset DEF Upto
<1>3. Cardinality(s) \in Nat /\ Cardinality(s \ {Pick(s)}) = Cardinality(s) - 1
  BY Zenon, <1>1, <1>2, FS_RemoveElement, FS_CardinalityType
<1> HIDE DEF Pick
<1> QED
  BY <1>1, <1>2, <1>3 DEF Upto

LEMMA EmptyUpto ==
  ASSUME NEW S, IsFiniteSet(S), NEW s \in Upto(S, 0)
  PROVE s = {}
<1>1. IsFiniteSet(s) /\ Cardinality(s) <= 0
  BY FS_Subset DEF Upto
<1>2. Cardinality(s) \in Nat
  BY <1>1, FS_CardinalityType
<1>3. Cardinality(s) = 0
  BY <1>1, <1>2
<1> QED BY <1>1, <1>3, FS_EmptySet

LEMMA AllUpto ==
  ASSUME NEW S, IsFiniteSet(S)
  PROVE Cardinality(S) \in Nat /\ Upto(S, Cardinality(S)) = SUBSET S
<1>1. Cardinality(S) \in Nat
  BY FS_CardinalityType
<1>2. \A s \in SUBSET S : Cardinality(s) <= Cardinality(S)
  BY FS_Subset
<1> QED BY <1>1, <1>2 DEF Upto

LEMMA SolutionUpto ==
  ASSUME NEW amount, NEW S, IsFiniteSet(S)
  PROVE \A n \in Nat : \E g : Solves(amount, Upto(S, n), g)
<1> DEFINE I == {n \in Nat : \E g : Solves(amount, Upto(S, n), g)}
<1>1. 0 \in I
  <2> DEFINE g == [s \in Upto(S, 0) |-> 0]
  <2>1. Solves(amount, Upto(S, 0), g)
    BY EmptyUpto DEF Solves
  <2> QED BY <2>1
<1>2. ASSUME NEW n \in Nat, n \in I PROVE n + 1 \in I
  <2>1. PICK g : Solves(amount, Upto(S, n), g)
    BY <1>2
  <2> DEFINE T == Upto(S, n + 1)
             h == [s \in T |-> IF s = {} THEN 0 ELSE amount[Pick(s)] + g[s \ {Pick(s)}]]
  <2>2. Upto(S, n) \subseteq T
    <3> SUFFICES ASSUME NEW s \in Upto(S, n) PROVE s \in Upto(S, n + 1)
      OBVIOUS
    <3>1. Cardinality(s) \in Nat
      BY FS_Subset, FS_CardinalityType DEF Upto
    <3> QED BY <3>1 DEF Upto
  <2>3. \A s \in Upto(S, n) : h[s] = g[s]
    BY Zenon, <2>1, <2>2 DEF Solves
  <2>4. \A s \in T : s # {} => h[s \ {Pick(s)}] = g[s \ {Pick(s)}]
    <3> HIDE DEF h
    <3> QED BY <2>3, SmallerSets
  <2>5. Solves(amount, T, h)
    BY Zenon, <2>4 DEF Solves
  <2> HIDE DEF h
  <2> QED BY <2>5
<1> HIDE DEF I
<1>3. Nat \subseteq I
  BY <1>1, <1>2, Induction
<1> QED BY <1>3 DEF I

\* The recursion has a solution, and Total is its value.
LEMMA TotalSolves ==
  ASSUME NEW amount, NEW S, IsFiniteSet(S)
  PROVE \E g : Solves(amount, SUBSET S, g) /\ Total(amount, S) = g[S]
<1>1. \E g : Solves(amount, SUBSET S, g)
  <2>1. Cardinality(S) \in Nat /\ Upto(S, Cardinality(S)) = SUBSET S
    BY AllUpto
  <2>2. \E g : Solves(amount, Upto(S, Cardinality(S)), g)
    BY Zenon, <2>1, SolutionUpto
  <2> QED BY <2>1, <2>2
<1>2. Solves(amount, SUBSET S, CHOOSE g : Solves(amount, SUBSET S, g))
  BY Zenon, <1>1
<1> QED BY Zenon, <1>2, TotalIs

\* Two solutions agree wherever both are defined.
LEMMA SolutionsAgree ==
  ASSUME NEW amount, NEW S, IsFiniteSet(S), NEW R, R \subseteq S, NEW g, NEW h,
         Solves(amount, SUBSET S, g), Solves(amount, SUBSET R, h)
  PROVE g[R] = h[R]
<1> DEFINE I == {n \in Nat : \A s \in Upto(R, n) : g[s] = h[s]}
<1>0. IsFiniteSet(R)
  BY FS_Subset
<1>1. 0 \in I
  <2> SUFFICES ASSUME NEW s \in Upto(R, 0) PROVE g[s] = h[s]
    OBVIOUS
  <2>1. s = {} /\ s \in SUBSET S /\ s \in SUBSET R
    BY <1>0, EmptyUpto
  <2> QED BY <2>1 DEF Solves
<1>2. ASSUME NEW n \in Nat, n \in I PROVE n + 1 \in I
  <2> SUFFICES ASSUME NEW s \in Upto(R, n + 1) PROVE g[s] = h[s]
    OBVIOUS
  <2>1. s \in SUBSET S /\ s \in SUBSET R
    BY DEF Upto
  <2>2. s # {} => g[s \ {Pick(s)}] = h[s \ {Pick(s)}]
    BY <1>0, <1>2, SmallerSets
  <2> QED BY Zenon, <2>1, <2>2 DEF Solves
<1> HIDE DEF I
<1>3. Nat \subseteq I
  BY Zenon, <1>1, <1>2, Induction
<1>4. Cardinality(R) \in Nat /\ R \in Upto(R, Cardinality(R))
  <2>1. Cardinality(R) \in Nat /\ Upto(R, Cardinality(R)) = SUBSET R
    BY <1>0, AllUpto
  <2> QED BY <2>1
<1> QED BY <1>3, <1>4 DEF I

LEMMA TotalEmpty == ASSUME NEW amount PROVE Total(amount, {}) = 0
<1>1. IsFiniteSet({})
  BY FS_EmptySet
<1>2. PICK g : Solves(amount, SUBSET {}, g) /\ Total(amount, {}) = g[{}]
  BY Zenon, <1>1, TotalSolves
<1> QED BY <1>2 DEF Solves

LEMMA TotalPick ==
  ASSUME NEW amount, NEW S, IsFiniteSet(S), S # {}
  PROVE Total(amount, S) = amount[Pick(S)] + Total(amount, S \ {Pick(S)})
<1>1. PICK g : Solves(amount, SUBSET S, g) /\ Total(amount, S) = g[S]
  BY Zenon, TotalSolves
<1> DEFINE R == S \ {Pick(S)}
<1>2. R \subseteq S /\ IsFiniteSet(R)
  BY FS_Subset
<1> HIDE DEF R
<1>3. PICK h : Solves(amount, SUBSET R, h) /\ Total(amount, R) = h[R]
  BY Zenon, <1>2, TotalSolves
<1>4. g[R] = h[R]
  BY <1>1, <1>2, <1>3, SolutionsAgree
<1>5. g[S] = amount[Pick(S)] + g[R]
  BY Zenon, <1>1 DEF Solves, R
<1> QED BY <1>1, <1>3, <1>4, <1>5 DEF R

\* The sum is a number, and any member may be taken out first.
LEMMA TotalSplit ==
  ASSUME NEW D, NEW amount \in [D -> Nat], NEW S, S \subseteq D, IsFiniteSet(S)
  PROVE /\ Total(amount, S) \in Nat
        /\ \A x \in S : Total(amount, S) = amount[x] + Total(amount, S \ {x})
<1> DEFINE P(s) == /\ Total(amount, s) \in Nat
                   /\ \A x \in s : Total(amount, s) = amount[x] + Total(amount, s \ {x})
           I == {n \in Nat : \A s \in Upto(S, n) : P(s)}
<1>1. 0 \in I
  <2> SUFFICES ASSUME NEW s \in Upto(S, 0) PROVE P(s)
    OBVIOUS
  <2>1. s = {}
    BY EmptyUpto
  <2> QED BY <2>1, TotalEmpty
<1>2. ASSUME NEW n \in Nat, n \in I PROVE n + 1 \in I
  <2> SUFFICES ASSUME NEW s \in Upto(S, n + 1) PROVE P(s)
    OBVIOUS
  <2>1. CASE s = {}
    BY <2>1, TotalEmpty
  <2>2. CASE s # {}
    <3> DEFINE y == Pick(s)
               r == s \ {y}
    <3>1. y \in s /\ r \in Upto(S, n)
      BY Zenon, <2>2, SmallerSets
    <3>2. P(r) /\ IsFiniteSet(s) /\ s \subseteq S
      BY Zenon, <1>2, <3>1, FS_Subset DEF Upto
    <3>3. Total(amount, s) = amount[y] + Total(amount, r)
      BY <2>2, <3>2, TotalPick
    <3>4. amount[y] \in Nat
      BY <3>1, <3>2
    <3>5. ASSUME NEW x \in s PROVE Total(amount, s) = amount[x] + Total(amount, s \ {x})
      <4>1. CASE x = y
        BY <3>3, <4>1
      <4>2. CASE x # y
        <5> DEFINE q == s \ {x}
        <5>1. q \in Upto(S, n) /\ y \in q /\ x \in r /\ q \ {y} = r \ {x}
          <6>1. IsFiniteSet(s) /\ Cardinality(s) <= n + 1
            BY <3>2 DEF Upto
          <6>2. Cardinality(s) \in Nat /\ Cardinality(q) = Cardinality(s) - 1
            BY Zenon, <6>1, FS_RemoveElement, FS_CardinalityType
          <6>3. q \subseteq S
            BY <3>2
          <6>4. q \in Upto(S, n)
            <7> HIDE DEF q
            <7> QED BY SMTT(20), <6>1, <6>2, <6>3 DEF Upto
          <6> HIDE DEF y
          <6> QED BY Zenon, <3>1, <4>2, <6>4
        <5>2. P(q)
          BY Zenon, <1>2, <5>1
        <5>3. Total(amount, q) = amount[y] + Total(amount, q \ {y})
          BY <5>1, <5>2
        <5>4. Total(amount, r) = amount[x] + Total(amount, r \ {x})
          BY Zenon, <3>2, <5>1
        <5>5. Total(amount, r \ {x}) \in Nat
          <6>1. r \ {x} \in Upto(S, n)
            <7>1. IsFiniteSet(r) /\ Cardinality(r) <= n /\ r \subseteq S
              BY Zenon, <3>1, <3>2, FS_Subset DEF Upto
            <7>2. Cardinality(r) \in Nat /\ Cardinality(r \ {x}) = Cardinality(r) - 1
              BY Zenon, <5>1, <7>1, FS_RemoveElement, FS_CardinalityType
            <7> HIDE DEF r
            <7> QED BY <7>1, <7>2 DEF Upto
          <6> QED BY <1>2, <6>1
        <5>6. amount[x] \in Nat
          BY <3>2
        <5>7. Total(amount, q) = amount[y] + Total(amount, r \ {x})
          <6> HIDE DEF q, r, y
          <6> QED BY <5>1, <5>3
        <5> HIDE DEF r, y
        <5>8. Total(amount, s) = amount[x] + Total(amount, q)
          <6> HIDE DEF q
          <6> QED BY SMTT(20), <3>3, <3>4, <5>4, <5>5, <5>6, <5>7
        <5> QED BY <5>8
      <4> QED BY <4>1, <4>2
    <3>6. Total(amount, s) \in Nat
      BY SMTT(20), <3>2, <3>3, <3>4
    <3> QED BY <3>5, <3>6
  <2> QED BY <2>1, <2>2
<1> HIDE DEF I
<1>3. Nat \subseteq I
  BY Zenon, <1>1, <1>2, Induction
<1>4. Cardinality(S) \in Nat /\ S \in Upto(S, Cardinality(S))
  <2>1. Cardinality(S) \in Nat /\ Upto(S, Cardinality(S)) = SUBSET S
    BY AllUpto
  <2> QED BY <2>1
<1> HIDE DEF P
<1>5. P(S)
  BY <1>3, <1>4 DEF I
<1> QED BY <1>5 DEF P

-----------------------------------------------------------------------------
(***************************************************************************)
(* The sum of a window.  Among the claims that entered on a counter in a   *)
(* window not yet expired, those with a row up to a place have, together,  *)
(* no more than the total that place holds.                                *)
(***************************************************************************)
Spent == [k \in Key |-> Amount[k[1]]]

EnteredIn(d, w) == {k \in ChargedTo(<<"metered", d>>) : w \in EnteredAt(k)}

RowOn(r, d, w) == r \in slots /\ r.counter = <<"metered", d>> /\ r.window = w

\* Those that have a row before place n.
EnteredUpto(d, w, n) == {k \in EnteredIn(d, w) : \E r : RowOn(r, d, w) /\ r.claim = k /\ r.slot < n}

LEMMA SpentType == Spent \in [Key -> Nat]
<1>1. \A k \in Key : k[1] \in Operation
  BY SubmitAssumption DEF Key
<1> QED BY Zenon, <1>1, ConstantFacts DEF Spent

LEMMA SpentSplit ==
  ASSUME NEW S, S \subseteq Key, IsFiniteSet(S)
  PROVE /\ Total(Spent, S) \in Nat
        /\ \A x \in S : Total(Spent, S) = Spent[x] + Total(Spent, S \ {x})
<1> HIDE DEF Spent
<1>1. PICK amount : amount = Spent
  OBVIOUS
<1>2. amount \in [Key -> Nat]
  BY <1>1, SpentType
<1> QED BY SMTT(20), <1>1, <1>2, TotalSplit

\* An entered operation has its row.
LEMMA EnteredRow ==
  ASSUME ChargeInv, NEW d \in Counter, NEW w \in Nat, w + 2 > now, NEW k \in EnteredIn(d, w)
  PROVE \E r : RowOn(r, d, w) /\ r.claim = k /\ r.slot < RowsOf[d]
<1> DEFINE c == <<"metered", d>>
<1>1. c[1] = "metered" /\ c[2] = d
  OBVIOUS
<1>2. Rows(c) = RowsOf[d] /\ \A at : WindowOf(c, at) = at
  BY <1>1 DEF Rows, WindowOf
<1>3. k \in Key /\ c \in CountersIn(k)
  BY DEF EnteredIn, ChargedTo, CountersIn
<1>4. PICK v \in journal[k] : \E e \in v.entry : e.at = w
  BY DEF EnteredIn, EnteredAt
<1>5. consistent(v) /\ Charged(k, v)
  BY Zenon, <1>3 DEF ChargeInv, RecordInv
<1>6. v.stage # "NotEntered"
  BY Zenon, <1>4, <1>5 DEF consistent, requires_entry, absent
<1> HIDE DEF c
<1>7. PICK p \in v.fixed.charged : p.counter = c
  BY Zenon, <1>3, <1>5, <1>6 DEF Charged
<1>8. p.window = w /\ p.slot < RowsOf[d]
  BY Zenon, <1>2, <1>4, <1>5, <1>7 DEF Charged
<1>9. Current(p)
  BY Zenon, <1>8 DEF Current
<1>10. RowFor(p, k)
  BY Zenon, <1>5, <1>7, <1>9 DEF Charged
<1>11. PICK r \in slots : Place(r) = p /\ r.claim = k
  BY Zenon, <1>10 DEF RowFor
<1>12. r.counter = c /\ r.window = w /\ r.slot = p.slot
  BY Zenon, <1>7, <1>8, <1>11 DEF Place
<1> QED BY Zenon, <1>8, <1>11, <1>12 DEF RowOn, c

LEMMA EnteredFinite ==
  ASSUME ChargeInv, NEW d \in Counter, NEW w
  PROVE EnteredIn(d, w) \subseteq Key /\ IsFiniteSet(EnteredIn(d, w))
<1> DEFINE c == <<"metered", d>>
           S == EnteredIn(d, w)
<1>1. c[1] = "metered" /\ c[2] = d
  OBVIOUS
<1>2. Rows(c) = RowsOf[d] /\ \A at : WindowOf(c, at) = at
  BY <1>1 DEF Rows, WindowOf
<1>3. Rows(c) \in Nat
  BY Zenon, <1>2, ConstantFacts
<1> HIDE DEF c
<1>4. ASSUME NEW k \in S
      PROVE /\ k \in Key /\ c \in CountersIn(k)
            /\ \E v \in journal[k] : \E x \in v.entry : WindowOf(c, x.at) = w
  BY <1>2 DEF EnteredIn, ChargedTo, CountersIn, EnteredAt, c
<1> HIDE DEF S
<1>5. S \subseteq Key
  BY Zenon, <1>4
<1>6. MapsInto(S, Rows(c))
  BY Zenon, <1>3, <1>4, <1>5, EntriesApart
<1>7. PICK f \in [S -> 0..(Rows(c) - 1)] : \A k, m \in S : f[k] = f[m] => k = m
  BY Zenon, <1>6 DEF MapsInto
<1>8. f \in Injection(S, 0..(Rows(c) - 1))
  BY Zenon, <1>7 DEF Injection, IsInjective
<1>9. IsFiniteSet(0..(Rows(c) - 1))
  BY SMTT(20), <1>3, FS_Interval
<1>10. IsFiniteSet(S)
  BY Zenon, <1>8, <1>9, FS_Injection
<1> QED BY <1>5, <1>10 DEF S

\* The row at place n holds at least the sum of those up to it.
LEMMA TotalUpto ==
  ASSUME ChargeInv, RowsInv, NEW d \in Sums, NEW w \in Nat, w + 2 > now
  PROVE \A n \in Nat : \A p : RowOn(p, d, w) /\ p.slot = n =>
          Total(Spent, EnteredUpto(d, w, n + 1)) <= p.cumulative
<1> DEFINE U(n) == EnteredUpto(d, w, n)
           T(n) == Total(Spent, U(n))
           I == {n \in Nat : \A p : RowOn(p, d, w) /\ p.slot = n => T(n + 1) <= p.cumulative}
<1>0. d \in Counter /\ IsSum(<<"metered", d>>)
  BY ConstantFacts DEF IsSum
<1>1. EnteredIn(d, w) \subseteq Key /\ IsFiniteSet(EnteredIn(d, w))
  BY Zenon, <1>0, EnteredFinite
<1>2. \A n : U(n) \subseteq Key /\ IsFiniteSet(U(n))
  <2> SUFFICES ASSUME NEW n PROVE U(n) \subseteq Key /\ IsFiniteSet(U(n))
    OBVIOUS
  <2>1. U(n) \subseteq EnteredIn(d, w)
    BY DEF EnteredUpto
  <2> HIDE DEF U
  <2> QED BY Zenon, <1>1, <2>1, FS_Subset
<1>3. ASSUME NEW p, RowOn(p, d, w)
      PROVE /\ p.slot \in Nat /\ p.amount \in Nat /\ p.cumulative \in Nat
            /\ p.claim \in Key /\ p.amount = Spent[p.claim] /\ Follows(p)
            /\ \A r : RowOn(r, d, w) /\ r.slot = p.slot => r = p
  <2>1. p \in slots /\ p.counter = <<"metered", d>> /\ p.window = w
    BY Zenon, <1>3 DEF RowOn
  <2>2. RowOK(p) /\ Current(p)
    BY Zenon, <2>1 DEF RowsInv, Current
  <2>3. /\ p.slot \in Nat /\ p.amount \in Nat /\ p.cumulative \in Nat
        /\ p.claim \in Key
    BY Zenon, <2>1, RowShape
  <2>4. p.amount = Spent[p.claim]
    BY Zenon, <1>0, <2>1, <2>2, <2>3 DEF RowOK, Spent
  <2>5. ASSUME NEW r, RowOn(r, d, w), r.slot = p.slot PROVE r = p
    <3>1. r \in slots /\ Place(p) = Place(r)
      BY Zenon, <2>1, <2>5 DEF RowOn, Place
    <3> QED BY Zenon, <2>1, <2>2, <3>1 DEF RowsInv, OneRowPerPlace
  <2> QED BY Zenon, <2>2, <2>3, <2>4, <2>5 DEF RowOK
<1>4. ASSUME NEW p, RowOn(p, d, w)
      PROVE /\ T(p.slot) \in Nat /\ T(p.slot + 1) \in Nat
            /\ T(p.slot + 1) <= T(p.slot) + p.amount
  <2> DEFINE s == p.slot
  <2>1. /\ s \in Nat /\ p.amount \in Nat
        /\ p.claim \in Key /\ p.amount = Spent[p.claim]
        /\ \A r : RowOn(r, d, w) /\ r.slot = s => r = p
    BY Zenon, <1>3, <1>4
  <2>2. \A r : RowOn(r, d, w) => r.slot \in Nat
    BY Zenon, <1>3
  <2> HIDE DEF s
  <2>3. ASSUME NEW r, RowOn(r, d, w) PROVE r.slot < s + 1 <=> r.slot < s \/ r = p
    <3>1. r.slot \in Nat
      BY Zenon, <2>2, <2>3
    <3>2. r = p => r.slot = s
      BY DEF s
    <3>3. r.slot = s => r = p
      BY Zenon, <2>1, <2>3
    <3> QED BY SMTT(20), <2>1, <3>1, <3>2, <3>3
  <2>4. U(s + 1) = U(s) \/ (p.claim \in U(s + 1) /\ U(s + 1) \ {p.claim} = U(s))
    <3>1. \A k \in EnteredIn(d, w) : k \in U(s + 1) <=> k \in U(s) \/ k = p.claim
      BY Zenon, <1>4, <2>3 DEF EnteredUpto
    <3>2. U(s) \subseteq EnteredIn(d, w) /\ U(s + 1) \subseteq EnteredIn(d, w)
      BY Zenon DEF EnteredUpto
    <3> HIDE DEF U
    <3> QED BY Zenon, <3>1, <3>2
  <2>5. \A n : /\ Total(Spent, U(n)) \in Nat
               /\ \A x \in U(n) : Total(Spent, U(n)) = Spent[x] + Total(Spent, U(n) \ {x})
    <3> HIDE DEF U
    <3> QED BY Zenon, <1>2, SpentSplit
  <2>6. p.claim \in U(s + 1) => T(s + 1) = Spent[p.claim] + Total(Spent, U(s + 1) \ {p.claim})
    <3> HIDE DEF U
    <3> QED BY Zenon, <2>5
  <2>7. T(s) \in Nat /\ T(s + 1) \in Nat
    BY Zenon, <2>5
  <2>8. T(s + 1) = T(s) \/ T(s + 1) = p.amount + T(s)
    <3> HIDE DEF U
    <3> QED BY Zenon, <2>1, <2>4, <2>6
  <2> HIDE DEF T
  <2>9. T(s + 1) <= T(s) + p.amount
    BY SMTT(20), <2>1, <2>7, <2>8
  <2> QED BY <2>7, <2>9 DEF s
<1>5. 0 \in I
  <2> SUFFICES ASSUME NEW p, RowOn(p, d, w), p.slot = 0 PROVE T(0 + 1) <= p.cumulative
    OBVIOUS
  <2>1. p.cumulative = p.amount
    <3>1. Follows(p)
      BY Zenon, <1>3
    <3>2. \A q \in slots : q.slot \in Nat
      BY Zenon, RowShape
    <3> QED BY <3>1, <3>2 DEF Follows, Before
  <2>2. U(0) = {}
    <3>1. \A r : RowOn(r, d, w) => ~(r.slot < 0)
      BY <1>3
    <3> QED BY Zenon, <3>1 DEF EnteredUpto
  <2>3. T(0) = 0
    BY Zenon, <2>2, TotalEmpty
  <2>4. p.amount \in Nat /\ T(0 + 1) \in Nat /\ T(0 + 1) <= T(0) + p.amount
    BY Zenon, <1>3, <1>4
  <2> HIDE DEF T
  <2> QED BY SMTT(20), <2>1, <2>3, <2>4
<1>6. ASSUME NEW n \in Nat, n \in I PROVE n + 1 \in I
  <2> SUFFICES ASSUME NEW p, RowOn(p, d, w), p.slot = n + 1 PROVE T(n + 1 + 1) <= p.cumulative
    OBVIOUS
  <2>1. p.slot \in Nat /\ p.amount \in Nat /\ Follows(p) /\ p.counter = <<"metered", d>> /\ p.window = w
    BY Zenon, <1>3 DEF RowOn
  <2>2. p.slot # 0
    BY ONLY n \in Nat, p.slot = n + 1
  <2>3. PICK q \in slots : Before(q, p) /\ p.cumulative = q.cumulative + p.amount
    BY Zenon, <1>0, <2>1, <2>2 DEF Follows
  <2>4. q.slot = p.slot - 1
    BY Zenon, <2>3 DEF Before
  <2>5. q.slot = n
    BY ONLY SMTT(20), n \in Nat, p.slot = n + 1, <2>4
  <2>6. RowOn(q, d, w)
    BY Zenon, <2>1, <2>3 DEF Before, RowOn
  <2>7. T(n + 1) <= q.cumulative /\ q.cumulative \in Nat
    BY Zenon, <1>3, <1>6, <2>5, <2>6
  <2>8. T(n + 1) \in Nat /\ T(n + 1 + 1) \in Nat /\ T(n + 1 + 1) <= T(n + 1) + p.amount
    BY Zenon, <1>4
  <2> HIDE DEF T
  <2> QED BY ONLY SMTT(20), <2>1, <2>3, <2>7, <2>8
<1> HIDE DEF I
<1>7. Nat \subseteq I
  BY Zenon, <1>5, <1>6, Induction
<1> QED BY Zenon, <1>7 DEF I

\* The sums of the windows not yet expired.
CurrentSums ==
  \A d \in Sums, w \in Nat : w + 2 > now => Total(Spent, EnteredIn(d, w)) <= CapacityOf[d]

LEMMA CurrentSumsHold == ChargeInv /\ RowsInv => CurrentSums
<1> SUFFICES ASSUME ChargeInv, RowsInv, NEW d \in Sums, NEW w \in Nat, w + 2 > now
             PROVE Total(Spent, EnteredIn(d, w)) <= CapacityOf[d]
  BY Zenon DEF CurrentSums
<1> DEFINE E == EnteredIn(d, w)
           N == {n \in Nat : EnteredUpto(d, w, n) = E}
<1>0. d \in Counter /\ RowsOf[d] \in Nat /\ CapacityOf[d] \in Nat
  BY ConstantFacts, SubmitAssumption
<1>1. RowsOf[d] \in N
  <2>1. \A k \in E : \E r : RowOn(r, d, w) /\ r.claim = k /\ r.slot < RowsOf[d]
    BY Zenon, <1>0, EnteredRow
  <2>2. EnteredUpto(d, w, RowsOf[d]) = E
    BY Zenon, <2>1 DEF EnteredUpto
  <2> QED BY Zenon, <1>0, <2>2
<1>2. PICK n \in N : \A m \in N : n <= m
  <2>1. N \subseteq Nat
    BY Zenon
  <2> HIDE DEF N
  <2> QED BY Zenon, <1>1, <2>1, LeastNat
<1>3. n \in Nat /\ EnteredUpto(d, w, n) = E
  BY Zenon
<1>4. \A r : RowOn(r, d, w) => r.slot \in Nat
  BY Zenon, RowShape DEF RowOn
<1>5. CASE E = {}
  <2>1. Total(Spent, E) = 0
    BY Zenon, <1>5, TotalEmpty
  <2> QED BY <1>0, <2>1
<1>6. CASE E # {}
  <2>1. n # 0
    <3>1. \A r : RowOn(r, d, w) => ~(r.slot < 0)
      BY ONLY <1>4
    <3>2. EnteredUpto(d, w, 0) = {}
      BY Zenon, <3>1 DEF EnteredUpto
    <3> QED BY Zenon, <1>3, <1>6, <3>2
  <2>2. n - 1 \in Nat /\ ~(n <= n - 1) /\ n - 1 + 1 = n
    BY ONLY <1>3, <2>1
  <2>3. EnteredUpto(d, w, n - 1) # E
    BY Zenon, <1>2, <2>2
  <2>4. PICK k \in E : k \notin EnteredUpto(d, w, n - 1)
    BY Zenon, <2>3 DEF EnteredUpto
  <2>5. PICK r : RowOn(r, d, w) /\ r.claim = k /\ r.slot < n
    BY Zenon, <1>3, <2>4 DEF EnteredUpto
  <2>6. ~(r.slot < n - 1) /\ r.slot \in Nat
    BY Zenon, <1>4, <2>4, <2>5 DEF EnteredUpto
  <2>7. r.slot = n - 1
    BY ONLY SMTT(20), <1>3, <2>5, <2>6
  <2>8. Total(Spent, EnteredUpto(d, w, n)) <= r.cumulative
    BY Zenon, <2>2, <2>5, <2>7, TotalUpto
  <2>9. r.cumulative <= CapacityOf[d] /\ r.cumulative \in Nat
    <3>1. r \in slots /\ r.counter = <<"metered", d>>
      BY Zenon, <2>5 DEF RowOn
    <3>2. RowOK(r) /\ r.cumulative \in Nat
      BY Zenon, <3>1, RowShape DEF RowsInv
    <3> QED BY <3>1, <3>2 DEF RowOK, IsSum
  <2>10. Total(Spent, E) \in Nat
    <3>1. E \subseteq Key /\ IsFiniteSet(E)
      BY Zenon, <1>0, EnteredFinite
    <3> HIDE DEF E
    <3> QED BY Zenon, <3>1, SpentSplit
  <2>11. Total(Spent, E) <= r.cumulative
    BY Zenon, <1>3, <2>8
  <2> HIDE DEF E
  <2>12. Total(Spent, E) <= CapacityOf[d]
    BY SMTT(20), <1>0, <2>9, <2>10, <2>11
  <2> QED BY <2>12 DEF E
<1> QED BY Zenon, <1>5, <1>6

-----------------------------------------------------------------------------
(* The invariant *)

\* Once its window has expired the rows are gone, but nothing enters in it
\* any more.
SumsInv == \A d \in Sums, w \in Nat : Total(Spent, EnteredIn(d, w)) <= CapacityOf[d]

MeterInv ==
  /\ ChargeInv
  /\ RowsInv
  /\ \A t \in Task : CandidateFollows(run[t])
  /\ SumsInv

LEMMA MeterInit == Init => MeterInv
<1> SUFFICES ASSUME Init PROVE MeterInv
  OBVIOUS
<1>1. ChargeInv
  BY ChargeInit
<1>2. slots = {} /\ \A k \in Key : journal[k] = {}
  BY DEF Init
<1>3. RowsInv
  BY Zenon, <1>2 DEF RowsInv, OneRowPerPlace
<1>4. ASSUME NEW t \in Task PROVE CandidateFollows(run[t])
  <2>1. run[t].phase # "Search"
    BY Zenon DEF Init, Idle
  <2> QED BY Zenon, <2>1 DEF CandidateFollows
<1>5. ASSUME NEW d \in Sums, NEW w \in Nat PROVE Total(Spent, EnteredIn(d, w)) <= CapacityOf[d]
  <2>1. EnteredIn(d, w) = {}
    BY <1>2 DEF EnteredIn, EnteredAt, ChargedTo
  <2>2. Total(Spent, EnteredIn(d, w)) = 0
    BY Zenon, <2>1, TotalEmpty
  <2> QED BY SMTT(20), <2>2, SubmitAssumption
<1> QED BY Zenon, <1>1, <1>3, <1>4, <1>5 DEF MeterInv, SumsInv

LEMMA SumsNext ==
  ASSUME ChargeInv, SumsInv, CurrentSums', EntriesNow,
         now \in Nat, now' \in Nat, now' <= now + 1
  PROVE SumsInv'
<1> SUFFICES ASSUME NEW d \in Sums, NEW w \in Nat
             PROVE (Total(Spent, EnteredIn(d, w)) <= CapacityOf[d])'
  BY Zenon DEF SumsInv
<1>1. CASE w + 2 > now'
  BY Zenon, <1>1 DEF CurrentSums
<1>2. CASE ~(w + 2 > now')
  <2>1. w # now
    BY <1>2
  <2>2. EnteredIn(d, w)' = EnteredIn(d, w)
    <3>1. ChargedTo(<<"metered", d>>) \subseteq Key
      BY DEF ChargedTo
    <3> QED BY Zenon, <2>1, <3>1 DEF EntriesNow, EnteredIn, ChargedTo
  <2>3. Total(Spent, EnteredIn(d, w)) <= CapacityOf[d]
    BY Zenon DEF SumsInv
  <2> QED BY Zenon, <2>2, <2>3
<1> QED BY <1>1, <1>2

LEMMA MeterNext == MeterInv /\ [Next]_vars => MeterInv'
<1>1. ChargeInv' /\ RowsInv' => CurrentSums'
  BY CurrentSumsHold, PTL
<1> SUFFICES ASSUME MeterInv, [Next]_vars PROVE MeterInv'
  OBVIOUS
<1>2. ChargeInv /\ RowsInv /\ SumsInv /\ \A t \in Task : CandidateFollows(run[t])
  BY Zenon DEF MeterInv
<1>3. ChargeInv'
  BY Zenon, <1>2, ChargeNext
<1>4. RowsInv' /\ EntriesNow
  BY Zenon, <1>2, RowsNext
<1>5. \A t \in Task : CandidateFollows(run[t])'
  BY Zenon, <1>2, <1>3, CandidatesNext
<1>6. SumsInv'
  BY Zenon, <1>1, <1>2, <1>3, <1>4, ClockNext, SumsNext
<1> QED BY Zenon, <1>3, <1>4, <1>5, <1>6 DEF MeterInv

\* In every behaviour of the gateway the rows of a window not yet expired
\* follow one another from the first, and the operations that entered in a
\* window spent no more than its counters allow.
THEOREM MetersAreExact == Spec => []MeterInv
BY MeterInit, MeterNext, PTL DEF Spec

-----------------------------------------------------------------------------
(***************************************************************************)
(* The ledger.  The rows of a counter and a window before place n.         *)
(***************************************************************************)
RowsBefore(c, w, n) == {q \in slots : q.counter = c /\ q.window = w /\ q.slot < n}

Amounts == [q \in slots |-> q.amount]

\* They are n rows, one at each place.
Gapless(S, n) == IsFiniteSet(S) /\ Cardinality(S) = n /\ {q.slot : q \in S} = 0..(n - 1)

LEMMA NoRows == Gapless({}, 0)
<1>1. IsFiniteSet({}) /\ Cardinality({}) = 0
  BY FS_EmptySet
<1> QED BY <1>1 DEF Gapless

LEMMA GaplessFacts ==
  ASSUME NEW S, NEW n \in Nat, Gapless(S, n + 1)
  PROVE {q.slot : q \in S} = 0..n /\ Cardinality(S) = n + 1
BY DEF Gapless

LEMMA OneMoreRow ==
  ASSUME NEW S, NEW n \in Nat, Gapless(S, n), NEW p, p.slot = n
  PROVE Gapless(S \cup {p}, n + 1) /\ p \notin S
<1>1. IsFiniteSet(S) /\ Cardinality(S) = n /\ {q.slot : q \in S} = 0..(n - 1)
  BY DEF Gapless
<1>2. n \notin 0..(n - 1) /\ (0..(n - 1)) \cup {n} = 0..(n + 1 - 1)
  BY ONLY n \in Nat
<1>3. p \notin S
  BY Zenon, <1>1, <1>2
<1>4. IsFiniteSet(S \cup {p}) /\ Cardinality(S \cup {p}) = n + 1
  BY Zenon, <1>1, <1>3, FS_AddElement
<1>5. {q.slot : q \in S \cup {p}} = {q.slot : q \in S} \cup {n}
  OBVIOUS
<1>6. {q.slot : q \in S \cup {p}} = 0..(n + 1 - 1)
  BY Zenon, <1>1, <1>2, <1>5
<1> QED BY SMTT(20), <1>3, <1>4, <1>6 DEF Gapless

LEMMA AmountsSplit ==
  ASSUME ChargeInv, NEW S, S \subseteq slots, IsFiniteSet(S), NEW p \in S
  PROVE Total(Amounts, S) = p.amount + Total(Amounts, S \ {p})
<1>1. Amounts \in [slots -> Nat] /\ Amounts[p] = p.amount
  BY RowShape DEF Amounts
<1>2. PICK amount : amount = Amounts
  OBVIOUS
<1>3. Total(amount, S) = amount[p] + Total(amount, S \ {p})
  BY SMTT(20), <1>1, <1>2, TotalSplit
<1> QED BY Zenon, <1>1, <1>2, <1>3

LEMMA LedgerUpto ==
  ASSUME ChargeInv, RowsInv, NEW c, NEW w
  PROVE \A n \in Nat : \A p \in slots :
          p.counter = c /\ p.window = w /\ p.slot = n /\ Current(p) =>
            /\ Gapless(RowsBefore(c, w, n + 1), n + 1)
            /\ IsSum(c) => p.cumulative = Total(Amounts, RowsBefore(c, w, n + 1))
<1> DEFINE B(n) == RowsBefore(c, w, n)
           At(p, n) == p \in slots /\ p.counter = c /\ p.window = w /\ p.slot = n /\ Current(p)
           I == {n \in Nat : \A p : At(p, n) =>
                   /\ Gapless(B(n + 1), n + 1)
                   /\ IsSum(c) => p.cumulative = Total(Amounts, B(n + 1))}
<1>1. ASSUME NEW n \in Nat, NEW p, At(p, n)
      PROVE /\ p.amount \in Nat /\ p.cumulative \in Nat /\ Follows(p)
            /\ B(n + 1) = B(n) \cup {p}
  <2>1. RowOK(p) /\ p.amount \in Nat /\ p.cumulative \in Nat
    BY Zenon, <1>1, RowShape DEF RowsInv
  <2>2. \A q \in slots : q.slot \in Nat
    BY Zenon, RowShape
  <2>3. \A q \in slots : q.counter = c /\ q.window = w /\ q.slot = n => q = p
    BY Zenon, <1>1 DEF RowsInv, OneRowPerPlace, Place
  <2>4. \A q \in slots : q.counter = c /\ q.window = w =>
          (q.slot < n + 1 <=> q.slot < n \/ q = p)
    BY SMTT(20), <1>1, <2>2, <2>3
  <2>5. B(n + 1) = B(n) \cup {p}
    BY Zenon, <1>1, <2>4 DEF RowsBefore
  <2> QED BY Zenon, <1>1, <2>1, <2>5 DEF RowOK
<1>2. ASSUME NEW n \in Nat, NEW p, At(p, n), Gapless(B(n), n)
      PROVE /\ Gapless(B(n + 1), n + 1)
            /\ Total(Amounts, B(n + 1)) = p.amount + Total(Amounts, B(n))
  <2>1. B(n + 1) = B(n) \cup {p} /\ p.slot = n
    BY Zenon, <1>1, <1>2
  <2>2. B(n + 1) \subseteq slots
    BY Zenon DEF RowsBefore
  <2> HIDE DEF B
  <2>3. Gapless(B(n + 1), n + 1) /\ p \notin B(n)
    BY Zenon, <1>2, <2>1, OneMoreRow
  <2>4. p \in B(n + 1) /\ B(n + 1) \ {p} = B(n)
    BY Zenon, <2>1, <2>3
  <2>5. IsFiniteSet(B(n + 1))
    BY Zenon, <2>3 DEF Gapless
  <2> QED BY Zenon, <2>2, <2>3, <2>4, <2>5, AmountsSplit
<1>3. \A q \in slots : q.slot \in Nat
  BY Zenon, RowShape
<1>4. 0 \in I
  <2> SUFFICES ASSUME NEW p, At(p, 0)
               PROVE /\ Gapless(B(0 + 1), 0 + 1)
                     /\ IsSum(c) => p.cumulative = Total(Amounts, B(0 + 1))
    OBVIOUS
  <2>0. 0 \in Nat
    OBVIOUS
  <2>1. p.amount \in Nat /\ Follows(p) /\ p.slot = 0
    BY Zenon, <1>1, <2>0
  <2>2. p.cumulative = p.amount
    BY SMTT(20), <1>3, <2>1 DEF Follows, Before
  <2>3. B(0) = {}
    BY <1>3 DEF RowsBefore
  <2>4. Gapless(B(0), 0) /\ Total(Amounts, B(0)) = 0
    BY Zenon, <2>3, NoRows, TotalEmpty
  <2>5. Gapless(B(0 + 1), 0 + 1) /\ Total(Amounts, B(0 + 1)) = p.amount + Total(Amounts, B(0))
    BY Zenon, <1>2, <2>0, <2>4
  <2> HIDE DEF B
  <2> QED BY SMTT(20), <2>1, <2>2, <2>4, <2>5
<1>5. ASSUME NEW n \in Nat, n \in I PROVE n + 1 \in I
  <2> SUFFICES ASSUME NEW p, At(p, n + 1)
               PROVE /\ Gapless(B(n + 1 + 1), n + 1 + 1)
                     /\ IsSum(c) => p.cumulative = Total(Amounts, B(n + 1 + 1))
    OBVIOUS
  <2>1. n + 1 \in Nat /\ n + 1 # 0 /\ n + 1 - 1 = n
    BY ONLY n \in Nat
  <2>2. p.amount \in Nat /\ Follows(p) /\ p.slot = n + 1 /\ p.counter = c /\ p.window = w
    BY Zenon, <1>1, <2>1
  <2>3. PICK q \in slots : Before(q, p) /\ (IsSum(c) => p.cumulative = q.cumulative + p.amount)
    BY Zenon, <2>1, <2>2 DEF Follows
  <2>4. At(q, n)
    <3>1. q.counter = p.counter /\ q.window = p.window /\ q.slot = p.slot - 1
      BY Zenon, <2>3 DEF Before
    <3>2. Current(q)
      BY Zenon, <3>1 DEF Current
    <3> QED BY SMTT(20), <2>1, <2>2, <3>1, <3>2
  <2>5. Gapless(B(n + 1), n + 1) /\ (IsSum(c) => q.cumulative = Total(Amounts, B(n + 1)))
    BY Zenon, <1>5, <2>4
  <2>6. /\ Gapless(B(n + 1 + 1), n + 1 + 1)
        /\ Total(Amounts, B(n + 1 + 1)) = p.amount + Total(Amounts, B(n + 1))
    BY Zenon, <1>2, <2>1, <2>5
  <2>7. q.cumulative \in Nat
    BY Zenon, <1>1, <2>4
  <2> HIDE DEF B
  <2>8. q.cumulative + p.amount = p.amount + q.cumulative
    BY ONLY SMTT(20), <2>2, <2>7
  <2> QED BY Zenon, <2>3, <2>5, <2>6, <2>8
<1> HIDE DEF I
<1>6. Nat \subseteq I
  BY Zenon, <1>4, <1>5, Induction
<1> QED BY Zenon, <1>6 DEF I

LEMMA LedgerHolds == ASSUME ChargeInv, RowsInv PROVE LedgerExact
<1> DEFINE rows == {r \in slots : Current(r)}
           upto(r) == {q \in rows : q.counter = r.counter /\ q.window = r.window
                                      /\ q.slot <= r.slot}
<1>1. ASSUME NEW r \in rows
      PROVE /\ {q.slot : q \in upto(r)} = 0..r.slot
            /\ Cardinality(upto(r)) = r.slot + 1
            /\ IsSum(r.counter) => r.cumulative = Total(Amounts, upto(r))
            /\ \E v \in journal[r.claim] :
                 [counter |-> r.counter, window |-> r.window, slot |-> r.slot] \in v.fixed.charged
  <2>1. r \in slots /\ Current(r) /\ RowOK(r) /\ r.slot \in Nat
    BY Zenon, RowShape DEF RowsInv
  <2>2. \A q \in slots : q.slot \in Nat
    BY Zenon, RowShape
  <2>3. upto(r) = RowsBefore(r.counter, r.window, r.slot + 1)
    <3>1. \A q \in slots : q.slot <= r.slot <=> q.slot < r.slot + 1
      BY SMTT(20), <2>1, <2>2
    <3>2. \A q \in slots : q.counter = r.counter /\ q.window = r.window => Current(q)
      BY Zenon, <2>1 DEF Current
    <3> QED BY Zenon, <3>1, <3>2 DEF RowsBefore
  <2> HIDE DEF upto
  <2>4. /\ Gapless(upto(r), r.slot + 1)
        /\ IsSum(r.counter) => r.cumulative = Total(Amounts, upto(r))
    <3> DEFINE B == RowsBefore(r.counter, r.window, r.slot + 1)
    <3>1. Gapless(B, r.slot + 1) /\ (IsSum(r.counter) => r.cumulative = Total(Amounts, B))
      BY Zenon, <2>1, LedgerUpto
    <3> QED BY Zenon, <2>3, <3>1
  <2>5. {q.slot : q \in upto(r)} = 0..r.slot /\ Cardinality(upto(r)) = r.slot + 1
    BY Zenon, <2>1, <2>4, GaplessFacts
  <2>6. \E v \in journal[r.claim] :
          [counter |-> r.counter, window |-> r.window, slot |-> r.slot] \in v.fixed.charged
    BY Zenon, <2>1 DEF RowOK, Place
  <2> QED BY Zenon, <2>4, <2>5, <2>6
<1>2. ASSUME NEW k \in Key, NEW v \in journal[k]
      PROVE /\ \A c \in v.fixed.charged : Current(c) => Row(c.counter, c.window, c.slot) # {}
            /\ {c.counter : c \in v.fixed.charged}
                 \in {{}, {CountersOf(k)[n] : n \in 1..Len(CountersOf(k))}}
  <2>1. Charged(k, v)
    BY Zenon DEF ChargeInv, RecordInv
  <2>2. ASSUME NEW c \in v.fixed.charged, Current(c) PROVE Row(c.counter, c.window, c.slot) # {}
    <3>1. RowFor(c, k)
      BY Zenon, <2>1, <2>2 DEF Charged
    <3>2. PICK r \in slots : Place(r) = c
      BY Zenon, <3>1 DEF RowFor
    <3>3. r.counter = c.counter /\ r.window = c.window /\ r.slot = c.slot
      BY Zenon, <3>2 DEF Place
    <3> QED BY Zenon, <3>3 DEF Row
  <2>3. Whole(k, v)
    BY Zenon DEF RowsInv
  <2> QED BY Zenon, <2>2, <2>3 DEF Whole, CountersIn
<1> QED BY Zenon, <1>1, <1>2 DEF LedgerExact, Amounts

-----------------------------------------------------------------------------
(* The theorems *)

\* Over its lifetime no engagement admits more operations than its ceiling,
\* and no mutation more recovery reads than its allocation, whatever tasks
\* race for the last row.
THEOREM LifetimeCapacityAlways == Spec => []LifetimeCapacity
<1>1. ChargeInv => LifetimeCapacity
  BY Zenon, LifetimeCounts, PigeonholeHolds
<1> QED
  BY <1>1, ChargesAreApart, PTL

\* In no window do the operations entered in it exceed the count or the sum
\* of a counter they are charged to, although rows are chosen outside the
\* lock, reservations outlive their window and old rows are deleted.
THEOREM WindowCapacityAlways == Spec => []WindowCapacity
<1>1. MeterInv => WindowCapacity
  <2> SUFFICES ASSUME MeterInv PROVE WindowCapacity
    OBVIOUS
  <2>1. ChargeInv /\ SumsInv
    BY Zenon DEF MeterInv
  <2>2. WindowCount
    BY Zenon, <2>1, WindowCounts, PigeonholeHolds
  <2>3. 0..now \subseteq Nat
    BY SMTT(20), <2>1, WorldFacts
  <2> QED BY Zenon, <2>1, <2>2, <2>3 DEF WindowCapacity, WindowCount, SumsInv, EnteredIn, Spent
<1> QED
  BY <1>1, MetersAreExact, PTL

\* The rows of a window not yet expired are an exact ledger of its claims: a
\* gapless prefix, each total the sum of the amounts up to it, and a row for
\* exactly the counters its claim says it is charged to, all of them or none.
THEOREM LedgerExactAlways == Spec => []LedgerExact
<1>1. MeterInv => LedgerExact
  BY Zenon, LedgerHolds DEF MeterInv
<1> QED
  BY <1>1, MetersAreExact, PTL
=============================================================================
