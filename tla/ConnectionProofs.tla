-------------------------- MODULE ConnectionProofs --------------------------
(***************************************************************************)
(* What an answer that says "drained" means, that the records which        *)
(* authorise the entries of a host form one line, and what rotation,       *)
(* retirement, collection and revocation may do to the credential stores,  *)
(* for any number of hosts, admin commands, submissions, faults and        *)
(* restores.                                                               *)
(***************************************************************************)
EXTENDS GatewayConnection, TLAPS

SessionShape(a) ==
  /\ DOMAIN a = {"pc", "round", "seen", "first", "next", "todo", "due", "held", "proposal",
                 "outcome", "drained", "accepted"}
  /\ a.seen.generation \in Nat
  /\ a.drained \in BOOLEAN
  /\ a.drained => a.pc = "done"

TaskShape(x) ==
  /\ DOMAIN x = {"pc", "stage", "seen", "prepared", "counted"}
  /\ x.seen.generation \in Nat /\ x.prepared.generation \in Nat
  /\ x.counted \in BOOLEAN /\ x.stage \in {"prepare", "reload", "entry"}
  /\ x.pc \in {"send", "record"} => x.stage = "entry"
  /\ x.stage = "entry" /\ x.pc # "done" => x.counted

\* The floor of its host has seen the record the command goes on with.
Witnessed(s, a) ==
  \/ a.pc \in {"holds", "confirm", "schedule", "retire", "delete", "drain"}
  \/ a.pc = "change" /\ Command(s).verb \notin Emergency
  \/ a.drained

SessionOK(s) ==
  /\ SessionShape(admin[s])
  /\ Witnessed(s, admin[s]) => admin[s].seen.generation <= floor[HostOf(s)].generation

HostOK(h) ==
  /\ floor[h].generation \in Nat /\ entered[h].generation \in Nat
  /\ entered[h] = floor[h] \/ entered[h].generation < floor[h].generation

SharedOK == record.generation \in Nat /\ \A r \in past : r.generation \in Nat

Functions == 
  /\ floor = [h \in Host |-> floor[h]] /\ entered = [h \in Host |-> entered[h]]
  /\ admin = [s \in Session |-> admin[s]] /\ task = [t \in Task |-> task[t]]

(***************************************************************************)
(* The inductive invariant.  DrainedMeansRecorded alone is not inductive:  *)
(* a submission may pass its last reload after the answer, and then only   *)
(* the floor, which the command has raised, keeps it from an older record. *)
(***************************************************************************)
AuthorityInv ==
  /\ load \in Workload
  /\ Functions
  /\ SharedOK
  /\ \A h \in Host : HostOK(h)
  /\ \A s \in Session : SessionOK(s)
  /\ \A t \in Task : TaskShape(task[t])
  /\ DrainedMeansRecorded

Rises ==
  /\ floor' = [h \in Host |-> floor'[h]]
  /\ \A h \in Host :
       \/ floor'[h] = floor[h]
       \/ floor'[h].generation \in Nat /\ floor[h].generation < floor'[h].generation

LEMMA HostFacts ==
  ASSUME load \in Workload
  PROVE /\ \A s \in Session : HostOf(s) \in Host
        /\ \A t \in Task : TaskHost[t] \in Host
BY ConnectionAssumption DEF HostOf

LEMMA RiseFacts ==
  ASSUME AuthorityInv, Rises, NEW h \in Host
  PROVE floor[h].generation <= floor'[h].generation /\ floor'[h].generation \in Nat
BY DEF AuthorityInv, HostOK, Rises

\* A step of one session.
LEMMA SessionKeeps ==
  ASSUME AuthorityInv, NEW s \in Session, NEW a, Become(s, a),
         UNCHANGED <<load, task, entered>>, SharedOK', Rises,
         SessionShape(a),
         Witnessed(s, a) => a.seen.generation <= floor'[HostOf(s)].generation,
         a.drained => \A t \in Task : TaskHost[t] = HostOf(s) => ~task[t].counted
  PROVE AuthorityInv'
<1>1. /\ admin' = [u \in Session |-> admin'[u]]
      /\ admin'[s] = a
      /\ \A u \in Session : u # s => admin'[u] = admin[u]
  BY DEF AuthorityInv, Functions, Become
<1>2. \A h \in Host : HostOK(h)'
  BY DEF AuthorityInv, HostOK, Rises
<1>3. \A u \in Session : HostOf(u)' = HostOf(u) /\ HostOf(u) \in Host /\ Command(u)' = Command(u)
  BY HostFacts DEF AuthorityInv, HostOf, Command
<1>4. ASSUME NEW u \in Session PROVE SessionOK(u)'
  <2>1. CASE u = s
    BY <2>1, <1>1, <1>3 DEF SessionOK, Witnessed
  <2>2. CASE u # s
    <3>1. SessionOK(u) /\ admin'[u] = admin[u]
      BY <2>2, <1>1 DEF AuthorityInv
    <3>2. floor[HostOf(u)].generation <= floor'[HostOf(u)].generation
          /\ floor'[HostOf(u)].generation \in Nat /\ floor[HostOf(u)].generation \in Nat
      BY <1>3, RiseFacts DEF AuthorityInv, HostOK
    <3>3. admin[u].seen.generation \in Nat
      BY <3>1 DEF SessionOK, SessionShape
    <3> QED
      BY <3>1, <3>2, <3>3, <1>3 DEF SessionOK, Witnessed
  <2> QED
    BY <2>1, <2>2
<1>5. \A t \in Task : TaskShape(task[t])'
  BY DEF AuthorityInv, TaskShape
<1>6. DrainedMeansRecorded'
  <2> SUFFICES ASSUME NEW u \in Session, NEW t \in Task, admin'[u].drained,
                      HostOf(u) = TaskHost[t], task[t].pc \in {"send", "record"}
               PROVE task[t].prepared.generation >= admin'[u].seen.generation
    BY <1>3 DEF DrainedMeansRecorded
  <2>1. CASE u = s
    <3>1. task[t].counted
      BY DEF AuthorityInv, TaskShape
    <3> QED
      BY <2>1, <1>1, <3>1
  <2>2. CASE u # s
    BY <2>2, <1>1 DEF AuthorityInv, DrainedMeansRecorded
  <2> QED
    BY <2>1, <2>2
<1>7. Functions'
  BY <1>1 DEF AuthorityInv, Functions, Rises
<1> QED
  BY <1>2, <1>4, <1>5, <1>6, <1>7 DEF AuthorityInv

Fields == {"pc", "round", "seen", "first", "next", "todo", "due", "held", "proposal",
           "outcome", "drained", "accepted"}

\* What every step of a session leaves alone, or moves the right way.
SessionFrame == UNCHANGED <<load, task, entered>> /\ SharedOK' /\ Rises

LEMMA StayFrame ==
  ASSUME AuthorityInv, UNCHANGED <<record, past, floor, load, task, entered>>
  PROVE SessionFrame
BY DEF AuthorityInv, Functions, SharedOK, SessionFrame, Rises

LEMMA RaiseFrame ==
  ASSUME AuthorityInv, NEW h \in Host, NEW r, r.generation \in Nat, Accepts(h, r),
         floor' = [floor EXCEPT ![h] = r]
  PROVE Rises /\ floor'[h] = r
<1>1. /\ floor'[h] = r /\ \A o \in Host : o # h => floor'[o] = floor[o]
      /\ floor' = [o \in Host |-> floor'[o]]
  BY DEF AuthorityInv, Functions
<1> QED
  BY <1>1 DEF Rises, Accepts

\* A command that goes on.
LEMMA GoesOn ==
  ASSUME AuthorityInv, NEW s \in Session, NEW a, Become(s, a), SessionFrame,
         admin[s].pc # "done", DOMAIN a = Fields, a.seen.generation \in Nat,
         a.drained = admin[s].drained,
         Witnessed(s, a) => a.seen.generation <= floor'[HostOf(s)].generation
  PROVE AuthorityInv'
<1>1. a.drained = FALSE
  BY DEF AuthorityInv, SessionOK, SessionShape
<1>2. SessionShape(a)
  BY Zenon, <1>1 DEF SessionShape, Fields
<1> QED
  BY <1>1, <1>2, SessionKeeps DEF SessionFrame

\* A command that is answered without a claim to have drained.
LEMMA IsAnswered ==
  ASSUME AuthorityInv, NEW s \in Session, NEW a, NEW outcome, SessionFrame,
         Become(s, Ended(a, outcome, FALSE)),
         DOMAIN a = Fields, a.seen.generation \in Nat
  PROVE AuthorityInv'
<1> DEFINE e == Ended(a, outcome, FALSE)
<1>1. DOMAIN e = Fields /\ e.pc = "done" /\ e.drained = FALSE /\ e.seen = a.seen
  BY DEF Ended, Fields
<1> HIDE DEF e
<1>2. Become(s, e)
  BY Zenon DEF e
<1>3. SessionShape(e) /\ ~Witnessed(s, e)
  BY Zenon, <1>1 DEF SessionShape, Fields, Witnessed
<1> QED
  BY <1>1, <1>2, <1>3, SessionKeeps DEF SessionFrame

LEMMA AnswerKeeps ==
  ASSUME AuthorityInv, NEW s \in Session, NEW outcome, SessionFrame, Answer(s, outcome)
  PROVE AuthorityInv'
<1>1. DOMAIN admin[s] = Fields /\ admin[s].seen.generation \in Nat
  BY DEF AuthorityInv, SessionOK, SessionShape, Fields
<1> QED
  BY Zenon, <1>1, IsAnswered DEF Answer

\* What a count of zero says.
CountsTrue ==
  \A h \in Host : in_flight(h) = 0 => \A t \in Task : TaskHost[t] = h => ~task[t].counted

\* A command that waits for the entries of its server and says what it found.
LEMMA DrainKeeps ==
  ASSUME AuthorityInv, CountsTrue, NEW s \in Session, NEW outcome, SessionFrame,
         admin[s].pc \in {"drain", "retire"},
         Become(s, Ended(admin[s], outcome, in_flight(HostOf(s)) = 0))
  PROVE AuthorityInv'
<1> DEFINE free == in_flight(HostOf(s)) = 0
           e == Ended(admin[s], outcome, free)
<1>0. DOMAIN admin[s] = Fields /\ admin[s].seen.generation \in Nat
      /\ admin[s].seen.generation <= floor[HostOf(s)].generation
  BY DEF AuthorityInv, SessionOK, SessionShape, Fields, Witnessed
<1>1. free \in BOOLEAN /\ (free => \A t \in Task : TaskHost[t] = HostOf(s) => ~task[t].counted)
  BY HostFacts DEF AuthorityInv, CountsTrue
<1> HIDE DEF free
<1>2. DOMAIN e = Fields /\ e.pc = "done" /\ e.drained = free /\ e.seen = admin[s].seen
  BY Zenon, <1>0 DEF Ended, Fields
<1>3. Become(s, e)
  BY DEF free
<1> HIDE DEF e
<1>4. SessionShape(e)
  BY <1>0, <1>1, <1>2 DEF SessionShape, Fields
<1>5. e.seen.generation <= floor'[HostOf(s)].generation
  <2>1. HostOf(s) \in Host
    BY HostFacts DEF AuthorityInv
  <2>2. floor[HostOf(s)].generation <= floor'[HostOf(s)].generation
        /\ floor'[HostOf(s)].generation \in Nat /\ floor[HostOf(s)].generation \in Nat
    BY <2>1, RiseFacts DEF AuthorityInv, HostOK, SessionFrame
  <2> QED
    BY <2>2, <1>0, <1>2
<1> QED
  BY <1>1, <1>2, <1>3, <1>4, <1>5, SessionKeeps DEF SessionFrame

LEMMA SessionFacts ==
  ASSUME AuthorityInv, NEW s \in Session
  PROVE /\ DOMAIN admin[s] = Fields
        /\ admin[s].seen.generation \in Nat
        /\ Witnessed(s, admin[s]) => admin[s].seen.generation <= floor[HostOf(s)].generation
        /\ HostOf(s) \in Host
        /\ record.generation \in Nat
BY HostFacts DEF AuthorityInv, SessionOK, SessionShape, Fields, SharedOK

\* Only the place of the command changes.
LEMMA GotoKeeps ==
  ASSUME AuthorityInv, NEW s \in Session, NEW pc, Goto(s, pc), SessionFrame,
         admin[s].pc # "done",
         pc \in {"holds", "confirm", "schedule", "retire", "delete", "drain", "change"} =>
           \/ pc = "change" /\ Command(s).verb \in Emergency
           \/ admin[s].seen.generation <= floor'[HostOf(s)].generation
  PROVE AuthorityInv'
<1> DEFINE a == [admin[s] EXCEPT !.pc = pc]
<1>1. DOMAIN a = Fields /\ a.pc = pc /\ a.seen = admin[s].seen /\ a.drained = admin[s].drained
  BY SessionFacts DEF Fields
<1>2. Become(s, a)
  BY DEF Goto
<1>3. admin[s].drained = FALSE
  BY DEF AuthorityInv, SessionOK, SessionShape
<1> HIDE DEF a
<1> QED
  BY <1>1, <1>2, <1>3, GoesOn, SessionFacts DEF Witnessed

LEMMA RotationFailsKeeps ==
  ASSUME AuthorityInv, NEW s \in Session, RotationFails(s), SessionFrame, admin[s].pc # "done"
  PROVE AuthorityInv'
BY GotoKeeps, AnswerKeeps DEF RotationFails

LEMMA AfterLoadKeeps ==
  ASSUME AuthorityInv, NEW s \in Session, AfterLoad(s), SessionFrame, At(s, "accept"),
         \/ SkipsFloor(s)
         \/ admin[s].seen.generation <= floor'[HostOf(s)].generation
  PROVE AuthorityInv'
<1> DEFINE verb == Command(s).verb
           b == [admin[s] EXCEPT !.pc = "publish", !.next = admin[s].seen.generation + 1]
<1>0. admin[s].pc # "done"
  BY DEF At
<1>1. CASE verb \in Changes
  <2>1. Goto(s, "change")
    BY <1>1 DEF AfterLoad, Changes, Emergency, Candidates
  <2>2. \/ verb \in Emergency \/ admin[s].seen.generation <= floor'[HostOf(s)].generation
    BY <1>1 DEF SkipsFloor, Changes, Emergency
  <2> QED
    BY <2>1, <2>2, <1>0, GotoKeeps
<1>2. CASE verb = "collect"
  <2>1. Goto(s, "notes") \/ Goto(s, "collect") \/ Answer(s, "refused")
    BY <1>2 DEF AfterLoad, Changes, Emergency, Candidates
  <2> QED
    BY <2>1, <1>0, GotoKeeps, AnswerKeeps
<1>3. CASE verb \in Candidates
  <2>1. AfterCandidateLoad(s)
    BY <1>3 DEF AfterLoad, Changes, Emergency, Candidates
  <2>2. Goto(s, "keep") \/ Goto(s, "present") \/ \E outcome : Answer(s, outcome)
    BY <2>1 DEF AfterCandidateLoad
  <2> QED
    BY <2>2, <1>0, GotoKeeps, AnswerKeeps
<1>4. CASE verb \notin Changes \cup Candidates /\ verb # "collect"
  <2>1. ~SkipsFloor(s)
    BY <1>4 DEF SkipsFloor, Changes, Emergency
  <2>2. CASE admin[s].seen.state = "Revoked"
    <3>1. Answer(s, "refused")
      BY <1>4, <2>2 DEF AfterLoad
    <3> QED
      BY <3>1, AnswerKeeps
  <2>3. CASE admin[s].seen.state # "Revoked" /\ verb = "commit"
    <3>1. Become(s, b)
      BY <1>4, <2>3 DEF AfterLoad
    <3>2. DOMAIN b = Fields /\ b.pc = "publish" /\ b.seen = admin[s].seen /\ b.drained = admin[s].drained
      BY SessionFacts DEF Fields
    <3>3. b.drained = FALSE
      BY <3>2, <1>0 DEF AuthorityInv, SessionOK, SessionShape
    <3> HIDE DEF b
    <3> QED
      BY <3>1, <3>2, <3>3, <1>0, GoesOn, SessionFacts DEF Witnessed
  <2>4. CASE admin[s].seen.state # "Revoked" /\ verb # "commit"
    <3>1. Goto(s, "holds")
      BY <1>4, <2>4 DEF AfterLoad
    <3> QED
      BY <3>1, <2>1, <1>0, GotoKeeps
  <2> QED
    BY <2>2, <2>3, <2>4
<1> QED
  BY <1>1, <1>2, <1>3, <1>4

LEMMA ReadRecordKeeps ==
  ASSUME AuthorityInv, NEW s \in Session, ReadRecord(s)
  PROVE AuthorityInv'
<1> DEFINE a == [admin[s] EXCEPT !.seen = record, !.pc = "accept"]
<1>1. DOMAIN a = Fields /\ a.pc = "accept" /\ a.seen = record /\ a.drained = admin[s].drained
  BY SessionFacts DEF Fields
<1>2. Become(s, a) /\ admin[s].pc # "done"
  BY DEF ReadRecord, At
<1>3. admin[s].drained = FALSE
  BY <1>2 DEF AuthorityInv, SessionOK, SessionShape
<1>4. SessionFrame
  BY StayFrame DEF ReadRecord, sharedVars, hostVars
<1> HIDE DEF a
<1> QED
  BY <1>1, <1>2, <1>3, <1>4, GoesOn, SessionFacts DEF Witnessed

LEMMA AcceptRecordKeeps ==
  ASSUME AuthorityInv, NEW s \in Session, AcceptRecord(s)
  PROVE AuthorityInv'
<1> USE DEF AcceptRecord, sharedVars
<1>1. CASE SkipsFloor(s)
  BY <1>1, StayFrame, AfterLoadKeeps
<1>2. CASE ~SkipsFloor(s) /\ Accepts(HostOf(s), admin[s].seen)
  <2>1. Rises /\ floor'[HostOf(s)] = admin[s].seen
    BY <1>2, RaiseFrame, SessionFacts
  <2>2. SessionFrame
    BY <2>1 DEF SessionFrame, AuthorityInv, SharedOK
  <2>3. admin[s].seen.generation <= floor'[HostOf(s)].generation
    BY <2>1, SessionFacts
  <2> QED
    BY <1>2, <2>2, <2>3, AfterLoadKeeps
<1>3. CASE ~SkipsFloor(s) /\ ~Accepts(HostOf(s), admin[s].seen)
  BY <1>3, StayFrame, AnswerKeeps
<1> QED
  BY <1>1, <1>2, <1>3

\* The record of a change is in place and the floor has seen it.
LEMMA AfterChangeKeeps ==
  ASSUME AuthorityInv, NEW s \in Session, NEW r, AfterChange(s, r), SessionFrame,
         admin[s].pc # "done", r.generation \in Nat,
         \/ Command(s).verb \in Emergency
         \/ r.generation <= floor'[HostOf(s)].generation
  PROVE AuthorityInv'
<1> DEFINE a == [admin[s] EXCEPT !.seen = r]
           b(pc) == [a EXCEPT !.pc = pc]
<1>1. DOMAIN a = Fields /\ a.seen = r /\ a.drained = admin[s].drained
  BY SessionFacts DEF Fields
<1>2. \A pc : DOMAIN b(pc) = Fields /\ b(pc).seen = r /\ b(pc).drained = admin[s].drained
              /\ b(pc).pc = pc
  BY <1>1 DEF Fields
<1>3. CASE Command(s).verb \in Emergency
  <2>1. Command(s).verb # "revoke"
    BY <1>3 DEF Emergency
  <2>2. Become(s, Ended(a, "stopped", FALSE))
    BY Zenon, <1>3, <2>1 DEF AfterChange
  <2> HIDE DEF a
  <2> QED
    BY Zenon, <2>2, <1>1, IsAnswered
<1>4. CASE Command(s).verb \notin Emergency
  <2>1. Become(s, b("delete")) \/ Become(s, b("drain"))
    BY <1>4 DEF AfterChange
  <2> HIDE DEF b, a
  <2>2. r.generation <= floor'[HostOf(s)].generation
    BY <1>4
  <2>3. ASSUME NEW pc, Become(s, b(pc)) PROVE AuthorityInv'
    <3> DEFINE c == b(pc)
    <3>1. DOMAIN c = Fields /\ c.seen = r /\ c.drained = admin[s].drained /\ Become(s, c)
      BY <1>2, <2>3
    <3> HIDE DEF c
    <3> QED
      BY <3>1, <2>2, GoesOn
  <2> QED
    BY <2>1, <2>3
<1> QED
  BY <1>3, <1>4

\* The shared record after a compare-and-swap.
LEMMA SwapFrame ==
  ASSUME AuthorityInv, NEW s \in Session, NEW r, Swap(s, r), r.generation \in Nat,
         UNCHANGED <<floor, load, task, entered>>
  PROVE SessionFrame
<1>1. Rises
  BY DEF AuthorityInv, Functions, Rises
<1>2. SharedOK'
  BY DEF AuthorityInv, SharedOK, Swap
<1> QED
  BY <1>1, <1>2 DEF SessionFrame

LEMMA ChangeKeeps ==
  ASSUME AuthorityInv, NEW s \in Session, Change(s)
  PROVE AuthorityInv'
<1> DEFINE a == admin[s]
           verb == Command(s).verb
           next == transition_state(a.seen, Target(verb))
           b == [a EXCEPT !.pc = "witness", !.seen = next]
           c == [a EXCEPT !.pc = "read", !.round = a.round + 1]
<1>0. a.pc = "change" /\ a.pc # "done" /\ UNCHANGED <<floor, load, task, entered>>
  BY DEF Change, At, hostVars
<1>1. next.generation \in Nat
  BY SessionFacts DEF transition_state
<1>2. /\ DOMAIN b = Fields /\ b.pc = "witness" /\ b.seen = next /\ b.drained = a.drained
      /\ DOMAIN c = Fields /\ c.pc = "read" /\ c.seen = a.seen /\ c.drained = a.drained
  BY SessionFacts DEF Fields
<1>3. a.drained = FALSE
  BY <1>0 DEF AuthorityInv, SessionOK, SessionShape
<1>4. \/ /\ UNCHANGED sharedVars
         /\ AfterChange(s, a.seen) \/ Answer(s, "refused") \/ Become(s, c)
      \/ /\ Swap(s, next)
         /\ (verb \in Emergency /\ AfterChange(s, next)) \/ Become(s, b)
  BY DEF Change
<1> HIDE DEF b, c, next
<1>5. CASE UNCHANGED sharedVars /\ (AfterChange(s, a.seen) \/ Answer(s, "refused") \/ Become(s, c))
  <2>1. SessionFrame
    BY <1>0, <1>5, StayFrame DEF sharedVars
  <2>2. ASSUME AfterChange(s, a.seen) PROVE AuthorityInv'
    <3>1. verb \in Emergency \/ a.seen.generation <= floor'[HostOf(s)].generation
      BY <1>0, SessionFacts DEF Witnessed
    <3> QED
      BY <2>1, <2>2, <3>1, <1>0, AfterChangeKeeps, SessionFacts
  <2>3. ASSUME Become(s, c) PROVE AuthorityInv'
    BY <2>1, <2>3, <1>0, <1>2, <1>3, GoesOn, SessionFacts DEF Witnessed
  <2> QED
    BY <2>1, <2>2, <2>3, <1>5, AnswerKeeps
<1>6. CASE Swap(s, next) /\ ((verb \in Emergency /\ AfterChange(s, next)) \/ Become(s, b))
  <2>1. SessionFrame
    BY <1>0, <1>1, <1>6, SwapFrame
  <2>2. ASSUME Become(s, b) PROVE AuthorityInv'
    BY <2>1, <2>2, <1>0, <1>1, <1>2, <1>3, GoesOn DEF Witnessed
  <2>3. ASSUME verb \in Emergency, AfterChange(s, next) PROVE AuthorityInv'
    BY <2>1, <2>3, <1>0, <1>1, AfterChangeKeeps
  <2> QED
    BY <1>6, <2>2, <2>3
<1> QED
  BY <1>4, <1>5, <1>6

LEMMA WitnessKeeps ==
  ASSUME AuthorityInv, NEW s \in Session, Witness(s)
  PROVE AuthorityInv'
<1> USE DEF Witness, sharedVars
<1>0. admin[s].pc # "done"
  BY DEF At
<1>1. CASE Accepts(HostOf(s), admin[s].seen)
  <2>1. Rises /\ floor'[HostOf(s)] = admin[s].seen
    BY <1>1, RaiseFrame, SessionFacts
  <2>2. SessionFrame
    BY <2>1 DEF SessionFrame, AuthorityInv, SharedOK
  <2>3. admin[s].seen.generation <= floor'[HostOf(s)].generation
    BY <2>1, SessionFacts
  <2>4. Goto(s, "schedule") \/ AfterChange(s, admin[s].seen)
    BY <1>1
  <2> QED
    BY <2>2, <2>3, <2>4, <1>0, GotoKeeps, AfterChangeKeeps, SessionFacts
<1>2. CASE ~Accepts(HostOf(s), admin[s].seen)
  <2>1. SessionFrame
    BY <1>2, StayFrame
  <2>2. RotationFails(s) \/ Answer(s, "refused")
    BY <1>2
  <2> QED
    BY <2>1, <2>2, <1>0, RotationFailsKeeps, AnswerKeeps
<1> QED
  BY <1>1, <1>2

\* A command that goes on with the same record, from a place where the floor
\* has seen it or to a place that does not ask.
LEMMA SameRecord ==
  ASSUME AuthorityInv, NEW s \in Session, NEW a, Become(s, a), SessionFrame,
         admin[s].pc # "done", DOMAIN a = Fields,
         a.seen = admin[s].seen, a.drained = admin[s].drained,
         \/ admin[s].pc \in {"holds", "confirm", "schedule", "retire", "delete", "drain"}
         \/ a.pc \notin {"holds", "confirm", "schedule", "retire", "delete", "drain", "change"}
  PROVE AuthorityInv'
<1>1. a.drained = FALSE
  BY DEF AuthorityInv, SessionOK, SessionShape
<1>2. Witnessed(s, a) => Witnessed(s, admin[s])
  BY <1>1 DEF Witnessed
<1>3. floor[HostOf(s)].generation <= floor'[HostOf(s)].generation
      /\ floor'[HostOf(s)].generation \in Nat /\ floor[HostOf(s)].generation \in Nat
  BY SessionFacts, RiseFacts DEF AuthorityInv, HostOK, SessionFrame
<1> QED
  BY <1>1, <1>2, <1>3, GoesOn, SessionFacts

LEMMA GotoSame ==
  ASSUME AuthorityInv, NEW s \in Session, NEW pc, Goto(s, pc), SessionFrame,
         admin[s].pc # "done",
         \/ admin[s].pc \in {"holds", "confirm", "schedule", "retire", "delete", "drain"}
         \/ pc \notin {"holds", "confirm", "schedule", "retire", "delete", "drain", "change"}
  PROVE AuthorityInv'
<1> DEFINE a == [admin[s] EXCEPT !.pc = pc]
<1>1. DOMAIN a = Fields /\ a.pc = pc /\ a.seen = admin[s].seen /\ a.drained = admin[s].drained
  BY SessionFacts DEF Fields
<1>2. Become(s, a)
  BY DEF Goto
<1> HIDE DEF a
<1> QED
  BY <1>1, <1>2, SameRecord

\* The steps of a rotation up to its compare-and-swap.
LEMMA PrepareKeeps ==
  ASSUME AuthorityInv, NEW s \in Session,
         CheckHolds(s) \/ NoteCredential(s) \/ ClearSuccessor(s) \/ ReplaceCredential(s)
           \/ CheckPrepared(s) \/ DiscardSuccessor(s)
  PROVE AuthorityInv'
<1>0. SessionFrame
  BY StayFrame DEF CheckHolds, NoteCredential, ClearSuccessor, ReplaceCredential, CheckPrepared,
       DiscardSuccessor, sharedVars
<1>1. CASE CheckHolds(s)
  <2> DEFINE a == [admin[s] EXCEPT !.pc = "note", !.next = admin[s].seen.generation + 1]
  <2>1. DOMAIN a = Fields /\ a.pc = "note" /\ a.seen = admin[s].seen /\ a.drained = admin[s].drained
    BY SessionFacts DEF Fields
  <2>2. admin[s].pc = "holds"
    BY <1>1 DEF CheckHolds, At
  <2>3. Become(s, a) \/ Goto(s, "confirm") \/ Answer(s, "refused")
    BY <1>1 DEF CheckHolds
  <2> HIDE DEF a
  <2> QED
    BY <2>1, <2>2, <2>3, <1>0, SameRecord, GotoSame, AnswerKeeps
<1>2. CASE NoteCredential(s)
  BY <1>0, <1>2, GotoSame DEF NoteCredential, At
<1>3. CASE ClearSuccessor(s)
  BY <1>0, <1>3, GotoSame DEF ClearSuccessor, At
<1>4. CASE ReplaceCredential(s)
  <2>1. admin[s].pc # "done" /\
        (Answer(s, "refused") \/ Answer(s, "prepared") \/ Goto(s, "publish"))
    BY <1>4 DEF ReplaceCredential, At
  <2> QED
    BY <1>0, <2>1, GotoSame, AnswerKeeps
<1>5. CASE CheckPrepared(s)
  <2>1. admin[s].pc # "done" /\ (Goto(s, "swap") \/ RotationFails(s))
    BY <1>5 DEF CheckPrepared, At
  <2> QED
    BY <1>0, <2>1, GotoSame, RotationFailsKeeps
<1>6. CASE DiscardSuccessor(s)
  BY <1>0, <1>6, AnswerKeeps DEF DiscardSuccessor
<1> QED
  BY <1>1, <1>2, <1>3, <1>4, <1>5, <1>6

LEMMA PublishRotationKeeps ==
  ASSUME AuthorityInv, NEW s \in Session, PublishRotation(s)
  PROVE AuthorityInv'
<1> DEFINE next == rotated(admin[s].seen, Commitment(s))
           a == [admin[s] EXCEPT !.pc = "witness", !.first = admin[s].seen, !.seen = next]
<1>0. admin[s].pc # "done" /\ UNCHANGED <<floor, load, task, entered>>
  BY DEF PublishRotation, At, hostVars
<1>1. next.generation \in Nat
  BY SessionFacts DEF rotated
<1>2. DOMAIN a = Fields /\ a.pc = "witness" /\ a.seen = next /\ a.drained = admin[s].drained
  BY SessionFacts DEF Fields
<1>3. admin[s].drained = FALSE
  BY <1>0 DEF AuthorityInv, SessionOK, SessionShape
<1>4. (Swap(s, next) /\ Become(s, a)) \/ (RotationFails(s) /\ UNCHANGED sharedVars)
  BY DEF PublishRotation
<1> HIDE DEF a, next
<1>5. CASE Swap(s, next) /\ Become(s, a)
  <2>1. SessionFrame
    BY <1>0, <1>1, <1>5, SwapFrame
  <2> QED
    BY <2>1, <1>0, <1>1, <1>2, <1>3, <1>5, GoesOn DEF Witnessed
<1>6. CASE RotationFails(s) /\ UNCHANGED sharedVars
  BY <1>0, <1>6, StayFrame, RotationFailsKeeps DEF sharedVars
<1> QED
  BY <1>4, <1>5, <1>6

\* What follows a rotation, a revocation and the wait for a server's entries.
LEMMA AfterwardsKeeps ==
  ASSUME AuthorityInv, CountsTrue, NEW s \in Session,
         \/ Drain(s) \/ ConfirmCredential(s) \/ ScheduleRetirement(s) \/ Retired(s)
         \/ \E r \in admin[s].due : RetireOne(s, r)
         \/ DeleteConnection(s)
  PROVE AuthorityInv'
<1>0. SessionFrame
  BY Zenon, StayFrame DEF Drain, ConfirmCredential, ScheduleRetirement, Retired, RetireOne,
       DeleteConnection, sharedVars, hostVars
<1>1. CASE Drain(s)
  BY <1>0, <1>1, DrainKeeps DEF Drain, At
<1>2. CASE ConfirmCredential(s)
  <2> DEFINE a == [admin[s] EXCEPT !.pc = "schedule", !.accepted = TRUE]
  <2>1. DOMAIN a = Fields /\ a.seen = admin[s].seen /\ a.drained = admin[s].drained
    BY SessionFacts DEF Fields
  <2>2. admin[s].pc = "confirm" /\ (Become(s, a) \/ Answer(s, "refused"))
    BY <1>2 DEF ConfirmCredential, At
  <2> HIDE DEF a
  <2> QED
    BY <2>1, <2>2, <1>0, SameRecord, AnswerKeeps
<1>3. CASE ScheduleRetirement(s)
  <2> DEFINE due == {r \in retirements[HostOf(s)] : r.due}
             a == [admin[s] EXCEPT !.pc = "retire", !.due = due]
  <2>1. DOMAIN a = Fields /\ a.seen = admin[s].seen /\ a.drained = admin[s].drained
    BY SessionFacts DEF Fields
  <2>2. admin[s].pc = "schedule" /\ Become(s, a)
    BY <1>3 DEF ScheduleRetirement, At
  <2> HIDE DEF a
  <2> QED
    BY <2>1, <2>2, <1>0, SameRecord
<1>4. CASE Retired(s)
  <2>1. admin[s].pc = "retire"
        /\ (Goto(s, "drain") \/ Become(s, Ended(admin[s], "accepted", in_flight(HostOf(s)) = 0)))
    BY <1>4 DEF Retired, At
  <2> QED
    BY <2>1, <1>0, GotoSame, DrainKeeps
<1>5. CASE \E r \in admin[s].due : RetireOne(s, r)
  <2> DEFINE a(due) == [admin[s] EXCEPT !.due = due]
  <2>1. \A due : DOMAIN a(due) = Fields /\ a(due).seen = admin[s].seen
                 /\ a(due).drained = admin[s].drained /\ a(due).pc = admin[s].pc
    BY SessionFacts DEF Fields
  <2>2. admin[s].pc = "retire" /\ \E due : Become(s, a(due))
    BY Zenon, <1>5 DEF RetireOne, At
  <2> HIDE DEF a
  <2> QED
    BY <2>1, <2>2, <1>0, SameRecord
<1>6. CASE DeleteConnection(s)
  BY <1>0, <1>6, GotoSame DEF DeleteConnection, At
<1> QED
  BY <1>1, <1>2, <1>3, <1>4, <1>5, <1>6

LEMMA CollectionKeeps ==
  ASSUME AuthorityInv, NEW s \in Session,
         \/ ReadNotes(s) \/ RemoveOne(s) \/ Forget(s) \/ Collected(s)
         \/ \E g \in admin[s].todo : CollectOne(s, g)
  PROVE AuthorityInv'
<1>0. SessionFrame
  BY Zenon, StayFrame DEF ReadNotes, RemoveOne, Forget, Collected, CollectOne, sharedVars, hostVars
<1>1. CASE ReadNotes(s)
  <2> DEFINE todo == Collectable(admin[s].seen, notes[HostOf(s)])
             a == [admin[s] EXCEPT !.pc = "read", !.round = 2, !.first = admin[s].seen, !.todo = todo]
  <2>1. DOMAIN a = Fields /\ a.pc = "read" /\ a.seen = admin[s].seen /\ a.drained = admin[s].drained
    BY SessionFacts DEF Fields
  <2>2. admin[s].pc # "done" /\ Become(s, a)
    BY <1>1 DEF ReadNotes, At
  <2> HIDE DEF a
  <2> QED
    BY <2>1, <2>2, <1>0, SameRecord
<1>2. CASE Forget(s)
  <2> DEFINE todo == admin[s].todo \ {admin[s].next}
             a == [admin[s] EXCEPT !.pc = "collect", !.todo = todo]
  <2>1. DOMAIN a = Fields /\ a.pc = "collect" /\ a.seen = admin[s].seen /\ a.drained = admin[s].drained
    BY SessionFacts DEF Fields
  <2>2. admin[s].pc # "done" /\ Become(s, a)
    BY <1>2 DEF Forget, At
  <2> HIDE DEF a
  <2> QED
    BY <2>1, <2>2, <1>0, SameRecord
<1>3. CASE Collected(s)
  BY <1>0, <1>3, AnswerKeeps DEF Collected
<1>4. ASSUME NEW g \in admin[s].todo, CollectOne(s, g) PROVE AuthorityInv'
  <2> DEFINE a == [admin[s] EXCEPT !.pc = "remove", !.next = g, !.held = custody[HostOf(s)]]
  <2>1. DOMAIN a = Fields /\ a.pc = "remove" /\ a.seen = admin[s].seen /\ a.drained = admin[s].drained
    BY SessionFacts DEF Fields
  <2>2. admin[s].pc # "done" /\ Become(s, a)
    BY Zenon, <1>4 DEF CollectOne, At
  <2> HIDE DEF a
  <2> QED
    BY <2>1, <2>2, <1>0, SameRecord
<1>5. CASE RemoveOne(s)
  <2> DEFINE a == [admin[s] EXCEPT !.pc = "forget", !.held = {}]
  <2>1. DOMAIN a = Fields /\ a.pc = "forget" /\ a.seen = admin[s].seen /\ a.drained = admin[s].drained
    BY SessionFacts DEF Fields
  <2>2. admin[s].pc # "done" /\ Become(s, a)
    BY <1>5 DEF RemoveOne, At
  <2> HIDE DEF a
  <2> QED
    BY <2>1, <2>2, <1>0, SameRecord
<1> QED
  BY <1>1, <1>2, <1>3, <1>4, <1>5

\* The steps of the candidate workflow that leave the shared record alone.
LEMMA CandidateKeeps ==
  ASSUME AuthorityInv, NEW s \in Session,
         \/ KeepCurrent(s) \/ NoteCandidate(s) \/ PlaceCandidate(s) \/ WriteCandidate(s)
         \/ ReadProposal(s) \/ PresentCandidate(s)
  PROVE AuthorityInv'
<1> DEFINE kept(next, proposal) == [admin[s] EXCEPT !.pc = "enlist", !.next = next,
                                       !.first = admin[s].seen, !.proposal = proposal]
           placed(held) == [admin[s] EXCEPT !.pc = "write", !.held = held]
           written == [admin[s] EXCEPT !.pc = "read", !.round = 2, !.held = {}]
           given(proposal) == [admin[s] EXCEPT !.pc = "read", !.proposal = proposal]
           Quiet(a) == /\ DOMAIN a = Fields /\ a.pc \in {"enlist", "write", "read"}
                       /\ a.seen = admin[s].seen /\ a.drained = admin[s].drained
<1>0. SessionFrame
  BY Zenon, StayFrame DEF KeepCurrent, NoteCandidate, PlaceCandidate, WriteCandidate, ReadProposal,
       PresentCandidate, sharedVars, hostVars
<1>1. /\ \A n, p : Quiet(kept(n, p))
      /\ \A e : Quiet(placed(e))
      /\ Quiet(written)
      /\ \A p : Quiet(given(p))
  BY SessionFacts DEF Fields
<1>2. /\ admin[s].pc # "done"
      /\ \/ \E n, p : Become(s, kept(n, p))
         \/ \E e : Become(s, placed(e))
         \/ Become(s, written)
         \/ \E p : Become(s, given(p))
         \/ Goto(s, "place") \/ Goto(s, "fence") \/ Answer(s, "refused")
  BY Zenon DEF KeepCurrent, NoteCandidate, PlaceCandidate, WriteCandidate, ReadProposal,
       PresentCandidate, At
<1> HIDE DEF kept, placed, written, given
<1>3. ASSUME NEW a, Quiet(a), Become(s, a) PROVE AuthorityInv'
  BY <1>0, <1>2, <1>3, SameRecord
<1> HIDE DEF Quiet
<1> QED
  BY <1>0, <1>1, <1>2, <1>3, GotoSame, AnswerKeeps

\* The shared record after a candidate is published.
LEMMA PutFrame ==
  ASSUME AuthorityInv, NEW p, PutCandidate(p), UNCHANGED <<floor, load, task, entered>>
  PROVE SessionFrame
<1>1. Rises
  BY DEF AuthorityInv, Functions, Rises
<1>2. Proposed(p).generation = record.generation + 1
  BY DEF PutCandidate, Proposed, rotated
<1>3. SharedOK'
  BY <1>2 DEF AuthorityInv, SharedOK, PutCandidate
<1> QED
  BY <1>1, <1>3 DEF SessionFrame

LEMMA PublishCandidateKeeps ==
  ASSUME AuthorityInv, NEW s \in Session, PublishCandidate(s)
  PROVE AuthorityInv'
<1> DEFINE a == [admin[s] EXCEPT !.pc = "read", !.round = 2]
<1>0. admin[s].pc # "done" /\ UNCHANGED <<floor, load, task, entered>>
  BY DEF PublishCandidate, At, hostVars
<1>1. DOMAIN a = Fields /\ a.pc = "read" /\ a.seen = admin[s].seen /\ a.drained = admin[s].drained
  BY SessionFacts DEF Fields
<1>2. /\ UNCHANGED sharedVars \/ \E p : PutCandidate(p)
      /\ Become(s, a) \/ Answer(s, "refused")
  BY DEF PublishCandidate
<1> HIDE DEF a
<1>3. SessionFrame
  BY <1>0, <1>2, StayFrame, PutFrame DEF sharedVars
<1> QED
  BY <1>0, <1>1, <1>2, <1>3, SameRecord, AnswerKeeps

\* Errors, of the store and of its acknowledgements.
LEMMA ErrorKeeps ==
  ASSUME AuthorityInv, NEW s \in Session, ErrorPath(s), SessionFrame
  PROVE AuthorityInv'
<1> DEFINE a(due) == [admin[s] EXCEPT !.due = due]
<1>1. \A due : DOMAIN a(due) = Fields /\ a(due).seen = admin[s].seen
               /\ a(due).drained = admin[s].drained /\ a(due).pc = admin[s].pc
  BY SessionFacts DEF Fields
<1>2. admin[s].pc # "done" /\
      \/ RotationFails(s)
      \/ admin[s].pc = "holds" /\ Goto(s, "confirm")
      \/ Goto(s, "store")
      \/ admin[s].pc = "retire" /\ \E due : Become(s, a(due))
      \/ Answer(s, "refused")
  BY Zenon DEF ErrorPath
<1> HIDE DEF a
<1>3. ASSUME NEW due, admin[s].pc = "retire", Become(s, a(due)) PROVE AuthorityInv'
  BY <1>1, <1>3, SameRecord
<1> QED
  BY <1>2, <1>3, RotationFailsKeeps, GotoSame, AnswerKeeps

LEMMA FaultKeeps ==
  ASSUME AuthorityInv, NEW s \in Session, StoreFails(s) \/ Unacknowledged(s)
  PROVE AuthorityInv'
<1>1. CASE StoreFails(s)
  BY <1>1, StayFrame, ErrorKeeps DEF StoreFails, sharedVars, hostVars
<1>2. CASE Unacknowledged(s)
  <2> DEFINE p == rotated(admin[s].seen, Commitment(s))
             q == transition_state(admin[s].seen, Target(Command(s).verb))
  <2>1. p.generation \in Nat /\ q.generation \in Nat
    BY SessionFacts DEF rotated, transition_state
  <2>2. (Swap(s, p) \/ Swap(s, q) \/ \E c : PutCandidate(c)) /\ ErrorPath(s) /\ UNCHANGED <<floor, load, task, entered>>
    BY <1>2 DEF Unacknowledged, hostVars
  <2> HIDE DEF p, q
  <2>3. SessionFrame
    BY <2>1, <2>2, SwapFrame, PutFrame
  <2> QED
    BY <2>2, <2>3, ErrorKeeps
<1> QED
  BY <1>1, <1>2

-----------------------------------------------------------------------------
(* Submissions *)

LEMMA SameInv ==
  ASSUME AuthorityInv, UNCHANGED <<record, past, floor, load, admin, task, entered>>
  PROVE AuthorityInv'
<1>1. \A h \in Host : HostOK(h)'
  BY DEF AuthorityInv, HostOK
<1>2. \A s \in Session : SessionOK(s)'
  BY DEF AuthorityInv, SessionOK, SessionShape, Witnessed, Command, HostOf
<1>3. DrainedMeansRecorded'
  BY DEF AuthorityInv, DrainedMeansRecorded, HostOf
<1> QED
  BY <1>1, <1>2, <1>3 DEF AuthorityInv, Functions, SharedOK, TaskShape

\* A step of one submission.
LEMMA TaskKeeps ==
  ASSUME AuthorityInv, NEW t \in Task, NEW x, TaskGo(t, x),
         UNCHANGED <<record, past, load, admin>>, Rises,
         entered' = [h \in Host |-> entered'[h]],
         \A h \in Host : HostOK(h)',
         TaskShape(x),
         x.pc \in {"send", "record"} =>
           \A s \in Session : admin[s].drained /\ HostOf(s) = TaskHost[t] =>
             x.prepared.generation >= admin[s].seen.generation
  PROVE AuthorityInv'
<1>1. /\ task' = [u \in Task |-> task'[u]]
      /\ task'[t] = x
      /\ \A u \in Task : u # t => task'[u] = task[u]
  BY DEF AuthorityInv, Functions, TaskGo
<1>2. ASSUME NEW s \in Session PROVE SessionOK(s)'
  <2>1. SessionOK(s) /\ HostOf(s)' = HostOf(s) /\ Command(s)' = Command(s) /\ HostOf(s) \in Host
    BY HostFacts DEF AuthorityInv, HostOf, Command
  <2>2. floor[HostOf(s)].generation <= floor'[HostOf(s)].generation
        /\ floor'[HostOf(s)].generation \in Nat /\ floor[HostOf(s)].generation \in Nat
    BY <2>1, RiseFacts DEF AuthorityInv, HostOK
  <2>3. admin[s].seen.generation \in Nat
    BY <2>1 DEF SessionOK, SessionShape
  <2> QED
    BY <2>1, <2>2, <2>3 DEF SessionOK, Witnessed
<1>3. \A u \in Task : TaskShape(task'[u])
  BY <1>1 DEF AuthorityInv
<1>4. DrainedMeansRecorded'
  BY <1>1 DEF AuthorityInv, DrainedMeansRecorded, HostOf
<1>5. Functions' /\ SharedOK'
  BY <1>1 DEF AuthorityInv, Functions, SharedOK, Rises
<1> QED
  BY <1>2, <1>3, <1>4, <1>5 DEF AuthorityInv, TaskShape

LEMMA TaskFacts ==
  ASSUME AuthorityInv, NEW t \in Task
  PROVE TaskShape(task[t]) /\ TaskHost[t] \in Host
BY HostFacts DEF AuthorityInv

\* A step of a submission that raises no floor and enters nothing.
LEMMA QuietTask ==
  ASSUME AuthorityInv, NEW t \in Task, NEW x, TaskGo(t, x),
         UNCHANGED <<record, past, floor, load, admin, entered>>, TaskShape(x),
         x.pc \in {"send", "record"} =>
           task[t].pc \in {"send", "record"} /\ x.prepared = task[t].prepared
  PROVE AuthorityInv'
<1>1. Rises /\ entered' = [h \in Host |-> entered'[h]] /\ \A h \in Host : HostOK(h)'
  BY DEF AuthorityInv, Functions, Rises, HostOK
<1>2. x.pc \in {"send", "record"} =>
        \A s \in Session : admin[s].drained /\ HostOf(s) = TaskHost[t] =>
          x.prepared.generation >= admin[s].seen.generation
  BY DEF AuthorityInv, DrainedMeansRecorded
<1> QED
  BY <1>1, <1>2, TaskKeeps

LEMMA RefusedShape ==
  ASSUME AuthorityInv, NEW t \in Task, TaskRefused(t), task[t].pc # "done"
  PROVE \E x : TaskGo(t, x) /\ TaskShape(x) /\ x.pc \notin {"send", "record"}
<1> DEFINE x == [task[t] EXCEPT !.pc = IF task[t].stage = "prepare" THEN "done" ELSE "refused"]
<1>1. TaskShape(x) /\ x.pc \notin {"send", "record"}
  BY TaskFacts DEF TaskShape
<1> QED
  BY Zenon, <1>1 DEF TaskRefused

LEMMA QuietStepsKeep ==
  ASSUME AuthorityInv, NEW t \in Task,
         \/ TaskRead(t) \/ TaskHolds(t) \/ TaskLease(t) \/ InFlightEnter(t) \/ TaskSend(t)
         \/ TaskRecord(t) \/ TaskStoreFails(t)
  PROVE AuthorityInv'
<1>0. UNCHANGED <<record, past, floor, load, admin, entered>>
  BY DEF TaskRead, TaskHolds, TaskLease, InFlightEnter, TaskSend, TaskRecord, TaskStoreFails,
       sharedVars, hostVars
<1>1. ASSUME TaskRefused(t), task[t].pc # "done" PROVE AuthorityInv'
  BY <1>0, <1>1, RefusedShape, QuietTask
<1>2. CASE TaskRead(t)
  <2> DEFINE x == [task[t] EXCEPT !.pc = "accept", !.seen = record]
  <2>1. TaskShape(x) /\ x.pc = "accept" /\ TaskGo(t, x)
    BY <1>2, TaskFacts DEF TaskRead, TaskAt, TaskShape, AuthorityInv, SharedOK
  <2> HIDE DEF x
  <2> QED
    BY <1>0, <2>1, QuietTask
<1>3. CASE TaskHolds(t)
  <2> DEFINE x == [task[t] EXCEPT !.pc = "read", !.stage = "reload"]
  <2>1. TaskShape(x) /\ x.pc = "read"
    BY <1>3, TaskFacts DEF TaskShape
  <2>2. TaskGo(t, x) \/ (TaskRefused(t) /\ task[t].pc # "done")
    BY <1>3 DEF TaskHolds, TaskAt
  <2> HIDE DEF x
  <2> QED
    BY <1>0, <1>1, <2>1, <2>2, QuietTask
<1>4. CASE TaskLease(t)
  <2> DEFINE x == [task[t] EXCEPT !.pc = "count"]
  <2>1. TaskShape(x) /\ x.pc = "count"
    BY <1>4, TaskFacts DEF TaskLease, TaskAt, TaskShape
  <2>2. TaskGo(t, x) \/ (TaskRefused(t) /\ task[t].pc # "done")
    BY <1>4 DEF TaskLease, TaskAt
  <2> HIDE DEF x
  <2> QED
    BY <1>0, <1>1, <2>1, <2>2, QuietTask
<1>5. CASE InFlightEnter(t)
  <2> DEFINE x == [task[t] EXCEPT !.pc = "read", !.stage = "entry", !.counted = TRUE]
  <2>1. TaskShape(x) /\ x.pc = "read" /\ TaskGo(t, x)
    BY <1>5, TaskFacts DEF InFlightEnter, TaskShape
  <2> HIDE DEF x
  <2> QED
    BY <1>0, <2>1, QuietTask
<1>6. CASE TaskSend(t)
  <2> DEFINE x == [task[t] EXCEPT !.pc = "record"]
  <2>1. TaskShape(x) /\ x.pc = "record" /\ x.prepared = task[t].prepared /\ TaskGo(t, x)
        /\ task[t].pc = "send"
    BY <1>6, TaskFacts DEF TaskSend, TaskAt, TaskShape
  <2> HIDE DEF x
  <2> QED
    BY <1>0, <2>1, QuietTask
<1>7. CASE TaskRecord(t)
  <2> DEFINE x == [task[t] EXCEPT !.pc = "done", !.counted = FALSE]
  <2>1. TaskShape(x) /\ x.pc = "done" /\ TaskGo(t, x)
    BY <1>7, TaskFacts DEF TaskRecord, TaskShape
  <2> HIDE DEF x
  <2> QED
    BY <1>0, <2>1, QuietTask
<1>8. CASE TaskStoreFails(t)
  BY <1>1, <1>8 DEF TaskStoreFails
<1> QED
  BY <1>2, <1>3, <1>4, <1>5, <1>6, <1>7, <1>8

\* A record the floor accepts stands at or above every answer of its server.
LEMMA AcceptedIsAbove ==
  ASSUME AuthorityInv, NEW s \in Session, NEW r, r.generation \in Nat,
         Accepts(HostOf(s), r), admin[s].drained
  PROVE r.generation >= admin[s].seen.generation
<1>1. admin[s].seen.generation <= floor[HostOf(s)].generation /\ admin[s].seen.generation \in Nat
  BY SessionFacts DEF Witnessed
<1>2. floor[HostOf(s)].generation \in Nat
  BY SessionFacts DEF AuthorityInv, HostOK
<1> QED
  BY <1>1, <1>2 DEF Accepts

\* What the reloads of a submission do to the floor and to the last entry.
LEMMA AcceptMoves ==
  ASSUME AuthorityInv, NEW t \in Task, TaskAccept(t)
  PROVE /\ Rises
        /\ entered' = [h \in Host |-> entered'[h]]
        /\ \A h \in Host : HostOK(h)'
        /\ \A h \in Host : entered'[h] = entered[h] \/ entered[h].generation < entered'[h].generation
<1> DEFINE h0 == TaskHost[t]
           r == task[t].seen
<1>0. h0 \in Host /\ r.generation \in Nat
  BY TaskFacts DEF TaskShape
<1>1. CASE Accepts(h0, r)
  <2>1. floor' = [floor EXCEPT ![h0] = r]
    BY <1>1 DEF TaskAccept
  <2>2. Rises /\ floor'[h0] = r /\ \A h \in Host : h # h0 => floor'[h] = floor[h]
    BY <1>0, <1>1, <2>1, RaiseFrame DEF AuthorityInv, Functions
  <2>3. \/ entered' = entered
        \/ entered' = [entered EXCEPT ![h0] = r]
    BY DEF TaskAccept
  <2>4. /\ entered' = [h \in Host |-> entered'[h]]
        /\ \A h \in Host : h # h0 => entered'[h] = entered[h]
        /\ entered'[h0] = entered[h0] \/ entered'[h0] = r
    BY <1>0, <2>3 DEF AuthorityInv, Functions
  <2>5. ASSUME NEW h \in Host
        PROVE HostOK(h)' /\ (entered'[h] = entered[h] \/ entered[h].generation < entered'[h].generation)
    <3>1. HostOK(h)
      BY DEF AuthorityInv
    <3>2. CASE h # h0
      BY <3>1, <3>2, <2>2, <2>4 DEF HostOK
    <3>3. CASE h = h0
      BY <3>1, <3>3, <2>2, <2>4, <1>0, <1>1 DEF HostOK, Accepts
    <3> QED
      BY <3>2, <3>3
  <2> QED
    BY <2>2, <2>4, <2>5
<1>2. CASE ~Accepts(h0, r)
  <2>1. UNCHANGED <<floor, entered>>
    BY <1>2 DEF TaskAccept
  <2> QED
    BY <2>1 DEF AuthorityInv, Functions, Rises, HostOK
<1> QED
  BY <1>1, <1>2

LEMMA TaskAcceptKeeps ==
  ASSUME AuthorityInv, NEW t \in Task, TaskAccept(t)
  PROVE AuthorityInv'
<1> DEFINE y == task[t]
           pc == CASE y.stage = "prepare" -> "holds"
                   [] y.stage = "reload" -> "lease"
                   [] y.stage = "entry" -> "send"
           x == [y EXCEPT !.prepared = y.seen, !.pc = pc]
<1>0. /\ y.pc = "accept" /\ UNCHANGED <<record, past, load, admin>>
      /\ (Accepts(TaskHost[t], y.seen) /\ TaskGo(t, x)) \/ TaskRefused(t)
  BY Zenon DEF TaskAccept, TaskAt, sharedVars
<1>1. CASE TaskRefused(t)
  <2>1. PICK z : TaskGo(t, z) /\ TaskShape(z) /\ z.pc \notin {"send", "record"}
    BY <1>0, <1>1, RefusedShape
  <2> QED
    BY <1>0, <2>1, AcceptMoves, TaskKeeps
<1>2. CASE Accepts(TaskHost[t], y.seen) /\ TaskGo(t, x)
  <2>1. y.stage \in {"prepare", "reload", "entry"}
    BY TaskFacts DEF AuthorityInv, TaskShape
  <2>2. TaskShape(x) /\ x.prepared = y.seen
    BY <1>0, <2>1, TaskFacts DEF TaskShape
  <2>3. \A s \in Session : admin[s].drained /\ HostOf(s) = TaskHost[t] =>
          x.prepared.generation >= admin[s].seen.generation
    BY <1>2, <2>2, AcceptedIsAbove DEF TaskShape
  <2> HIDE DEF x
  <2> QED
    BY Zenon, <1>0, <1>2, <2>2, <2>3, AcceptMoves, TaskKeeps
<1> QED
  BY Zenon, <1>0, <1>1, <1>2

-----------------------------------------------------------------------------
(* Restarts, restores and the whole *)

LEMMA RestartKeeps ==
  ASSUME AuthorityInv, NEW h \in Host, Restart(h)
  PROVE AuthorityInv'
<1> DEFINE stop(s) == Ended(admin[s], "stopped", FALSE)
           quit(t) == [task[t] EXCEPT !.pc = "done", !.counted = FALSE]
<1>0. UNCHANGED <<record, past, floor, load, entered>>
  BY Zenon DEF Restart, sharedVars
<1>1. /\ admin' = [s \in Session |-> admin'[s]]
      /\ \A s \in Session : admin'[s] = admin[s] \/ admin'[s] = stop(s)
      /\ task' = [t \in Task |-> task'[t]]
      /\ \A t \in Task : task'[t] = task[t] \/ task'[t] = quit(t)
  BY Zenon DEF Restart
<1>2. ASSUME NEW s \in Session
      PROVE stop(s).drained = FALSE /\ SessionShape(stop(s)) /\ ~Witnessed(s, stop(s))
  BY Zenon, SessionFacts DEF Ended, SessionShape, Fields, Witnessed
<1>3. ASSUME NEW t \in Task PROVE TaskShape(quit(t)) /\ quit(t).pc = "done"
  BY TaskFacts DEF TaskShape
<1> HIDE DEF stop, quit
<1>4. \A s \in Session : SessionOK(s)'
  BY Zenon, <1>0, <1>1, <1>2 DEF AuthorityInv, SessionOK, Witnessed, Command, HostOf
<1>5. \A t \in Task : TaskShape(task'[t])
  BY <1>1, <1>3 DEF AuthorityInv
<1>6. DrainedMeansRecorded'
  BY Zenon, <1>0, <1>1, <1>2, <1>3 DEF AuthorityInv, DrainedMeansRecorded, HostOf
<1>7. \A o \in Host : HostOK(o)'
  BY <1>0 DEF AuthorityInv, HostOK
<1> QED
  BY <1>0, <1>1, <1>4, <1>5, <1>6, <1>7 DEF AuthorityInv, Functions, SharedOK, TaskShape

LEMMA RestoreKeeps ==
  ASSUME AuthorityInv, Restore
  PROVE AuthorityInv'
<1>0. UNCHANGED <<floor, load, admin, task, entered>>
  BY DEF Restore, hostVars
<1>1. SharedOK'
  BY DEF Restore, AuthorityInv, SharedOK
<1>2. \A h \in Host : HostOK(h)'
  BY <1>0 DEF AuthorityInv, HostOK
<1>3. \A s \in Session : SessionOK(s)'
  BY <1>0 DEF AuthorityInv, SessionOK, SessionShape, Witnessed, Command, HostOf
<1>4. DrainedMeansRecorded'
  BY <1>0 DEF AuthorityInv, DrainedMeansRecorded, HostOf
<1> QED
  BY <1>0, <1>1, <1>2, <1>3, <1>4 DEF AuthorityInv, Functions, TaskShape

LEMMA InitEstablishes ==
  ASSUME Init PROVE AuthorityInv
<1>1. Installed.generation = 1
  BY DEF Installed
<1> USE <1>1 DEF Init
<1>2. Functions /\ SharedOK /\ \A h \in Host : HostOK(h)
  BY DEF Functions, SharedOK, HostOK
<1>3. \A s \in Session : SessionOK(s) /\ admin[s].drained = FALSE
  <2>1. DOMAIN Idle = Fields /\ Idle.pc = "start" /\ Idle.drained = FALSE /\ Idle.seen = record
    BY Zenon DEF Idle, Fields
  <2>2. \A s \in Session : admin[s] = Idle
    OBVIOUS
  <2>3. record.generation \in Nat
    OBVIOUS
  <2> QED
    BY Zenon, <2>1, <2>2, <2>3 DEF SessionOK, SessionShape, Fields, Witnessed
<1>4. \A t \in Task : TaskShape(task[t])
  <2>1. /\ DOMAIN TaskIdle = {"pc", "stage", "seen", "prepared", "counted"}
        /\ TaskIdle.pc = "start" /\ TaskIdle.stage = "prepare" /\ TaskIdle.counted = FALSE
        /\ TaskIdle.seen = record /\ TaskIdle.prepared = record
    BY DEF TaskIdle
  <2>2. \A t \in Task : task[t] = TaskIdle
    OBVIOUS
  <2>3. record.generation \in Nat
    OBVIOUS
  <2>4. TaskShape(TaskIdle)
    BY ONLY Zenon, <2>1, <2>3 DEF TaskShape
  <2> QED
    BY <2>2, <2>4
<1> QED
  BY <1>2, <1>3, <1>4 DEF AuthorityInv, DrainedMeansRecorded

LEMMA NextKeeps ==
  ASSUME AuthorityInv, CountsTrue, [Next]_vars PROVE AuthorityInv'
<1>1. ASSUME NEW s \in Session, SessionStep(s) PROVE AuthorityInv'
  BY Zenon, <1>1, ReadRecordKeeps, AcceptRecordKeeps, ChangeKeeps, WitnessKeeps, PrepareKeeps,
     PublishRotationKeeps, AfterwardsKeeps, CollectionKeeps, CandidateKeeps,
     PublishCandidateKeeps DEF SessionStep
<1>2. ASSUME NEW s \in Session, StoreFails(s) \/ Unacknowledged(s) PROVE AuthorityInv'
  BY <1>2, FaultKeeps
<1>3. ASSUME NEW t \in Task, TaskStep(t) \/ TaskStoreFails(t) PROVE AuthorityInv'
  BY <1>3, TaskAcceptKeeps, QuietStepsKeep DEF TaskStep
<1>4. ASSUME NEW h \in Host, RetirementDue(h) PROVE AuthorityInv'
  BY <1>4, SameInv DEF RetirementDue, sharedVars
<1>5. CASE UNCHANGED vars
  BY <1>5, SameInv DEF vars
<1> QED
  BY <1>1, <1>2, <1>3, <1>4, <1>5, RestartKeeps, RestoreKeeps DEF Next

\* A host goes from the record of one entry to that of the next only in a
\* reload before entry, which moves forward.
Line ==
  \A h \in Host :
    entered'[h] # entered[h] => entered[h].generation < entered'[h].generation

LEMMA EntryMoves ==
  ASSUME AuthorityInv, Next PROVE Line
<1> SUFFICES ASSUME \E h \in Host : entered'[h] # entered[h]
             PROVE Line
  BY DEF Line
<1>1. PICK t \in Task : TaskAccept(t)
  <2>1. entered' # entered
    OBVIOUS
  <2>2. \A s \in Session : ~SessionStep(s) /\ ~StoreFails(s) /\ ~Unacknowledged(s)
    <3> SUFFICES ASSUME NEW s \in Session
                 PROVE ~SessionStep(s) /\ ~StoreFails(s) /\ ~Unacknowledged(s)
      OBVIOUS
    <3>1. /\ ~ReadRecord(s) /\ ~AcceptRecord(s) /\ ~Change(s) /\ ~Witness(s) /\ ~Drain(s)
          /\ ~CheckHolds(s) /\ ~NoteCredential(s) /\ ~ClearSuccessor(s) /\ ~ReplaceCredential(s)
          /\ ~CheckPrepared(s) /\ ~PublishRotation(s) /\ ~DiscardSuccessor(s)
      BY <2>1 DEF ReadRecord, AcceptRecord, Change, Witness, Drain, CheckHolds, NoteCredential,
           ClearSuccessor, ReplaceCredential, CheckPrepared, PublishRotation, DiscardSuccessor
    <3>2. /\ ~ConfirmCredential(s) /\ ~ScheduleRetirement(s) /\ ~Retired(s)
          /\ \A r : ~RetireOne(s, r)
          /\ ~DeleteConnection(s)
          /\ ~ReadNotes(s) /\ ~RemoveOne(s) /\ ~Forget(s) /\ ~Collected(s)
          /\ \A g : ~CollectOne(s, g)
      BY Zenon, <2>1 DEF ConfirmCredential, ScheduleRetirement, Retired, RetireOne, DeleteConnection,
           ReadNotes, RemoveOne, Forget, Collected, CollectOne
    <3>3. /\ ~KeepCurrent(s) /\ ~NoteCandidate(s) /\ ~PlaceCandidate(s) /\ ~WriteCandidate(s)
          /\ ~ReadProposal(s) /\ ~PresentCandidate(s) /\ ~PublishCandidate(s)
      BY Zenon, <2>1 DEF KeepCurrent, NoteCandidate, PlaceCandidate, WriteCandidate, ReadProposal,
           PresentCandidate, PublishCandidate
    <3>4. ~StoreFails(s) /\ ~Unacknowledged(s)
      BY <2>1 DEF StoreFails, Unacknowledged
    <3> QED
      BY Zenon, <3>1, <3>2, <3>3, <3>4 DEF SessionStep
  <2>3. \A h \in Host : ~RetirementDue(h) /\ ~Restart(h)
    BY Zenon, <2>1 DEF RetirementDue, Restart
  <2>4. ~Restore
    BY <2>1 DEF Restore
  <2>5. PICK t \in Task : TaskStep(t) \/ TaskStoreFails(t)
    BY <2>2, <2>3, <2>4 DEF Next
  <2> QED
    BY <2>1, <2>5 DEF TaskStep, TaskStoreFails, TaskRead, TaskHolds, TaskLease, InFlightEnter,
         TaskSend, TaskRecord
<1> QED
  BY <1>1, AcceptMoves DEF Line

-----------------------------------------------------------------------------
(* Credentials *)

GoodRecord(r) ==
  r \in Record /\ r.credential_generation <= r.generation /\ r.reference[1] = r.credential_generation

Entries(entries) ==
  /\ \A e, f \in entries : e[1] = f[1] => e = f
  /\ \A e \in entries : e[1] \in Nat

\* Without a restore the shared record only moves forward.
Older(r) ==
  /\ r.generation <= record.generation
  /\ r.credential_generation = record.credential_generation
       \/ r.generation < record.credential_generation
  /\ r.state = "Revoked" => record.state = "Revoked"

\* No record of this line will name generation g again.
Spent(g) ==
  /\ g \in Nat
  /\ \/ record.state = "Revoked"
     \/ g <= record.generation /\ g # record.credential_generation

\* The credential the record names, and those a later record may name.
Alive(e) == (e[1] \in Nat /\ record.generation < e[1]) \/ e = record.reference

\* The connection is in use and its record was never restored.
InUse == restores = 0 /\ record.state # "Revoked"

RetirementOK(r) ==
  /\ DOMAIN r = {"due", "successor", "superseded"}
  /\ GoodRecord(r.successor)
  /\ restores = 0 => Older(r.successor) /\ \A g \in r.superseded : Spent(g)

ProposalOK(p) ==
  /\ GoodRecord(p.previous) /\ ~Exhausted(p.previous) /\ p.previous.state # "Revoked"
  /\ p.reference \in (1 .. MaxGeneration) \X {Command(s).secret : s \in Session}
  /\ p.reference[1] = p.previous.generation + 1
  /\ p.at \in 0 .. load.restores

\* What a command has loaded, kept and scheduled.
Carries(a) ==
  /\ GoodRecord(a.seen) /\ GoodRecord(a.first)
  /\ Entries(a.held)
  /\ a.accepted \in BOOLEAN
  /\ \A p \in a.proposal : ProposalOK(p)
  /\ \A r \in a.due : RetirementOK(r)
  /\ restores = 0 => \A g \in a.todo : Spent(g)
  /\ restores = 0 => Older(a.seen) /\ Older(a.first)

Rotating == {"holds", "note", "clear", "store", "publish", "swap", "discard", "confirm",
             "schedule", "retire"}

\* Which commands come to a step, and what they know of their record there.
KnowsRecord(s, a) ==
  /\ a.pc # "start" => Command(s).verb # "none"
  /\ a.pc \in Rotating => Command(s).verb \in Rotates \cup {"prepare"}
  /\ a.pc \in {"holds", "note", "clear", "store", "publish", "swap", "keep"} =>
       a.seen.state # "Revoked"
  /\ a.pc = "swap" =>
       /\ ~Exhausted(a.seen)
       /\ Command(s).verb = "commit" => Command(s).generation = a.seen.generation + 1
  /\ a.pc = "delete" \/ (a.pc = "witness" /\ Command(s).verb = "revoke") => a.seen.state = "Revoked"
  /\ (a.pc = "witness" /\ Command(s).verb \in Rotates) \/ (a.pc = "schedule" /\ ~a.accepted) =>
       a.first.credential_generation < a.seen.credential_generation

\* And of the generation it works on.
KnowsNext(s, a) ==
  /\ a.pc \in {"note", "clear", "store", "publish", "swap", "enlist", "place", "write"} =>
       a.next = a.seen.generation + 1
  /\ a.pc \in {"note", "clear", "store", "enlist", "place", "write"} => ~Exhausted(a.seen)
  /\ a.pc \in {"notes", "collect", "remove", "forget"} => Command(s).verb = "collect"
  /\ a.pc = "remove" => a.next \in a.todo
  /\ a.pc \in {"keep", "enlist", "place", "write"} => Command(s).verb = "stage"
  /\ a.pc \in {"present", "fence"} => Command(s).verb = "publish"
  /\ a.pc = "change" => Command(s).verb \in Changes
  /\ a.pc \in {"enlist", "place", "write"} =>
       \A p \in a.proposal : p.reference = <<a.next, Command(s).secret>>
  /\ a.pc = "write" => <<a.next, Command(s).secret>> \in a.held
  /\ a.pc = "start" => a.round = 1
  /\ a.pc # "done" => a.outcome # "staged"

\* What a process read under the lock is still what the store holds.
HeldAgrees(s, a) ==
  InUse /\ a.pc \in {"remove", "write"} =>
    \A e : Alive(e) =>
      /\ e \in custody[HostOf(s)] => e \in a.held
      /\ a.pc = "remove" /\ e \in a.held => e \in custody[HostOf(s)]

\* A candidate that was written is in the store while it may be published or is.
CandidateKept(s, a) ==
  /\ InUse /\ Command(s).verb = "stage"
  /\ (a.pc \in {"read", "accept"} /\ a.round # 1) \/ a.outcome = "staged"
  => \A p \in a.proposal : Alive(p.reference) => p.reference \in custody[HostOf(s)]

SessionInv(s, a) ==
  /\ Carries(a) /\ KnowsRecord(s, a) /\ KnowsNext(s, a)
  /\ HeldAgrees(s, a) /\ CandidateKept(s, a)

StoreInv(h) ==
  /\ Entries(custody[h]) /\ Entries(cached[h])
  /\ notes[h] \subseteq 1 .. MaxGeneration
  /\ GoodRecord(floor[h])
  /\ \A r \in retirements[h] : RetirementOK(r)

\* The server's copy agrees with the store on what is still needed.
CopyAgrees(h) ==
  InUse /\ (\A s \in Session : Command(s).verb \notin Candidates) =>
    \A e : Alive(e) => (e \in custody[h] <=> e \in cached[h])

OneWriter ==
  \A s, o \in Session :
    HostOf(s) = HostOf(o) /\ admin[s].pc \in {"remove", "write"} /\ admin[o].pc \in {"remove", "write"}
    => s = o

SharedInv ==
  /\ GoodRecord(record) /\ \A r \in past : GoodRecord(r)
  /\ \A t \in Task : GoodRecord(task[t].seen)
  /\ restores \in 0 .. load.restores
  /\ custody = [h \in Host |-> custody[h]] /\ cached = [h \in Host |-> cached[h]]
  /\ notes = [h \in Host |-> notes[h]] /\ retirements = [h \in Host |-> retirements[h]]

(***************************************************************************)
(* The inductive invariant of the credentials.  That a deletion spares the *)
(* credential in use follows from two things no single step shows: every   *)
(* record a deletion was decided by lies behind the shared one, and the    *)
(* copies of a store agree with it on every credential that is, or may     *)
(* still be, named by the record.                                          *)
(***************************************************************************)
CredentialInv ==
  /\ SharedInv
  /\ \A h \in Host : StoreInv(h) /\ CopyAgrees(h)
  /\ \A s \in Session : SessionInv(s, admin[s])
  /\ OneWriter

LEMMA GoodFacts ==
  ASSUME NEW r, GoodRecord(r)
  PROVE /\ r.generation \in Nat /\ r.credential_generation \in Nat
        /\ 1 <= r.credential_generation /\ r.credential_generation <= r.generation
        /\ r.generation <= MaxGeneration /\ MaxGeneration \in Nat
        /\ r.reference[1] = r.credential_generation
        /\ r.state \in {"Active", "Disabled", "Revoked"}
BY ConnectionAssumption DEF GoodRecord, Record

LEMMA ValuesStay ==
  ASSUME load' = load
  PROVE /\ \A s : Command(s)' = Command(s) /\ HostOf(s)' = HostOf(s)
        /\ \A r : GoodRecord(r)' <=> GoodRecord(r)
        /\ \A p : ProposalOK(p)' <=> ProposalOK(p)
<1>1. \A s : Command(s)' = Command(s) /\ HostOf(s)' = HostOf(s)
  BY DEF Command, HostOf
<1>2. Record' = Record
  BY DEF Record, Command
<1>3. \A r : GoodRecord(r)' <=> GoodRecord(r)
  BY <1>2 DEF GoodRecord
<1>4. \A p : ProposalOK(p)' <=> ProposalOK(p)
  BY <1>1, <1>3 DEF ProposalOK
<1> QED
  BY <1>1, <1>3, <1>4

\* What is said of a command, a schedule and a copy depends on four variables.
LEMMA ClaimsStay ==
  ASSUME UNCHANGED <<record, custody, load, restores>>
  PROVE /\ \A r : RetirementOK(r)' <=> RetirementOK(r)
        /\ \A s, a : SessionInv(s, a)' <=> SessionInv(s, a)
<1>1. \A r : RetirementOK(r)' <=> RetirementOK(r)
  BY ValuesStay DEF RetirementOK, Older, Spent
<1>2. ASSUME NEW s, NEW a PROVE SessionInv(s, a)' <=> SessionInv(s, a)
  <2>1. Carries(a)' <=> Carries(a)
    BY ValuesStay, <1>1 DEF Carries, Older, Spent
  <2>2. KnowsRecord(s, a)' <=> KnowsRecord(s, a)
    BY ValuesStay DEF KnowsRecord
  <2>3. KnowsNext(s, a)' <=> KnowsNext(s, a)
    BY ValuesStay DEF KnowsNext
  <2>4. HeldAgrees(s, a)' <=> HeldAgrees(s, a)
    BY ValuesStay DEF HeldAgrees, InUse, Alive
  <2>5. CandidateKept(s, a)' <=> CandidateKept(s, a)
    BY ValuesStay DEF CandidateKept, InUse, Alive
  <2> QED
    BY <2>1, <2>2, <2>3, <2>4, <2>5 DEF SessionInv
<1> QED
  BY <1>1, <1>2

\* What a step that deletes and stores nothing may do on the hosts.
HostsGood ==
  /\ UNCHANGED <<custody, cached>>
  /\ notes' = [h \in Host |-> notes'[h]] /\ retirements' = [h \in Host |-> retirements'[h]]
  /\ \A h \in Host : /\ notes'[h] \subseteq 1 .. MaxGeneration
                     /\ GoodRecord(floor'[h])
                     /\ \A r \in retirements'[h] : RetirementOK(r)

LEMMA HostsStay ==
  ASSUME CredentialInv, UNCHANGED hostVars
  PROVE HostsGood
BY DEF CredentialInv, SharedInv, StoreInv, HostsGood, hostVars

LEMMA BecomeFacts ==
  ASSUME AuthorityInv, NEW s \in Session, NEW a, Become(s, a)
  PROVE admin'[s] = a /\ \A o \in Session : o # s => admin'[o] = admin[o]
BY Zenon DEF AuthorityInv, Functions, Become

LEMMA OneWriterKept ==
  ASSUME AuthorityInv, CredentialInv, NEW s \in Session, NEW a, Become(s, a), load' = load,
         a.pc \in {"remove", "write"} => ~Locked(HostOf(s))
  PROVE OneWriter'
BY SMTT(20), BecomeFacts, ValuesStay DEF CredentialInv, OneWriter, Locked

\* A step of a command that leaves the record and the stores alone.
LEMMA QuietSession ==
  ASSUME AuthorityInv, CredentialInv, NEW s \in Session, NEW a, Become(s, a),
         UNCHANGED <<record, past, load, task, restores>>, HostsGood,
         SessionInv(s, a),
         a.pc \in {"remove", "write"} => ~Locked(HostOf(s))
  PROVE CredentialInv'
<1>0. UNCHANGED <<custody, cached>>
  BY DEF HostsGood
<1>1. SharedInv'
  BY ValuesStay DEF CredentialInv, SharedInv, HostsGood
<1>2. \A h \in Host : StoreInv(h)'
  BY Zenon, <1>0, ValuesStay, ClaimsStay DEF CredentialInv, StoreInv, HostsGood, Entries
<1>3. \A h \in Host : CopyAgrees(h)'
  BY <1>0, ValuesStay DEF CredentialInv, CopyAgrees, InUse, Alive
<1>4. \A o \in Session : SessionInv(o, admin'[o])
  BY Zenon, BecomeFacts DEF CredentialInv
<1>5. \A o \in Session : SessionInv(o, admin[o])'
  BY <1>0, <1>4, ClaimsStay
<1> QED
  BY <1>1, <1>2, <1>3, <1>5, OneWriterKept DEF CredentialInv

LEMMA CommandFacts ==
  ASSUME AuthorityInv, CredentialInv, NEW s \in Session
  PROVE /\ DOMAIN admin[s] = Fields /\ HostOf(s) \in Host
        /\ Carries(admin[s]) /\ KnowsRecord(s, admin[s]) /\ KnowsNext(s, admin[s])
        /\ HeldAgrees(s, admin[s]) /\ CandidateKept(s, admin[s])
        /\ GoodRecord(record) /\ Command(s).verb \in Verb
<1>1. Command(s).verb \in Verb
  BY ConnectionAssumption DEF AuthorityInv, Command
<1> QED
  BY <1>1, SessionFacts DEF CredentialInv, SessionInv, SharedInv

\* Nothing the command carries changes.
SameCargo(a, b) ==
  /\ a.seen = b.seen /\ a.first = b.first /\ a.held = b.held /\ a.accepted = b.accepted
  /\ a.proposal = b.proposal /\ a.due = b.due /\ a.todo = b.todo

LEMMA GoesOnInv ==
  ASSUME AuthorityInv, CredentialInv, NEW s \in Session, NEW a, SameCargo(a, admin[s]),
         a.outcome = admin[s].outcome, admin[s].pc # "done",
         a.pc \notin {"read", "accept", "remove", "write"},
         KnowsRecord(s, a), KnowsNext(s, a)
  PROVE SessionInv(s, a)
<1>1. Carries(a)
  BY CommandFacts DEF Carries, SameCargo
<1>2. HeldAgrees(s, a) /\ CandidateKept(s, a)
  BY Zenon, CommandFacts DEF HeldAgrees, CandidateKept, KnowsNext
<1> QED
  BY Zenon, <1>1, <1>2 DEF SessionInv

\* Only the place of the command changes.
LEMMA GotoInv ==
  ASSUME AuthorityInv, CredentialInv, NEW s \in Session, NEW pc, admin[s].pc # "done",
         pc \notin {"read", "accept", "remove", "write"},
         KnowsRecord(s, [admin[s] EXCEPT !.pc = pc]), KnowsNext(s, [admin[s] EXCEPT !.pc = pc])
  PROVE SessionInv(s, [admin[s] EXCEPT !.pc = pc])
<1> DEFINE a == [admin[s] EXCEPT !.pc = pc]
<1>1. SameCargo(a, admin[s]) /\ a.outcome = admin[s].outcome /\ a.pc = pc
  BY CommandFacts DEF SameCargo, Fields
<1>2. KnowsRecord(s, a) /\ KnowsNext(s, a)
  OBVIOUS
<1> HIDE DEF a
<1>3. SessionInv(s, a)
  BY <1>1, <1>2, GoesOnInv
<1> QED
  BY <1>3 DEF a

\* A command that is answered carries what it last saw.
LEMMA EndedInv ==
  ASSUME NEW s, NEW b, DOMAIN b = Fields, Carries(b), Command(s).verb # "none",
         NEW outcome, NEW drained, outcome # "staged"
  PROVE SessionInv(s, Ended(b, outcome, drained))
<1> DEFINE a == Ended(b, outcome, drained)
<1>1. /\ a.pc = "done" /\ a.seen = b.seen /\ a.first = b.seen /\ a.todo = {} /\ a.due = {}
      /\ a.held = b.held /\ a.accepted = b.accepted /\ a.proposal = b.proposal
      /\ a.outcome = outcome
  BY DEF Ended, Fields
<1> HIDE DEF a
<1>2. Carries(a)
  BY <1>1 DEF Carries
<1>3. KnowsRecord(s, a) /\ KnowsNext(s, a)
  BY <1>1 DEF KnowsRecord, KnowsNext, Rotating
<1>4. HeldAgrees(s, a) /\ CandidateKept(s, a)
  BY <1>1 DEF HeldAgrees, CandidateKept
<1>5. SessionInv(s, a)
  BY Zenon, <1>2, <1>3, <1>4 DEF SessionInv
<1> QED
  BY <1>5 DEF a

LEMMA AnswerInv ==
  ASSUME AuthorityInv, CredentialInv, NEW s \in Session, admin[s].pc # "start",
         NEW outcome, NEW drained, outcome # "staged"
  PROVE SessionInv(s, Ended(admin[s], outcome, drained))
BY CommandFacts, EndedInv DEF KnowsRecord

QuietFrame == UNCHANGED <<record, past, load, task, restores>> /\ HostsGood

LEMMA QuietAnswer ==
  ASSUME AuthorityInv, CredentialInv, NEW s \in Session, admin[s].pc # "start", QuietFrame,
         NEW outcome, NEW drained, outcome # "staged", Become(s, Ended(admin[s], outcome, drained))
  PROVE CredentialInv'
<1> DEFINE a == Ended(admin[s], outcome, drained)
<1>1. SessionInv(s, a)
  BY AnswerInv
<1>2. a.pc = "done" /\ Become(s, a)
  BY CommandFacts DEF Ended, Fields
<1> HIDE DEF a
<1> QED
  BY <1>1, <1>2, QuietSession DEF QuietFrame

LEMMA QuietGoto ==
  ASSUME AuthorityInv, CredentialInv, NEW s \in Session, NEW pc, Goto(s, pc), QuietFrame,
         admin[s].pc # "done", pc \notin {"read", "accept", "remove", "write"},
         KnowsRecord(s, [admin[s] EXCEPT !.pc = pc]), KnowsNext(s, [admin[s] EXCEPT !.pc = pc])
  PROVE CredentialInv'
<1> DEFINE a == [admin[s] EXCEPT !.pc = pc]
<1>1. SessionInv(s, a)
  BY GotoInv
<1>2. a.pc = pc /\ Become(s, a)
  BY CommandFacts DEF Fields, Goto
<1> HIDE DEF a
<1> QED
  BY <1>1, <1>2, QuietSession DEF QuietFrame

\* The fields of a command that only moves.
LEMMA MovedFields ==
  ASSUME AuthorityInv, CredentialInv, NEW s \in Session, NEW pc
  PROVE LET a == [admin[s] EXCEPT !.pc = pc] IN
        /\ a.pc = pc /\ a.round = admin[s].round /\ a.seen = admin[s].seen
        /\ a.first = admin[s].first /\ a.next = admin[s].next /\ a.todo = admin[s].todo
        /\ a.held = admin[s].held /\ a.proposal = admin[s].proposal
        /\ a.outcome = admin[s].outcome /\ a.accepted = admin[s].accepted
BY CommandFacts DEF Fields

LEMMA RotationFailsQuiet ==
  ASSUME AuthorityInv, CredentialInv, NEW s \in Session, RotationFails(s), QuietFrame,
         admin[s].pc \notin {"start", "done"}
  PROVE CredentialInv'
<1>1. CASE Command(s).verb = "rotate"
  <2> DEFINE a == [admin[s] EXCEPT !.pc = "discard"]
  <2>1. KnowsRecord(s, a) /\ KnowsNext(s, a)
    <3> HIDE DEF a
    <3>1. a.pc = "discard" /\ a.outcome = admin[s].outcome
      BY MovedFields DEF a
    <3> QED
      BY Zenon, <3>1, <1>1, CommandFacts DEF KnowsRecord, KnowsNext, Rotating, Rotates
  <2> QED
    BY <1>1, <2>1, QuietGoto DEF RotationFails
<1>2. CASE Command(s).verb # "rotate"
  BY Zenon, <1>2, QuietAnswer DEF RotationFails, Answer
<1> QED
  BY <1>1, <1>2

LEMMA ReadRecordCredential ==
  ASSUME AuthorityInv, CredentialInv, NEW s \in Session, ReadRecord(s)
  PROVE CredentialInv'
<1> DEFINE b == admin[s]
           a == [b EXCEPT !.seen = record, !.pc = "accept"]
<1>1. /\ a.pc = "accept" /\ a.seen = record /\ a.first = b.first /\ a.todo = b.todo /\ a.due = b.due
      /\ a.held = b.held /\ a.accepted = b.accepted /\ a.proposal = b.proposal
      /\ a.outcome = b.outcome /\ a.round = b.round
  BY CommandFacts DEF Fields
<1>2. Become(s, a) /\ b.pc \in {"read", "start"} /\ Command(s).verb # "none"
  BY CommandFacts DEF ReadRecord, At, KnowsRecord
<1>3. QuietFrame
  BY HostsStay DEF ReadRecord, sharedVars, QuietFrame
<1> HIDE DEF a
<1>4. Older(record)
  BY SMTT(20), CommandFacts, GoodFacts DEF Older
<1>5. Carries(a)
  BY <1>1, <1>4, CommandFacts DEF Carries
<1>6. KnowsRecord(s, a) /\ KnowsNext(s, a)
  BY Zenon, <1>1, <1>2, CommandFacts DEF KnowsRecord, KnowsNext, Rotating
<1>7. HeldAgrees(s, a) /\ CandidateKept(s, a)
  BY Zenon, <1>1, <1>2, CommandFacts DEF HeldAgrees, CandidateKept, KnowsNext
<1> QED
  BY <1>1, <1>2, <1>3, <1>5, <1>6, <1>7, QuietSession DEF SessionInv, QuietFrame

\* The candidate was written before its predecessor was seen again.
LEMMA StagedQuiet ==
  ASSUME AuthorityInv, CredentialInv, NEW s \in Session, QuietFrame,
         admin[s].pc = "accept", admin[s].round # 1, Answer(s, "staged")
  PROVE CredentialInv'
<1> DEFINE b == admin[s]
           a == Ended(b, "staged", FALSE)
<1>1. /\ a.pc = "done" /\ a.seen = b.seen /\ a.first = b.seen /\ a.todo = {} /\ a.due = {}
      /\ a.held = b.held /\ a.accepted = b.accepted /\ a.proposal = b.proposal
      /\ Become(s, a)
  BY CommandFacts DEF Ended, Fields, Answer
<1> HIDE DEF a
<1>2. Carries(a)
  BY Zenon, <1>1, CommandFacts DEF Carries
<1>3. KnowsRecord(s, a) /\ KnowsNext(s, a)
  BY Zenon, <1>1, CommandFacts DEF KnowsRecord, KnowsNext, Rotating
<1>4. HeldAgrees(s, a) /\ CandidateKept(s, a)
  BY Zenon, <1>1, CommandFacts DEF HeldAgrees, CandidateKept
<1> QED
  BY <1>1, <1>2, <1>3, <1>4, QuietSession DEF SessionInv, QuietFrame

LEMMA AfterLoadCredential ==
  ASSUME AuthorityInv, CredentialInv, NEW s \in Session, AfterLoad(s), QuietFrame, At(s, "accept")
  PROVE CredentialInv'
<1> DEFINE b == admin[s]
           verb == Command(s).verb
           moved(pc) == [b EXCEPT !.pc = pc]
           a == [b EXCEPT !.pc = "publish", !.next = b.seen.generation + 1]
<1>0. b.pc = "accept" /\ verb \in Verb /\ verb # "none"
  BY Zenon, CommandFacts DEF At, KnowsRecord
<1>1. \A pc : moved(pc).pc = pc /\ moved(pc).seen = b.seen /\ moved(pc).outcome = b.outcome
  BY MovedFields
<1>2. ASSUME NEW pc \in {"change", "notes", "collect", "keep", "present", "holds"}, Goto(s, pc),
             pc = "change" => verb \in Changes,
             pc \in {"notes", "collect"} => verb = "collect",
             pc = "keep" => verb = "stage" /\ b.seen.state # "Revoked",
             pc = "present" => verb = "publish",
             pc = "holds" => verb \in Rotates \cup {"prepare"} /\ b.seen.state # "Revoked"
      PROVE CredentialInv'
  <2> DEFINE m == moved(pc)
  <2>1. KnowsRecord(s, m) /\ KnowsNext(s, m)
    <3>1. m.pc = pc /\ m.seen = b.seen /\ m.outcome = b.outcome
      BY <1>1
    <3> HIDE DEF m
    <3> QED
      BY Zenon, <3>1, <1>0, <1>2, CommandFacts DEF KnowsRecord, KnowsNext, Rotating
  <2> QED
    BY <2>1, <1>0, <1>2, QuietGoto
<1>3. ASSUME NEW outcome, outcome # "staged", Answer(s, outcome) PROVE CredentialInv'
  BY Zenon, <1>0, <1>3, QuietAnswer DEF Answer
<1>4. CASE verb \in Changes
  <2>1. Goto(s, "change")
    BY <1>4 DEF AfterLoad, Changes, Emergency, Candidates
  <2> QED
    BY <2>1, <1>2, <1>4
<1>5. CASE verb = "collect"
  <2>1. Goto(s, "notes") \/ Goto(s, "collect") \/ Answer(s, "refused")
    BY <1>5 DEF AfterLoad, Changes, Emergency, Candidates
  <2> QED
    BY <2>1, <1>2, <1>3, <1>5
<1>6. CASE verb \in Candidates
  <2>1. AfterCandidateLoad(s)
    BY Zenon, <1>6 DEF AfterLoad, Changes, Emergency, Candidates
  <2>2. \/ \E outcome : outcome # "staged" /\ Answer(s, outcome)
        \/ verb = "stage" /\ b.seen.state # "Revoked" /\ Goto(s, "keep")
        \/ b.round # 1 /\ Answer(s, "staged")
        \/ verb = "publish" /\ Goto(s, "present")
    <3>1. Answer(s, "refused") \/ Answer(s, "published") => \E outcome : outcome # "staged" /\ Answer(s, outcome)
      OBVIOUS
    <3>2. verb = "stage" \/ verb = "publish"
      BY <1>6 DEF Candidates
    <3> QED
      BY <2>1, <3>1, <3>2 DEF AfterCandidateLoad
  <2> QED
    BY <2>2, <1>0, <1>2, <1>3, StagedQuiet
<1>7. CASE verb \notin Changes \cup Candidates /\ verb # "collect"
  <2>1. verb \in Rotates \cup {"prepare"}
    BY <1>0, <1>7 DEF Verb, Changes, Emergency, Candidates, Rotates
  <2>2. \/ Answer(s, "refused")
        \/ b.seen.state # "Revoked" /\ Goto(s, "holds")
        \/ b.seen.state # "Revoked" /\ Become(s, a)
    BY <1>7 DEF AfterLoad
  <2>3. ASSUME b.seen.state # "Revoked", Become(s, a) PROVE CredentialInv'
    <3>1. SameCargo(a, b) /\ a.outcome = b.outcome /\ a.pc = "publish" /\ a.next = a.seen.generation + 1
      BY CommandFacts DEF Fields, SameCargo
    <3> HIDE DEF a
    <3>2. KnowsRecord(s, a) /\ KnowsNext(s, a)
      BY Zenon, <3>1, <2>1, <2>3, <1>0, CommandFacts DEF KnowsRecord, KnowsNext, Rotating, SameCargo
    <3>3. SessionInv(s, a)
      BY <3>1, <3>2, <1>0, GoesOnInv
    <3> QED
      BY <3>1, <3>3, <2>3, QuietSession DEF QuietFrame
  <2> QED
    BY <2>1, <2>2, <2>3, <1>2, <1>3
<1> QED
  BY <1>4, <1>5, <1>6, <1>7

\* The floor of a host takes a record that the command has seen.
LEMMA RaisedGood ==
  ASSUME AuthorityInv, CredentialInv, NEW h \in Host, NEW r, GoodRecord(r),
         floor' = [floor EXCEPT ![h] = r], UNCHANGED <<custody, cached, notes, retirements>>
  PROVE HostsGood
<1>1. \A o \in Host : floor'[o] = floor[o] \/ floor'[o] = r
  BY DEF AuthorityInv, Functions
<1> QED
  BY <1>1 DEF CredentialInv, SharedInv, StoreInv, HostsGood

LEMMA AcceptRecordCredential ==
  ASSUME AuthorityInv, CredentialInv, NEW s \in Session, AcceptRecord(s)
  PROVE CredentialInv'
<1>0. UNCHANGED <<record, past, load, task, restores, custody, cached, notes, retirements>>
      /\ admin[s].pc = "accept"
  BY Zenon DEF AcceptRecord, sharedVars, At
<1>1. HostsGood
  <2>1. floor' = [floor EXCEPT ![HostOf(s)] = admin[s].seen] \/ UNCHANGED floor
    BY DEF AcceptRecord
  <2> QED
    BY <2>1, <1>0, RaisedGood, HostsStay, CommandFacts DEF Carries, hostVars
<1>2. AfterLoad(s) \/ Answer(s, "refused")
  BY DEF AcceptRecord
<1> QED
  BY Zenon, <1>0, <1>1, <1>2, AfterLoadCredential, QuietAnswer DEF QuietFrame, At, Answer

-----------------------------------------------------------------------------
(* Steps that move the shared record *)

Advances ==
  /\ GoodRecord(record')
  /\ record.state # "Revoked"
  /\ record'.generation = record.generation + 1
  /\ \/ /\ record'.credential_generation = record.credential_generation
        /\ record'.reference = record.reference
     \/ record'.credential_generation = record.generation + 1
  /\ past' = past \cup {record}

LEMMA AdvanceFacts ==
  ASSUME GoodRecord(record), Advances
  PROVE /\ \A r : GoodRecord(r) /\ Older(r) => Older(r)'
        /\ \A g : Spent(g) => Spent(g)'
        /\ \A e : Alive(e)' => Alive(e)
        /\ \A r : r = record' => Older(r)'
<1>1. /\ record.generation \in Nat /\ record.credential_generation \in Nat
      /\ record.credential_generation <= record.generation
      /\ record'.reference[1] = record'.credential_generation
      /\ record'.generation \in Nat /\ record'.credential_generation \in Nat
  BY GoodFacts DEF Advances
<1>2. \A r : GoodRecord(r) /\ Older(r) => Older(r)'
  BY <1>1, GoodFacts DEF Older, Advances
<1>3. \A g : Spent(g) => Spent(g)'
  BY <1>1 DEF Spent, Advances
<1>4. ASSUME NEW e, Alive(e)' PROVE Alive(e)
  <2>1. CASE e = record'.reference
    BY <2>1, <1>1 DEF Alive, Advances
  <2>2. CASE e[1] \in Nat /\ record'.generation < e[1]
    <3>1. e[1] \in Nat /\ record.generation + 1 < e[1]
      BY <2>2 DEF Advances
    <3> QED
      BY <3>1, <1>1 DEF Alive
  <2> QED
    BY <1>4, <2>1, <2>2 DEF Alive
<1>5. \A r : r = record' => Older(r)'
  BY <1>1 DEF Older
<1> QED
  BY <1>2, <1>3, <1>4, <1>5

LEMMA AdvanceClaims ==
  ASSUME GoodRecord(record), Advances, UNCHANGED <<custody, load, restores>>
  PROVE /\ \A r : RetirementOK(r) => RetirementOK(r)'
        /\ \A s, a : SessionInv(s, a) => SessionInv(s, a)'
<1>1. \A r : RetirementOK(r) => RetirementOK(r)'
  BY ValuesStay, AdvanceFacts DEF RetirementOK
<1>2. InUse' => InUse
  BY DEF InUse, Advances
<1>3. ASSUME NEW s, NEW a, SessionInv(s, a) PROVE SessionInv(s, a)'
  <2>1. Carries(a)'
    BY <1>1, <1>3, ValuesStay, AdvanceFacts DEF SessionInv, Carries, Entries
  <2>2. KnowsRecord(s, a)' /\ KnowsNext(s, a)'
    BY Zenon, <1>3, ValuesStay DEF SessionInv, KnowsRecord, KnowsNext
  <2>3. HeldAgrees(s, a)'
    BY Zenon, <1>2, <1>3, ValuesStay, AdvanceFacts DEF SessionInv, HeldAgrees
  <2>4. CandidateKept(s, a)'
    BY <1>2, <1>3, ValuesStay, AdvanceFacts DEF SessionInv, CandidateKept
  <2> QED
    BY SMTT(20), <2>1, <2>2, <2>3, <2>4 DEF SessionInv
<1> QED
  BY <1>1, <1>3

LEMMA RecordSession ==
  ASSUME AuthorityInv, CredentialInv, NEW s \in Session, NEW a, Become(s, a), Advances,
         UNCHANGED <<hostVars, load, task, restores>>,
         SessionInv(s, a)', a.pc \notin {"remove", "write"}
  PROVE CredentialInv'
<1>0. GoodRecord(record) /\ InUse' => InUse
  BY DEF CredentialInv, SharedInv, InUse, Advances
<1>g. GoodRecord(record) /\ UNCHANGED custody
  BY DEF CredentialInv, SharedInv, hostVars
<1>1. SharedInv'
  BY Zenon, ValuesStay DEF CredentialInv, SharedInv, Advances, hostVars
<1>2. \A h \in Host : StoreInv(h)'
  BY <1>g, ValuesStay, AdvanceClaims DEF CredentialInv, StoreInv, hostVars, Entries
<1>3. \A h \in Host : CopyAgrees(h)'
  BY Zenon, <1>0, <1>g, ValuesStay, AdvanceFacts DEF CredentialInv, CopyAgrees, hostVars
<1>4. \A o \in Session : SessionInv(o, admin[o])'
  BY Zenon, <1>g, BecomeFacts, AdvanceClaims DEF CredentialInv
<1> QED
  BY <1>1, <1>2, <1>3, <1>4, OneWriterKept DEF CredentialInv

\* The command does not take the new record over.
LEMMA RecordBehind ==
  ASSUME AuthorityInv, CredentialInv, NEW s \in Session, NEW a, Become(s, a), Advances,
         UNCHANGED <<hostVars, load, task, restores>>,
         SessionInv(s, a), a.pc \notin {"remove", "write"}
  PROVE CredentialInv'
<1>1. SessionInv(s, a)'
  BY SMTT(20), AdvanceClaims DEF CredentialInv, SharedInv, hostVars
<1> QED
  BY <1>1, RecordSession

\* The command goes on with the record it has written.
LEMMA RecordTaken ==
  ASSUME AuthorityInv, CredentialInv, NEW s \in Session, NEW a, Become(s, a), Advances,
         UNCHANGED <<hostVars, load, task, restores>>,
         a.seen = record', a.first \in {admin[s].first, admin[s].seen, record'},
         a.held = admin[s].held, a.accepted = admin[s].accepted,
         a.proposal = admin[s].proposal, a.due \subseteq admin[s].due,
         a.todo \subseteq admin[s].todo, a.outcome # "staged",
         a.pc \notin {"read", "accept", "remove", "write"}, KnowsRecord(s, a), KnowsNext(s, a)
  PROVE CredentialInv'
<1>g. GoodRecord(record) /\ UNCHANGED custody
  BY DEF CredentialInv, SharedInv, hostVars
<1>1. Carries(a)'
  <2>1. GoodRecord(a.seen)' /\ GoodRecord(a.first)'
    BY Zenon, ValuesStay, CommandFacts DEF Advances, Carries
  <2>2. Older(a.seen)'
    BY Zenon, <1>g, AdvanceFacts
  <2>3. restores' = 0 => Older(a.first)'
    BY Zenon, <1>g, AdvanceFacts, CommandFacts DEF Carries
  <2>4. (\A p \in a.proposal : ProposalOK(p)') /\ \A r \in a.due : RetirementOK(r)'
    BY Zenon, <1>g, ValuesStay, AdvanceClaims, CommandFacts DEF Carries
  <2>5. restores' = 0 => \A g \in a.todo : Spent(g)'
    BY Zenon, <1>g, AdvanceFacts, CommandFacts DEF Carries
  <2> QED
    BY Zenon, <2>1, <2>2, <2>3, <2>4, <2>5, CommandFacts DEF Carries, Entries
<1>2. KnowsRecord(s, a)' /\ KnowsNext(s, a)'
  BY Zenon, ValuesStay DEF KnowsRecord, KnowsNext
<1>3. HeldAgrees(s, a)' /\ CandidateKept(s, a)'
  BY Zenon, CommandFacts DEF HeldAgrees, CandidateKept, KnowsNext
<1> QED
  BY <1>1, <1>2, <1>3, RecordSession DEF SessionInv

\* The record is in place and the command goes on with it.
LEMMA AfterChangeQuiet ==
  ASSUME AuthorityInv, CredentialInv, NEW s \in Session, AfterChange(s, admin[s].seen), QuietFrame,
         admin[s].pc \notin {"start", "done"},
         Command(s).verb = "revoke" => admin[s].seen.state = "Revoked"
  PROVE CredentialInv'
<1> DEFINE b == [admin[s] EXCEPT !.seen = admin[s].seen]
           m(pc) == [b EXCEPT !.pc = pc]
           e == Ended(b, "stopped", FALSE)
<1>1. DOMAIN b = Fields /\ SameCargo(b, admin[s]) /\ b.outcome = admin[s].outcome
  BY CommandFacts DEF Fields, SameCargo
<1>2. \A pc : m(pc).pc = pc /\ SameCargo(m(pc), admin[s]) /\ m(pc).outcome = admin[s].outcome
  BY Zenon, <1>1 DEF Fields, SameCargo
<1>3. CASE Command(s).verb \in Emergency
  <2>0. Command(s).verb \notin {"revoke", "none"}
    BY <1>3 DEF Emergency
  <2>1. Become(s, e) /\ e.pc = "done"
    BY <1>3, <1>1, <2>0 DEF AfterChange, Ended, Fields
  <2> HIDE DEF b
  <2>2. Carries(b)
    BY Zenon, <1>1, CommandFacts DEF Carries, SameCargo
  <2>3. SessionInv(s, e)
    BY Zenon, <1>1, <2>0, <2>2, EndedInv
  <2> HIDE DEF e
  <2> QED
    BY <2>1, <2>3, QuietSession DEF QuietFrame
<1>4. CASE Command(s).verb \notin Emergency
  <2>1. PICK pc \in {"delete", "drain"} : Become(s, m(pc)) /\ (pc = "delete" => Command(s).verb = "revoke")
    BY <1>4 DEF AfterChange
  <2> DEFINE a == m(pc)
  <2>2. a.pc = pc /\ SameCargo(a, admin[s]) /\ a.outcome = admin[s].outcome /\ Become(s, a)
    BY Zenon, <1>2, <2>1
  <2> HIDE DEF a
  <2>3. KnowsRecord(s, a) /\ KnowsNext(s, a)
    BY Zenon, <2>1, <2>2, CommandFacts DEF KnowsRecord, KnowsNext, Rotating, SameCargo
  <2>4. SessionInv(s, a)
    BY <2>1, <2>2, <2>3, GoesOnInv
  <2> QED
    BY <2>1, <2>2, <2>4, QuietSession DEF QuietFrame
<1> QED
  BY <1>3, <1>4

\* The two ways the record moves.
LEMMA ChangedAdvances ==
  ASSUME AuthorityInv, CredentialInv, NEW s \in Session, admin[s].pc = "change",
         Swap(s, transition_state(admin[s].seen, Target(Command(s).verb))),
         ~Satisfied(Command(s).verb, admin[s].seen), Permitted(Command(s).verb, admin[s].seen)
  PROVE Advances /\ (Command(s).verb = "revoke" => record'.state = "Revoked")
<1> DEFINE verb == Command(s).verb
<1>1. verb \in Changes /\ record = admin[s].seen
  BY Zenon, CommandFacts DEF KnowsNext, Swap
<1>2. record.state # "Revoked" /\ record.generation # MaxGeneration
  BY <1>1 DEF Changes, Emergency, Satisfied, Permitted, Target, Exhausted
<1>3. record' = transition_state(record, Target(verb)) /\ past' = past \cup {record}
  BY <1>1 DEF Swap
<1>4. /\ record' = [generation |-> record.generation + 1,
                    credential_generation |-> record.credential_generation,
                    reference |-> record.reference, state |-> Target(verb), updated_at |-> restores]
      /\ Target(verb) \in {"Active", "Disabled", "Revoked"}
      /\ verb = "revoke" => Target(verb) = "Revoked"
  BY <1>3 DEF transition_state, Target
<1>5. restores \in 0 .. load.restores /\ record \in Record /\ GoodRecord(record)
  BY DEF CredentialInv, SharedInv, GoodRecord
<1>6. record.generation + 1 \in 1 .. MaxGeneration
  BY SMTT(20), <1>2, <1>5, GoodFacts
<1>7. GoodRecord(record')
  BY <1>4, <1>5, <1>6, GoodFacts DEF GoodRecord, Record
<1>8. /\ record'.generation = record.generation + 1
      /\ record'.credential_generation = record.credential_generation
      /\ record'.reference = record.reference /\ record'.state = Target(verb)
  BY ONLY <1>4
<1>9. Advances
  BY ONLY <1>2, <1>3, <1>7, <1>8 DEF Advances
<1> QED
  BY ONLY <1>4, <1>8, <1>9

LEMMA RotatedAdvances ==
  ASSUME CredentialInv, NEW c, NEW at \in 0 .. load.restores,
         record.state # "Revoked", ~Exhausted(record),
         c \in (1 .. MaxGeneration) \X {Command(o).secret : o \in Session},
         c[1] = record.generation + 1,
         record' = [generation |-> record.generation + 1,
                    credential_generation |-> record.generation + 1,
                    reference |-> c, state |-> record.state, updated_at |-> at],
         past' = past \cup {record}
  PROVE Advances
<1>1. record \in Record /\ GoodRecord(record)
  BY DEF CredentialInv, SharedInv, GoodRecord
<1>2. record.generation + 1 \in 1 .. MaxGeneration
  BY <1>1, GoodFacts DEF Exhausted
<1>3. GoodRecord(record')
  BY SMTT(20), <1>1, <1>2, GoodFacts DEF GoodRecord, Record
<1> QED
  BY <1>3 DEF Advances

\* What a rotation publishes.
LEMMA CommitmentFacts ==
  ASSUME AuthorityInv, CredentialInv, NEW s \in Session, admin[s].pc = "swap"
  PROVE Commitment(s) = <<admin[s].seen.generation + 1, Command(s).secret>>
BY CommandFacts DEF KnowsRecord, KnowsNext, Commitment, Successor

LEMMA PublishedAdvances ==
  ASSUME AuthorityInv, CredentialInv, NEW s \in Session, admin[s].pc = "swap",
         Swap(s, rotated(admin[s].seen, Commitment(s)))
  PROVE Advances /\ record'.credential_generation = admin[s].seen.generation + 1
<1>1. record = admin[s].seen /\ record.state # "Revoked" /\ ~Exhausted(record)
  BY Zenon, CommandFacts DEF Swap, KnowsRecord
<1>2. PICK c : c = Commitment(s)
  OBVIOUS
<1>3. c = <<record.generation + 1, Command(s).secret>>
  BY <1>1, <1>2, CommitmentFacts
<1>4. GoodRecord(record) /\ restores \in 0 .. load.restores
  BY DEF CredentialInv, SharedInv
<1>5. record.generation + 1 \in 1 .. MaxGeneration
  BY <1>1, <1>4, GoodFacts DEF Exhausted
<1>6. c \in (1 .. MaxGeneration) \X {Command(o).secret : o \in Session} /\ c[1] = record.generation + 1
  BY Zenon, <1>3, <1>5
<1>7. /\ record' = [generation |-> record.generation + 1,
                    credential_generation |-> record.generation + 1,
                    reference |-> c, state |-> record.state, updated_at |-> restores]
      /\ past' = past \cup {record}
  BY Zenon, <1>1, <1>2 DEF Swap, rotated
<1> QED
  BY Zenon, <1>1, <1>4, <1>6, <1>7, RotatedAdvances

LEMMA PutAdvances ==
  ASSUME AuthorityInv, CredentialInv, NEW s \in Session, NEW p \in admin[s].proposal, PutCandidate(p)
  PROVE Advances
<1>1. ProposalOK(p) /\ record = p.previous
  BY CommandFacts DEF Carries, PutCandidate
<1>2. /\ record' = [generation |-> record.generation + 1,
                    credential_generation |-> record.generation + 1,
                    reference |-> p.reference, state |-> record.state, updated_at |-> p.at]
      /\ past' = past \cup {record}
  BY <1>1 DEF PutCandidate, Proposed, rotated
<1> QED
  BY SMTT(20), <1>1, <1>2, RotatedAdvances DEF ProposalOK

LEMMA ChangeCredential ==
  ASSUME AuthorityInv, CredentialInv, NEW s \in Session, Change(s)
  PROVE CredentialInv'
<1> DEFINE b == admin[s]
           verb == Command(s).verb
           next == transition_state(b.seen, Target(verb))
<1>0. /\ b.pc = "change" /\ UNCHANGED <<hostVars, load, task, restores>>
      /\ DOMAIN b = Fields /\ verb \in Changes
  BY Zenon, CommandFacts DEF Change, At, KnowsNext
<1>1. CASE Satisfied(verb, b.seen)
  <2>1. AfterChange(s, b.seen) /\ UNCHANGED sharedVars
    BY <1>1 DEF Change
  <2>2. verb = "revoke" => b.seen.state = "Revoked"
    BY <1>1 DEF Satisfied, Target
  <2> QED
    BY <1>0, <2>1, <2>2, AfterChangeQuiet, HostsStay DEF QuietFrame, sharedVars
<1>2. CASE ~Satisfied(verb, b.seen) /\ ~(Permitted(verb, b.seen) /\ record = b.seen)
  <2> DEFINE a == [b EXCEPT !.pc = "read", !.round = b.round + 1]
  <2>1. (Answer(s, "refused") \/ Become(s, a)) /\ UNCHANGED sharedVars
    BY <1>2 DEF Change
  <2>2. QuietFrame
    BY <1>0, <2>1, HostsStay DEF QuietFrame, sharedVars
  <2>3. a.pc = "read" /\ SameCargo(a, b) /\ a.outcome = b.outcome
    BY Zenon, <1>0 DEF Fields, SameCargo
  <2> HIDE DEF a
  <2>4. Carries(a)
    BY <2>3, CommandFacts DEF Carries, SameCargo
  <2>5. KnowsRecord(s, a) /\ KnowsNext(s, a)
    BY Zenon, <1>0, <2>3, CommandFacts DEF KnowsRecord, KnowsNext, Rotating
  <2>6. HeldAgrees(s, a) /\ CandidateKept(s, a)
    BY SMTT(20), <1>0, <2>3 DEF HeldAgrees, CandidateKept, Changes, Emergency
  <2>7. ASSUME Become(s, a) PROVE CredentialInv'
    BY <2>2, <2>3, <2>4, <2>5, <2>6, <2>7, QuietSession DEF QuietFrame, SessionInv
  <2> QED
    BY Zenon, <1>0, <2>1, <2>2, <2>7, QuietAnswer DEF Answer
<1>3. CASE ~Satisfied(verb, b.seen) /\ Permitted(verb, b.seen) /\ record = b.seen
  <2>1. Swap(s, next) /\ record' = next
    BY Zenon, <1>3 DEF Change, Swap
  <2>2. Advances /\ (verb = "revoke" => record'.state = "Revoked")
    BY SMTT(20), <1>0, <1>3, <2>1, ChangedAdvances
  <2> HIDE DEF next
  <2>3. CASE verb \in Emergency
    <3>0. verb \notin {"revoke", "none"}
      BY <2>3 DEF Emergency
    <3>1. PICK c : c = [b EXCEPT !.seen = next]
      BY Zenon
    <3>2. PICK a : a = Ended(c, "stopped", FALSE)
      BY Zenon
    <3>3. Become(s, a)
      BY Zenon, <1>3, <2>3, <3>0, <3>1, <3>2 DEF Change, AfterChange, next
    <3>4. /\ a.pc = "done" /\ a.seen = next /\ a.first = next /\ a.todo = {} /\ a.due = {}
          /\ a.held = b.held /\ a.accepted = b.accepted /\ a.proposal = b.proposal
          /\ a.outcome = "stopped"
      BY Zenon, <1>0, <3>1, <3>2 DEF Ended, Fields
    <3>5. KnowsRecord(s, a) /\ KnowsNext(s, a)
      BY Zenon, <1>0, <3>0, <3>4 DEF KnowsRecord, KnowsNext, Rotating
    <3> QED
      BY <1>0, <2>1, <2>2, <3>3, <3>4, <3>5, RecordTaken
  <2>4. CASE verb \notin Emergency
    <3>1. PICK a : a = [b EXCEPT !.pc = "witness", !.seen = next]
      OBVIOUS
    <3>2. Become(s, a)
      BY <1>3, <2>4, <3>1 DEF Change, next
    <3>3. /\ a.pc = "witness" /\ a.seen = next /\ a.first = b.first /\ a.todo = b.todo /\ a.due = b.due
          /\ a.held = b.held /\ a.accepted = b.accepted /\ a.proposal = b.proposal
          /\ a.outcome = b.outcome
      BY <1>0, <3>1 DEF Fields
    <3>4. KnowsRecord(s, a) /\ KnowsNext(s, a)
      BY Zenon, <1>0, <2>1, <2>2, <3>3, CommandFacts DEF KnowsRecord, KnowsNext, Rotating, Changes, Emergency, Rotates
    <3>5. a.outcome # "staged"
      BY Zenon, <1>0, <3>3, CommandFacts DEF KnowsNext
    <3> QED
      BY <1>0, <2>1, <2>2, <3>2, <3>3, <3>4, <3>5, RecordTaken
  <2> QED
    BY <2>3, <2>4
<1> QED
  BY <1>1, <1>2, <1>3

LEMMA WitnessCredential ==
  ASSUME AuthorityInv, CredentialInv, NEW s \in Session, Witness(s)
  PROVE CredentialInv'
<1> DEFINE b == admin[s]
           verb == Command(s).verb
           m == [b EXCEPT !.pc = "schedule"]
<1>0. /\ UNCHANGED <<record, past, load, task, restores, custody, cached, notes, retirements>>
      /\ b.pc = "witness"
  BY Zenon DEF Witness, sharedVars, At
<1>1. QuietFrame
  <2>1. floor' = [floor EXCEPT ![HostOf(s)] = b.seen] \/ UNCHANGED floor
    BY DEF Witness
  <2> QED
    BY Zenon, <2>1, <1>0, RaisedGood, HostsStay, CommandFacts DEF Carries, hostVars, QuietFrame
<1>2. \/ verb \in Rotates /\ Goto(s, "schedule")
      \/ verb \notin Rotates /\ AfterChange(s, b.seen)
      \/ RotationFails(s) \/ Answer(s, "refused")
  BY DEF Witness
<1>3. verb \in Rotates => KnowsRecord(s, m) /\ KnowsNext(s, m)
  <2>1. /\ m.pc = "schedule" /\ m.seen = b.seen /\ m.first = b.first /\ m.accepted = b.accepted
        /\ m.outcome = b.outcome
    BY Zenon, MovedFields
  <2> HIDE DEF m
  <2> QED
    BY Zenon, <1>0, <2>1, CommandFacts DEF KnowsRecord, KnowsNext, Rotating
<1>4. verb = "revoke" => b.seen.state = "Revoked"
  BY <1>0, CommandFacts DEF KnowsRecord
<1>5. CASE verb \in Rotates /\ Goto(s, "schedule")
  BY Zenon, <1>0, <1>1, <1>3, <1>5, QuietGoto
<1>6. CASE verb \notin Rotates /\ AfterChange(s, b.seen)
  BY <1>0, <1>1, <1>4, <1>6, AfterChangeQuiet
<1>7. CASE RotationFails(s) \/ Answer(s, "refused")
  BY Zenon, <1>0, <1>1, <1>7, RotationFailsQuiet, QuietAnswer DEF Answer
<1> QED
  BY Zenon, <1>2, <1>5, <1>6, <1>7

-----------------------------------------------------------------------------
(* Other steps that leave the record and the stores alone *)

\* A generation that a record of the line has left behind is spent.
LEMMA LeftBehind ==
  ASSUME GoodRecord(record), NEW r, GoodRecord(r), Older(r), NEW g \in Nat, g <= r.generation,
         r.state = "Revoked" \/ g # r.credential_generation
  PROVE Spent(g)
BY GoodFacts DEF Older, Spent

LEMMA NotesGood ==
  ASSUME AuthorityInv, CredentialInv, NEW h \in Host, NEW more, more \subseteq 1 .. MaxGeneration,
         notes' = [notes EXCEPT ![h] = more], UNCHANGED <<floor, custody, cached, retirements>>
  PROVE HostsGood
<1>1. /\ notes' = [o \in Host |-> notes'[o]]
      /\ \A o \in Host : notes'[o] = notes[o] \/ notes'[o] = more
  BY DEF CredentialInv, SharedInv
<1> QED
  BY <1>1 DEF CredentialInv, SharedInv, StoreInv, HostsGood

LEMMA NotingCredential ==
  ASSUME AuthorityInv, CredentialInv, NEW s \in Session, NoteCredential(s) \/ NoteCandidate(s)
  PROVE CredentialInv'
<1> DEFINE b == admin[s]
           pc == IF b.pc = "note" THEN "clear" ELSE "place"
           m == [b EXCEPT !.pc = pc]
           more == notes[HostOf(s)] \cup {b.seen.credential_generation, b.next}
<1>0. /\ UNCHANGED <<record, past, load, task, restores, floor, custody, cached, retirements>>
      /\ b.pc \in {"note", "enlist"} /\ Goto(s, pc)
      /\ notes' = [notes EXCEPT ![HostOf(s)] = more]
  BY DEF NoteCredential, NoteCandidate, At, sharedVars
<1>1. more \subseteq 1 .. MaxGeneration
  <2>1. GoodRecord(b.seen) /\ b.next = b.seen.generation + 1 /\ ~Exhausted(b.seen)
    BY Zenon, <1>0, CommandFacts DEF Carries, KnowsNext
  <2>2. notes[HostOf(s)] \subseteq 1 .. MaxGeneration
    BY CommandFacts DEF CredentialInv, StoreInv
  <2> QED
    BY <2>1, <2>2, GoodFacts DEF Exhausted
<1> HIDE DEF more
<1>2. QuietFrame
  BY Zenon, <1>0, <1>1, NotesGood, CommandFacts DEF QuietFrame
<1>3. KnowsRecord(s, m) /\ KnowsNext(s, m)
  <2>1. /\ m.pc = pc /\ m.seen = b.seen /\ m.next = b.next /\ m.proposal = b.proposal
        /\ m.outcome = b.outcome
    BY MovedFields
  <2> HIDE DEF m
  <2> QED
    BY Zenon, <1>0, <2>1, CommandFacts DEF KnowsRecord, KnowsNext, Rotating
<1> QED
  BY SMTT(20), <1>0, <1>2, <1>3, QuietGoto

LEMMA DrainCredential ==
  ASSUME AuthorityInv, CredentialInv, NEW s \in Session, Drain(s) \/ Retired(s) \/ Collected(s)
  PROVE CredentialInv'
<1> DEFINE m == [admin[s] EXCEPT !.pc = "drain"]
<1>0. QuietFrame /\ admin[s].pc \in {"drain", "retire", "collect"}
  BY HostsStay DEF QuietFrame, Drain, Retired, Collected, sharedVars, At
<1>1. \/ Goto(s, "drain")
      \/ \E outcome \in {"changed", "accepted", "collected"}, drained \in {TRUE, FALSE} :
           Become(s, Ended(admin[s], outcome, drained))
  BY Zenon DEF Drain, Retired, Collected, Answer
<1>2. KnowsRecord(s, m) /\ KnowsNext(s, m)
  <2>1. m.pc = "drain" /\ m.outcome = admin[s].outcome
    BY Zenon, MovedFields
  <2> HIDE DEF m
  <2> QED
    BY Zenon, <1>0, <2>1, CommandFacts DEF KnowsRecord, KnowsNext, Rotating
<1> QED
  BY Zenon, <1>0, <1>1, <1>2, QuietGoto, QuietAnswer

LEMMA ScheduleCredential ==
  ASSUME AuthorityInv, CredentialInv, NEW s \in Session, ScheduleRetirement(s)
  PROVE CredentialInv'
<1> DEFINE b == admin[s]
           h == HostOf(s)
           superseded == IF b.accepted THEN {} ELSE {b.first.credential_generation}
           due == {r \in retirements[h] : r.due}
           n == [due |-> FALSE, successor |-> b.seen, superseded |-> superseded]
           left == (retirements[h] \ due) \cup {n}
           a == [b EXCEPT !.pc = "retire", !.due = due]
<1>0. /\ UNCHANGED <<record, past, load, task, restores, floor, custody, cached, notes>>
      /\ b.pc = "schedule" /\ Become(s, a) /\ h \in Host
      /\ retirements' = [retirements EXCEPT ![h] = left]
  BY CommandFacts DEF ScheduleRetirement, At, sharedVars
<1>1. \A r \in retirements[h] : RetirementOK(r)
  BY Zenon, <1>0 DEF CredentialInv, StoreInv
<1>2. RetirementOK(n)
  <2>1. GoodRecord(b.seen) /\ GoodRecord(b.first) /\ (restores = 0 => Older(b.seen)) /\ b.accepted \in BOOLEAN
    BY CommandFacts DEF Carries
  <2>2. ~b.accepted => b.first.credential_generation < b.seen.credential_generation
    BY SMTT(20), <1>0, CommandFacts DEF KnowsRecord
  <2>3. restores = 0 => \A g \in superseded : Spent(g)
    <3> SUFFICES ASSUME restores = 0, ~b.accepted PROVE Spent(b.first.credential_generation)
      OBVIOUS
    <3> QED
      BY <2>1, <2>2, LeftBehind, GoodFacts, CommandFacts
  <2> HIDE DEF superseded
  <2> QED
    BY SMTT(20), <2>1, <2>3 DEF RetirementOK
<1>3. a.pc = "retire" /\ a.due = due /\ a.seen = b.seen /\ a.first = b.first /\ a.held = b.held
      /\ a.accepted = b.accepted /\ a.proposal = b.proposal /\ a.todo = b.todo /\ a.outcome = b.outcome
  BY CommandFacts DEF Fields
<1>4. \A r \in a.due : RetirementOK(r)
  BY Zenon, <1>1, <1>3
<1> HIDE DEF n, a
<1>5. QuietFrame
  <2>1. /\ retirements' = [o \in Host |-> retirements'[o]]
        /\ \A o \in Host : retirements'[o] = retirements[o] \/ retirements'[o] = left
    BY Zenon, <1>0 DEF CredentialInv, SharedInv
  <2> QED
    BY <1>0, <1>1, <1>2, <2>1 DEF CredentialInv, SharedInv, StoreInv, HostsGood, QuietFrame
<1>6. SessionInv(s, a)
  <2>1. Carries(a)
    BY Zenon, <1>3, <1>4, CommandFacts DEF Carries
  <2>2. KnowsRecord(s, a) /\ KnowsNext(s, a)
    BY Zenon, <1>0, <1>3, CommandFacts DEF KnowsRecord, KnowsNext, Rotating
  <2>3. HeldAgrees(s, a) /\ CandidateKept(s, a)
    BY Zenon, <1>0, <1>3, CommandFacts DEF HeldAgrees, CandidateKept, KnowsNext
  <2> QED
    BY <2>1, <2>2, <2>3 DEF SessionInv
<1> QED
  BY Zenon, <1>0, <1>3, <1>5, <1>6, QuietSession DEF QuietFrame

LEMMA ReadNotesCredential ==
  ASSUME AuthorityInv, CredentialInv, NEW s \in Session, ReadNotes(s)
  PROVE CredentialInv'
<1> DEFINE b == admin[s]
           todo == Collectable(b.seen, notes[HostOf(s)])
           a == [b EXCEPT !.pc = "read", !.round = 2, !.first = b.seen, !.todo = todo]
<1>0. QuietFrame /\ b.pc = "notes" /\ Become(s, a)
  BY HostsStay DEF QuietFrame, ReadNotes, sharedVars, At
<1>1. /\ a.pc = "read" /\ a.seen = b.seen /\ a.first = b.seen /\ a.todo = todo /\ a.due = b.due
      /\ a.held = b.held /\ a.accepted = b.accepted /\ a.proposal = b.proposal
      /\ a.outcome = b.outcome
  BY CommandFacts DEF Fields
<1>2. restores = 0 => \A g \in todo : Spent(g)
  <2> SUFFICES ASSUME restores = 0, NEW g \in todo PROVE Spent(g)
    OBVIOUS
  <2>1. g \in Nat /\ g <= b.seen.generation
        /\ (b.seen.state = "Revoked" \/ g # b.seen.credential_generation)
    <3>1. notes[HostOf(s)] \subseteq 1 .. MaxGeneration
      BY Zenon, CommandFacts DEF CredentialInv, StoreInv
    <3> QED
      BY SMTT(20), <3>1 DEF Collectable
  <2>2. GoodRecord(b.seen) /\ Older(b.seen) /\ GoodRecord(record)
    BY Zenon, CommandFacts DEF Carries
  <2> HIDE DEF todo
  <2> QED
    BY <2>1, <2>2, LeftBehind
<1> HIDE DEF a, todo
<1>3. Carries(a)
  BY Zenon, <1>1, <1>2, CommandFacts DEF Carries
<1>4. KnowsRecord(s, a) /\ KnowsNext(s, a)
  BY Zenon, <1>0, <1>1, CommandFacts DEF KnowsRecord, KnowsNext, Rotating
<1>5. HeldAgrees(s, a) /\ CandidateKept(s, a)
  BY Zenon, <1>0, <1>1, CommandFacts DEF HeldAgrees, CandidateKept, KnowsNext
<1> QED
  BY Zenon, <1>0, <1>1, <1>3, <1>4, <1>5, QuietSession DEF SessionInv, QuietFrame

LEMMA CollectOneCredential ==
  ASSUME AuthorityInv, CredentialInv, NEW s \in Session, NEW g \in admin[s].todo, CollectOne(s, g)
  PROVE CredentialInv'
<1> DEFINE b == admin[s]
           entries == custody[HostOf(s)]
           a == [b EXCEPT !.pc = "remove", !.next = g, !.held = entries]
<1>0. QuietFrame /\ b.pc = "collect" /\ Become(s, a) /\ ~Locked(HostOf(s))
  BY HostsStay DEF QuietFrame, CollectOne, sharedVars, At
<1>1. /\ a.pc = "remove" /\ a.seen = b.seen /\ a.first = b.first /\ a.todo = b.todo /\ a.due = b.due
      /\ a.held = entries /\ a.accepted = b.accepted /\ a.proposal = b.proposal
      /\ a.outcome = b.outcome /\ a.next = g
  BY Zenon, CommandFacts DEF Fields
<1>2. Entries(entries)
  BY CommandFacts DEF CredentialInv, StoreInv
<1> HIDE DEF a
<1>3. Carries(a)
  BY Zenon, <1>1, <1>2, CommandFacts DEF Carries
<1>4. KnowsRecord(s, a) /\ KnowsNext(s, a)
  BY Zenon, <1>0, <1>1, CommandFacts DEF KnowsRecord, KnowsNext, Rotating
<1>5. HeldAgrees(s, a) /\ CandidateKept(s, a)
  BY Zenon, <1>0, <1>1, CommandFacts DEF HeldAgrees, CandidateKept, KnowsNext
<1> QED
  BY Zenon, <1>0, <1>3, <1>4, <1>5, QuietSession DEF SessionInv, QuietFrame

LEMMA ForgetCredential ==
  ASSUME AuthorityInv, CredentialInv, NEW s \in Session, Forget(s)
  PROVE CredentialInv'
<1> DEFINE b == admin[s]
           todo == b.todo \ {b.next}
           more == notes[HostOf(s)] \ {b.next}
           a == [b EXCEPT !.pc = "collect", !.todo = todo]
<1>0. /\ UNCHANGED <<record, past, load, task, restores, floor, custody, cached, retirements>>
      /\ b.pc = "forget" /\ Become(s, a) /\ notes' = [notes EXCEPT ![HostOf(s)] = more]
  BY DEF Forget, sharedVars, At
<1>1. /\ a.pc = "collect" /\ a.seen = b.seen /\ a.first = b.first /\ a.todo = todo /\ a.due = b.due
      /\ a.held = b.held /\ a.accepted = b.accepted /\ a.proposal = b.proposal
      /\ a.outcome = b.outcome
  BY Zenon, CommandFacts DEF Fields
<1>2. more \subseteq 1 .. MaxGeneration
  BY CommandFacts DEF CredentialInv, StoreInv
<1> HIDE DEF a, more
<1>3. QuietFrame
  BY Zenon, <1>0, <1>2, NotesGood, CommandFacts DEF QuietFrame
<1>4. Carries(a)
  BY Zenon, <1>1, CommandFacts DEF Carries
<1>5. KnowsRecord(s, a) /\ KnowsNext(s, a)
  BY Zenon, <1>0, <1>1, CommandFacts DEF KnowsRecord, KnowsNext, Rotating
<1>6. HeldAgrees(s, a) /\ CandidateKept(s, a)
  BY Zenon, <1>0, <1>1, CommandFacts DEF HeldAgrees, CandidateKept, KnowsNext
<1> QED
  BY Zenon, <1>0, <1>1, <1>3, <1>4, <1>5, <1>6, QuietSession DEF SessionInv, QuietFrame

LEMMA KeepCurrentCredential ==
  ASSUME AuthorityInv, CredentialInv, NEW s \in Session, KeepCurrent(s)
  PROVE CredentialInv'
<1> DEFINE b == admin[s]
           c == <<b.seen.generation + 1, Command(s).secret>>
           p == [previous |-> b.seen, at |-> restores, reference |-> c]
           a == [b EXCEPT !.pc = "enlist", !.next = b.seen.generation + 1, !.first = b.seen,
                          !.proposal = {p}]
<1>0. QuietFrame /\ b.pc = "keep"
  BY HostsStay DEF QuietFrame, KeepCurrent, sharedVars, At
<1>1. Answer(s, "refused") \/ (~Exhausted(b.seen) /\ Become(s, a))
  BY DEF KeepCurrent
<1>2. ASSUME ~Exhausted(b.seen), Become(s, a) PROVE CredentialInv'
  <2>1. /\ a.pc = "enlist" /\ a.seen = b.seen /\ a.first = b.seen /\ a.todo = b.todo /\ a.due = b.due
        /\ a.held = b.held /\ a.accepted = b.accepted /\ a.proposal = {p}
        /\ a.outcome = b.outcome /\ a.next = b.seen.generation + 1
    BY CommandFacts DEF Fields
  <2>2. p.previous = b.seen /\ p.at = restores /\ p.reference = c
    BY Zenon
  <2> HIDE DEF a, p
  <2>3. ProposalOK(p)
    <3>1. GoodRecord(b.seen) /\ b.seen.state # "Revoked" /\ restores \in 0 .. load.restores
      BY Zenon, <1>0, CommandFacts DEF Carries, KnowsRecord, CredentialInv, SharedInv
    <3>2. b.seen.generation + 1 \in 1 .. MaxGeneration
      BY <1>2, <3>1, GoodFacts DEF Exhausted
    <3>3. c \in (1 .. MaxGeneration) \X {Command(o).secret : o \in Session}
      BY <3>2
    <3> QED
      BY SMTT(20), <1>2, <2>2, <3>1, <3>3 DEF ProposalOK
  <2>4. Carries(a)
    BY Zenon, <2>1, <2>3, CommandFacts DEF Carries
  <2>5. KnowsRecord(s, a) /\ KnowsNext(s, a)
    BY Zenon, <1>0, <1>2, <2>1, <2>2, CommandFacts DEF KnowsRecord, KnowsNext, Rotating
  <2>6. HeldAgrees(s, a) /\ CandidateKept(s, a)
    BY Zenon, <1>0, <2>1, CommandFacts DEF HeldAgrees, CandidateKept, KnowsNext
  <2> QED
    BY Zenon, <1>0, <1>2, <2>1, <2>4, <2>5, <2>6, QuietSession DEF SessionInv, QuietFrame
<1> QED
  BY Zenon, <1>0, <1>1, <1>2, QuietAnswer DEF Answer

\* A store with one secret per generation stays one when nothing conflicts.
LEMMA AddedEntry ==
  ASSUME NEW entries, Entries(entries), NEW e, e[1] \in Nat, ~Conflicts(entries, e)
  PROVE Entries(entries \cup {e})
BY DEF Entries, Conflicts

LEMMA PlaceCredential ==
  ASSUME AuthorityInv, CredentialInv, NEW s \in Session, PlaceCandidate(s)
  PROVE CredentialInv'
<1> DEFINE b == admin[s]
           entries == custody[HostOf(s)]
           more == entries \cup {Successor(s)}
           a == [b EXCEPT !.pc = "write", !.held = more]
<1>0. QuietFrame /\ b.pc = "place" /\ ~Locked(HostOf(s))
  BY HostsStay DEF QuietFrame, PlaceCandidate, sharedVars, At
<1>1. Answer(s, "refused") \/ (~Conflicts(entries, Successor(s)) /\ Become(s, a))
  BY DEF PlaceCandidate
<1>2. ASSUME ~Conflicts(entries, Successor(s)), Become(s, a) PROVE CredentialInv'
  <2>1. /\ a.pc = "write" /\ a.seen = b.seen /\ a.first = b.first /\ a.todo = b.todo /\ a.due = b.due
        /\ a.held = more /\ a.accepted = b.accepted /\ a.proposal = b.proposal
        /\ a.outcome = b.outcome /\ a.next = b.next
    BY CommandFacts DEF Fields
  <2>2. Successor(s) = <<b.next, Command(s).secret>> /\ b.next = b.seen.generation + 1
        /\ GoodRecord(b.seen)
    BY Zenon, <1>0, CommandFacts DEF Successor, KnowsNext, Carries
  <2>3. Successor(s)[1] \in Nat
    BY <2>2, GoodFacts
  <2>4. Entries(more)
    BY <1>2, <2>3, AddedEntry, CommandFacts DEF CredentialInv, StoreInv
  <2>5. entries \subseteq more /\ Successor(s) \in more
    OBVIOUS
  <2> HIDE DEF a, more
  <2>6. Carries(a)
    BY Zenon, <2>1, <2>4, CommandFacts DEF Carries
  <2>7. KnowsRecord(s, a) /\ KnowsNext(s, a)
    BY Zenon, <1>0, <2>1, <2>2, <2>5, CommandFacts DEF KnowsRecord, KnowsNext, Rotating
  <2>8. HeldAgrees(s, a) /\ CandidateKept(s, a)
    BY Zenon, <1>0, <2>1, <2>5, CommandFacts DEF HeldAgrees, CandidateKept, KnowsNext
  <2> QED
    BY Zenon, <1>0, <1>2, <2>6, <2>7, <2>8, QuietSession DEF SessionInv, QuietFrame
<1> QED
  BY Zenon, <1>0, <1>1, <1>2, QuietAnswer DEF Answer

LEMMA ReadProposalCredential ==
  ASSUME AuthorityInv, CredentialInv, NEW s \in Session, ReadProposal(s)
  PROVE CredentialInv'
<1> DEFINE b == admin[s]
<1>1. PICK o \in Session : Become(s, [b EXCEPT !.pc = "read", !.proposal = admin[o].proposal])
  BY Zenon DEF ReadProposal
<1> DEFINE a == [b EXCEPT !.pc = "read", !.proposal = admin[o].proposal]
<1>2. QuietFrame /\ b.pc = "start" /\ Command(s).verb = "publish"
  BY HostsStay DEF QuietFrame, ReadProposal, sharedVars, At
<1>3. /\ a.pc = "read" /\ a.seen = b.seen /\ a.first = b.first /\ a.todo = b.todo /\ a.due = b.due
      /\ a.held = b.held /\ a.accepted = b.accepted /\ a.proposal = admin[o].proposal
      /\ a.outcome = b.outcome
  BY CommandFacts DEF Fields
<1>4. Become(s, a)
  BY <1>1
<1> HIDE DEF a
<1>5. Carries(a)
  BY Zenon, <1>3, CommandFacts DEF Carries
<1>6. KnowsRecord(s, a) /\ KnowsNext(s, a)
  BY Zenon, <1>2, <1>3, CommandFacts DEF KnowsRecord, KnowsNext, Rotating
<1>7. HeldAgrees(s, a) /\ CandidateKept(s, a)
  BY Zenon, <1>2, <1>3, CommandFacts DEF HeldAgrees, CandidateKept
<1> QED
  BY Zenon, <1>2, <1>3, <1>4, <1>5, <1>6, <1>7, QuietSession DEF SessionInv, QuietFrame

LEMMA PresentCredential ==
  ASSUME AuthorityInv, CredentialInv, NEW s \in Session, PresentCandidate(s)
  PROVE CredentialInv'
<1> DEFINE m == [admin[s] EXCEPT !.pc = "fence"]
<1>0. QuietFrame /\ admin[s].pc = "present" /\ (Goto(s, "fence") \/ Answer(s, "refused"))
  BY Zenon, HostsStay DEF QuietFrame, PresentCandidate, sharedVars, At
<1>1. KnowsRecord(s, m) /\ KnowsNext(s, m)
  <2>1. m.pc = "fence" /\ m.outcome = admin[s].outcome
    BY MovedFields
  <2> HIDE DEF m
  <2> QED
    BY Zenon, <1>0, <2>1, CommandFacts DEF KnowsRecord, KnowsNext, Rotating
<1> QED
  BY Zenon, <1>0, <1>1, QuietGoto, QuietAnswer DEF Answer

LEMMA PublishCandidateCredential ==
  ASSUME AuthorityInv, CredentialInv, NEW s \in Session, PublishCandidate(s)
  PROVE CredentialInv'
<1> DEFINE b == admin[s]
           a == [b EXCEPT !.pc = "read", !.round = 2]
<1>0. b.pc = "fence" /\ UNCHANGED <<hostVars, load, task, restores>>
  BY DEF PublishCandidate, At
<1>1. /\ a.pc = "read" /\ a.seen = b.seen /\ a.first = b.first /\ a.todo = b.todo /\ a.due = b.due
      /\ a.held = b.held /\ a.accepted = b.accepted /\ a.proposal = b.proposal
      /\ a.outcome = b.outcome
  BY CommandFacts DEF Fields
<1>2. \/ Become(s, a) /\ \E p \in b.proposal : PutCandidate(p)
      \/ UNCHANGED sharedVars /\ (Become(s, a) \/ Answer(s, "refused"))
  BY DEF PublishCandidate
<1> HIDE DEF a
<1>3. SessionInv(s, a)
  <2>1. Carries(a)
    BY Zenon, <1>1, CommandFacts DEF Carries
  <2>2. KnowsRecord(s, a) /\ KnowsNext(s, a)
    BY Zenon, <1>0, <1>1, CommandFacts DEF KnowsRecord, KnowsNext, Rotating
  <2>3. HeldAgrees(s, a) /\ CandidateKept(s, a)
    BY Zenon, <1>0, <1>1, CommandFacts DEF HeldAgrees, CandidateKept, KnowsNext
  <2> QED
    BY <2>1, <2>2, <2>3 DEF SessionInv
<1>4. CASE Become(s, a) /\ \E p \in b.proposal : PutCandidate(p)
  BY <1>0, <1>1, <1>3, <1>4, PutAdvances, RecordBehind
<1>5. CASE UNCHANGED sharedVars /\ (Become(s, a) \/ Answer(s, "refused"))
  <2>1. QuietFrame
    BY <1>0, <1>5, HostsStay DEF QuietFrame, sharedVars
  <2> QED
    BY Zenon, <1>0, <1>1, <1>3, <1>5, <2>1, QuietSession, QuietAnswer DEF QuietFrame, Answer
<1> QED
  BY <1>2, <1>4, <1>5

LEMMA PublishRotationCredential ==
  ASSUME AuthorityInv, CredentialInv, NEW s \in Session, PublishRotation(s)
  PROVE CredentialInv'
<1> DEFINE b == admin[s]
           next == rotated(b.seen, Commitment(s))
<1>0. b.pc = "swap" /\ UNCHANGED <<hostVars, load, task, restores>>
  BY Zenon DEF PublishRotation, At
<1>1. CASE record = b.seen
  <2>1. Swap(s, next) /\ record' = next
    BY Zenon, <1>1 DEF PublishRotation, Swap
  <2>2. Advances /\ record'.credential_generation = b.seen.generation + 1
    BY <1>0, <2>1, PublishedAdvances
  <2>3. PICK a : a = [b EXCEPT !.pc = "witness", !.first = b.seen, !.seen = next]
    OBVIOUS
  <2>4. Become(s, a)
    BY <1>1, <2>3 DEF PublishRotation
  <2> HIDE DEF next
  <2>5. /\ a.pc = "witness" /\ a.seen = next /\ a.first = b.seen /\ a.todo = b.todo /\ a.due = b.due
        /\ a.held = b.held /\ a.accepted = b.accepted /\ a.proposal = b.proposal
        /\ a.outcome = b.outcome
    BY Zenon, <2>3, CommandFacts DEF Fields
  <2>6. a.first.credential_generation < a.seen.credential_generation
    <3>1. GoodRecord(b.seen)
      BY Zenon, CommandFacts DEF Carries
    <3> QED
      BY <2>1, <2>2, <2>5, <3>1, GoodFacts
  <2>7. Command(s).verb \in Rotates \cup {"prepare"}
    BY Zenon, <1>0, CommandFacts DEF KnowsRecord, Rotating
  <2>8. KnowsRecord(s, a) /\ KnowsNext(s, a)
    BY Zenon, <1>0, <2>5, <2>6, <2>7, CommandFacts DEF KnowsRecord, KnowsNext, Rotating, Rotates
  <2>9. a.outcome # "staged"
    BY Zenon, <1>0, <2>5, CommandFacts DEF KnowsNext
  <2> QED
    BY <1>0, <2>1, <2>2, <2>4, <2>5, <2>8, <2>9, RecordTaken
<1>2. CASE record # b.seen
  <2>1. RotationFails(s) /\ UNCHANGED sharedVars
    BY <1>2 DEF PublishRotation
  <2> QED
    BY <1>0, <2>1, HostsStay, RotationFailsQuiet DEF QuietFrame, sharedVars
<1> QED
  BY <1>1, <1>2

-----------------------------------------------------------------------------
(* Errors, of the store and of its acknowledgements *)

\* Somewhere to go that takes no lock.
Onward(s) ==
  \E a : /\ Become(s, a) /\ SessionInv(s, a)
         /\ a.pc \notin {"read", "accept", "remove", "write"} /\ a.outcome # "staged"

LEMMA AnswerOnward ==
  ASSUME AuthorityInv, CredentialInv, NEW s \in Session, admin[s].pc # "start",
         NEW outcome, NEW drained, outcome # "staged", Become(s, Ended(admin[s], outcome, drained))
  PROVE Onward(s)
<1> DEFINE a == Ended(admin[s], outcome, drained)
<1>1. SessionInv(s, a) /\ Become(s, a)
  BY Zenon, AnswerInv
<1>2. a.pc = "done" /\ a.outcome = outcome
  BY CommandFacts DEF Ended, Fields
<1> HIDE DEF a
<1> QED
  BY <1>1, <1>2 DEF Onward

LEMMA GotoOnward ==
  ASSUME AuthorityInv, CredentialInv, NEW s \in Session, NEW pc, Goto(s, pc), admin[s].pc # "done",
         pc \notin {"read", "accept", "remove", "write"},
         KnowsRecord(s, [admin[s] EXCEPT !.pc = pc]), KnowsNext(s, [admin[s] EXCEPT !.pc = pc])
  PROVE Onward(s)
<1> DEFINE a == [admin[s] EXCEPT !.pc = pc]
<1>1. SessionInv(s, a) /\ Become(s, a)
  BY GotoInv DEF Goto
<1>2. a.pc = pc /\ a.outcome = admin[s].outcome
  BY MovedFields
<1>3. admin[s].outcome # "staged"
  BY CommandFacts DEF KnowsNext
<1> HIDE DEF a
<1> QED
  BY <1>1, <1>2, <1>3 DEF Onward

LEMMA RotationFailsOnward ==
  ASSUME AuthorityInv, CredentialInv, NEW s \in Session, RotationFails(s),
         admin[s].pc \notin {"start", "done"}
  PROVE Onward(s)
<1>1. CASE Command(s).verb = "rotate"
  <2> DEFINE a == [admin[s] EXCEPT !.pc = "discard"]
  <2>1. KnowsRecord(s, a) /\ KnowsNext(s, a)
    <3> HIDE DEF a
    <3>1. a.pc = "discard" /\ a.outcome = admin[s].outcome
      BY MovedFields DEF a
    <3> QED
      BY Zenon, <3>1, <1>1, CommandFacts DEF KnowsRecord, KnowsNext, Rotating, Rotates
  <2> QED
    BY <1>1, <2>1, GotoOnward DEF RotationFails
<1>2. CASE Command(s).verb # "rotate"
  BY Zenon, <1>2, AnswerOnward DEF RotationFails, Answer
<1> QED
  BY <1>1, <1>2

\* A retirement is carried on with, or is done with.
LEMMA RetireOnward ==
  ASSUME AuthorityInv, CredentialInv, NEW s \in Session, admin[s].pc = "retire", NEW due,
         \A r \in due : RetirementOK(r), Become(s, [admin[s] EXCEPT !.due = due])
  PROVE Onward(s)
<1> DEFINE b == admin[s]
           a == [b EXCEPT !.due = due]
<1>1. /\ a.pc = "retire" /\ a.seen = b.seen /\ a.first = b.first /\ a.todo = b.todo /\ a.due = due
      /\ a.held = b.held /\ a.accepted = b.accepted /\ a.proposal = b.proposal
      /\ a.outcome = b.outcome /\ Become(s, a)
  BY CommandFacts DEF Fields
<1> HIDE DEF a
<1>2. Carries(a)
  BY <1>1, CommandFacts DEF Carries
<1>3. KnowsRecord(s, a) /\ KnowsNext(s, a) /\ a.outcome # "staged"
  BY Zenon, <1>1, CommandFacts DEF KnowsRecord, KnowsNext, Rotating
<1>4. HeldAgrees(s, a) /\ CandidateKept(s, a)
  BY <1>1, <1>3 DEF HeldAgrees, CandidateKept
<1> QED
  BY <1>1, <1>2, <1>3, <1>4 DEF Onward, SessionInv

LEMMA EmptiedRetirement ==
  ASSUME NEW r, RetirementOK(r)
  PROVE RetirementOK([r EXCEPT !.superseded = {}])
<1> DEFINE q == [r EXCEPT !.superseded = {}]
<1>1. DOMAIN q = {"due", "successor", "superseded"} /\ q.successor = r.successor /\ q.superseded = {}
  BY DEF RetirementOK
<1> HIDE DEF q
<1>2. RetirementOK(q)
  BY <1>1 DEF RetirementOK
<1> QED
  BY <1>2 DEF q

LEMMA ErrorOnward ==
  ASSUME AuthorityInv, CredentialInv, NEW s \in Session, ErrorPath(s)
  PROVE Onward(s)
<1> DEFINE b == admin[s]
           m(pc) == [b EXCEPT !.pc = pc]
<1>1. ASSUME NEW pc \in {"confirm", "store"}, Goto(s, pc),
             pc = "confirm" => b.pc = "holds", pc = "store" => b.pc = "clear"
      PROVE Onward(s)
  <2> DEFINE a == [admin[s] EXCEPT !.pc = pc]
  <2>1. KnowsRecord(s, a) /\ KnowsNext(s, a)
    <3>1. a.pc = pc /\ a.outcome = b.outcome /\ a.seen = b.seen /\ a.next = b.next
      BY MovedFields
    <3> HIDE DEF a
    <3> QED
      BY Zenon, <1>1, <3>1, CommandFacts DEF KnowsRecord, KnowsNext, Rotating
  <2> QED
    BY Zenon, <1>1, <2>1, GotoOnward
<1>2. ASSUME NEW r \in b.due, b.pc = "retire",
             Become(s, [b EXCEPT !.due = (b.due \ {r}) \cup
                          IF r.superseded = {} THEN {} ELSE {[r EXCEPT !.superseded = {}]}])
      PROVE Onward(s)
  <2> DEFINE due == (b.due \ {r}) \cup IF r.superseded = {} THEN {} ELSE {[r EXCEPT !.superseded = {}]}
  <2>1. \A q \in b.due : RetirementOK(q)
    BY CommandFacts DEF Carries
  <2>2. RetirementOK([r EXCEPT !.superseded = {}])
    BY <2>1, EmptiedRetirement
  <2>3. \A q \in due : RetirementOK(q)
    BY <2>1, <2>2
  <2> QED
    BY Zenon, <1>2, <2>3, RetireOnward
<1>3. \/ b.pc \in {"publish", "swap", "witness"} /\ RotationFails(s)
      \/ b.pc = "holds" /\ Goto(s, "confirm")
      \/ b.pc = "clear" /\ Goto(s, "store")
      \/ b.pc = "retire" /\ \E r \in b.due :
           Become(s, [b EXCEPT !.due = (b.due \ {r}) \cup
                        IF r.superseded = {} THEN {} ELSE {[r EXCEPT !.superseded = {}]}])
      \/ b.pc # "start" /\ Answer(s, "refused")
  BY Zenon DEF ErrorPath
<1> QED
  BY Zenon, <1>1, <1>2, <1>3, RotationFailsOnward, AnswerOnward DEF Answer

LEMMA FaultCredential ==
  ASSUME AuthorityInv, CredentialInv, NEW s \in Session, StoreFails(s) \/ Unacknowledged(s)
  PROVE CredentialInv'
<1>1. PICK a : Become(s, a) /\ SessionInv(s, a) /\ a.pc \notin {"read", "accept", "remove", "write"}
  BY Zenon, ErrorOnward DEF StoreFails, Unacknowledged, Onward
<1>2. UNCHANGED <<hostVars, load, task, restores>>
  BY Zenon DEF StoreFails, Unacknowledged
<1>3. CASE StoreFails(s)
  <2>1. QuietFrame
    BY <1>2, <1>3, HostsStay DEF StoreFails, QuietFrame, sharedVars
  <2> QED
    BY <1>1, <2>1, QuietSession DEF QuietFrame
<1>4. CASE Unacknowledged(s)
  <2>1. Advances
    BY Zenon, <1>4, PublishedAdvances, ChangedAdvances, PutAdvances DEF Unacknowledged, At
  <2> QED
    BY Zenon, <1>1, <1>2, <2>1, RecordBehind
<1> QED
  BY Zenon, <1>3, <1>4

-----------------------------------------------------------------------------
(* Steps that write a credential store *)

\* The connection is in use and e may still be needed.
Needed(e) == InUse /\ Alive(e)

\* What is said of a command, but for what it and its host hold.
Knows(s, a) == Carries(a) /\ KnowsRecord(s, a) /\ KnowsNext(s, a)

LEMMA KnowsStays ==
  ASSUME UNCHANGED <<record, load, restores>>
  PROVE /\ \A r : RetirementOK(r)' <=> RetirementOK(r)
        /\ \A e : Needed(e)' <=> Needed(e)
        /\ \A s, a : Knows(s, a)' <=> Knows(s, a)
<1>1. \A r : RetirementOK(r)' <=> RetirementOK(r)
  BY ValuesStay DEF RetirementOK, Older, Spent
<1>2. ASSUME NEW s, NEW a PROVE Knows(s, a)' <=> Knows(s, a)
  <2>1. Carries(a)' <=> Carries(a)
    BY Zenon, ValuesStay, <1>1 DEF Carries, Older, Spent
  <2>2. KnowsRecord(s, a)' <=> KnowsRecord(s, a)
    BY Zenon, ValuesStay DEF KnowsRecord
  <2>3. KnowsNext(s, a)' <=> KnowsNext(s, a)
    BY ValuesStay DEF KnowsNext
  <2> QED
    BY Zenon, <2>1, <2>2, <2>3 DEF Knows
<1>3. \A e : Needed(e)' <=> Needed(e)
  BY DEF Needed, InUse, Alive
<1> QED
  BY SMTT(20), <1>1, <1>2, <1>3

\* A step that writes entries into the store of h and leaves copy with its server.
StoreFrame(h, entries, copy) ==
  /\ UNCHANGED <<record, past, floor, notes, retirements, load, restores>>
  /\ custody' = [custody EXCEPT ![h] = entries]
  /\ cached' = [cached EXCEPT ![h] = copy]
  /\ Entries(entries) /\ Entries(copy)
  /\ (\A s \in Session : Command(s).verb \notin Candidates) =>
       \A e : Needed(e) => (e \in entries <=> e \in copy)
  /\ (\E s \in Session : Command(s).verb = "stage") =>
       \A e : Needed(e) /\ e \in custody[h] => e \in entries

LEMMA StoresWritten ==
  ASSUME AuthorityInv, CredentialInv, NEW h \in Host, NEW entries, NEW copy,
         StoreFrame(h, entries, copy), \A t \in Task : GoodRecord(task'[t].seen)
  PROVE /\ SharedInv' /\ \A o \in Host : StoreInv(o)' /\ CopyAgrees(o)'
        /\ custody'[h] = entries /\ cached'[h] = copy
        /\ \A o \in Host : o # h => custody'[o] = custody[o] /\ cached'[o] = cached[o]
<1>1. UNCHANGED <<record, past, floor, notes, retirements, load, restores>>
  BY DEF StoreFrame
<1>2. /\ custody' = [o \in Host |-> custody'[o]] /\ cached' = [o \in Host |-> cached'[o]]
      /\ custody'[h] = entries /\ cached'[h] = copy
      /\ \A o \in Host : o # h => custody'[o] = custody[o] /\ cached'[o] = cached[o]
  BY Zenon DEF StoreFrame, CredentialInv, SharedInv
<1>3. SharedInv'
  BY Zenon, <1>1, <1>2, ValuesStay DEF CredentialInv, SharedInv
<1>5. ASSUME NEW o \in Host PROVE StoreInv(o)'
  <2>1. Entries(custody'[o]) /\ Entries(cached'[o])
    BY <1>2 DEF StoreFrame, CredentialInv, StoreInv
  <2> QED
    BY Zenon, <1>1, <2>1, ValuesStay, KnowsStays DEF CredentialInv, StoreInv, Entries
<1>6. ASSUME NEW o \in Host PROVE CopyAgrees(o)'
  <2>1. SUFFICES ASSUME NEW e, Needed(e), \A s \in Session : Command(s).verb \notin Candidates
                 PROVE e \in custody'[o] <=> e \in cached'[o]
    BY <1>1, ValuesStay, KnowsStays DEF CopyAgrees, Needed
  <2>2. CASE o = h
    BY <1>2, <2>1, <2>2 DEF StoreFrame
  <2>3. CASE o # h
    BY Zenon, <1>2, <2>1, <2>3 DEF CredentialInv, CopyAgrees, Needed
  <2> QED
    BY Zenon, <2>2, <2>3
<1> QED
  BY <1>2, <1>3, <1>5, <1>6

\* The commands that do not move find what they rely on.
LEMMA OthersAgree ==
  ASSUME AuthorityInv, CredentialInv, NEW h \in Host, NEW entries, NEW copy,
         StoreFrame(h, entries, copy), \A t \in Task : GoodRecord(task'[t].seen),
         NEW o \in Session,
         HostOf(o) = h /\ admin[o].pc \in {"remove", "write"} =>
           \A e : Needed(e) => (e \in entries <=> e \in custody[h]),
         admin'[o] = admin[o]
  PROVE SessionInv(o, admin[o])'
<1>1. UNCHANGED <<record, load, restores>>
  BY Zenon DEF StoreFrame
<1>2. /\ custody'[h] = entries /\ \A i \in Host : i # h => custody'[i] = custody[i]
      /\ HostOf(o) \in Host
  BY Zenon, StoresWritten, CommandFacts
<1>3. Knows(o, admin[o])'
  BY Zenon, <1>1, KnowsStays, CommandFacts DEF Knows
<1>4. HeldAgrees(o, admin[o])'
  <2>1. SUFFICES ASSUME NEW e, Needed(e), admin[o].pc \in {"remove", "write"}
                 PROVE /\ e \in custody'[HostOf(o)] => e \in admin[o].held
                       /\ admin[o].pc = "remove" /\ e \in admin[o].held => e \in custody'[HostOf(o)]
    BY Zenon, <1>1, ValuesStay, KnowsStays DEF HeldAgrees, Needed
  <2>2. e \in custody'[HostOf(o)] <=> e \in custody[HostOf(o)]
    BY <1>2, <2>1
  <2> QED
    BY Zenon, <2>1, <2>2, CommandFacts DEF HeldAgrees, Needed
<1>5. CandidateKept(o, admin[o])'
  <2>1. SUFFICES ASSUME InUse, Command(o).verb = "stage",
                        \/ admin[o].pc \in {"read", "accept"} /\ admin[o].round # 1
                        \/ admin[o].outcome = "staged",
                        NEW p \in admin[o].proposal, Alive(p.reference)
                 PROVE p.reference \in custody'[HostOf(o)]
    BY Zenon, <1>1, ValuesStay DEF CandidateKept, InUse, Alive
  <2>2. p.reference \in custody[HostOf(o)]
    BY Zenon, <2>1, CommandFacts DEF CandidateKept
  <2>3. CASE HostOf(o) = h
    BY Zenon, <1>2, <2>1, <2>2, <2>3 DEF StoreFrame, Needed
  <2>4. CASE HostOf(o) # h
    BY Zenon, <1>2, <2>2, <2>4
  <2> QED
    BY Zenon, <2>3, <2>4
<1> QED
  BY Zenon, <1>3, <1>4, <1>5 DEF SessionInv, Knows

\* A command writes the store of its host.
LEMMA StoreSession ==
  ASSUME AuthorityInv, CredentialInv, NEW s \in Session, NEW a, Become(s, a), task' = task,
         NEW entries, NEW copy, StoreFrame(HostOf(s), entries, copy),
         \/ ~Locked(HostOf(s)) \/ admin[s].pc \in {"remove", "write"}
         \/ \A e : Needed(e) => (e \in entries <=> e \in custody[HostOf(s)]),
         Knows(s, a), a.pc \notin {"remove", "write"}, a.outcome # "staged",
         a.pc \in {"read", "accept"} => \A p \in a.proposal : p.reference \in entries
  PROVE CredentialInv'
<1>1. load' = load /\ UNCHANGED <<record, load, restores>> /\ HostOf(s) \in Host
  BY Zenon, CommandFacts DEF StoreFrame
<1>2. \A t \in Task : GoodRecord(task'[t].seen)
  BY Zenon DEF CredentialInv, SharedInv
<1>3. /\ SharedInv' /\ \A o \in Host : StoreInv(o)' /\ CopyAgrees(o)'
      /\ custody'[HostOf(s)] = entries
  BY Zenon, <1>1, <1>2, StoresWritten
<1>4. OneWriter'
  BY Zenon, <1>1, OneWriterKept
<1>5. ASSUME NEW o \in Session, o # s PROVE SessionInv(o, admin[o])'
  <2>1. HostOf(o) = HostOf(s) /\ admin[o].pc \in {"remove", "write"} =>
          \A e : Needed(e) => (e \in entries <=> e \in custody[HostOf(s)])
    BY Zenon, <1>5 DEF CredentialInv, OneWriter, Locked
  <2> QED
    BY Zenon, <1>1, <1>2, <1>5, <2>1, BecomeFacts, OthersAgree
<1>6. SessionInv(s, admin[s])'
  <2>1. admin'[s] = a
    BY BecomeFacts
  <2>2. Knows(s, a)' /\ HeldAgrees(s, a)' /\ CandidateKept(s, a)'
    BY Zenon, <1>1, <1>3, KnowsStays, ValuesStay DEF HeldAgrees, CandidateKept
  <2>3. Carries(admin[s])'
    BY Zenon, <2>1, <2>2 DEF Knows, Carries
  <2>4. KnowsRecord(s, admin[s])'
    BY Zenon, <2>1, <2>2 DEF Knows, KnowsRecord
  <2>5. KnowsNext(s, admin[s])'
    BY Zenon, <2>1, <2>2 DEF Knows, KnowsNext
  <2>6. HeldAgrees(s, admin[s])' /\ CandidateKept(s, admin[s])'
    BY Zenon, <2>1, <2>2 DEF HeldAgrees, CandidateKept
  <2> QED
    BY Zenon, <2>3, <2>4, <2>5, <2>6 DEF SessionInv
<1> QED
  BY Zenon, <1>3, <1>4, <1>5, <1>6 DEF CredentialInv

\* A connection is rotated by its server, or through candidates.
LEMMA RotationsApart ==
  ASSUME AuthorityInv, NEW s \in Session, Command(s).verb \in Rotates \cup {"prepare"}
  PROVE \A o \in Session : Command(o).verb # "stage"
BY Zenon, ConnectionAssumption DEF AuthorityInv, Command, Rotates

\* A rotation writes the store under the lock of its server.
LEMMA MutateSession ==
  ASSUME AuthorityInv, CredentialInv, NEW s \in Session, Onward(s),
         Command(s).verb \in Rotates \cup {"prepare"},
         NEW entries, Mutate(HostOf(s), entries), Entries(entries),
         UNCHANGED <<sharedVars, floor, notes, retirements, load, task, restores>>
  PROVE CredentialInv'
<1>1. PICK a : /\ Become(s, a) /\ SessionInv(s, a)
               /\ a.pc \notin {"read", "accept", "remove", "write"} /\ a.outcome # "staged"
  BY DEF Onward
<1>2. ~Locked(HostOf(s)) /\ StoreFrame(HostOf(s), entries, entries)
  BY SMTT(20), RotationsApart DEF Mutate, Write, StoreFrame, sharedVars
<1> QED
  BY Zenon, <1>1, <1>2, StoreSession DEF SessionInv, Knows

LEMMA StoredEntries ==
  ASSUME AuthorityInv, CredentialInv, NEW s \in Session
  PROVE Entries(custody[HostOf(s)]) /\ Entries(cached[HostOf(s)])
BY CommandFacts DEF CredentialInv, StoreInv

LEMMA FewerEntries ==
  ASSUME NEW entries, Entries(entries), NEW generations
  PROVE Entries(Without(entries, generations))
BY DEF Entries, Without

\* A rotation goes to its next step.
LEMMA StepOnward ==
  ASSUME AuthorityInv, CredentialInv, NEW s \in Session, NEW pc, Goto(s, pc),
         admin[s].pc \in Rotating,
         \/ pc = "confirm"
         \/ pc = "store" /\ admin[s].pc = "clear"
         \/ pc = "publish" /\ admin[s].pc = "store"
  PROVE Onward(s)
<1> DEFINE a == [admin[s] EXCEPT !.pc = pc]
<1>1. KnowsRecord(s, a) /\ KnowsNext(s, a)
  <2>1. a.pc = pc /\ a.outcome = admin[s].outcome /\ a.seen = admin[s].seen /\ a.next = admin[s].next
    BY MovedFields
  <2> HIDE DEF a
  <2> QED
    BY Zenon, <2>1, CommandFacts DEF KnowsRecord, KnowsNext, Rotating
<1> QED
  BY Zenon, <1>1, GotoOnward DEF Rotating

LEMMA CheckHoldsCredential ==
  ASSUME AuthorityInv, CredentialInv, NEW s \in Session, CheckHolds(s)
  PROVE CredentialInv'
<1> DEFINE b == admin[s]
           a == [b EXCEPT !.pc = "note", !.next = b.seen.generation + 1]
<1>1. b.pc = "holds" /\ Command(s).verb \in Rotates \cup {"prepare"} /\ b.seen.state # "Revoked"
  BY Zenon, CommandFacts DEF CheckHolds, At, KnowsRecord, Rotating
<1>2. ASSUME Become(s, a), ~Exhausted(b.seen) PROVE Onward(s)
  <2>1. /\ a.pc = "note" /\ a.next = b.seen.generation + 1 /\ SameCargo(a, b)
        /\ a.outcome = b.outcome /\ Become(s, a) /\ a.seen = b.seen
    BY <1>2, CommandFacts DEF Fields, SameCargo
  <2> HIDE DEF a
  <2>2. KnowsRecord(s, a) /\ KnowsNext(s, a)
    BY Zenon, <1>1, <1>2, <2>1, CommandFacts DEF KnowsRecord, KnowsNext, Rotating
  <2>3. SessionInv(s, a)
    BY Zenon, <1>1, <2>1, <2>2, GoesOnInv
  <2> QED
    BY Zenon, <1>1, <2>1, <2>2, <2>3 DEF Onward, KnowsNext
<1>3. \/ Answer(s, "refused")
      \/ Goto(s, "confirm")
      \/ Become(s, a) /\ ~Exhausted(b.seen)
  BY DEF CheckHolds
<1>4. Onward(s)
  BY Zenon, <1>1, <1>2, <1>3, AnswerOnward, StepOnward DEF Answer, Rotating
<1> QED
  BY <1>1, <1>4, StoredEntries, MutateSession DEF CheckHolds, Refresh

LEMMA ClearCredential ==
  ASSUME AuthorityInv, CredentialInv, NEW s \in Session, ClearSuccessor(s) \/ DiscardSuccessor(s)
  PROVE CredentialInv'
<1>1. admin[s].pc \in {"clear", "discard"}
  BY Zenon DEF ClearSuccessor, DiscardSuccessor, At
<1>2. Command(s).verb \in Rotates \cup {"prepare"}
  BY Zenon, <1>1, CommandFacts DEF KnowsRecord, Rotating
<1>3. Onward(s)
  BY Zenon, <1>1, AnswerOnward, StepOnward DEF ClearSuccessor, DiscardSuccessor, At, Answer, Rotating
<1>4. Entries(Without(custody[HostOf(s)], {admin[s].next}))
  BY Zenon, StoredEntries, FewerEntries
<1> QED
  BY Zenon, <1>2, <1>3, <1>4, MutateSession DEF ClearSuccessor, DiscardSuccessor

LEMMA ReplaceCredentialKeeps ==
  ASSUME AuthorityInv, CredentialInv, NEW s \in Session, ReplaceCredential(s)
  PROVE CredentialInv'
<1> DEFINE entries == custody[HostOf(s)]
<1>1. admin[s].pc = "store"
  BY DEF ReplaceCredential, At
<1>2. Command(s).verb \in Rotates \cup {"prepare"} /\ admin[s].next \in Nat
  <2>1. Command(s).verb \in Rotates \cup {"prepare"}
    BY <1>1, CommandFacts DEF KnowsRecord, Rotating
  <2>2. admin[s].next = admin[s].seen.generation + 1
    BY Zenon, <1>1, CommandFacts DEF KnowsNext
  <2>3. admin[s].seen.generation \in Nat
    BY Zenon, CommandFacts, GoodFacts DEF Carries
  <2> QED
    BY SMTT(20), <2>1, <2>2, <2>3
<1>3. \/ Answer(s, "refused") /\ Mutate(HostOf(s), entries)
      \/ /\ ~Conflicts(entries, Successor(s)) /\ Mutate(HostOf(s), entries \cup {Successor(s)})
         /\ Answer(s, "prepared") \/ Goto(s, "publish")
  BY Zenon DEF ReplaceCredential, Refresh
<1>4. Onward(s)
  BY Zenon, <1>1, <1>3, AnswerOnward, StepOnward DEF Answer, Rotating
<1>5. Entries(entries)
  BY StoredEntries
<1>6. ~Conflicts(entries, Successor(s)) => Entries(entries \cup {Successor(s)})
  <2>1. Successor(s)[1] \in Nat
    BY Zenon, <1>2 DEF Successor
  <2> QED
    BY <1>5, <2>1, AddedEntry
<1>7. UNCHANGED <<sharedVars, floor, notes, retirements, load, task, restores>>
  BY DEF ReplaceCredential
<1> QED
  BY Zenon, <1>2, <1>3, <1>4, <1>5, <1>6, <1>7, MutateSession

LEMMA CheckPreparedCredential ==
  ASSUME AuthorityInv, CredentialInv, NEW s \in Session, CheckPrepared(s)
  PROVE CredentialInv'
<1> DEFINE b == admin[s]
           a == [admin[s] EXCEPT !.pc = "swap"]
<1>1. b.pc = "publish" /\ Command(s).verb \in Rotates \cup {"prepare"} /\ b.seen.state # "Revoked"
  BY Zenon, CommandFacts DEF CheckPrepared, At, KnowsRecord, Rotating
<1>2. ASSUME Goto(s, "swap"), ~Exhausted(b.seen),
             Holds(custody[HostOf(s)], rotated(b.seen, Commitment(s)))
      PROVE Onward(s)
  <2>1. Command(s).verb = "commit" => Command(s).generation = b.seen.generation + 1
    BY Zenon, <1>2 DEF Holds, rotated, Commitment
  <2>2. KnowsRecord(s, a) /\ KnowsNext(s, a)
    <3>1. a.pc = "swap" /\ a.outcome = b.outcome /\ a.seen = b.seen /\ a.next = b.next
      BY Zenon, MovedFields
    <3> HIDE DEF a
    <3> QED
      BY Zenon, <1>1, <1>2, <2>1, <3>1, CommandFacts DEF KnowsRecord, KnowsNext, Rotating
  <2> QED
    BY Zenon, <1>1, <1>2, <2>2, GotoOnward
<1>3. Onward(s)
  BY Zenon, <1>1, <1>2, RotationFailsOnward DEF CheckPrepared
<1> QED
  BY Zenon, <1>1, <1>3, StoredEntries, MutateSession DEF CheckPrepared, Refresh

LEMMA ConfirmCredentialKeeps ==
  ASSUME AuthorityInv, CredentialInv, NEW s \in Session, ConfirmCredential(s)
  PROVE CredentialInv'
<1> DEFINE b == admin[s]
           entries == custody[HostOf(s)]
           more == entries \cup {b.seen.reference}
           a == [b EXCEPT !.pc = "schedule", !.accepted = TRUE]
<1>1. b.pc = "confirm" /\ Command(s).verb \in Rotates \cup {"prepare"}
  BY SMTT(20), CommandFacts DEF ConfirmCredential, At, KnowsRecord, Rotating
<1>2. ASSUME Become(s, a) PROVE Onward(s)
  <2>1. /\ a.pc = "schedule" /\ a.accepted = TRUE /\ a.seen = b.seen /\ a.first = b.first
        /\ a.held = b.held /\ a.proposal = b.proposal /\ a.due = b.due /\ a.todo = b.todo
        /\ a.outcome = b.outcome /\ Become(s, a)
    BY <1>2, CommandFacts DEF Fields
  <2> HIDE DEF a
  <2>2. Carries(a)
    BY Zenon, <2>1, CommandFacts DEF Carries
  <2>3. KnowsRecord(s, a) /\ KnowsNext(s, a) /\ a.outcome # "staged"
    BY Zenon, <1>1, <2>1, CommandFacts DEF KnowsRecord, KnowsNext, Rotating
  <2>4. HeldAgrees(s, a) /\ CandidateKept(s, a)
    BY <2>1, <2>3 DEF HeldAgrees, CandidateKept
  <2> QED
    BY <2>1, <2>2, <2>3, <2>4 DEF Onward, SessionInv
<1>3. \/ Answer(s, "refused") /\ Mutate(HostOf(s), entries)
      \/ ~Conflicts(entries, b.seen.reference) /\ Mutate(HostOf(s), more) /\ Become(s, a)
  BY DEF ConfirmCredential, Refresh
<1>4. Onward(s)
  BY Zenon, <1>1, <1>2, <1>3, AnswerOnward DEF Answer
<1>5. Entries(entries) /\ b.seen.reference[1] \in Nat
  BY Zenon, StoredEntries, CommandFacts, GoodFacts DEF Carries
<1>6. ~Conflicts(entries, b.seen.reference) => Entries(more)
  BY <1>5, AddedEntry
<1>7. UNCHANGED <<sharedVars, floor, notes, retirements, load, task, restores>>
  BY DEF ConfirmCredential
<1> QED
  BY <1>1, <1>3, <1>4, <1>5, <1>6, <1>7, MutateSession

\* No credential that may still be needed has a generation that is spent.
LEMMA SpentIsNotNeeded ==
  ASSUME GoodRecord(record), NEW e, Needed(e), NEW g, Spent(g)
  PROVE e[1] # g
BY GoodFacts DEF Needed, InUse, Alive, Spent

LEMMA NeededStay ==
  ASSUME GoodRecord(record), NEW entries, NEW generations, \A g \in generations : Spent(g)
  PROVE \A e : Needed(e) => (e \in Without(entries, generations) <=> e \in entries)
BY SpentIsNotNeeded DEF Without

\* What a record that is past leaves behind is spent.
LEMMA SupersededAreSpent ==
  ASSUME GoodRecord(record), NEW h, Entries(cached[h]), NEW r, GoodRecord(r), Older(r)
  PROVE \A g \in Superseded(h, r) : Spent(g)
<1> SUFFICES ASSUME NEW g \in Superseded(h, r) PROVE Spent(g)
  OBVIOUS
<1>1. g \in Nat /\ g # r.credential_generation /\ g <= r.generation
  BY DEF Superseded, Stored, Entries
<1> QED
  BY <1>1, LeftBehind

\* A server deletes from its copy what is spent, without the lock.
LEMMA DeleteSession ==
  ASSUME AuthorityInv, CredentialInv, NEW s \in Session, Onward(s), NEW doomed,
         DeleteGenerations(HostOf(s), doomed),
         \/ ~InUse
         \/ Command(s).verb \in Rotates \cup {"prepare"} /\ \A g \in doomed : Spent(g),
         UNCHANGED <<sharedVars, floor, notes, retirements, load, task, restores>>
  PROVE CredentialInv'
<1> DEFINE h == HostOf(s)
           entries == Without(cached[h], doomed)
<1>1. PICK a : /\ Become(s, a) /\ SessionInv(s, a)
               /\ a.pc \notin {"read", "accept", "remove", "write"} /\ a.outcome # "staged"
  BY DEF Onward
<1>2. CASE UNCHANGED <<custody, cached>>
  <2>1. HostsGood
    BY Zenon, <1>2, HostsStay DEF hostVars
  <2> QED
    BY <1>1, <2>1, QuietSession DEF sharedVars
<1>3. CASE Write(h, entries)
  <2>1. Entries(entries) /\ h \in Host /\ GoodRecord(record)
    BY Zenon, StoredEntries, FewerEntries, CommandFacts
  <2>2. \A e : Needed(e) => (e \in entries <=> e \in custody[h])
    <3>1. CASE ~InUse
      BY <3>1 DEF Needed
    <3>2. CASE Command(s).verb \in Rotates \cup {"prepare"} /\ \A g \in doomed : Spent(g)
      <4>1. \A o \in Session : Command(o).verb \notin Candidates
        BY Zenon, <3>2, ConnectionAssumption DEF AuthorityInv, Command, Rotates, Candidates
      <4>2. \A e : Needed(e) => (e \in custody[h] <=> e \in cached[h])
        BY Zenon, <2>1, <4>1 DEF CredentialInv, CopyAgrees, Needed
      <4>3. \A e : Needed(e) => (e \in entries <=> e \in cached[h])
        BY Zenon, <2>1, <3>2, NeededStay
      <4> QED
        BY Zenon, <4>2, <4>3
    <3> QED
      BY Zenon, <3>1, <3>2
  <2> HIDE DEF entries
  <2>3. StoreFrame(h, entries, entries)
    BY <1>3, <2>1, <2>2 DEF Write, StoreFrame, sharedVars
  <2> QED
    BY Zenon, <1>1, <2>2, <2>3, StoreSession DEF SessionInv, Knows
<1> QED
  BY <1>2, <1>3 DEF DeleteGenerations

LEMMA RetireOneCredential ==
  ASSUME AuthorityInv, CredentialInv, NEW s \in Session, NEW r, RetireOne(s, r)
  PROVE CredentialInv'
<1> DEFINE b == admin[s]
           h == HostOf(s)
<1>1. /\ b.pc = "retire" /\ r \in b.due /\ Command(s).verb \in Rotates \cup {"prepare"}
      /\ UNCHANGED <<sharedVars, floor, notes, retirements, load, task, restores>>
  BY Zenon, CommandFacts DEF RetireOne, At, KnowsRecord, Rotating
<1>2. \A q \in b.due : RetirementOK(q)
  BY Zenon, CommandFacts DEF Carries
<1>3. CASE r.superseded # {}
  <2> DEFINE due == (b.due \ {r}) \cup {[r EXCEPT !.superseded = {}]}
  <2>1. Mutate(h, Without(custody[h], r.superseded)) /\ Become(s, [b EXCEPT !.due = due])
    BY <1>3 DEF RetireOne
  <2>2. RetirementOK([r EXCEPT !.superseded = {}])
    BY <1>1, <1>2, EmptiedRetirement
  <2>3. \A q \in due : RetirementOK(q)
    BY <1>2, <2>2
  <2>4. Onward(s)
    BY Zenon, <1>1, <2>1, <2>3, RetireOnward
  <2>5. Entries(Without(custody[h], r.superseded))
    BY StoredEntries, FewerEntries
  <2> QED
    BY <1>1, <2>1, <2>4, <2>5, MutateSession
<1>4. CASE r.superseded = {}
  <2>1. DeleteGenerations(h, Superseded(h, r.successor)) /\ Become(s, [b EXCEPT !.due = b.due \ {r}])
    BY <1>4 DEF RetireOne
  <2>2. Onward(s)
    BY Zenon, <1>1, <1>2, <2>1, RetireOnward
  <2>3. InUse => \A g \in Superseded(h, r.successor) : Spent(g)
    <3>1. GoodRecord(record) /\ GoodRecord(r.successor) /\ (InUse => Older(r.successor))
      BY <1>1, <1>2, CommandFacts DEF RetirementOK, InUse
    <3> QED
      BY SMTT(20), <3>1, StoredEntries, SupersededAreSpent
  <2> QED
    BY <1>1, <2>1, <2>2, <2>3, DeleteSession
<1> QED
  BY <1>3, <1>4

LEMMA DeleteConnectionCredential ==
  ASSUME AuthorityInv, CredentialInv, NEW s \in Session, DeleteConnection(s)
  PROVE CredentialInv'
<1>1. admin[s].pc = "delete" /\ Goto(s, "drain")
  BY Zenon DEF DeleteConnection, At
<1>2. ~InUse
  BY Zenon, <1>1, CommandFacts DEF KnowsRecord, Carries, Older, InUse
<1>3. Onward(s)
  <2> DEFINE a == [admin[s] EXCEPT !.pc = "drain"]
  <2>1. KnowsRecord(s, a) /\ KnowsNext(s, a)
    <3>1. a.pc = "drain" /\ a.outcome = admin[s].outcome
      BY Zenon, MovedFields
    <3> HIDE DEF a
    <3> QED
      BY Zenon, <1>1, <3>1, CommandFacts DEF KnowsRecord, KnowsNext, Rotating
  <2> QED
    BY <1>1, <2>1, GotoOnward
<1> QED
  BY <1>2, <1>3, DeleteSession DEF DeleteConnection

\* A collector writes back what it read under the lock, without a spent credential.
LEMMA RemoveOneCredential ==
  ASSUME AuthorityInv, CredentialInv, NEW s \in Session, RemoveOne(s)
  PROVE CredentialInv'
<1> DEFINE b == admin[s]
           h == HostOf(s)
           entries == Without(b.held, {b.next})
           a == [b EXCEPT !.pc = "forget", !.held = {}]
<1>1. /\ b.pc = "remove" /\ task' = task
      /\ UNCHANGED <<record, past, floor, notes, retirements, load, restores>>
  BY DEF RemoveOne, At, sharedVars
<1>2. /\ a.pc = "forget" /\ a.held = {} /\ a.seen = b.seen /\ a.first = b.first /\ a.accepted = b.accepted
      /\ a.proposal = b.proposal /\ a.due = b.due /\ a.todo = b.todo
      /\ a.outcome = b.outcome /\ Become(s, a)
  BY CommandFacts DEF Fields, RemoveOne
<1>3. /\ custody' = [custody EXCEPT ![h] = entries] /\ cached' = [cached EXCEPT ![h] = cached[h]]
      /\ h \in Host /\ GoodRecord(record) /\ Entries(cached[h])
  BY CommandFacts, StoredEntries DEF RemoveOne, CredentialInv, SharedInv
<1>4. Command(s).verb = "collect" /\ b.next \in b.todo /\ Entries(b.held)
  BY Zenon, <1>1, CommandFacts DEF KnowsNext, Carries
<1>5. \A e : Needed(e) => (e \in entries <=> e \in custody[h])
  <2> SUFFICES ASSUME NEW e, Needed(e) PROVE e \in entries <=> e \in custody[h]
    BY SMTT(20)
  <2>1. Spent(b.next)
    BY <1>4, CommandFacts DEF Carries, Needed, InUse
  <2>2. e \in entries <=> e \in b.held
    BY Zenon, <1>3, <2>1, SpentIsNotNeeded DEF Without
  <2>3. e \in b.held <=> e \in custody[h]
    BY Zenon, <1>1, CommandFacts DEF HeldAgrees, Needed
  <2> QED
    BY <2>2, <2>3
<1>6. Entries(entries)
  BY <1>4, FewerEntries
<1> HIDE DEF entries, a
<1>7. StoreFrame(h, entries, cached[h])
  BY Zenon, <1>1, <1>3, <1>5, <1>6 DEF StoreFrame, CredentialInv, CopyAgrees, Needed
<1>8. Knows(s, a) /\ a.outcome # "staged"
  <2>1. Carries(a)
    BY Zenon, <1>2, CommandFacts DEF Carries, Entries
  <2>2. KnowsRecord(s, a) /\ KnowsNext(s, a)
    BY Zenon, <1>1, <1>2, <1>4, CommandFacts DEF KnowsRecord, KnowsNext, Rotating
  <2> QED
    BY Zenon, <1>2, <2>1, <2>2 DEF Knows, KnowsNext
<1> QED
  BY Zenon, <1>1, <1>2, <1>5, <1>7, <1>8, StoreSession

\* A candidate is added to what was read under the lock.
LEMMA WriteCandidateCredential ==
  ASSUME AuthorityInv, CredentialInv, NEW s \in Session, WriteCandidate(s)
  PROVE CredentialInv'
<1> DEFINE b == admin[s]
           h == HostOf(s)
           a == [b EXCEPT !.pc = "read", !.round = 2, !.held = {}]
<1>1. /\ b.pc = "write" /\ task' = task
      /\ UNCHANGED <<record, past, floor, notes, retirements, load, restores>>
  BY DEF WriteCandidate, At, sharedVars
<1>2. /\ a.pc = "read" /\ a.held = {} /\ a.seen = b.seen /\ a.first = b.first /\ a.accepted = b.accepted
      /\ a.proposal = b.proposal /\ a.due = b.due /\ a.todo = b.todo
      /\ a.outcome = b.outcome /\ Become(s, a)
  BY CommandFacts DEF Fields, WriteCandidate
<1>3. /\ custody' = [custody EXCEPT ![h] = b.held] /\ cached' = [cached EXCEPT ![h] = cached[h]]
      /\ h \in Host /\ Entries(cached[h])
  BY Zenon, CommandFacts, StoredEntries DEF WriteCandidate, CredentialInv, SharedInv
<1>4. /\ Command(s).verb = "stage" /\ Entries(b.held)
      /\ \A p \in b.proposal : p.reference \in b.held
  BY Zenon, <1>1, CommandFacts DEF KnowsNext, Carries
<1>5. \A e : Needed(e) /\ e \in custody[h] => e \in b.held
  BY Zenon, <1>1, CommandFacts DEF HeldAgrees, Needed
<1> HIDE DEF a
<1>7. StoreFrame(h, b.held, cached[h])
  BY Zenon, <1>1, <1>3, <1>4, <1>5 DEF StoreFrame, Candidates
<1>8. Knows(s, a) /\ a.outcome # "staged"
  <2>1. Carries(a)
    BY Zenon, <1>2, CommandFacts DEF Carries, Entries
  <2>2. KnowsRecord(s, a) /\ KnowsNext(s, a)
    BY Zenon, <1>1, <1>2, <1>4, CommandFacts DEF KnowsRecord, KnowsNext, Rotating
  <2> QED
    BY Zenon, <1>2, <2>1, <2>2 DEF Knows, KnowsNext
<1> QED
  BY Zenon, <1>1, <1>2, <1>4, <1>7, <1>8, StoreSession

-----------------------------------------------------------------------------
(* Submissions, the delay, restarts and restores *)

LEMMA TasksGood ==
  ASSUME AuthorityInv, CredentialInv, NEW t \in Task, NEW x, TaskGo(t, x), GoodRecord(x.seen)
  PROVE \A u \in Task : GoodRecord(task'[u].seen)
<1>1. task'[t] = x /\ \A u \in Task : u # t => task'[u] = task[u]
  BY DEF AuthorityInv, Functions, TaskGo
<1> QED
  BY <1>1 DEF CredentialInv, SharedInv

\* A step of no command that leaves the stores alone.
LEMMA QuietAround ==
  ASSUME AuthorityInv, CredentialInv, UNCHANGED <<record, past, load, admin, restores>>, HostsGood,
         \A t \in Task : GoodRecord(task'[t].seen)
  PROVE CredentialInv'
<1>0. UNCHANGED <<custody, cached>>
  BY DEF HostsGood
<1>1. SharedInv'
  BY ValuesStay DEF CredentialInv, SharedInv, HostsGood
<1>2. \A h \in Host : StoreInv(h)'
  BY Zenon, <1>0, ValuesStay, ClaimsStay DEF CredentialInv, StoreInv, HostsGood, Entries
<1>3. \A h \in Host : CopyAgrees(h)'
  BY <1>0, ValuesStay DEF CredentialInv, CopyAgrees, InUse, Alive
<1>4. \A s \in Session : SessionInv(s, admin[s])'
  BY Zenon, <1>0, ClaimsStay DEF CredentialInv
<1>5. OneWriter'
  BY ValuesStay DEF CredentialInv, OneWriter
<1> QED
  BY <1>1, <1>2, <1>3, <1>4, <1>5 DEF CredentialInv

\* A submission has its server read the store again.
LEMMA RefreshAround ==
  ASSUME AuthorityInv, CredentialInv, NEW h \in Host, Refresh(h),
         UNCHANGED <<sharedVars, floor, notes, retirements, load, admin, restores>>,
         \A t \in Task : GoodRecord(task'[t].seen)
  PROVE CredentialInv'
<1>1. StoreFrame(h, custody[h], custody[h])
  BY DEF Refresh, Mutate, Write, StoreFrame, sharedVars, CredentialInv, StoreInv
<1>2. SharedInv' /\ \A o \in Host : StoreInv(o)' /\ CopyAgrees(o)'
  BY Zenon, <1>1, StoresWritten
<1>3. \A s \in Session : SessionInv(s, admin[s])'
  BY Zenon, <1>1, OthersAgree
<1>4. OneWriter'
  BY Zenon, ValuesStay DEF CredentialInv, OneWriter
<1> QED
  BY <1>2, <1>3, <1>4 DEF CredentialInv

LEMMA TaskCredential ==
  ASSUME AuthorityInv, CredentialInv, NEW t \in Task, TaskStep(t) \/ TaskStoreFails(t)
  PROVE CredentialInv'
<1> DEFINE x == task[t]
<1>0. GoodRecord(record) /\ GoodRecord(x.seen) /\ TaskHost[t] \in Host /\ TaskShape(x)
  BY Zenon, TaskFacts DEF CredentialInv, SharedInv
<1>1. \E y : TaskGo(t, y) /\ GoodRecord(y.seen)
  <2>1. CASE TaskRead(t)
    <3>1. [x EXCEPT !.pc = "accept", !.seen = record].seen = record
      BY <1>0 DEF TaskShape
    <3> QED
      BY Zenon, <1>0, <2>1, <3>1 DEF TaskRead
  <2>2. ASSUME TaskRefused(t) PROVE \E y : TaskGo(t, y) /\ GoodRecord(y.seen)
    <3>1. \A pc : [x EXCEPT !.pc = pc].seen = x.seen
      BY <1>0 DEF TaskShape
    <3> QED
      BY Zenon, <1>0, <2>2, <3>1 DEF TaskRefused
  <2>3. CASE TaskAccept(t)
    <3>1. \A r, pc : [x EXCEPT !.prepared = r, !.pc = pc].seen = x.seen
      BY <1>0 DEF TaskShape
    <3> QED
      BY Zenon, <1>0, <2>2, <2>3, <3>1 DEF TaskAccept
  <2>4. CASE TaskHolds(t) \/ TaskLease(t) \/ TaskSend(t)
    <3>1. /\ [x EXCEPT !.pc = "read", !.stage = "reload"].seen = x.seen
          /\ \A pc : [x EXCEPT !.pc = pc].seen = x.seen
      BY <1>0 DEF TaskShape
    <3> QED
      BY Zenon, <1>0, <2>2, <2>4, <3>1 DEF TaskHolds, TaskLease, TaskSend
  <2>5. CASE InFlightEnter(t) \/ TaskRecord(t)
    <3>1. /\ [x EXCEPT !.pc = "read", !.stage = "entry", !.counted = TRUE].seen = x.seen
          /\ [x EXCEPT !.pc = "done", !.counted = FALSE].seen = x.seen
      BY Zenon, <1>0 DEF TaskShape
    <3> QED
      BY Zenon, <1>0, <2>5, <3>1 DEF InFlightEnter, TaskRecord
  <2> QED
    BY <2>1, <2>2, <2>3, <2>4, <2>5 DEF TaskStep, TaskStoreFails
<1>2. \A u \in Task : GoodRecord(task'[u].seen)
  BY <1>1, TasksGood
<1>3. CASE TaskHolds(t) \/ TaskLease(t)
  BY <1>0, <1>2, <1>3, RefreshAround DEF TaskHolds, TaskLease
<1>4. CASE TaskAccept(t)
  <2>1. HostsGood
    <3>1. \A h \in Host : GoodRecord(floor'[h])
      BY <1>0, <1>4 DEF TaskAccept, CredentialInv, StoreInv, AuthorityInv, Functions
    <3> QED
      BY <1>4, <3>1 DEF TaskAccept, HostsGood, CredentialInv, SharedInv, StoreInv
  <2> QED
    BY <1>2, <1>4, <2>1, QuietAround DEF TaskAccept, sharedVars
<1>5. CASE TaskRead(t) \/ InFlightEnter(t) \/ TaskSend(t) \/ TaskRecord(t) \/ TaskStoreFails(t)
  <2>1. UNCHANGED <<sharedVars, hostVars, load, admin, restores>>
    BY <1>5 DEF TaskRead, InFlightEnter, TaskSend, TaskRecord, TaskStoreFails
  <2> QED
    BY <1>2, <2>1, HostsStay, QuietAround DEF sharedVars
<1> QED
  BY <1>3, <1>4, <1>5 DEF TaskStep

LEMMA RetirementDueCredential ==
  ASSUME AuthorityInv, CredentialInv, NEW h \in Host, RetirementDue(h)
  PROVE CredentialInv'
<1>1. ASSUME NEW r, RetirementOK(r) PROVE RetirementOK([r EXCEPT !.due = TRUE])
  <2> DEFINE q == [r EXCEPT !.due = TRUE]
  <2>1. /\ DOMAIN q = {"due", "successor", "superseded"} /\ q.successor = r.successor
        /\ q.superseded = r.superseded
    BY <1>1 DEF RetirementOK
  <2> HIDE DEF q
  <2>2. RetirementOK(q)
    BY <1>1, <2>1 DEF RetirementOK
  <2> QED
    BY <2>2 DEF q
<1>2. retirements' = [retirements EXCEPT ![h] = {[r EXCEPT !.due = TRUE] : r \in retirements[h]}]
  BY DEF RetirementDue
<1>3. \A o \in Host : \A r \in retirements[o] : RetirementOK(r)
  BY DEF CredentialInv, StoreInv
<1>4. /\ retirements' = [o \in Host |-> retirements'[o]]
      /\ \A o \in Host : \A r \in retirements'[o] : RetirementOK(r)
  <2>1. \A r \in {[r EXCEPT !.due = TRUE] : r \in retirements[h]} : RetirementOK(r)
    BY <1>1, <1>3
  <2> QED
    BY Zenon, <1>2, <1>3, <2>1 DEF CredentialInv, SharedInv
<1>5. HostsGood
  BY Zenon, <1>4 DEF RetirementDue, HostsGood, CredentialInv, SharedInv, StoreInv
<1> QED
  BY <1>5, QuietAround DEF RetirementDue, sharedVars, CredentialInv, SharedInv

LEMMA RestartCredential ==
  ASSUME AuthorityInv, CredentialInv, NEW h \in Host, Restart(h)
  PROVE CredentialInv'
<1> DEFINE stop(s) == Ended(admin[s], "stopped", FALSE)
<1>0. UNCHANGED <<record, past, floor, custody, notes, load, restores>>
  BY Zenon DEF Restart, sharedVars
<1>1. \A s \in Session :
        \/ admin'[s] = admin[s]
        \/ admin'[s] = stop(s) /\ admin[s].pc # "start"
  BY Zenon DEF Restart
<1>2. \A t \in Task : GoodRecord(task'[t].seen)
  <2> SUFFICES ASSUME NEW t \in Task PROVE GoodRecord(task'[t].seen)
    OBVIOUS
  <2>1. [task[t] EXCEPT !.pc = "done", !.counted = FALSE].seen = task[t].seen
    BY TaskFacts DEF TaskShape
  <2>2. task'[t] = task[t] \/ task'[t] = [task[t] EXCEPT !.pc = "done", !.counted = FALSE]
    BY Zenon DEF Restart
  <2> QED
    BY Zenon, <2>1, <2>2 DEF CredentialInv, SharedInv
<1>3. /\ cached' = [o \in Host |-> cached'[o]] /\ retirements' = [o \in Host |-> retirements'[o]]
      /\ \A o \in Host : cached'[o] = cached[o] \/ cached'[o] = custody[o]
      /\ \A o \in Host : retirements'[o] \subseteq retirements[o]
  BY Zenon DEF Restart, CredentialInv, SharedInv
<1>4. SharedInv'
  BY Zenon, <1>0, <1>2, <1>3, ValuesStay DEF CredentialInv, SharedInv
<1>5. \A o \in Host : StoreInv(o)'
  BY Zenon, <1>0, <1>3, ValuesStay, ClaimsStay DEF CredentialInv, StoreInv, Entries
<1>6. \A o \in Host : CopyAgrees(o)'
  BY <1>0, <1>3, ValuesStay DEF CredentialInv, CopyAgrees, InUse, Alive
<1>7. ASSUME NEW s \in Session PROVE SessionInv(s, admin[s])'
  <2>1. admin[s].pc # "start" => SessionInv(s, stop(s))
    BY Zenon, AnswerInv
  <2>2. SessionInv(s, admin'[s])
    BY Zenon, <1>1, <2>1 DEF CredentialInv
  <2> QED
    BY <1>0, <2>2, ClaimsStay
<1>8. OneWriter'
  <2>1. \A s \in Session : stop(s).pc = "done"
    BY CommandFacts DEF Ended, Fields
  <2> HIDE DEF stop
  <2>2. \A s \in Session :
          admin'[s].pc \in {"remove", "write"} => admin'[s].pc = admin[s].pc
    BY <1>1, <2>1
  <2> QED
    BY <1>0, <2>2, ValuesStay DEF CredentialInv, OneWriter
<1> QED
  BY <1>4, <1>5, <1>6, <1>7, <1>8 DEF CredentialInv

\* After a restore nothing is claimed of the credentials but their types.
LEMMA RestoreCredential ==
  ASSUME AuthorityInv, CredentialInv, Restore
  PROVE CredentialInv'
<1>0. UNCHANGED <<hostVars, load, admin, task>> /\ restores' = restores + 1 /\ restores < load.restores
      /\ record' \in past /\ past' = past \cup {record}
  BY DEF Restore
<1>1. restores' \in 0 .. load.restores /\ restores' # 0
  <2>1. load.restores \in Nat /\ restores \in 0 .. load.restores
    BY ConnectionAssumption DEF AuthorityInv, CredentialInv, SharedInv
  <2> QED
    BY <1>0, <2>1
<1>2. ~InUse'
  BY <1>1 DEF InUse
<1>3. SharedInv'
  BY Zenon, <1>0, <1>1, ValuesStay DEF CredentialInv, SharedInv, hostVars
<1>4. \A r : RetirementOK(r) => RetirementOK(r)'
  BY Zenon, <1>0, <1>1, ValuesStay DEF RetirementOK
<1>5. \A h \in Host : StoreInv(h)' /\ CopyAgrees(h)'
  BY Zenon, <1>0, <1>2, <1>4, ValuesStay DEF CredentialInv, StoreInv, CopyAgrees, hostVars, Entries
<1>6. ASSUME NEW s \in Session PROVE SessionInv(s, admin[s])'
  <2>1. Carries(admin[s])'
    BY Zenon, <1>0, <1>1, <1>4, ValuesStay, CommandFacts DEF Carries, Entries
  <2>2. KnowsRecord(s, admin[s])' /\ KnowsNext(s, admin[s])'
    BY Zenon, <1>0, ValuesStay, CommandFacts DEF KnowsRecord, KnowsNext
  <2>3. HeldAgrees(s, admin[s])' /\ CandidateKept(s, admin[s])'
    BY Zenon, <1>2 DEF HeldAgrees, CandidateKept
  <2> QED
    BY <2>1, <2>2, <2>3 DEF SessionInv
<1>7. OneWriter'
  BY <1>0, ValuesStay DEF CredentialInv, OneWriter
<1> QED
  BY <1>3, <1>5, <1>6, <1>7 DEF CredentialInv

LEMMA InitCredential ==
  ASSUME Init PROVE CredentialInv
<1>1. load.restores \in Nat /\ MaxGeneration \in Nat \ {0}
  BY Zenon, ConnectionAssumption DEF Init
<1>2. GoodRecord(Installed) /\ Older(Installed) /\ record = Installed /\ restores = 0
  <2>1. /\ Installed.generation = 1 /\ Installed.credential_generation = 1
        /\ Installed.reference = <<1, "installed">> /\ Installed.reference[1] = 1
    BY DEF Installed
  <2>2. Installed \in Record
    BY <1>1 DEF Installed, Record
  <2> QED
    BY <2>1, <2>2 DEF GoodRecord, Older, Init
<1>3. Entries({Installed.reference})
  BY DEF Entries, Installed
<1>4. /\ \A h \in Host : /\ custody[h] = {Installed.reference} /\ cached[h] = {Installed.reference}
                         /\ notes[h] = {1} /\ retirements[h] = {} /\ floor[h] = Installed
      /\ past = {} /\ custody = [h \in Host |-> custody[h]] /\ cached = [h \in Host |-> cached[h]]
      /\ notes = [h \in Host |-> notes[h]] /\ retirements = [h \in Host |-> retirements[h]]
  BY DEF Init
<1>5. SharedInv
  <2>1. TaskIdle.seen = record /\ \A t \in Task : task[t] = TaskIdle
    BY DEF TaskIdle, Init
  <2> QED
    BY SMTT(20), <1>1, <1>2, <1>4, <2>1 DEF SharedInv
<1>6. \A h \in Host : StoreInv(h) /\ CopyAgrees(h)
  BY SMTT(20), <1>1, <1>2, <1>3, <1>4 DEF StoreInv, CopyAgrees
<1>7. \A s \in Session : SessionInv(s, admin[s]) /\ admin[s].pc = "start"
  <2>1. /\ Idle.pc = "start" /\ Idle.round = 1 /\ Idle.seen = record /\ Idle.first = record
        /\ Idle.todo = {} /\ Idle.due = {} /\ Idle.held = {} /\ Idle.proposal = {}
        /\ Idle.outcome = "none" /\ Idle.accepted = FALSE
    BY DEF Idle
  <2>2. \A s \in Session : admin[s] = Idle
    BY DEF Init
  <2>3. Carries(Idle)
    BY Zenon, <1>2, <2>1 DEF Carries, Entries
  <2>4. \A s : KnowsRecord(s, Idle) /\ KnowsNext(s, Idle) /\ HeldAgrees(s, Idle) /\ CandidateKept(s, Idle)
    BY Zenon, <2>1 DEF KnowsRecord, KnowsNext, HeldAgrees, CandidateKept, Rotating
  <2> QED
    BY Zenon, <2>1, <2>2, <2>3, <2>4 DEF SessionInv
<1>8. OneWriter
  BY <1>7 DEF OneWriter
<1> QED
  BY Zenon, <1>5, <1>6, <1>7, <1>8 DEF CredentialInv

LEMMA NextCredential ==
  ASSUME AuthorityInv, CredentialInv, [Next]_vars PROVE CredentialInv'
<1>1. ASSUME NEW s \in Session, SessionStep(s) PROVE CredentialInv'
  <2>1. CASE ReadRecord(s) \/ AcceptRecord(s) \/ Change(s) \/ Witness(s) \/ Drain(s) \/ Retired(s)
             \/ Collected(s)
    BY <2>1, ReadRecordCredential, AcceptRecordCredential, ChangeCredential, WitnessCredential,
       DrainCredential
  <2>2. CASE CheckHolds(s) \/ NoteCredential(s) \/ ClearSuccessor(s) \/ ReplaceCredential(s)
             \/ CheckPrepared(s) \/ PublishRotation(s) \/ DiscardSuccessor(s) \/ ConfirmCredential(s)
    BY Zenon, <2>2, CheckHoldsCredential, NotingCredential, ClearCredential, ReplaceCredentialKeeps,
       CheckPreparedCredential, PublishRotationCredential, ConfirmCredentialKeeps
  <2>3. CASE ScheduleRetirement(s) \/ (\E r \in admin[s].due : RetireOne(s, r)) \/ DeleteConnection(s)
    BY Zenon, <2>3, ScheduleCredential, RetireOneCredential, DeleteConnectionCredential
  <2>4. CASE ReadNotes(s) \/ RemoveOne(s) \/ Forget(s) \/ \E g \in admin[s].todo : CollectOne(s, g)
    BY <2>4, ReadNotesCredential, RemoveOneCredential, ForgetCredential, CollectOneCredential
  <2>5. CASE KeepCurrent(s) \/ NoteCandidate(s) \/ PlaceCandidate(s) \/ WriteCandidate(s)
             \/ ReadProposal(s) \/ PresentCandidate(s) \/ PublishCandidate(s)
    BY Zenon, <2>5, KeepCurrentCredential, NotingCredential, PlaceCredential, WriteCandidateCredential,
       ReadProposalCredential, PresentCredential, PublishCandidateCredential
  <2> QED
    BY Zenon, <1>1, <2>1, <2>2, <2>3, <2>4, <2>5 DEF SessionStep
<1>2. CASE UNCHANGED vars
  <2>1. HostsGood
    BY <1>2, HostsStay DEF vars, hostVars
  <2> QED
    BY <1>2, <2>1, QuietAround DEF vars, CredentialInv, SharedInv
<1> QED
  BY <1>1, <1>2, FaultCredential, TaskCredential, RetirementDueCredential, RestartCredential,
     RestoreCredential DEF Next

-----------------------------------------------------------------------------
(* What a step may take from a store, and put into it *)

\* The steps that change what a store holds.
StoreStep(s) ==
  \/ ClearSuccessor(s) \/ DiscardSuccessor(s) \/ ReplaceCredential(s) \/ ConfirmCredential(s)
  \/ \E r : RetireOne(s, r)
  \/ DeleteConnection(s) \/ RemoveOne(s) \/ WriteCandidate(s)

LEMMA StoreSteps ==
  ASSUME AuthorityInv, CredentialInv, [Next]_vars
  PROVE custody' = custody \/ \E s \in Session : StoreStep(s)
<1>1. ASSUME NEW h \in Host, Refresh(h) PROVE custody' = custody
  BY Zenon, <1>1 DEF Refresh, Mutate, Write, CredentialInv, SharedInv
<1>2. ASSUME NEW s \in Session, SessionStep(s), ~StoreStep(s) PROVE custody' = custody
  <2>1. HostOf(s) \in Host
    BY CommandFacts
  <2>2. CASE CheckHolds(s) \/ CheckPrepared(s)
    BY <1>1, <2>1, <2>2 DEF CheckHolds, CheckPrepared
  <2>3. CASE ReadRecord(s) \/ AcceptRecord(s) \/ Change(s) \/ Witness(s) \/ Drain(s)
             \/ NoteCredential(s) \/ PublishRotation(s) \/ ScheduleRetirement(s) \/ Retired(s)
    BY <2>3 DEF ReadRecord, AcceptRecord, Change, Witness, Drain, NoteCredential, PublishRotation,
         ScheduleRetirement, Retired, hostVars
  <2>4. CASE ReadNotes(s) \/ Forget(s) \/ Collected(s) \/ \E g \in admin[s].todo : CollectOne(s, g)
    BY Zenon, <2>4 DEF ReadNotes, Forget, Collected, CollectOne, hostVars
  <2>5. CASE KeepCurrent(s) \/ NoteCandidate(s) \/ PlaceCandidate(s)
             \/ ReadProposal(s) \/ PresentCandidate(s) \/ PublishCandidate(s)
    BY Zenon, <2>5 DEF KeepCurrent, NoteCandidate, PlaceCandidate, ReadProposal, PresentCandidate,
         PublishCandidate, hostVars
  <2> QED
    BY Zenon, <1>2, <2>2, <2>3, <2>4, <2>5 DEF SessionStep, StoreStep
<1>3. ASSUME NEW s \in Session, StoreFails(s) \/ Unacknowledged(s) PROVE custody' = custody
  BY Zenon, <1>3 DEF StoreFails, Unacknowledged, hostVars
<1>4. ASSUME NEW t \in Task, TaskStep(t) \/ TaskStoreFails(t) PROVE custody' = custody
  <2>1. CASE TaskHolds(t) \/ TaskLease(t)
    BY <1>1, <2>1, TaskFacts DEF TaskHolds, TaskLease
  <2> QED
    BY <1>4, <2>1 DEF TaskStep, TaskStoreFails, TaskRead, TaskAccept, InFlightEnter, TaskSend,
         TaskRecord, hostVars
<1>5. ASSUME NEW h \in Host, RetirementDue(h) \/ Restart(h) PROVE custody' = custody
  BY Zenon, <1>5 DEF RetirementDue, Restart
<1>6. CASE Restore \/ UNCHANGED vars
  BY <1>6 DEF Restore, hostVars, vars
<1> QED
  BY <1>2, <1>3, <1>4, <1>5, <1>6 DEF Next

\* A step writes one store, and keeps what is needed unless it clears or discards a successor.
LEMMA StoreWrites ==
  ASSUME AuthorityInv, CredentialInv, NEW s \in Session, StoreStep(s)
  PROVE LET h == HostOf(s) IN
        /\ \A o \in Host : o # h => custody'[o] = custody[o]
        /\ \/ admin[s].pc \in {"clear", "discard"} /\ admin'[s] # admin[s]
           \/ \A e : Needed(e) /\ e \in custody[h] => e \in custody'[h]
<1> DEFINE h == HostOf(s)
           b == admin[s]
<1>0. /\ h \in Host /\ custody = [o \in Host |-> custody[o]] /\ GoodRecord(record)
      /\ DOMAIN b = Fields
  BY CommandFacts DEF CredentialInv, SharedInv
<1>1. \A entries : custody' = [custody EXCEPT ![h] = entries] =>
        custody'[h] = entries /\ \A o \in Host : o # h => custody'[o] = custody[o]
  BY <1>0
<1>2. \A a : Become(s, a) /\ a.pc # b.pc => admin'[s] # b
  BY BecomeFacts
<1>3. ASSUME NEW outcome, NEW drained, b.pc # "done", Become(s, Ended(b, outcome, drained))
      PROVE admin'[s] # b
  <2>1. Ended(b, outcome, drained).pc = "done"
    BY Zenon, <1>0 DEF Ended, Fields
  <2> QED
    BY <1>2, <1>3, <2>1
<1>4. CASE ClearSuccessor(s) \/ DiscardSuccessor(s)
  <2>1. b.pc \in {"clear", "discard"}
    BY Zenon, <1>4 DEF ClearSuccessor, DiscardSuccessor, At
  <2>2. admin'[s] # b
    <3>1. CASE DiscardSuccessor(s)
      BY Zenon, <1>3, <2>1, <3>1 DEF DiscardSuccessor, Answer
    <3>2. CASE ClearSuccessor(s)
      <4>1. [b EXCEPT !.pc = "store"].pc = "store"
        BY Zenon, <1>0 DEF Fields
      <4> QED
        BY Zenon, <1>2, <2>1, <3>2, <4>1 DEF ClearSuccessor, Goto
    <3> QED
      BY <1>4, <3>1, <3>2
  <2>3. custody' = [custody EXCEPT ![h] = Without(custody[h], {b.next})]
    BY <1>4 DEF ClearSuccessor, DiscardSuccessor, Mutate, Write
  <2> QED
    BY Zenon, <1>1, <2>1, <2>2, <2>3
<1>5. CASE ReplaceCredential(s)
  <2>1. \/ custody' = [custody EXCEPT ![h] = custody[h]]
        \/ custody' = [custody EXCEPT ![h] = custody[h] \cup {Successor(s)}]
    BY Zenon, <1>5 DEF ReplaceCredential, Refresh, Mutate, Write
  <2> QED
    BY Zenon, <1>1, <2>1
<1>6. CASE ConfirmCredential(s)
  <2>1. \/ custody' = [custody EXCEPT ![h] = custody[h]]
        \/ custody' = [custody EXCEPT ![h] = custody[h] \cup {b.seen.reference}]
    BY <1>6 DEF ConfirmCredential, Refresh, Mutate, Write
  <2> QED
    BY Zenon, <1>1, <2>1
<1>7. ASSUME NEW doomed, DeleteGenerations(h, doomed),
             ~InUse \/ (Command(s).verb \in Rotates \cup {"prepare"} /\ \A g \in doomed : Spent(g))
      PROVE /\ \A o \in Host : o # h => custody'[o] = custody[o]
            /\ \A e : Needed(e) /\ e \in custody[h] => e \in custody'[h]
  <2>1. CASE custody' = custody
    BY <2>1
  <2>2. CASE custody' = [custody EXCEPT ![h] = Without(cached[h], doomed)]
    <3>1. \A e : Needed(e) /\ e \in custody[h] => e \in Without(cached[h], doomed)
      <4>1. CASE ~InUse
        BY <4>1 DEF Needed
      <4>2. CASE Command(s).verb \in Rotates \cup {"prepare"} /\ \A g \in doomed : Spent(g)
        <5>1. \A o \in Session : Command(o).verb \notin Candidates
          BY <4>2, ConnectionAssumption DEF AuthorityInv, Command, Rotates, Candidates
        <5>2. \A e : Needed(e) => (e \in custody[h] <=> e \in cached[h])
          BY Zenon, <1>0, <5>1 DEF CredentialInv, CopyAgrees, Needed
        <5> QED
          BY Zenon, <1>0, <4>2, <5>2, NeededStay
      <4> QED
        BY Zenon, <1>7, <4>1, <4>2
    <3> QED
      BY Zenon, <1>1, <2>2, <3>1 DEF Without
  <2> QED
    BY Zenon, <1>7, <2>1, <2>2 DEF DeleteGenerations, Write
<1>8. ASSUME NEW r, RetireOne(s, r)
      PROVE /\ \A o \in Host : o # h => custody'[o] = custody[o]
            /\ \A e : Needed(e) /\ e \in custody[h] => e \in custody'[h]
  <2>1. RetirementOK(r) /\ Command(s).verb \in Rotates \cup {"prepare"}
    BY Zenon, <1>8, CommandFacts DEF RetireOne, At, KnowsRecord, Rotating, Carries
  <2>2. CASE r.superseded # {}
    <3>1. custody' = [custody EXCEPT ![h] = Without(custody[h], r.superseded)]
      BY <1>8, <2>2 DEF RetireOne, Mutate, Write
    <3>2. InUse => \A g \in r.superseded : Spent(g)
      BY <2>1 DEF RetirementOK, InUse
    <3>3. \A e : Needed(e) /\ e \in custody[h] => e \in Without(custody[h], r.superseded)
      BY Zenon, <1>0, <3>2, NeededStay DEF Needed
    <3> QED
      BY <1>1, <3>1, <3>3 DEF Without
  <2>3. CASE r.superseded = {}
    <3>1. DeleteGenerations(h, Superseded(h, r.successor))
      BY <1>8, <2>3 DEF RetireOne
    <3>2. InUse => \A g \in Superseded(h, r.successor) : Spent(g)
      BY <1>0, <2>1, StoredEntries, SupersededAreSpent DEF RetirementOK, InUse
    <3> QED
      BY Zenon, <1>7, <2>1, <3>1, <3>2
  <2> QED
    BY <2>2, <2>3
<1>9. CASE DeleteConnection(s)
  <2>1. DeleteGenerations(h, Stored(cached[h])) /\ b.pc = "delete"
    BY <1>9 DEF DeleteConnection, At
  <2>2. ~InUse
    BY Zenon, <2>1, CommandFacts DEF KnowsRecord, Carries, Older, InUse
  <2> QED
    BY Zenon, <1>7, <2>1, <2>2
<1>10. CASE RemoveOne(s)
  <2>1. /\ b.pc = "remove" /\ custody' = [custody EXCEPT ![h] = Without(b.held, {b.next})]
    BY <1>10 DEF RemoveOne, At
  <2>2. InUse => Spent(b.next)
    BY Zenon, <2>1, CommandFacts DEF KnowsNext, Carries, InUse
  <2>3. \A e : Needed(e) /\ e \in custody[h] => e \in b.held
    BY <2>1, CommandFacts DEF HeldAgrees, Needed
  <2>4. \A e : Needed(e) /\ e \in custody[h] => e \in Without(b.held, {b.next})
    BY <1>0, <2>2, <2>3, SpentIsNotNeeded DEF Without, Needed
  <2> QED
    BY Zenon, <1>1, <2>1, <2>4
<1>11. CASE WriteCandidate(s)
  <2>1. /\ b.pc = "write" /\ custody' = [custody EXCEPT ![h] = b.held]
    BY Zenon, <1>11 DEF WriteCandidate, At
  <2>2. \A e : Needed(e) /\ e \in custody[h] => e \in b.held
    BY <2>1, CommandFacts DEF HeldAgrees, Needed
  <2> QED
    BY <1>1, <2>1, <2>2
<1> QED
  BY Zenon, <1>4, <1>5, <1>6, <1>8, <1>9, <1>10, <1>11 DEF StoreStep

-----------------------------------------------------------------------------
(* The theorems *)

INSTANCE FiniteSetTheorems

LEMMA CountZero == CountsTrue
<1> SUFFICES ASSUME NEW h \in Host, in_flight(h) = 0
             PROVE \A t \in Task : TaskHost[t] = h => ~task[t].counted
  BY Zenon DEF CountsTrue
<1> DEFINE C == {t \in Task : TaskHost[t] = h /\ task[t].counted}
<1>1. IsFiniteSet(C)
  BY Zenon, FS_Subset, ConnectionAssumption
<1>2. C = {}
  BY <1>1, FS_EmptySet DEF in_flight
<1> QED
  BY <1>2

\* The inductive invariant holds in every reachable state.
THEOREM AuthorityIsKept == Spec => []AuthorityInv
<1>1. Init => AuthorityInv
  BY InitEstablishes
<1>2. AuthorityInv /\ [Next]_vars => AuthorityInv'
  BY NextKeeps, CountZero
<1> QED
  BY <1>1, <1>2, PTL DEF Spec

(***************************************************************************)
(* An answer of disable, enable, revoke or rotate that says "drained"      *)
(* (engine.rs drained) means that no entry authorised by an older record   *)
(* is on its way or unrecorded on that server, and none will be.           *)
(***************************************************************************)
THEOREM DrainedIsTrue == Spec => []DrainedMeansRecorded
<1>1. AuthorityInv => DrainedMeansRecorded
  BY DEF AuthorityInv
<1> QED
  BY <1>1, AuthorityIsKept, PTL

(***************************************************************************)
(* No restore of the shared store, no fault and no race makes a host enter *)
(* the provider under an older connection record than it has entered under *)
(* before, or under another record of the same generation                  *)
(* (GenerationFloor::accept at the reload before entry).                   *)
(***************************************************************************)
THEOREM AuthorityIsLinear == Spec => LinearAuthority
<1>1. AuthorityInv /\ [Next]_vars => [Line]_vars
  BY EntryMoves
<1> QED
  BY <1>1, AuthorityIsKept, PTL DEF Spec, LinearAuthority, Line

\* Both inductive invariants hold in every reachable state.
THEOREM CredentialsAreKept == Spec => [](AuthorityInv /\ CredentialInv)
<1>1. Init => AuthorityInv /\ CredentialInv
  BY InitEstablishes, InitCredential
<1>2. AuthorityInv /\ CredentialInv /\ [Next]_vars => (AuthorityInv /\ CredentialInv)'
  BY NextKeeps, NextCredential, CountZero
<1> QED
  BY <1>1, <1>2, PTL DEF Spec

(***************************************************************************)
(* Connection records keep their shape and their order of generations, a   *)
(* record's commitment is one made for its credential generation, and a    *)
(* credential store (SealedCredentialStore) never has two secrets of one   *)
(* generation, whatever commands, processes, faults and restores do.       *)
(***************************************************************************)
THEOREM ConnectionTypeCorrect == Spec => []ConnectionTypeOK
<1>1. CredentialInv => ConnectionTypeOK
  BY DEF CredentialInv, SharedInv, StoreInv, Entries, GoodRecord, ConnectionTypeOK
<1> QED
  BY <1>1, CredentialsAreKept, PTL

(***************************************************************************)
(* The host that staged a candidate (stage_candidate_rotation) has its     *)
(* secret for as long as the shared record names it: nothing that runs     *)
(* between staging, publication and the next rotation deletes it, and no   *)
(* other process overwrites the store with what it had read before.        *)
(***************************************************************************)
THEOREM CandidateIsKeptAlways == Spec => []CandidateIsKept
<1>1. ASSUME CredentialInv PROVE CandidateIsKept
  <2>1. SUFFICES ASSUME restores = 0, record.state # "Revoked", NEW s \in Session,
                        Command(s).verb = "stage", admin[s].outcome = "staged",
                        NEW p \in admin[s].proposal, record.reference = p.reference
                 PROVE record.reference \in custody[HostOf(s)]
    BY DEF CandidateIsKept
  <2> QED
    BY Zenon, <1>1, <2>1 DEF CredentialInv, SessionInv, CandidateKept, InUse, Alive
<1> QED
  BY <1>1, CredentialsAreKept, PTL

(***************************************************************************)
(* Retirement (collect_retired, retire_superseded) and collection          *)
(* (collect_credentials) never delete the credential the shared record     *)
(* names, however stale the record they were decided by, the server's copy *)
(* of the store or the store another process has read: only a revocation   *)
(* and a rotation that clears or discards a successor take it from a host, *)
(* unless the shared store was restored.                                   *)
(***************************************************************************)
THEOREM RetirementSparesAlways == Spec => RetirementSpares
<1> DEFINE Spares ==
      restores = 0 /\ record.state # "Revoked" =>
        \A h \in Host :
          record.reference \in custody[h] /\ record.reference \notin custody'[h] =>
            \E s \in Session : HostOf(s) = h /\ admin[s].pc \in {"clear", "discard"}
                                /\ admin'[s] # admin[s]
<1>1. AuthorityInv /\ CredentialInv /\ [Next]_vars => [Spares]_vars
  <2> SUFFICES ASSUME AuthorityInv, CredentialInv, [Next]_vars, InUse, NEW h \in Host,
                      record.reference \in custody[h], record.reference \notin custody'[h]
               PROVE \E s \in Session : HostOf(s) = h /\ admin[s].pc \in {"clear", "discard"}
                                         /\ admin'[s] # admin[s]
    BY Zenon DEF InUse
  <2>1. PICK s \in Session : StoreStep(s)
    BY StoreSteps
  <2>2. Needed(record.reference)
    BY Zenon DEF Needed, Alive
  <2>3. HostOf(s) = h
    BY <2>1, StoreWrites
  <2> QED
    BY Zenon, <2>1, <2>2, <2>3, StoreWrites
<1> QED
  BY <1>1, CredentialsAreKept, PTL DEF Spec, RetirementSpares
=============================================================================
