------------------------- MODULE GatewayConnection -------------------------
(***************************************************************************)
(* Administration of a gateway connection: one connection record shared by *)
(* every host through the attempt store, and on each host a generation     *)
(* floor, a credential store, a journal of cleanup notes and the server    *)
(* process with its in-flight count and its pending retirements.           *)
(*                                                                         *)
(* A session is one admin command.  Up to four run at a time in a server,  *)
(* and the emergency stop, the collection of credentials and the candidate *)
(* workflow run in processes of their own, so sessions interleave at every *)
(* await, and two processes write one credential store.  A task            *)
(* is a submission, reduced to what it reads of the connection: it loads   *)
(* the record, loads it again before it leases the credential, and a last  *)
(* time, counted as in flight, before it enters the provider.              *)
(*                                                                         *)
(* A commitment is computed from a generation and a secret, so it is the   *)
(* pair of them, and a credential store is a set of such pairs.            *)
(***************************************************************************)
EXTENDS Integers, FiniteSets

CONSTANTS
    Host,
    Session,
    Task,
    TaskHost,        \* TaskHost[t]: the host task t runs on
    Workload,        \* what is run: commands, submissions, faults and restores
    MaxGeneration,   \* the last generation there is (u64::MAX)
    Rounds           \* ADMIN_ROUNDS, the attempts at one compare-and-swap

Verb == {"disable", "enable", "revoke", "stop_disable", "stop_revoke", "rotate", "prepare",
         "commit", "collect", "stage", "publish", "none"}

(* command[s]: what session s does; tasks: the submissions made; after:    *)
(* the pairs of which the second is issued only after the first has ended; *)
(* faults: the store errors and restarts of a server; restores: the        *)
(* restores of the shared store from a backup.  A commit names the         *)
(* generation its commitment was made for.  Recipes with credential reads  *)
(* rotate by stage and publish only (require_offline_rotation), the others *)
(* never do.                                                               *)
ASSUME ConnectionAssumption ==
    /\ IsFiniteSet(Task) /\ TaskHost \in [Task -> Host]
    /\ \A l \in Workload :
          /\ \A s \in Session : l.command[s].verb \in Verb /\ l.command[s].host \in Host
          /\ l.after \subseteq (Session \cup Task) \X (Session \cup Task)
          /\ l.tasks \subseteq Task /\ l.faults \in Nat /\ l.restores \in Nat
          /\ (\E s \in Session : l.command[s].verb \in {"stage", "publish"}) =>
               \A s \in Session : l.command[s].verb \notin {"rotate", "prepare", "commit"}
    /\ MaxGeneration \in Nat \ {0}
    /\ Rounds \in Nat \ {0}

VARIABLES
    record,        \* the shared connection record
    past,          \* the records it was before, which a backup may hold
    floor,         \* floor[h]: the record the host accepted last
    custody,       \* custody[h]: the credentials in the host's store
    cached,        \* cached[h]: the server's copy of that store
    notes,         \* notes[h]: the generations in the credential journal
    retirements,   \* retirements[h]: superseded generations kept for the delay
    load,          \* what is run
    admin,         \* admin[s]: where session s is
    task,          \* task[t]: where task t is
    entered,       \* entered[h]: the record of the last entry the host authorised
    faults, restores

hostVars == <<floor, custody, cached, notes, retirements>>
sharedVars == <<record, past>>
vars == <<record, past, floor, custody, cached, notes, retirements, load, admin, task,
          entered, faults, restores>>

Command(s) == load.command[s]
HostOf(s) == load.command[s].host

-----------------------------------------------------------------------------
(* Generations and records *)

Exhausted(r) == r.generation = MaxGeneration

(* The clock has moved on when the store was restored. *)
transition_state(r, state) ==
    [generation |-> r.generation + 1, credential_generation |-> r.credential_generation,
     reference |-> r.reference, state |-> state, updated_at |-> restores]

rotated(r, commitment) ==
    [generation |-> r.generation + 1, credential_generation |-> r.generation + 1,
     reference |-> commitment, state |-> r.state, updated_at |-> restores]

Stored(entries) == {e[1] : e \in entries}
Without(entries, generations) == {e \in entries : e[1] \notin generations}

retained_generation(generation, stored) ==
    {g \in stored : g <= generation /\ \A o \in stored : o <= generation => o <= g}

(* The stored generation a lease for r may use, if there is one. *)
lease_generation(r, stored) ==
    retained_generation(r.generation, stored) \cap {r.credential_generation}

(* The store serves r: binding_entry finds the entry r commits to. *)
Holds(entries, r) ==
    /\ lease_generation(r, Stored(entries)) # {}
    /\ r.reference \in entries
    /\ r.reference[1] = r.credential_generation

(* Faulty variant: a record of the accepted generation is taken to be the  *)
(* accepted record.                                                        *)
FaultyAccepts(h, r) == floor[h].generation <= r.generation

(* GenerationFloor::accept: a newer record, or exactly the accepted one. *)
Accepts(h, r) == floor[h].generation < r.generation \/ floor[h] = r

in_flight(h) == Cardinality({t \in Task : TaskHost[t] = h /\ task[t].counted})

(* x is issued: what it comes after has ended. *)
Issued(x) ==
    \A p \in load.after : p[2] = x =>
      IF p[1] \in Session THEN admin[p[1]].pc = "done" ELSE task[p[1]].pc = "done"

-----------------------------------------------------------------------------
(* Sessions *)

Idle == [pc |-> "start", round |-> 1, seen |-> record, first |-> record, next |-> 0,
         todo |-> {}, due |-> {}, held |-> {}, proposal |-> {},
         outcome |-> "none", drained |-> FALSE, accepted |-> FALSE]

At(s, pc) == admin[s].pc = pc
Become(s, a) == admin' = [admin EXCEPT ![s] = a]
Goto(s, pc) == Become(s, [admin[s] EXCEPT !.pc = pc])

(* The command is answered; what it was working on is gone. *)
Ended(a, outcome, drained) ==
    [a EXCEPT !.pc = "done", !.round = 1, !.first = a.seen, !.next = 0, !.todo = {}, !.due = {},
              !.outcome = outcome, !.drained = drained]
Answer(s, outcome) == Become(s, Ended(admin[s], outcome, FALSE))

(* The emergency stop, which uses the shared store only. *)
Emergency == {"stop_disable", "stop_revoke"}
Changes == {"disable", "enable", "revoke"} \cup Emergency
Rotates == {"rotate", "commit"}
Candidates == {"stage", "publish"}

(* Commands that are not run by the server. *)
OwnProcess == {"collect"} \cup Emergency \cup Candidates

(* Another process of host h is between its read and its write of the      *)
(* credential store, and has the writer lock.                              *)
Locked(h) == \E s \in Session : HostOf(s) = h /\ admin[s].pc \in {"remove", "write"}

(* The emergency stop has no floor, and a collector looks at a revoked     *)
(* record without one.                                                     *)
SkipsFloor(s) ==
    \/ Command(s).verb \in Emergency
    \/ Command(s).verb = "collect" /\ admin[s].seen.state = "Revoked"

(* SharedConnection::load reads the record, and then asks the floor. *)
ReadRecord(s) ==
    /\ \/ At(s, "read")
       \/ At(s, "start") /\ Command(s).verb \notin {"none", "publish"} /\ Issued(s)
    /\ Become(s, [admin[s] EXCEPT !.seen = record, !.pc = "accept"])
    /\ UNCHANGED <<sharedVars, hostVars, load, task, entered, faults, restores>>

(* The record a proposal would publish. *)
Proposed(p) == [rotated(p.previous, p.reference) EXCEPT !.updated_at = p.at]

(* A candidate is staged if its predecessor is still current afterwards,   *)
(* and published if it is itself current afterwards.                       *)
AfterCandidateLoad(s) ==
    LET a == admin[s] IN
    IF Command(s).verb = "stage"
    THEN IF a.round = 1
         THEN IF a.seen.state = "Revoked" THEN Answer(s, "refused") ELSE Goto(s, "keep")
         ELSE Answer(s, IF a.seen = a.first THEN "staged" ELSE "refused")
    ELSE IF a.round = 1
         THEN IF \E p \in a.proposal : a.seen \in {p.previous, Proposed(p)}
              THEN Goto(s, "present") ELSE Answer(s, "refused")
         ELSE Answer(s, IF \E p \in a.proposal : a.seen = Proposed(p)
                        THEN "published" ELSE "refused")

(* What the command does with the record it has loaded. *)
AfterLoad(s) ==
    LET a == admin[s]
        verb == Command(s).verb
    IN CASE verb \in Changes -> Goto(s, "change")
         [] verb \in Candidates -> AfterCandidateLoad(s)
         [] verb = "collect" ->
              IF a.round = 1 THEN Goto(s, "notes")
              ELSE IF a.seen = a.first THEN Goto(s, "collect") ELSE Answer(s, "refused")
         [] OTHER ->
              IF a.seen.state = "Revoked" THEN Answer(s, "refused")
              ELSE IF verb = "commit"
              THEN Become(s, [a EXCEPT !.pc = "publish", !.next = a.seen.generation + 1])
              ELSE Goto(s, "holds")

AcceptRecord(s) ==
    /\ At(s, "accept")
    /\ IF SkipsFloor(s)
       THEN AfterLoad(s) /\ UNCHANGED floor
       ELSE IF Accepts(HostOf(s), admin[s].seen)
       THEN /\ floor' = [floor EXCEPT ![HostOf(s)] = admin[s].seen]
            /\ AfterLoad(s)
       ELSE Answer(s, "refused") /\ UNCHANGED floor
    /\ UNCHANGED <<sharedVars, custody, cached, notes, retirements, load, task, entered, faults, restores>>

-----------------------------------------------------------------------------
(* stop, change_state *)

Target(verb) == CASE verb \in {"disable", "stop_disable"} -> "Disabled"
                  [] verb = "enable" -> "Active"
                  [] OTHER -> "Revoked"

(* The state the command wants is already there; a disable never undoes a  *)
(* revocation.                                                             *)
Satisfied(verb, r) == verb # "enable" /\ r.state \in {Target(verb), "Revoked"}

(* Only a disabled connection is enabled. *)
Permitted(verb, r) == ~Exhausted(r) /\ (verb = "enable" => r.state = "Disabled")

AfterChange(s, r) ==
    LET a == [admin[s] EXCEPT !.seen = r]
    IN CASE Command(s).verb = "revoke" -> Become(s, [a EXCEPT !.pc = "delete"])
         [] Command(s).verb \in Emergency -> Become(s, Ended(a, "stopped", FALSE))
         [] OTHER -> Become(s, [a EXCEPT !.pc = "drain"])

(* The compare-and-swap of the whole record. *)
Swap(s, next) ==
    /\ record = admin[s].seen
    /\ record' = next
    /\ past' = past \cup {record}

Change(s) ==
    /\ At(s, "change")
    /\ LET a == admin[s]
           verb == Command(s).verb
           next == transition_state(a.seen, Target(verb))
       IN \/ /\ Satisfied(verb, a.seen)
             /\ AfterChange(s, a.seen)
             /\ UNCHANGED sharedVars
          \/ /\ ~Satisfied(verb, a.seen) /\ ~Permitted(verb, a.seen)
             /\ Answer(s, "refused")
             /\ UNCHANGED sharedVars
          \/ /\ ~Satisfied(verb, a.seen) /\ Permitted(verb, a.seen)
             /\ IF record = a.seen
                THEN /\ Swap(s, next)
                     /\ IF verb \in Emergency THEN AfterChange(s, next)
                        ELSE Become(s, [a EXCEPT !.pc = "witness", !.seen = next])
                ELSE /\ IF a.round < Rounds
                        THEN Become(s, [a EXCEPT !.pc = "read", !.round = a.round + 1])
                        ELSE Answer(s, "refused")
                     /\ UNCHANGED sharedVars
    /\ UNCHANGED <<hostVars, load, task, entered, faults, restores>>

(* A failed rotation discards its successor; a failed commit leaves it. *)
RotationFails(s) ==
    IF Command(s).verb = "rotate" THEN Goto(s, "discard") ELSE Answer(s, "refused")

(* replace asks the floor about the record it has already committed. *)
Witness(s) ==
    /\ At(s, "witness")
    /\ LET a == admin[s] IN
       IF Accepts(HostOf(s), a.seen)
       THEN /\ floor' = [floor EXCEPT ![HostOf(s)] = a.seen]
            /\ IF Command(s).verb \in Rotates THEN Goto(s, "schedule") ELSE AfterChange(s, a.seen)
       ELSE /\ IF Command(s).verb \in Rotates THEN RotationFails(s) ELSE Answer(s, "refused")
            /\ UNCHANGED floor
    /\ UNCHANGED <<sharedVars, custody, cached, notes, retirements, load, task, entered, faults, restores>>

(* Faulty variant: an answer waits for the entries however long they take. *)
FaultyDrainWaits(s) ==
    /\ At(s, "drain")
    /\ in_flight(HostOf(s)) = 0
    /\ Become(s, Ended(admin[s], "changed", TRUE))
    /\ UNCHANGED <<sharedVars, hostVars, load, task, entered, faults, restores>>

(* drained: the server's entries end, or the drain limit is reached. *)
Drain(s) ==
    /\ At(s, "drain")
    /\ Become(s, Ended(admin[s], "changed", in_flight(HostOf(s)) = 0))
    /\ UNCHANGED <<sharedVars, hostVars, load, task, entered, faults, restores>>

-----------------------------------------------------------------------------
(* The credential store of the server.  mutate and current_entries read    *)
(* the file again under its writer lock, and fail when another process has *)
(* it; delete_generations writes the cached entries without what it        *)
(* deletes, and takes no lock.                                             *)

Write(h, entries) ==
    /\ custody' = [custody EXCEPT ![h] = entries]
    /\ cached' = [cached EXCEPT ![h] = entries]

Mutate(h, entries) == ~Locked(h) /\ Write(h, entries)
Refresh(h) == Mutate(h, custody[h])

DeleteGenerations(h, doomed) ==
    IF doomed \cap Stored(cached[h]) = {}
    THEN UNCHANGED <<custody, cached>>
    ELSE Write(h, Without(cached[h], doomed))

(* The generations retire_superseded deletes for the binding of r. *)
Superseded(h, r) == {g \in Stored(cached[h]) : g # r.credential_generation /\ g <= r.generation}

-----------------------------------------------------------------------------
(* rotate_connection, prepare_rotation, commit_rotation *)

(* A server that holds the current credential stores a successor; one that *)
(* does not may take the secret another host has published.                *)
CheckHolds(s) ==
    /\ At(s, "holds")
    /\ IF Holds(custody[HostOf(s)], admin[s].seen)
       THEN IF Exhausted(admin[s].seen)
            THEN Answer(s, "refused")
            ELSE Become(s, [admin[s] EXCEPT !.pc = "note", !.next = admin[s].seen.generation + 1])
       ELSE IF Command(s).verb = "rotate" THEN Goto(s, "confirm") ELSE Answer(s, "refused")
    /\ Refresh(HostOf(s))
    /\ UNCHANGED <<sharedVars, floor, notes, retirements, load, task, entered, faults, restores>>

(* store_successor: the note, the discard of a leftover, the replacement. *)
NoteCredential(s) ==
    /\ At(s, "note")
    /\ notes' = [notes EXCEPT ![HostOf(s)] =
          notes[HostOf(s)] \cup {admin[s].seen.credential_generation, admin[s].next}]
    /\ Goto(s, "clear")
    /\ UNCHANGED <<sharedVars, floor, custody, cached, retirements, load, task, entered, faults, restores>>

ClearSuccessor(s) ==
    /\ At(s, "clear")
    /\ Mutate(HostOf(s), Without(custody[HostOf(s)], {admin[s].next}))
    /\ Goto(s, "store")
    /\ UNCHANGED <<sharedVars, floor, notes, retirements, load, task, entered, faults, restores>>

Successor(s) == <<admin[s].next, Command(s).secret>>

(* A different secret is stored at the generation of e. *)
Conflicts(entries, e) == \E o \in entries : o[1] = e[1] /\ o # e

(* Faulty variant: a secret already stored at the generation is ignored. *)
FaultyReplaceTwice(s) ==
    /\ At(s, "store")
    /\ LET h == HostOf(s) IN
       IF retained_generation(admin[s].seen.generation, Stored(custody[h])) = {}
       THEN Answer(s, "refused") /\ Refresh(h)
       ELSE /\ Mutate(h, custody[h] \cup {Successor(s)})
            /\ IF Command(s).verb = "prepare" THEN Answer(s, "prepared") ELSE Goto(s, "publish")
    /\ UNCHANGED <<sharedVars, floor, notes, retirements, load, task, entered, faults, restores>>

ReplaceCredential(s) ==
    /\ At(s, "store")
    /\ LET h == HostOf(s) IN
       IF \/ retained_generation(admin[s].seen.generation, Stored(custody[h])) = {}
          \/ Conflicts(custody[h], Successor(s))
       THEN Answer(s, "refused") /\ Refresh(h)
       ELSE /\ Mutate(h, custody[h] \cup {Successor(s)})
            /\ IF Command(s).verb = "prepare" THEN Answer(s, "prepared") ELSE Goto(s, "publish")
    /\ UNCHANGED <<sharedVars, floor, notes, retirements, load, task, entered, faults, restores>>

(* The commitment to publish: the operator names it in a commit. *)
Commitment(s) ==
    IF Command(s).verb = "commit" THEN <<Command(s).generation, Command(s).secret>> ELSE Successor(s)

(* publish_rotation up to the compare-and-swap. *)
CheckPrepared(s) ==
    /\ At(s, "publish")
    /\ IF /\ ~Exhausted(admin[s].seen)
          /\ Holds(custody[HostOf(s)], rotated(admin[s].seen, Commitment(s)))
       THEN Goto(s, "swap")
       ELSE RotationFails(s)
    /\ Refresh(HostOf(s))
    /\ UNCHANGED <<sharedVars, floor, notes, retirements, load, task, entered, faults, restores>>

PublishRotation(s) ==
    /\ At(s, "swap")
    /\ LET a == admin[s]
           next == rotated(a.seen, Commitment(s))
       IN IF record = a.seen
          THEN /\ Swap(s, next)
               /\ Become(s, [a EXCEPT !.pc = "witness", !.first = a.seen, !.seen = next])
          ELSE RotationFails(s) /\ UNCHANGED sharedVars
    /\ UNCHANGED <<hostVars, load, task, entered, faults, restores>>

(* rotate_connection deletes the successor of a rotation that failed. *)
DiscardSuccessor(s) ==
    /\ At(s, "discard")
    /\ Mutate(HostOf(s), Without(custody[HostOf(s)], {admin[s].next}))
    /\ Answer(s, "refused")
    /\ UNCHANGED <<sharedVars, floor, notes, retirements, load, task, entered, faults, restores>>

(* accept_rotation: confirm stores the secret the record commits to. *)
ConfirmCredential(s) ==
    /\ At(s, "confirm")
    /\ LET h == HostOf(s)
           r == admin[s].seen
       IN IF r.reference # <<r.credential_generation, Command(s).secret>>
             \/ Conflicts(custody[h], r.reference)
          THEN Answer(s, "refused") /\ Refresh(h)
          ELSE /\ Mutate(h, custody[h] \cup {r.reference})
               /\ Become(s, [admin[s] EXCEPT !.pc = "schedule", !.accepted = TRUE])
    /\ UNCHANGED <<sharedVars, floor, notes, retirements, load, task, entered, faults, restores>>

(* schedule_retirement, and the retirements collect_retired finds due.     *)
(* The one scheduled here is not: the delay lies ahead of it.              *)
ScheduleRetirement(s) ==
    /\ At(s, "schedule")
    /\ LET h == HostOf(s)
           a == admin[s]
           superseded == IF a.accepted THEN {} ELSE {a.first.credential_generation}
           due == {r \in retirements[h] : r.due}
       IN /\ retirements' = [retirements EXCEPT ![h] = (@ \ due) \cup
                {[due |-> FALSE, successor |-> a.seen, superseded |-> superseded]}]
          /\ Become(s, [a EXCEPT !.pc = "retire", !.due = due])
    /\ UNCHANGED <<sharedVars, floor, custody, cached, notes, load, task, entered, faults, restores>>

(* One due retirement: the superseded generation, where it is known, and   *)
(* then what the successor leaves behind.                                  *)
RetireOne(s, r) ==
    /\ At(s, "retire")
    /\ r \in admin[s].due
    /\ LET h == HostOf(s) IN
       IF r.superseded # {}
       THEN /\ Mutate(h, Without(custody[h], r.superseded))
            /\ Become(s, [admin[s] EXCEPT !.due = (admin[s].due \ {r}) \cup {[r EXCEPT !.superseded = {}]}])
       ELSE /\ DeleteGenerations(h, Superseded(h, r.successor))
            /\ Become(s, [admin[s] EXCEPT !.due = admin[s].due \ {r}])
    /\ UNCHANGED <<sharedVars, floor, notes, retirements, load, task, entered, faults, restores>>

(* Taking a published secret changes no shared state and drains nothing. *)
Retired(s) ==
    /\ At(s, "retire")
    /\ admin[s].due = {}
    /\ IF admin[s].accepted
       THEN Become(s, Ended(admin[s], "accepted", in_flight(HostOf(s)) = 0))
       ELSE Goto(s, "drain")
    /\ UNCHANGED <<sharedVars, hostVars, load, task, entered, faults, restores>>

(* The retirement delay has passed for what is scheduled on h. *)
RetirementDue(h) ==
    /\ \E r \in retirements[h] : ~r.due
    /\ retirements' = [retirements EXCEPT ![h] = {[r EXCEPT !.due = TRUE] : r \in @}]
    /\ UNCHANGED <<sharedVars, floor, custody, cached, notes, load, admin, task, entered, faults, restores>>

-----------------------------------------------------------------------------
(* revoke_connection deletes every credential after the record is revoked. *)

DeleteConnection(s) ==
    /\ At(s, "delete")
    /\ DeleteGenerations(HostOf(s), Stored(cached[HostOf(s)]))
    /\ Goto(s, "drain")
    /\ UNCHANGED <<sharedVars, floor, notes, retirements, load, task, entered, faults, restores>>

-----------------------------------------------------------------------------
(* collect_credentials, in a process of its own: the notes, the delay, the *)
(* record again, and then the deletions without another look at it.        *)

(* Faulty variant: the credential the record names is not spared. *)
FaultyCollectable(r, generations) == {g \in generations : g <= r.generation}

Collectable(r, generations) ==
    {g \in generations :
        g <= r.generation /\ (r.state = "Revoked" \/ g # r.credential_generation)}

ReadNotes(s) ==
    /\ At(s, "notes")
    /\ Become(s, [admin[s] EXCEPT !.pc = "read", !.round = 2, !.first = admin[s].seen,
                     !.todo = Collectable(admin[s].seen, notes[HostOf(s)])])
    /\ UNCHANGED <<sharedVars, hostVars, load, task, entered, faults, restores>>

(* Each deletion reads the store under the lock and writes it. *)
CollectOne(s, g) ==
    /\ At(s, "collect")
    /\ ~Locked(HostOf(s))
    /\ g \in admin[s].todo
    /\ Become(s, [admin[s] EXCEPT !.pc = "remove", !.next = g, !.held = custody[HostOf(s)]])
    /\ UNCHANGED <<sharedVars, hostVars, load, task, entered, faults, restores>>

RemoveOne(s) ==
    /\ At(s, "remove")
    /\ custody' = [custody EXCEPT ![HostOf(s)] = Without(admin[s].held, {admin[s].next})]
    /\ Become(s, [admin[s] EXCEPT !.pc = "forget", !.held = {}])
    /\ UNCHANGED <<sharedVars, floor, cached, notes, retirements, load, task, entered, faults, restores>>

Forget(s) ==
    /\ At(s, "forget")
    /\ notes' = [notes EXCEPT ![HostOf(s)] = @ \ {admin[s].next}]
    /\ Become(s, [admin[s] EXCEPT !.pc = "collect", !.todo = admin[s].todo \ {admin[s].next}])
    /\ UNCHANGED <<sharedVars, floor, custody, cached, retirements, load, task, entered, faults, restores>>

Collected(s) ==
    /\ At(s, "collect")
    /\ admin[s].todo = {}
    /\ Answer(s, "collected")
    /\ UNCHANGED <<sharedVars, hostVars, load, task, entered, faults, restores>>

-----------------------------------------------------------------------------
(* stage_candidate_rotation, publish_candidate_credential.  The operator   *)
(* keeps the proposal between them, and has its checks made and approved.  *)

KeepCurrent(s) ==
    /\ At(s, "keep")
    /\ ~Locked(HostOf(s))
    /\ LET r == admin[s].seen IN
       IF ~Exhausted(r) /\ Holds(custody[HostOf(s)], r)
       THEN Become(s, [admin[s] EXCEPT !.pc = "enlist", !.next = r.generation + 1, !.first = r,
               !.proposal = {[previous |-> r, at |-> restores,
                              reference |-> <<r.generation + 1, Command(s).secret>>]}])
       ELSE Answer(s, "refused")
    /\ UNCHANGED <<sharedVars, hostVars, load, task, entered, faults, restores>>

NoteCandidate(s) ==
    /\ At(s, "enlist")
    /\ notes' = [notes EXCEPT ![HostOf(s)] =
          notes[HostOf(s)] \cup {admin[s].seen.credential_generation, admin[s].next}]
    /\ Goto(s, "place")
    /\ UNCHANGED <<sharedVars, floor, custody, cached, retirements, load, task, entered, faults, restores>>

(* Faulty variant: what is stored at the generation is replaced. *)
FaultyPlace(s) ==
    /\ At(s, "place")
    /\ ~Locked(HostOf(s))
    /\ LET entries == custody[HostOf(s)] IN
       IF retained_generation(admin[s].seen.generation, Stored(entries)) = {}
       THEN Answer(s, "refused")
       ELSE Become(s, [admin[s] EXCEPT !.pc = "write",
                          !.held = Without(entries, {admin[s].next}) \cup {Successor(s)}])
    /\ UNCHANGED <<sharedVars, hostVars, load, task, entered, faults, restores>>

(* replace, without the discard of a leftover, in two steps. *)
PlaceCandidate(s) ==
    /\ At(s, "place")
    /\ ~Locked(HostOf(s))
    /\ LET entries == custody[HostOf(s)] IN
       IF \/ retained_generation(admin[s].seen.generation, Stored(entries)) = {}
          \/ Conflicts(entries, Successor(s))
       THEN Answer(s, "refused")
       ELSE Become(s, [admin[s] EXCEPT !.pc = "write", !.held = entries \cup {Successor(s)}])
    /\ UNCHANGED <<sharedVars, hostVars, load, task, entered, faults, restores>>

WriteCandidate(s) ==
    /\ At(s, "write")
    /\ custody' = [custody EXCEPT ![HostOf(s)] = admin[s].held]
    /\ Become(s, [admin[s] EXCEPT !.pc = "read", !.round = 2, !.held = {}])
    /\ UNCHANGED <<sharedVars, floor, cached, notes, retirements, load, task, entered, faults, restores>>

ReadProposal(s) ==
    /\ At(s, "start") /\ Command(s).verb = "publish" /\ Issued(s)
    /\ \E o \in Session :
         /\ admin[o].outcome = "staged"
         /\ Become(s, [admin[s] EXCEPT !.pc = "read", !.proposal = admin[o].proposal])
    /\ UNCHANGED <<sharedVars, hostVars, load, task, entered, faults, restores>>

(* The approval may have lapsed, or the candidate be gone. *)
PresentCandidate(s) ==
    /\ At(s, "present")
    /\ \/ /\ ~Locked(HostOf(s))
          /\ \E p \in admin[s].proposal : Holds(custody[HostOf(s)], Proposed(p))
          /\ Goto(s, "fence")
       \/ Answer(s, "refused")
    /\ UNCHANGED <<sharedVars, hostVars, load, task, entered, faults, restores>>

PutCandidate(p) ==
    /\ record = p.previous
    /\ record' = Proposed(p)
    /\ past' = past \cup {record}

(* publish_candidate, under the writer fence of the attempt store.  The    *)
(* candidate may be current already; the checks may be missing, failed or  *)
(* stale.  The retirement scheduled afterwards ends with the process.      *)
PublishCandidate(s) ==
    /\ At(s, "fence")
    /\ \E p \in admin[s].proposal :
         \/ /\ PutCandidate(p) \/ (record = Proposed(p) /\ UNCHANGED sharedVars)
            /\ Become(s, [admin[s] EXCEPT !.pc = "read", !.round = 2])
         \/ /\ record # Proposed(p)
            /\ Answer(s, "refused")
            /\ UNCHANGED sharedVars
    /\ UNCHANGED <<hostVars, load, task, entered, faults, restores>>

-----------------------------------------------------------------------------
(* Tasks: prepare_entry, the reload before the lease, the lease, and the   *)
(* reload before entry, which is counted first.                            *)

TaskIdle == [pc |-> "start", stage |-> "prepare", seen |-> record, prepared |-> record,
             counted |-> FALSE]

TaskAt(t, pc) == task[t].pc = pc
TaskGo(t, x) == task' = [task EXCEPT ![t] = x]

TaskRead(t) ==
    /\ TaskAt(t, "read") \/ (TaskAt(t, "start") /\ t \in load.tasks /\ Issued(t))
    /\ TaskGo(t, [task[t] EXCEPT !.pc = "accept", !.seen = record])
    /\ UNCHANGED <<sharedVars, hostVars, load, admin, entered, faults, restores>>

(* Before the claim a refusal ends the task; after it, it is recorded. *)
TaskRefused(t) ==
    TaskGo(t, [task[t] EXCEPT !.pc = IF task[t].stage = "prepare" THEN "done" ELSE "refused"])

TaskAccept(t) ==
    /\ TaskAt(t, "accept")
    /\ LET h == TaskHost[t]
           x == task[t]
           accepted == Accepts(h, x.seen)
           authorized == IF x.stage = "prepare" THEN x.seen.state = "Active"
                         ELSE x.seen = x.prepared
       IN /\ floor' = IF accepted THEN [floor EXCEPT ![h] = x.seen] ELSE floor
          /\ entered' = IF accepted /\ authorized /\ x.stage = "entry"
                        THEN [entered EXCEPT ![h] = x.seen] ELSE entered
          /\ IF accepted /\ authorized
             THEN TaskGo(t, [x EXCEPT !.prepared = x.seen,
                       !.pc = CASE x.stage = "prepare" -> "holds"
                                [] x.stage = "reload" -> "lease"
                                [] x.stage = "entry" -> "send"])
             ELSE TaskRefused(t)
    /\ UNCHANGED <<sharedVars, custody, cached, notes, retirements, load, admin, faults, restores>>

(* holds, and after the claim the reload. *)
TaskHolds(t) ==
    /\ TaskAt(t, "holds")
    /\ IF Holds(custody[TaskHost[t]], task[t].prepared)
       THEN TaskGo(t, [task[t] EXCEPT !.pc = "read", !.stage = "reload"])
       ELSE TaskRefused(t)
    /\ Refresh(TaskHost[t])
    /\ UNCHANGED <<sharedVars, floor, notes, retirements, load, admin, entered, faults, restores>>

TaskLease(t) ==
    /\ TaskAt(t, "lease")
    /\ IF Holds(custody[TaskHost[t]], task[t].prepared)
       THEN TaskGo(t, [task[t] EXCEPT !.pc = "count"])
       ELSE TaskRefused(t)
    /\ Refresh(TaskHost[t])
    /\ UNCHANGED <<sharedVars, floor, notes, retirements, load, admin, entered, faults, restores>>

(* Faulty variant: the entry is not counted. *)
FaultyEnter(t) ==
    /\ TaskAt(t, "count")
    /\ TaskGo(t, [task[t] EXCEPT !.pc = "read", !.stage = "entry"])
    /\ UNCHANGED <<sharedVars, hostVars, load, admin, entered, faults, restores>>

(* InFlight::enter, before the last reload. *)
InFlightEnter(t) ==
    /\ TaskAt(t, "count")
    /\ TaskGo(t, [task[t] EXCEPT !.pc = "read", !.stage = "entry", !.counted = TRUE])
    /\ UNCHANGED <<sharedVars, hostVars, load, admin, entered, faults, restores>>

(* The grant and the write. *)
TaskSend(t) ==
    /\ TaskAt(t, "send")
    /\ TaskGo(t, [task[t] EXCEPT !.pc = "record"])
    /\ UNCHANGED <<sharedVars, hostVars, load, admin, entered, faults, restores>>

(* The outcome is recorded, and the count released. *)
TaskRecord(t) ==
    /\ TaskAt(t, "record") \/ TaskAt(t, "refused")
    /\ TaskGo(t, [task[t] EXCEPT !.pc = "done", !.counted = FALSE])
    /\ UNCHANGED <<sharedVars, hostVars, load, admin, entered, faults, restores>>

-----------------------------------------------------------------------------
(* Faults *)

Fault == faults < load.faults /\ faults' = faults + 1

(* What a command does when the store or the file it uses is unavailable:  *)
(* a failed discard or retirement is ignored.                              *)
ErrorPath(s) ==
    LET pc == admin[s].pc IN
    \/ pc \in {"publish", "swap", "witness"} /\ Command(s).verb \in Rotates /\ RotationFails(s)
    \/ pc = "holds" /\ Command(s).verb = "rotate" /\ Goto(s, "confirm")
    \/ pc = "clear" /\ Goto(s, "store")
    \/ pc = "retire" /\ \E r \in admin[s].due :
         Become(s, [admin[s] EXCEPT !.due = (admin[s].due \ {r}) \cup
                      IF r.superseded = {} THEN {} ELSE {[r EXCEPT !.superseded = {}]}])
    \/ /\ \/ pc \in {"read", "accept", "change", "note", "store", "discard", "confirm",
                      "delete", "notes", "collect", "remove", "forget",
                      "keep", "enlist", "place", "write", "present", "fence"}
          \/ pc = "witness" /\ Command(s).verb \notin Rotates
          \/ pc = "holds" /\ Command(s).verb # "rotate"
       /\ Answer(s, "refused")

(* The next step of the command takes the writer lock of its store. *)
TakesLock(s) ==
    \/ admin[s].pc \in {"publish", "holds", "clear", "store", "discard", "confirm", "collect",
                        "keep", "place", "present"}
    \/ admin[s].pc = "retire" /\ \A r \in admin[s].due : r.superseded # {}

(* The store is unavailable; contention for the lock fails at once. *)
StoreFails(s) ==
    /\ \/ Fault
       \/ Locked(HostOf(s)) /\ TakesLock(s) /\ UNCHANGED faults
    /\ ErrorPath(s)
    /\ UNCHANGED <<sharedVars, hostVars, load, task, entered, restores>>

(* A compare-and-swap that is applied and not acknowledged. *)
Unacknowledged(s) ==
    /\ Fault
    /\ LET a == admin[s]
           verb == Command(s).verb
       IN \/ /\ At(s, "swap")
             /\ Swap(s, rotated(a.seen, Commitment(s)))
          \/ /\ At(s, "change")
             /\ ~Satisfied(verb, a.seen) /\ Permitted(verb, a.seen)
             /\ Swap(s, transition_state(a.seen, Target(verb)))
          \/ At(s, "fence") /\ \E p \in a.proposal : PutCandidate(p)
    /\ ErrorPath(s)
    /\ UNCHANGED <<hostVars, load, task, entered, restores>>

TaskStoreFails(t) ==
    /\ \/ Fault /\ task[t].pc \in {"read", "holds", "lease"}
       \/ Locked(TaskHost[t]) /\ task[t].pc \in {"holds", "lease"} /\ UNCHANGED faults
    /\ TaskRefused(t)
    /\ UNCHANGED <<sharedVars, hostVars, load, admin, entered, restores>>

(* The server of h stops and starts again.  Its retirements are forgotten. *)
Restart(h) ==
    LET serves(s) == HostOf(s) = h /\ Command(s).verb \notin OwnProcess
                       /\ admin[s].pc \notin {"start", "done"}
        runs(t) == TaskHost[t] = h /\ task[t].pc # "start"
    IN /\ Fault
       /\ admin' = [s \in Session |->
             IF serves(s) THEN Ended(admin[s], "stopped", FALSE) ELSE admin[s]]
       /\ task' = [t \in Task |->
             IF runs(t) THEN [task[t] EXCEPT !.pc = "done", !.counted = FALSE] ELSE task[t]]
       /\ retirements' = [retirements EXCEPT ![h] = {}]
       /\ cached' = [cached EXCEPT ![h] = custody[h]]
       /\ UNCHANGED <<sharedVars, floor, custody, notes, load, entered, restores>>

(* The shared store is restored from a backup. *)
Restore ==
    /\ restores < load.restores
    /\ restores' = restores + 1
    /\ record' \in past
    /\ past' = past \cup {record}
    /\ UNCHANGED <<hostVars, load, admin, task, entered, faults>>

-----------------------------------------------------------------------------
Installed == [generation |-> 1, credential_generation |-> 1, reference |-> <<1, "installed">>,
              state |-> "Active", updated_at |-> 0]

(* Every host has installed or joined the connection. *)
Init ==
    /\ record = Installed
    /\ past = {}
    /\ floor = [h \in Host |-> Installed]
    /\ custody = [h \in Host |-> {Installed.reference}]
    /\ cached = custody
    /\ notes = [h \in Host |-> {1}]
    /\ retirements = [h \in Host |-> {}]
    /\ load \in Workload
    /\ admin = [s \in Session |-> Idle]
    /\ task = [t \in Task |-> TaskIdle]
    /\ entered = floor
    /\ faults = 0 /\ restores = 0

SessionStep(s) ==
    \/ ReadRecord(s) \/ AcceptRecord(s)
    \/ Change(s) \/ Witness(s) \/ Drain(s)
    \/ CheckHolds(s) \/ NoteCredential(s) \/ ClearSuccessor(s) \/ ReplaceCredential(s)
    \/ CheckPrepared(s) \/ PublishRotation(s) \/ DiscardSuccessor(s) \/ ConfirmCredential(s)
    \/ ScheduleRetirement(s) \/ Retired(s)
    \/ \E r \in admin[s].due : RetireOne(s, r)
    \/ DeleteConnection(s)
    \/ ReadNotes(s) \/ RemoveOne(s) \/ Forget(s) \/ Collected(s)
    \/ KeepCurrent(s) \/ NoteCandidate(s) \/ PlaceCandidate(s) \/ WriteCandidate(s)
    \/ ReadProposal(s) \/ PresentCandidate(s) \/ PublishCandidate(s)
    \/ \E g \in admin[s].todo : CollectOne(s, g)

TaskStep(t) ==
    \/ TaskRead(t) \/ TaskAccept(t) \/ TaskHolds(t) \/ TaskLease(t)
    \/ InFlightEnter(t) \/ TaskSend(t) \/ TaskRecord(t)

Next ==
    \/ \E s \in Session : SessionStep(s) \/ StoreFails(s) \/ Unacknowledged(s)
    \/ \E t \in Task : TaskStep(t) \/ TaskStoreFails(t)
    \/ \E h \in Host : RetirementDue(h) \/ Restart(h)
    \/ Restore

Spec == Init /\ [][Next]_vars

(* A command the engine has started is never cancelled.  Nothing is        *)
(* assumed of submissions.                                                 *)
FairSpec == Spec /\ \A s \in Session : WF_vars(SessionStep(s))

-----------------------------------------------------------------------------
(* Properties *)

Record == [generation : 1 .. MaxGeneration, credential_generation : 1 .. MaxGeneration,
           reference : (1 .. MaxGeneration) \X {Command(s).secret : s \in Session} \cup {<<1, "installed">>},
           state : {"Active", "Disabled", "Revoked"}, updated_at : 0 .. load.restores]

(* Type invariant.  The credential generation never passes the generation, *)
(* the commitment of a record is one made for its credential generation,   *)
(* and a credential store has one secret per generation.                   *)
ConnectionTypeOK ==
    /\ \A r \in {record} \cup past \cup {floor[h] : h \in Host} :
          r \in Record /\ r.credential_generation <= r.generation
                      /\ r.reference[1] = r.credential_generation
    /\ \A h \in Host : \A e, f \in custody[h] : e[1] = f[1] => e = f
    /\ \A h \in Host : notes[h] \subseteq 1 .. MaxGeneration

(* An answer that says "drained" is the truth about its server: no entry   *)
(* that was authorised by a record older than the change is still on its   *)
(* way to the provider or waiting to be recorded there, then or later.     *)
(* This is what the order of the count and the last reload is for.         *)
DrainedMeansRecorded ==
    \A s \in Session, t \in Task :
      /\ admin[s].drained
      /\ HostOf(s) = TaskHost[t]
      /\ task[t].pc \in {"send", "record"}
      => task[t].prepared.generation >= admin[s].seen.generation

(* The records that authorise the entries of a host form one line: a       *)
(* restore of the shared store never brings back an older record for it,   *)
(* and never a different record of a generation it has already used.       *)
LinearAuthority ==
    [][\A h \in Host :
         entered'[h] # entered[h] => entered[h].generation < entered'[h].generation]_vars

(* Retirement and collection delete nothing that is needed: unless the     *)
(* store was restored, the credential the shared record names leaves a     *)
(* store only by revocation, or by a rotation that discards a successor.   *)
RetirementSpares ==
    [][restores = 0 /\ record.state # "Revoked" =>
         \A h \in Host :
           record.reference \in custody[h] /\ record.reference \notin custody'[h] =>
             \E s \in Session : HostOf(s) = h /\ admin[s].pc \in {"clear", "discard"}
                                 /\ admin'[s] # admin[s]]_vars

(* Staging never overwrites: unless the store was restored, the host that  *)
(* staged a candidate keeps its secret for as long as the shared record    *)
(* names it and is not revoked, through competing proposals, collections,  *)
(* repeated publications and lost acknowledgements.                        *)
CandidateIsKept ==
    restores = 0 /\ record.state # "Revoked" =>
      \A s \in Session :
        Command(s).verb = "stage" /\ record.reference \in {p.reference : p \in admin[s].proposal}
          /\ admin[s].outcome = "staged"
        => record.reference \in custody[HostOf(s)]

(* Every admin command is answered, whatever submissions do: the rounds    *)
(* and the drain are bounded.                                              *)
AdminEnds == \A s \in Session : admin[s].pc # "start" ~> admin[s].pc = "done"

(* The record may only name a credential the store really serves: the host *)
(* that published the secret of the record keeps it until the connection   *)
(* is revoked.                                                             *)
PublishedIsKept ==
    \A s \in Session :
      /\ Command(s).verb \in Rotates
      /\ record.reference = Commitment(s)
      /\ record.state # "Revoked"
      => record.reference \in custody[HostOf(s)]

(* A revocation that is repeated finishes the deletion: when a revoke that *)
(* was issued after every other command of its host had ended answers with *)
(* success, the host's store has nothing left.                             *)
RevocationFinishes ==
    \A s \in Session :
      /\ Command(s).verb = "revoke"
      /\ admin[s].outcome = "changed"
      /\ \A o \in Session \ {s} : HostOf(o) = HostOf(s) => <<o, s>> \in load.after
      => custody[HostOf(s)] = {}
=============================================================================
