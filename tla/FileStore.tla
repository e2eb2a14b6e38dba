----------------------------- MODULE FileStore -----------------------------
(***************************************************************************)
(* PersistentLifecycleStore (auths-stores/lifecycle.rs): the database in   *)
(* memory and the file it is persisted to.  A transaction runs under the   *)
(* store's mutex: it builds the successor database, writes and syncs a     *)
(* temporary file, replaces the file, syncs the directory, and only then   *)
(* exchanges the database in memory.  Any of these may fail, the process   *)
(* may stop between them, and power may be lost before the replacement of  *)
(* the file has reached the directory.                                     *)
(*                                                                         *)
(* The variable db of Lifecycle is the successor database: it differs from *)
(* memory exactly while a transaction is being persisted.                  *)
(***************************************************************************)
EXTENDS Lifecycle

CONSTANTS
    MaxFailures,   \* persistence errors
    MaxRestarts    \* process restarts and power losses

ASSUME FileStoreAssumption == Durable /\ MaxFailures \in Nat /\ MaxRestarts \in Nat

VARIABLES
    memory,      \* the database behind the mutex
    file,        \* the contents the path names
    survivors,   \* the contents a power loss may leave at the path
    acked,       \* acked[w]: the events of the last acknowledged record of w
    failures, restarts

fileVars == <<db, lapsed, memory, file, survivors, acked, failures, restarts>>

Persisting == db # memory

(* transact_database up to the call of persist. *)
TransactDatabase(w) ==
    /\ ~Persisting
    /\ Step(w, db[w].revision)
    /\ UNCHANGED <<memory, file, survivors, acked, failures, restarts>>

(* Faulty variant: the file is replaced, the directory is not synced. *)
FaultyPersist ==
    /\ Persisting
    /\ file' = db
    /\ survivors' = survivors \cup {db}
    /\ memory' = db
    /\ acked' = [w \in Workflow |-> IF db[w] = memory[w] THEN acked[w] ELSE db[w].events]
    /\ UNCHANGED <<db, lapsed, failures, restarts>>

(* persist_database succeeds, the database is exchanged and the transition *)
(* acknowledged.                                                           *)
PersistDatabase ==
    /\ Persisting
    /\ file' = db
    /\ survivors' = {db}
    /\ memory' = db
    /\ acked' = [w \in Workflow |-> IF db[w] = memory[w] THEN acked[w] ELSE db[w].events]
    /\ UNCHANGED <<db, lapsed, failures, restarts>>

PersistFails ==
    /\ Persisting
    /\ failures < MaxFailures
    /\ failures' = failures + 1
    /\ db' = memory
    /\ UNCHANGED <<lapsed, memory, acked, restarts>>

(* An error before the temporary file takes the place of the old one. *)
FailsBeforeReplace == PersistFails /\ UNCHANGED <<file, survivors>>

(* Faulty variant: the file is written in place, and the error leaves the  *)
(* record of the transaction truncated.                                    *)
FaultyReplace ==
    /\ PersistFails
    /\ \E w \in Workflow :
          /\ db[w] # memory[w]
          /\ file' = [db EXCEPT ![w].events = << >>]
    /\ survivors' = survivors \cup {file'}

(* An error after it: the file is ahead of the database in memory. *)
FailsAfterReplace ==
    /\ PersistFails
    /\ file' = db
    /\ survivors' = survivors \cup {db}

(* PersistentLifecycleStore::open reads the file as it is. *)
Open(contents) ==
    /\ ~Persisting
    /\ restarts < MaxRestarts
    /\ restarts' = restarts + 1
    /\ memory' = contents
    /\ db' = contents
    /\ UNCHANGED <<lapsed, acked, failures>>

ProcessRestarts == Open(file) /\ UNCHANGED <<file, survivors>>

PowerLoss ==
    \E contents \in survivors :
      /\ Open(contents)
      /\ file' = contents
      /\ survivors' = {contents}

FileLapse(w) ==
    /\ Lapse(w)
    /\ UNCHANGED <<memory, file, survivors, acked, failures, restarts>>

FileInit ==
    /\ Init
    /\ memory = db
    /\ file = db
    /\ survivors = {db}
    /\ acked = [w \in Workflow |-> << >>]
    /\ failures = 0 /\ restarts = 0

FileNext ==
    \/ \E w \in Workflow : TransactDatabase(w) \/ FileLapse(w)
    \/ PersistDatabase
    \/ FailsBeforeReplace
    \/ FailsAfterReplace
    \/ ProcessRestarts
    \/ PowerLoss

FileSpec == FileInit /\ [][FileNext]_fileVars

-----------------------------------------------------------------------------
(* Properties *)

StartsWith(s, t) == Len(t) <= Len(s) /\ SubSeq(s, 1, Len(t)) = t

(* An acknowledged transition is never lost: through failed writes,        *)
(* restarts and power losses the history of a workflow that was last       *)
(* acknowledged stays a prefix of its history in memory, in the file and   *)
(* in whatever a power loss may leave.  A transition that was refused with *)
(* Unavailable may appear after a restart, but never in place of an        *)
(* acknowledged one.                                                       *)
AcknowledgedSurvives ==
    \A d \in survivors \cup {memory, file}, w \in Workflow : StartsWith(d[w].events, acked[w])

(* Whichever contents the store is opened with, capacity is neither        *)
(* duplicated nor exceeded there, and every record in it decodes.          *)
SurvivorsAreSound ==
    \A d \in survivors \cup {memory, file} :
      /\ \A k \in Additive : Cardinality(Used(d, Workflow, k)) <= Ceiling[k]
      /\ \A k \in Exclusive : \A p, q \in Owners(d, Workflow, k) : p = q
      /\ \A w \in Workflow : d[w].state # "None" => ValidRecordIntegrity(d[w])
=============================================================================
