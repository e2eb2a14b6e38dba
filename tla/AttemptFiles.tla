---------------------------- MODULE AttemptFiles ----------------------------
(***************************************************************************)
(* FileGatewayAttemptStore (auths-gateway/store.rs): gateway records as    *)
(* files of one directory.  A batch writes a batch file that lists its     *)
(* targets, creates them one by one and deletes the batch file; whoever    *)
(* finds a batch file rolls the batch back first.  A file is installed     *)
(* complete, but the directory holds a change for certain only after the   *)
(* next sync.  Any call may fail, and the process or the host may stop,    *)
(* between two changes of the directory.                                   *)
(*                                                                         *)
(* Every mutation holds the exclusive lock from its first read to its      *)
(* return, so one operation at a time is under way on the host; a process  *)
(* that stops releases it.  The order in which a batch names its targets   *)
(* is not modelled: they are created, and deleted, in any order.           *)
(***************************************************************************)
EXTENDS Naturals

CONSTANTS
  Name,         \* the file names of records
  Slot,         \* the names of count and sum slots
  Single,       \* the names of records inserted by themselves
  Batch,        \* the batches callers insert
  Targets,      \* batch -> the names it inserts
  MaxVersion,   \* replacements of one record
  MaxFaults,    \* calls that fail and processes that stop
  MaxLosses     \* power losses

ASSUME FilesAssumption ==
  /\ Slot \subseteq Name /\ Single \subseteq Name /\ Batch \cap Name = {}
  /\ Targets \in [Batch -> SUBSET Name]
  /\ MaxVersion \in Nat /\ MaxFaults \in Nat /\ MaxLosses \in Nat

VARIABLES
  disk,        \* the directory: its records and the batch its batch file lists
  surviving,   \* the directories a power loss may leave
  ordered,     \* whether directory changes reach the disk in order
  doing,       \* the operation that holds the exclusive lock
  confirmed,   \* confirmed[n]: the record last acknowledged at n, not yet swept
  faults, losses

files == <<disk, surviving, ordered, doing, confirmed, faults, losses>>

Listed(b, n) == {[of |-> b, name |-> n, version |-> 0]}
Alone(n) == {[of |-> n, name |-> n, version |-> 0]}

Idle == [kind |-> "none", on |-> "none", pc |-> "idle"]

At(kind, pc) == doing.kind = kind /\ doing.pc = pc
Go(pc) == doing' = [doing EXCEPT !.pc = pc]

(* One change of the directory.  In order, a power loss leaves a prefix of *)
(* the changes since the last sync; otherwise any of them.                 *)
PutRow(n, v) ==
  /\ disk' = [disk EXCEPT !.rows[n] = v]
  /\ surviving' = surviving \cup
       IF ordered THEN {disk'} ELSE {[d EXCEPT !.rows[n] = v] : d \in surviving}
PutLog(l) ==
  /\ disk' = [disk EXCEPT !.log = l]
  /\ surviving' = surviving \cup
       IF ordered THEN {disk'} ELSE {[d EXCEPT !.log = l] : d \in surviving}
sync_root == surviving' = {disk} /\ UNCHANGED disk

Quiet == UNCHANGED <<ordered, confirmed, faults, losses>>

-----------------------------------------------------------------------------
(* The exclusive lock and the rollback of a batch *)

(* Faulty variant: the lock is taken and a batch file is ignored. *)
FaultyExclusive(kind, on) ==
  /\ doing.pc = "idle"
  /\ doing' = [kind |-> kind, on |-> on, pc |-> "work"]
  /\ UNCHANGED <<disk, surviving>> /\ Quiet

exclusive(kind, on) ==
  /\ doing.pc = "idle"
  /\ doing' = [kind |-> kind, on |-> on, pc |-> IF disk.log = {} THEN "work" ELSE "recover"]
  /\ UNCHANGED <<disk, surviving>> /\ Quiet

(* A load, or the opening of the store, needs the exclusive lock only when *)
(* it finds a batch file.                                                  *)
shared == disk.log # {} /\ exclusive("load", "none")

(* The listed targets that still hold the listed bytes. *)
Left == {n \in Name : \E b \in disk.log : n \in Targets[b] /\ disk.rows[n] = Listed(b, n)}

DeleteTarget ==
  /\ doing.pc = "recover"
  /\ \E n \in Left : PutRow(n, {})
  /\ UNCHANGED doing /\ Quiet

TargetsDeleted == doing.pc = "recover" /\ Left = {} /\ sync_root /\ Go("rolled") /\ Quiet

DeleteBatchFile == doing.pc = "rolled" /\ PutLog({}) /\ Go("cleared") /\ Quiet

Recovered ==
  /\ doing.pc = "cleared"
  /\ sync_root
  /\ IF doing.kind = "load" THEN doing' = Idle ELSE Go("work")
  /\ Quiet

-----------------------------------------------------------------------------
(* Operations *)

(* The operation ends without a change: a record exists or does not, the   *)
(* expected bytes are stale, the fence's decision refuses, nothing expired *)
(* or the admission deadline has passed.                                   *)
Refused == doing.pc = "work" /\ doing' = Idle /\ UNCHANGED <<disk, surviving>> /\ Quiet

(* insert_batch_locked. *)
InstallBatch ==
  /\ At("batch", "work")
  /\ \A n \in Targets[doing.on] : disk.rows[n] = {}
  /\ disk.log = {}
  /\ PutLog({doing.on})
  /\ Go("logged") /\ Quiet

BatchIsDurable == doing.pc = "logged" /\ sync_root /\ Go("targets") /\ Quiet

InstallTarget ==
  /\ doing.pc = "targets"
  /\ \E n \in Targets[doing.on] :
       disk.rows[n] = {} /\ PutRow(n, Listed(doing.on, n))
  /\ UNCHANGED doing /\ Quiet

TargetsAreDurable ==
  /\ doing.pc = "targets"
  /\ \A n \in Targets[doing.on] : disk.rows[n] # {}
  /\ sync_root /\ Go("commit") /\ Quiet

CommitBatch == doing.pc = "commit" /\ PutLog({}) /\ Go("committed") /\ Quiet

(* Faulty variant: the call returns before the deletion of the batch file  *)
(* is durable.                                                             *)
FaultyInserted ==
  /\ doing.pc = "committed"
  /\ UNCHANGED <<disk, surviving>>
  /\ confirmed' = [n \in Name |-> IF n \in Targets[doing.on] THEN disk.rows[n] ELSE confirmed[n]]
  /\ doing' = Idle
  /\ UNCHANGED <<ordered, faults, losses>>

Inserted ==
  /\ doing.pc = "committed"
  /\ sync_root
  /\ confirmed' = [n \in Name |-> IF n \in Targets[doing.on] THEN disk.rows[n] ELSE confirmed[n]]
  /\ doing' = Idle
  /\ UNCHANGED <<ordered, faults, losses>>

(* insert: one record, without a batch file. *)
Insert ==
  /\ At("insert", "work")
  /\ disk.rows[doing.on] = {}
  /\ PutRow(doing.on, Alone(doing.on))
  /\ Go("written") /\ Quiet

(* replace and fenced_replace, whose comparison or decision succeeded. *)
Replace ==
  /\ At("replace", "work")
  /\ \E v \in disk.rows[doing.on] :
       /\ v.version < MaxVersion
       /\ PutRow(doing.on, {[v EXCEPT !.version = @ + 1]})
  /\ Go("written") /\ Quiet

Written ==
  /\ doing.pc = "written"
  /\ sync_root
  /\ confirmed' = [confirmed EXCEPT ![doing.on] = disk.rows[doing.on]]
  /\ doing' = Idle
  /\ UNCHANGED <<ordered, faults, losses>>

(* sweep_batch: any slot may have expired. *)
RemoveExpired ==
  /\ At("sweep", "work") \/ At("sweep", "swept")
  /\ \E n \in Slot :
       /\ disk.rows[n] # {}
       /\ PutRow(n, {})
       /\ confirmed' = [confirmed EXCEPT ![n] = {}]
  /\ Go("swept")
  /\ UNCHANGED <<ordered, faults, losses>>

Swept == doing.pc = "swept" /\ sync_root /\ doing' = Idle /\ Quiet

-----------------------------------------------------------------------------
(* Faults *)

(* A call fails, or the process stops: the directory stays as it is. *)
Interrupted ==
  /\ doing.pc # "idle"
  /\ faults < MaxFaults
  /\ faults' = faults + 1
  /\ doing' = Idle
  /\ UNCHANGED <<disk, surviving, ordered, confirmed, losses>>

HostStops ==
  /\ losses < MaxLosses
  /\ losses' = losses + 1
  /\ disk' \in surviving
  /\ surviving' = {disk'}
  /\ doing' = Idle
  /\ UNCHANGED <<ordered, confirmed, faults>>

FilesInit ==
  /\ disk = [rows |-> [n \in Name |-> {}], log |-> {}]
  /\ surviving = {disk}
  /\ ordered \in BOOLEAN
  /\ doing = Idle
  /\ confirmed = [n \in Name |-> {}]
  /\ faults = 0 /\ losses = 0

Rollback == DeleteTarget \/ TargetsDeleted \/ DeleteBatchFile \/ Recovered

insert_batch_locked ==
  \/ InstallBatch \/ BatchIsDurable \/ InstallTarget
  \/ TargetsAreDurable \/ CommitBatch \/ Inserted

Begin ==
  \/ \E b \in Batch : exclusive("batch", b)
  \/ \E n \in Single : exclusive("insert", n)
  \/ \E n \in Name \ Slot : exclusive("replace", n)
  \/ exclusive("sweep", "none")
  \/ shared

FilesNext ==
  \/ Begin \/ Rollback \/ Refused
  \/ insert_batch_locked
  \/ Insert \/ Replace \/ Written
  \/ RemoveExpired \/ Swept
  \/ Interrupted \/ HostStops

FilesSpec == FilesInit /\ [][FilesNext]_files

-----------------------------------------------------------------------------
(* Properties *)

(* What a reader of directory d sees, once a batch it finds is rolled back. *)
Rolled(d) ==
  [n \in Name |-> IF \E b \in d.log : n \in Targets[b] /\ d.rows[n] = Listed(b, n)
                    THEN {} ELSE d.rows[n]]

(* An acknowledged insertion or replacement is never taken back: through   *)
(* failed syncs, interrupted batches, their rollback and power losses,     *)
(* whether or not the file system keeps directory changes in order, what   *)
(* a reader finds at its name is that record or a later version of it,     *)
(* until the sweep removes it.  In particular a batch file that outlives   *)
(* its batch never makes the rollback delete acknowledged records.         *)
ConfirmedStays ==
  \A d \in surviving \cup {disk}, n \in Name : \A v \in confirmed[n] :
    \E u \in Rolled(d)[n] : u.of = v.of /\ u.version >= v.version

(* On a file system that keeps directory changes in order, the files       *)
(* implement AtomicRecords: what a reader can find never shows a part of a *)
(* batch, whichever step of it or of its rollback was interrupted.  Of a   *)
(* file system that reorders them nothing is claimed here.                 *)
Records == INSTANCE AtomicRecords WITH
  rows <- IF ordered THEN Rolled(disk) ELSE [n \in Name |-> {}],
  kept <- IF ordered THEN {Rolled(d) : d \in surviving} ELSE {[n \in Name |-> {}]}
ImplementsRecords == Records!RecordsSpec
=============================================================================
