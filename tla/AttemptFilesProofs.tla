------------------------- MODULE AttemptFilesProofs -------------------------
(***************************************************************************)
(* The gateway's record files keep what they acknowledged, and on a file   *)
(* system that keeps directory changes in order they implement             *)
(* AtomicRecords: for any names, batches, faults and power losses.         *)
(***************************************************************************)
EXTENDS AttemptFiles, TLAPS

Record == [of : Batch \cup Name, name : Name, version : Nat]
Directory == [rows : [Name -> SUBSET Record], log : SUBSET Batch]

Kinds == {"none", "batch", "insert", "replace", "sweep", "load"}
Inserting == {"logged", "targets", "commit", "committed"}
Steps == {"idle", "work", "recover", "rolled", "cleared", "written", "swept"} \cup Inserting

(* The operation under way is of a kind its step belongs to. *)
DoingOK ==
  /\ doing \in [kind : Kinds, on : Batch \cup Name \cup {"none"}, pc : Steps]
  /\ doing.kind = "batch" => doing.on \in Batch
  /\ doing.kind = "insert" => doing.on \in Single
  /\ doing.kind = "replace" => doing.on \in Name \ Slot
  /\ doing.pc \in Inserting => doing.kind = "batch"
  /\ doing.pc = "written" => doing.kind \in {"insert", "replace"}

FilesTypeOK ==
  /\ disk \in surviving /\ surviving \subseteq Directory
  /\ ordered \in BOOLEAN
  /\ DoingOK
  /\ confirmed \in [Name -> SUBSET Record]

(* A name holds at most one record, of a batch that lists the name. *)
RowsOK(d) ==
  \A n \in Name :
    /\ \A u, v \in d.rows[n] : u = v
    /\ \A u \in d.rows[n] : u.of \in Batch => n \in Targets[u.of]

(* Directory d still has what was acknowledged, and its batch file lists   *)
(* none of it.                                                             *)
Holds(d, n, v) ==
  /\ \E u \in d.rows[n] : u.of = v.of /\ u.version >= v.version
  /\ v.of \notin d.log

(* How far the operation under way has come. *)
StepOK ==
  /\ doing.pc \in {"work", "written", "swept", "cleared", "committed"} => disk.log = {}
  /\ doing.pc \in {"logged", "targets", "commit"} => disk.log = {doing.on}
  /\ doing.pc = "rolled" => Left = {}
  /\ doing.pc = "logged" => \A n \in Targets[doing.on] : disk.rows[n] = {}
  /\ doing.pc = "targets" =>
       \A n \in Targets[doing.on] : disk.rows[n] = {} \/ disk.rows[n] = Listed(doing.on, n)
  /\ doing.pc \in {"commit", "committed"} =>
       \A n \in Targets[doing.on] : disk.rows[n] = Listed(doing.on, n)

(* Whatever a power loss leaves is sound and keeps what was acknowledged. *)
SurvivorsOK ==
  /\ \A d \in surviving : RowsOK(d)
  /\ \A d \in surviving, n \in Name : \A v \in confirmed[n] : Holds(d, n, v)

FilesInv == FilesTypeOK /\ SurvivorsOK /\ StepOK

-----------------------------------------------------------------------------
(* The initial directory satisfies the invariant. *)
LEMMA InitFiles ==
  FilesInit => FilesInv
<1> SUFFICES ASSUME FilesInit PROVE FilesInv
  OBVIOUS
<1>1. disk \in Directory
  BY DEF FilesInit, Directory
<1>2. DoingOK
  BY DEF FilesInit, DoingOK, Idle, Inserting, Kinds, Steps
<1>3. FilesTypeOK
  BY <1>1, <1>2 DEF FilesInit, FilesTypeOK
<1>4. RowsOK(disk)
  BY Zenon DEF FilesInit, RowsOK
<1> QED
  BY <1>3, <1>4 DEF FilesInit, FilesInv, SurvivorsOK, StepOK, Idle

Changed(e, n, v) ==
  \E d \in surviving :
    e \in Directory /\ e.log = d.log /\ e.rows = [d.rows EXCEPT ![n] = v]

(* What a change of one row leaves: every directory that may survive did   *)
(* before or is one that did with the row changed.                         *)
LEMMA RowChange ==
  ASSUME FilesInv, NEW n \in Name, NEW v \in SUBSET Record, PutRow(n, v)
  PROVE /\ disk' \in surviving' /\ surviving' \subseteq Directory
        /\ disk'.log = disk.log
        /\ disk'.rows = [disk.rows EXCEPT ![n] = v]
        /\ \A e \in surviving' : e \in surviving \/ Changed(e, n, v)
<1> DEFINE With(d) == [d EXCEPT !.rows[n] = v]
<1>1. \A d \in Directory :
        With(d) \in Directory /\ With(d).log = d.log /\ With(d).rows = [d.rows EXCEPT ![n] = v]
  BY DEF Directory
<1>2. disk \in surviving /\ surviving \subseteq Directory /\ disk' = With(disk)
  BY DEF FilesInv, FilesTypeOK, PutRow
<1>3. \A e \in surviving' : e \in surviving \/ \E d \in surviving : e = With(d)
  BY <1>2 DEF PutRow
<1>4. disk' \in surviving'
  BY <1>2 DEF PutRow
<1> HIDE DEF With
<1>5. ASSUME NEW e \in surviving' PROVE e \in Directory /\ (e \in surviving \/ Changed(e, n, v))
  <2>1. CASE e \in surviving
    BY <1>2, <2>1
  <2>2. ASSUME NEW d \in surviving, e = With(d) PROVE e \in Directory /\ Changed(e, n, v)
    BY Zenon, <1>1, <1>2, <2>2 DEF Changed
  <2> QED BY <1>3, <2>1, <2>2
<1> QED
  BY <1>1, <1>2, <1>4, <1>5

LEMMA LogChange ==
  ASSUME FilesInv, NEW l \in SUBSET Batch, PutLog(l)
  PROVE /\ disk' \in surviving' /\ surviving' \subseteq Directory
        /\ disk'.log = l
        /\ disk'.rows = disk.rows
        /\ \A e \in surviving' : e \in surviving \/
             \E d \in surviving : e \in Directory /\ e.log = l /\ e.rows = d.rows
<1> DEFINE With(d) == [d EXCEPT !.log = l]
<1>1. \A d \in Directory : With(d) \in Directory /\ With(d).log = l /\ With(d).rows = d.rows
  BY DEF Directory
<1>2. disk \in surviving /\ surviving \subseteq Directory /\ disk' = With(disk)
  BY DEF FilesInv, FilesTypeOK, PutLog
<1>3. \A e \in surviving' : e \in surviving \/ \E d \in surviving : e = With(d)
  BY <1>2 DEF PutLog
<1>4. disk' \in surviving'
  BY <1>2 DEF PutLog
<1> HIDE DEF With
<1> QED
  BY <1>1, <1>2, <1>3, <1>4

(* A row may change to one that has what was acknowledged there. *)
LEMMA RowKeeps ==
  ASSUME FilesInv, NEW n \in Name, NEW v \in SUBSET Record, PutRow(n, v),
         confirmed' = confirmed \/ confirmed' = [confirmed EXCEPT ![n] = {}],
         \A u, w \in v : u = w,
         \A u \in v : u.of \in Batch => n \in Targets[u.of],
         \A w \in confirmed'[n] : \E u \in v : u.of = w.of /\ u.version >= w.version
  PROVE SurvivorsOK'
<1>1. /\ surviving \subseteq Directory /\ SurvivorsOK
      /\ confirmed \in [Name -> SUBSET Record]
  BY DEF FilesInv, FilesTypeOK
<1>2. \A m \in Name : confirmed'[m] \subseteq confirmed[m]
  BY <1>1
<1>3. SUFFICES ASSUME NEW e \in surviving'
               PROVE /\ RowsOK(e)
                     /\ \A m \in Name : \A w \in confirmed'[m] : Holds(e, m, w)
  BY DEF SurvivorsOK, RowsOK, Holds
<1>4. CASE e \in surviving
  BY <1>1, <1>2, <1>4 DEF SurvivorsOK
<1>5. ASSUME NEW d \in surviving, e \in Directory, e.log = d.log,
             e.rows = [d.rows EXCEPT ![n] = v]
      PROVE /\ RowsOK(e)
            /\ \A m \in Name : \A w \in confirmed'[m] : Holds(e, m, w)
  <2>1. d.rows \in [Name -> SUBSET Record]
    BY <1>1 DEF Directory
  <2>2. e.rows[n] = v /\ \A m \in Name : m # n => e.rows[m] = d.rows[m]
    BY <1>5, <2>1
  <2>3. RowsOK(d) /\ \A m \in Name : \A w \in confirmed'[m] : Holds(d, m, w)
    BY <1>1, <1>2 DEF SurvivorsOK
  <2>4. RowsOK(e)
    BY <2>2, <2>3 DEF RowsOK
  <2>5. ASSUME NEW m \in Name, NEW w \in confirmed'[m] PROVE Holds(e, m, w)
    BY <1>5, <2>2, <2>3, <2>5 DEF Holds
  <2> QED BY <2>4, <2>5
<1>6. e \in surviving \/ Changed(e, n, v)
  BY Zenon, RowChange
<1> QED
  BY Zenon, <1>4, <1>5, <1>6 DEF Changed

(* The batch file may come to list only what was not acknowledged. *)
LEMMA LogKeeps ==
  ASSUME FilesInv, NEW l \in SUBSET Batch, PutLog(l), confirmed' = confirmed,
         \A n \in Name : \A w \in confirmed[n] : w.of \notin l
  PROVE SurvivorsOK'
<1>1. SurvivorsOK
  BY DEF FilesInv
<1>2. SUFFICES ASSUME NEW e \in surviving'
               PROVE /\ RowsOK(e)
                     /\ \A m \in Name : \A w \in confirmed[m] : Holds(e, m, w)
  BY DEF SurvivorsOK, RowsOK, Holds
<1>4. CASE e \in surviving
  BY <1>1, <1>4 DEF SurvivorsOK
<1>5. ASSUME NEW d \in surviving, e.log = l, e.rows = d.rows
      PROVE /\ RowsOK(e)
            /\ \A m \in Name : \A w \in confirmed[m] : Holds(e, m, w)
  BY <1>1, <1>5 DEF SurvivorsOK, RowsOK, Holds
<1>6. e \in surviving \/ \E d \in surviving : e \in Directory /\ e.log = l /\ e.rows = d.rows
  BY LogChange
<1> QED
  BY <1>4, <1>5, <1>6

(* A sync makes the directory certain; what it holds outside the batch     *)
(* file may then be acknowledged.                                          *)
LEMMA SyncKeeps ==
  ASSUME FilesInv, sync_root,
         \A n \in Name : \A w \in confirmed'[n] :
           w \in confirmed[n] \/ (w \in disk.rows[n] /\ w.of \notin disk.log)
  PROVE SurvivorsOK'
<1>1. SurvivorsOK /\ disk \in surviving /\ disk \in Directory
  BY DEF FilesInv, FilesTypeOK
<1>2. surviving' = {disk}
  BY DEF sync_root
<1>3. RowsOK(disk)
  BY <1>1 DEF SurvivorsOK
<1>4. ASSUME NEW n \in Name, NEW w \in confirmed'[n] PROVE Holds(disk, n, w)
  <2>1. CASE w \in confirmed[n]
    BY <1>1, <2>1 DEF SurvivorsOK
  <2>2. CASE w \in disk.rows[n] /\ w.of \notin disk.log
    <3>1. w.version \in Nat
      BY <1>1, <2>2 DEF Directory, Record
    <3> QED BY <2>2, <3>1 DEF Holds
  <2> QED BY <2>1, <2>2
<1> QED
  BY <1>2, <1>3, <1>4 DEF SurvivorsOK, RowsOK, Holds

-----------------------------------------------------------------------------
(* The directory as it is *)

LEMMA DiskFacts ==
  ASSUME FilesInv
  PROVE /\ disk \in surviving /\ disk \in Directory /\ RowsOK(disk)
        /\ disk.rows \in [Name -> SUBSET Record] /\ disk.log \in SUBSET Batch
        /\ \A n \in Name : \A v \in confirmed[n] : Holds(disk, n, v)
        /\ \A n \in Name : disk.rows[n] = {} => confirmed[n] = {}
  BY DEF FilesInv, FilesTypeOK, SurvivorsOK, Holds, Directory

(* The records that batches and insertions write are records. *)
LEMMA NewRows ==
  /\ \A b \in Batch, n \in Name : Listed(b, n) \in SUBSET Record /\ Listed(b, n) # {}
  /\ \A n \in Name : Alone(n) \in SUBSET Record
  BY DEF Listed, Alone, Record

LEMMA BeginKeeps ==
  ASSUME FilesInv, Begin
  PROVE FilesInv'
<1>1. PICK kind \in Kinds, on \in Batch \cup Name \cup {"none"} :
        /\ exclusive(kind, on)
        /\ kind = "batch" => on \in Batch
        /\ kind = "insert" => on \in Single
        /\ kind = "replace" => on \in Name \ Slot
  BY FilesAssumption DEF Begin, shared, Kinds
<1>2. UNCHANGED <<disk, surviving, ordered, confirmed>>
  BY <1>1 DEF exclusive, Quiet
<1>3. /\ doing'.kind = kind /\ doing'.on = on
      /\ doing'.pc = IF disk.log = {} THEN "work" ELSE "recover"
      /\ doing' \in [kind : Kinds, on : Batch \cup Name \cup {"none"}, pc : Steps]
  BY <1>1 DEF exclusive, Steps
<1>4. DoingOK'
  BY <1>1, <1>3 DEF DoingOK, Inserting
<1>5. StepOK'
  BY <1>2, <1>3 DEF StepOK
<1> QED
  BY <1>2, <1>4, <1>5 DEF FilesInv, FilesTypeOK, SurvivorsOK, RowsOK, Holds

LEMMA IdleKeeps ==
  ASSUME FilesInv, doing' = Idle
  PROVE DoingOK' /\ StepOK'
<1>1. DoingOK'
  BY DEF DoingOK, Idle, Kinds, Steps, Inserting
<1>2. StepOK'
  BY DEF StepOK, Idle
<1> QED BY <1>1, <1>2

LEMMA GoFacts ==
  ASSUME FilesInv, NEW pc \in Steps, Go(pc)
  PROVE /\ doing'.kind = doing.kind /\ doing'.on = doing.on /\ doing'.pc = pc
        /\ doing' \in [kind : Kinds, on : Batch \cup Name \cup {"none"}, pc : Steps]
  BY DEF FilesInv, FilesTypeOK, DoingOK, Go

-----------------------------------------------------------------------------
(* The rollback: what it deletes was never acknowledged. *)

LEMMA DeleteTargetKeeps ==
  ASSUME FilesInv, DeleteTarget
  PROVE FilesInv'
<1>1. PICK n \in Left : PutRow(n, {})
  BY DEF DeleteTarget
<1>2. n \in Name /\ UNCHANGED <<doing, confirmed, ordered>> /\ doing.pc = "recover"
  BY DEF DeleteTarget, Quiet, Left
<1>3. confirmed[n] = {}
  <2>1. PICK b \in disk.log : disk.rows[n] = Listed(b, n)
    BY DEF Left
  <2>2. ASSUME NEW v \in confirmed[n] PROVE FALSE
    BY <1>2, <2>1, DiskFacts DEF Holds, Listed
  <2> QED BY <2>2
<1>4. SurvivorsOK'
  BY <1>1, <1>2, <1>3, RowKeeps
<1>5. disk' \in surviving' /\ surviving' \subseteq Directory
  BY Zenon, <1>1, <1>2, RowChange
<1>6. DoingOK' /\ StepOK'
  BY <1>2 DEF FilesInv, FilesTypeOK, DoingOK, StepOK
<1> QED
  BY <1>2, <1>4, <1>5, <1>6 DEF FilesInv, FilesTypeOK

LEMMA TargetsDeletedKeeps ==
  ASSUME FilesInv, TargetsDeleted
  PROVE FilesInv'
<1>1. UNCHANGED <<disk, confirmed, ordered>> /\ surviving' = {disk} /\ Go("rolled") /\ sync_root
  BY DEF TargetsDeleted, Quiet, sync_root
<1>2. Left' = {}
  BY <1>1 DEF TargetsDeleted, Left
<1>3. doing'.pc = "rolled" /\ DoingOK'
  BY <1>1, GoFacts DEF Steps, DoingOK, FilesInv, FilesTypeOK, Inserting
<1>4. StepOK'
  BY <1>2, <1>3 DEF StepOK
<1>5. SurvivorsOK'
  BY <1>1, SyncKeeps
<1> QED
  BY <1>1, <1>3, <1>4, <1>5, DiskFacts DEF FilesInv, FilesTypeOK

LEMMA DeleteBatchFileKeeps ==
  ASSUME FilesInv, DeleteBatchFile
  PROVE FilesInv'
<1>1. UNCHANGED <<confirmed, ordered>> /\ Go("cleared") /\ PutLog({})
  BY DEF DeleteBatchFile, Quiet
<1>2. disk' \in surviving' /\ surviving' \subseteq Directory /\ disk'.log = {}
  BY <1>1, LogChange
<1>3. doing'.pc = "cleared" /\ DoingOK'
  BY <1>1, GoFacts DEF Steps, DoingOK, FilesInv, FilesTypeOK, Inserting
<1>4. StepOK'
  BY <1>2, <1>3 DEF StepOK
<1>5. SurvivorsOK'
  BY <1>1, LogKeeps
<1> QED
  BY <1>1, <1>2, <1>3, <1>4, <1>5 DEF FilesInv, FilesTypeOK

LEMMA RecoveredKeeps ==
  ASSUME FilesInv, Recovered
  PROVE FilesInv'
<1>1. UNCHANGED <<disk, confirmed, ordered>> /\ surviving' = {disk} /\ sync_root
  BY DEF Recovered, Quiet, sync_root
<1>2. disk.log = {}
  BY DEF Recovered, FilesInv, StepOK
<1>3. DoingOK' /\ StepOK'
  <2>1. CASE doing' = Idle
    BY <2>1, IdleKeeps
  <2>2. CASE Go("work")
    <3>1. doing'.pc = "work" /\ DoingOK'
      BY <2>2, GoFacts DEF Steps, DoingOK, FilesInv, FilesTypeOK, Inserting
    <3> QED BY <1>1, <1>2, <3>1 DEF StepOK
  <2> QED BY <2>1, <2>2 DEF Recovered
<1>4. SurvivorsOK'
  BY <1>1, SyncKeeps
<1> QED
  BY <1>1, <1>3, <1>4, DiskFacts DEF FilesInv, FilesTypeOK

-----------------------------------------------------------------------------
(* A batch: none of its names is acknowledged before the last step. *)

LEMMA BatchFacts ==
  ASSUME FilesInv, doing.kind = "batch"
  PROVE doing.on \in Batch /\ Targets[doing.on] \subseteq Name
  BY FilesAssumption DEF FilesInv, FilesTypeOK, DoingOK

LEMMA InstallBatchKeeps ==
  ASSUME FilesInv, InstallBatch
  PROVE FilesInv'
<1> DEFINE b == doing.on
<1>1. /\ UNCHANGED <<confirmed, ordered>> /\ Go("logged") /\ PutLog({b})
      /\ doing.kind = "batch" /\ \A n \in Targets[b] : disk.rows[n] = {}
  BY DEF InstallBatch, Quiet, At
<1>2. b \in Batch /\ Targets[b] \subseteq Name
  BY <1>1, BatchFacts
<1>3. /\ disk' \in surviving' /\ surviving' \subseteq Directory
      /\ disk'.log = {b} /\ disk'.rows = disk.rows
  BY <1>1, <1>2, LogChange
<1>4. /\ doing'.pc = "logged" /\ doing'.on = b /\ doing'.kind = "batch"
      /\ doing' \in [kind : Kinds, on : Batch \cup Name \cup {"none"}, pc : Steps]
  BY <1>1, GoFacts DEF Steps, Inserting
<1>5. DoingOK'
  BY <1>2, <1>4 DEF DoingOK
<1>6. StepOK'
  BY <1>1, <1>3, <1>4 DEF StepOK
<1>7. ASSUME NEW n \in Name, NEW w \in confirmed[n], w.of = b PROVE FALSE
  <2>1. PICK u \in disk.rows[n] : u.of = b
    BY <1>7, DiskFacts DEF Holds
  <2>2. n \in Targets[b]
    BY <1>2, <2>1, DiskFacts DEF RowsOK
  <2> QED BY <1>1, <2>1, <2>2
<1>8. SurvivorsOK'
  BY <1>1, <1>2, <1>7, LogKeeps
<1> QED
  BY <1>1, <1>3, <1>5, <1>6, <1>8 DEF FilesInv, FilesTypeOK

LEMMA BatchIsDurableKeeps ==
  ASSUME FilesInv, BatchIsDurable
  PROVE FilesInv'
<1>1. /\ UNCHANGED <<disk, confirmed, ordered>> /\ surviving' = {disk} /\ sync_root
      /\ Go("targets") /\ doing.pc = "logged"
  BY DEF BatchIsDurable, Quiet, sync_root
<1>2. doing'.pc = "targets" /\ doing'.on = doing.on /\ DoingOK'
  BY <1>1, GoFacts DEF Steps, DoingOK, FilesInv, FilesTypeOK, Inserting
<1>3. StepOK'
  BY <1>1, <1>2 DEF FilesInv, StepOK
<1>4. SurvivorsOK'
  BY <1>1, SyncKeeps
<1> QED
  BY <1>1, <1>2, <1>3, <1>4, DiskFacts DEF FilesInv, FilesTypeOK

LEMMA InstallTargetKeeps ==
  ASSUME FilesInv, InstallTarget
  PROVE FilesInv'
<1> DEFINE b == doing.on
<1>1. /\ UNCHANGED <<doing, confirmed, ordered>> /\ doing.pc = "targets"
  BY DEF InstallTarget, Quiet
<1>2. b \in Batch /\ Targets[b] \subseteq Name
  BY <1>1, BatchFacts DEF FilesInv, FilesTypeOK, DoingOK, Inserting
<1>3. PICK n \in Targets[b] : disk.rows[n] = {} /\ PutRow(n, Listed(b, n))
  BY DEF InstallTarget
<1>4. n \in Name /\ confirmed[n] = {} /\ Listed(b, n) \in SUBSET Record
  BY <1>2, <1>3, DiskFacts, NewRows
<1>5. \A u \in Listed(b, n) : u.of = b
  BY DEF Listed
<1>6. \A u, w \in Listed(b, n) : u = w
  BY DEF Listed
<1>7. SurvivorsOK'
  BY <1>1, <1>3, <1>4, <1>5, <1>6, RowKeeps
<1>8. /\ disk' \in surviving' /\ surviving' \subseteq Directory
      /\ disk'.log = disk.log /\ disk'.rows = [disk.rows EXCEPT ![n] = Listed(b, n)]
  BY <1>3, <1>4, RowChange
<1>9. StepOK'
  <2>1. \A m \in Targets[b] : disk.rows[m] = {} \/ disk.rows[m] = Listed(b, m)
    BY <1>1 DEF FilesInv, StepOK
  <2>2. \A m \in Targets[b] : disk'.rows[m] = {} \/ disk'.rows[m] = Listed(b, m)
    BY <1>2, <1>8, <2>1, DiskFacts
  <2> QED
    BY <1>1, <1>8, <2>2 DEF FilesInv, StepOK
<1> QED
  BY <1>1, <1>7, <1>8, <1>9 DEF FilesInv, FilesTypeOK, DoingOK

LEMMA TargetsAreDurableKeeps ==
  ASSUME FilesInv, TargetsAreDurable
  PROVE FilesInv'
<1>1. /\ UNCHANGED <<disk, confirmed, ordered>> /\ surviving' = {disk} /\ sync_root
      /\ Go("commit") /\ doing.pc = "targets"
      /\ \A n \in Targets[doing.on] : disk.rows[n] # {}
  BY DEF TargetsAreDurable, Quiet, sync_root
<1>2. doing'.pc = "commit" /\ doing'.on = doing.on /\ DoingOK'
  BY <1>1, GoFacts DEF Steps, DoingOK, FilesInv, FilesTypeOK, Inserting
<1>3. \A n \in Targets[doing.on] : disk.rows[n] = Listed(doing.on, n)
  BY <1>1 DEF FilesInv, StepOK
<1>4. StepOK'
  BY <1>1, <1>2, <1>3 DEF FilesInv, StepOK
<1>5. SurvivorsOK'
  BY <1>1, SyncKeeps
<1> QED
  BY <1>1, <1>2, <1>4, <1>5, DiskFacts DEF FilesInv, FilesTypeOK

LEMMA CommitBatchKeeps ==
  ASSUME FilesInv, CommitBatch
  PROVE FilesInv'
<1>1. UNCHANGED <<confirmed, ordered>> /\ Go("committed") /\ PutLog({}) /\ doing.pc = "commit"
  BY DEF CommitBatch, Quiet
<1>2. /\ disk' \in surviving' /\ surviving' \subseteq Directory
      /\ disk'.log = {} /\ disk'.rows = disk.rows
  BY <1>1, LogChange
<1>3. doing'.pc = "committed" /\ doing'.on = doing.on /\ DoingOK'
  BY <1>1, GoFacts DEF Steps, DoingOK, FilesInv, FilesTypeOK, Inserting
<1>4. StepOK'
  BY <1>1, <1>2, <1>3 DEF FilesInv, StepOK
<1>5. SurvivorsOK'
  BY <1>1, LogKeeps
<1> QED
  BY <1>1, <1>2, <1>3, <1>4, <1>5 DEF FilesInv, FilesTypeOK

(* The operation returns with success: the directory is certain and has no *)
(* batch file, so what it holds may be acknowledged.                       *)
LEMMA Acknowledges ==
  ASSUME FilesInv, sync_root, doing' = Idle, UNCHANGED ordered, disk.log = {},
         confirmed' \in [Name -> SUBSET Record],
         \A n \in Name : confirmed'[n] = confirmed[n] \/ confirmed'[n] = disk.rows[n]
  PROVE FilesInv'
<1>1. UNCHANGED disk /\ surviving' = {disk}
  BY DEF sync_root
<1>2. SurvivorsOK'
  BY SyncKeeps
<1> QED
  BY <1>1, <1>2, IdleKeeps, DiskFacts DEF FilesInv, FilesTypeOK

LEMMA InsertedKeeps ==
  ASSUME FilesInv, Inserted
  PROVE FilesInv'
<1>1. disk.log = {}
  BY DEF Inserted, FilesInv, StepOK
<1>2. /\ confirmed' \in [Name -> SUBSET Record]
      /\ \A n \in Name : confirmed'[n] = confirmed[n] \/ confirmed'[n] = disk.rows[n]
  BY DiskFacts DEF Inserted, FilesInv, FilesTypeOK
<1> QED
  BY <1>1, <1>2, Acknowledges DEF Inserted

LEMMA WrittenKeeps ==
  ASSUME FilesInv, Written
  PROVE FilesInv'
<1>1. disk.log = {} /\ doing.on \in Name
  BY FilesAssumption DEF Written, FilesInv, StepOK, FilesTypeOK, DoingOK
<1>2. /\ confirmed' \in [Name -> SUBSET Record]
      /\ \A n \in Name : confirmed'[n] = confirmed[n] \/ confirmed'[n] = disk.rows[n]
  BY <1>1, DiskFacts DEF Written, FilesInv, FilesTypeOK
<1> QED
  BY <1>1, <1>2, Acknowledges DEF Written

-----------------------------------------------------------------------------
(* Writes of one record, the sweep and the faults *)

(* A write replaces a record by one that carries on what was acknowledged. *)
LEMMA WriteKeeps ==
  ASSUME FilesInv, NEW n \in Name, NEW v \in SUBSET Record, PutRow(n, v),
         Go("written"), doing.pc = "work", doing.kind \in {"insert", "replace"},
         UNCHANGED <<confirmed, ordered>>,
         \A u, w \in v : u = w,
         \A u \in v : u.of \in Batch => n \in Targets[u.of],
         \A w \in confirmed[n] : \E u \in v : u.of = w.of /\ u.version >= w.version
  PROVE FilesInv'
<1>1. SurvivorsOK'
  BY RowKeeps
<1>2. disk' \in surviving' /\ surviving' \subseteq Directory /\ disk'.log = disk.log
  BY Zenon, RowChange
<1>3. doing'.pc = "written" /\ DoingOK'
  BY GoFacts DEF Steps, DoingOK, FilesInv, FilesTypeOK, Inserting
<1>4. StepOK'
  BY <1>2, <1>3 DEF FilesInv, StepOK
<1> QED
  BY <1>1, <1>2, <1>3, <1>4 DEF FilesInv, FilesTypeOK

LEMMA InsertKeeps ==
  ASSUME FilesInv, Insert
  PROVE FilesInv'
<1> DEFINE n == doing.on
<1>1. n \in Name /\ doing.kind = "insert" /\ doing.pc = "work"
  BY FilesAssumption DEF Insert, At, FilesInv, FilesTypeOK, DoingOK
<1>2. confirmed[n] = {} /\ Alone(n) \in SUBSET Record
  BY <1>1, DiskFacts, NewRows DEF Insert
<1>3. \A u \in Alone(n) : u.of \notin Batch
  BY <1>1, FilesAssumption DEF Alone
<1>4. \A u, w \in Alone(n) : u = w
  BY DEF Alone
<1> QED
  BY <1>1, <1>2, <1>3, <1>4, WriteKeeps DEF Insert, Quiet

LEMMA ReplaceKeeps ==
  ASSUME FilesInv, Replace
  PROVE FilesInv'
<1> DEFINE n == doing.on
           Next(u) == [u EXCEPT !.version = @ + 1]
<1>1. n \in Name /\ doing.kind = "replace" /\ doing.pc = "work"
  BY DEF Replace, At, FilesInv, FilesTypeOK, DoingOK
<1>2. PICK u \in disk.rows[n] : PutRow(n, {Next(u)})
  BY Zenon DEF Replace
<1>3. u \in Record
  BY <1>1, DiskFacts
<1>4. Next(u) \in Record /\ Next(u).of = u.of /\ Next(u).version >= u.version
  BY <1>3 DEF Record
<1>5. u.of \in Batch => n \in Targets[u.of]
  BY <1>1, DiskFacts DEF RowsOK
<1>6. ASSUME NEW w \in confirmed[n] PROVE Next(u).of = w.of /\ Next(u).version >= w.version
  <2>1. u.of = w.of /\ u.version >= w.version
    BY <1>1, DiskFacts DEF Holds, RowsOK
  <2>2. w.version \in Nat /\ u.version \in Nat /\ Next(u).version \in Nat
    BY <1>1, <1>3, <1>4 DEF FilesInv, FilesTypeOK, Record
  <2> HIDE DEF Next
  <2> QED BY <1>4, <2>1, <2>2
<1> HIDE DEF Next
<1>7. /\ {Next(u)} \in SUBSET Record
      /\ \A x, y \in {Next(u)} : x = y
      /\ \A x \in {Next(u)} : x.of \in Batch => n \in Targets[x.of]
      /\ \A w \in confirmed[n] : \E x \in {Next(u)} : x.of = w.of /\ x.version >= w.version
  BY <1>4, <1>5, <1>6
<1>8. Go("written") /\ UNCHANGED <<confirmed, ordered>>
  BY DEF Replace, Quiet
<1> QED
  BY <1>1, <1>2, <1>7, <1>8, WriteKeeps

LEMMA RemoveExpiredKeeps ==
  ASSUME FilesInv, RemoveExpired
  PROVE FilesInv'
<1>1. PICK n \in Slot : PutRow(n, {}) /\ confirmed' = [confirmed EXCEPT ![n] = {}]
  BY Zenon DEF RemoveExpired
<1>2. n \in Name /\ UNCHANGED ordered /\ Go("swept") /\ doing.pc \in {"work", "swept"}
  BY FilesAssumption DEF RemoveExpired, At
<1>3. confirmed' \in [Name -> SUBSET Record] /\ confirmed'[n] = {}
  BY <1>1, <1>2 DEF FilesInv, FilesTypeOK
<1>4. SurvivorsOK'
  BY Zenon, <1>1, <1>2, <1>3, RowKeeps
<1>5. disk' \in surviving' /\ surviving' \subseteq Directory /\ disk'.log = disk.log
  BY Zenon, <1>1, <1>2, RowChange
<1>6. doing'.pc = "swept" /\ DoingOK'
  BY <1>2, GoFacts DEF Steps, DoingOK, FilesInv, FilesTypeOK, Inserting
<1>7. StepOK'
  BY <1>2, <1>5, <1>6 DEF FilesInv, StepOK
<1> QED
  BY <1>2, <1>3, <1>4, <1>5, <1>6, <1>7 DEF FilesInv, FilesTypeOK

LEMMA SweptKeeps ==
  ASSUME FilesInv, Swept
  PROVE FilesInv'
<1>1. disk.log = {}
  BY DEF Swept, FilesInv, StepOK
<1>2. UNCHANGED <<confirmed, ordered>> /\ confirmed' \in [Name -> SUBSET Record]
  BY DEF Swept, Quiet, FilesInv, FilesTypeOK
<1> QED
  BY <1>1, <1>2, Acknowledges DEF Swept

(* A refused or interrupted operation leaves the directory as it is. *)
LEMMA StopKeeps ==
  ASSUME FilesInv, doing' = Idle, UNCHANGED <<disk, surviving, ordered, confirmed>>
  PROVE FilesInv'
  BY IdleKeeps DEF FilesInv, FilesTypeOK, SurvivorsOK, RowsOK, Holds

LEMMA HostStopsKeeps ==
  ASSUME FilesInv, HostStops
  PROVE FilesInv'
<1>1. /\ disk' \in surviving /\ surviving' = {disk'} /\ UNCHANGED <<ordered, confirmed>>
      /\ doing' = Idle
  BY DEF HostStops
<1>2. SurvivorsOK'
  BY <1>1 DEF FilesInv, SurvivorsOK, RowsOK, Holds
<1> QED
  BY <1>1, <1>2, IdleKeeps DEF FilesInv, FilesTypeOK

-----------------------------------------------------------------------------
(* The invariant *)

LEMMA NextFiles ==
  FilesInv /\ [FilesNext]_files => FilesInv'
<1> SUFFICES ASSUME FilesInv, [FilesNext]_files PROVE FilesInv'
  OBVIOUS
<1>1. CASE Begin
  BY <1>1, BeginKeeps
<1>2. CASE Rollback
  BY <1>2, DeleteTargetKeeps, TargetsDeletedKeeps, DeleteBatchFileKeeps, RecoveredKeeps
     DEF Rollback
<1>3. CASE Refused
  BY <1>3, StopKeeps DEF Refused, Quiet
<1>4. CASE insert_batch_locked
  BY <1>4, InstallBatchKeeps, BatchIsDurableKeeps, InstallTargetKeeps,
     TargetsAreDurableKeeps, CommitBatchKeeps, InsertedKeeps DEF insert_batch_locked
<1>5. CASE Insert \/ Replace \/ Written
  BY <1>5, InsertKeeps, ReplaceKeeps, WrittenKeeps
<1>6. CASE RemoveExpired \/ Swept
  BY <1>6, RemoveExpiredKeeps, SweptKeeps
<1>7. CASE Interrupted
  BY <1>7, StopKeeps DEF Interrupted
<1>8. CASE HostStops
  BY <1>8, HostStopsKeeps
<1>9. CASE UNCHANGED files
  BY <1>9 DEF files, FilesInv, FilesTypeOK, DoingOK, SurvivorsOK, RowsOK, Holds, StepOK, Left
<1> QED
  BY <1>1, <1>2, <1>3, <1>4, <1>5, <1>6, <1>7, <1>8, <1>9 DEF FilesNext

LEMMA FilesInvariant ==
  FilesSpec => []FilesInv
<1> QED
  BY InitFiles, NextFiles, PTL DEF FilesSpec

(* FileGatewayAttemptStore never takes back an insertion or a replacement  *)
(* it acknowledged, whatever fails or stops and in whatever order the      *)
(* directory changes since the last sync reach the disk.                   *)
THEOREM AcknowledgedRecordsStay ==
  FilesSpec => []ConfirmedStays
<1>1. FilesInv => ConfirmedStays
  <2> SUFFICES ASSUME FilesInv, NEW d \in surviving, NEW n \in Name, NEW v \in confirmed[n]
               PROVE \E u \in Rolled(d)[n] : u.of = v.of /\ u.version >= v.version
    BY DiskFacts DEF ConfirmedStays
  <2>1. Holds(d, n, v)
    BY DEF FilesInv, SurvivorsOK
  <2>2. ~ \E b \in d.log : d.rows[n] = Listed(b, n)
    BY <2>1 DEF Holds, Listed
  <2>3. Rolled(d)[n] = d.rows[n]
    BY <2>2 DEF Rolled
  <2> QED
    BY <2>1, <2>3 DEF Holds
<1> QED
  BY <1>1, FilesInvariant, PTL

-----------------------------------------------------------------------------
(* The refinement *)

(* A change of the directory that a reader does not see is no step of      *)
(* AtomicRecords; one it sees is the change it sees.                       *)
LEMMA ChangeMaps ==
  ASSUME FilesInv, ordered, UNCHANGED ordered, surviving' = surviving \cup {disk'}
  PROVE /\ Rolled(disk') = Rolled(disk) => UNCHANGED Records!records
        /\ Records!Change(Rolled(disk'))
<1> DEFINE K == {Rolled(d) : d \in surviving}
<1>1. {Rolled(d) : d \in surviving'} = K \cup {Rolled(disk')}
  OBVIOUS
<1>2. Rolled(disk) \in K
  BY DiskFacts
<1> HIDE DEF K
<1>3. Records!Change(Rolled(disk'))
  BY <1>1 DEF K, Records!Change
<1>4. ASSUME Rolled(disk') = Rolled(disk) PROVE UNCHANGED Records!records
  <2>1. {Rolled(d) : d \in surviving'} = K
    BY <1>1, <1>2, <1>4
  <2> QED
    BY <1>4, <2>1 DEF K, Records!records
<1> QED
  BY <1>3, <1>4

LEMMA SyncMaps ==
  ASSUME ordered, UNCHANGED ordered, sync_root
  PROVE Records!Flush
<1>1. {Rolled(d) : d \in {disk}} = {Rolled(disk)}
  OBVIOUS
<1> QED
  BY <1>1 DEF sync_root, Records!Flush

(* Without a batch file, or with one that lists nothing present, a reader  *)
(* sees the records as they are.                                           *)
LEMMA RolledPlain ==
  ASSUME NEW d \in Directory,
         \A n \in Name : ~ \E b \in d.log : n \in Targets[b] /\ d.rows[n] = Listed(b, n)
  PROVE Rolled(d) = d.rows
  BY DEF Rolled, Directory

(* A put on an ordered file system adds one directory to the survivors. *)
LEMMA OrderedPut ==
  ASSUME ordered
  PROVE /\ \A n, v : PutRow(n, v) => surviving' = surviving \cup {disk'}
        /\ \A l : PutLog(l) => surviving' = surviving \cup {disk'}
  BY DEF PutRow, PutLog

LEMMA DeleteTargetMaps ==
  ASSUME FilesInv, ordered, DeleteTarget
  PROVE UNCHANGED Records!records
<1>1. PICK n \in Left : PutRow(n, {})
  BY DEF DeleteTarget
<1>2. n \in Name /\ UNCHANGED ordered
  BY DEF Left, DeleteTarget, Quiet
<1>3. disk'.log = disk.log /\ disk'.rows = [disk.rows EXCEPT ![n] = {}]
  BY <1>1, <1>2, RowChange
<1>4. Rolled(disk') = Rolled(disk)
  <2>1. \A m \in Name : m # n => disk'.rows[m] = disk.rows[m]
    BY <1>3, DiskFacts
  <2>2. disk'.rows[n] = {}
    BY <1>2, <1>3, DiskFacts
  <2>3. \A m \in Name : Rolled(disk')[m] = Rolled(disk)[m]
    BY <1>3, <2>1, <2>2 DEF Rolled, Left
  <2> QED BY <2>3 DEF Rolled
<1> QED
  BY <1>1, <1>2, <1>4, OrderedPut, ChangeMaps

LEMMA DeleteBatchFileMaps ==
  ASSUME FilesInv, ordered, DeleteBatchFile
  PROVE UNCHANGED Records!records
<1>1. PutLog({}) /\ UNCHANGED ordered /\ Left = {}
  BY DEF DeleteBatchFile, Quiet, FilesInv, StepOK
<1>2. disk' \in Directory /\ disk'.log = {} /\ disk'.rows = disk.rows
  BY <1>1, LogChange
<1>3. Rolled(disk) = disk.rows
  BY <1>1, RolledPlain, DiskFacts DEF Left
<1>4. Rolled(disk') = disk'.rows
  BY <1>2, RolledPlain
<1> QED
  BY <1>1, <1>2, <1>3, <1>4, OrderedPut, ChangeMaps

LEMMA InstallBatchMaps ==
  ASSUME FilesInv, ordered, InstallBatch
  PROVE UNCHANGED Records!records
<1> DEFINE b == doing.on
<1>1. /\ PutLog({b}) /\ UNCHANGED ordered /\ disk.log = {}
      /\ doing.kind = "batch" /\ \A n \in Targets[b] : disk.rows[n] = {}
  BY DEF InstallBatch, Quiet, At
<1>2. b \in Batch /\ Targets[b] \subseteq Name
  BY <1>1, BatchFacts
<1>3. disk' \in Directory /\ disk'.log = {b} /\ disk'.rows = disk.rows
  BY <1>1, <1>2, LogChange
<1>4. Rolled(disk) = disk.rows
  BY <1>1, RolledPlain, DiskFacts
<1>5. Rolled(disk') = disk'.rows
  BY <1>1, <1>2, <1>3, RolledPlain, NewRows
<1> QED
  BY <1>1, <1>3, <1>4, <1>5, OrderedPut, ChangeMaps

LEMMA InstallTargetMaps ==
  ASSUME FilesInv, ordered, InstallTarget
  PROVE UNCHANGED Records!records
<1> DEFINE b == doing.on
<1>1. doing.pc = "targets" /\ UNCHANGED ordered /\ disk.log = {b}
  BY DEF InstallTarget, Quiet, FilesInv, StepOK
<1>2. b \in Batch /\ Targets[b] \subseteq Name
  BY <1>1, BatchFacts DEF FilesInv, FilesTypeOK, DoingOK, Inserting
<1>3. PICK n \in Targets[b] : disk.rows[n] = {} /\ PutRow(n, Listed(b, n))
  BY DEF InstallTarget
<1>4. disk'.log = {b} /\ disk'.rows = [disk.rows EXCEPT ![n] = Listed(b, n)]
  BY <1>1, <1>2, <1>3, RowChange, NewRows
<1>5. Rolled(disk') = Rolled(disk)
  <2>1. \A m \in Name : m # n => disk'.rows[m] = disk.rows[m]
    BY <1>4, DiskFacts
  <2>2. disk'.rows[n] = Listed(b, n)
    BY <1>2, <1>3, <1>4, DiskFacts
  <2>3. \A m \in Name : Rolled(disk')[m] = Rolled(disk)[m]
    BY <1>1, <1>2, <1>3, <1>4, <2>1, <2>2 DEF Rolled
  <2> QED BY <2>3 DEF Rolled
<1> QED
  BY <1>1, <1>3, <1>5, OrderedPut, ChangeMaps

(* The deletion of the batch file is the step that inserts the batch. *)
LEMMA CommitBatchMaps ==
  ASSUME FilesInv, ordered, CommitBatch
  PROVE \E b \in Batch : Records!InsertAll(b)
<1> DEFINE b == doing.on
<1>1. /\ PutLog({}) /\ UNCHANGED ordered /\ disk.log = {b}
      /\ \A n \in Targets[b] : disk.rows[n] = Listed(b, n)
  BY DEF CommitBatch, Quiet, FilesInv, StepOK
<1>2. b \in Batch /\ Targets[b] \subseteq Name
  BY BatchFacts DEF CommitBatch, FilesInv, FilesTypeOK, DoingOK, Inserting
<1>3. disk' \in Directory /\ disk'.log = {} /\ disk'.rows = disk.rows
  BY <1>1, LogChange
<1>4. Rolled(disk') = disk.rows
  BY <1>3, RolledPlain
<1>5. \A n \in Name : Rolled(disk)[n] = IF n \in Targets[b] THEN {} ELSE disk.rows[n]
  BY <1>1 DEF Rolled
<1>6. disk.rows = [n \in Name |-> IF n \in Targets[b] THEN Listed(b, n) ELSE Rolled(disk)[n]]
  BY <1>1, <1>5, DiskFacts
<1>7. Records!Change(disk.rows)
  BY <1>1, <1>4, OrderedPut, ChangeMaps
<1>8. \A n \in Name : Records!Listed(b, n) = Listed(b, n)
  BY DEF Records!Listed, Listed
<1>9. [n \in Name |-> IF n \in Targets[b] THEN Records!Listed(b, n) ELSE Rolled(disk)[n]] = disk.rows
  BY <1>6, <1>8
<1>10. Records!InsertAll(b)
  BY <1>2, <1>5, <1>7, <1>9 DEF Records!InsertAll
<1> QED
  BY <1>2, <1>10

(* With no batch file a reader sees a change of one row as it is made. *)
LEMMA RowMaps ==
  ASSUME FilesInv, ordered, UNCHANGED ordered, disk.log = {},
         NEW n \in Name, NEW v \in SUBSET Record, PutRow(n, v)
  PROVE /\ Rolled(disk) = disk.rows
        /\ Records!Change([Rolled(disk) EXCEPT ![n] = v])
<1>1. disk' \in Directory /\ disk'.log = {} /\ disk'.rows = [disk.rows EXCEPT ![n] = v]
  BY RowChange
<1>2. Rolled(disk) = disk.rows
  BY RolledPlain, DiskFacts
<1>3. Rolled(disk') = disk'.rows
  BY <1>1, RolledPlain
<1>4. Rolled(disk') = [Rolled(disk) EXCEPT ![n] = v]
  BY <1>1, <1>2, <1>3
<1>5. Records!Change(Rolled(disk'))
  BY OrderedPut, ChangeMaps
<1> QED
  BY <1>2, <1>4, <1>5

LEMMA InsertMaps ==
  ASSUME FilesInv, ordered, Insert
  PROVE \E n \in Single : Records!Insert(n)
<1> DEFINE n == doing.on
<1>1. n \in Single /\ n \in Name /\ disk.log = {} /\ UNCHANGED ordered
  BY FilesAssumption DEF Insert, At, Quiet, FilesInv, FilesTypeOK, DoingOK, StepOK
<1>2. disk.rows[n] = {} /\ PutRow(n, Alone(n))
  BY DEF Insert
<1>3. Rolled(disk) = disk.rows /\ Records!Change([Rolled(disk) EXCEPT ![n] = Alone(n)])
  BY <1>1, <1>2, RowMaps, NewRows
<1>4. Records!Alone(n) = Alone(n)
  BY DEF Records!Alone, Alone
<1>5. Records!Insert(n)
  BY <1>2, <1>3, <1>4 DEF Records!Insert
<1> QED
  BY <1>1, <1>5

LEMMA ReplaceMaps ==
  ASSUME FilesInv, ordered, Replace
  PROVE \E n \in Name \ Slot : Records!Replace(n)
<1> DEFINE n == doing.on
           Next(u) == [u EXCEPT !.version = @ + 1]
<1>1. n \in Name \ Slot /\ disk.log = {} /\ UNCHANGED ordered
  BY DEF Replace, At, Quiet, FilesInv, FilesTypeOK, DoingOK, StepOK
<1>2. PICK u \in disk.rows[n] : PutRow(n, {Next(u)})
  BY DEF Replace
<1>3. u \in Record
  BY <1>1, DiskFacts
<1>4. {Next(u)} \in SUBSET Record
  BY <1>3 DEF Record
<1>5. Rolled(disk) = disk.rows /\ Records!Change([Rolled(disk) EXCEPT ![n] = {Next(u)}])
  <2> HIDE DEF Next
  <2> QED BY <1>1, <1>2, <1>4, RowMaps
<1>6. Records!Replace(n)
  BY Zenon, <1>2, <1>5 DEF Records!Replace
<1> QED
  BY <1>1, <1>6

LEMMA RemoveExpiredMaps ==
  ASSUME FilesInv, ordered, RemoveExpired
  PROVE \E n \in Slot : Records!Expire(n)
<1>1. PICK n \in Slot : disk.rows[n] # {} /\ PutRow(n, {})
  BY DEF RemoveExpired
<1>2. n \in Name /\ disk.log = {} /\ UNCHANGED ordered
  BY FilesAssumption DEF RemoveExpired, At, FilesInv, StepOK
<1>3. Rolled(disk) = disk.rows /\ Records!Change([Rolled(disk) EXCEPT ![n] = {}])
  BY <1>1, <1>2, RowMaps
<1>4. Records!Expire(n)
  BY <1>1, <1>3 DEF Records!Expire
<1> QED
  BY <1>1, <1>4

LEMMA HostStopsMaps ==
  ASSUME ordered, HostStops
  PROVE Records!Lose
<1>1. disk' \in surviving /\ surviving' = {disk'} /\ UNCHANGED ordered
  BY DEF HostStops
<1>2. {Rolled(d) : d \in {disk'}} = {Rolled(disk')}
  OBVIOUS
<1> QED
  BY <1>1, <1>2 DEF Records!Lose

(* Every step of the files is a step of AtomicRecords or none. *)
LEMMA StepMaps ==
  ASSUME FilesInv, [FilesNext]_files
  PROVE [Records!RecordsNext]_(Records!records)
<1>1. CASE UNCHANGED <<disk, surviving, ordered>>
  BY <1>1 DEF Records!records
<1>2. CASE ~ordered /\ UNCHANGED ordered
  BY <1>2 DEF Records!records
<1>3. CASE ordered
  <2>1. CASE sync_root /\ UNCHANGED ordered
    BY <1>3, <2>1, SyncMaps DEF Records!RecordsNext
  <2>2. CASE DeleteTarget \/ DeleteBatchFile \/ InstallBatch \/ InstallTarget
    BY <1>3, <2>2, DeleteTargetMaps, DeleteBatchFileMaps, InstallBatchMaps, InstallTargetMaps
  <2>3. CASE CommitBatch
    BY <1>3, <2>3, CommitBatchMaps DEF Records!RecordsNext
  <2>4. CASE Insert \/ Replace \/ RemoveExpired
    BY <1>3, <2>4, InsertMaps, ReplaceMaps, RemoveExpiredMaps DEF Records!RecordsNext
  <2>5. CASE HostStops
    BY <1>3, <2>5, HostStopsMaps DEF Records!RecordsNext
  <2>6. CASE Begin \/ Refused \/ Interrupted \/ UNCHANGED files
    BY <1>1, <2>6 DEF Begin, shared, exclusive, Refused, Interrupted, Quiet, files
  <2>7. CASE \/ TargetsDeleted \/ Recovered \/ BatchIsDurable \/ TargetsAreDurable
             \/ Inserted \/ Written \/ Swept
    BY <2>1, <2>7 DEF TargetsDeleted, Recovered, BatchIsDurable, TargetsAreDurable,
                      Inserted, Written, Swept, Quiet
  <2> QED
    BY <2>2, <2>3, <2>4, <2>5, <2>6, <2>7 DEF FilesNext, Rollback, insert_batch_locked
<1>4. UNCHANGED ordered
  BY DEF FilesNext, Begin, shared, exclusive, Rollback, DeleteTarget, TargetsDeleted,
         DeleteBatchFile, Recovered, Refused, insert_batch_locked, InstallBatch,
         BatchIsDurable, InstallTarget, TargetsAreDurable, CommitBatch, Inserted,
         Insert, Replace, Written, RemoveExpired, Swept, Interrupted, HostStops, Quiet, files
<1>5. ordered \in BOOLEAN
  BY DEF FilesInv, FilesTypeOK
<1> QED
  BY <1>2, <1>3, <1>4, <1>5

(* On a file system that keeps directory changes in order,                 *)
(* FileGatewayAttemptStore implements a store whose batches are inserted   *)
(* all or none and whose other changes are single steps: no interrupted    *)
(* batch and no interrupted rollback ever shows.                           *)
THEOREM FilesImplementRecords ==
  FilesSpec => ImplementsRecords
<1>1. FilesInit => Records!RecordsInit
  <2> SUFFICES ASSUME FilesInit PROVE Records!RecordsInit
    OBVIOUS
  <2>1. Rolled(disk) = [n \in Name |-> {}]
    BY DEF FilesInit, Rolled
  <2>2. {Rolled(d) : d \in surviving} = {Rolled(disk)}
    BY DEF FilesInit
  <2> QED
    BY <2>1, <2>2 DEF FilesInit, Records!RecordsInit, Records!Nothing
<1>2. FilesInv /\ [FilesNext]_files => [Records!RecordsNext]_(Records!records)
  BY StepMaps
<1> QED
  BY <1>1, <1>2, FilesInvariant, PTL DEF FilesSpec, ImplementsRecords, Records!RecordsSpec
=============================================================================
