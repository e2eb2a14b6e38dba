---------------------------- MODULE AtomicRecords ----------------------------
(***************************************************************************)
(* What the gateway's record store promises its callers                    *)
(* (GatewayAttemptStore): a batch is inserted all or none, a record is     *)
(* replaced in one step, an expired slot is removed, and a power loss      *)
(* takes back only the changes made since the last flush, latest first.    *)
(***************************************************************************)
EXTENDS Naturals

CONSTANTS
  Name,      \* the names of records
  Slot,      \* the names of records that expire
  Single,    \* the names of records inserted by themselves
  Batch,     \* the batches
  Targets    \* batch -> the names it inserts

VARIABLES
  rows,   \* rows[n]: the record at n, if there is one
  kept    \* the contents a power loss may leave

records == <<rows, kept>>

(* The record a batch, or an insertion by itself, leaves at n. *)
Listed(b, n) == {[of |-> b, name |-> n, version |-> 0]}
Alone(n) == {[of |-> n, name |-> n, version |-> 0]}

Nothing == [n \in Name |-> {}]

Change(new) == rows' = new /\ kept' = kept \cup {new}

InsertAll(b) ==
  /\ \A n \in Targets[b] : rows[n] = {}
  /\ Change([n \in Name |-> IF n \in Targets[b] THEN Listed(b, n) ELSE rows[n]])

Insert(n) == rows[n] = {} /\ Change([rows EXCEPT ![n] = Alone(n)])

Replace(n) ==
  \E v \in rows[n] : Change([rows EXCEPT ![n] = {[v EXCEPT !.version = @ + 1]}])

Expire(n) == rows[n] # {} /\ Change([rows EXCEPT ![n] = {}])

Flush == kept' = {rows} /\ UNCHANGED rows

Lose == rows' \in kept /\ kept' = {rows'}

RecordsInit == rows = Nothing /\ kept = {rows}

RecordsNext ==
  \/ \E b \in Batch : InsertAll(b)
  \/ \E n \in Single : Insert(n)
  \/ \E n \in Name \ Slot : Replace(n)
  \/ \E n \in Slot : Expire(n)
  \/ Flush
  \/ Lose

RecordsSpec == RecordsInit /\ [][RecordsNext]_records
=============================================================================
