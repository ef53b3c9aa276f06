------------------------------ MODULE TaskStore ------------------------------
(***************************************************************************)
(* The bbolt bucket of one device, internal/storage/task_repo.go.          *)
(*                                                                         *)
(* A delivery is one task message of the cloud.  The fields the storage    *)
(* looks at are the constants below; the rest of the record is payload.    *)
(* A bucket is the set of the deliveries whose records it holds: a record  *)
(* lives under its sequence number, so a bucket never holds two deliveries *)
(* with the same SeqNo.                                                    *)
(***************************************************************************)
EXTENDS Naturals

CONSTANTS
  Tasks,     \* deliveries of task messages
  TaskID,    \* task_id of a delivery; the cloud may send one task twice
  SeqNo      \* seq_no of a delivery, the key of its record

ASSUME StoreAssumption ==
  /\ SeqNo \in [Tasks -> Nat]
  /\ DOMAIN TaskID = Tasks

(* SaveTask: one transaction that puts the record under its key and        *)
(* replaces whatever record the key held.                                  *)
SaveTask(bucket, t) ==
  {u \in bucket : SeqNo[u] # SeqNo[t]} \cup {t}

(* The record DeleteTask finds: the cursor walks the keys upwards and      *)
(* stops at the first record with the task_id.                             *)
FirstWithID(bucket, id) ==
  {u \in bucket : /\ TaskID[u] = id
                  /\ \A w \in bucket : TaskID[w] = id => SeqNo[u] <= SeqNo[w]}

(* Mutant: the cursor's first record is removed, whatever its task_id.     *)
DeleteTaskAtCursor(bucket, id) ==
  {u \in bucket : \E w \in bucket : SeqNo[w] < SeqNo[u]}

(* DeleteTask: removes that record, or nothing when there is none.         *)
DeleteTask(bucket, id) == bucket \ FirstWithID(bucket, id)
=============================================================================
