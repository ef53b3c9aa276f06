----------------------------- MODULE Durability -----------------------------
(***************************************************************************)
(* What survives a restart: one device's queue and running tasks in        *)
(* memory, its bucket on disk (TaskStore), power loss or process exit at   *)
(* any point, and the recovery at the next start                           *)
(* (storage/recover.go, taskqueue/recover.go).  Buckets are independent.   *)
(*                                                                         *)
(* Enqueue saves the record after it released the queue, so a consumer may *)
(* already be changing the task while it is encoded: the saved status is   *)
(* any one the task has had since it was appended.  Nothing but Enqueue,   *)
(* Cancel and the recovery writes to the bucket; a graceful shutdown saves *)
(* no more than a crash does, so Crash stands for both.                    *)
(***************************************************************************)
EXTENDS TaskStore, Sequences, FiniteSets, SequencesExt

CONSTANTS
  SentStatus,     \* status of a delivery once Enqueue replaced "" by PENDING
  Capacity,
  MaxCrashes,     \* bound on the number of restarts
  StoreMayFail    \* whether a storage transaction may return an error

Statuses == {"PENDING", "RUNNING", "RETRYING", "SUCCESS", "FAILED"}
Terminal == {"SUCCESS", "FAILED"}

ASSUME DurabilityAssumption ==
  /\ IsFiniteSet(Tasks)
  /\ SentStatus \in [Tasks -> Statuses]
  /\ Capacity \in Nat \ {0}
  /\ MaxCrashes \in Nat
  /\ StoreMayFail \in BOOLEAN

VARIABLES
  phase,      \* "up", "down" or "recover"
  queue,      \* the device's queue
  working,    \* tasks with a consumer, in taskCh or with a worker
  status,     \* Status of each task, the last one it had
  saving,     \* the task Enqueue has appended and not yet saved
  had,        \* statuses that task has had since
  ack,        \* deliveries answered: accepted
  refused,    \* deliveries answered: rejected
  cancelled,  \* history: deliveries cancelled from the queue
  bucket,     \* the records on disk
  stored,     \* the status in each record
  todo,       \* records RecoverAll still has to look at, in key order
  found,      \* tasks it has recovered
  recovered,  \* history: how often each delivery was recovered
  crashes

memVars == <<queue, working, saving>>
diskVars == <<bucket, stored>>
histVars == <<ack, refused, cancelled>>
recVars == <<todo, found, recovered>>
vars == <<phase, memVars, status, had, diskVars, histVars, recVars, crashes>>

Arrived == ack \cup refused \cup saving
InMemory(t) == t \in working \/ \E i \in DOMAIN queue : queue[i] = t

Init ==
  /\ phase = "up"
  /\ queue = <<>> /\ working = {} /\ saving = {}
  /\ status = SentStatus /\ had = {}
  /\ ack = {} /\ refused = {} /\ cancelled = {}
  /\ bucket = {} /\ stored = SentStatus
  /\ todo = <<>> /\ found = {} /\ recovered = [t \in Tasks |-> 0]
  /\ crashes = 0

-----------------------------------------------------------------------------
(* The agent is up *)

(* The cloud numbers its tasks in the order it sends them.                 *)
InTurn(t) == \A u \in Tasks \ Arrived : SeqNo[t] <= SeqNo[u]

EnqueueAppend(t) ==
  /\ phase = "up" /\ saving = {} /\ t \notin Arrived /\ InTurn(t)
  /\ \/ /\ Len(queue) >= Capacity
        /\ refused' = refused \cup {t}
        /\ UNCHANGED <<queue, saving, had>>
     \/ /\ Len(queue) < Capacity
        /\ queue' = Append(queue, t) /\ saving' = {t}
        /\ had' = {status[t]}
        /\ UNCHANGED refused
  /\ UNCHANGED <<phase, working, status, diskVars, ack, cancelled, recVars, crashes>>

EnqueueSave(t) ==
  /\ phase = "up" /\ t \in saving
  /\ \/ /\ bucket' = SaveTask(bucket, t)
        /\ \E s \in had : stored' = [stored EXCEPT ![t] = s]
     \/ StoreMayFail /\ UNCHANGED diskVars
  /\ saving' = {} /\ had' = {} /\ ack' = ack \cup {t}
  /\ UNCHANGED <<phase, queue, working, status, refused, cancelled, recVars, crashes>>

(* The dispatcher cancels between two deliveries.                          *)
Cancel(i) ==
  /\ phase = "up" /\ saving = {}
  /\ status[queue[i]] = "PENDING"
  /\ \A j \in 1..(i - 1) : TaskID[queue[j]] # TaskID[queue[i]]
  /\ queue' = RemoveAt(queue, i)
  /\ cancelled' = cancelled \cup {queue[i]}
  /\ \/ bucket' = DeleteTask(bucket, TaskID[queue[i]])
     \/ StoreMayFail /\ UNCHANGED bucket
  /\ UNCHANGED <<phase, working, status, had, saving, stored, ack, refused, recVars, crashes>>

Dequeue ==
  /\ phase = "up" /\ queue # <<>>
  /\ working' = working \cup {Head(queue)}
  /\ queue' = Tail(queue)
  /\ UNCHANGED <<phase, saving, status, had, diskVars, histVars, recVars, crashes>>

(* The status changes executeTask and handleRetry make, see Executor; they *)
(* stay in memory.                                                         *)
NextStatus(s) ==
  CASE s = "PENDING" -> {"RUNNING", "FAILED"}
    [] s = "RUNNING" -> {"RUNNING", "SUCCESS", "RETRYING", "FAILED"}
    [] s = "RETRYING" -> {"PENDING", "RUNNING", "FAILED"}
    [] s = "FAILED" -> {"RETRYING"}
    [] s = "SUCCESS" -> {}

Progress(t) ==
  /\ phase = "up" /\ t \in working
  /\ \E s \in NextStatus(status[t]) :
       /\ status' = [status EXCEPT ![t] = s]
       /\ had' = IF t \in saving THEN had \cup {s} ELSE had
  /\ UNCHANGED <<phase, memVars, diskVars, histVars, recVars, crashes>>

(* A worker lets go of a finished task; its record stays as it is.         *)
Finish(t) ==
  /\ phase = "up" /\ t \in working /\ status[t] \in Terminal
  /\ working' = working \ {t}
  /\ UNCHANGED <<phase, queue, saving, status, had, diskVars, histVars, recVars, crashes>>

-----------------------------------------------------------------------------
(* Restart *)

(* The process ends: memory is gone, and with it an Enqueue in progress    *)
(* (its delivery was never acknowledged and is not sent again here).       *)
Crash ==
  /\ phase \in {"up", "recover"} /\ crashes < MaxCrashes
  /\ phase' = "down" /\ crashes' = crashes + 1
  /\ queue' = <<>> /\ working' = {} /\ saving' = {} /\ had' = {}
  /\ refused' = refused \cup saving
  /\ todo' = <<>> /\ found' = {}
  /\ UNCHANGED <<status, diskVars, ack, cancelled, recovered>>

(* The tasks of S by their sequence numbers, which are keys.               *)
InKeyOrder(S) ==
  {s \in [1..Cardinality(S) -> S] : \A i, j \in DOMAIN s : i < j => SeqNo[s[i]] < SeqNo[s[j]]}

(* LoadTasks returns the bucket in key order.                              *)
LoadTasks ==
  /\ phase = "down"
  /\ phase' = "recover" /\ todo' \in InKeyOrder(bucket)
  /\ UNCHANGED <<memVars, status, had, diskVars, histVars, found, recovered, crashes>>

(* Mutant: whatever has not ended is recovered.                            *)
NeedsRecoverPending(s) == s \in {"PENDING", "RUNNING", "RETRYING"}

NeedsRecover(s) == s \in {"RUNNING", "RETRYING"}

(* Mutant: the record keeps the status it had.                             *)
RecoverOneUnsaved ==
  LET t == Head(todo) IN
  /\ phase = "recover" /\ todo # <<>>
  /\ todo' = Tail(todo)
  /\ \/ /\ ~NeedsRecover(stored[t])
        /\ UNCHANGED <<found, recovered>>
     \/ /\ NeedsRecover(stored[t])
        /\ found' = found \cup {t}
        /\ recovered' = [recovered EXCEPT ![t] = @ + 1]
  /\ UNCHANGED <<phase, memVars, status, had, diskVars, histVars, crashes>>

(* One turn of RecoverAll's loop: the record of a task that was running is *)
(* saved as PENDING before the task is queued again.                       *)
RecoverOne ==
  LET t == Head(todo) IN
  /\ phase = "recover" /\ todo # <<>>
  /\ todo' = Tail(todo)
  /\ \/ /\ ~NeedsRecover(stored[t])
        /\ UNCHANGED <<stored, found, recovered>>
     \/ /\ NeedsRecover(stored[t])
        /\ stored' = [stored EXCEPT ![t] = "PENDING"]
        /\ found' = found \cup {t}
        /\ recovered' = [recovered EXCEPT ![t] = @ + 1]
  /\ UNCHANGED <<phase, memVars, status, had, bucket, histVars, crashes>>

(* Mutant: the recovered tasks are sorted the wrong way round.             *)
RecoverEnqueueReversed ==
  /\ phase = "recover" /\ todo = <<>>
  /\ \E sorted \in InKeyOrder(found) :
       queue' = SubSeq(Reverse(sorted), 1, IF Len(sorted) <= Capacity THEN Len(sorted) ELSE Capacity)
  /\ status' = [t \in Tasks |-> IF t \in found THEN "PENDING" ELSE status[t]]
  /\ found' = {} /\ phase' = "up"
  /\ UNCHANGED <<working, saving, had, diskVars, histVars, todo, recovered, crashes>>

(* Recover sorts the tasks and queues as many as fit; the rest is logged.  *)
RecoverEnqueue ==
  /\ phase = "recover" /\ todo = <<>>
  /\ \E sorted \in InKeyOrder(found) :
       queue' = SubSeq(sorted, 1, IF Len(sorted) <= Capacity THEN Len(sorted) ELSE Capacity)
  /\ status' = [t \in Tasks |-> IF t \in found THEN "PENDING" ELSE status[t]]
  /\ found' = {} /\ phase' = "up"
  /\ UNCHANGED <<working, saving, had, diskVars, histVars, todo, recovered, crashes>>

(* A storage error ends RecoverAll; the agent starts with an empty queue.  *)
RecoverFails ==
  /\ phase = "recover" /\ todo # <<>> /\ StoreMayFail
  /\ todo' = <<>> /\ found' = {} /\ phase' = "up"
  /\ UNCHANGED <<memVars, status, had, diskVars, histVars, recovered, crashes>>

Next ==
  \/ \E t \in Tasks : EnqueueAppend(t) \/ EnqueueSave(t) \/ Progress(t) \/ Finish(t)
  \/ \E i \in DOMAIN queue : Cancel(i)
  \/ Dequeue \/ Crash \/ LoadTasks \/ RecoverOne \/ RecoverEnqueue \/ RecoverFails

Spec == Init /\ [][Next]_vars

-----------------------------------------------------------------------------
(* Types.                                                                  *)
TypeOK ==
  /\ phase \in {"up", "down", "recover"}
  /\ queue \in Seq(Tasks) /\ todo \in Seq(Tasks)
  /\ working \subseteq Tasks /\ saving \subseteq Tasks /\ found \subseteq Tasks
  /\ ack \subseteq Tasks /\ refused \subseteq Tasks /\ cancelled \subseteq Tasks
  /\ bucket \subseteq Tasks
  /\ status \in [Tasks -> Statuses] /\ stored \in [Tasks -> Statuses]
  /\ had \subseteq Statuses
  /\ recovered \in [Tasks -> Nat] /\ crashes \in 0..MaxCrashes

(* A delivery comes back from disk at most once in the life of the         *)
(* installation, whatever crashes when: a task that makes the agent crash  *)
(* cannot crash it at every start, and no document is printed again after  *)
(* every restart although finished tasks keep their records.               *)
RecoveredOnce == \A t \in Tasks : recovered[t] <= 1

(* A cancelled task never waits or runs again, across any restarts, even   *)
(* when its record could not be deleted.                                   *)
CancelledStaysCancelled ==
  \A t \in cancelled : ~InMemory(t) /\ t \notin found

(* The queue is always in the cloud's order, also when it holds recovered  *)
(* and new tasks together, and within capacity; a delivery is in memory    *)
(* once at most, not both recovered and still being worked on.             *)
QueueInOrder ==
  /\ Len(queue) <= Capacity
  /\ \A i, j \in DOMAIN queue :
       i < j => SeqNo[queue[i]] <= SeqNo[queue[j]] /\ queue[i] # queue[j]
  /\ \A i \in DOMAIN queue : queue[i] \notin working

(* README.md: no task is lost on power failure.  An acknowledged task that *)
(* was not cancelled and has not ended is in memory while the agent is up. *)
NoTaskLost ==
  phase = "up" => \A t \in ack \ cancelled : status[t] \notin Terminal => InMemory(t)
=============================================================================
