------------------------------ MODULE TaskQueue ------------------------------
(***************************************************************************)
(* internal/taskqueue/queue.go under its concurrent clients: the           *)
(* dispatcher goroutine of cloudlink (Enqueue, Cancel), one deviceConsumer *)
(* goroutine of the executor per device (Dequeue) and the goroutine that   *)
(* stops the executor (cancel, Close, wg.Wait).                            *)
(*                                                                         *)
(* A step is the stretch of code between two points where another          *)
(* goroutine can interfere: one critical section of q.closeMu, q.mu or a   *)
(* deviceQueue's mu, one storage transaction, one cond operation.  Every   *)
(* other piece of an operation touches only the goroutine's own memory.    *)
(***************************************************************************)
EXTENDS TaskStore, Sequences, SequencesExt

CONSTANTS
  Devices,        \* devices the executor started a consumer for
  DeviceOf,       \* device_id of a delivery
  SentStatus,     \* status field of a delivery, "" when the cloud left it out
  Malformed,      \* deliveries with an empty device_id or task_id
  Capacity,       \* q.capacity, 100 in the program
  SaveMayFail,    \* deliveries whose storage transactions may return an error
  NoTask

ASSUME QueueAssumption ==
  /\ DeviceOf \in [Tasks -> Devices]
  /\ DOMAIN SentStatus = Tasks
  /\ Malformed \subseteq Tasks
  /\ Capacity \in Nat \ {0}
  /\ SaveMayFail \subseteq Tasks
  /\ NoTask \notin Tasks

VARIABLES
  qClosed,    \* q.closed
  queues,     \* the keys of the map q.queues
  tasks,      \* dq.tasks of each device
  dqClosed,   \* the devices whose dq.closed is set
  db,         \* the bucket of each device
  dpc,        \* where the dispatcher is inside Enqueue
  dtask,      \* the delivery it is enqueueing
  ack,        \* the answer to each delivery: none yet, accepted or rejected
  cpc,        \* where each device's consumer is
  given,      \* history: what each consumer got from Dequeue
  ctxDone,    \* the executor's context is cancelled
  spc,        \* where the stopping goroutine is
  snap,       \* device queues Close still has to close
  bcast       \* device queue it closed and has not broadcast to yet

queueVars == <<qClosed, queues, tasks, dqClosed, db>>
dispVars == <<dpc, dtask, ack>>
consVars == <<cpc, given>>
stopVars == <<ctxDone, spc, snap, bcast>>
vars == <<queueVars, dispVars, consVars, stopVars>>

DispPcs == {"idle", "create", "append", "save", "signal"}
ConsPcs == {"loop", "create", "lock", "wait", "send", "done"}
StopPcs == {"running", "flag", "snapshot", "closing", "waiting", "stopped"}

Init ==
  /\ qClosed = FALSE
  /\ queues = {}
  /\ tasks = [d \in Devices |-> <<>>]
  /\ dqClosed = {}
  /\ db = [d \in Devices |-> {}]
  /\ dpc = "idle" /\ dtask = NoTask
  /\ ack = [t \in Tasks |-> "none"]
  /\ cpc = [d \in Devices |-> "loop"]
  /\ given = [d \in Devices |-> <<>>]
  /\ ctxDone = FALSE /\ spc = "running"
  /\ snap = {} /\ bcast = {}

-----------------------------------------------------------------------------
(* Enqueue *)

Answer(t, a) ==
  /\ ack' = [ack EXCEPT ![t] = a]
  /\ dpc' = "idle"
  /\ dtask' = NoTask

(* The delivery is validated, then q.closed is read under closeMu.         *)
EnqueueBegin(t) ==
  /\ dpc = "idle" /\ ack[t] = "none"
  /\ \/ /\ t \in Malformed \/ qClosed
        /\ Answer(t, "rejected")
     \/ /\ t \notin Malformed /\ ~qClosed
        /\ dpc' = "create" /\ dtask' = t
        /\ UNCHANGED ack
  /\ UNCHANGED <<queueVars, consVars, stopVars>>

EnqueueGetOrCreate ==
  /\ dpc = "create"
  /\ queues' = queues \cup {DeviceOf[dtask]}
  /\ dpc' = "append"
  /\ UNCHANGED <<qClosed, tasks, dqClosed, db, dtask, ack, consVars, stopVars>>

(* Mutant: the capacity test lets one task too many in.                    *)
EnqueueAppendOverfull ==
  LET d == DeviceOf[dtask] IN
  /\ dpc = "append"
  /\ \/ /\ d \in dqClosed \/ Len(tasks[d]) > Capacity
        /\ Answer(dtask, "rejected")
        /\ UNCHANGED tasks
     \/ /\ d \notin dqClosed /\ Len(tasks[d]) <= Capacity
        /\ tasks' = [tasks EXCEPT ![d] = Append(@, dtask)]
        /\ dpc' = "save"
        /\ UNCHANGED <<dtask, ack>>
  /\ UNCHANGED <<qClosed, queues, dqClosed, db, consVars, stopVars>>

(* Under dq.mu: refuse on a closed or full device queue, else append.      *)
EnqueueAppend ==
  LET d == DeviceOf[dtask] IN
  /\ dpc = "append"
  /\ \/ /\ d \in dqClosed \/ Len(tasks[d]) >= Capacity
        /\ Answer(dtask, "rejected")
        /\ UNCHANGED tasks
     \/ /\ d \notin dqClosed /\ Len(tasks[d]) < Capacity
        /\ tasks' = [tasks EXCEPT ![d] = Append(@, dtask)]
        /\ dpc' = "save"
        /\ UNCHANGED <<dtask, ack>>
  /\ UNCHANGED <<qClosed, queues, dqClosed, db, consVars, stopVars>>

(* The record is saved after dq.mu is released; an error is only logged.   *)
EnqueueSave ==
  LET d == DeviceOf[dtask] IN
  /\ dpc = "save"
  /\ \/ db' = [db EXCEPT ![d] = SaveTask(@, dtask)]
     \/ dtask \in SaveMayFail /\ UNCHANGED db
  /\ dpc' = "signal"
  /\ UNCHANGED <<qClosed, queues, tasks, dqClosed, dtask, ack, consVars, stopVars>>

(* Mutant: Enqueue returns without a Signal.                               *)
EnqueueNoSignal ==
  /\ dpc = "signal"
  /\ Answer(dtask, "accepted")
  /\ UNCHANGED <<queueVars, consVars, stopVars>>

(* cond.Signal wakes the consumer if it waits; Enqueue returns nil.        *)
EnqueueSignal ==
  LET d == DeviceOf[dtask] IN
  /\ dpc = "signal"
  /\ cpc' = [cpc EXCEPT ![d] = IF @ = "wait" THEN "lock" ELSE @]
  /\ Answer(dtask, "accepted")
  /\ UNCHANGED <<queueVars, given, stopVars>>

-----------------------------------------------------------------------------
(* Cancel, called by the dispatcher between two deliveries *)

(* The first queued task with the id.                                      *)
FirstQueued(d, id) ==
  {i \in DOMAIN tasks[d] : /\ TaskID[tasks[d][i]] = id
                           /\ \A j \in 1..(i - 1) : TaskID[tasks[d][j]] # id}

(* Enqueue sets an empty status to PENDING; nothing else touches the       *)
(* status of a queued task.                                                *)
Cancellable(t) == SentStatus[t] \in {"", "PENDING"}

(* An id that is not queued, or no longer PENDING, is an error that        *)
(* changes nothing; otherwise the task and its record go, under dq.mu.     *)
Cancel(d, id) ==
  /\ dpc = "idle" /\ d \in queues
  /\ \E i \in FirstQueued(d, id) :
       /\ Cancellable(tasks[d][i])
       /\ tasks' = [tasks EXCEPT ![d] = RemoveAt(@, i)]
       /\ \/ db' = [db EXCEPT ![d] = DeleteTask(@, id)]
          \/ tasks[d][i] \in SaveMayFail /\ UNCHANGED db
  /\ UNCHANGED <<qClosed, queues, dqClosed, dispVars, consVars, stopVars>>

-----------------------------------------------------------------------------
(* deviceConsumer and Dequeue *)

ConsumerGoto(d, pc) == cpc' = [cpc EXCEPT ![d] = pc]

(* The consumer's loop tests its context before it calls Dequeue.          *)
ConsumerLoop(d) ==
  /\ cpc[d] = "loop"
  /\ ConsumerGoto(d, IF ctxDone THEN "done" ELSE "create")
  /\ UNCHANGED <<queueVars, dispVars, given, stopVars>>

DequeueGetOrCreate(d) ==
  /\ cpc[d] = "create"
  /\ queues' = queues \cup {d}
  /\ ConsumerGoto(d, "lock")
  /\ UNCHANGED <<qClosed, tasks, dqClosed, db, dispVars, given, stopVars>>

(* Mutant: the newest task is popped.                                      *)
DequeueTurnLifo(d) ==
  /\ cpc[d] = "lock"
  /\ \/ /\ d \in dqClosed
        /\ ConsumerGoto(d, "done")
        /\ UNCHANGED <<tasks, given>>
     \/ /\ d \notin dqClosed /\ tasks[d] # <<>>
        /\ given' = [given EXCEPT ![d] = Append(@, Last(tasks[d]))]
        /\ tasks' = [tasks EXCEPT ![d] = Front(@)]
        /\ ConsumerGoto(d, "send")
     \/ /\ d \notin dqClosed /\ tasks[d] = <<>>
        /\ ConsumerGoto(d, "wait")
        /\ UNCHANGED <<tasks, given>>
  /\ UNCHANGED <<qClosed, queues, dqClosed, db, dispVars, stopVars>>

(* Mutant: the head is returned and stays in the slice.                    *)
DequeueTurnPeek(d) ==
  /\ cpc[d] = "lock"
  /\ \/ /\ d \in dqClosed
        /\ ConsumerGoto(d, "done")
        /\ UNCHANGED given
     \/ /\ d \notin dqClosed /\ tasks[d] # <<>>
        /\ given' = [given EXCEPT ![d] = Append(@, Head(tasks[d]))]
        /\ ConsumerGoto(d, "send")
     \/ /\ d \notin dqClosed /\ tasks[d] = <<>>
        /\ ConsumerGoto(d, "wait")
        /\ UNCHANGED given
  /\ UNCHANGED <<queueVars, dispVars, stopVars>>

(* One turn of Dequeue's loop under dq.mu: fail on a closed queue, pop the *)
(* head, or wait on the condition (which gives up the lock atomically).    *)
DequeueTurn(d) ==
  /\ cpc[d] = "lock"
  /\ \/ /\ d \in dqClosed
        /\ ConsumerGoto(d, "done")
        /\ UNCHANGED <<tasks, given>>
     \/ /\ d \notin dqClosed /\ tasks[d] # <<>>
        /\ given' = [given EXCEPT ![d] = Append(@, Head(tasks[d]))]
        /\ tasks' = [tasks EXCEPT ![d] = Tail(@)]
        /\ ConsumerGoto(d, "send")
     \/ /\ d \notin dqClosed /\ tasks[d] = <<>>
        /\ ConsumerGoto(d, "wait")
        /\ UNCHANGED <<tasks, given>>
  /\ UNCHANGED <<qClosed, queues, dqClosed, db, dispVars, stopVars>>

(* The consumer offers the task to taskCh.                                 *)
ConsumerSend(d) ==
  /\ cpc[d] = "send"
  /\ ConsumerGoto(d, "loop")
  /\ UNCHANGED <<queueVars, dispVars, given, stopVars>>

(* A cancelled context lets the select give up: the task is dropped.       *)
ConsumerDrop(d) ==
  /\ cpc[d] = "send" /\ ctxDone
  /\ ConsumerGoto(d, "done")
  /\ UNCHANGED <<queueVars, dispVars, given, stopVars>>

-----------------------------------------------------------------------------
(* Executor.Stop and Queue.Close *)

StopCancel ==
  /\ spc = "running"
  /\ ctxDone' = TRUE /\ spc' = "flag"
  /\ UNCHANGED <<queueVars, dispVars, consVars, snap, bcast>>

CloseFlag ==
  /\ spc = "flag"
  /\ qClosed' = TRUE /\ spc' = "snapshot"
  /\ UNCHANGED <<queues, tasks, dqClosed, db, dispVars, consVars, ctxDone, snap, bcast>>

CloseSnapshot ==
  /\ spc = "snapshot"
  /\ snap' = queues /\ spc' = "closing"
  /\ UNCHANGED <<queueVars, dispVars, consVars, ctxDone, bcast>>

(* Mutant: all device queues are marked before the first broadcast.        *)
CloseDeviceEarly(d) ==
  /\ spc = "closing" /\ d \in snap
  /\ dqClosed' = dqClosed \cup {d}
  /\ snap' = snap \ {d} /\ bcast' = bcast \cup {d}
  /\ UNCHANGED <<qClosed, queues, tasks, db, dispVars, consVars, ctxDone, spc>>

(* Close marks a device queue under its lock ...                           *)
CloseDevice(d) ==
  /\ spc = "closing" /\ bcast = {} /\ d \in snap
  /\ dqClosed' = dqClosed \cup {d}
  /\ snap' = snap \ {d} /\ bcast' = {d}
  /\ UNCHANGED <<qClosed, queues, tasks, db, dispVars, consVars, ctxDone, spc>>

(* Mutant: Close sets the flags only.                                      *)
CloseNoBroadcast(d) ==
  /\ d \in bcast
  /\ bcast' = {}
  /\ UNCHANGED <<queueVars, dispVars, consVars, ctxDone, spc, snap>>

(* ... and broadcasts after it released the lock.                          *)
CloseBroadcast(d) ==
  /\ d \in bcast
  /\ cpc' = [cpc EXCEPT ![d] = IF @ = "wait" THEN "lock" ELSE @]
  /\ bcast' = {}
  /\ UNCHANGED <<queueVars, dispVars, given, ctxDone, spc, snap>>

CloseReturn ==
  /\ spc = "closing" /\ snap = {} /\ bcast = {}
  /\ spc' = "waiting"
  /\ UNCHANGED <<queueVars, dispVars, consVars, ctxDone, snap, bcast>>

(* wg.Wait: Stop returns once every consumer has.                          *)
StopReturn ==
  /\ spc = "waiting" /\ \A d \in Devices : cpc[d] = "done"
  /\ spc' = "stopped"
  /\ UNCHANGED <<queueVars, dispVars, consVars, ctxDone, snap, bcast>>

-----------------------------------------------------------------------------
EnqueueStep == EnqueueGetOrCreate \/ EnqueueAppend \/ EnqueueSave \/ EnqueueSignal
DispatcherStep ==
  \/ \E t \in Tasks : EnqueueBegin(t)
  \/ EnqueueStep
  \/ \E t \in Tasks : Cancel(DeviceOf[t], TaskID[t])
DequeueStep(d) == ConsumerLoop(d) \/ DequeueGetOrCreate(d) \/ DequeueTurn(d)
ConsumerStep(d) == DequeueStep(d) \/ ConsumerSend(d) \/ ConsumerDrop(d)
CloseStep ==
  \/ CloseFlag \/ CloseSnapshot \/ CloseReturn \/ StopReturn
  \/ \E d \in Devices : CloseDevice(d) \/ CloseBroadcast(d)

Next ==
  \/ DispatcherStep
  \/ \E d \in Devices : ConsumerStep(d)
  \/ StopCancel
  \/ CloseStep

Spec == Init /\ [][Next]_vars

(* A started operation runs on: Go schedules every runnable goroutine and  *)
(* its mutexes do not starve a waiter.  Nothing obliges the cloud to send, *)
(* the workers to drain taskCh (ConsumerSend) or anyone to call Stop.      *)
Fairness ==
  /\ WF_vars(EnqueueStep)
  /\ \A d \in Devices : WF_vars(DequeueStep(d)) /\ WF_vars(ConsumerDrop(d))
  /\ WF_vars(CloseStep)

FairSpec == Spec /\ Fairness

-----------------------------------------------------------------------------
(* The types of the queue, of its clients' positions and of the histories. *)
FlagTypes == qClosed \in BOOLEAN /\ ctxDone \in BOOLEAN
DataTypes ==
  /\ queues \subseteq Devices
  /\ tasks \in [Devices -> Seq(Tasks)]
  /\ dqClosed \subseteq Devices
  /\ db \in [Devices -> SUBSET Tasks]
  /\ dpc \in DispPcs
  /\ dtask \in Tasks \cup {NoTask}
  /\ dpc # "idle" => dtask \in Tasks
  /\ ack \in [Tasks -> {"none", "accepted", "rejected"}]
  /\ cpc \in [Devices -> ConsPcs]
  /\ given \in [Devices -> Seq(Tasks)]
  /\ spc \in StopPcs
  /\ snap \subseteq Devices
  /\ bcast \subseteq Devices /\ \A c, d \in bcast : c = d
TypeOK == FlagTypes /\ DataTypes

(* No device queue grows past its capacity (the check and the append of    *)
(* Enqueue are one critical section).                                      *)
WithinCapacity == \A d \in Devices : Len(tasks[d]) <= Capacity

(* No lost wakeup: a consumer parked in cond.Wait while its queue holds a  *)
(* task has that task's Signal still to come, and one parked on a closed   *)
(* queue has Close's Broadcast still to come, although Enqueue signals and *)
(* Close broadcasts after they released dq.mu.                             *)
NoLostWakeup ==
  \A d \in Devices : cpc[d] = "wait" =>
    /\ tasks[d] # <<>> => dpc \in {"save", "signal"} /\ DeviceOf[dtask] = d
    /\ d \in dqClosed => d \in bcast

(* A delivery is queued for, or given to, its own device and at most once, *)
(* and only if Enqueue accepted it or is past the append and will.         *)
DeliveredOnce ==
  \A d \in Devices :
    LET seen == given[d] \o tasks[d] IN
    /\ \A i, j \in DOMAIN seen : seen[i] = seen[j] => i = j
    /\ \A i \in DOMAIN seen :
         /\ DeviceOf[seen[i]] = d
         /\ \/ ack[seen[i]] = "accepted"
            \/ dpc \in {"save", "signal"} /\ dtask = seen[i]

(* A queued task has its record, or Enqueue is about to write it, unless   *)
(* storage failed for it or the cloud reused its id or sequence number:    *)
(* Cancel and SaveTask remove no other task's record.                      *)
UniqueKey(t) ==
  \A u \in Tasks \ {t} : SeqNo[t] # SeqNo[u] /\ TaskID[t] # TaskID[u]

QueuedIsStored ==
  \A d \in Devices : \A i \in DOMAIN tasks[d] :
    LET t == tasks[d][i] IN
    UniqueKey(t) /\ t \notin SaveMayFail => t \in db[d] \/ (dpc = "save" /\ dtask = t)

(* The queue is a bounded FIFO per device that shuts for good.             *)
Fifo == INSTANCE DeviceFifo WITH fifo <- tasks, shut <- dqClosed
ImplementsFifo == Fifo!Spec

(* A consumer inside Dequeue on a non-empty queue gets a task or the       *)
(* queue is emptied under it or closed: it does not sleep on.              *)
WaiterServed ==
  \A d \in Devices :
    cpc[d] \in {"lock", "wait"} /\ tasks[d] # <<>>
      ~> cpc[d] \in {"send", "done"} \/ tasks[d] = <<>>

(* Once Close takes its snapshot with every device's queue in the map,     *)
(* every consumer ends, wherever it was, and Executor.Stop returns.        *)
StopTerminates ==
  spc = "snapshot" /\ queues = Devices ~> spc = "stopped"
=============================================================================
