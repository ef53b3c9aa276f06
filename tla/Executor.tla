------------------------------ MODULE Executor ------------------------------
(***************************************************************************)
(* internal/executor: one consumer per device moves tasks from the queue   *)
(* into the shared channel taskCh, a pool of workers takes them from there *)
(* and drives each through attempts, waits and retries to a result.  The   *)
(* queue is used through its abstract specification, DeviceFifo.           *)
(*                                                                         *)
(* The dispatcher goroutine of cloudlink feeds the queue and edits the     *)
(* device table while all this runs; Stop may be called at any time.       *)
(***************************************************************************)
EXTENDS Naturals, Sequences, FiniteSets

CONSTANTS
  Devices,       \* devices the cloud may address
  Started,       \* those in the table when Start runs: they get a consumer
  Workers,       \* worker goroutines, 5 in the program
  Tasks,         \* deliveries of task messages
  DeviceOf,      \* device_id of a delivery
  SentStatus,    \* its status once Enqueue replaced an empty one by PENDING
  Capacity,      \* of one device queue, 100 in the program
  MaxRetry,      \* maxRetryCount, 3 in the program
  NoTask

TaskStatus == {"PENDING", "RUNNING", "SUCCESS", "FAILED", "RETRYING", "CANCELLED"}

ASSUME ExecutorAssumption ==
  /\ Started \subseteq Devices
  /\ DeviceOf \in [Tasks -> Devices]
  /\ SentStatus \in [Tasks -> TaskStatus]
  /\ Capacity \in Nat \ {0}
  /\ MaxRetry \in Nat
  /\ IsFiniteSet(Workers) /\ Workers # {}
  /\ NoTask \notin Tasks

VARIABLES
  queue, given, shut,   \* the task queue, see DeviceFifo
  arrived,              \* deliveries the dispatcher has enqueued or refused
  device,               \* what the device table says of each device
  cpc, hold,            \* consumers: position and the task in hand
  taskCh,               \* the channel between consumers and workers
  wpc, wtask, werr,     \* workers: position, task, error of the last attempt
  status, retryCount,   \* Status and RetryCount of each task
  sends,                \* history: calls of adapter.Send for each task
  cbReady,              \* the result callback is registered
  results,              \* history: statuses reported for each task
  ctxDone, stopped,     \* Stop has cancelled the context; Stop has returned
  known,                \* devices whose queue exists: getOrCreate has been called
  snapped, left         \* Close has listed the queues; those it has yet to close

queueVars == <<queue, given, shut>>
tableVars == <<arrived, device>>
consVars == <<cpc, hold>>
workVars == <<wpc, wtask, werr>>
taskVars == <<status, retryCount, sends, results>>
closeVars == <<snapped, left>>
lifeVars == <<cbReady, ctxDone, stopped, known, closeVars>>
vars == <<queueVars, tableVars, consVars, taskCh, workVars, taskVars, lifeVars>>

Q == INSTANCE DeviceFifo WITH fifo <- queue

(* What executeTask distinguishes about a device: absent from the table;   *)
(* OFFLINE or PROBE_FAILED; a protocol without adapter; usable.            *)
DeviceViews == {"missing", "offline", "noadapter", "ready"}

(* TaskStatus.IsTerminal *)
IsTerminal(s) == s \in {"SUCCESS", "FAILED", "CANCELLED"}

(* What executeTask can return: no such device, no adapter, the document   *)
(* cannot be read, the adapter failed.                                     *)
Errors == {"none", "notfound", "noadapter", "data", "send"}

Init ==
  /\ Q!Init
  /\ arrived = {}
  /\ device \in [Devices -> DeviceViews]
  /\ \A d \in Devices : device[d] # "missing" <=> d \in Started
  /\ cpc = [d \in Started |-> "loop"] /\ hold = [d \in Started |-> NoTask]
  /\ taskCh = <<>>
  /\ wpc = [w \in Workers |-> "idle"]
  /\ wtask = [w \in Workers |-> NoTask] /\ werr = [w \in Workers |-> "none"]
  /\ status = SentStatus
  /\ retryCount = [t \in Tasks |-> 0]
  /\ sends = [t \in Tasks |-> 0] /\ results = [t \in Tasks |-> <<>>]
  /\ cbReady = FALSE /\ ctxDone = FALSE /\ stopped = FALSE
  /\ known = {} /\ snapped = FALSE /\ left = {}

-----------------------------------------------------------------------------
(* The dispatcher: tasks, cancellations and device messages *)

(* A full queue refuses the task, and so does one that Stop is closing or  *)
(* has closed; the cloud is told and it is gone.  A delivery that is past  *)
(* the test of the closed flag may still get in, or create the queue,      *)
(* while Close is at work.                                                 *)
Enqueue(t) ==
  LET d == DeviceOf[t] IN
  /\ t \notin arrived
  /\ arrived' = arrived \cup {t}
  /\ \/ Q!Put(d, t) /\ known' = known \cup {d}
     \/ /\ ctxDone \/ d \in shut \/ Len(queue[d]) >= Capacity
        /\ UNCHANGED <<queueVars, known>>
  /\ UNCHANGED <<device, consVars, taskCh, workVars, taskVars, cbReady, ctxDone, stopped, closeVars>>

Cancel(d, i) ==
  /\ status[queue[d][i]] = "PENDING"
  /\ Q!Withdraw(d, i)
  /\ UNCHANGED <<tableVars, consVars, taskCh, workVars, taskVars, lifeVars>>

(* device_add, device_update and device_remove.                            *)
DeviceMessage(d, v) ==
  /\ device[d] # v
  /\ device' = [device EXCEPT ![d] = v]
  /\ UNCHANGED <<queueVars, arrived, consVars, taskCh, workVars, taskVars, lifeVars>>

-----------------------------------------------------------------------------
(* deviceConsumer *)

(* The test of the context, and the call of Dequeue.                       *)
ConsumerLoop(d) ==
  /\ cpc[d] = "loop"
  /\ cpc' = [cpc EXCEPT ![d] = IF ctxDone THEN "done"
                               ELSE IF d \in known THEN "dequeue" ELSE "create"]
  /\ UNCHANGED <<queueVars, tableVars, hold, taskCh, workVars, taskVars, lifeVars>>

(* getOrCreate of Dequeue: the first call makes the queue.                 *)
ConsumerCreate(d) ==
  /\ cpc[d] = "create"
  /\ known' = known \cup {d}
  /\ cpc' = [cpc EXCEPT ![d] = "dequeue"]
  /\ UNCHANGED <<queueVars, tableVars, hold, taskCh, workVars, taskVars,
                 cbReady, ctxDone, stopped, closeVars>>

ConsumerTake(d) ==
  /\ cpc[d] = "dequeue"
  /\ Q!Take(d)
  /\ hold' = [hold EXCEPT ![d] = Head(queue[d])]
  /\ cpc' = [cpc EXCEPT ![d] = "send"]
  /\ UNCHANGED <<tableVars, taskCh, workVars, taskVars, lifeVars>>

(* Dequeue fails on a closed queue and ends the consumer.                  *)
ConsumerClosed(d) ==
  /\ cpc[d] = "dequeue" /\ d \in shut
  /\ cpc' = [cpc EXCEPT ![d] = "done"]
  /\ UNCHANGED <<queueVars, tableVars, hold, taskCh, workVars, taskVars, lifeVars>>

(* taskCh has room for as many tasks as there are workers.                 *)
ConsumerSend(d) ==
  /\ cpc[d] = "send" /\ Len(taskCh) < Cardinality(Workers)
  /\ taskCh' = Append(taskCh, hold[d])
  /\ hold' = [hold EXCEPT ![d] = NoTask]
  /\ cpc' = [cpc EXCEPT ![d] = "loop"]
  /\ UNCHANGED <<queueVars, tableVars, workVars, taskVars, lifeVars>>

(* Mutant: the select gives up after a timeout of its own.                 *)
ConsumerDropTimeout(d) ==
  /\ cpc[d] = "send"
  /\ hold' = [hold EXCEPT ![d] = NoTask]
  /\ cpc' = [cpc EXCEPT ![d] = IF ctxDone THEN "done" ELSE "loop"]
  /\ UNCHANGED <<queueVars, tableVars, taskCh, workVars, taskVars, lifeVars>>

(* The select may prefer ctx.Done: the dequeued task is forgotten.         *)
ConsumerDrop(d) ==
  /\ cpc[d] = "send" /\ ctxDone
  /\ hold' = [hold EXCEPT ![d] = NoTask]
  /\ cpc' = [cpc EXCEPT ![d] = "done"]
  /\ UNCHANGED <<queueVars, tableVars, taskCh, workVars, taskVars, lifeVars>>

-----------------------------------------------------------------------------
(* worker and executeTaskLoop *)

Goto(w, pc) == wpc' = [wpc EXCEPT ![w] = pc]
GotoWith(w, pc, e) == Goto(w, pc) /\ werr' = [werr EXCEPT ![w] = e]
(* Back in the worker's select, whatever became of the task.               *)
Leave(w) ==
  /\ GotoWith(w, "idle", "none")
  /\ wtask' = [wtask EXCEPT ![w] = NoTask]
(* fireTaskResult: only a registered callback hears of it.                 *)
Fire(t, s) ==
  results' = IF cbReady THEN [results EXCEPT ![t] = Append(@, s)] ELSE results
SetStatus(t, s) == status' = [status EXCEPT ![t] = s]

WorkerReceive(w) ==
  /\ wpc[w] = "idle" /\ taskCh # <<>>
  /\ wtask' = [wtask EXCEPT ![w] = Head(taskCh)]
  /\ taskCh' = Tail(taskCh)
  /\ Goto(w, "loop")
  /\ UNCHANGED <<queueVars, tableVars, consVars, werr, taskVars, lifeVars>>

WorkerExit(w) ==
  /\ wpc[w] = "idle" /\ ctxDone
  /\ Goto(w, "done")
  /\ UNCHANGED <<queueVars, tableVars, consVars, taskCh, wtask, werr, taskVars, lifeVars>>

(* Mutant: the loop does not look at the context.                          *)
LoopHeadNoCtx(w) ==
  /\ wpc[w] = "loop"
  /\ \/ /\ IsTerminal(status[wtask[w]])
        /\ Leave(w)
     \/ /\ ~IsTerminal(status[wtask[w]])
        /\ Goto(w, "lookup")
        /\ UNCHANGED <<wtask, werr>>
  /\ UNCHANGED <<queueVars, tableVars, consVars, taskCh, taskVars, lifeVars>>

(* The tests at the head of the loop.                                      *)
LoopHead(w) ==
  /\ wpc[w] = "loop"
  /\ \/ /\ ctxDone \/ IsTerminal(status[wtask[w]])
        /\ Leave(w)
     \/ /\ ~ctxDone /\ ~IsTerminal(status[wtask[w]])
        /\ Goto(w, "lookup")
        /\ UNCHANGED <<wtask, werr>>
  /\ UNCHANGED <<queueVars, tableVars, consVars, taskCh, taskVars, lifeVars>>

(* executeTask, a device it cannot use: the task is marked FAILED and that *)
(* is reported before the error goes back to the loop.                     *)
LookupFails(w) ==
  LET t == wtask[w]
      v == device[DeviceOf[t]] IN
  /\ wpc[w] = "lookup" /\ v \in {"missing", "noadapter"}
  /\ SetStatus(t, "FAILED") /\ Fire(t, "FAILED")
  /\ GotoWith(w, "error", IF v = "missing" THEN "notfound" ELSE "noadapter")
  /\ UNCHANGED <<queueVars, tableVars, consVars, taskCh, wtask, retryCount, sends, lifeVars>>

LookupOffline(w) ==
  /\ wpc[w] = "lookup" /\ device[DeviceOf[wtask[w]]] = "offline"
  /\ Goto(w, "offline")
  /\ UNCHANGED <<queueVars, tableVars, consVars, taskCh, wtask, werr, taskVars, lifeVars>>

LookupReady(w) ==
  /\ wpc[w] = "lookup" /\ device[DeviceOf[wtask[w]]] = "ready"
  /\ SetStatus(wtask[w], "RUNNING")
  /\ Goto(w, "load")
  /\ UNCHANGED <<queueVars, tableVars, consVars, taskCh, wtask, werr,
                 retryCount, sends, results, lifeVars>>

(* loadTaskData: the document cannot be read ...                           *)
LoadFails(w) ==
  /\ wpc[w] = "load"
  /\ GotoWith(w, "error", "data")
  /\ UNCHANGED <<queueVars, tableVars, consVars, taskCh, wtask, taskVars, lifeVars>>

(* Mutant: SUCCESS is set before the adapter has answered.                 *)
SendBeginSuccess(w) ==
  /\ wpc[w] = "load"
  /\ sends' = [sends EXCEPT ![wtask[w]] = @ + 1]
  /\ SetStatus(wtask[w], "SUCCESS")
  /\ Goto(w, "send")
  /\ UNCHANGED <<queueVars, tableVars, consVars, taskCh, wtask, werr,
                 retryCount, results, lifeVars>>

(* ... or the adapter is called with it.                                   *)
SendBegin(w) ==
  /\ wpc[w] = "load"
  /\ sends' = [sends EXCEPT ![wtask[w]] = @ + 1]
  /\ Goto(w, "send")
  /\ UNCHANGED <<queueVars, tableVars, consVars, taskCh, wtask, werr,
                 status, retryCount, results, lifeVars>>

SendFails(w) ==
  /\ wpc[w] = "send"
  /\ GotoWith(w, "error", "send")
  /\ UNCHANGED <<queueVars, tableVars, consVars, taskCh, wtask, taskVars, lifeVars>>

(* Mutant: a success is not reported.                                      *)
SendSucceedsSilently(w) ==
  /\ wpc[w] = "send"
  /\ SetStatus(wtask[w], "SUCCESS")
  /\ Leave(w)
  /\ UNCHANGED <<queueVars, tableVars, consVars, taskCh, retryCount, sends, results, lifeVars>>

SendSucceeds(w) ==
  /\ wpc[w] = "send"
  /\ SetStatus(wtask[w], "SUCCESS") /\ Fire(wtask[w], "SUCCESS")
  /\ Leave(w)
  /\ UNCHANGED <<queueVars, tableVars, consVars, taskCh, retryCount, sends, lifeVars>>

(* The loop gives up on a cancelled context without a word.                *)
ErrorCancelled(w) ==
  /\ wpc[w] = "error" /\ ctxDone
  /\ Leave(w)
  /\ UNCHANGED <<queueVars, tableVars, consVars, taskCh, taskVars, lifeVars>>

(* Mutant: the count is compared before it is raised.                      *)
HandleRetryOneMore(w) ==
  LET t == wtask[w]
      n == retryCount[t] IN
  /\ wpc[w] = "error" /\ ~ctxDone
  /\ retryCount' = [retryCount EXCEPT ![t] = n + 1]
  /\ \/ /\ n > MaxRetry
        /\ SetStatus(t, "FAILED") /\ Fire(t, "FAILED")
        /\ Leave(w)
     \/ /\ n <= MaxRetry
        /\ SetStatus(t, "RETRYING")
        /\ Goto(w, "backoff")
        /\ UNCHANGED <<results, wtask, werr>>
  /\ UNCHANGED <<queueVars, tableVars, consVars, taskCh, sends, lifeVars>>

(* Mutant: retries are not counted.                                        *)
HandleRetryForever(w) ==
  /\ wpc[w] = "error" /\ ~ctxDone
  /\ SetStatus(wtask[w], "RETRYING")
  /\ Goto(w, "backoff")
  /\ UNCHANGED <<queueVars, tableVars, consVars, taskCh, wtask, werr,
                 retryCount, sends, results, lifeVars>>

(* handleRetry up to its wait.  It does not look at the kind of error.     *)
HandleRetry(w) ==
  LET t == wtask[w]
      n == retryCount[t] + 1 IN
  /\ wpc[w] = "error" /\ ~ctxDone
  /\ retryCount' = [retryCount EXCEPT ![t] = n]
  /\ \/ /\ n > MaxRetry
        /\ SetStatus(t, "FAILED") /\ Fire(t, "FAILED")
        /\ Leave(w)
     \/ /\ n <= MaxRetry
        /\ SetStatus(t, "RETRYING")
        /\ Goto(w, "backoff")
        /\ UNCHANGED <<results, wtask, werr>>
  /\ UNCHANGED <<queueVars, tableVars, consVars, taskCh, sends, lifeVars>>

(* Mutant: the task goes back into the channel, and the loop goes on too.  *)
BackoffRequeues(w) ==
  /\ wpc[w] = "backoff" /\ ~ctxDone /\ Len(taskCh) < Cardinality(Workers)
  /\ SetStatus(wtask[w], "PENDING")
  /\ taskCh' = Append(taskCh, wtask[w])
  /\ GotoWith(w, "loop", "none")
  /\ UNCHANGED <<queueVars, tableVars, consVars, wtask, retryCount, sends, results, lifeVars>>

(* The wait is over: handleRetry sets PENDING and the loop starts again,   *)
(* as it does after the ten seconds for an offline device.                 *)
BackoffEnds(w) ==
  /\ wpc[w] = "backoff" /\ ~ctxDone
  /\ SetStatus(wtask[w], "PENDING")
  /\ GotoWith(w, "loop", "none")
  /\ UNCHANGED <<queueVars, tableVars, consVars, taskCh, wtask,
                 retryCount, sends, results, lifeVars>>

OfflineEnds(w) ==
  /\ wpc[w] = "offline"
  /\ Goto(w, "loop")
  /\ UNCHANGED <<queueVars, tableVars, consVars, taskCh, wtask, werr, taskVars, lifeVars>>

(* Either wait is cut short by the cancelled context.                      *)
WaitCancelled(w) ==
  /\ wpc[w] \in {"backoff", "offline"} /\ ctxDone
  /\ Leave(w)
  /\ UNCHANGED <<queueVars, tableVars, consVars, taskCh, taskVars, lifeVars>>

-----------------------------------------------------------------------------
(* Start-up and Stop *)

(* App.Run registers the callback after Start has started the workers.     *)
OnTaskResult ==
  /\ ~cbReady
  /\ cbReady' = TRUE
  /\ UNCHANGED <<queueVars, tableVars, consVars, taskCh, workVars, taskVars, ctxDone, stopped, known, closeVars>>

StopCancel ==
  /\ ~ctxDone /\ cbReady
  /\ ctxDone' = TRUE
  /\ UNCHANGED <<queueVars, tableVars, consVars, taskCh, workVars, taskVars, cbReady, stopped, known, closeVars>>

(* Queue.Close lists the queues that exist ...                             *)
StopSnapshot ==
  /\ ctxDone /\ ~snapped
  /\ snapped' = TRUE /\ left' = known
  /\ UNCHANGED <<queueVars, tableVars, consVars, taskCh, workVars, taskVars,
                 cbReady, ctxDone, stopped, known>>

(* ... and closes those, one after the other.                              *)
StopClose(d) ==
  /\ d \in left
  /\ Q!Shut(d)
  /\ left' = left \ {d}
  /\ UNCHANGED <<tableVars, consVars, taskCh, workVars, taskVars,
                 cbReady, ctxDone, stopped, known, snapped>>

(* wg.Wait: every consumer and every worker has ended.                     *)
StopReturn ==
  /\ snapped /\ left = {} /\ ~stopped
  /\ \A d \in Started : cpc[d] = "done"
  /\ \A w \in Workers : wpc[w] = "done"
  /\ stopped' = TRUE
  /\ UNCHANGED <<queueVars, tableVars, consVars, taskCh, workVars, taskVars,
                 cbReady, ctxDone, known, closeVars>>

-----------------------------------------------------------------------------
Dispatch ==
  \/ \E t \in Tasks : Enqueue(t)
  \/ \E d \in Devices : \E i \in DOMAIN queue[d] : Cancel(d, i)
  \/ \E d \in Devices, v \in DeviceViews : DeviceMessage(d, v)

ConsumerStep(d) ==
  ConsumerLoop(d) \/ ConsumerCreate(d) \/ ConsumerTake(d) \/ ConsumerClosed(d)
Attempt(w) ==
  \/ LoopHead(w) \/ LookupFails(w) \/ LookupOffline(w) \/ LookupReady(w)
  \/ LoadFails(w) \/ SendBegin(w)
SendStep(w) == SendFails(w) \/ SendSucceeds(w)
Recover(w) ==
  ErrorCancelled(w) \/ HandleRetry(w) \/ BackoffEnds(w) \/ OfflineEnds(w) \/ WaitCancelled(w)
TaskStep(w) == Attempt(w) \/ SendStep(w) \/ Recover(w)
StopStep == StopSnapshot \/ StopReturn \/ \E d \in Devices : StopClose(d)

Next ==
  \/ Dispatch
  \/ \E d \in Started : ConsumerStep(d) \/ ConsumerSend(d) \/ ConsumerDrop(d)
  \/ \E w \in Workers : WorkerReceive(w) \/ WorkerExit(w) \/ TaskStep(w)
  \/ OnTaskResult \/ StopCancel \/ StopStep

Spec == Init /\ [][Next]_vars

(* Goroutines keep running: consumers, workers, timers and a Stop once     *)
(* begun.  Nothing is assumed of SendStep: an LPR printer that stays       *)
(* silent keeps Send for ever.  A sender blocked on taskCh is served in    *)
(* turn, Go's channels queue their senders, hence the strong fairness.     *)
Fairness ==
  /\ \A d \in Started :
       WF_vars(ConsumerStep(d)) /\ SF_vars(ConsumerSend(d)) /\ WF_vars(ConsumerDrop(d))
  /\ \A w \in Workers :
       WF_vars(WorkerReceive(w)) /\ WF_vars(WorkerExit(w))
       /\ WF_vars(Attempt(w) \/ Recover(w))
  /\ WF_vars(OnTaskResult) /\ WF_vars(StopStep)

FairSpec == Spec /\ Fairness

-----------------------------------------------------------------------------
ConsPcs == {"loop", "create", "dequeue", "send", "done"}
WorkPcs == {"idle", "loop", "lookup", "load", "send", "error", "backoff", "offline", "done"}

(* Types; a consumer or worker holds a task exactly where it works on one. *)
DataTypes ==
  /\ queue \in [Devices -> Seq(Tasks)] /\ given \in [Devices -> Seq(Tasks)]
  /\ shut \subseteq Devices /\ known \subseteq Devices /\ left \subseteq Devices
  /\ arrived \subseteq Tasks
  /\ device \in [Devices -> DeviceViews]
  /\ cpc \in [Started -> ConsPcs] /\ hold \in [Started -> Tasks \cup {NoTask}]
  /\ \A d \in Started : hold[d] # NoTask <=> cpc[d] = "send"
  /\ taskCh \in Seq(Tasks) /\ Len(taskCh) <= Cardinality(Workers)
  /\ wpc \in [Workers -> WorkPcs] /\ wtask \in [Workers -> Tasks \cup {NoTask}]
  /\ \A w \in Workers : wtask[w] # NoTask <=> wpc[w] \notin {"idle", "done"}
  /\ werr \in [Workers -> Errors]
  /\ status \in [Tasks -> TaskStatus]
  /\ retryCount \in [Tasks -> Nat] /\ sends \in [Tasks -> Nat]
  /\ results \in [Tasks -> Seq(TaskStatus)]

FlagTypes ==
  cbReady \in BOOLEAN /\ ctxDone \in BOOLEAN /\ stopped \in BOOLEAN /\ snapped \in BOOLEAN

TypeOK == DataTypes /\ FlagTypes

(* Where a delivery is.                                                    *)
Places(t) ==
  {<<"queue", d, i>> : d \in {DeviceOf[t]}, i \in {j \in DOMAIN queue[DeviceOf[t]] : queue[DeviceOf[t]][j] = t}}
  \cup {<<"hold", d, 1>> : d \in {c \in Started : hold[c] = t}}
  \cup {<<"channel", "ch", i>> : i \in {j \in DOMAIN taskCh : taskCh[j] = t}}
  \cup {<<"worker", w, 1>> : w \in {u \in Workers : wtask[u] = t}}
Given(t) == \E i \in DOMAIN given[DeviceOf[t]] : given[DeviceOf[t]][i] = t

(* A delivery is in one place at most: two workers never print the same    *)
(* one, and none is both with a worker and on its way to another.          *)
InOnePlace == \A t \in Tasks : Cardinality(Places(t)) <= 1

(* Until Stop, a delivery that left the queue is still with a consumer, in *)
(* the channel or with a worker, or it has come to an end: nothing is      *)
(* dropped on the way between the goroutines.                              *)
NothingDropped ==
  ~ctxDone => \A t \in Tasks : Given(t) => Places(t) # {} \/ IsTerminal(status[t])

(* However errors, device changes and offline waits alternate, a document  *)
(* goes to the printer at most MaxRetry + 1 times and the cloud hears of   *)
(* it at most MaxRetry + 2 times.                                          *)
AttemptsBounded ==
  \A t \in Tasks : sends[t] <= MaxRetry + 1 /\ Len(results[t]) <= MaxRetry + 2

(* Until Stop, once the executor is through with a task the last result    *)
(* the cloud got is the status the task ended with, although a FAILED may  *)
(* have been reported before a retry.                                      *)
LastReportStands ==
  ~ctxDone => \A t \in Tasks :
    results[t] # <<>> /\ Places(t) = {} => results[t][Len(results[t])] = status[t]

(* A printed task is left alone: no later step sends it, reports it or     *)
(* changes its status.                                                     *)
PrintedIsFinal ==
  [][\A t \in Tasks :
       sends[t] > 0 /\ status[t] = "SUCCESS" =>
         status'[t] = "SUCCESS" /\ sends'[t] = sends[t] /\ results'[t] = results[t]]_vars

(* Every call of an adapter comes back, which an LPR printer that does not *)
(* answer falsifies.                                                       *)
SendsReturn == \A w \in Workers : []<>(wpc[w] # "send")

(* If every call of an adapter comes back and from some point on no device *)
(* is marked offline, every task queued for a device with a consumer is    *)
(* worked off, cancelled or overtaken by Stop: retries and full channels   *)
(* do not wedge the pool.                                                  *)
WorkedOff ==
  SendsReturn /\ <>[](\A d \in Devices : device[d] # "offline") =>
    \A t \in Tasks :
      (DeviceOf[t] \in Started /\ Places(t) # {}) ~> (Places(t) = {} \/ ctxDone)

(* A consumer in, or about to create, a queue that came into being after   *)
(* Close had listed the queues: nothing will ever close it.                *)
Missed ==
  snapped /\ \E d \in Started : cpc[d] \in {"create", "dequeue"} /\ d \notin shut \cup left

(* Stop returns, whatever the consumers and workers were doing, unless an  *)
(* adapter never returns or a consumer is left for good in a queue that    *)
(* Close did not see.                                                      *)
StopTerminates == SendsReturn /\ []<>~Missed => (ctxDone ~> stopped)

(* README.md: one task at a time, so that tasks do not clash on a printer. *)
SerialPerDevice ==
  \A v, w \in Workers :
    v # w /\ wpc[v] = "send" /\ wpc[w] = "send" => DeviceOf[wtask[v]] # DeviceOf[wtask[w]]
=============================================================================
