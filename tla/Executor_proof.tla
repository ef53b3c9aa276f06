---------------------------- MODULE Executor_proof ----------------------------
(***************************************************************************)
(* Proofs about Executor for any devices, consumers, workers, deliveries,  *)
(* queue capacity and number of retries.                                   *)
(***************************************************************************)
EXTENDS Executor, SequenceLemmas, FiniteSetTheorems

-----------------------------------------------------------------------------
(* The inductive invariant *)

(* The places a delivery can be at.                                        *)
Queued(t) == \E i \in DOMAIN queue[DeviceOf[t]] : queue[DeviceOf[t]][i] = t
Held(t) == \E d \in Started : hold[d] = t
InChannel(t) == \E i \in DOMAIN taskCh : taskCh[i] = t
Worked(t) == \E w \in Workers : wtask[w] = t
Waiting(t) == Queued(t) \/ Held(t) \/ InChannel(t)

(* A device's queue and consumer have only tasks for the device.           *)
OwnDevice ==
  /\ \A d \in Devices : \A i \in DOMAIN queue[d] : DeviceOf[queue[d][i]] = d
  /\ \A d \in Started : hold[d] # NoTask => DeviceOf[hold[d]] = d

(* No place has a delivery twice.                                          *)
NoCopies ==
  /\ \A d \in Devices : \A i, j \in DOMAIN queue[d] : queue[d][i] = queue[d][j] => i = j
  /\ \A i, j \in DOMAIN taskCh : taskCh[i] = taskCh[j] => i = j
  /\ \A v, w \in Workers : wtask[v] = wtask[w] /\ wtask[v] # NoTask => v = w

(* No two places have the same delivery, and all have arrived; none is     *)
(* handed out while it waits in its queue.                                 *)
Apart ==
  \A t \in Tasks :
    /\ Queued(t) => ~Held(t) /\ ~InChannel(t) /\ ~Worked(t) /\ ~Given(t)
    /\ Held(t) => ~InChannel(t) /\ ~Worked(t)
    /\ InChannel(t) => ~Worked(t)
    /\ Waiting(t) \/ Worked(t) \/ Given(t) => t \in arrived

Placed == OwnDevice /\ NoCopies /\ Apart

(* A delivery no worker has seen has not been printed or reported.         *)
Unseen(t) == t \notin arrived \/ Waiting(t)
Fresh ==
  \A t \in Tasks : Unseen(t) => sends[t] = 0 /\ retryCount[t] = 0 /\ results[t] = <<>>

(* A worker's task at each point pc of its attempt: how many retries n,    *)
(* prints k and reports r it can have behind it, and its status s, which   *)
(* before an attempt is PENDING or the one the cloud sent.                 *)
Progress(pc, s, n, k, r) ==
  /\ n <= MaxRetry
  /\ k <= n + (IF pc \in {"send", "error"} THEN 1 ELSE 0)
  /\ Len(r) <= n + (IF pc = "error" THEN 1 ELSE 0)
  /\ pc \in {"loop", "lookup", "offline"} => s = "PENDING" \/ (k = 0 /\ r = <<>>)
  /\ pc \in {"load", "send"} => s = "RUNNING"
  /\ pc = "error" => s \in {"RUNNING", "FAILED"}
  /\ pc = "backoff" => s = "RETRYING"
InProgress(w, t) == Progress(wpc[w], status[t], retryCount[t], sends[t], results[t])
Attempts == \A w \in Workers : wtask[w] # NoTask => InProgress(w, wtask[w])

(* What was reported was reported to a callback; until Stop, the last      *)
(* report on a task that is nowhere any more is its status, and a task     *)
(* that was handed out is somewhere or ended.                              *)
Reported == \A t \in Tasks : results[t] # <<>> => cbReady
LastReport ==
  ~ctxDone => \A t \in Tasks :
    results[t] # <<>> /\ ~Waiting(t) /\ ~Worked(t) => results[t][Len(results[t])] = status[t]
Kept ==
  ~ctxDone => \A t \in Tasks : Given(t) => Waiting(t) \/ Worked(t) \/ IsTerminal(status[t])

Content == Fresh /\ Attempts /\ Reported /\ LastReport /\ Kept /\ AttemptsBounded

IInv == Placed /\ Content

-----------------------------------------------------------------------------
(* Types *)

(* What the steps need of the constants.                                   *)
LEMMA ConstantTypes ==
  /\ Started \subseteq Devices /\ DeviceOf \in [Tasks -> Devices]
  /\ SentStatus \in [Tasks -> TaskStatus] /\ MaxRetry \in Nat
  /\ NoTask \notin Tasks /\ Cardinality(Workers) \in Nat
BY ExecutorAssumption, FS_CardinalityType

(* fireTaskResult appends to what was reported, or does nothing.           *)
LEMMA FireTypes ==
  ASSUME DataTypes, NEW t \in Tasks, NEW s \in {"FAILED", "SUCCESS"}, Fire(t, s)
  PROVE  results' \in [Tasks -> Seq(TaskStatus)]
<1>1. results \in [Tasks -> Seq(TaskStatus)] /\ results[t] \in Seq(TaskStatus) /\ s \in TaskStatus
  BY DEF DataTypes, TaskStatus
<1>2. Append(results[t], s) \in Seq(TaskStatus)
  BY <1>1, AppendElements
<1>3. results' = results \/ results' = [results EXCEPT ![t] = Append(results[t], s)]
  BY DEF Fire
<1> QED
  BY <1>1, <1>2, <1>3

(* The counters of a task are natural numbers.                             *)
LEMMA CountTypes ==
  ASSUME DataTypes, NEW t \in Tasks
  PROVE  /\ sends[t] \in Nat /\ sends[t] + 1 \in Nat
         /\ retryCount[t] \in Nat /\ retryCount[t] + 1 \in Nat
BY DEF DataTypes

(* The flags are Booleans after every step.                                *)
LEMMA FlagsTyped == FlagTypes /\ [Next]_vars => FlagTypes'
<1> SUFFICES ASSUME FlagTypes, [Next]_vars PROVE FlagTypes'
  OBVIOUS
<1> USE DEF FlagTypes, Next, Dispatch, Enqueue, Cancel, DeviceMessage, ConsumerStep, ConsumerLoop,
     ConsumerTake, ConsumerClosed, ConsumerSend, ConsumerDrop, WorkerReceive, WorkerExit, TaskStep,
     Attempt, Recover, LoopHead, LookupFails, LookupOffline, LookupReady, LoadFails, SendBegin,
     SendFails, SendSucceeds, ErrorCancelled, HandleRetry, BackoffEnds, OfflineEnds, WaitCancelled,
     OnTaskResult, StopCancel, StopStep, StopSnapshot, StopClose, StopReturn, ConsumerCreate, SendStep,
     vars, lifeVars, closeVars
<1>1. cbReady' \in BOOLEAN
  BY Zenon
<1>2. ctxDone' \in BOOLEAN
  BY Zenon
<1>3. stopped' \in BOOLEAN
  BY Zenon
<1>4. snapped' \in BOOLEAN
  BY Zenon
<1> QED
  BY <1>1, <1>2, <1>3, <1>4

(* Every reachable state of the queues, the consumers and the workers is   *)
(* well typed; each holds a task exactly where it works on one.            *)
THEOREM TypeCorrect == Spec => []TypeOK
<1>1. Init => DataTypes
  BY ConstantTypes DEF Init, Q!Init, DataTypes, ConsPcs, WorkPcs, Errors
<1>2. DataTypes /\ [Next]_vars => DataTypes'
  <2> SUFFICES ASSUME DataTypes, [Next]_vars PROVE DataTypes'
    OBVIOUS
  <2> USE ConstantTypes DEF DataTypes, ConsPcs, WorkPcs, Errors, TaskStatus, queueVars, tableVars,
      consVars, workVars, taskVars, lifeVars, closeVars
  <2>1. ASSUME NEW d \in Devices, NEW v \in DeviceViews, DeviceMessage(d, v) PROVE DataTypes'
    BY <2>1 DEF DeviceMessage
  <2>2. ASSUME NEW d \in Started, ConsumerLoop(d) PROVE DataTypes'
    BY <2>2 DEF ConsumerLoop
  <2>25. ASSUME NEW d \in Started, ConsumerCreate(d) PROVE DataTypes'
    BY <2>25 DEF ConsumerCreate
  <2>3. ASSUME NEW d \in Started, ConsumerClosed(d) PROVE DataTypes'
    BY <2>3 DEF ConsumerClosed
  <2>4. ASSUME NEW d \in Started, ConsumerDrop(d) PROVE DataTypes'
    BY <2>4 DEF ConsumerDrop
  <2>5. ASSUME NEW w \in Workers, WorkerExit(w) PROVE DataTypes'
    BY <2>5 DEF WorkerExit, Goto
  <2>6. ASSUME NEW w \in Workers, LoopHead(w) PROVE DataTypes'
    BY <2>6, ZenonT(60) DEF LoopHead, Leave, Goto, GotoWith
  <2>7. ASSUME NEW w \in Workers, LookupOffline(w) PROVE DataTypes'
    BY <2>7 DEF LookupOffline, Goto
  <2>8. ASSUME NEW w \in Workers, LookupReady(w) PROVE DataTypes'
    BY <2>8 DEF LookupReady, SetStatus, Goto
  <2>9. ASSUME NEW w \in Workers, LoadFails(w) \/ SendFails(w) PROVE DataTypes'
    BY <2>9, ZenonT(60) DEF LoadFails, SendFails, Goto, GotoWith
  <2>10. ASSUME NEW w \in Workers, ErrorCancelled(w) \/ WaitCancelled(w) PROVE DataTypes'
    BY <2>10, ZenonT(60) DEF ErrorCancelled, WaitCancelled, Leave, Goto, GotoWith
  <2>11. ASSUME NEW w \in Workers, BackoffEnds(w) PROVE DataTypes'
    BY <2>11 DEF BackoffEnds, SetStatus, Goto, GotoWith
  <2>12. ASSUME NEW w \in Workers, OfflineEnds(w) PROVE DataTypes'
    BY <2>12 DEF OfflineEnds, Goto
  <2>13. ASSUME NEW d \in Devices, StopClose(d) PROVE DataTypes'
    BY <2>13 DEF StopClose, Q!Shut
  <2>14. CASE OnTaskResult \/ StopCancel \/ StopSnapshot \/ StopReturn
    BY <2>14 DEF OnTaskResult, StopCancel, StopSnapshot, StopReturn
  <2>15. CASE UNCHANGED vars
    BY <2>15 DEF vars
  <2>16. ASSUME NEW t \in Tasks, Enqueue(t) PROVE DataTypes'
    <3> DEFINE d == DeviceOf[t]
    <3>1. d \in Devices /\ Append(queue[d], t) \in Seq(Tasks)
      BY ConstantTypes, AppendElements
    <3>2. queue' = queue \/ queue' = [queue EXCEPT ![d] = Append(queue[d], t)]
      BY <2>16 DEF Enqueue, Q!Put
    <3>3. queue' \in [Devices -> Seq(Tasks)]
      BY <3>1, <3>2
    <3> QED
      BY <2>16, <3>3 DEF Enqueue, Q!Put
  <2>17. ASSUME NEW d \in Devices, NEW i \in DOMAIN queue[d], Cancel(d, i) PROVE DataTypes'
    <3>0. queue[d] \in Seq(Tasks)
      OBVIOUS
    <3>1. queue[d] \in Seq(Tasks) /\ i \in 1..Len(queue[d])
      BY ONLY <3>0, i \in DOMAIN queue[d], LenProperties
    <3>2. Q!RemoveAt(queue[d], i) \in Seq(Tasks)
      BY <3>1, RemoveAtElements DEF RemoveAt, Q!RemoveAt
    <3> QED
      BY <2>17, <3>2 DEF Cancel, Q!Withdraw
  <2>18. ASSUME NEW d \in Started, ConsumerTake(d) PROVE DataTypes'
    <3>1. d \in Devices /\ queue[d] \in Seq(Tasks) /\ queue[d] # <<>>
      BY <2>18, ConstantTypes DEF ConsumerTake, Q!Take
    <3>2. PICK h \in Tasks : h = Head(queue[d]) /\ Tail(queue[d]) \in Seq(Tasks)
      BY <3>1, TailElements
    <3>3. /\ given' = [given EXCEPT ![d] = Append(given[d], h)]
          /\ queue' = [queue EXCEPT ![d] = Tail(queue[d])]
          /\ hold' = [hold EXCEPT ![d] = h] /\ cpc' = [cpc EXCEPT ![d] = "send"]
          /\ UNCHANGED <<shut, tableVars, taskCh, workVars, taskVars, lifeVars>>
      BY <2>18, <3>2 DEF ConsumerTake, Q!Take
    <3>4. Append(given[d], h) \in Seq(Tasks)
      BY <3>1, <3>2, AppendElements
    <3> QED
      BY <3>1, <3>2, <3>3, <3>4, ConstantTypes
  <2>19. ASSUME NEW d \in Started, ConsumerSend(d) PROVE DataTypes'
    <3>1. hold[d] \in Tasks /\ taskCh \in Seq(Tasks) /\ Len(taskCh) < Cardinality(Workers)
      BY <2>19 DEF ConsumerSend
    <3>2. /\ taskCh' = Append(taskCh, hold[d]) /\ hold' = [hold EXCEPT ![d] = NoTask]
          /\ cpc' = [cpc EXCEPT ![d] = "loop"]
          /\ UNCHANGED <<queueVars, tableVars, workVars, taskVars, lifeVars>>
      BY <2>19 DEF ConsumerSend
    <3>3. taskCh' \in Seq(Tasks) /\ Len(taskCh') <= Cardinality(Workers)
      <4> HIDE DEF DataTypes
      <4> QED
        BY <3>1, <3>2, AppendElements, ConstantTypes
    <3>4. UNCHANGED <<queue, given, shut, known, left, arrived, device, wpc, wtask, werr, status,
                      retryCount, sends, results>>
      BY <3>2
    <3>5. hold' \in [Started -> Tasks \cup {NoTask}] /\ cpc' \in [Started -> ConsPcs]
          /\ \A c \in Started : hold'[c] # NoTask <=> cpc'[c] = "send"
      BY <3>2
    <3> QED
      BY <3>3, <3>4, <3>5
  <2>20. ASSUME NEW w \in Workers, WorkerReceive(w) PROVE DataTypes'
    <3>1. taskCh \in Seq(Tasks) /\ taskCh # <<>> /\ Len(taskCh) <= Cardinality(Workers)
      BY <2>20 DEF WorkerReceive
    <3>2. PICK h \in Tasks : h = Head(taskCh)
      BY <3>1, TailElements
    <3>3. /\ wtask' = [wtask EXCEPT ![w] = h] /\ wpc' = [wpc EXCEPT ![w] = "loop"]
          /\ UNCHANGED <<queueVars, tableVars, consVars, werr, taskVars, lifeVars>>
      BY <2>20, <3>2 DEF WorkerReceive, Goto
    <3>4. taskCh' \in Seq(Tasks) /\ Len(taskCh') <= Cardinality(Workers)
      <4>1. taskCh' = Tail(taskCh)
        BY <2>20 DEF WorkerReceive
      <4> HIDE DEF DataTypes
      <4> QED
        BY <3>1, <4>1, TailElements, LenProperties, ConstantTypes
    <3> QED
      BY <3>2, <3>3, <3>4, ConstantTypes
  <2>21. ASSUME NEW w \in Workers, LookupFails(w) PROVE DataTypes'
    <3> DEFINE t == wtask[w]
               v == device[DeviceOf[t]]
    <3>0. /\ wpc[w] = "lookup" /\ SetStatus(t, "FAILED") /\ Fire(t, "FAILED")
          /\ GotoWith(w, "error", IF v = "missing" THEN "notfound" ELSE "noadapter")
          /\ UNCHANGED <<queueVars, tableVars, consVars, taskCh, wtask, retryCount, sends, lifeVars>>
      BY <2>21 DEF LookupFails
    <3> HIDE DEF v
    <3>1. t \in Tasks
      BY <3>0
    <3>2. results' \in [Tasks -> Seq(TaskStatus)]
      BY <3>0, <3>1, FireTypes
    <3> QED
      BY <3>0, <3>1, <3>2 DEF SetStatus, Goto, GotoWith
  <2>22. ASSUME NEW w \in Workers, SendBegin(w) PROVE DataTypes'
    <3>1. wtask[w] \in Tasks
      BY <2>22 DEF SendBegin
    <3> DEFINE n == sends[wtask[w]] + 1
    <3>2. n \in Nat /\ sends' = [sends EXCEPT ![wtask[w]] = n]
      BY <2>22, <3>1, CountTypes DEF SendBegin
    <3> HIDE DEF n
    <3>3. sends' \in [Tasks -> Nat]
      BY <3>1, <3>2
    <3>4. /\ wpc' = [wpc EXCEPT ![w] = "send"]
          /\ UNCHANGED <<queueVars, tableVars, consVars, taskCh, wtask, werr, status, retryCount,
                         results, lifeVars>>
      BY <2>22 DEF SendBegin, Goto
    <3> QED
      BY <3>1, <3>3, <3>4
  <2>23. ASSUME NEW w \in Workers, SendSucceeds(w) PROVE DataTypes'
    <3>1. wtask[w] \in Tasks
      BY <2>23 DEF SendSucceeds
    <3>2. results' \in [Tasks -> Seq(TaskStatus)]
      BY <2>23, <3>1, FireTypes DEF SendSucceeds
    <3> QED
      BY <2>23, <3>1, <3>2 DEF SendSucceeds, SetStatus, Leave, Goto, GotoWith
  <2>24. ASSUME NEW w \in Workers, HandleRetry(w) PROVE DataTypes'
    <3> DEFINE t == wtask[w]
               n == retryCount[t] + 1
    <3>1. t \in Tasks
      BY <2>24 DEF HandleRetry
    <3>2. n \in Nat /\ retryCount' = [retryCount EXCEPT ![t] = n]
      BY <2>24, <3>1, CountTypes DEF HandleRetry
    <3>3. \/ SetStatus(t, "FAILED") /\ Fire(t, "FAILED") /\ Leave(w)
          \/ SetStatus(t, "RETRYING") /\ Goto(w, "backoff") /\ UNCHANGED <<results, wtask, werr>>
      BY <2>24 DEF HandleRetry
    <3>4. UNCHANGED <<queueVars, tableVars, consVars, taskCh, sends, lifeVars>>
      BY <2>24 DEF HandleRetry
    <3> HIDE DEF n, t
    <3>5. retryCount' \in [Tasks -> Nat]
      BY <3>1, <3>2
    <3>6. results' \in [Tasks -> Seq(TaskStatus)]
      BY <3>1, <3>3, FireTypes
    <3>7. CASE SetStatus(t, "FAILED") /\ Leave(w)
      BY <3>1, <3>4, <3>5, <3>6, <3>7 DEF SetStatus, Leave, Goto, GotoWith
    <3>8. CASE SetStatus(t, "RETRYING") /\ Goto(w, "backoff") /\ UNCHANGED <<wtask, werr>>
      <4>1. wtask[w] # NoTask
        BY <3>1 DEF t
      <4> QED
        BY <3>1, <3>4, <3>5, <3>6, <3>8, <4>1 DEF SetStatus, Goto
    <3> QED
      BY <3>3, <3>7, <3>8
  <2> QED
    BY <2>1, <2>2, <2>3, <2>4, <2>5, <2>6, <2>7, <2>8, <2>9, <2>10, <2>11, <2>12, <2>13,
       <2>14, <2>15, <2>16, <2>17, <2>18, <2>19, <2>20, <2>21, <2>22, <2>23, <2>24,
       <2>25 DEF Next, Dispatch, ConsumerStep, TaskStep, Attempt, SendStep, Recover, StopStep
<1>3. Init => FlagTypes
  BY Zenon DEF Init, FlagTypes
<1> QED
  BY <1>1, <1>2, <1>3, FlagsTyped, PTL DEF Spec, TypeOK

-----------------------------------------------------------------------------
(* The two kinds of step *)

(* A step that moves deliveries but changes none: what waits afterwards    *)
(* was waiting or new, a worker keeps its task and its place in it or      *)
(* starts one from the channel, and nothing handed out gets lost.          *)
Carry ==
  /\ UNCHANGED taskVars
  /\ cbReady => cbReady'
  /\ ctxDone => ctxDone'
  /\ \A u \in Tasks : Unseen(u)' => Unseen(u)
  /\ \A u \in Tasks : Worked(u) => Worked(u)'
  /\ \A w \in Workers :
       wtask'[w] # NoTask =>
         \/ wtask'[w] = wtask[w] /\ wpc'[w] = wpc[w]
         \/ InChannel(wtask'[w]) /\ wpc'[w] = "loop"
  /\ ~ctxDone' => \A u \in Tasks :
       Given(u)' => Waiting(u)' \/ Worked(u)' \/ (Given(u) /\ ~Waiting(u) /\ ~Worked(u))

(* Handing a task on keeps the invariant.                                  *)
LEMMA CarryKeeps ==
  ASSUME DataTypes, DataTypes', IInv, Carry
  PROVE  Content'
<1>1. UNCHANGED <<status, retryCount, sends, results>>
  BY DEF Carry, taskVars
<1>2. Fresh'
  BY <1>1 DEF Carry, IInv, Content, Fresh
<1>3. Attempts'
  <2> SUFFICES ASSUME NEW w \in Workers, wtask'[w] # NoTask
               PROVE  Progress(wpc'[w], status[wtask'[w]], retryCount[wtask'[w]],
                               sends[wtask'[w]], results[wtask'[w]])
    BY <1>1 DEF Attempts, InProgress
  <2>1. CASE wtask'[w] = wtask[w] /\ wpc'[w] = wpc[w]
    BY <2>1 DEF IInv, Content, Attempts, InProgress
  <2>2. CASE InChannel(wtask'[w]) /\ wpc'[w] = "loop"
    <3>1. PICK t \in Tasks : t = wtask'[w]
      BY DEF DataTypes
    <3>2. sends[t] = 0 /\ retryCount[t] = 0 /\ results[t] = <<>>
      BY <2>2, <3>1 DEF IInv, Content, Fresh, Unseen, Waiting
    <3>3. Progress("loop", status[t], 0, 0, <<>>)
      BY ConstantTypes DEF Progress
    <3> QED
      BY <2>2, <3>1, <3>2, <3>3
  <2> QED
    BY <2>1, <2>2 DEF Carry
<1>4. Reported'
  BY <1>1 DEF Carry, IInv, Content, Reported
<1>5. LastReport'
  <2> SUFFICES ASSUME ~ctxDone', NEW t \in Tasks, results[t] # <<>>, ~Worked(t)'
               PROVE  results[t][Len(results[t])] = status[t]
    BY <1>1 DEF LastReport
  <2>1. ~ctxDone /\ ~Waiting(t) /\ ~Worked(t)
    BY DEF Carry, IInv, Content, Fresh, Unseen
  <2> QED
    BY <2>1 DEF IInv, Content, LastReport
<1>6. Kept'
  <2> SUFFICES ASSUME ~ctxDone', NEW t \in Tasks, Given(t)'
               PROVE  Waiting(t)' \/ Worked(t)' \/ IsTerminal(status[t])
    BY <1>1 DEF Kept
  <2>1. ~ctxDone /\ (Waiting(t)' \/ Worked(t)' \/ (Given(t) /\ ~Waiting(t) /\ ~Worked(t)))
    BY DEF Carry
  <2> QED
    BY <2>1 DEF IInv, Content, Kept
<1>7. AttemptsBounded'
  BY <1>1 DEF IInv, Content, AttemptsBounded
<1> QED
  BY <1>2, <1>3, <1>4, <1>5, <1>6, <1>7 DEF Content

(* A step of worker w on its task: no other delivery and no other place is *)
(* touched; w goes on with the task in a proper state, or leaves it.       *)
WorkStep(w) ==
  LET t == wtask[w] IN
  /\ t \in Tasks
  /\ UNCHANGED <<queueVars, tableVars, consVars, taskCh, lifeVars>>
  /\ \A v \in Workers \ {w} : wtask'[v] = wtask[v] /\ wpc'[v] = wpc[v]
  /\ \A u \in Tasks \ {t} : /\ status'[u] = status[u] /\ retryCount'[u] = retryCount[u]
                            /\ sends'[u] = sends[u] /\ results'[u] = results[u]
  /\ sends'[t] <= MaxRetry + 1 /\ Len(results'[t]) <= MaxRetry + 2
  /\ results'[t] # <<>> => cbReady
  /\ \/ /\ wtask'[w] = t
        /\ Progress(wpc'[w], status'[t], retryCount'[t], sends'[t], results'[t])
     \/ /\ wtask'[w] = NoTask
        /\ ~ctxDone => /\ IsTerminal(status'[t])
                       /\ results'[t] # <<>> => results'[t][Len(results'[t])] = status'[t]

(* One worker's step on its own task keeps the invariant.                  *)
LEMMA WorkStepKeeps ==
  ASSUME DataTypes, DataTypes', IInv, NEW w \in Workers, WorkStep(w)
  PROVE  IInv'
<1>0. PICK t \in Tasks : t = wtask[w]
  BY DEF WorkStep
<1>1. /\ t \in Tasks /\ NoTask \notin Tasks
      /\ UNCHANGED <<queue, given, arrived, hold, taskCh, cbReady, ctxDone>>
      /\ \A v \in Workers \ {w} : wtask'[v] = wtask[v] /\ wpc'[v] = wpc[v]
      /\ \A u \in Tasks \ {t} : /\ status'[u] = status[u] /\ retryCount'[u] = retryCount[u]
                                /\ sends'[u] = sends[u] /\ results'[u] = results[u]
  BY <1>0, ConstantTypes DEF WorkStep, queueVars, tableVars, consVars, lifeVars
<1>2. /\ sends'[t] <= MaxRetry + 1 /\ Len(results'[t]) <= MaxRetry + 2
      /\ results'[t] # <<>> => cbReady
      /\ \/ /\ wtask'[w] = t
            /\ Progress(wpc'[w], status'[t], retryCount'[t], sends'[t], results'[t])
         \/ /\ wtask'[w] = NoTask
            /\ ~ctxDone => /\ IsTerminal(status'[t])
                           /\ results'[t] # <<>> => results'[t][Len(results'[t])] = status'[t]
  BY <1>0 DEF WorkStep
<1>3. /\ \A v \in Workers : wtask'[v] # NoTask => wtask'[v] = wtask[v]
      /\ \A u \in Tasks : u # t /\ Worked(u) => Worked(u)'
      /\ \A u \in Tasks : Worked(u)' => Worked(u)
      /\ Worked(t) /\ (Worked(t)' <=> wtask'[w] = t)
  <2>1. \A v \in Workers : wtask'[v] # NoTask => wtask'[v] = wtask[v]
    BY <1>0, <1>1, <1>2
  <2>2. \A u \in Tasks : u # t /\ Worked(u) => Worked(u)'
    BY <1>0, <1>1 DEF Worked
  <2>3. \A u \in Tasks : Worked(u)' => Worked(u)
    BY <1>1, <2>1 DEF Worked
  <2>4. Worked(t)
    BY <1>0 DEF Worked
  <2>5. Worked(t)' => wtask'[w] = t
    BY <1>0, <1>1, <2>1 DEF Worked, IInv, Placed, NoCopies
  <2>6. wtask'[w] = t => Worked(t)'
    BY DEF Worked
  <2> QED
    BY <2>1, <2>2, <2>3, <2>4, <2>5, <2>6
<1>4. \A u \in Tasks : /\ Queued(u)' <=> Queued(u)
                       /\ Held(u)' <=> Held(u)
                       /\ InChannel(u)' <=> InChannel(u)
                       /\ Given(u)' <=> Given(u)
                       /\ Unseen(u)' <=> Unseen(u)
                       /\ Waiting(u)' <=> Waiting(u)
  BY <1>1 DEF Queued, Held, InChannel, Given, Unseen, Waiting
<1>5. ~Unseen(t) /\ ~Waiting(t)
  BY <1>1, <1>3 DEF IInv, Placed, Apart, Unseen, Waiting
<1>6. Placed'
  <2>1. OwnDevice'
    BY <1>1 DEF IInv, Placed, OwnDevice
  <2>2. NoCopies'
    BY <1>1, <1>3 DEF IInv, Placed, NoCopies
  <2>3. Apart'
    BY <1>1, <1>3, <1>4 DEF IInv, Placed, Apart
  <2> QED
    BY <2>1, <2>2, <2>3 DEF Placed
<1>7. Fresh'
  BY <1>1, <1>4, <1>5 DEF IInv, Content, Fresh
<1>8. Attempts'
  <2> SUFFICES ASSUME NEW v \in Workers, wtask'[v] # NoTask
               PROVE  Progress(wpc'[v], status'[wtask'[v]], retryCount'[wtask'[v]],
                               sends'[wtask'[v]], results'[wtask'[v]])
    BY DEF Attempts, InProgress
  <2>1. CASE v = w
    BY <1>1, <1>2, <2>1
  <2>2. CASE v # w
    <3>1. wtask'[v] = wtask[v] /\ wpc'[v] = wpc[v] /\ wtask[v] # t /\ wtask[v] \in Tasks
      BY <1>0, <1>1, <2>2 DEF IInv, Placed, NoCopies, DataTypes
    <3>2. Progress(wpc[v], status[wtask[v]], retryCount[wtask[v]], sends[wtask[v]],
                   results[wtask[v]])
      BY <3>1 DEF IInv, Content, Attempts, InProgress
    <3> QED
      BY <1>1, <3>1, <3>2
  <2> QED
    BY <2>1, <2>2
<1>9. Reported'
  BY <1>1, <1>2 DEF IInv, Content, Reported
<1>10. LastReport'
  <2> SUFFICES ASSUME ~ctxDone, NEW u \in Tasks, results'[u] # <<>>, ~Waiting(u), ~Worked(u)'
               PROVE  results'[u][Len(results'[u])] = status'[u]
    BY <1>1, <1>4 DEF LastReport
  <2>1. CASE u = t
    BY <1>1, <1>2, <1>3, <2>1
  <2>2. CASE u # t
    <3>1. ~Worked(u) /\ results'[u] = results[u] /\ status'[u] = status[u]
      BY <1>1, <1>3, <2>2
    <3> QED
      BY <3>1 DEF IInv, Content, LastReport
  <2> QED
    BY <2>1, <2>2
<1>11. Kept'
  <2> SUFFICES ASSUME ~ctxDone, NEW u \in Tasks, Given(u)
               PROVE  Waiting(u) \/ Worked(u)' \/ IsTerminal(status'[u])
    BY <1>1, <1>4 DEF Kept
  <2>1. CASE u = t
    BY <1>1, <1>2, <1>3, <2>1
  <2>2. CASE u # t
    BY <1>1, <1>3, <2>2 DEF IInv, Content, Kept
  <2> QED
    BY <2>1, <2>2
<1>12. AttemptsBounded'
  BY <1>1, <1>2 DEF IInv, Content, AttemptsBounded
<1> QED
  BY <1>6, <1>7, <1>8, <1>9, <1>10, <1>11, <1>12 DEF IInv, Content

(* What is known of the task of a busy worker.                             *)
LEMMA BusyWorker ==
  ASSUME DataTypes, IInv, NEW w \in Workers, wpc[w] \notin {"idle", "done"}
  PROVE  /\ wtask[w] \in Tasks
         /\ InProgress(w, wtask[w])
         /\ retryCount[wtask[w]] \in Nat /\ sends[wtask[w]] \in Nat
         /\ results[wtask[w]] \in Seq(TaskStatus) /\ Len(results[wtask[w]]) \in Nat
         /\ sends[wtask[w]] <= MaxRetry + 1 /\ Len(results[wtask[w]]) <= MaxRetry + 2
         /\ results[wtask[w]] # <<>> => cbReady
<1>1. wtask[w] \in Tasks /\ wtask[w] # NoTask
  BY ConstantTypes DEF DataTypes
<1>2. /\ retryCount[wtask[w]] \in Nat /\ sends[wtask[w]] \in Nat
      /\ results[wtask[w]] \in Seq(TaskStatus)
  BY <1>1 DEF DataTypes
<1>3. InProgress(w, wtask[w])
  BY <1>1 DEF IInv, Content, Attempts
<1>4. /\ sends[wtask[w]] <= MaxRetry + 1 /\ Len(results[wtask[w]]) <= MaxRetry + 2
      /\ results[wtask[w]] # <<>> => cbReady
  BY <1>1 DEF IInv, Content, AttemptsBounded, Reported
<1>5. Len(results[wtask[w]]) \in Nat
  BY <1>2, LenProperties
<1> QED
  BY <1>1, <1>2, <1>3, <1>4, <1>5

(* What fireTaskResult adds is the last report.                            *)
LEMMA FireReports ==
  ASSUME DataTypes, Reported, NEW t \in Tasks, NEW s \in {"FAILED", "SUCCESS"}, Fire(t, s)
  PROVE  /\ Len(results'[t]) \in Nat /\ Len(results'[t]) <= Len(results[t]) + 1
         /\ results'[t] # <<>> => cbReady /\ results'[t][Len(results'[t])] = s
         /\ \A u \in Tasks \ {t} : results'[u] = results[u]
<1>1. results \in [Tasks -> Seq(TaskStatus)] /\ results[t] \in Seq(TaskStatus) /\ s \in TaskStatus
  BY DEF DataTypes, TaskStatus
<1>2. Len(results[t]) \in Nat
  BY <1>1, LenProperties
<1>3. CASE cbReady
  <2>1. results' = [results EXCEPT ![t] = Append(results[t], s)]
    BY <1>3 DEF Fire
  <2>2. results'[t] = Append(results[t], s)
    BY <1>1, <2>1
  <2> HIDE DEF DataTypes
  <2>3. Len(results'[t]) = Len(results[t]) + 1 /\ results'[t][Len(results[t]) + 1] = s
    BY <1>1, <2>2, AppendElements
  <2>4. \A u \in Tasks \ {t} : results'[u] = results[u]
    BY <1>1, <2>1
  <2> QED
    BY <1>2, <1>3, <2>3, <2>4
<1>4. CASE ~cbReady
  BY <1>2, <1>4 DEF Fire, Reported
<1> QED
  BY <1>3, <1>4

(* Every step of a worker on its task is a WorkStep.                       *)
LEMMA TaskStepWorks ==
  ASSUME DataTypes, IInv, NEW w \in Workers, TaskStep(w)
  PROVE  WorkStep(w)
<1>0. wpc[w] \notin {"idle", "done"}
  BY DEF TaskStep, Attempt, SendStep, Recover, LoopHead, LookupFails, LookupOffline, LookupReady, LoadFails,
     SendBegin, SendFails, SendSucceeds, ErrorCancelled, HandleRetry, BackoffEnds, OfflineEnds,
     WaitCancelled
<1>1. PICK t \in Tasks : t = wtask[w]
  BY <1>0, BusyWorker
<1> DEFINE n == retryCount[t]
           k == sends[t]
           r == results[t]
<1>2. /\ Progress(wpc[w], status[t], n, k, r)
      /\ n \in Nat /\ k \in Nat /\ Len(r) \in Nat /\ MaxRetry \in Nat
      /\ k <= MaxRetry + 1 /\ Len(r) <= MaxRetry + 2
      /\ r # <<>> => cbReady
  BY <1>0, <1>1, BusyWorker, ConstantTypes DEF InProgress
<1>3. /\ wpc \in [Workers -> WorkPcs] /\ wtask \in [Workers -> Tasks \cup {NoTask}]
      /\ status \in [Tasks -> TaskStatus] /\ retryCount \in [Tasks -> Nat]
      /\ sends \in [Tasks -> Nat] /\ results \in [Tasks -> Seq(TaskStatus)]
  BY DEF DataTypes
<1>4. Reported
  BY DEF IInv, Content
<1> USE DEF taskVars
<1>5. CASE LoopHead(w)
  <2>1. UNCHANGED <<queueVars, tableVars, consVars, taskCh, lifeVars, taskVars>> /\ wpc[w] = "loop"
    BY <1>5 DEF LoopHead
  <2>2. CASE Leave(w) /\ (ctxDone \/ IsTerminal(status[t]))
    <3>1. IsTerminal(status[t]) => r = <<>>
      BY <1>2, <2>1 DEF Progress, IsTerminal
    <3> QED
      BY <1>1, <1>2, <1>3, <2>1, <2>2, <3>1 DEF WorkStep, Leave, GotoWith, Goto
  <2>3. CASE Goto(w, "lookup") /\ UNCHANGED <<wtask, werr>>
    <3>1. Progress("lookup", status[t], n, k, r)
      BY <1>2, <2>1 DEF Progress
    <3> QED
      BY <1>1, <1>2, <1>3, <2>1, <2>3, <3>1 DEF WorkStep, Goto
  <2> QED
    BY <1>1, <1>5, <2>2, <2>3 DEF LoopHead
<1>6. CASE LookupFails(w)
  <2>1. /\ wpc[w] = "lookup" /\ SetStatus(t, "FAILED") /\ Fire(t, "FAILED") /\ Goto(w, "error")
        /\ UNCHANGED <<queueVars, tableVars, consVars, taskCh, wtask, retryCount, sends, lifeVars>>
    BY <1>1, <1>6 DEF LookupFails, GotoWith
  <2>2. /\ Len(results'[t]) \in Nat /\ Len(results'[t]) <= Len(r) + 1
        /\ results'[t] # <<>> => cbReady
        /\ \A u \in Tasks \ {t} : results'[u] = results[u]
    BY <1>4, <2>1, FireReports
  <2>3. Progress("error", "FAILED", n, k, results'[t]) /\ Len(results'[t]) <= MaxRetry + 2
    BY <1>2, <2>1, <2>2, SMTT(30) DEF Progress
  <2> QED
    BY <1>1, <1>2, <1>3, <2>1, <2>2, <2>3 DEF WorkStep, Goto, SetStatus
<1>7. CASE LookupOffline(w)
  <2>1. Progress("offline", status[t], n, k, r)
    BY <1>2, <1>7 DEF Progress, LookupOffline
  <2> QED
    BY <1>1, <1>2, <1>3, <1>7, <2>1 DEF WorkStep, LookupOffline, Goto
<1>8. CASE LookupReady(w)
  <2>1. Progress("load", "RUNNING", n, k, r)
    BY <1>2, <1>8 DEF Progress, LookupReady
  <2> QED
    BY <1>1, <1>2, <1>3, <1>8, <2>1 DEF WorkStep, LookupReady, Goto, SetStatus
<1>9. CASE LoadFails(w) \/ SendFails(w)
  <2>1. Progress("error", status[t], n, k, r)
    BY <1>2, <1>9 DEF Progress, LoadFails, SendFails
  <2> QED
    BY <1>1, <1>2, <1>3, <1>9, <2>1 DEF WorkStep, LoadFails, SendFails, GotoWith, Goto
<1>10. CASE SendBegin(w)
  <2>1. /\ wpc[w] = "load" /\ sends' = [sends EXCEPT ![t] = k + 1] /\ Goto(w, "send")
        /\ UNCHANGED <<queueVars, tableVars, consVars, taskCh, wtask, status, retryCount, results,
                       lifeVars>>
    BY <1>1, <1>10 DEF SendBegin
  <2>2. Progress("send", status[t], n, k + 1, r) /\ k + 1 <= MaxRetry + 1
    BY <1>2, <2>1 DEF Progress
  <2>3. sends'[t] = k + 1 /\ \A u \in Tasks \ {t} : sends'[u] = sends[u]
    BY <1>3, <2>1
  <2> QED
    BY <1>1, <1>2, <1>3, <2>1, <2>2, <2>3 DEF WorkStep, Goto
<1>11. CASE SendSucceeds(w)
  <2>1. /\ wpc[w] = "send" /\ SetStatus(t, "SUCCESS") /\ Fire(t, "SUCCESS") /\ Leave(w)
        /\ UNCHANGED <<queueVars, tableVars, consVars, taskCh, retryCount, sends, lifeVars>>
    BY <1>1, <1>11 DEF SendSucceeds
  <2>2. /\ Len(results'[t]) \in Nat /\ Len(results'[t]) <= Len(r) + 1
        /\ results'[t] # <<>> => cbReady /\ results'[t][Len(results'[t])] = "SUCCESS"
        /\ \A u \in Tasks \ {t} : results'[u] = results[u]
    BY <1>4, <2>1, FireReports
  <2>3. Len(results'[t]) <= MaxRetry + 2
    BY <1>2, <2>1, <2>2 DEF Progress
  <2>4. status'[t] = "SUCCESS" /\ IsTerminal("SUCCESS")
    BY <1>3, <2>1 DEF SetStatus, IsTerminal
  <2> QED
    BY <1>1, <1>2, <1>3, <2>1, <2>2, <2>3, <2>4 DEF WorkStep, Goto, GotoWith, Leave, SetStatus
<1>12. CASE ErrorCancelled(w) \/ WaitCancelled(w)
  BY <1>1, <1>2, <1>3, <1>12 DEF ErrorCancelled, WaitCancelled, WorkStep, Leave, GotoWith, Goto
<1>13. CASE HandleRetry(w)
  <2>1. /\ wpc[w] = "error" /\ retryCount' = [retryCount EXCEPT ![t] = n + 1]
        /\ \/ /\ SetStatus(t, "FAILED") /\ Fire(t, "FAILED") /\ Leave(w)
           \/ /\ n + 1 <= MaxRetry
              /\ SetStatus(t, "RETRYING") /\ Goto(w, "backoff") /\ UNCHANGED <<results, wtask>>
        /\ UNCHANGED <<queueVars, tableVars, consVars, taskCh, sends, lifeVars>>
    BY <1>1, <1>13 DEF HandleRetry
  <2>2. retryCount'[t] = n + 1 /\ \A u \in Tasks \ {t} : retryCount'[u] = retryCount[u]
    BY <1>3, <2>1
  <2>3. CASE SetStatus(t, "FAILED") /\ Fire(t, "FAILED") /\ Leave(w)
    <3>1. /\ Len(results'[t]) \in Nat /\ Len(results'[t]) <= Len(r) + 1
          /\ results'[t] # <<>> => cbReady /\ results'[t][Len(results'[t])] = "FAILED"
          /\ \A u \in Tasks \ {t} : results'[u] = results[u]
      BY <1>4, <2>3, FireReports
    <3>2. Len(results'[t]) <= MaxRetry + 2
      BY <1>2, <2>1, <3>1 DEF Progress
    <3>3. status'[t] = "FAILED" /\ IsTerminal("FAILED")
      BY <1>3, <2>3 DEF SetStatus, IsTerminal
    <3> QED
      BY <1>1, <1>2, <1>3, <2>1, <2>2, <2>3, <3>1, <3>2, <3>3
         DEF WorkStep, Goto, GotoWith, Leave, SetStatus
  <2>4. CASE /\ n + 1 <= MaxRetry
             /\ SetStatus(t, "RETRYING") /\ Goto(w, "backoff") /\ UNCHANGED <<results, wtask>>
    <3>1. Progress("backoff", "RETRYING", n + 1, k, r)
      BY <1>2, <2>1, <2>4 DEF Progress
    <3> QED
      BY <1>1, <1>2, <1>3, <2>1, <2>2, <2>4, <3>1 DEF WorkStep, Goto, SetStatus
  <2> QED
    BY <2>1, <2>3, <2>4
<1>14. CASE BackoffEnds(w)
  <2>1. Progress("loop", "PENDING", n, k, r)
    BY <1>2, <1>14 DEF Progress, BackoffEnds
  <2> QED
    BY <1>1, <1>2, <1>3, <1>14, <2>1 DEF WorkStep, BackoffEnds, Goto, GotoWith, SetStatus
<1>15. CASE OfflineEnds(w)
  <2>1. Progress("loop", status[t], n, k, r)
    BY <1>2, <1>15 DEF Progress, OfflineEnds
  <2> QED
    BY <1>1, <1>2, <1>3, <1>15, <2>1 DEF WorkStep, OfflineEnds, Goto
<1> QED
  BY <1>5, <1>6, <1>7, <1>8, <1>9, <1>10, <1>11, <1>12, <1>13, <1>14, <1>15
     DEF TaskStep, Attempt, SendStep, Recover

-----------------------------------------------------------------------------
(* Every other step carries *)

(* A step that moves nothing.                                              *)
LEMMA StillCarries ==
  ASSUME DataTypes, IInv,
         UNCHANGED <<queue, given, arrived, hold, taskCh, wtask, taskVars>>,
         \A w \in Workers : wtask[w] # NoTask => wpc'[w] = wpc[w],
         cbReady => cbReady', ctxDone => ctxDone'
  PROVE  Placed' /\ Carry
<1>1. \A u \in Tasks : /\ Queued(u)' <=> Queued(u)
                       /\ Held(u)' <=> Held(u)
                       /\ InChannel(u)' <=> InChannel(u)
                       /\ Worked(u)' <=> Worked(u)
                       /\ Given(u)' <=> Given(u)
                       /\ Waiting(u)' <=> Waiting(u)
                       /\ Unseen(u)' <=> Unseen(u)
  BY DEF Queued, Held, InChannel, Worked, Given, Waiting, Unseen
<1>2. OwnDevice' /\ NoCopies'
  BY DEF IInv, Placed, OwnDevice, NoCopies
<1>3. Apart'
  BY <1>1 DEF IInv, Placed, Apart
<1>4. Carry
  BY <1>1 DEF Carry
<1> QED
  BY <1>2, <1>3, <1>4 DEF Placed

(* A delivery joins its queue.                                             *)
LEMMA EnqueueCarries ==
  ASSUME DataTypes, IInv, NEW t \in Tasks, Enqueue(t)
  PROVE  Placed' /\ Carry
<1>1. PICK d \in Devices : d = DeviceOf[t]
  BY ConstantTypes
<1>2. /\ queue[d] \in Seq(Tasks) /\ Len(queue[d]) \in Nat /\ DOMAIN queue[d] = 1..Len(queue[d])
      /\ queue \in [Devices -> Seq(Tasks)]
  BY LenProperties DEF DataTypes
<1>3. /\ t \notin arrived /\ arrived' = arrived \cup {t}
      /\ UNCHANGED <<given, hold, taskCh, wtask, wpc, cbReady, ctxDone, taskVars>>
      /\ queue' = queue \/ queue' = [queue EXCEPT ![d] = Append(queue[d], t)]
  BY <1>1 DEF Enqueue, Q!Put, queueVars, consVars, workVars, lifeVars
<1>4. /\ ~Queued(t) /\ ~Held(t) /\ ~InChannel(t) /\ ~Worked(t) /\ ~Given(t)
  BY <1>3 DEF IInv, Placed, Apart, Waiting
<1>5. CASE queue' = queue
  <2>1. \A u \in Tasks : /\ Queued(u)' <=> Queued(u)
                         /\ Held(u)' <=> Held(u)
                         /\ InChannel(u)' <=> InChannel(u)
                         /\ Worked(u)' <=> Worked(u)
                         /\ Given(u)' <=> Given(u)
                         /\ Waiting(u)' <=> Waiting(u)
                         /\ Unseen(u)' => Unseen(u)
    BY <1>3, <1>5 DEF Queued, Held, InChannel, Worked, Given, Waiting, Unseen
  <2>2. OwnDevice' /\ NoCopies'
    BY <1>3, <1>5 DEF IInv, Placed, OwnDevice, NoCopies
  <2>3. Apart'
    BY <1>3, <2>1 DEF IInv, Placed, Apart
  <2>4. Carry
    BY <1>3, <2>1 DEF Carry
  <2> QED
    BY <2>2, <2>3, <2>4 DEF Placed
<1>6. CASE queue' = [queue EXCEPT ![d] = Append(queue[d], t)]
  <2> DEFINE q == Append(queue[d], t)
             m == Len(queue[d])
  <2>1. /\ DOMAIN q = 1..(m + 1) /\ q[m + 1] = t
        /\ \A j \in 1..m : q[j] = queue[d][j]
    <3>1. q \in Seq(Tasks) /\ Len(q) = m + 1
      BY <1>2, AppendElements
    <3>2. DOMAIN q = 1..Len(q)
      BY <3>1, LenProperties
    <3> QED
      BY <1>2, <3>1, <3>2, AppendElements
  <2>2. queue'[d] = q /\ \A c \in Devices \ {d} : queue'[c] = queue[c]
    BY <1>2, <1>6
  <2> HIDE DEF q
  <2>3. \A j \in DOMAIN q : j \in DOMAIN queue[d] \/ j = m + 1
    BY <1>2, <2>1
  <2>4. \A j \in DOMAIN queue[d] : q[j] = queue[d][j] /\ queue[d][j] # t
    BY <1>1, <1>2, <1>4, <2>1 DEF Queued
  <2> HIDE DEF m
  <2>5. \A u \in Tasks : Queued(u)' => Queued(u) \/ u = t
    <3> SUFFICES ASSUME NEW u \in Tasks, u # t, Queued(u)' PROVE Queued(u)
      OBVIOUS
    <3>1. DeviceOf[u] \in Devices
      BY ConstantTypes
    <3>2. PICK j \in DOMAIN queue'[DeviceOf[u]] : queue'[DeviceOf[u]][j] = u
      BY DEF Queued
    <3>3. CASE DeviceOf[u] = d
      BY <2>1, <2>2, <2>3, <2>4, <3>2, <3>3, ZenonT(60) DEF Queued
    <3>4. CASE DeviceOf[u] # d
      BY <2>2, <3>1, <3>2, <3>4 DEF Queued
    <3> QED
      BY <3>3, <3>4
  <2>6. \A u \in Tasks : /\ Held(u)' <=> Held(u)
                         /\ InChannel(u)' <=> InChannel(u)
                         /\ Worked(u)' <=> Worked(u)
                         /\ Given(u)' <=> Given(u)
    BY <1>3 DEF Held, InChannel, Worked, Given
  <2>7. OwnDevice'
    <3>1. \A c \in Devices : \A i \in DOMAIN queue[c] : DeviceOf[queue[c][i]] = c
      BY DEF IInv, Placed, OwnDevice
    <3>2. \A i \in DOMAIN q : DeviceOf[q[i]] = d
      BY <1>1, <2>1, <2>3, <2>4, <3>1
    <3>3. \A c \in Devices : \A i \in DOMAIN queue'[c] : DeviceOf[queue'[c][i]] = c
      BY <2>2, <3>1, <3>2
    <3> QED
      BY <1>3, <3>3 DEF IInv, Placed, OwnDevice
  <2>8. NoCopies'
    <3>1. \A i, j \in DOMAIN q : q[i] = q[j] => i = j
      BY <2>1, <2>3, <2>4 DEF IInv, Placed, NoCopies
    <3>2. \A c \in Devices : \A i, j \in DOMAIN queue'[c] : queue'[c][i] = queue'[c][j] => i = j
      BY <2>2, <3>1 DEF IInv, Placed, NoCopies
    <3> QED
      BY <1>3, <3>2 DEF IInv, Placed, NoCopies
  <2>9. Apart'
    BY <1>3, <1>4, <2>5, <2>6 DEF IInv, Placed, Apart, Waiting
  <2>10. \A u \in Tasks : Unseen(u)' => Unseen(u)
    BY <1>3, <2>5, <2>6 DEF Unseen, Waiting
  <2>11. \A u \in Tasks : Given(u)' => ~Queued(u)
    BY <2>6 DEF IInv, Placed, Apart
  <2>12. Carry
    BY <1>3, <2>6, <2>10, <2>11 DEF Carry, Waiting
  <2> QED
    BY <2>7, <2>8, <2>9, <2>12 DEF Placed
<1> QED
  BY <1>3, <1>5, <1>6

(* A queue loses one of its deliveries.                                    *)
LEMMA Loses ==
  ASSUME DataTypes, IInv, NEW d \in Devices, NEW i \in DOMAIN queue[d], NEW q,
         queue' = [queue EXCEPT ![d] = q],
         \A j \in DOMAIN q : /\ q[j] = queue[d][Place(i, j)]
                             /\ Place(i, j) \in DOMAIN queue[d] /\ Place(i, j) # i,
         \A j, k \in DOMAIN q : Place(i, j) = Place(i, k) => j = k
  PROVE  /\ \A u \in Tasks : Queued(u)' => Queued(u) /\ u # queue[d][i]
         /\ \A c \in Devices : \A j \in DOMAIN queue'[c] : DeviceOf[queue'[c][j]] = c
         /\ \A c \in Devices : \A j, k \in DOMAIN queue'[c] :
              queue'[c][j] = queue'[c][k] => j = k
<1>1. queue'[d] = q /\ \A c \in Devices \ {d} : queue'[c] = queue[c]
  BY DEF DataTypes
<1>2. /\ \A c \in Devices : \A j \in DOMAIN queue[c] : DeviceOf[queue[c][j]] = c
      /\ \A c \in Devices : \A j, k \in DOMAIN queue[c] : queue[c][j] = queue[c][k] => j = k
  BY DEF IInv, Placed, OwnDevice, NoCopies
<1>3. ASSUME NEW u \in Tasks, Queued(u)' PROVE Queued(u) /\ u # queue[d][i]
  <2>1. PICK j \in DOMAIN queue'[DeviceOf[u]] : queue'[DeviceOf[u]][j] = u
    BY <1>3 DEF Queued
  <2>2. DeviceOf[u] \in Devices
    BY ConstantTypes
  <2>3. CASE DeviceOf[u] = d
    BY <1>1, <1>2, <2>1, <2>3 DEF Queued
  <2>4. CASE DeviceOf[u] # d
    BY <1>1, <1>2, <2>1, <2>2, <2>4 DEF Queued
  <2> QED
    BY <2>3, <2>4
<1>4. \A c \in Devices : \A j \in DOMAIN queue'[c] : DeviceOf[queue'[c][j]] = c
  BY <1>1, <1>2
<1>5. ASSUME NEW c \in Devices, NEW j \in DOMAIN queue'[c], NEW k \in DOMAIN queue'[c],
             queue'[c][j] = queue'[c][k]
      PROVE  j = k
  BY <1>1, <1>2, <1>5
<1> QED
  BY <1>3, <1>4, <1>5

(* A cancellation in the queue hands nothing on and takes one task out.    *)
LEMMA CancelCarries ==
  ASSUME DataTypes, IInv, NEW d \in Devices, NEW i \in DOMAIN queue[d], Cancel(d, i)
  PROVE  Placed' /\ Carry
<1>1. queue[d] \in Seq(Tasks) /\ i \in 1..Len(queue[d])
  BY LenProperties DEF DataTypes
<1> DEFINE q == RemoveAt(queue[d], i)
<1>2. /\ queue' = [queue EXCEPT ![d] = q]
      /\ UNCHANGED <<given, arrived, hold, taskCh, wtask, wpc, cbReady, ctxDone, taskVars>>
  BY DEF Cancel, Q!Withdraw, Q!RemoveAt, RemoveAt, tableVars, consVars, workVars, lifeVars
<1>3. /\ \A j \in DOMAIN q : /\ q[j] = queue[d][Place(i, j)]
                             /\ Place(i, j) \in DOMAIN queue[d] /\ Place(i, j) # i
      /\ DOMAIN q \subseteq Int
      /\ \A j, k \in DOMAIN q : j < k => Place(i, j) < Place(i, k)
  <2>1. q \in Seq(Tasks)
    BY <1>1, RemoveAtElements
  <2>2. DOMAIN q \subseteq Int
    BY <2>1, LenProperties
  <2> QED
    BY <1>1, <2>2, RemoveAtPlaces
<1> HIDE DEF q
<1>4. \A j, k \in DOMAIN q : Place(i, j) = Place(i, k) => j = k
  <2>1. DOMAIN queue[d] \subseteq Int
    BY <1>1, LenProperties
  <2> QED
    BY <1>3, <2>1
<1>5. /\ \A u \in Tasks : Queued(u)' => Queued(u) /\ u # queue[d][i]
      /\ \A c \in Devices : \A j \in DOMAIN queue'[c] : DeviceOf[queue'[c][j]] = c
      /\ \A c \in Devices : \A j, k \in DOMAIN queue'[c] : queue'[c][j] = queue'[c][k] => j = k
  BY <1>2, <1>3, <1>4, Loses
<1>6. \A u \in Tasks : /\ Held(u)' <=> Held(u)
                       /\ InChannel(u)' <=> InChannel(u)
                       /\ Worked(u)' <=> Worked(u)
                       /\ Given(u)' <=> Given(u)
  BY <1>2 DEF Held, InChannel, Worked, Given
<1>7. OwnDevice' /\ NoCopies'
  BY <1>2, <1>5 DEF IInv, Placed, OwnDevice, NoCopies
<1>8. Apart'
  BY <1>2, <1>5, <1>6 DEF IInv, Placed, Apart, Waiting
<1>9. \A u \in Tasks : (Unseen(u)' => Unseen(u)) /\ (Given(u)' => ~Queued(u))
  BY <1>2, <1>5, <1>6 DEF Unseen, Waiting, IInv, Placed, Apart
<1>10. Carry
  BY <1>2, <1>6, <1>9 DEF Carry, Waiting
<1> QED
  BY <1>7, <1>8, <1>10 DEF Placed

(* A consumer takes the head of its queue ...                              *)
LEMMA TakeCarries ==
  ASSUME DataTypes, DataTypes', IInv, NEW d \in Started, ConsumerTake(d)
  PROVE  Placed' /\ Carry
<1>1. /\ d \in Devices /\ queue[d] \in Seq(Tasks) /\ queue[d] # <<>> /\ hold[d] = NoTask
      /\ hold \in [Started -> Tasks \cup {NoTask}] /\ given \in [Devices -> Seq(Tasks)]
      /\ given[d] \in Seq(Tasks)
  BY ConstantTypes DEF ConsumerTake, Q!Take, DataTypes
<1> DEFINE q == Tail(queue[d])
<1>2. PICK h \in Tasks : h = Head(queue[d]) /\ h = queue[d][1] /\ 1 \in DOMAIN queue[d]
  BY <1>1, TailPlaces
<1>3. /\ given' = [given EXCEPT ![d] = Append(given[d], h)]
      /\ queue' = [queue EXCEPT ![d] = q]
      /\ hold' = [hold EXCEPT ![d] = h]
      /\ UNCHANGED <<arrived, taskCh, wtask, wpc, cbReady, ctxDone, taskVars>>
  BY <1>2 DEF ConsumerTake, Q!Take, tableVars, workVars, lifeVars
<1>4. /\ \A j \in DOMAIN q : /\ q[j] = queue[d][Place(1, j)]
                             /\ Place(1, j) \in DOMAIN queue[d] /\ Place(1, j) # 1
      /\ DOMAIN q \subseteq Int /\ DOMAIN queue[d] \subseteq Int
      /\ \A j, k \in DOMAIN q : j < k => Place(1, j) < Place(1, k)
  <2>1. q \in Seq(Tasks)
    BY <1>1, TailElements
  <2>2. DOMAIN q \subseteq Int /\ DOMAIN queue[d] \subseteq Int
    BY <1>1, <2>1, LenProperties
  <2> QED
    BY <1>1, <2>2, TailPlaces
<1> HIDE DEF q
<1>5. \A j, k \in DOMAIN q : Place(1, j) = Place(1, k) => j = k
  BY <1>4
<1>6. /\ \A u \in Tasks : Queued(u)' => Queued(u) /\ u # h
      /\ \A c \in Devices : \A j \in DOMAIN queue'[c] : DeviceOf[queue'[c][j]] = c
      /\ \A c \in Devices : \A j, k \in DOMAIN queue'[c] : queue'[c][j] = queue'[c][k] => j = k
  <2>1. PICK i \in DOMAIN queue[d] : i = 1
    BY <1>2
  <2>2. /\ \A j \in DOMAIN q : /\ q[j] = queue[d][Place(i, j)]
                               /\ Place(i, j) \in DOMAIN queue[d] /\ Place(i, j) # i
        /\ \A j, k \in DOMAIN q : Place(i, j) = Place(i, k) => j = k
    BY <1>4, <1>5, <2>1
  <2>3. /\ \A u \in Tasks : Queued(u)' => Queued(u) /\ u # queue[d][i]
        /\ \A c \in Devices : \A j \in DOMAIN queue'[c] : DeviceOf[queue'[c][j]] = c
        /\ \A c \in Devices : \A j, k \in DOMAIN queue'[c] : queue'[c][j] = queue'[c][k] => j = k
    BY <1>1, <1>3, <2>2, Loses
  <2> QED
    BY <1>2, <2>1, <2>3
<1>7. DeviceOf[h] = d /\ Queued(h)
  BY <1>1, <1>2 DEF IInv, Placed, OwnDevice, Queued
<1>8. \A u \in Tasks : Held(u)' <=> Held(u) \/ u = h
  BY <1>1, <1>2, <1>3, ConstantTypes DEF Held
<1>9. \A u \in Tasks : Given(u)' => Given(u) \/ u = h
  <2> SUFFICES ASSUME NEW u \in Tasks, u # h, Given(u)' PROVE Given(u)
    OBVIOUS
  <2>1. DeviceOf[u] \in Devices
    BY ConstantTypes
  <2>2. CASE DeviceOf[u] # d
    BY <1>1, <1>3, <2>1, <2>2 DEF Given
  <2>3. CASE DeviceOf[u] = d
    <3> DEFINE g == given[d]
               a == Append(g, h)
    <3>1. given'[d] = a
      BY <1>1, <1>3
    <3>2. a \in Seq(Tasks) /\ Len(a) = Len(g) + 1 /\ a[Len(g) + 1] = h
          /\ \A j \in 1..Len(g) : a[j] = g[j]
      BY <1>1, <1>2, AppendElements
    <3>3. Len(g) \in Nat /\ DOMAIN g = 1..Len(g) /\ DOMAIN a = 1..Len(a)
      BY <1>1, <3>2, LenProperties
    <3> HIDE DEF a
    <3>4. PICK j \in DOMAIN a : a[j] = u
      BY <2>3, <3>1 DEF Given
    <3>5. j \in DOMAIN g /\ g[j] = u
      <4> HIDE DEF g, DataTypes
      <4> QED
        BY <3>2, <3>3, <3>4
    <3> QED
      BY <2>3, <3>5 DEF Given
  <2> QED
    BY <2>2, <2>3
<1>10. \A u \in Tasks : (InChannel(u)' <=> InChannel(u)) /\ (Worked(u)' <=> Worked(u))
  BY <1>3 DEF InChannel, Worked
<1>11. OwnDevice' /\ NoCopies'
  <2>1. \A c \in Started : hold'[c] # NoTask => DeviceOf[hold'[c]] = c
    BY <1>1, <1>3, <1>7 DEF IInv, Placed, OwnDevice
  <2> QED
    BY <1>3, <1>6, <2>1 DEF IInv, Placed, OwnDevice, NoCopies
<1>12. Apart'
  BY <1>3, <1>6, <1>7, <1>8, <1>9, <1>10 DEF IInv, Placed, Apart, Waiting
<1>13. \A u \in Tasks : (Unseen(u)' => Unseen(u)) /\ (Given(u) => ~Queued(u))
  BY <1>3, <1>6, <1>7, <1>8, <1>10 DEF Unseen, Waiting, IInv, Placed, Apart
<1>14. Carry
  BY <1>3, <1>8, <1>9, <1>10, <1>13 DEF Carry, Waiting
<1> QED
  BY <1>11, <1>12, <1>14 DEF Placed

(* ... sends it to the workers ...                                         *)
LEMMA SendCarries ==
  ASSUME DataTypes, IInv, NEW d \in Started, ConsumerSend(d)
  PROVE  Placed' /\ Carry
<1>1. PICK h \in Tasks : h = hold[d]
  BY DEF ConsumerSend, DataTypes
<1>2. /\ hold \in [Started -> Tasks \cup {NoTask}] /\ NoTask \notin Tasks
      /\ taskCh \in Seq(Tasks) /\ Len(taskCh) \in Nat /\ DOMAIN taskCh = 1..Len(taskCh)
  BY ConstantTypes, LenProperties DEF DataTypes
<1>3. /\ taskCh' = Append(taskCh, h)
      /\ hold' = [hold EXCEPT ![d] = NoTask]
      /\ UNCHANGED <<queue, given, arrived, wtask, wpc, cbReady, ctxDone, taskVars>>
  BY <1>1 DEF ConsumerSend, queueVars, tableVars, workVars, lifeVars
<1> DEFINE m == Len(taskCh)
<1>4. /\ DOMAIN taskCh' = 1..(m + 1) /\ taskCh'[m + 1] = h
      /\ \A j \in 1..m : taskCh'[j] = taskCh[j]
  <2>1. taskCh' \in Seq(Tasks) /\ Len(taskCh') = m + 1
    BY <1>2, <1>3, AppendElements
  <2>2. DOMAIN taskCh' = 1..Len(taskCh')
    BY <2>1, LenProperties
  <2> QED
    BY <1>2, <1>3, <2>1, <2>2, AppendElements
<1>5. /\ \A j \in DOMAIN taskCh' : j \in DOMAIN taskCh \/ j = m + 1
      /\ \A j \in DOMAIN taskCh : j \in DOMAIN taskCh' /\ taskCh'[j] = taskCh[j]
      /\ m + 1 \in DOMAIN taskCh'
  BY <1>2, <1>4
<1> HIDE DEF m
<1>6. \A u \in Tasks : InChannel(u)' <=> InChannel(u) \/ u = h
  BY <1>4, <1>5 DEF InChannel
<1>7. Held(h) /\ ~InChannel(h)
  BY <1>1 DEF Held, IInv, Placed, Apart
<1>8. \A c \in Started : hold[c] = h => c = d
  BY <1>1, <1>2 DEF IInv, Placed, OwnDevice
<1>9. \A u \in Tasks : Held(u)' <=> Held(u) /\ u # h
  BY <1>1, <1>2, <1>3, <1>8 DEF Held
<1>10. \A u \in Tasks : /\ Queued(u)' <=> Queued(u)
                        /\ Worked(u)' <=> Worked(u)
                        /\ Given(u)' <=> Given(u)
  BY <1>3 DEF Queued, Worked, Given
<1>11. OwnDevice'
  <2>1. \A c \in Started : hold'[c] # NoTask => DeviceOf[hold'[c]] = c
    BY <1>2, <1>3 DEF IInv, Placed, OwnDevice
  <2> QED
    BY <1>3, <2>1 DEF IInv, Placed, OwnDevice
<1>12. NoCopies'
  <2>1. \A j \in DOMAIN taskCh : taskCh[j] # h
    BY <1>7 DEF InChannel
  <2>2. \A i, j \in DOMAIN taskCh : taskCh[i] = taskCh[j] => i = j
    BY DEF IInv, Placed, NoCopies
  <2>3. \A i, j \in DOMAIN taskCh' : taskCh'[i] = taskCh'[j] => i = j
    BY <1>4, <1>5, <2>1, <2>2
  <2> QED
    BY <1>3, <2>3 DEF IInv, Placed, NoCopies
<1>13. Apart'
  BY <1>3, <1>6, <1>7, <1>9, <1>10 DEF IInv, Placed, Apart, Waiting
<1>14. \A u \in Tasks : (Unseen(u)' => Unseen(u)) /\ (Waiting(u) <=> Waiting(u)')
  BY <1>3, <1>6, <1>7, <1>9, <1>10 DEF Unseen, Waiting
<1>15. Carry
  BY <1>3, <1>10, <1>14 DEF Carry
<1> QED
  BY <1>11, <1>12, <1>13, <1>15 DEF Placed

(* ... or drops it once Stop has begun.                                    *)
LEMMA DropCarries ==
  ASSUME DataTypes, IInv, NEW d \in Started, ConsumerDrop(d)
  PROVE  Placed' /\ Carry
<1>1. /\ hold' = [hold EXCEPT ![d] = NoTask]
      /\ UNCHANGED <<queue, given, arrived, taskCh, wtask, wpc, cbReady, ctxDone, taskVars>>
  BY DEF ConsumerDrop, queueVars, tableVars, workVars, lifeVars
<1>2. ctxDone /\ ctxDone'
  BY DEF ConsumerDrop, lifeVars
<1>3. hold \in [Started -> Tasks \cup {NoTask}] /\ NoTask \notin Tasks
  BY ConstantTypes DEF DataTypes
<1>4. \A u \in Tasks : /\ Held(u)' => Held(u)
                       /\ Queued(u)' <=> Queued(u)
                       /\ InChannel(u)' <=> InChannel(u)
                       /\ Worked(u)' <=> Worked(u)
                       /\ Given(u)' <=> Given(u)
  BY <1>1, <1>3 DEF Held, Queued, InChannel, Worked, Given
<1>5. OwnDevice'
  <2>1. \A c \in Started : hold'[c] # NoTask => DeviceOf[hold'[c]] = c
    BY <1>1, <1>3 DEF IInv, Placed, OwnDevice
  <2> QED
    BY <1>1, <2>1 DEF IInv, Placed, OwnDevice
<1>6. NoCopies'
  BY <1>1 DEF IInv, Placed, NoCopies
<1>7. Apart'
  BY <1>1, <1>4 DEF IInv, Placed, Apart, Waiting
<1>8. \A u \in Tasks : Unseen(u)' => Unseen(u)
  BY <1>1, <1>4 DEF Unseen, Waiting
<1>9. Carry
  BY <1>1, <1>2, <1>4, <1>8 DEF Carry
<1> QED
  BY <1>5, <1>6, <1>7, <1>9 DEF Placed

(* A worker takes the head of the channel.                                 *)
LEMMA ReceiveCarries ==
  ASSUME DataTypes, IInv, NEW w \in Workers, WorkerReceive(w)
  PROVE  Placed' /\ Carry
<1>1. /\ taskCh \in Seq(Tasks) /\ taskCh # <<>> /\ wtask[w] = NoTask /\ NoTask \notin Tasks
      /\ wtask \in [Workers -> Tasks \cup {NoTask}] /\ wpc \in [Workers -> WorkPcs]
  BY ConstantTypes DEF WorkerReceive, DataTypes
<1>2. PICK h \in Tasks : h = Head(taskCh) /\ h = taskCh[1] /\ 1 \in DOMAIN taskCh
  BY <1>1, TailPlaces
<1>3. /\ taskCh' = Tail(taskCh) /\ wtask' = [wtask EXCEPT ![w] = h]
      /\ wpc' = [wpc EXCEPT ![w] = "loop"]
      /\ UNCHANGED <<queue, given, arrived, hold, cbReady, ctxDone, taskVars>>
  BY <1>2 DEF WorkerReceive, Goto, queueVars, tableVars, consVars, lifeVars
<1>4. /\ \A j \in DOMAIN taskCh' : /\ taskCh'[j] = taskCh[Place(1, j)]
                                   /\ Place(1, j) \in DOMAIN taskCh /\ Place(1, j) # 1
      /\ DOMAIN taskCh' \subseteq Int /\ DOMAIN taskCh \subseteq Int
      /\ \A j, k \in DOMAIN taskCh' : j < k => Place(1, j) < Place(1, k)
  <2>1. taskCh' \in Seq(Tasks)
    BY <1>1, <1>3, TailElements
  <2>2. DOMAIN taskCh' \subseteq Int /\ DOMAIN taskCh \subseteq Int
    BY <1>1, <2>1, LenProperties
  <2> QED
    BY <1>1, <1>3, <2>2, TailPlaces
<1>5. \A j, k \in DOMAIN taskCh' : Place(1, j) = Place(1, k) => j = k
  BY <1>4
<1>6. \A i \in DOMAIN taskCh : i # 1 => i - 1 \in DOMAIN taskCh' /\ taskCh'[i - 1] = taskCh[i]
  BY <1>1, <1>3, TailOthers
<1>7. \A i, j \in DOMAIN taskCh : taskCh[i] = taskCh[j] => i = j
  BY DEF IInv, Placed, NoCopies
<1>8. \A u \in Tasks : InChannel(u)' <=> InChannel(u) /\ u # h
  <2>1. ASSUME NEW u \in Tasks, InChannel(u)' PROVE InChannel(u) /\ u # h
    BY <1>2, <1>4, <1>7, <2>1 DEF InChannel
  <2>2. ASSUME NEW u \in Tasks, InChannel(u), u # h PROVE InChannel(u)'
    BY <1>2, <1>6, <2>2 DEF InChannel
  <2> QED
    BY <2>1, <2>2
<1>9. InChannel(h) /\ ~Worked(h)
  BY <1>2 DEF InChannel, IInv, Placed, Apart
<1>10. \A u \in Tasks : Worked(u)' <=> Worked(u) \/ u = h
  BY <1>1, <1>2, <1>3 DEF Worked
<1>11. \A u \in Tasks : /\ Queued(u)' <=> Queued(u)
                        /\ Held(u)' <=> Held(u)
                        /\ Given(u)' <=> Given(u)
  BY <1>3 DEF Queued, Held, Given
<1>12. OwnDevice'
  BY <1>3 DEF IInv, Placed, OwnDevice
<1>13. NoCopies'
  <2>1. \A i, j \in DOMAIN taskCh' : taskCh'[i] = taskCh'[j] => i = j
    BY <1>4, <1>5, <1>7
  <2>2. \A v \in Workers : wtask[v] # h
    BY <1>9 DEF Worked
  <2>3. \A v, x \in Workers : wtask'[v] = wtask'[x] /\ wtask'[v] # NoTask => v = x
    BY <1>1, <1>3, <2>2 DEF IInv, Placed, NoCopies
  <2> QED
    BY <1>3, <2>1, <2>3 DEF IInv, Placed, NoCopies
<1>14. Apart'
  BY <1>3, <1>8, <1>9, <1>10, <1>11 DEF IInv, Placed, Apart, Waiting
<1>15. \A u \in Tasks : /\ Unseen(u)' => Unseen(u)
                        /\ Waiting(u) => Waiting(u)' \/ Worked(u)'
  BY <1>3, <1>8, <1>10, <1>11 DEF Unseen, Waiting
<1>16. \A v \in Workers :
         wtask'[v] # NoTask =>
           \/ wtask'[v] = wtask[v] /\ wpc'[v] = wpc[v]
           \/ InChannel(wtask'[v]) /\ wpc'[v] = "loop"
  <2>1. wtask'[w] = h /\ wpc'[w] = "loop"
    BY <1>1, <1>3
  <2>2. \A v \in Workers \ {w} : wtask'[v] = wtask[v] /\ wpc'[v] = wpc[v]
    BY <1>1, <1>3
  <2> QED
    BY <1>9, <2>1, <2>2
<1>17. Carry
  BY <1>3, <1>10, <1>11, <1>15, <1>16 DEF Carry
<1> QED
  BY <1>12, <1>13, <1>14, <1>17 DEF Placed

-----------------------------------------------------------------------------
(* The theorems *)

(* Before Start no delivery has arrived or is anywhere.                    *)
LEMMA InitInvariant == Init => IInv
<1> SUFFICES ASSUME Init PROVE IInv
  OBVIOUS
<1>1. /\ queue = [d \in Devices |-> <<>>] /\ given = [d \in Devices |-> <<>>] /\ taskCh = <<>>
      /\ arrived = {} /\ hold = [d \in Started |-> NoTask] /\ wtask = [w \in Workers |-> NoTask]
      /\ retryCount = [t \in Tasks |-> 0] /\ sends = [t \in Tasks |-> 0]
      /\ results = [t \in Tasks |-> <<>>]
  BY DEF Init, Q!Init
<1>2. \A t \in Tasks : ~Queued(t) /\ ~Held(t) /\ ~InChannel(t) /\ ~Worked(t) /\ ~Given(t)
  BY <1>1, ConstantTypes DEF Queued, Held, InChannel, Worked, Given
<1>3. OwnDevice /\ NoCopies
  BY <1>1 DEF OwnDevice, NoCopies
<1>4. Apart
  BY <1>2 DEF Apart, Waiting
<1>5. Fresh /\ Attempts /\ Reported /\ LastReport
  BY <1>1 DEF Fresh, Attempts, Reported, LastReport
<1>6. Kept
  BY <1>2 DEF Kept
<1>7. AttemptsBounded
  <2>1. \A t \in Tasks : sends[t] = 0 /\ Len(results[t]) = 0
    BY <1>1
  <2> QED
    BY <2>1, ConstantTypes DEF AttemptsBounded
<1> QED
  BY <1>3, <1>4, <1>5, <1>6, <1>7 DEF IInv, Placed, Content

(* Every step keeps the invariant.                                         *)
LEMMA StepInvariant ==
  ASSUME DataTypes, DataTypes', IInv, [Next]_vars
  PROVE  IInv'
<1> USE DEF queueVars, tableVars, consVars, workVars, lifeVars
<1>1. ASSUME Placed' /\ Carry PROVE IInv'
  BY <1>1, CarryKeeps DEF IInv
<1>2. ASSUME NEW w \in Workers, TaskStep(w) PROVE IInv'
  BY <1>2, TaskStepWorks, WorkStepKeeps
<1>3. ASSUME NEW t \in Tasks, Enqueue(t) PROVE IInv'
  BY <1>1, <1>3, EnqueueCarries
<1>4. ASSUME NEW d \in Devices, NEW i \in DOMAIN queue[d], Cancel(d, i) PROVE IInv'
  BY <1>1, <1>4, CancelCarries
<1>5. ASSUME NEW d \in Started, ConsumerTake(d) \/ ConsumerSend(d) \/ ConsumerDrop(d) PROVE IInv'
  BY <1>1, <1>5, TakeCarries, SendCarries, DropCarries
<1>6. ASSUME NEW w \in Workers, WorkerReceive(w) PROVE IInv'
  BY <1>1, <1>6, ReceiveCarries
<1>7. ASSUME NEW w \in Workers, WorkerExit(w) PROVE IInv'
  <2>1. /\ UNCHANGED <<queue, given, arrived, hold, taskCh, wtask, taskVars, cbReady, ctxDone>>
        /\ wpc' = [wpc EXCEPT ![w] = "done"] /\ wpc[w] = "idle"
    BY <1>7 DEF WorkerExit, Goto
  <2>2. \A v \in Workers : wtask[v] # NoTask => wpc'[v] = wpc[v]
    BY <2>1 DEF DataTypes
  <2> QED
    BY <1>1, <2>1, <2>2, StillCarries
<1>8. ASSUME NEW d \in Devices, NEW v \in DeviceViews, DeviceMessage(d, v) PROVE IInv'
  BY <1>1, <1>8, StillCarries DEF DeviceMessage
<1>9. ASSUME NEW d \in Started, ConsumerLoop(d) \/ ConsumerCreate(d) \/ ConsumerClosed(d) PROVE IInv'
  BY <1>1, <1>9, StillCarries DEF ConsumerLoop, ConsumerCreate, ConsumerClosed
<1>10. ASSUME NEW d \in Devices, StopClose(d) PROVE IInv'
  BY <1>1, <1>10, StillCarries DEF StopClose, Q!Shut
<1>11. CASE OnTaskResult \/ StopCancel \/ StopSnapshot \/ StopReturn
  BY <1>1, <1>11, StillCarries DEF OnTaskResult, StopCancel, StopSnapshot, StopReturn
<1>12. CASE UNCHANGED vars
  BY <1>1, <1>12, StillCarries DEF vars
<1> QED
  BY <1>2, <1>3, <1>4, <1>5, <1>6, <1>7, <1>8, <1>9, <1>10, <1>11, <1>12
     DEF Next, Dispatch, ConsumerStep, StopStep

(* The invariant holds at every step of the executor.                      *)
THEOREM Inductive == Spec => []IInv
<1>1. DataTypes /\ DataTypes' /\ IInv /\ [Next]_vars => IInv'
  BY StepInvariant
<1>2. TypeOK => DataTypes
  BY DEF TypeOK
<1> QED
  BY <1>1, <1>2, InitInvariant, TypeCorrect, PTL DEF Spec

(* However errors, device changes and waits alternate, a document goes to  *)
(* the printer at most MaxRetry + 1 times and the cloud hears of it at     *)
(* most MaxRetry + 2 times.                                                *)
THEOREM Bounded == Spec => []AttemptsBounded
<1>1. IInv => AttemptsBounded
  BY DEF IInv, Content
<1> QED
  BY <1>1, Inductive, PTL

(* The places of a delivery, as InOnePlace counts them.                    *)
LEMMA SomePlace ==
  ASSUME NEW t \in Tasks
  PROVE  Places(t) # {} <=> Waiting(t) \/ Worked(t)
<1> DEFINE A == {<<"queue", d, i>> : d \in {DeviceOf[t]}, i \in {j \in DOMAIN queue[DeviceOf[t]] : queue[DeviceOf[t]][j] = t}}
           B == {<<"hold", d, 1>> : d \in {c \in Started : hold[c] = t}}
           C == {<<"channel", "ch", i>> : i \in {j \in DOMAIN taskCh : taskCh[j] = t}}
           D == {<<"worker", w, 1>> : w \in {u \in Workers : wtask[u] = t}}
<1>1. Places(t) = A \cup B \cup C \cup D
  BY DEF Places
<1>2. A # {} <=> Queued(t)
  <2>1. ASSUME NEW x \in A PROVE Queued(t)
    BY DEF Queued
  <2>2. ASSUME NEW i \in DOMAIN queue[DeviceOf[t]], queue[DeviceOf[t]][i] = t PROVE A # {}
    <3>1. <<"queue", DeviceOf[t], i>> \in A
      BY <2>2
    <3> HIDE DEF A
    <3> QED
      BY <3>1
  <2> HIDE DEF A
  <2> QED
    BY <2>1, <2>2 DEF Queued
<1>3. B # {} <=> Held(t)
  BY DEF Held
<1>4. C # {} <=> InChannel(t)
  BY DEF InChannel
<1>5. D # {} <=> Worked(t)
  BY DEF Worked
<1> HIDE DEF A, B, C, D
<1> QED
  BY <1>1, <1>2, <1>3, <1>4, <1>5 DEF Waiting

(* Until Stop, a delivery that left its queue is with a consumer, in the   *)
(* channel or with a worker, or it has ended: none is dropped in between.  *)
THEOREM NoneDropped == Spec => []NothingDropped
<1>1. IInv => NothingDropped
  BY SomePlace DEF IInv, Content, Kept, NothingDropped
<1> QED
  BY <1>1, Inductive, PTL

(* Until Stop, the last result the cloud got of a task the executor is     *)
(* through with is the status the task ended with.                         *)
THEOREM ReportStands == Spec => []LastReportStands
<1>1. IInv => LastReportStands
  BY SomePlace DEF IInv, Content, LastReport, LastReportStands
<1> QED
  BY <1>1, Inductive, PTL

(* A set of which any two elements are equal has at most one.              *)
LEMMA AtMostOne ==
  ASSUME NEW S, \A x, y \in S : x = y
  PROVE  Cardinality(S) <= 1
<1>1. CASE S = {}
  BY <1>1, FS_EmptySet
<1>2. CASE S # {}
  <2>1. PICK x : S = {x}
    BY <1>2
  <2> QED
    BY <2>1, FS_Singleton
<1> QED
  BY <1>1, <1>2

(* Two workers never print the same delivery, and none is both with a      *)
(* worker and on its way to another.                                       *)
THEOREM OnePlace == Spec => []InOnePlace
<1>1. ASSUME DataTypes, IInv, NEW t \in Tasks PROVE Cardinality(Places(t)) <= 1
  <2> DEFINE d == DeviceOf[t]
  <2>1. d \in Devices /\ t # NoTask
    BY ConstantTypes
  <2>2. ASSUME NEW x \in Places(t)
        PROVE  \/ \E i \in DOMAIN queue[d] : queue[d][i] = t /\ x = <<"queue", d, i>>
               \/ \E c \in Started : hold[c] = t /\ x = <<"hold", c, 1>>
               \/ \E i \in DOMAIN taskCh : taskCh[i] = t /\ x = <<"channel", "ch", i>>
               \/ \E w \in Workers : wtask[w] = t /\ x = <<"worker", w, 1>>
    BY DEF Places
  <2>3. /\ \A i, j \in DOMAIN queue[d] : queue[d][i] = t /\ queue[d][j] = t => i = j
        /\ \A i, j \in DOMAIN taskCh : taskCh[i] = t /\ taskCh[j] = t => i = j
        /\ \A v, w \in Workers : wtask[v] = t /\ wtask[w] = t => v = w
        /\ \A b, c \in Started : hold[b] = t /\ hold[c] = t => b = c
    BY <1>1, <2>1 DEF IInv, Placed, NoCopies, OwnDevice
  <2>4. /\ Queued(t) => ~Held(t) /\ ~InChannel(t) /\ ~Worked(t)
        /\ Held(t) => ~InChannel(t) /\ ~Worked(t)
        /\ InChannel(t) => ~Worked(t)
    BY <1>1 DEF IInv, Placed, Apart
  <2> HIDE DEF d
  <2>5. ASSUME NEW x \in Places(t), NEW y \in Places(t) PROVE x = y
    <3>1. CASE Queued(t)
      <4>1. /\ \E i \in DOMAIN queue[d] : queue[d][i] = t /\ x = <<"queue", d, i>>
            /\ \E i \in DOMAIN queue[d] : queue[d][i] = t /\ y = <<"queue", d, i>>
        BY <2>2, <2>4, <3>1 DEF Held, InChannel, Worked
      <4> QED
        BY <2>3, <4>1
    <3>2. CASE Held(t)
      <4>1. /\ \E c \in Started : hold[c] = t /\ x = <<"hold", c, 1>>
            /\ \E c \in Started : hold[c] = t /\ y = <<"hold", c, 1>>
        BY <2>2, <2>4, <3>2 DEF Queued, InChannel, Worked, d
      <4> QED
        BY <2>3, <4>1
    <3>3. CASE InChannel(t)
      <4>1. /\ \E i \in DOMAIN taskCh : taskCh[i] = t /\ x = <<"channel", "ch", i>>
            /\ \E i \in DOMAIN taskCh : taskCh[i] = t /\ y = <<"channel", "ch", i>>
        BY <2>2, <2>4, <3>3 DEF Queued, Held, Worked, d
      <4> QED
        BY <2>3, <4>1
    <3>4. CASE ~Queued(t) /\ ~Held(t) /\ ~InChannel(t)
      <4>1. /\ \E w \in Workers : wtask[w] = t /\ x = <<"worker", w, 1>>
            /\ \E w \in Workers : wtask[w] = t /\ y = <<"worker", w, 1>>
        BY <2>2, <3>4 DEF Queued, Held, InChannel, d
      <4> QED
        BY <2>3, <4>1
    <3> QED
      BY <3>1, <3>2, <3>3, <3>4
  <2> QED
    BY <2>5, AtMostOne
<1>2. TypeOK /\ IInv => InOnePlace
  BY <1>1 DEF InOnePlace, TypeOK
<1> QED
  BY <1>2, Inductive, TypeCorrect, PTL

(* A printed task is left alone: no later step sends it, reports it or     *)
(* changes its status.                                                     *)
THEOREM PrintedStays == Spec => PrintedIsFinal
<1> DEFINE Final(t) == sends[t] > 0 /\ status[t] = "SUCCESS" =>
                         status'[t] = "SUCCESS" /\ sends'[t] = sends[t] /\ results'[t] = results[t]
<1>1. ASSUME DataTypes, IInv, Next, NEW t \in Tasks PROVE Final(t)
  <2>1. CASE UNCHANGED taskVars
    BY <2>1 DEF taskVars
  <2>2. ASSUME NEW w \in Workers, TaskStep(w) PROVE Final(t)
    <3>1. CASE t # wtask[w]
      BY <1>1, <2>2, <3>1, TaskStepWorks DEF WorkStep
    <3>2. CASE t = wtask[w] /\ wpc[w] \in {"loop", "offline"}
      BY <2>2, <3>2 DEF TaskStep, Attempt, SendStep, Recover, LoopHead, LookupFails, LookupOffline,
         LookupReady, LoadFails, SendBegin, SendFails, SendSucceeds, ErrorCancelled, HandleRetry,
         BackoffEnds, OfflineEnds, WaitCancelled, taskVars
    <3>3. CASE t = wtask[w] /\ wpc[w] \notin {"loop", "offline"}
      <4>1. wpc[w] \notin {"idle", "done"} /\ wpc[w] \in WorkPcs
        BY <1>1, <2>2 DEF TaskStep, Attempt, SendStep, Recover, LoopHead, LookupFails, LookupOffline, LookupReady,
           LoadFails, SendBegin, SendFails, SendSucceeds, ErrorCancelled, HandleRetry, BackoffEnds,
           OfflineEnds, WaitCancelled, DataTypes
      <4>2. Progress(wpc[w], status[t], retryCount[t], sends[t], results[t])
        BY <1>1, <3>3, <4>1, BusyWorker DEF InProgress
      <4>3. status[t] # "SUCCESS" \/ sends[t] = 0
        BY <3>3, <4>1, <4>2 DEF Progress, WorkPcs
      <4> QED
        BY <4>3
    <3> QED
      BY <3>1, <3>2, <3>3
  <2>3. UNCHANGED taskVars \/ \E w \in Workers : TaskStep(w)
    BY <1>1 DEF Next, Dispatch, Enqueue, Cancel, DeviceMessage, ConsumerStep, ConsumerLoop,
       ConsumerCreate, ConsumerTake, ConsumerClosed, ConsumerSend, ConsumerDrop, WorkerReceive, WorkerExit,
       OnTaskResult, StopCancel, StopStep, StopSnapshot, StopClose, StopReturn
  <2> QED
    BY <2>1, <2>2, <2>3
<1>2. TypeOK /\ IInv /\ [Next]_vars => [\A t \in Tasks : Final(t)]_vars
  BY <1>1 DEF TypeOK
<1> QED
  BY <1>2, Inductive, TypeCorrect, PTL DEF Spec, PrintedIsFinal

-----------------------------------------------------------------------------
(* The queue *)

(* Enqueue, Cancel, a consumer's take and Stop's close are the steps of    *)
(* the FIFO, and no other step of the executor touches it: what TaskQueue  *)
(* is shown to implement is what the executor uses.                        *)
THEOREM UsesFifo == Spec => Q!Spec
<1>1. Init => Q!Init
  BY DEF Init
<1>2. [Next]_vars => [Q!Next]_(Q!vars)
  <2> SUFFICES ASSUME [Next]_vars PROVE Q!Next \/ UNCHANGED queueVars
    BY DEF queueVars, Q!vars
  <2>1. ASSUME NEW t \in Tasks, Enqueue(t) PROVE Q!Next \/ UNCHANGED queueVars
    <3>1. DeviceOf[t] \in Devices
      BY ConstantTypes
    <3>2. Q!Put(DeviceOf[t], t) \/ UNCHANGED queueVars
      BY <2>1 DEF Enqueue
    <3> QED
      BY <3>1, <3>2 DEF Q!Next
  <2>2. ASSUME NEW d \in Devices, NEW i \in DOMAIN queue[d], Cancel(d, i) PROVE Q!Next
    BY <2>2 DEF Cancel, Q!Next
  <2>3. ASSUME NEW d \in Started, ConsumerTake(d) PROVE Q!Next
    BY <2>3, ConstantTypes DEF ConsumerTake, Q!Next
  <2>4. ASSUME NEW d \in Devices, StopClose(d) PROVE Q!Next
    BY <2>4 DEF StopClose, Q!Next
  <2>5. ASSUME NEW w \in Workers, WorkerReceive(w) \/ WorkerExit(w) \/ TaskStep(w)
        PROVE  UNCHANGED queueVars
    BY <2>5 DEF WorkerReceive, WorkerExit, TaskStep, Attempt, SendStep, Recover, LoopHead, LookupFails,
       LookupOffline, LookupReady, LoadFails, SendBegin, SendFails, SendSucceeds, ErrorCancelled, HandleRetry,
       BackoffEnds, OfflineEnds, WaitCancelled
  <2>6. ASSUME NEW d \in Started,
               \/ ConsumerLoop(d) \/ ConsumerCreate(d) \/ ConsumerClosed(d)
               \/ ConsumerSend(d) \/ ConsumerDrop(d)
        PROVE  UNCHANGED queueVars
    BY <2>6 DEF ConsumerLoop, ConsumerCreate, ConsumerClosed, ConsumerSend, ConsumerDrop
  <2>7. ASSUME NEW d \in Devices, NEW v \in DeviceViews, DeviceMessage(d, v)
        PROVE  UNCHANGED queueVars
    BY <2>7 DEF DeviceMessage
  <2>8. CASE OnTaskResult \/ StopCancel \/ StopSnapshot \/ StopReturn
    BY <2>8 DEF OnTaskResult, StopCancel, StopSnapshot, StopReturn
  <2>9. CASE UNCHANGED vars
    BY <2>9 DEF vars
  <2> QED
    BY <2>1, <2>2, <2>3, <2>4, <2>5, <2>6, <2>7, <2>8, <2>9
       DEF Next, Dispatch, ConsumerStep, StopStep
<1> QED
  BY <1>1, <1>2, PTL DEF Spec, Q!Spec
===============================================================================
