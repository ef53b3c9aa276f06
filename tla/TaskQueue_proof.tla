--------------------------- MODULE TaskQueue_proof ---------------------------
(***************************************************************************)
(* Proofs about TaskQueue for any devices, deliveries, capacity and        *)
(* storage behaviour.                                                      *)
(***************************************************************************)
EXTENDS TaskQueue, SequenceLemmas

-----------------------------------------------------------------------------
(* Type correctness *)

(* The Boolean flags are kept apart: the SMT backend does not see them as  *)
(* values, Zenon does.                                                     *)
LEMMA FlagsTyped == FlagTypes /\ [Next]_vars => FlagTypes'
<1> SUFFICES ASSUME FlagTypes, [Next]_vars PROVE FlagTypes'
  OBVIOUS
<1>1. qClosed' \in BOOLEAN
  BY Zenon DEF FlagTypes, Next, DispatcherStep, EnqueueStep, EnqueueBegin, EnqueueGetOrCreate,
     EnqueueAppend, EnqueueSave, EnqueueSignal, Cancel, ConsumerStep, DequeueStep, ConsumerLoop,
     DequeueGetOrCreate, DequeueTurn, ConsumerSend, ConsumerDrop, StopCancel, CloseStep,
     CloseFlag, CloseSnapshot, CloseReturn, StopReturn, CloseDevice, CloseBroadcast,
     vars, queueVars, dispVars, consVars, stopVars
<1>2. ctxDone' \in BOOLEAN
  BY Zenon DEF FlagTypes, Next, DispatcherStep, EnqueueStep, EnqueueBegin, EnqueueGetOrCreate,
     EnqueueAppend, EnqueueSave, EnqueueSignal, Cancel, ConsumerStep, DequeueStep, ConsumerLoop,
     DequeueGetOrCreate, DequeueTurn, ConsumerSend, ConsumerDrop, StopCancel, CloseStep,
     CloseFlag, CloseSnapshot, CloseReturn, StopReturn, CloseDevice, CloseBroadcast,
     vars, queueVars, dispVars, consVars, stopVars
<1> QED
  BY <1>1, <1>2 DEF FlagTypes

(* What the steps need of the constants.                                   *)
LEMMA ConstantTypes == DeviceOf \in [Tasks -> Devices] /\ Capacity \in Nat
BY QueueAssumption

(* Every reachable state of the queue and of its clients is well typed.    *)
THEOREM TypeCorrect == Spec => []TypeOK
<1>1. Init => DataTypes
  <2> SUFFICES ASSUME Init PROVE DataTypes
    OBVIOUS
  <2> QED
    BY DEF Init, DataTypes, DispPcs, ConsPcs, StopPcs
<1>2. DataTypes /\ [Next]_vars => DataTypes'
  <2> SUFFICES ASSUME DataTypes, [Next]_vars PROVE DataTypes'
    OBVIOUS
  <2> USE DEF DataTypes, DispPcs, ConsPcs, StopPcs
  <2>1. ASSUME NEW t \in Tasks, EnqueueBegin(t) PROVE DataTypes'
    BY <2>1 DEF EnqueueBegin, Answer, queueVars, consVars, stopVars
  <2>2. CASE EnqueueGetOrCreate
    BY <2>2, ConstantTypes DEF EnqueueGetOrCreate, consVars, stopVars
  <2>3. CASE EnqueueAppend
    <3> DEFINE d == DeviceOf[dtask]
    <3>1. dtask \in Tasks /\ d \in Devices
      BY <2>3, ConstantTypes DEF EnqueueAppend
    <3>2. CASE Answer(dtask, "rejected") /\ UNCHANGED tasks
      BY <2>3, <3>1, <3>2 DEF EnqueueAppend, Answer, consVars, stopVars
    <3>3. CASE /\ tasks' = [tasks EXCEPT ![d] = Append(@, dtask)]
               /\ dpc' = "save" /\ UNCHANGED <<dtask, ack>>
      <4>1. tasks' \in [Devices -> Seq(Tasks)]
        BY <3>1, <3>3
      <4> QED
        BY <2>3, <3>1, <3>3, <4>1 DEF EnqueueAppend, consVars, stopVars
    <3> QED
      BY <2>3, <3>2, <3>3 DEF EnqueueAppend
  <2>4. CASE EnqueueSave
    <3> DEFINE d == DeviceOf[dtask]
    <3>1. dtask \in Tasks /\ d \in Devices
      BY <2>4, ConstantTypes DEF EnqueueSave
    <3>2. db' = [db EXCEPT ![d] = SaveTask(@, dtask)] \/ UNCHANGED db
      BY <2>4 DEF EnqueueSave
    <3>3. SaveTask(db[d], dtask) \in SUBSET Tasks
      BY <3>1 DEF SaveTask
    <3>4. db' \in [Devices -> SUBSET Tasks]
      BY <3>1, <3>2, <3>3, ZenonT(60)
    <3> QED
      BY <2>4, <3>1, <3>4 DEF EnqueueSave, consVars, stopVars
  <2>5. CASE EnqueueSignal
    BY <2>5 DEF EnqueueSignal, Answer, queueVars, stopVars
  <2>6. ASSUME NEW t \in Tasks, Cancel(DeviceOf[t], TaskID[t]) PROVE DataTypes'
    <3> DEFINE d == DeviceOf[t]
    <3>1. PICK i \in FirstQueued(d, TaskID[t]) :
            /\ tasks' = [tasks EXCEPT ![d] = RemoveAt(@, i)]
            /\ db' = [db EXCEPT ![d] = DeleteTask(@, TaskID[t])] \/ UNCHANGED db
      BY <2>6 DEF Cancel
    <3>2. i \in 1..Len(tasks[d])
      <4>1. Len(tasks[d]) \in Nat /\ DOMAIN tasks[d] = 1..Len(tasks[d])
        BY ConstantTypes
      <4> QED
        BY <3>1, <4>1 DEF FirstQueued
    <3>3. tasks' \in [Devices -> Seq(Tasks)]
      BY <3>1, <3>2, RemoveAtElements, ConstantTypes
    <3>4. db' \in [Devices -> SUBSET Tasks]
      <4>1. d \in Devices
        BY ConstantTypes
      <4>2. DeleteTask(db[d], TaskID[t]) \in SUBSET Tasks
        BY <4>1 DEF DeleteTask
      <4> QED
        BY <3>1, <4>1, <4>2, ZenonT(60)
    <3> QED
      BY <2>6, <3>3, <3>4 DEF Cancel, dispVars, consVars, stopVars
  <2>7. ASSUME NEW d \in Devices, ConsumerStep(d) PROVE DataTypes'
    <3>1. CASE DequeueTurn(d)
      <4>1. CASE tasks[d] # <<>> /\ ConsumerGoto(d, "send")
                 /\ given' = [given EXCEPT ![d] = Append(@, Head(tasks[d]))]
                 /\ tasks' = [tasks EXCEPT ![d] = Tail(@)]
        <5>1. Head(tasks[d]) \in Tasks /\ Tail(tasks[d]) \in Seq(Tasks)
          BY <4>1
        <5>2. tasks' \in [Devices -> Seq(Tasks)] /\ given' \in [Devices -> Seq(Tasks)]
          BY <4>1, <5>1
        <5> QED
          BY <3>1, <4>1, <5>2 DEF DequeueTurn, ConsumerGoto, dispVars, stopVars
      <4>2. CASE UNCHANGED <<tasks, given>> /\ \E pc \in {"done", "wait"} : ConsumerGoto(d, pc)
        BY <3>1, <4>2 DEF DequeueTurn, ConsumerGoto, dispVars, stopVars
      <4> QED
        BY <3>1, <4>1, <4>2 DEF DequeueTurn
    <3>2. CASE ConsumerLoop(d) \/ DequeueGetOrCreate(d) \/ ConsumerSend(d) \/ ConsumerDrop(d)
      BY <3>2 DEF ConsumerLoop, DequeueGetOrCreate, ConsumerSend, ConsumerDrop, ConsumerGoto,
                  queueVars, dispVars, stopVars
    <3> QED
      BY <2>7, <3>1, <3>2 DEF ConsumerStep, DequeueStep
  <2>8. CASE StopCancel
    BY <2>8 DEF StopCancel, queueVars, dispVars, consVars
  <2>9. CASE CloseStep
    BY <2>9 DEF CloseStep, CloseFlag, CloseSnapshot, CloseReturn, StopReturn, CloseDevice,
                CloseBroadcast, queueVars, dispVars, consVars
  <2>10. CASE UNCHANGED vars
    BY <2>10 DEF vars, queueVars, dispVars, consVars, stopVars
  <2> QED
    BY <2>1, <2>2, <2>3, <2>4, <2>5, <2>6, <2>7, <2>8, <2>9, <2>10
       DEF Next, DispatcherStep, EnqueueStep
<1>3. Init => FlagTypes
  BY DEF Init, FlagTypes
<1> QED
  BY <1>1, <1>2, <1>3, FlagsTyped, PTL DEF Spec, TypeOK

-----------------------------------------------------------------------------
(* Wakeups *)

(* A consumer never sleeps through a task or through Close: for any number *)
(* of devices and deliveries, whoever waits beside a task or on a closed   *)
(* queue has the Signal or the Broadcast ahead of it.                      *)
THEOREM WakeupsKept == Spec => []NoLostWakeup
<1>1. Init => NoLostWakeup
  BY DEF Init, NoLostWakeup
<1>2. TypeOK /\ NoLostWakeup /\ [Next]_vars => NoLostWakeup'
  <2> SUFFICES ASSUME DataTypes, NoLostWakeup, [Next]_vars,
                      NEW c \in Devices, cpc'[c] = "wait"
               PROVE  /\ tasks'[c] # <<>> => dpc' \in {"save", "signal"} /\ DeviceOf[dtask'] = c
                      /\ c \in dqClosed' => c \in bcast'
    BY DEF NoLostWakeup, TypeOK
  <2> DEFINE Goal == /\ tasks'[c] # <<>> => dpc' \in {"save", "signal"} /\ DeviceOf[dtask'] = c
                     /\ c \in dqClosed' => c \in bcast'
  <2> USE DEF NoLostWakeup, DataTypes
  <2>1. ASSUME NEW t \in Tasks, EnqueueBegin(t) PROVE Goal
    BY <2>1 DEF EnqueueBegin, Answer, queueVars, consVars, stopVars
  <2>2. CASE EnqueueGetOrCreate
    BY <2>2 DEF EnqueueGetOrCreate, consVars, stopVars
  <2>3. CASE EnqueueAppend
    BY <2>3, ConstantTypes DEF EnqueueAppend, Answer, consVars, stopVars
  <2>4. CASE EnqueueSave
    BY <2>4 DEF EnqueueSave, consVars, stopVars
  <2>5. CASE EnqueueSignal
    BY <2>5 DEF EnqueueSignal, Answer, queueVars, stopVars
  <2>6. ASSUME NEW t \in Tasks, Cancel(DeviceOf[t], TaskID[t]) PROVE Goal
    <3> DEFINE d == DeviceOf[t]
    <3>1. PICK i \in DOMAIN tasks[d] : tasks' = [tasks EXCEPT ![d] = RemoveAt(@, i)]
      BY <2>6 DEF Cancel, FirstQueued
    <3>2. d \in Devices /\ tasks[d] # <<>>
      BY <3>1, ConstantTypes
    <3>3. c # d
      BY <2>6, <3>2 DEF Cancel, consVars
    <3> QED
      BY <2>6, <3>1, <3>3 DEF Cancel, dispVars, consVars, stopVars
  <2>7. ASSUME NEW d \in Devices, ConsumerStep(d) PROVE Goal
    BY <2>7 DEF ConsumerStep, DequeueStep, ConsumerLoop, DequeueGetOrCreate, DequeueTurn,
                ConsumerSend, ConsumerDrop, ConsumerGoto, queueVars, dispVars, stopVars
  <2>8. CASE StopCancel
    BY <2>8 DEF StopCancel, queueVars, dispVars, consVars
  <2>9. CASE CloseStep
    BY <2>9 DEF CloseStep, CloseFlag, CloseSnapshot, CloseReturn, StopReturn, CloseDevice,
                CloseBroadcast, queueVars, dispVars, consVars
  <2>10. CASE UNCHANGED vars
    BY <2>10 DEF vars, queueVars, dispVars, consVars, stopVars
  <2> QED
    BY <2>1, <2>2, <2>3, <2>4, <2>5, <2>6, <2>7, <2>8, <2>9, <2>10
       DEF Next, DispatcherStep, EnqueueStep
<1> QED
  BY <1>1, <1>2, TypeCorrect, PTL DEF Spec

-----------------------------------------------------------------------------
(* Capacity *)

(* No interleaving lets a device queue outgrow its capacity.               *)
THEOREM CapacityKept == Spec => []WithinCapacity
<1>1. Init => WithinCapacity
  BY ConstantTypes DEF Init, WithinCapacity
<1>2. TypeOK /\ WithinCapacity /\ [Next]_vars => WithinCapacity'
  <2> SUFFICES ASSUME DataTypes, WithinCapacity, [Next]_vars, NEW c \in Devices
               PROVE  Len(tasks'[c]) <= Capacity
    BY DEF WithinCapacity, TypeOK
  <2> DEFINE Goal == Len(tasks'[c]) <= Capacity
  <2>0. tasks \in [Devices -> Seq(Tasks)] /\ Len(tasks[c]) \in Nat /\ Len(tasks[c]) <= Capacity
    BY DEF DataTypes, WithinCapacity
  <2>1. CASE EnqueueAppend
    <3>1. dtask \in Tasks
      BY <2>1 DEF EnqueueAppend, DataTypes
    <3>2. \/ UNCHANGED tasks
          \/ /\ Len(tasks[DeviceOf[dtask]]) < Capacity
             /\ tasks' = [tasks EXCEPT ![DeviceOf[dtask]] = Append(@, dtask)]
      BY <2>1 DEF EnqueueAppend
    <3>3. CASE UNCHANGED tasks
      BY <2>0, <3>3
    <3>4. CASE /\ Len(tasks[DeviceOf[dtask]]) < Capacity
               /\ tasks' = [tasks EXCEPT ![DeviceOf[dtask]] = Append(@, dtask)]
      <4>1. CASE c = DeviceOf[dtask]
        <5>1. Len(tasks[c]) < Capacity /\ tasks'[c] = Append(tasks[c], dtask)
          BY <2>0, <3>4, <4>1
        <5>2. tasks[c] \in Seq(Tasks)
          BY <2>0
        <5>3. Len(Append(tasks[c], dtask)) = Len(tasks[c]) + 1
          BY <3>1, <5>2, AppendProperties
        <5> QED
          BY <2>0, <5>1, <5>3, ConstantTypes
      <4>2. CASE c # DeviceOf[dtask]
        BY <2>0, <3>4, <4>2
      <4> QED
        BY <4>1, <4>2
    <3> QED
      BY <3>2, <3>3, <3>4
  <2>2. ASSUME NEW t \in Tasks, Cancel(DeviceOf[t], TaskID[t]) PROVE Goal
    <3> DEFINE d == DeviceOf[t]
    <3>1. d \in Devices /\ tasks[d] \in Seq(Tasks) /\ DOMAIN tasks[d] = 1..Len(tasks[d])
      BY <2>0, ConstantTypes
    <3>2. PICK i \in DOMAIN tasks[d] : tasks' = [tasks EXCEPT ![d] = RemoveAt(@, i)]
      BY <2>2 DEF Cancel, FirstQueued
    <3>3. Len(RemoveAt(tasks[d], i)) = Len(tasks[d]) - 1
      BY <3>1, RemoveAtElements
    <3>4. CASE c = d
      <4>1. tasks'[c] = RemoveAt(tasks[d], i)
        BY <2>0, <3>2, <3>4
      <4> QED
        BY <2>0, <3>3, <3>4, <4>1, ConstantTypes
    <3>5. CASE c # d
      BY <2>0, <3>2, <3>5
    <3> QED
      BY <3>4, <3>5
  <2>3. ASSUME NEW d \in Devices, DequeueTurn(d) PROVE Goal
    <3>1. UNCHANGED tasks \/ (tasks[d] # <<>> /\ tasks' = [tasks EXCEPT ![d] = Tail(@)])
      BY <2>3 DEF DequeueTurn
    <3>2. CASE c = d /\ tasks[d] # <<>> /\ tasks' = [tasks EXCEPT ![d] = Tail(@)]
      <4>1. tasks'[c] = Tail(tasks[c])
        BY <2>0, <3>2
      <4>2. Len(Tail(tasks[c])) = Len(tasks[c]) - 1
        BY <2>0, <3>2
      <4> QED
        BY <2>0, <4>1, <4>2, ConstantTypes
    <3> QED
      BY <2>0, <3>1, <3>2
  <2>4. CASE UNCHANGED tasks
    BY <2>0, <2>4
  <2> QED
    BY <2>1, <2>2, <2>3, <2>4
       DEF Next, DispatcherStep, EnqueueStep, EnqueueBegin, EnqueueGetOrCreate, EnqueueSave,
           EnqueueSignal, ConsumerStep, DequeueStep, ConsumerLoop, DequeueGetOrCreate,
           ConsumerSend, ConsumerDrop, StopCancel, CloseStep, CloseFlag, CloseSnapshot,
           CloseReturn, StopReturn, CloseDevice, CloseBroadcast, vars, queueVars
<1> QED
  BY <1>1, <1>2, TypeCorrect, PTL DEF Spec

-----------------------------------------------------------------------------
(* Refinement *)

(* Every behaviour of the queue under its concurrent clients is one of the *)
(* bounded FIFO per device: Enqueue's append is Put, the pop of Dequeue is *)
(* Take, Cancel is Withdraw, closing a device queue is Shut, and every     *)
(* other step changes none of them.                                        *)
THEOREM QueueImplementsFifo == Spec => ImplementsFifo
<1>1. Init => Fifo!Init
  BY DEF Init, Fifo!Init
<1>2. TypeOK /\ [Next]_vars => [Fifo!Next]_(Fifo!vars)
  <2> SUFFICES ASSUME DataTypes, [Next]_vars PROVE [Fifo!Next]_(Fifo!vars)
    BY DEF TypeOK
  <2> USE DEF Fifo!vars
  <2>1. CASE EnqueueAppend
    <3> DEFINE d == DeviceOf[dtask]
    <3>1. dtask \in Tasks /\ d \in Devices
      BY <2>1, ConstantTypes DEF EnqueueAppend, DataTypes
    <3>2. CASE UNCHANGED tasks
      BY <2>1, <3>2 DEF EnqueueAppend, consVars
    <3>3. CASE /\ d \notin dqClosed /\ Len(tasks[d]) < Capacity
               /\ tasks' = [tasks EXCEPT ![d] = Append(@, dtask)]
      <4>1. Fifo!Put(d, dtask)
        BY <2>1, <3>3 DEF EnqueueAppend, consVars, Fifo!Put
      <4> QED
        BY <3>1, <4>1 DEF Fifo!Next
    <3> QED
      BY <2>1, <3>2, <3>3 DEF EnqueueAppend
  <2>2. ASSUME NEW t \in Tasks, Cancel(DeviceOf[t], TaskID[t]) PROVE Fifo!Next
    <3> DEFINE d == DeviceOf[t]
    <3>1. PICK i \in DOMAIN tasks[d] : tasks' = [tasks EXCEPT ![d] = RemoveAt(@, i)]
      BY <2>2 DEF Cancel, FirstQueued
    <3>2. Fifo!Withdraw(d, i)
      BY <2>2, <3>1 DEF Cancel, consVars, Fifo!Withdraw, RemoveAt, Fifo!RemoveAt
    <3> QED
      BY <3>1, <3>2, ConstantTypes DEF Fifo!Next
  <2>3. ASSUME NEW d \in Devices, DequeueTurn(d) PROVE [Fifo!Next]_(Fifo!vars)
    <3>1. CASE UNCHANGED <<tasks, given>>
      BY <2>3, <3>1 DEF DequeueTurn
    <3>2. CASE ~UNCHANGED <<tasks, given>>
      <4>1. /\ d \notin dqClosed /\ tasks[d] # <<>>
            /\ given' = [given EXCEPT ![d] = Append(@, Head(tasks[d]))]
            /\ tasks' = [tasks EXCEPT ![d] = Tail(@)]
            /\ UNCHANGED dqClosed
        BY <2>3, <3>2 DEF DequeueTurn
      <4>2. Fifo!Take(d)
        BY <4>1 DEF Fifo!Take
      <4> QED
        BY <4>2 DEF Fifo!Next
    <3> QED
      BY <3>1, <3>2
  <2>4. ASSUME NEW d \in Devices, CloseDevice(d) PROVE Fifo!Next
    BY <2>4 DEF CloseDevice, consVars, Fifo!Shut, Fifo!Next
  <2>5. CASE UNCHANGED <<tasks, given, dqClosed>>
    BY <2>5
  <2> QED
    BY <2>1, <2>2, <2>3, <2>4, <2>5
       DEF Next, DispatcherStep, EnqueueStep, EnqueueBegin, EnqueueGetOrCreate, EnqueueSave,
           EnqueueSignal, ConsumerStep, DequeueStep, ConsumerLoop, DequeueGetOrCreate,
           ConsumerSend, ConsumerDrop, StopCancel, CloseStep, CloseFlag, CloseSnapshot,
           CloseReturn, StopReturn, CloseBroadcast, vars, queueVars, consVars
<1> QED
  BY <1>1, <1>2, TypeCorrect, PTL DEF Spec, ImplementsFifo, Fifo!Spec

-----------------------------------------------------------------------------
(* Each delivery once *)

(* A device's queue and consumer have only tasks for the device ...        *)
OwnTasks ==
  \A d \in Devices :
    /\ \A i \in DOMAIN tasks[d] : DeviceOf[tasks[d][i]] = d
    /\ \A i \in DOMAIN given[d] : DeviceOf[given[d][i]] = d

(* ... no two of them the same ...                                         *)
OnlyOnce ==
  \A d \in Devices :
    /\ \A i, j \in DOMAIN tasks[d] : tasks[d][i] = tasks[d][j] => i = j
    /\ \A i, j \in DOMAIN given[d] : given[d][i] = given[d][j] => i = j
    /\ \A i \in DOMAIN tasks[d], j \in DOMAIN given[d] : tasks[d][i] # given[d][j]

(* ... and all of them taken in by Enqueue, which works on a delivery that *)
(* has no answer yet.                                                      *)
TakenIn(t) == ack[t] = "accepted" \/ (dpc \in {"save", "signal"} /\ dtask = t)
AllTakenIn ==
  \A d \in Devices :
    /\ \A i \in DOMAIN tasks[d] : TakenIn(tasks[d][i])
    /\ \A i \in DOMAIN given[d] : TakenIn(given[d][i])
Unanswered == dpc # "idle" => ack[dtask] = "none"

Once == OwnTasks /\ OnlyOnce /\ AllTakenIn /\ Unanswered

(* A step that leaves the slices and what the consumers got alone, and     *)
(* answers only the delivery it works on.                                  *)
LEMMA StillOnce ==
  ASSUME Once, UNCHANGED <<tasks, given>>, Unanswered',
         \A u \in Tasks : TakenIn(u) => TakenIn(u)', DataTypes
  PROVE  Once'
<1>1. \A d \in Devices : /\ \A i \in DOMAIN tasks[d] : tasks[d][i] \in Tasks
                         /\ \A i \in DOMAIN given[d] : given[d][i] \in Tasks
  BY DEF DataTypes
<1>2. AllTakenIn'
  BY <1>1 DEF Once, AllTakenIn
<1> QED
  BY <1>2 DEF Once, OwnTasks, OnlyOnce

(* One device's queue changes to q.                                        *)
LEMMA OtherDevices ==
  ASSUME DataTypes, NEW d \in Devices, NEW q, tasks' = [tasks EXCEPT ![d] = q]
  PROVE  tasks'[d] = q /\ \A c \in Devices \ {d} : tasks'[c] = tasks[c]
BY DEF DataTypes

(* A device queue without its i-th task.                                   *)
LEMMA OneLess ==
  ASSUME DataTypes, Once, NEW d \in Devices, NEW i \in DOMAIN tasks[d], NEW q,
         tasks' = [tasks EXCEPT ![d] = q],
         \A j \in DOMAIN q : /\ q[j] = tasks[d][Place(i, j)]
                             /\ Place(i, j) \in DOMAIN tasks[d] /\ Place(i, j) # i,
         \A j, k \in DOMAIN q : Place(i, j) = Place(i, k) => j = k
  PROVE  /\ \A c \in Devices : \A j \in DOMAIN tasks'[c] :
              /\ \E k \in DOMAIN tasks[c] : tasks[c][k] = tasks'[c][j]
              /\ c = d => tasks'[c][j] # tasks[d][i]
         /\ \A c \in Devices : \A j, k \in DOMAIN tasks'[c] : tasks'[c][j] = tasks'[c][k] => j = k
<1>1. tasks'[d] = q /\ \A c \in Devices \ {d} : tasks'[c] = tasks[c]
  BY OtherDevices
<1>2. \A c \in Devices : \A j, k \in DOMAIN tasks[c] : tasks[c][j] = tasks[c][k] => j = k
  BY DEF Once, OnlyOnce
<1>3. ASSUME NEW c \in Devices, NEW j \in DOMAIN tasks'[c]
      PROVE  /\ \E k \in DOMAIN tasks[c] : tasks[c][k] = tasks'[c][j]
             /\ c = d => tasks'[c][j] # tasks[d][i]
  BY <1>1, <1>2
<1>4. ASSUME NEW c \in Devices, NEW j \in DOMAIN tasks'[c], NEW k \in DOMAIN tasks'[c],
             tasks'[c][j] = tasks'[c][k]
      PROVE  j = k
  BY <1>1, <1>2, <1>4
<1> QED
  BY <1>3, <1>4

(* What Cancel and the pop of Dequeue do to a slice.                       *)
LEMMA Removal ==
  ASSUME NEW s \in Seq(Tasks), NEW i \in DOMAIN s
  PROVE  /\ \A j \in DOMAIN RemoveAt(s, i) :
              /\ RemoveAt(s, i)[j] = s[Place(i, j)]
              /\ Place(i, j) \in DOMAIN s /\ Place(i, j) # i
         /\ \A j, k \in DOMAIN RemoveAt(s, i) : Place(i, j) = Place(i, k) => j = k
<1> DEFINE r == RemoveAt(s, i)
<1>1. i \in 1..Len(s) /\ DOMAIN s \subseteq Int
  BY LenProperties
<1>2. r \in Seq(Tasks)
  BY <1>1, RemoveAtElements
<1>3. DOMAIN r \subseteq Int
  BY <1>2, LenProperties
<1>4. /\ \A j \in DOMAIN r : /\ r[j] = s[Place(i, j)]
                             /\ Place(i, j) \in DOMAIN s /\ Place(i, j) # i
      /\ \A j, k \in DOMAIN r : j < k => Place(i, j) < Place(i, k)
  BY <1>1, RemoveAtPlaces
<1> HIDE DEF r
<1>5. \A j, k \in DOMAIN r : Place(i, j) = Place(i, k) => j = k
  BY <1>1, <1>3, <1>4
<1> QED
  BY <1>4, <1>5 DEF r

(* A pop takes the first element and shifts the others.                    *)
LEMMA Pop ==
  ASSUME NEW s \in Seq(Tasks), s # <<>>, NEW i, i = 1
  PROVE  /\ i \in DOMAIN s /\ Head(s) = s[i] /\ Head(s) \in Tasks
         /\ \A j \in DOMAIN Tail(s) : /\ Tail(s)[j] = s[Place(i, j)]
                                      /\ Place(i, j) \in DOMAIN s /\ Place(i, j) # i
         /\ \A j, k \in DOMAIN Tail(s) : Place(i, j) = Place(i, k) => j = k
<1> DEFINE r == Tail(s)
<1>1. DOMAIN s \subseteq Int /\ DOMAIN r \subseteq Int
  <2>1. r \in Seq(Tasks)
    BY TailElements
  <2> QED
    BY <2>1, LenProperties
<1>2. /\ 1 \in DOMAIN s /\ Head(s) = s[1] /\ Head(s) \in Tasks
      /\ \A j \in DOMAIN r : /\ r[j] = s[Place(1, j)]
                             /\ Place(1, j) \in DOMAIN s /\ Place(1, j) # 1
      /\ \A j, k \in DOMAIN r : j < k => Place(1, j) < Place(1, k)
  BY TailPlaces
<1> HIDE DEF r
<1>3. \A j, k \in DOMAIN r : Place(1, j) = Place(1, k) => j = k
  BY <1>1, <1>2
<1> QED
  BY <1>2, <1>3 DEF r

(* The dispatcher adds a delivery that was not yet answered ...            *)
LEMMA OnceAppend ==
  ASSUME DataTypes, Once, EnqueueAppend
  PROVE  Once'
<1>1. PICK t \in Tasks : t = dtask
  BY DEF EnqueueAppend, DataTypes
<1>2. PICK d \in Devices : d = DeviceOf[t]
  BY ConstantTypes
<1>3. dpc = "append" /\ UNCHANGED given /\ ack[t] = "none"
  BY <1>1 DEF EnqueueAppend, consVars, Once, Unanswered
<1>4. CASE UNCHANGED tasks /\ Answer(dtask, "rejected")
  <2>1. \A u \in Tasks : TakenIn(u) => TakenIn(u)'
    BY <1>1, <1>3, <1>4 DEF Answer, TakenIn, DataTypes
  <2>2. Unanswered'
    BY <1>4 DEF Answer, Unanswered
  <2> QED
    BY <1>3, <1>4, <2>1, <2>2, StillOnce
<1>5. CASE /\ tasks' = [tasks EXCEPT ![d] = Append(tasks[d], t)]
           /\ dpc' = "save" /\ UNCHANGED <<dtask, ack>>
  <2> DEFINE s == tasks[d]
             q == Append(s, t)
             m == Len(s)
  <2>1. s \in Seq(Tasks) /\ m \in Nat /\ DOMAIN s = 1..m
    BY LenProperties DEF DataTypes
  <2>2. DOMAIN q = 1..(m + 1) /\ q[m + 1] = t /\ \A j \in 1..m : q[j] = s[j]
    <3>1. q \in Seq(Tasks) /\ Len(q) = m + 1
      BY <2>1, AppendElements
    <3>2. DOMAIN q = 1..Len(q)
      BY <3>1, LenProperties
    <3> QED
      BY <2>1, <3>1, <3>2, AppendElements
  <2>3. tasks'[d] = q /\ \A c \in Devices \ {d} : tasks'[c] = tasks[c]
    BY <1>5, OtherDevices
  <2> HIDE DEF q
  <2>4. /\ \A j \in DOMAIN q : j \in DOMAIN s \/ j = m + 1
        /\ \A j \in DOMAIN s : q[j] = s[j]
    BY <2>1, <2>2
  <2> HIDE DEF m
  <2>5. \A c \in Devices : /\ \A i \in DOMAIN tasks[c] : tasks[c][i] # t
                           /\ \A i \in DOMAIN given[c] : given[c][i] # t
    BY <1>3 DEF Once, AllTakenIn, TakenIn
  <2>6. OwnTasks'
    <3>1. /\ \A c \in Devices : \A i \in DOMAIN tasks[c] : DeviceOf[tasks[c][i]] = c
          /\ \A c \in Devices : \A i \in DOMAIN given[c] : DeviceOf[given[c][i]] = c
      BY DEF Once, OwnTasks
    <3>2. \A i \in DOMAIN q : DeviceOf[q[i]] = d
      BY <1>2, <2>2, <2>4, <3>1
    <3>3. \A c \in Devices : \A i \in DOMAIN tasks'[c] : DeviceOf[tasks'[c][i]] = c
      BY <2>3, <3>1, <3>2
    <3> QED
      BY <1>3, <3>1, <3>3 DEF OwnTasks
  <2>7. OnlyOnce'
    <3>1. \A c \in Devices :
            /\ \A i, j \in DOMAIN tasks[c] : tasks[c][i] = tasks[c][j] => i = j
            /\ \A i, j \in DOMAIN given[c] : given[c][i] = given[c][j] => i = j
            /\ \A i \in DOMAIN tasks[c], j \in DOMAIN given[c] : tasks[c][i] # given[c][j]
      BY DEF Once, OnlyOnce
    <3>2. \A i, j \in DOMAIN q : q[i] = q[j] => i = j
      BY <2>2, <2>4, <2>5, <3>1
    <3>3. \A i \in DOMAIN q, j \in DOMAIN given[d] : q[i] # given[d][j]
      BY <2>2, <2>4, <2>5, <3>1
    <3> QED
      BY <1>3, <2>3, <3>1, <3>2, <3>3 DEF OnlyOnce
  <2>8. AllTakenIn'
    <3>1. \A u : TakenIn(u) \/ u = t => TakenIn(u)'
      BY <1>1, <1>3, <1>5 DEF TakenIn
    <3>2. \A c \in Devices : /\ \A i \in DOMAIN tasks[c] : TakenIn(tasks[c][i])
                             /\ \A i \in DOMAIN given[c] : TakenIn(given[c][i])
      BY DEF Once, AllTakenIn
    <3>3. \A i \in DOMAIN q : TakenIn(q[i]) \/ q[i] = t
      BY <2>2, <2>4, <3>2
    <3>4. \A c \in Devices :
            /\ \A i \in DOMAIN tasks'[c] : TakenIn(tasks'[c][i]) \/ tasks'[c][i] = t
            /\ \A i \in DOMAIN given'[c] : TakenIn(given'[c][i])
      BY <1>3, <2>3, <3>2, <3>3
    <3> QED
      BY <1>1, <1>3, <1>5, <3>4 DEF AllTakenIn, TakenIn
  <2>9. Unanswered'
    BY <1>1, <1>3, <1>5 DEF Unanswered
  <2> QED
    BY <2>6, <2>7, <2>8, <2>9 DEF Once
<1> QED
  BY <1>1, <1>2, <1>4, <1>5 DEF EnqueueAppend

(* ... a cancellation only takes away ...                                  *)
LEMMA OnceCancel ==
  ASSUME DataTypes, Once, NEW d \in Devices, NEW id, Cancel(d, id)
  PROVE  Once'
<1>1. UNCHANGED <<given, dpc, dtask, ack>>
  BY DEF Cancel, consVars, dispVars
<1>2. PICK i \in DOMAIN tasks[d] : tasks' = [tasks EXCEPT ![d] = RemoveAt(tasks[d], i)]
  BY DEF Cancel, FirstQueued
<1>3. tasks[d] \in Seq(Tasks)
  BY DEF DataTypes
<1>4. /\ \A c \in Devices : \A j \in DOMAIN tasks'[c] :
           \E k \in DOMAIN tasks[c] : tasks[c][k] = tasks'[c][j]
      /\ \A c \in Devices : \A j, k \in DOMAIN tasks'[c] : tasks'[c][j] = tasks'[c][k] => j = k
  <2> DEFINE q == RemoveAt(tasks[d], i)
  <2>1. /\ \A j \in DOMAIN q : /\ q[j] = tasks[d][Place(i, j)]
                               /\ Place(i, j) \in DOMAIN tasks[d] /\ Place(i, j) # i
        /\ \A j, k \in DOMAIN q : Place(i, j) = Place(i, k) => j = k
    BY <1>3, Removal
  <2>2. tasks' = [tasks EXCEPT ![d] = q]
    BY <1>2
  <2> HIDE DEF q
  <2>3. /\ \A b \in Devices : \A l \in DOMAIN tasks'[b] :
             /\ \E k \in DOMAIN tasks[b] : tasks[b][k] = tasks'[b][l]
             /\ b = d => tasks'[b][l] # tasks[d][i]
        /\ \A b \in Devices : \A l, k \in DOMAIN tasks'[b] : tasks'[b][l] = tasks'[b][k] => l = k
    BY <2>1, <2>2, OneLess
  <2> QED
    BY <2>3
<1>5. OwnTasks' /\ OnlyOnce'
  BY <1>1, <1>4 DEF Once, OwnTasks, OnlyOnce
<1>6. AllTakenIn'
  BY <1>1, <1>4 DEF Once, AllTakenIn, TakenIn
<1>7. Unanswered'
  BY <1>1 DEF Once, Unanswered
<1> QED
  BY <1>5, <1>6, <1>7 DEF Once

(* ... and a consumer moves the head from the queue to what it was given.  *)
LEMMA OncePop ==
  ASSUME DataTypes, Once, NEW d \in Devices, tasks[d] # <<>>,
         given' = [given EXCEPT ![d] = Append(@, Head(tasks[d]))],
         tasks' = [tasks EXCEPT ![d] = Tail(@)],
         UNCHANGED <<dpc, dtask, ack>>
  PROVE  Once'
<1>1. tasks[d] \in Seq(Tasks) /\ given[d] \in Seq(Tasks)
  BY DEF DataTypes
<1>2. PICK i : i = 1
  OBVIOUS
<1>3. i \in DOMAIN tasks[d]
  BY <1>1, <1>2, Pop
<1>4. PICK h \in Tasks : h = Head(tasks[d]) /\ h = tasks[d][i]
  BY <1>1, <1>2, Pop
<1>5. /\ \A c \in Devices : \A j \in DOMAIN tasks'[c] :
           /\ \E k \in DOMAIN tasks[c] : tasks[c][k] = tasks'[c][j]
           /\ c = d => tasks'[c][j] # h
      /\ \A c \in Devices : \A j, k \in DOMAIN tasks'[c] : tasks'[c][j] = tasks'[c][k] => j = k
  <2> DEFINE q == Tail(tasks[d])
  <2>1. /\ \A j \in DOMAIN q : /\ q[j] = tasks[d][Place(i, j)]
                               /\ Place(i, j) \in DOMAIN tasks[d] /\ Place(i, j) # i
        /\ \A j, k \in DOMAIN q : Place(i, j) = Place(i, k) => j = k
    BY <1>1, <1>2, Pop
  <2>2. tasks' = [tasks EXCEPT ![d] = q]
    OBVIOUS
  <2> HIDE DEF q
  <2>3. /\ \A b \in Devices : \A l \in DOMAIN tasks'[b] :
             /\ \E k \in DOMAIN tasks[b] : tasks[b][k] = tasks'[b][l]
             /\ b = d => tasks'[b][l] # tasks[d][i]
        /\ \A b \in Devices : \A l, k \in DOMAIN tasks'[b] : tasks'[b][l] = tasks'[b][k] => l = k
    BY ONLY DataTypes, Once, d \in Devices, <1>3, <2>1, <2>2, OneLess
  <2> QED
    BY <1>4, <2>3
<1> DEFINE g == given[d]
           a == Append(g, h)
           m == Len(g)
<1>6. /\ DOMAIN a = 1..(m + 1) /\ a[m + 1] = h /\ \A j \in 1..m : a[j] = g[j]
      /\ m \in Nat /\ DOMAIN g = 1..m
  <2>1. a \in Seq(Tasks) /\ Len(a) = m + 1
    BY <1>1, AppendElements
  <2>2. DOMAIN a = 1..Len(a)
    BY <2>1, LenProperties
  <2> QED
    BY <1>1, <2>1, <2>2, AppendElements, LenProperties
<1>7. given'[d] = a /\ \A c \in Devices \ {d} : given'[c] = given[c]
  BY <1>4 DEF DataTypes
<1> HIDE DEF a
<1>8. /\ \A j \in DOMAIN a : j \in DOMAIN g \/ j = m + 1
      /\ \A j \in DOMAIN g : a[j] = g[j]
  BY <1>6
<1> HIDE DEF m
<1>9. \A c \in Devices :
        /\ \A j \in DOMAIN tasks[c] : DeviceOf[tasks[c][j]] = c /\ TakenIn(tasks[c][j])
        /\ \A j \in DOMAIN given[c] : DeviceOf[given[c][j]] = c /\ TakenIn(given[c][j])
        /\ \A j, k \in DOMAIN given[c] : given[c][j] = given[c][k] => j = k
        /\ \A j \in DOMAIN tasks[c], k \in DOMAIN given[c] : tasks[c][j] # given[c][k]
  BY DEF Once, OwnTasks, OnlyOnce, AllTakenIn
<1>10. \A u : TakenIn(u)' <=> TakenIn(u)
  BY DEF TakenIn
<1>11. /\ \A j \in DOMAIN a : DeviceOf[a[j]] = d /\ TakenIn(a[j])
       /\ \A j, k \in DOMAIN a : a[j] = a[k] => j = k
  BY <1>3, <1>4, <1>6, <1>8, <1>9, SMTT(30)
<1>12. \A j \in DOMAIN tasks'[d], k \in DOMAIN a : tasks'[d][j] # a[k]
  BY <1>5, <1>6, <1>8, <1>9
<1>13. OwnTasks'
  BY <1>5, <1>7, <1>9, <1>11 DEF OwnTasks
<1>14. OnlyOnce'
  <2>1. ASSUME NEW c \in Devices
        PROVE  /\ \A j, k \in DOMAIN given'[c] : given'[c][j] = given'[c][k] => j = k
               /\ \A j \in DOMAIN tasks'[c], k \in DOMAIN given'[c] : tasks'[c][j] # given'[c][k]
    <3>1. CASE c = d
      BY <1>7, <1>11, <1>12, <3>1, SMTT(30)
    <3>2. CASE c # d
      BY <1>5, <1>7, <1>9, <3>2
    <3> QED
      BY <3>1, <3>2
  <2> QED
    BY <1>5, <2>1 DEF OnlyOnce
<1>15. AllTakenIn'
  <2>1. \A c \in Devices : /\ \A j \in DOMAIN tasks'[c] : TakenIn(tasks'[c][j])
                           /\ \A j \in DOMAIN given'[c] : TakenIn(given'[c][j])
    BY <1>5, <1>7, <1>9, <1>11
  <2> QED
    BY <2>1 DEF AllTakenIn, TakenIn
<1>16. Unanswered'
  BY DEF Once, Unanswered
<1> QED
  BY <1>13, <1>14, <1>15, <1>16 DEF Once

(* A delivery is in one place of one device from being taken in on.        *)
LEMMA OnceInvariant == Spec => []Once
<1>1. Init => Once
  BY DEF Init, Once, OwnTasks, OnlyOnce, AllTakenIn, Unanswered
<1>2. TypeOK /\ Once /\ [Next]_vars => Once'
  <2> SUFFICES ASSUME DataTypes, Once, [Next]_vars PROVE Once'
    BY DEF TypeOK
  <2>1. ASSUME UNCHANGED <<tasks, given, dpc, dtask, ack>> PROVE Once'
    <3>1. \A u \in Tasks : TakenIn(u) => TakenIn(u)'
      BY <2>1 DEF TakenIn
    <3>2. Unanswered'
      BY <2>1 DEF Once, Unanswered
    <3> QED
      BY <2>1, <3>1, <3>2, StillOnce
  <2>2. ASSUME NEW t \in Tasks, EnqueueBegin(t) PROVE Once'
    <3>1. /\ UNCHANGED <<tasks, given>> /\ dpc = "idle" /\ ack[t] = "none"
          /\ \/ ack' = [ack EXCEPT ![t] = "rejected"] /\ dpc' = "idle"
             \/ UNCHANGED ack /\ dpc' = "create" /\ dtask' = t
      BY <2>2 DEF EnqueueBegin, Answer, queueVars, consVars
    <3>2. \A u \in Tasks : TakenIn(u) => TakenIn(u)'
      BY <3>1 DEF TakenIn, DataTypes
    <3>3. Unanswered'
      BY <3>1 DEF Unanswered
    <3> QED
      BY <3>1, <3>2, <3>3, StillOnce
  <2>3. CASE EnqueueGetOrCreate \/ EnqueueSave
    <3>1. /\ UNCHANGED <<tasks, given, dtask, ack>>
          /\ dpc # "idle" /\ (dpc \in {"save", "signal"} => dpc' \in {"save", "signal"})
      BY <2>3 DEF EnqueueGetOrCreate, EnqueueSave, consVars
    <3>2. \A u \in Tasks : TakenIn(u) => TakenIn(u)'
      BY <3>1 DEF TakenIn
    <3>3. Unanswered'
      BY <3>1 DEF Once, Unanswered
    <3> QED
      BY <3>1, <3>2, <3>3, StillOnce
  <2>4. CASE EnqueueSignal
    <3>1. /\ UNCHANGED <<tasks, given>> /\ dtask \in Tasks
          /\ ack' = [ack EXCEPT ![dtask] = "accepted"] /\ dpc' = "idle"
      BY <2>4 DEF EnqueueSignal, Answer, queueVars, DataTypes
    <3>2. \A u \in Tasks : TakenIn(u) => TakenIn(u)'
      BY <3>1 DEF TakenIn, DataTypes
    <3>3. Unanswered'
      BY <3>1 DEF Unanswered
    <3> QED
      BY <3>1, <3>2, <3>3, StillOnce
  <2>5. ASSUME NEW t \in Tasks, Cancel(DeviceOf[t], TaskID[t]) PROVE Once'
    BY <2>5, OnceCancel, ConstantTypes
  <2>6. ASSUME NEW d \in Devices, DequeueTurn(d) PROVE Once'
    BY <2>1, <2>6, OncePop DEF DequeueTurn, dispVars
  <2>7. ASSUME NEW d \in Devices,
               ConsumerLoop(d) \/ DequeueGetOrCreate(d) \/ ConsumerSend(d) \/ ConsumerDrop(d)
        PROVE  Once'
    BY <2>1, <2>7 DEF ConsumerLoop, DequeueGetOrCreate, ConsumerSend, ConsumerDrop, queueVars,
       dispVars
  <2>8. CASE StopCancel \/ CloseStep \/ UNCHANGED vars
    BY <2>1, <2>8 DEF StopCancel, CloseStep, CloseFlag, CloseSnapshot, CloseReturn, StopReturn,
       CloseDevice, CloseBroadcast, vars, queueVars, dispVars, consVars
  <2> QED
    BY <2>2, <2>3, <2>4, <2>5, <2>6, <2>7, <2>8, OnceAppend
       DEF Next, DispatcherStep, EnqueueStep, ConsumerStep, DequeueStep
<1> QED
  BY <1>1, <1>2, TypeCorrect, PTL DEF Spec

(* A delivery is queued for, or given to, its own device and at most once, *)
(* and only if Enqueue accepted it or is past the append and will.         *)
THEOREM Delivery == Spec => []DeliveredOnce
<1>1. ASSUME DataTypes, Once, NEW d \in Devices
      PROVE  LET seen == given[d] \o tasks[d] IN
             /\ \A i, j \in DOMAIN seen : seen[i] = seen[j] => i = j
             /\ \A i \in DOMAIN seen :
                  /\ DeviceOf[seen[i]] = d
                  /\ \/ ack[seen[i]] = "accepted"
                     \/ dpc \in {"save", "signal"} /\ dtask = seen[i]
  <2> DEFINE g == given[d]
             s == tasks[d]
             seen == g \o s
             m == Len(g)
  <2>1. g \in Seq(Tasks) /\ s \in Seq(Tasks)
    BY <1>1 DEF DataTypes
  <2>2. /\ \A i \in DOMAIN s : DeviceOf[s[i]] = d /\ TakenIn(s[i])
        /\ \A i \in DOMAIN g : DeviceOf[g[i]] = d /\ TakenIn(g[i])
        /\ \A i, j \in DOMAIN s : s[i] = s[j] => i = j
        /\ \A i, j \in DOMAIN g : g[i] = g[j] => i = j
        /\ \A i \in DOMAIN s, j \in DOMAIN g : s[i] # g[j]
    BY <1>1 DEF Once, OwnTasks, OnlyOnce, AllTakenIn
  <2>3. /\ m \in Nat /\ Len(s) \in Nat /\ DOMAIN g = 1..m /\ DOMAIN s = 1..Len(s)
        /\ DOMAIN seen = 1..(m + Len(s))
        /\ \A i \in 1..(m + Len(s)) : seen[i] = IF i <= m THEN g[i] ELSE s[i - m]
    <3>1. /\ seen \in Seq(Tasks) /\ Len(seen) = m + Len(s)
          /\ \A i \in 1..(m + Len(s)) : seen[i] = IF i <= m THEN g[i] ELSE s[i - m]
      BY <2>1, ConcatProperties
    <3>2. m \in Nat /\ Len(s) \in Nat /\ DOMAIN g = 1..m /\ DOMAIN s = 1..Len(s)
      BY <2>1, LenProperties
    <3>3. DOMAIN seen = 1..Len(seen)
      BY <3>1, LenProperties
    <3> QED
      BY <3>1, <3>2, <3>3
  <2> HIDE DEF g, s, m, seen
  <2>4. \A i \in DOMAIN seen :
          \/ i \in DOMAIN g /\ seen[i] = g[i]
          \/ i - m \in DOMAIN s /\ seen[i] = s[i - m]
    BY <2>3
  <2>5. \A i, j \in DOMAIN seen : seen[i] = seen[j] => i = j
    BY <2>2, <2>3, <2>4
  <2>6. \A i \in DOMAIN seen : DeviceOf[seen[i]] = d /\ TakenIn(seen[i])
    BY <2>2, <2>4
  <2> QED
    BY <2>5, <2>6 DEF seen, g, s, TakenIn
<1>2. TypeOK /\ Once => DeliveredOnce
  BY <1>1 DEF TypeOK, DeliveredOnce
<1> QED
  BY <1>2, OnceInvariant, TypeCorrect, PTL

-----------------------------------------------------------------------------
(* Storage *)

(* Saving or deleting the record of a task leaves alone the records of     *)
(* tasks with an id and a sequence number of their own.                    *)
LEMMA RecordsKept ==
  ASSUME NEW S \in SUBSET Tasks, NEW t \in Tasks, UniqueKey(t)
  PROVE  /\ \A u \in Tasks : t \in S \/ t = u => t \in SaveTask(S, u)
         /\ \A u \in Tasks : t # u /\ t \in S => t \in DeleteTask(S, TaskID[u])
<1>1. ASSUME NEW u \in Tasks, t \in S \/ t = u PROVE t \in SaveTask(S, u)
  BY <1>1 DEF SaveTask, UniqueKey
<1>2. ASSUME NEW u \in Tasks, t # u, t \in S PROVE t \in DeleteTask(S, TaskID[u])
  BY <1>2 DEF DeleteTask, FirstWithID, UniqueKey
<1> QED
  BY <1>1, <1>2

(* A queued task has its record, or Enqueue is about to write it, unless   *)
(* storage failed for it or the cloud reused its id or sequence number.    *)
THEOREM Stored == Spec => []QueuedIsStored
<1>1. Init => QueuedIsStored
  BY DEF Init, QueuedIsStored
<1>2. TypeOK /\ Once /\ QueuedIsStored /\ [Next]_vars => QueuedIsStored'
  <2> SUFFICES ASSUME DataTypes, Once, QueuedIsStored, [Next]_vars,
                      NEW c \in Devices, NEW j \in DOMAIN tasks'[c], NEW t, t = tasks'[c][j],
                      UniqueKey(t), t \notin SaveMayFail
               PROVE  t \in db'[c] \/ (dpc' = "save" /\ dtask' = t)
    BY DEF TypeOK, QueuedIsStored
  <2> DEFINE Goal == t \in db'[c] \/ (dpc' = "save" /\ dtask' = t)
  <2>1. \A i \in DOMAIN tasks[c] :
          tasks[c][i] = t => t \in Tasks /\ (t \in db[c] \/ (dpc = "save" /\ dtask = t))
    BY DEF QueuedIsStored, DataTypes
  <2>2. ASSUME UNCHANGED <<tasks, db>>, dpc # "save" PROVE Goal
    BY <2>1, <2>2
  <2>3. CASE EnqueueAppend
    <3>1. dpc = "append" /\ dtask \in Tasks /\ UNCHANGED db
      BY <2>3 DEF EnqueueAppend, DataTypes
    <3>2. CASE UNCHANGED tasks
      BY <2>2, <3>1, <3>2
    <3>3. CASE /\ tasks' = [tasks EXCEPT ![DeviceOf[dtask]] = Append(@, dtask)]
               /\ dpc' = "save" /\ UNCHANGED dtask
      <4>1. PICK d \in Devices : d = DeviceOf[dtask]
        BY <3>1, ConstantTypes
      <4> DEFINE s == tasks[d]
                 q == Append(s, dtask)
      <4>2. tasks'[d] = q /\ \A b \in Devices \ {d} : tasks'[b] = tasks[b]
        BY <3>3, <4>1, OtherDevices
      <4>3. /\ s \in Seq(Tasks) /\ q \in Seq(Tasks) /\ Len(q) = Len(s) + 1
            /\ q[Len(s) + 1] = dtask /\ \A i \in 1..Len(s) : q[i] = s[i]
        <5>1. s \in Seq(Tasks)
          BY DEF DataTypes
        <5> QED
          BY <3>1, <5>1, AppendElements
      <4>4. DOMAIN q = 1..Len(q) /\ DOMAIN s = 1..Len(s) /\ Len(s) \in Nat
        BY <4>3, LenProperties
      <4> HIDE DEF q, s, DataTypes
      <4>5. \A i \in DOMAIN q : q[i] = dtask \/ (i \in DOMAIN s /\ q[i] = s[i])
        BY <4>3, <4>4
      <4>6. t = dtask \/ \E i \in DOMAIN tasks[c] : tasks[c][i] = t
        BY <4>2, <4>5 DEF s
      <4> QED
        BY <2>1, <3>1, <3>3, <4>6
    <3> QED
      BY <2>3, <3>2, <3>3 DEF EnqueueAppend
  <2>4. CASE EnqueueSave
    <3>1. /\ dpc = "save" /\ dtask \in Tasks /\ UNCHANGED <<tasks, dtask>>
          /\ \/ db' = [db EXCEPT ![DeviceOf[dtask]] = SaveTask(@, dtask)]
             \/ dtask \in SaveMayFail /\ UNCHANGED db
      BY <2>4 DEF EnqueueSave, DataTypes
    <3>2. t \in Tasks /\ (t \in db[c] \/ t = dtask) /\ DeviceOf[t] = c
      BY <2>1, <3>1 DEF Once, OwnTasks
    <3>3. db \in [Devices -> SUBSET Tasks]
      BY DEF DataTypes
    <3>4. CASE UNCHANGED db /\ dtask \in SaveMayFail
      BY <3>2, <3>4
    <3>5. CASE db' = [db EXCEPT ![DeviceOf[dtask]] = SaveTask(@, dtask)]
      <4>1. CASE c = DeviceOf[dtask]
        <5>1. db'[c] = SaveTask(db[c], dtask) /\ db[c] \in SUBSET Tasks
          BY <3>3, <3>5, <4>1
        <5>2. t \in SaveTask(db[c], dtask)
          <6>1. dtask \in Tasks
            BY <3>1
          <6> QED
            BY <3>2, <5>1, <6>1, RecordsKept
        <5> QED
          BY <5>1, <5>2
      <4>2. CASE c # DeviceOf[dtask]
        BY <3>2, <3>3, <3>5, <4>2
      <4> QED
        BY <4>1, <4>2
    <3> QED
      BY <3>1, <3>4, <3>5
  <2>5. ASSUME NEW u \in Tasks, Cancel(DeviceOf[u], TaskID[u]) PROVE Goal
    <3>1. PICK d \in Devices : d = DeviceOf[u]
      BY ConstantTypes
    <3>2. PICK i \in DOMAIN tasks[d] :
            /\ TaskID[tasks[d][i]] = TaskID[u]
            /\ tasks' = [tasks EXCEPT ![d] = RemoveAt(tasks[d], i)]
            /\ db' = [db EXCEPT ![d] = DeleteTask(@, TaskID[u])] \/ UNCHANGED db
      BY <2>5, <3>1 DEF Cancel, FirstQueued
    <3>3. dpc = "idle" /\ tasks[d] \in Seq(Tasks) /\ tasks[d][i] \in Tasks
      BY <2>5, <3>2 DEF Cancel, DataTypes
    <3>4. /\ \E k \in DOMAIN tasks[c] : tasks[c][k] = t
          /\ c = d => t # tasks[d][i]
      <4> DEFINE q == RemoveAt(tasks[d], i)
      <4>1. /\ \A l \in DOMAIN q : /\ q[l] = tasks[d][Place(i, l)]
                                   /\ Place(i, l) \in DOMAIN tasks[d] /\ Place(i, l) # i
            /\ \A l, k \in DOMAIN q : Place(i, l) = Place(i, k) => l = k
        BY <3>3, Removal
      <4>2. tasks' = [tasks EXCEPT ![d] = q]
        BY <3>2
      <4> HIDE DEF q
      <4>3. /\ \A b \in Devices : \A l \in DOMAIN tasks'[b] :
                 /\ \E k \in DOMAIN tasks[b] : tasks[b][k] = tasks'[b][l]
                 /\ b = d => tasks'[b][l] # tasks[d][i]
            /\ \A b \in Devices : \A l, k \in DOMAIN tasks'[b] : tasks'[b][l] = tasks'[b][k] => l = k
        BY <4>1, <4>2, OneLess, ZenonT(60)
      <4> QED
        BY <4>3
    <3>5. t \in Tasks /\ t \in db[c]
      BY <2>1, <3>3, <3>4
    <3>6. db \in [Devices -> SUBSET Tasks]
      BY DEF DataTypes
    <3>7. CASE c = d /\ db' = [db EXCEPT ![d] = DeleteTask(@, TaskID[u])]
      <4>1. TaskID[u] = TaskID[tasks[d][i]] /\ t # tasks[d][i]
        BY <3>2, <3>4, <3>7
      <4>2. t \in DeleteTask(db[c], TaskID[tasks[d][i]])
        BY <3>3, <3>5, <3>6, <4>1, RecordsKept
      <4> QED
        BY <3>6, <3>7, <4>1, <4>2
    <3> QED
      BY <3>2, <3>5, <3>6, <3>7
  <2>6. ASSUME NEW d \in Devices, DequeueTurn(d) PROVE Goal
    <3>1. UNCHANGED <<db, dpc, dtask>>
      BY <2>6 DEF DequeueTurn, dispVars
    <3>2. CASE UNCHANGED tasks
      BY <2>1, <3>1, <3>2
    <3>3. CASE tasks[d] # <<>> /\ tasks' = [tasks EXCEPT ![d] = Tail(@)]
      <4>1. PICK i : i = 1
        OBVIOUS
      <4> DEFINE q == Tail(tasks[d])
      <4>2. tasks[d] \in Seq(Tasks)
        BY DEF DataTypes
      <4>3. /\ i \in DOMAIN tasks[d]
            /\ \A l \in DOMAIN q : /\ q[l] = tasks[d][Place(i, l)]
                                   /\ Place(i, l) \in DOMAIN tasks[d] /\ Place(i, l) # i
            /\ \A l, k \in DOMAIN q : Place(i, l) = Place(i, k) => l = k
        BY <3>3, <4>1, <4>2, Pop
      <4>4. tasks' = [tasks EXCEPT ![d] = q]
        BY <3>3
      <4> HIDE DEF q
      <4>5. \E k \in DOMAIN tasks[c] : tasks[c][k] = t
        BY <4>3, <4>4, OneLess
      <4> QED
        BY <2>1, <3>1, <4>5
    <3> QED
      BY <2>6, <3>2, <3>3 DEF DequeueTurn
  <2>7. ASSUME NEW u \in Tasks, EnqueueBegin(u) PROVE Goal
    BY <2>2, <2>7 DEF EnqueueBegin, queueVars
  <2>8. CASE EnqueueGetOrCreate \/ EnqueueSignal
    BY <2>2, <2>8 DEF EnqueueGetOrCreate, EnqueueSignal, queueVars
  <2>9. CASE UNCHANGED <<tasks, db, dpc, dtask>>
    BY <2>1, <2>9
  <2> QED
    BY <2>3, <2>4, <2>5, <2>6, <2>7, <2>8, <2>9
       DEF Next, DispatcherStep, EnqueueStep, ConsumerStep, DequeueStep, ConsumerLoop,
           DequeueGetOrCreate, ConsumerSend, ConsumerDrop, StopCancel, CloseStep, CloseFlag,
           CloseSnapshot, CloseReturn, StopReturn, CloseDevice, CloseBroadcast, vars, queueVars,
           dispVars
<1> QED
  BY <1>1, <1>2, OnceInvariant, TypeCorrect, PTL DEF Spec
=============================================================================
