--------------------------- MODULE Durability_proof ---------------------------
(***************************************************************************)
(* Proofs about Durability for any deliveries, task ids, sequence numbers, *)
(* first statuses, capacity and number of restarts, with and without       *)
(* failing storage.                                                        *)
(***************************************************************************)
EXTENDS Durability, SequenceLemmas, FiniteSetTheorems

-----------------------------------------------------------------------------
(* The inductive invariant *)

(* Memory belongs to a running agent, the recovery's list to a recovery.   *)
Phases ==
  /\ phase # "up" => queue = <<>> /\ working = {} /\ saving = {}
  /\ phase # "recover" => todo = <<>> /\ found = {}

(* One Enqueue at a time, and what is anywhere has been delivered.         *)
Delivered ==
  /\ \A t, u \in saving : t = u
  /\ saving \cap ack = {}
  /\ working \subseteq ack \cup saving
  /\ \A i \in DOMAIN queue : queue[i] \in ack \cup saving
  /\ cancelled \subseteq ack /\ bucket \subseteq ack /\ found \subseteq ack
  /\ \A i \in DOMAIN todo : todo[i] \in bucket

(* The cloud sends its tasks in their order.                               *)
SentInOrder == \A t \in Arrived, u \in Tasks \ Arrived : SeqNo[t] <= SeqNo[u]

(* A task that no consumer has taken yet has the status of its record, or  *)
(* the one its record will get.                                            *)
Untouched ==
  /\ \A t \in Tasks \ Arrived : status[t] = stored[t]
  /\ \A i \in DOMAIN queue : /\ status[queue[i]] = stored[queue[i]]
                             /\ queue[i] \in saving => had = {status[queue[i]]}

(* A record is PENDING for ever once its task was cancelled or recovered.  *)
SettledPending ==
  /\ \A t \in cancelled \cup found : stored[t] = "PENDING"
  /\ \A t \in Tasks : recovered[t] # 0 => recovered[t] = 1 /\ t \in ack /\ stored[t] = "PENDING"

IInv ==
  /\ Phases /\ Delivered /\ SentInOrder /\ Untouched /\ SettledPending
  /\ CancelledStaysCancelled /\ QueueInOrder

-----------------------------------------------------------------------------
(* Types *)

(* What the steps need of the constants.                                   *)
LEMMA ConstantTypes ==
  /\ SeqNo \in [Tasks -> Nat] /\ SentStatus \in [Tasks -> Statuses]
  /\ Capacity \in Nat /\ Capacity # 0 /\ MaxCrashes \in Nat
BY StoreAssumption, DurabilityAssumption

(* The records of a bucket in key order are a sequence of its elements.    *)
LEMMA KeyOrder ==
  ASSUME NEW S \in SUBSET Tasks, NEW s \in InKeyOrder(S)
  PROVE  /\ s \in Seq(S) /\ s \in Seq(Tasks) /\ Len(s) \in Nat /\ DOMAIN s = 1..Len(s)
         /\ \A i \in 1..Len(s) : s[i] \in S
         /\ \A i, j \in 1..Len(s) : i < j => SeqNo[s[i]] < SeqNo[s[j]]
<1>1. Cardinality(S) \in Nat
  BY DurabilityAssumption, FS_Subset, FS_CardinalityType
<1>2. s \in [1..Cardinality(S) -> S] /\ DOMAIN s = 1..Cardinality(S)
  BY DEF InKeyOrder
<1>3. s \in Seq(S) /\ Len(s) = Cardinality(S)
  BY <1>1, <1>2
<1>4. s \in Seq(Tasks)
  BY <1>3
<1> QED
  BY <1>1, <1>2, <1>3, <1>4 DEF InKeyOrder

(* The statuses a worker moves a task to.                                  *)
LEMMA NextStatusTypes == \A s \in Statuses : NextStatus(s) \subseteq Statuses
BY DEF NextStatus, Statuses

(* Every reachable state of memory, disk and recovery is well typed.       *)
THEOREM TypeCorrect == Spec => []TypeOK
<1>1. Init => TypeOK
  BY ConstantTypes DEF Init, TypeOK
<1>2. TypeOK /\ [Next]_vars => TypeOK'
  <2> SUFFICES ASSUME TypeOK, [Next]_vars PROVE TypeOK'
    OBVIOUS
  <2> USE DEF TypeOK, memVars, diskVars, histVars, recVars
  <2>1. ASSUME NEW t \in Tasks, EnqueueAppend(t) PROVE TypeOK'
    <3>1. Append(queue, t) \in Seq(Tasks)
      BY AppendElements
    <3>2. queue' = queue \/ queue' = Append(queue, t)
      BY <2>1 DEF EnqueueAppend
    <3> QED
      BY <2>1, <3>1, <3>2 DEF EnqueueAppend
  <2>2. ASSUME NEW t \in Tasks, EnqueueSave(t) PROVE TypeOK'
    BY <2>2 DEF EnqueueSave, SaveTask
  <2>3. ASSUME NEW t \in Tasks, Progress(t) PROVE TypeOK'
    BY <2>3, NextStatusTypes DEF Progress
  <2>4. ASSUME NEW t \in Tasks, Finish(t) PROVE TypeOK'
    BY <2>4 DEF Finish
  <2>5. ASSUME NEW i \in DOMAIN queue, Cancel(i) PROVE TypeOK'
    <3>1. i \in 1..Len(queue) /\ queue[i] \in Tasks
      OBVIOUS
    <3>2. queue' \in Seq(Tasks)
      BY <2>5, <3>1, RemoveAtElements DEF Cancel
    <3> QED
      BY <2>5, <3>1, <3>2 DEF Cancel, DeleteTask
  <2>6. CASE Dequeue
    BY <2>6, TailElements DEF Dequeue
  <2>7. CASE Crash
    BY <2>7, ConstantTypes DEF Crash
  <2>8. CASE LoadTasks
    BY <2>8, KeyOrder DEF LoadTasks
  <2>9. CASE RecoverOne
    <3>1. Head(todo) \in Tasks /\ todo' \in Seq(Tasks)
      BY <2>9, TailElements DEF RecoverOne
    <3> DEFINE n == recovered[Head(todo)] + 1
    <3>2. /\ n \in Nat
          /\ UNCHANGED recovered \/ recovered' = [recovered EXCEPT ![Head(todo)] = n]
      BY <2>9, <3>1 DEF RecoverOne
    <3> HIDE DEF n
    <3>3. recovered' \in [Tasks -> Nat]
      BY <3>1, <3>2
    <3>4. stored' \in [Tasks -> Statuses] /\ found' \subseteq Tasks
      BY <2>9, <3>1 DEF RecoverOne, Statuses
    <3> QED
      BY <2>9, <3>1, <3>3, <3>4 DEF RecoverOne
  <2>10. CASE RecoverEnqueue
    <3>1. PICK sorted \in InKeyOrder(found) :
            queue' = SubSeq(sorted, 1, IF Len(sorted) <= Capacity THEN Len(sorted) ELSE Capacity)
      BY <2>10 DEF RecoverEnqueue
    <3>2. queue' \in Seq(Tasks)
      <4> HIDE DEF TypeOK
      <4>1. sorted \in Seq(Tasks) /\ Len(sorted) \in Nat
        BY <3>1, KeyOrder DEF TypeOK
      <4> QED
        BY <3>1, <4>1, PrefixElements, ConstantTypes
    <3> QED
      BY <2>10, <3>2 DEF RecoverEnqueue, Statuses
  <2>11. CASE RecoverFails
    BY <2>11 DEF RecoverFails
  <2>12. CASE UNCHANGED vars
    BY <2>12 DEF vars
  <2> QED
    BY <2>1, <2>2, <2>3, <2>4, <2>5, <2>6, <2>7, <2>8, <2>9, <2>10, <2>11, <2>12 DEF Next
<1> QED
  BY <1>1, <1>2, PTL DEF Spec

-----------------------------------------------------------------------------
(* Safety *)

(* The invariant is inductive.                                             *)
LEMMA Inductive == Spec => []IInv
<1>1. Init => IInv
  BY ConstantTypes DEF Init, IInv, Phases, Delivered, SentInOrder, Untouched, SettledPending,
     CancelledStaysCancelled, QueueInOrder, InMemory, Arrived
<1>2. TypeOK /\ IInv /\ [Next]_vars => IInv'
  <2> SUFFICES ASSUME TypeOK, IInv, [Next]_vars PROVE IInv'
    OBVIOUS
  <2> USE ConstantTypes DEF TypeOK, IInv, Phases, Delivered, memVars, diskVars, histVars, recVars
  <2>1. ASSUME NEW t \in Tasks, EnqueueAppend(t) PROVE IInv'
    <3>1. /\ phase = "up" /\ saving = {} /\ t \notin Arrived
          /\ \A u \in Tasks \ Arrived : SeqNo[t] <= SeqNo[u]
          /\ UNCHANGED <<phase, working, status, diskVars, ack, cancelled, recVars, crashes>>
      BY <2>1 DEF EnqueueAppend, InTurn
    <3>2. CASE refused' = refused \cup {t} /\ UNCHANGED <<queue, saving, had>>
      BY <3>1, <3>2 DEF Untouched, SettledPending, SentInOrder, Arrived, CancelledStaysCancelled,
                        InMemory, QueueInOrder
    <3>3. CASE /\ Len(queue) < Capacity /\ queue' = Append(queue, t) /\ saving' = {t}
               /\ had' = {status[t]} /\ UNCHANGED refused
      <4>1. /\ Len(queue) \in Nat /\ DOMAIN queue = 1..Len(queue)
            /\ Len(queue') = Len(queue) + 1 /\ DOMAIN queue' = 1..(Len(queue) + 1)
            /\ queue'[Len(queue) + 1] = t
            /\ \A k \in 1..Len(queue) : queue'[k] = queue[k]
        BY <3>3, AppendElements, LenProperties
      <4>2. \A k \in DOMAIN queue' : \/ k \in DOMAIN queue /\ queue'[k] = queue[k]
                                     \/ k = Len(queue) + 1 /\ queue'[k] = t
        <5> HIDE DEF TypeOK, IInv
        <5> QED
          BY <4>1
      <4>3. t \notin working /\ t \notin cancelled /\ \A k \in DOMAIN queue : queue[k] # t
        BY <3>1 DEF Arrived
      <4>4. Phases' /\ Delivered'
        BY <3>1, <3>3, <4>2 DEF Arrived
      <4>5. SentInOrder'
        BY <3>1, <3>3 DEF SentInOrder, Arrived
      <4>6. Untouched' /\ SettledPending'
        BY <3>1, <3>3, <4>2 DEF Untouched, SettledPending, Arrived
      <4>7. CancelledStaysCancelled'
        BY <3>1, <4>2, <4>3 DEF CancelledStaysCancelled, InMemory
      <4>8. QueueInOrder'
        <5>1. Len(queue') <= Capacity
          BY <3>3, <4>1
        <5>2. \A k \in DOMAIN queue : SeqNo[queue[k]] <= SeqNo[t]
          BY <3>1 DEF SentInOrder, Arrived
        <5>3. ASSUME NEW k \in DOMAIN queue', NEW l \in DOMAIN queue', k < l
              PROVE  SeqNo[queue'[k]] <= SeqNo[queue'[l]] /\ queue'[k] # queue'[l]
          <6>1. k \in DOMAIN queue /\ queue'[k] = queue[k]
            BY <4>1, <5>3, SMTT(30)
          <6> QED
            BY <4>2, <4>3, <5>2, <5>3, <6>1 DEF QueueInOrder
        <5>4. \A k \in DOMAIN queue' : queue'[k] \notin working'
          BY <3>1, <4>2, <4>3 DEF QueueInOrder
        <5> QED
          BY <5>1, <5>3, <5>4 DEF QueueInOrder
      <4> QED
        BY <4>4, <4>5, <4>6, <4>7, <4>8
    <3> QED
      BY <2>1, <3>2, <3>3 DEF EnqueueAppend
  <2>2. ASSUME NEW t \in Tasks, EnqueueSave(t) PROVE IInv'
    <3>1. Phases'
      BY <2>2 DEF EnqueueSave, SaveTask, Phases
    <3>2. Delivered'
      BY <2>2 DEF EnqueueSave, SaveTask, Delivered, Arrived
    <3>3. SentInOrder'
      BY <2>2 DEF EnqueueSave, SaveTask, SentInOrder, Arrived
    <3>4. Untouched'
      BY <2>2 DEF EnqueueSave, SaveTask, Untouched, Arrived
    <3>5. SettledPending'
      BY <2>2 DEF EnqueueSave, SaveTask, SettledPending
    <3>6. CancelledStaysCancelled'
      BY <2>2 DEF EnqueueSave, SaveTask, CancelledStaysCancelled, InMemory
    <3>7. QueueInOrder'
      BY <2>2 DEF EnqueueSave, SaveTask, QueueInOrder
    <3> QED
      BY <3>1, <3>2, <3>3, <3>4, <3>5, <3>6, <3>7 DEF IInv
  <2>3. ASSUME NEW t \in Tasks, Progress(t) PROVE IInv'
    <3>1. Phases'
      BY <2>3 DEF Progress, Phases
    <3>2. Delivered'
      BY <2>3 DEF Progress, Delivered, Arrived
    <3>3. SentInOrder'
      BY <2>3 DEF Progress, SentInOrder, Arrived
    <3>4. Untouched'
      <4>1. PICK v \in NextStatus(status[t]) :
              /\ status' = [status EXCEPT ![t] = v]
              /\ had' = IF t \in saving THEN had \cup {v} ELSE had
        BY <2>3 DEF Progress
      <4>2. t \in working /\ UNCHANGED <<memVars, stored, ack, refused>>
        BY <2>3 DEF Progress
      <4>3. \A u \in Tasks : u # t => status'[u] = status[u]
        BY <4>1
      <4>4. \A k \in DOMAIN queue : queue[k] \in Tasks /\ queue[k] # t
        BY <4>2 DEF QueueInOrder
      <4>5. \A k \in DOMAIN queue : queue[k] \in saving => had' = had
        BY <4>1, <4>2, <4>4
      <4> QED
        BY <4>2, <4>3, <4>4, <4>5, SMTT(30) DEF Untouched, Arrived
    <3>5. SettledPending'
      BY <2>3 DEF Progress, SettledPending
    <3>6. CancelledStaysCancelled'
      BY <2>3 DEF Progress, CancelledStaysCancelled, InMemory
    <3>7. QueueInOrder'
      BY <2>3 DEF Progress, QueueInOrder
    <3> QED
      BY <3>1, <3>2, <3>3, <3>4, <3>5, <3>6, <3>7 DEF IInv
  <2>4. ASSUME NEW t \in Tasks, Finish(t) PROVE IInv'
    BY <2>4 DEF Finish, SentInOrder, Arrived, Untouched, SettledPending, CancelledStaysCancelled,
       InMemory, QueueInOrder
  <2>5. ASSUME NEW i \in DOMAIN queue, Cancel(i) PROVE IInv'
    <3>1. /\ phase = "up" /\ saving = {} /\ status[queue[i]] = "PENDING"
          /\ queue' = RemoveAt(queue, i) /\ cancelled' = cancelled \cup {queue[i]}
          /\ bucket' \subseteq bucket
          /\ UNCHANGED <<phase, working, status, had, saving, stored, ack, refused, recVars, crashes>>
      BY <2>5 DEF Cancel, DeleteTask
    <3>2. /\ Len(queue) \in Nat /\ Len(queue') = Len(queue) - 1 /\ Len(queue') \in Nat
          /\ \A k \in DOMAIN queue' : /\ queue'[k] = queue[Place(i, k)]
                                    /\ Place(i, k) \in DOMAIN queue /\ Place(i, k) # i
          /\ \A k, l \in DOMAIN queue' : k < l => Place(i, k) < Place(i, l)
      <4>1. queue \in Seq(Tasks) /\ i \in 1..Len(queue)
        OBVIOUS
      <4> HIDE DEF TypeOK, IInv
      <4> QED
        BY <3>1, <4>1, RemoveAtPlaces
    <3>3. \A k \in DOMAIN queue : k # i => queue[k] # queue[i]
      BY DEF QueueInOrder
    <3>4. Phases' /\ Delivered' /\ SentInOrder'
      BY <3>1, <3>2 DEF SentInOrder, Arrived
    <3>5. Untouched' /\ SettledPending'
      BY <3>1, <3>2 DEF Untouched, SettledPending, Arrived
    <3>6. CancelledStaysCancelled'
      BY <3>1, <3>2, <3>3 DEF CancelledStaysCancelled, InMemory, QueueInOrder
    <3>7. QueueInOrder'
      <4>1. ASSUME NEW k \in DOMAIN queue', NEW l \in DOMAIN queue', k < l
            PROVE  SeqNo[queue'[k]] <= SeqNo[queue'[l]] /\ queue'[k] # queue'[l]
        <5>1. Place(i, k) \in DOMAIN queue /\ Place(i, l) \in DOMAIN queue /\ Place(i, k) < Place(i, l)
          BY <3>2, <4>1
        <5> QED
          BY <3>2, <5>1 DEF QueueInOrder
      <4>2. Len(queue') <= Capacity
        BY <3>2 DEF QueueInOrder
      <4> QED
        BY <3>2, <3>1, <4>1, <4>2, SMTT(30) DEF QueueInOrder
    <3> QED
      BY <3>4, <3>5, <3>6, <3>7
  <2>6. CASE Dequeue
    <3>1. /\ phase = "up"
          /\ UNCHANGED <<phase, saving, status, had, diskVars, histVars, recVars, crashes>>
      BY <2>6 DEF Dequeue
    <3>2. PICK h \in Tasks :
            /\ working' = working \cup {h} /\ h = queue[1] /\ 1 \in DOMAIN queue
            /\ Len(queue) \in Nat /\ Len(queue') = Len(queue) - 1 /\ Len(queue') \in Nat
            /\ \A k \in DOMAIN queue' : /\ queue'[k] = queue[Place(1, k)]
                                      /\ Place(1, k) \in DOMAIN queue /\ Place(1, k) # 1
            /\ \A k, l \in DOMAIN queue' : k < l => Place(1, k) < Place(1, l)
      <4>1. /\ queue \in Seq(Tasks) /\ queue # <<>>
            /\ working' = working \cup {Head(queue)} /\ queue' = Tail(queue)
        BY <2>6 DEF Dequeue
      <4> HIDE DEF TypeOK, IInv
      <4> QED
        BY <4>1, TailPlaces
    <3>3. \A k \in DOMAIN queue : k # 1 => queue[k] # h
      <4>1. \A k \in DOMAIN queue : k # 1 => 1 < k
        BY <3>2
      <4> QED
        BY <3>2, <4>1 DEF QueueInOrder
    <3>4. Phases' /\ Delivered' /\ SentInOrder'
      BY <3>1, <3>2 DEF SentInOrder, Arrived
    <3>5. Untouched' /\ SettledPending'
      BY <3>1, <3>2 DEF Untouched, SettledPending, Arrived
    <3>6. CancelledStaysCancelled'
      BY <3>1, <3>2, ZenonT(60) DEF CancelledStaysCancelled, InMemory
    <3>7. QueueInOrder'
      <4>1. ASSUME NEW k \in DOMAIN queue', NEW l \in DOMAIN queue', k < l
            PROVE  SeqNo[queue'[k]] <= SeqNo[queue'[l]] /\ queue'[k] # queue'[l]
        <5>1. Place(1, k) \in DOMAIN queue /\ Place(1, l) \in DOMAIN queue /\ Place(1, k) < Place(1, l)
          BY <3>2, <4>1
        <5> QED
          BY <3>2, <5>1 DEF QueueInOrder
      <4>2. Len(queue') <= Capacity
        BY <3>2 DEF QueueInOrder
      <4> QED
        BY <3>2, <3>1, <3>3, <4>1, <4>2 DEF QueueInOrder
    <3> QED
      BY <3>4, <3>5, <3>6, <3>7
  <2>7. CASE Crash
    BY <2>7 DEF Crash, SentInOrder, Arrived, Untouched, SettledPending, CancelledStaysCancelled,
       InMemory, QueueInOrder
  <2>8. CASE LoadTasks
    <3>1. phase' = "recover" /\ \A k \in DOMAIN todo' : todo'[k] \in bucket
      BY <2>8, KeyOrder DEF LoadTasks
    <3>2. /\ phase = "down"
          /\ UNCHANGED <<memVars, status, had, diskVars, histVars, found, recovered, crashes>>
      BY <2>8 DEF LoadTasks
    <3> QED
      BY <3>1, <3>2 DEF SentInOrder, Arrived, Untouched, SettledPending, CancelledStaysCancelled,
         InMemory, QueueInOrder
  <2>9. CASE RecoverOne
    <3> DEFINE t == Head(todo)
    <3>1. /\ phase = "recover" /\ todo # <<>> /\ todo' = Tail(todo)
          /\ UNCHANGED <<phase, memVars, status, had, bucket, histVars, crashes>>
      BY <2>9 DEF RecoverOne
    <3>2. t \in bucket /\ t \in Tasks /\ \A k \in DOMAIN todo' : todo'[k] \in bucket
      <4>1. todo \in Seq(Tasks) /\ \A k \in DOMAIN todo : todo[k] \in bucket
        OBVIOUS
      <4> HIDE DEF TypeOK, IInv
      <4>2. /\ t \in Tasks /\ t = todo[1] /\ 1 \in DOMAIN todo
            /\ \A k \in DOMAIN todo' : todo'[k] = todo[Place(1, k)] /\ Place(1, k) \in DOMAIN todo
        BY <3>1, <4>1, TailPlaces
      <4> QED
        BY <4>1, <4>2
    <3>3. CASE UNCHANGED <<stored, found, recovered>>
      BY <3>1, <3>2, <3>3 DEF SentInOrder, Arrived, Untouched, SettledPending,
         CancelledStaysCancelled, InMemory, QueueInOrder
    <3>4. CASE /\ NeedsRecover(stored[t])
               /\ stored' = [stored EXCEPT ![t] = "PENDING"] /\ found' = found \cup {t}
               /\ recovered' = [recovered EXCEPT ![t] = @ + 1]
      <4>1. stored[t] # "PENDING" /\ recovered[t] = 0 /\ t \notin cancelled
        BY <3>2, <3>4 DEF SettledPending, NeedsRecover
      <4>2. recovered' = [recovered EXCEPT ![t] = 1]
        BY <3>4, <4>1
      <4> HIDE DEF t
      <4>3. Phases' /\ Delivered' /\ SentInOrder'
        BY <3>1, <3>2, <3>4 DEF SentInOrder, Arrived
      <4>4. Untouched'
        BY <3>1, <3>2, <3>4 DEF Untouched, Arrived
      <4>5. SettledPending'
        BY <3>1, <3>2, <3>4, <4>1, <4>2 DEF SettledPending
      <4>6. CancelledStaysCancelled' /\ QueueInOrder'
        BY <3>1, <3>4, <4>1 DEF CancelledStaysCancelled, InMemory, QueueInOrder
      <4> QED
        BY <4>3, <4>4, <4>5, <4>6
    <3> QED
      BY <2>9, <3>3, <3>4 DEF RecoverOne
  <2>10. CASE RecoverEnqueue
    <3>1. /\ phase = "recover" /\ phase' = "up" /\ todo = <<>> /\ found' = {}
          /\ status' = [t \in Tasks |-> IF t \in found THEN "PENDING" ELSE status[t]]
          /\ UNCHANGED <<working, saving, had, diskVars, histVars, todo, recovered, crashes>>
      BY <2>10 DEF RecoverEnqueue
    <3>2. PICK n \in Nat :
            /\ n <= Capacity /\ Len(queue') = n /\ DOMAIN queue' = 1..n
            /\ \A k \in 1..n : queue'[k] \in found
            /\ \A k, l \in 1..n : k < l => SeqNo[queue'[k]] < SeqNo[queue'[l]]
      <4>1. PICK sorted \in InKeyOrder(found) :
              queue' = SubSeq(sorted, 1, IF Len(sorted) <= Capacity THEN Len(sorted) ELSE Capacity)
        BY <2>10 DEF RecoverEnqueue
      <4> DEFINE n == IF Len(sorted) <= Capacity THEN Len(sorted) ELSE Capacity
      <4>2. /\ sorted \in Seq(found) /\ Len(sorted) \in Nat
            /\ \A k \in 1..Len(sorted) : sorted[k] \in found
            /\ \A k, l \in 1..Len(sorted) : k < l => SeqNo[sorted[k]] < SeqNo[sorted[l]]
        BY <4>1, KeyOrder
      <4> HIDE DEF TypeOK, IInv
      <4>3. n \in Nat /\ n <= Len(sorted) /\ n <= Capacity
        BY <4>2
      <4>4. queue' = SubSeq(sorted, 1, n)
        BY <4>1
      <4> HIDE DEF n
      <4>5. queue' \in Seq(found) /\ Len(queue') = n /\ \A k \in 1..n : queue'[k] = sorted[k]
        BY <4>2, <4>3, <4>4, PrefixElements
      <4>6. DOMAIN queue' = 1..n
        BY <4>5, LenProperties
      <4>7. \A k \in 1..n : k \in 1..Len(sorted)
        BY <4>2, <4>3
      <4> QED
        BY <4>2, <4>3, <4>5, <4>6, <4>7
    <3>3. Phases' /\ Delivered' /\ SentInOrder'
      BY <3>1, <3>2 DEF SentInOrder, Arrived
    <3>4. Untouched'
      BY <3>1, <3>2 DEF Untouched, SettledPending, Arrived
    <3>5. SettledPending'
      BY <3>1 DEF SettledPending
    <3>6. CancelledStaysCancelled'
      BY <3>1, <3>2 DEF CancelledStaysCancelled, InMemory
    <3>7. QueueInOrder'
      <4>1. \A k \in DOMAIN queue' : queue'[k] \in Tasks /\ SeqNo[queue'[k]] \in Nat
        BY <3>2
      <4> HIDE DEF TypeOK, IInv
      <4>2. \A k, l \in DOMAIN queue' :
              k < l => SeqNo[queue'[k]] <= SeqNo[queue'[l]] /\ queue'[k] # queue'[l]
        BY <3>2, <4>1
      <4> QED
        BY <3>1, <3>2, <4>2 DEF QueueInOrder, IInv, Phases
    <3> QED
      BY <3>3, <3>4, <3>5, <3>6, <3>7
  <2>11. CASE RecoverFails
    BY <2>11 DEF RecoverFails, SentInOrder, Arrived, Untouched, SettledPending, CancelledStaysCancelled,
       InMemory, QueueInOrder
  <2>12. CASE UNCHANGED vars
    BY <2>12 DEF vars, SentInOrder, Arrived, Untouched, SettledPending, CancelledStaysCancelled,
       InMemory, QueueInOrder
  <2> QED
    BY <2>1, <2>2, <2>3, <2>4, <2>5, <2>6, <2>7, <2>8, <2>9, <2>10, <2>11, <2>12 DEF Next
<1> QED
  BY <1>1, <1>2, TypeCorrect, PTL DEF Spec

(* A delivery comes back from disk at most once, whatever crashes when:    *)
(* RecoverAll saves the record as PENDING before the task is queued again, *)
(* and nothing else writes the record of a task that was acknowledged.     *)
THEOREM RecoveredAtMostOnce == Spec => []RecoveredOnce
<1>1. TypeOK /\ IInv => RecoveredOnce
  <2> SUFFICES ASSUME TypeOK, IInv, NEW t \in Tasks PROVE recovered[t] <= 1
    BY DEF RecoveredOnce
  <2>1. recovered[t] \in Nat
    BY DEF TypeOK
  <2>2. recovered[t] # 0 => recovered[t] = 1
    BY DEF IInv, SettledPending
  <2> QED
    BY <2>1, <2>2
<1> QED
  BY <1>1, TypeCorrect, Inductive, PTL

(* A cancelled task never waits or runs again, across any restarts, even   *)
(* when its record could not be deleted: the record says PENDING, and      *)
(* RecoverAll takes only what was running.                                 *)
THEOREM CancelledForGood == Spec => []CancelledStaysCancelled
<1>1. IInv => CancelledStaysCancelled
  BY DEF IInv
<1> QED
  BY <1>1, Inductive, PTL

(* The queue stays in the cloud's order and within capacity when recovered *)
(* and new tasks meet in it, and no delivery is in memory twice.           *)
THEOREM QueueOrdered == Spec => []QueueInOrder
<1>1. IInv => QueueInOrder
  BY DEF IInv
<1> QED
  BY <1>1, Inductive, PTL

(* No two records of the bucket have one key.                              *)
KeysDistinct == \A t, u \in bucket : SeqNo[t] = SeqNo[u] => t = u

(* The keys of a bucket are distinct: SaveTask replaces the record that    *)
(* has the sequence number, so the key order LoadTasks returns is total.   *)
THEOREM BucketKeys == Spec => []KeysDistinct
<1>1. Init => KeysDistinct
  BY DEF Init, KeysDistinct
<1>2. KeysDistinct /\ [Next]_vars => KeysDistinct'
  <2> SUFFICES ASSUME KeysDistinct, [Next]_vars PROVE KeysDistinct'
    OBVIOUS
  <2>1. CASE bucket' \subseteq bucket
    BY <2>1 DEF KeysDistinct
  <2>2. ASSUME NEW t \in Tasks, bucket' = SaveTask(bucket, t) PROVE KeysDistinct'
    BY <2>2 DEF SaveTask, KeysDistinct
  <2> QED
    BY <2>1, <2>2 DEF Next, EnqueueAppend, EnqueueSave, Progress, Finish, Cancel, DeleteTask,
       Dequeue, Crash, LoadTasks, RecoverOne, RecoverEnqueue, RecoverFails, vars, diskVars
<1> QED
  BY <1>1, <1>2, PTL DEF Spec
===============================================================================
