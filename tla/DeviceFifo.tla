------------------------------ MODULE DeviceFifo ------------------------------
(***************************************************************************)
(* What the task queue promises, without threads, locks or storage: one    *)
(* bounded FIFO per device.  Tasks enter at the tail, leave at the head    *)
(* or are withdrawn from any position; a shut queue takes and gives        *)
(* nothing.  TaskQueue implements this specification.                      *)
(***************************************************************************)
EXTENDS Naturals, Sequences, SequencesExt

CONSTANTS Devices, Tasks, Capacity

VARIABLES
  fifo,    \* fifo[d]: the tasks waiting for device d, oldest first
  given,   \* given[d]: the tasks handed out for device d, in that order
  shut     \* the devices whose queue is shut

vars == <<fifo, given, shut>>

Init ==
  /\ fifo = [d \in Devices |-> <<>>]
  /\ given = [d \in Devices |-> <<>>]
  /\ shut = {}

(* A task joins the tail of an open queue that has room.                   *)
Put(d, t) ==
  /\ d \notin shut
  /\ Len(fifo[d]) < Capacity
  /\ fifo' = [fifo EXCEPT ![d] = Append(@, t)]
  /\ UNCHANGED <<given, shut>>

(* The oldest task of an open queue is handed out.                         *)
Take(d) ==
  /\ d \notin shut
  /\ fifo[d] # <<>>
  /\ given' = [given EXCEPT ![d] = Append(@, Head(fifo[d]))]
  /\ fifo' = [fifo EXCEPT ![d] = Tail(@)]
  /\ UNCHANGED shut

(* A waiting task is withdrawn; the others keep their order.               *)
Withdraw(d, i) ==
  /\ fifo' = [fifo EXCEPT ![d] = RemoveAt(@, i)]
  /\ UNCHANGED <<given, shut>>

(* A queue is shut, for good.                                              *)
Shut(d) ==
  /\ shut' = shut \cup {d}
  /\ UNCHANGED <<fifo, given>>

Next ==
  \E d \in Devices :
    \/ \E t \in Tasks : Put(d, t)
    \/ Take(d)
    \/ \E i \in DOMAIN fifo[d] : Withdraw(d, i)
    \/ Shut(d)

Spec == Init /\ [][Next]_vars
=============================================================================
