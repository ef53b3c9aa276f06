----------------------------- MODULE MCExecutor -----------------------------
(* Deliveries a1 and a2 for device d1, sent as PENDING; workers w1 and w2  *)
(* are interchangeable.                                                    *)
EXTENDS Executor, TLC

CONSTANTS d1, a1, a2, w1, w2

MCDeviceOf == [t \in Tasks |-> d1]
MCSentStatus == [t \in Tasks |-> "PENDING"]
Symmetry == Permutations(Workers)
=============================================================================
