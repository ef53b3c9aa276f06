----------------------------- MODULE MCTaskQueue -----------------------------
(* Four deliveries for device d1, while d2 has a consumer and no task.     *)
(* a3 repeats a1 under the same id and sequence number; a2 has the lower   *)
(* number and arrives with an empty status, a1 with PENDING and a3 with a  *)
(* status of its own, which makes it impossible to cancel; bad is          *)
(* malformed.                                                              *)
EXTENDS TaskQueue

CONSTANTS d1, d2, a1, a2, a3, bad

MCDeviceOf == [t \in Tasks |-> d1]
MCTaskID == [t \in Tasks |-> IF t = a3 THEN a1 ELSE t]
MCSeqNo == [t \in Tasks |-> IF t = a2 THEN 1 ELSE IF t = bad THEN 3 ELSE 2]
MCSentStatus ==
  [t \in Tasks |-> IF t = a2 THEN "" ELSE IF t = a1 THEN "PENDING" ELSE "RUNNING"]
=============================================================================
