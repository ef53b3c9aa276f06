---------------------------- MODULE MCDurability ----------------------------
(* Three deliveries for one device, numbered in the order they are sent.   *)
EXTENDS Durability

CONSTANTS t1, t2, t3

MCTaskID == [t \in Tasks |-> t]
MCSeqNo == [t \in Tasks |-> IF t = t1 THEN 1 ELSE IF t = t2 THEN 2 ELSE 3]
MCSentStatus == [t \in Tasks |-> "PENDING"]
=============================================================================
