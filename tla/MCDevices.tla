------------------------------ MODULE MCDevices ------------------------------
(* One printer that can be moved between an address where RAW's port is    *)
(* served and one where LPR's is.                                          *)
EXTENDS Devices

CONSTANTS d1, a1, a2, g1, g2
MCPort == [a \in Addrs |-> IF a = a1 THEN 9100 ELSE 515]
=============================================================================
