----------------------------- MODULE MCLifecycle -----------------------------
(* One worker and the consumer of one device; one task, which an earlier   *)
(* run left behind or the cloud sends, with one retry and so up to three   *)
(* results; one device status and a buffer of one message, so that it      *)
(* overflows; three connections handed to the reporter, so that two        *)
(* flushes overlap.                                                        *)
EXTENDS Lifecycle

CONSTANTS w1, d1, t1, b1

MCDeviceOf == [t \in Tasks |-> d1]
=============================================================================
