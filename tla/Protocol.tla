------------------------------ MODULE Protocol ------------------------------
(***************************************************************************)
(* internal/protocol: Send of the four print adapters, called by worker    *)
(* goroutines with a context that ends after sixty seconds or with         *)
(* Executor.Stop.  Of a printer's answers only what Send looks at is kept; *)
(* neither the bytes of a document nor how many of them the printer has:   *)
(* a copy that ended may be in the socket's buffer, a job that lp accepted *)
(* in the spooler's queue.                                                 *)
(***************************************************************************)
EXTENDS Naturals

CONSTANTS
  Callers,       \* goroutines that call Send
  Protocols      \* protocols of their devices

Adapters == {"RAW", "LPR", "IPP", "CUPS"}
LprAcks == 4     \* data command, data file, control command, control file

VARIABLES
  at,            \* where each call is; "off" outside, "back" when it returned
  proto,         \* its adapter
  acks,          \* acknowledgements an LPR printer has given
  copied,        \* what RAW's copying goroutine has put into its channel
  expired,       \* calls whose context is done
  outcome        \* of the last call: "none", "ok" or "error"

vars == <<at, proto, acks, copied, expired, outcome>>

Init ==
  /\ at = [c \in Callers |-> "off"] /\ proto = [c \in Callers |-> "RAW"]
  /\ acks = [c \in Callers |-> 0] /\ copied = [c \in Callers |-> "no"]
  /\ expired = {}
  /\ outcome = [c \in Callers |-> "none"]

-----------------------------------------------------------------------------
Goto(c, pos) == at' = [at EXCEPT ![c] = pos]
(* Send returns, and its locals and its context are gone.                  *)
Return(c, o) ==
  /\ Goto(c, "back") /\ outcome' = [outcome EXCEPT ![c] = o]
  /\ proto' = [proto EXCEPT ![c] = "RAW"] /\ acks' = [acks EXCEPT ![c] = 0]
  /\ copied' = [copied EXCEPT ![c] = "no"] /\ expired' = expired \ {c}

(* AdapterFor and the first call that can wait.                            *)
SendBegin(c, p) ==
  /\ at[c] = "off" /\ p \in Protocols
  /\ proto' = [proto EXCEPT ![c] = p]
  /\ Goto(c, CASE p = "IPP" -> "http" [] p = "CUPS" -> "spool" [] OTHER -> "dial")
  /\ UNCHANGED <<acks, copied, expired, outcome>>

(* The caller goes on with the result.                                     *)
SendEnd(c) ==
  /\ at[c] = "back"
  /\ Goto(c, "off") /\ outcome' = [outcome EXCEPT ![c] = "none"]
  /\ UNCHANGED <<proto, acks, copied, expired>>

(* The sixty seconds of executeTask are over.                              *)
Expire(c) ==
  /\ at[c] \notin {"off", "back"} /\ c \notin expired
  /\ expired' = expired \cup {c}
  /\ UNCHANGED <<at, proto, acks, copied, outcome>>

(* Executor.Stop cancels the parent of every call's context.               *)
ExpireAll ==
  /\ expired' = {c \in Callers : at[c] \notin {"off", "back"}}
  /\ UNCHANGED <<at, proto, acks, copied, outcome>>

-----------------------------------------------------------------------------
(* RAW and LPR dial for three seconds at most, and not past the context.   *)
DialOk(c) ==
  /\ at[c] = "dial" /\ c \notin expired
  /\ Goto(c, IF proto[c] = "RAW" THEN "copy" ELSE "lpr")
  /\ UNCHANGED <<proto, acks, copied, expired, outcome>>

DialFails(c) ==
  /\ at[c] = "dial"
  /\ Return(c, "error")

-----------------------------------------------------------------------------
(* RAW: a goroutine copies the document while Send selects.                *)
RawCopied(c) ==
  /\ at[c] = "copy" /\ copied[c] = "no"
  /\ copied' = [copied EXCEPT ![c] = "ok"]
  /\ UNCHANGED <<at, proto, acks, expired, outcome>>

RawBroken(c) ==
  /\ at[c] = "copy" /\ copied[c] = "no"
  /\ copied' = [copied EXCEPT ![c] = "error"]
  /\ UNCHANGED <<at, proto, acks, expired, outcome>>

RawReturns(c) ==
  /\ at[c] = "copy" /\ copied[c] # "no"
  /\ Return(c, IF copied[c] = "ok" THEN "ok" ELSE "error")

(* Mutant: Send waits for its copy only.                                   *)
RawNoTimeout(c) ==
  /\ at[c] = "copy" /\ c \in expired /\ copied[c] # "no"
  /\ Return(c, "error")

(* The select may also take this arm when the copy is complete: the        *)
(* attempt counts as failed although the whole document was written.       *)
RawTimeout(c) ==
  /\ at[c] = "copy" /\ c \in expired
  /\ Return(c, "error")

-----------------------------------------------------------------------------
(* LPR: four times a write and a byte read, without deadline or context.   *)
LprAck(c) ==
  /\ at[c] = "lpr"
  /\ \/ /\ acks[c] + 1 < LprAcks
        /\ acks' = [acks EXCEPT ![c] = @ + 1]
        /\ UNCHANGED <<at, proto, copied, expired, outcome>>
     \/ /\ acks[c] + 1 = LprAcks
        /\ Return(c, "ok")

(* The document cannot be read, the connection breaks, or the byte is not  *)
(* zero.                                                                   *)
LprFails(c) ==
  /\ at[c] = "lpr"
  /\ Return(c, "error")

-----------------------------------------------------------------------------
(* IPP: one request.  A 2xx answer is a success whatever the IPP status in *)
(* its body says.                                                          *)
HttpAnswer(c) ==
  /\ at[c] = "http" /\ c \notin expired
  /\ \E o \in {"ok", "error"} : Return(c, o)

HttpFails(c) ==
  /\ at[c] = "http"
  /\ Return(c, "error")

-----------------------------------------------------------------------------
(* CUPS: a temporary file ...                                              *)
SpoolOk(c) ==
  /\ at[c] = "spool"
  /\ Goto(c, "convert")
  /\ UNCHANGED <<proto, acks, copied, expired, outcome>>

SpoolFails(c) ==
  /\ at[c] = "spool"
  /\ Return(c, "error")

(* ... libreoffice for an office document, its failure ignored ...         *)
ConvertEnds(c) ==
  /\ at[c] = "convert"
  /\ Goto(c, "lp")
  /\ UNCHANGED <<proto, acks, copied, expired, outcome>>

(* ... and lp, killed with the context.                                    *)
LpOk(c) ==
  /\ at[c] = "lp" /\ c \notin expired
  /\ Return(c, "ok")

LpFails(c) ==
  /\ at[c] = "lp"
  /\ Return(c, "error")

-----------------------------------------------------------------------------
RawStep(c) == RawReturns(c) \/ RawTimeout(c)
CupsStep(c) == SpoolOk(c) \/ SpoolFails(c) \/ ConvertEnds(c) \/ LpOk(c) \/ LpFails(c)
(* What ends by itself, at the latest when the context does.               *)
Bounded(c) ==
  DialOk(c) \/ DialFails(c) \/ RawStep(c) \/ HttpAnswer(c) \/ HttpFails(c) \/ CupsStep(c)
(* What waits for the printer.                                             *)
Printer(c) == RawCopied(c) \/ RawBroken(c) \/ LprAck(c) \/ LprFails(c)
SendStep(c) == Bounded(c) \/ Printer(c) \/ Expire(c)

-----------------------------------------------------------------------------
TypeOK ==
  /\ at \in [Callers -> {"off", "dial", "copy", "lpr", "http", "spool", "convert", "lp", "back"}]
  /\ proto \in [Callers -> Protocols \cup {"RAW"}] /\ acks \in [Callers -> 0 .. LprAcks - 1]
  /\ copied \in [Callers -> {"no", "ok", "error"}] /\ expired \subseteq Callers
  /\ outcome \in [Callers -> {"none", "ok", "error"}]
=============================================================================
