------------------------------- MODULE Reporter -------------------------------
(***************************************************************************)
(* internal/cloudlink/reporter.go: messages to the cloud from several      *)
(* goroutines (the executor's workers, the dispatcher) while others        *)
(* (reconnect, the domain update) install a new connection and flush what  *)
(* was buffered without one.  r.connMu guards the connection, r.mu the     *)
(* buffer, and no lock is held across a write.                             *)
(*                                                                         *)
(* A write succeeds or fails whatever the connection is, so only whether   *)
(* there is one matters.  connect passes no nil, so a reporter that has a  *)
(* connection keeps having one and flushBuffer never finds none.           *)
(***************************************************************************)
EXTENDS Naturals, Sequences, Functions

CONSTANTS
  Msgs,          \* messages reported, each once
  Senders,       \* goroutines in Send
  Flushers,      \* goroutines in UpdateConn
  BufferSize,    \* reporterBufferSize, 256 in the program
  MaxUpdates,    \* bound on the calls of UpdateConn
  NoMsg

VARIABLES
  connected,     \* r.conn is not nil
  buf,           \* r.buf
  spc, smsg,     \* senders: position and message in hand
  fpc, pending,  \* flushers: position and messages still to write
  sent,          \* messages written
  dropped,       \* messages that a full buffer pushed out
  updates

sendVars == <<spc, smsg>>
flushVars == <<fpc, pending>>
vars == <<connected, buf, sendVars, flushVars, sent, dropped, updates>>

Init ==
  /\ connected = FALSE /\ buf = <<>>
  /\ spc = [s \in Senders |-> "idle"] /\ smsg = [s \in Senders |-> NoMsg]
  /\ fpc = [f \in Flushers |-> "idle"] /\ pending = [f \in Flushers |-> <<>>]
  /\ sent = <<>> /\ dropped = {} /\ updates = 0

(* Where a message can be: written, pushed out, buffered, or in some hand. *)
Taken == UNION {Range(pending[f]) : f \in Flushers}
Reported(m) == m \in Range(sent) \cup dropped \cup Range(buf) \cup Range(smsg) \cup Taken

-----------------------------------------------------------------------------
(* Mutant: the message is added to a full buffer before the oldest goes.   *)
BufferLate(m) ==
  /\ buf' = Append(IF Len(buf) > BufferSize THEN Tail(buf) ELSE buf, m)
  /\ dropped' = IF Len(buf) > BufferSize THEN dropped \cup {Head(buf)} ELSE dropped

(* buffer: a full buffer loses its oldest message.                         *)
Buffer(m) ==
  /\ buf' = Append(IF Len(buf) >= BufferSize THEN Tail(buf) ELSE buf, m)
  /\ dropped' = IF Len(buf) >= BufferSize THEN dropped \cup {Head(buf)} ELSE dropped

SenderDone(s) ==
  /\ spc' = [spc EXCEPT ![s] = "idle"]
  /\ smsg' = [smsg EXCEPT ![s] = NoMsg]

(* Send reads the connection ...                                           *)
Send(s, m) ==
  /\ spc[s] = "idle" /\ ~Reported(m)
  /\ smsg' = [smsg EXCEPT ![s] = m]
  /\ spc' = [spc EXCEPT ![s] = IF connected THEN "write" ELSE "buffer"]
  /\ UNCHANGED <<connected, buf, flushVars, sent, dropped, updates>>

(* ... and writes the message ...                                          *)
SendWrites(s) ==
  /\ spc[s] = "write"
  /\ sent' = Append(sent, smsg[s])
  /\ SenderDone(s)
  /\ UNCHANGED <<connected, buf, flushVars, dropped, updates>>

SendFails(s) ==
  /\ spc[s] = "write"
  /\ spc' = [spc EXCEPT ![s] = "buffer"]
  /\ UNCHANGED <<connected, buf, smsg, flushVars, sent, dropped, updates>>

(* ... or buffers it, by then perhaps behind a flush.                      *)
SendBuffers(s) ==
  /\ spc[s] = "buffer"
  /\ Buffer(smsg[s])
  /\ SenderDone(s)
  /\ UNCHANGED <<connected, flushVars, sent, updates>>

-----------------------------------------------------------------------------
FlusherGoto(f, pc) == fpc' = [fpc EXCEPT ![f] = pc]

UpdateConn(f) ==
  /\ fpc[f] = "idle" /\ updates < MaxUpdates
  /\ connected' = TRUE /\ updates' = updates + 1
  /\ FlusherGoto(f, "take")
  /\ UNCHANGED <<buf, sendVars, pending, sent, dropped>>

(* Mutant: the slice is copied and not cleared.                            *)
FlushCopies(f) ==
  /\ fpc[f] = "take"
  /\ pending' = [pending EXCEPT ![f] = buf]
  /\ FlusherGoto(f, IF buf = <<>> THEN "idle" ELSE "flush")
  /\ UNCHANGED <<connected, buf, sendVars, sent, dropped, updates>>

(* flushBuffer takes the whole buffer, if there is anything in it ...      *)
FlushTakes(f) ==
  /\ fpc[f] = "take"
  /\ pending' = [pending EXCEPT ![f] = buf]
  /\ buf' = <<>>
  /\ FlusherGoto(f, IF buf = <<>> THEN "idle" ELSE "flush")
  /\ UNCHANGED <<connected, sendVars, sent, dropped, updates>>

(* ... and writes one message after the other.                             *)
FlushWrites(f) ==
  /\ fpc[f] = "flush" /\ pending[f] # <<>>
  /\ sent' = Append(sent, Head(pending[f]))
  /\ pending' = [pending EXCEPT ![f] = Tail(@)]
  /\ UNCHANGED <<connected, buf, sendVars, fpc, dropped, updates>>

(* Mutant: a message that cannot be written is gone.                       *)
FlushDrops(f) ==
  /\ fpc[f] = "flush" /\ pending[f] # <<>>
  /\ pending' = [pending EXCEPT ![f] = Tail(@)]
  /\ UNCHANGED <<connected, buf, sendVars, fpc, sent, dropped, updates>>

(* A message that cannot be written is buffered again, the next is tried.  *)
FlushFails(f) ==
  /\ fpc[f] = "flush" /\ pending[f] # <<>>
  /\ Buffer(Head(pending[f]))
  /\ pending' = [pending EXCEPT ![f] = Tail(@)]
  /\ UNCHANGED <<connected, sendVars, fpc, sent, updates>>

FlushEnds(f) ==
  /\ fpc[f] = "flush" /\ pending[f] = <<>>
  /\ FlusherGoto(f, "idle")
  /\ UNCHANGED <<connected, buf, sendVars, pending, sent, dropped, updates>>

SenderStep(s) == SendWrites(s) \/ SendFails(s) \/ SendBuffers(s)
FlusherStep(f) == FlushTakes(f) \/ FlushWrites(f) \/ FlushFails(f) \/ FlushEnds(f)

Next ==
  \/ \E s \in Senders : SenderStep(s) \/ \E m \in Msgs : Send(s, m)
  \/ \E f \in Flushers : FlusherStep(f) \/ UpdateConn(f)

Spec == Init /\ [][Next]_vars

-----------------------------------------------------------------------------
(* Types; a sender has a message in hand exactly while it is in Send, and  *)
(* the buffer, into which failed flushes put messages back while senders   *)
(* add theirs, stays within its bound.                                     *)
DataTypes ==
  /\ sent \in Seq(Msgs) /\ buf \in Seq(Msgs) /\ Len(buf) <= BufferSize
  /\ spc \in [Senders -> {"idle", "write", "buffer"}]
  /\ smsg \in [Senders -> Msgs \cup {NoMsg}]
  /\ \A s \in Senders : smsg[s] = NoMsg <=> spc[s] = "idle"
  /\ fpc \in [Flushers -> {"idle", "take", "flush"}]
  /\ pending \in [Flushers -> Seq(Msgs)]
  /\ dropped \subseteq Msgs /\ updates \in 0..MaxUpdates
TypeOK == DataTypes /\ connected \in BOOLEAN

(* No message appears twice among what was written, what is buffered, what *)
(* flushers took and what senders hold, however sends and flushes overlap: *)
(* none is written a second time after a successful write.                 *)
WrittenOnce ==
  /\ IsInjective(sent) /\ IsInjective(buf) /\ Range(sent) \cap Range(buf) = {}
  /\ \A s \in Senders :
       smsg[s] # NoMsg => /\ smsg[s] \notin Range(sent) \cup Range(buf) \cup Taken
                          /\ \A r \in Senders : smsg[r] = smsg[s] => r = s
  /\ \A f \in Flushers :
       /\ IsInjective(pending[f])
       /\ Range(pending[f]) \cap (Range(sent) \cup Range(buf)) = {}
       /\ \A g \in Flushers : f # g => Range(pending[f]) \cap Range(pending[g]) = {}

(* A reported message stays accounted for until it is written: it leaves   *)
(* the buffers and hands only by a write, or when a full buffer pushes it  *)
(* out.                                                                    *)
NoneForgotten == [][\A m \in Msgs : Reported(m) => Reported(m)']_vars
=============================================================================
