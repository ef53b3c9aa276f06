------------------------------ MODULE CloudLink ------------------------------
(***************************************************************************)
(* internal/cloudlink: the connection to the cloud and the goroutines that *)
(* share it.  Start dials and starts the heartbeat and dispatcher loops;   *)
(* the heartbeat counts failed writes and, from the third in a row on,     *)
(* starts a goroutine that asks Reconnect for a new connection; Stop takes *)
(* everything down while those goroutines may still be on their way.       *)
(*                                                                         *)
(* Connections are taken from a finite pool: an id nobody holds any more   *)
(* may be used again.  Id 0 stands for a nil *Conn.                        *)
(***************************************************************************)
EXTENDS Naturals, FiniteSets, Backoff

CONSTANTS
  MaxConns,        \* size of the pool, large enough for every holder
  MissThreshold,   \* heartbeatMissThreshold, 3 in the program
  MaxHandlers,     \* bound on conn-loss goroutines that have not run yet
  MaxAttempts,     \* attempts are counted exactly up to this one
  LocalClass,      \* whether a probe may answer LOCAL_NET_FAIL
  DomainUpdates,   \* whether the cloud sends config_update messages
  MayStop          \* whether Stop is ever called

ASSUME CloudLinkAssumption ==
  /\ MaxConns \in Nat \ {0} /\ MissThreshold \in Nat \ {0}
  /\ MaxHandlers \in Nat \ {0} /\ MaxAttempts \in Nat \ {0}
  /\ LocalClass \in BOOLEAN
  /\ DomainUpdates \in BOOLEAN /\ MayStop \in BOOLEAN

VARIABLES
  usable,         \* connections whose link works and that are not closed
  startPc,        \* CloudLink.Start: "init", "started" or "failed"
  cur,            \* c.conn
  hbConn, dspConn,       \* the copies heartbeat and dispatcher hold
  raced,          \* history: two hand-overs of a connection overlapped
  hbPc, hbUse, miss,     \* heartbeat loop, the conn it writes to, missCount
  handlers,       \* conn-loss goroutines not yet in HandleDisconnect's lock
  rRunning,       \* Reconnect.running
  rPc, rKind, rConn,     \* reconnect goroutines (two can overlap during Stop)
  rCancel,        \* those whose context is cancelled
  rLast,          \* the goroutine that r.cancel and r.done belong to
  rDone, closed,  \* whose channel each goroutine closes; the closed ones
  attempt,        \* Reconnect.attempt
  failed,         \* history: dials of the last goroutine spawned that failed
  gaveUp, stolen, \* history, see DialFails and GoroutineStarts
  dPc, dUse,      \* dispatcher loop and the conn it works with
  sPc, sConn, sWait      \* Stop, the conn it captured, the channel it waits for

connVars == <<cur, hbConn, dspConn, raced>>
hbVars == <<hbPc, hbUse, miss>>
chanVars == <<rLast, rDone, closed, stolen>>
countVars == <<attempt, failed>>
recVars == <<rRunning, rPc, rKind, rConn, rCancel, chanVars, countVars, gaveUp>>
dspVars == <<dPc, dUse>>
stopVars == <<sPc, sConn, sWait>>
vars == <<usable, startPc, connVars, hbVars, handlers, recVars, dspVars, stopVars>>

Slots == 1..2
Conns == 1..MaxConns

Init ==
  /\ usable = {}
  /\ startPc = "init"
  /\ cur = 0 /\ hbConn = 0 /\ dspConn = 0 /\ raced = FALSE
  /\ hbPc = "off" /\ hbUse = 0 /\ miss = 0 /\ handlers = 0
  /\ rRunning = FALSE
  /\ rPc = [r \in Slots |-> "none"] /\ rKind = [r \in Slots |-> "backoff"]
  /\ rConn = [r \in Slots |-> 0] /\ rCancel = {}
  /\ rLast = 0 /\ rDone = [r \in Slots |-> 0] /\ closed = {}
  /\ attempt = 0 /\ failed = 0 /\ gaveUp = FALSE /\ stolen = FALSE
  /\ dPc = "off" /\ dUse = 0
  /\ sPc = "run" /\ sConn = 0 /\ sWait = 0

Usable(c) == c \in usable
Held == {cur, hbConn, dspConn, hbUse, dUse, sConn} \cup {rConn[r] : r \in Slots}
Stopping == sPc # "run"
HbCancelled == sPc # "run"
DspCancelled == sPc \notin {"run", "hb"}

-----------------------------------------------------------------------------
(* The network *)

(* The network, the cloud or a middlebox drops a connection.  One that     *)
(* nobody holds is never looked at again.                                  *)
Break(c) ==
  /\ c \in usable \cap Held
  /\ usable' = usable \ {c}
  /\ UNCHANGED <<startPc, connVars, hbVars, handlers, recVars, dspVars, stopVars>>

(* A new connection gets an id that nobody holds.                          *)
Fresh(c) == c \in Conns \ Held /\ \A b \in Conns \ Held : c <= b
Open(c) == usable' = (usable \cap Held) \cup {c}
Close(c) == usable' = usable \ {c}

-----------------------------------------------------------------------------
(* Start *)

(* connect succeeds and both loops are started.                            *)
StartConnects(c) ==
  /\ startPc = "init" /\ Fresh(c)
  /\ Open(c)
  /\ cur' = c /\ hbConn' = c /\ dspConn' = c /\ miss' = 0
  /\ startPc' = "started" /\ hbPc' = "wait" /\ dPc' = "top"
  /\ UNCHANGED <<raced, hbUse, handlers, recVars, dUse, stopVars>>

(* connect fails: Start returns the error and starts nothing.              *)
StartFails ==
  /\ startPc = "init"
  /\ startPc' = "failed"
  /\ UNCHANGED <<usable, connVars, hbVars, handlers, recVars, dspVars, stopVars>>

-----------------------------------------------------------------------------
(* Heartbeat *)

(* sendOnce takes its copy of the connection ...                           *)
HeartbeatTick ==
  /\ hbPc = "wait" /\ ~HbCancelled
  /\ hbPc' = "write" /\ hbUse' = hbConn
  /\ UNCHANGED <<usable, startPc, connVars, miss, handlers, recVars, dspVars, stopVars>>

(* ... and writes to it; a success clears the count ...                    *)
HeartbeatSent ==
  /\ hbPc = "write" /\ Usable(hbUse)
  /\ hbPc' = "wait" /\ hbUse' = 0 /\ miss' = 0
  /\ UNCHANGED <<usable, startPc, connVars, handlers, recVars, dspVars, stopVars>>

(* ... and a failure, on a nil or unusable connection or because Stop      *)
(* cancelled the write, is a miss.  From the threshold on every miss       *)
(* starts a handler.                                                       *)
RecordMiss ==
  /\ hbPc = "write" /\ (~Usable(hbUse) \/ HbCancelled)
  /\ miss' = IF miss < MissThreshold THEN miss + 1 ELSE miss
  /\ handlers' = IF miss + 1 >= MissThreshold /\ handlers < MaxHandlers
                 THEN handlers + 1 ELSE handlers
  /\ hbPc' = "wait" /\ hbUse' = 0
  /\ UNCHANGED <<usable, startPc, connVars, recVars, dspVars, stopVars>>

HeartbeatEnds ==
  /\ hbPc = "wait" /\ HbCancelled
  /\ hbPc' = "ended"
  /\ UNCHANGED <<usable, startPc, connVars, hbUse, miss, handlers, recVars, dspVars, stopVars>>

-----------------------------------------------------------------------------
(* Reconnect *)

(* What the three parts of a probe say of the network.                     *)
Classify(localOK, dnsOK, gatewayOK) ==
  CASE ~localOK               -> "LOCAL_NET_FAIL"
    [] localOK /\ ~dnsOK      -> "DNS_RESOLVE_FAIL"
    [] localOK /\ dnsOK /\ ~gatewayOK -> "CLOUD_GATEWAY_UNREACHABLE"
    [] OTHER                  -> "OK"

(* What a lost heartbeat can lead to.  Its error has no class, so the      *)
(* prober is asked.  A name that does not resolve makes Probe return an    *)
(* error, whatever the local part said, and counts as an unreachable       *)
(* gateway; so LOCAL_NET_FAIL comes from a local part that failed while    *)
(* the name still resolved: by a resolver on the LAN, or because the link  *)
(* came back between the two.                                              *)
ClassifyDisconnect(localOK, dnsOK, gatewayOK) ==
  IF dnsOK THEN Classify(localOK, dnsOK, gatewayOK)
           ELSE "CLOUD_GATEWAY_UNREACHABLE"
Kinds ==
  {kind \in {"backoff", "local"} :
     \E l \in (IF LocalClass THEN BOOLEAN ELSE {TRUE}), d, g \in BOOLEAN :
       ClassifyDisconnect(l, d, g) = "LOCAL_NET_FAIL" <=> kind = "local"}

(* A goroutine with a context (from context.Background) and a channel of   *)
(* its own; r.cancel and r.done are theirs from now on.                    *)
Spawn(kinds) ==
  /\ \E r \in Slots, kind \in kinds :
       /\ rPc[r] = "none" /\ r # sWait
       /\ \A q \in Slots : rPc[q] = "none" /\ q # sWait => r <= q
       /\ rPc' = [rPc EXCEPT ![r] = "spawn"]
       /\ rKind' = [rKind EXCEPT ![r] = kind]
       /\ rLast' = r /\ closed' = closed \ {r}
  /\ rRunning' = TRUE /\ failed' = 0
  /\ UNCHANGED <<rConn, rCancel, rDone, stolen, attempt, gaveUp>>

(* Mutant: the running flag is not tested.                                 *)
HandleDisconnectAlways ==
  /\ handlers > 0
  /\ handlers' = handlers - 1
  /\ Spawn(Kinds)
  /\ UNCHANGED <<usable, startPc, connVars, hbVars, dspVars, stopVars>>

(* HandleDisconnect after its probe: nothing if a reconnect is running,    *)
(* else a goroutine that waits for the local network or backs off.         *)
HandleDisconnect ==
  /\ handlers > 0
  /\ handlers' = handlers - 1
  /\ \/ rRunning /\ UNCHANGED recVars
     \/ ~rRunning /\ Spawn(Kinds)
  /\ UNCHANGED <<usable, startPc, connVars, hbVars, dspVars, stopVars>>

(* nextDelay counts the attempt whose wait begins, unless the loop found   *)
(* its context cancelled; the counter of the program has no bound.         *)
CountAttempt(r) ==
  attempt' = IF rKind[r] = "backoff" /\ r \notin rCancel /\ attempt < MaxAttempts
             THEN attempt + 1 ELSE attempt

(* The goroutine's first statement reads r.done without the lock.  If Stop *)
(* has cleared running and another handler has spawned a goroutine by      *)
(* then, it gets that one's channel: nobody closes its own, and the second *)
(* close of the other panics (not followed further; stolen marks it).      *)
GoroutineStarts(r) ==
  /\ rPc[r] = "spawn"
  /\ rPc' = [rPc EXCEPT ![r] = "wait"]
  /\ rDone' = [rDone EXCEPT ![r] = rLast]
  /\ stolen' = (stolen \/ rLast # r)
  /\ CountAttempt(r)
  /\ UNCHANGED <<usable, startPc, connVars, hbVars, handlers, rRunning, rKind, rConn,
                 rCancel, rLast, closed, failed, gaveUp, dspVars, stopVars>>

ReconnectGoto(r, pc) == rPc' = [rPc EXCEPT ![r] = pc]
(* The goroutine returns and closes its channel.                           *)
ReconnectReturns(r) ==
  /\ ReconnectGoto(r, "none")
  /\ rKind' = [rKind EXCEPT ![r] = "backoff"]
  /\ rConn' = [rConn EXCEPT ![r] = 0]
  /\ rCancel' = rCancel \ {r}
  /\ closed' = closed \cup {rDone[r]} /\ rDone' = [rDone EXCEPT ![r] = 0]
  /\ UNCHANGED <<rLast, stolen>>

(* Mutant: the wait does not select on the context.                        *)
WaitOverUncancelled(r) ==
  /\ rPc[r] = "wait"
  /\ ReconnectGoto(r, "dial")
  /\ UNCHANGED <<usable, startPc, connVars, hbVars, handlers,
                 rRunning, rKind, rConn, rCancel, chanVars, countVars, gaveUp, dspVars, stopVars>>

(* The back-off delay, or the wait for a probe that is no longer local.    *)
WaitOver(r) ==
  /\ rPc[r] = "wait" /\ r \notin rCancel
  /\ ReconnectGoto(r, "dial")
  /\ UNCHANGED <<usable, startPc, connVars, hbVars, handlers,
                 rRunning, rKind, rConn, rCancel, chanVars, countVars, gaveUp, dspVars, stopVars>>

WaitCancelled(r) ==
  /\ rPc[r] = "wait" /\ r \in rCancel
  /\ ReconnectReturns(r)
  /\ UNCHANGED <<usable, startPc, connVars, hbVars, handlers, rRunning, countVars, gaveUp, dspVars, stopVars>>

(* Dial and handshake succeed.                                             *)
DialSucceeds(r, c) ==
  /\ rPc[r] = "dial" /\ r \notin rCancel /\ Fresh(c)
  /\ Open(c)
  /\ rConn' = [rConn EXCEPT ![r] = c]
  /\ ReconnectGoto(r, "setcur")
  /\ UNCHANGED <<startPc, connVars, hbVars, handlers,
                 rRunning, rKind, rCancel, chanVars, countVars, gaveUp, dspVars, stopVars>>

(* Dial or handshake fails.  The back-off loop goes round; the goroutine   *)
(* that waited for the local network returns, and leaves running set.      *)
DialFails(r) ==
  /\ rPc[r] = "dial"
  /\ \/ /\ rKind[r] = "backoff"
        /\ ReconnectGoto(r, "wait") /\ CountAttempt(r)
        /\ failed' = IF r = rLast /\ failed + 1 < MaxAttempts THEN failed + 1 ELSE failed
        /\ UNCHANGED <<rKind, rConn, rCancel, chanVars, gaveUp>>
     \/ /\ rKind[r] = "local"
        /\ ReconnectReturns(r) /\ gaveUp' = TRUE /\ UNCHANGED countVars
  /\ UNCHANGED <<usable, startPc, connVars, hbVars, handlers, rRunning, dspVars, stopVars>>

(* connect hands the connection over, one component after the other (the   *)
(* reporter, which comes second, has a module of its own).  A reconnect    *)
(* and a domain update can do so at the same time.                         *)
Handing(r) == rPc[r] \in {"sethb", "setdsp"}
Switching == dPc \in {"swhb", "swdsp"}

SetCurrent(r) ==
  /\ rPc[r] = "setcur"
  /\ cur' = rConn[r] /\ raced' = (raced \/ Switching)
  /\ ReconnectGoto(r, "sethb")
  /\ UNCHANGED <<usable, startPc, hbConn, dspConn, hbVars, handlers,
                 rRunning, rKind, rConn, rCancel, chanVars, countVars, gaveUp, dspVars, stopVars>>

(* Mutant: the heartbeat keeps its connection.                             *)
HeartbeatKeepsConn(r) ==
  /\ rPc[r] = "sethb"
  /\ miss' = 0
  /\ ReconnectGoto(r, "setdsp")
  /\ UNCHANGED <<usable, startPc, connVars, hbPc, hbUse, handlers,
                 rRunning, rKind, rConn, rCancel, chanVars, countVars, gaveUp, dspVars, stopVars>>

HeartbeatUpdateConn(r) ==
  /\ rPc[r] = "sethb"
  /\ hbConn' = rConn[r] /\ miss' = 0
  /\ ReconnectGoto(r, "setdsp")
  /\ UNCHANGED <<usable, startPc, cur, dspConn, raced, hbPc, hbUse, handlers,
                 rRunning, rKind, rConn, rCancel, chanVars, countVars, gaveUp, dspVars, stopVars>>

DispatcherUpdateConn(r) ==
  /\ rPc[r] = "setdsp"
  /\ dspConn' = rConn[r]
  /\ ReconnectGoto(r, "finish")
  /\ UNCHANGED <<usable, startPc, cur, hbConn, raced, hbVars, handlers,
                 rRunning, rKind, rConn, rCancel, chanVars, countVars, gaveUp, dspVars, stopVars>>

(* Mutant: the running flag stays set.                                     *)
ReconnectSucceededRunning(r) ==
  /\ rPc[r] = "finish"
  /\ ReconnectReturns(r)
  /\ UNCHANGED <<usable, startPc, connVars, hbVars, handlers, rRunning, countVars, gaveUp, dspVars, stopVars>>

(* Mutant: the attempts are not reset.                                     *)
ReconnectSucceededCounting(r) ==
  /\ rPc[r] = "finish"
  /\ rRunning' = FALSE
  /\ ReconnectReturns(r)
  /\ UNCHANGED <<usable, startPc, connVars, hbVars, handlers, countVars, gaveUp, dspVars, stopVars>>

(* tryReconnect resets the attempts, clears running and the goroutine      *)
(* returns.                                                                *)
ReconnectSucceeded(r) ==
  /\ rPc[r] = "finish"
  /\ attempt' = 0 /\ failed' = 0 /\ rRunning' = FALSE
  /\ ReconnectReturns(r)
  /\ UNCHANGED <<usable, startPc, connVars, hbVars, handlers, gaveUp, dspVars, stopVars>>

-----------------------------------------------------------------------------
(* Dispatcher *)

DispatcherTop ==
  /\ dPc = "top"
  /\ \/ /\ DspCancelled \/ dspConn = 0
        /\ dPc' = "ended" /\ UNCHANGED dUse
     \/ /\ ~DspCancelled /\ dspConn # 0
        /\ dPc' = "read" /\ dUse' = dspConn
  /\ UNCHANGED <<usable, startPc, connVars, hbVars, handlers, recVars, stopVars>>

(* A message arrives and is handled.                                       *)
DispatcherMessage ==
  /\ dPc = "read" /\ Usable(dUse)
  /\ dPc' = "top" /\ dUse' = 0
  /\ UNCHANGED <<usable, startPc, connVars, hbVars, handlers, recVars, stopVars>>

(* A failed read ends the loop; nothing starts it again.                   *)
DispatcherReadFails ==
  /\ dPc = "read" /\ (~Usable(dUse) \/ DspCancelled)
  /\ dPc' = "ended" /\ dUse' = 0
  /\ UNCHANGED <<usable, startPc, connVars, hbVars, handlers, recVars, stopVars>>

(* A config_update: DomainUpdater validates, probes and saves, or rejects. *)
DispatcherConfigUpdate ==
  /\ dPc = "read" /\ Usable(dUse) /\ DomainUpdates
  /\ dPc' = "update" /\ dUse' = 0
  /\ UNCHANGED <<usable, startPc, connVars, hbVars, handlers, recVars, stopVars>>

UpdateRejected ==
  /\ dPc = "update"
  /\ dPc' = "top"
  /\ UNCHANGED <<usable, startPc, connVars, hbVars, handlers, recVars, dUse, stopVars>>

(* switchConn: takes the current connection, closes it and dials.          *)
SwitchBegin ==
  /\ dPc = "update"
  /\ dPc' = "swclose" /\ dUse' = cur
  /\ UNCHANGED <<usable, startPc, connVars, hbVars, handlers, recVars, stopVars>>

SwitchCloseOld ==
  /\ dPc = "swclose"
  /\ Close(dUse)
  /\ dPc' = "swdial" /\ dUse' = 0
  /\ UNCHANGED <<startPc, connVars, hbVars, handlers, recVars, stopVars>>

SwitchDials(c) ==
  /\ dPc = "swdial" /\ ~DspCancelled /\ Fresh(c)
  /\ Open(c)
  /\ dPc' = "swcur" /\ dUse' = c
  /\ UNCHANGED <<startPc, connVars, hbVars, handlers, recVars, stopVars>>

SwitchDialFails ==
  /\ dPc = "swdial"
  /\ dPc' = "top"
  /\ UNCHANGED <<usable, startPc, connVars, hbVars, handlers, recVars, dUse, stopVars>>

SwitchSetCurrent ==
  /\ dPc = "swcur"
  /\ cur' = dUse /\ raced' = (raced \/ \E r \in Slots : Handing(r))
  /\ dPc' = "swhb"
  /\ UNCHANGED <<usable, startPc, hbConn, dspConn, hbVars, handlers, recVars, dUse, stopVars>>

SwitchHeartbeat ==
  /\ dPc = "swhb"
  /\ hbConn' = dUse /\ miss' = 0
  /\ dPc' = "swdsp"
  /\ UNCHANGED <<usable, startPc, cur, dspConn, raced, hbPc, hbUse, handlers,
                 recVars, dUse, stopVars>>

SwitchDispatcher ==
  /\ dPc = "swdsp"
  /\ dspConn' = dUse
  /\ dPc' = "top" /\ dUse' = 0
  /\ UNCHANGED <<usable, startPc, cur, hbConn, raced, hbVars, handlers, recVars, stopVars>>

-----------------------------------------------------------------------------
(* Stop, called when Start has returned *)

StopGoto(pc) == sPc' = pc

(* The connection is captured first; heartbeat.Stop cancels ...            *)
StopBegin ==
  /\ MayStop /\ sPc = "run" /\ startPc # "init"
  /\ sConn' = cur
  /\ StopGoto("hb")
  /\ UNCHANGED <<usable, startPc, connVars, hbVars, handlers, recVars, dspVars, sWait>>

(* ... and waits for its loop, then dispatcher.Stop does the same.         *)
StopHeartbeatDone ==
  /\ sPc = "hb" /\ hbPc \in {"off", "ended"}
  /\ StopGoto("dsp")
  /\ UNCHANGED <<usable, startPc, connVars, hbVars, handlers, recVars, dspVars, sConn, sWait>>

StopDispatcherDone ==
  /\ sPc = "dsp" /\ dPc \in {"off", "ended"}
  /\ StopGoto("rec")
  /\ UNCHANGED <<usable, startPc, connVars, hbVars, handlers, recVars, dspVars, sConn, sWait>>

(* Reconnect.Stop: nothing unless running; else cancel and wait.           *)
StopReconnect ==
  /\ sPc = "rec"
  /\ \/ /\ ~rRunning
        /\ StopGoto("conn")
        /\ UNCHANGED <<rRunning, rCancel, sWait>>
     \/ /\ rRunning
        /\ rRunning' = FALSE /\ rCancel' = {r \in {rLast} : rPc[r] # "none"}
        /\ sWait' = rLast
        /\ StopGoto("recwait")
  /\ UNCHANGED <<usable, startPc, connVars, hbVars, handlers,
                 rPc, rKind, rConn, chanVars, countVars, gaveUp, dspVars, sConn>>

StopReconnectDone ==
  /\ sPc = "recwait" /\ sWait \in closed
  /\ StopGoto("conn")
  /\ UNCHANGED <<usable, startPc, connVars, hbVars, handlers, recVars, dspVars, sConn, sWait>>

StopCloseConn ==
  /\ sPc = "conn"
  /\ Close(sConn)
  /\ StopGoto("stopped")
  /\ UNCHANGED <<startPc, connVars, hbVars, handlers, recVars, dspVars, sConn, sWait>>

-----------------------------------------------------------------------------
StartStep == StartFails \/ \E c \in Conns : StartConnects(c)
HeartbeatStep == HeartbeatTick \/ HeartbeatSent \/ RecordMiss \/ HeartbeatEnds
HandOver(r) ==
  SetCurrent(r) \/ HeartbeatUpdateConn(r) \/ DispatcherUpdateConn(r) \/ ReconnectSucceeded(r)
DialOk(r) == \E c \in Conns : DialSucceeds(r, c)
ReconnectStep(r) ==
  GoroutineStarts(r) \/ WaitOver(r) \/ WaitCancelled(r) \/ DialOk(r) \/ DialFails(r) \/ HandOver(r)
SwitchStep ==
  \/ UpdateRejected \/ SwitchBegin \/ SwitchCloseOld
  \/ SwitchDialFails \/ \E c \in Conns : SwitchDials(c)
  \/ SwitchSetCurrent \/ SwitchHeartbeat \/ SwitchDispatcher
DispatcherStep == DispatcherTop \/ DispatcherReadFails \/ SwitchStep
StopStep ==
  StopHeartbeatDone \/ StopDispatcherDone \/ StopReconnect \/ StopReconnectDone \/ StopCloseConn

Next ==
  \/ \E c \in Conns : Break(c)
  \/ StartStep \/ HeartbeatStep \/ HandleDisconnect
  \/ \E r \in Slots : ReconnectStep(r)
  \/ DispatcherStep \/ DispatcherMessage \/ DispatcherConfigUpdate
  \/ StopBegin \/ StopStep

Spec == Init /\ [][Next]_vars

(* Timers fire, goroutines run, reads and dials return.  A dial that is    *)
(* tried again and again succeeds at last: an outage ends.  The links, the *)
(* cloud and the caller of Stop owe nothing.                               *)
Fairness ==
  /\ WF_vars(StartStep) /\ WF_vars(HeartbeatStep) /\ WF_vars(HandleDisconnect)
  /\ \A r \in Slots : WF_vars(ReconnectStep(r)) /\ SF_vars(DialOk(r))
  /\ WF_vars(DispatcherStep) /\ WF_vars(StopStep)

FairSpec == Spec /\ Fairness

-----------------------------------------------------------------------------
(* Types; a reconnect goroutine holds a connection exactly while it hands  *)
(* one over, and a channel from its first statement on.                    *)
DataTypes ==
  /\ usable \subseteq Conns
  /\ startPc \in {"init", "started", "failed"}
  /\ {cur, hbConn, dspConn, hbUse, dUse, sConn} \subseteq 0..MaxConns
  /\ hbPc \in {"off", "wait", "write", "ended"} /\ miss \in 0..MissThreshold
  /\ handlers \in 0..MaxHandlers
  /\ rPc \in [Slots -> {"none", "spawn", "wait", "dial", "setcur", "sethb", "setdsp", "finish"}]
  /\ rKind \in [Slots -> {"backoff", "local"}] /\ rConn \in [Slots -> 0..MaxConns]
  /\ rCancel \subseteq Slots /\ closed \subseteq Slots
  /\ {rLast, sWait} \subseteq 0..2 /\ rDone \in [Slots -> 0..2]
  /\ \A r \in Slots : rDone[r] # 0 <=> rPc[r] \notin {"none", "spawn"}
  /\ \A r \in Slots : rConn[r] # 0 <=> rPc[r] \in {"setcur", "sethb", "setdsp", "finish"}
  /\ attempt \in 0..MaxAttempts /\ failed \in 0..(MaxAttempts - 1)
  /\ dPc \in {"off", "top", "read", "ended", "update", "swclose", "swdial",
             "swcur", "swhb", "swdsp"}
  /\ sPc \in {"run", "hb", "dsp", "rec", "recwait", "conn", "stopped"}
FlagTypes ==
  /\ rRunning \in BOOLEAN /\ raced \in BOOLEAN
  /\ gaveUp \in BOOLEAN /\ stolen \in BOOLEAN
TypeOK == DataTypes /\ FlagTypes

(* Until Stop, at most one reconnect goroutine is at work, however many    *)
(* conn-loss handlers have piled up, and running is set while it is.       *)
OneReconnect ==
  sPc = "run" =>
    /\ \A q, r \in Slots : rPc[q] # "none" /\ rPc[r] # "none" => q = r
    /\ \A r \in Slots : rPc[r] # "none" => rRunning

(* Until Stop, whenever no hand-over is under way the three components     *)
(* hold the same connection, after reconnects, domain updates and failures *)
(* of either in any order, unless two hand-overs have overlapped (nothing  *)
(* in the code keeps them apart).                                          *)
ConnsAgree ==
  sPc = "run" /\ ~raced /\ ~Switching /\ (\A r \in Slots : ~Handing(r)) =>
    cur = hbConn /\ cur = dspConn

(* Until Stop, a goroutine that backs off waits 5 s before its first dial  *)
(* and twice as long after each that failed, at most 300 s: its waits      *)
(* follow from its own failed dials, whatever earlier outages, goroutines  *)
(* that waited for the local network and domain updates left behind.  That *)
(* is so for 31 attempts; the 32nd product wraps around int64.             *)
BackoffHolds ==
  sPc = "run" =>
    \A r \in Slots :
      rPc[r] = "wait" /\ rKind[r] = "backoff" /\ failed < LastSound =>
        NextDelay(attempt) = {Documented(failed + 1)}

(* Whatever the loops, late handlers and reconnect goroutines were doing,  *)
(* Stop returns, unless a goroutine that had not run yet took the channel  *)
(* of the next one.                                                        *)
StopTerminates == sPc = "hb" ~> sPc = "stopped" \/ stolen

Online == Usable(hbConn)

(* The network has recovered for good: no link is broken any more.         *)
NetworkRecovers == <>[][~\E c \in Conns : Break(c)]_vars

(* README.md: after a disconnect the agent reconnects by itself.  A        *)
(* started agent whose network recovers is online again, unless it is      *)
(* stopped or the one dial after a wait for the local network failed: no   *)
(* other order of misses, late handlers and failed dials leaves it without *)
(* a reconnect goroutine.                                                  *)
Reconnects ==
  NetworkRecovers => (startPc = "started" ~> Online \/ Stopping \/ gaveUp)

(* The same for what the connection is for: the dispatcher reads from a    *)
(* working connection again.                                               *)
Receives ==
  NetworkRecovers =>
    (startPc = "started" ~> (dPc = "read" /\ Usable(dUse)) \/ Stopping)
=============================================================================
