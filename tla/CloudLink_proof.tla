--------------------------- MODULE CloudLink_proof ---------------------------
(***************************************************************************)
(* Proofs about CloudLink for any pool of connections, miss threshold and  *)
(* number of late handlers, with or without domain updates and Stop.       *)
(***************************************************************************)
EXTENDS CloudLink, Integers, TLAPS

-----------------------------------------------------------------------------
(* Types *)

(* What the steps need of the constants.                                   *)
LEMMA ConstantTypes ==
  /\ MaxConns \in Nat /\ MissThreshold \in Nat /\ MaxHandlers \in Nat
  /\ MaxAttempts \in Nat /\ MaxAttempts > 0
  /\ Kinds \subseteq {"backoff", "local"}
  /\ \A r \in Slots : r \in 0..2 /\ r # 0
<1>1. Kinds \subseteq {"backoff", "local"}
  BY DEF Kinds
<1>2. \A r \in Slots : r \in 0..2 /\ r # 0
  BY DEF Slots
<1> QED
  BY <1>1, <1>2, CloudLinkAssumption

(* A connection that is opened is one of the pool.                         *)
LEMMA OpenTyped ==
  ASSUME NEW c \in Conns, usable \subseteq Conns, Open(c)
  PROVE  usable' \subseteq Conns /\ c \in 0..MaxConns /\ c # 0
<1>1. usable' \subseteq Conns
  BY DEF Open
<1> QED
  BY <1>1, ConstantTypes DEF Conns

(* r.done is set while a goroutine is about or running is set.             *)
LastKnown ==
  /\ \A r \in Slots : rPc[r] # "none" => rLast # 0
  /\ rRunning => rLast # 0

(* The flags are Booleans after every step.                                *)
LEMMA FlagsTyped == FlagTypes /\ [Next]_vars => FlagTypes'
<1> SUFFICES ASSUME FlagTypes, [Next]_vars PROVE FlagTypes'
  OBVIOUS
<1> USE DEF FlagTypes, Next, Break, StartStep, StartFails, StartConnects, HeartbeatStep,
     HeartbeatTick, HeartbeatSent, RecordMiss, HeartbeatEnds, HandleDisconnect, Spawn,
     ReconnectStep, GoroutineStarts, WaitOver, WaitCancelled, DialOk, DialSucceeds, DialFails,
     HandOver, SetCurrent, HeartbeatUpdateConn, DispatcherUpdateConn, ReconnectSucceeded,
     ReconnectReturns, DispatcherStep, DispatcherTop, DispatcherReadFails, DispatcherMessage,
     DispatcherConfigUpdate, SwitchStep, UpdateRejected, SwitchBegin, SwitchCloseOld, SwitchDials,
     SwitchDialFails, SwitchSetCurrent, SwitchHeartbeat, SwitchDispatcher, StopBegin, StopStep,
     StopHeartbeatDone, StopDispatcherDone, StopReconnect, StopReconnectDone, StopCloseConn,
     vars, connVars, chanVars, countVars, recVars
<1>1. rRunning' \in BOOLEAN
  BY Zenon
<1>2. raced' \in BOOLEAN
  BY Zenon
<1>3. gaveUp' \in BOOLEAN
  BY Zenon
<1>4. stolen' \in BOOLEAN
  BY Zenon
<1> QED
  BY <1>1, <1>2, <1>3, <1>4

(* Every reachable state of the connection and of the goroutines around it *)
(* is well typed: whoever hands a connection over has one, and a goroutine *)
(* that runs has a channel to close.                                       *)
THEOREM TypeCorrect == Spec => [](TypeOK /\ LastKnown)
<1>1. Init => DataTypes /\ LastKnown
  BY ConstantTypes DEF Init, DataTypes, LastKnown
<1>2. DataTypes /\ LastKnown /\ [Next]_vars => DataTypes' /\ LastKnown'
  <2> SUFFICES ASSUME DataTypes, LastKnown, [Next]_vars PROVE DataTypes' /\ LastKnown'
    OBVIOUS
  <2> USE ConstantTypes DEF DataTypes, LastKnown, connVars, hbVars, chanVars, countVars, recVars,
      dspVars, stopVars
  <2>1. ASSUME NEW c \in Conns, Break(c) PROVE DataTypes' /\ LastKnown'
    BY <2>1 DEF Break
  <2>2. ASSUME NEW c \in Conns, StartConnects(c) PROVE DataTypes' /\ LastKnown'
    <3>1. usable' \subseteq Conns /\ c \in 0..MaxConns /\ c # 0
      BY <2>2, OpenTyped DEF StartConnects
    <3> QED
      BY <2>2, <3>1 DEF StartConnects
  <2>3. CASE StartFails
    BY <2>3 DEF StartFails
  <2>4. CASE HeartbeatTick \/ HeartbeatSent \/ HeartbeatEnds
    BY <2>4 DEF HeartbeatTick, HeartbeatSent, HeartbeatEnds
  <2>5. CASE RecordMiss
    BY <2>5 DEF RecordMiss
  <2>6. CASE HandleDisconnect
    <3>1. handlers' \in 0..MaxHandlers
      BY <2>6 DEF HandleDisconnect
    <3>2. UNCHANGED <<usable, startPc, connVars, hbVars, dspVars, stopVars>>
      BY <2>6 DEF HandleDisconnect
    <3>3. CASE UNCHANGED recVars
      BY <3>1, <3>2, <3>3
    <3>4. CASE Spawn(Kinds)
      BY <3>1, <3>2, <3>4 DEF Spawn
    <3> QED
      BY <2>6, <3>3, <3>4 DEF HandleDisconnect
  <2>7. ASSUME NEW r \in Slots, GoroutineStarts(r) PROVE DataTypes' /\ LastKnown'
    BY <2>7 DEF GoroutineStarts, CountAttempt
  <2>8. ASSUME NEW r \in Slots, WaitOver(r) PROVE DataTypes' /\ LastKnown'
    BY <2>8 DEF WaitOver, ReconnectGoto
  <2>9. ASSUME NEW r \in Slots, ReconnectReturns(r), rPc[r] \notin {"none", "spawn"},
               rRunning' => rRunning, UNCHANGED countVars \/ (attempt' = 0 /\ failed' = 0),
               UNCHANGED <<usable, startPc, connVars, hbVars, handlers, dspVars, stopVars>>
        PROVE  DataTypes' /\ LastKnown'
    <3>1. rDone[r] \in Slots
      BY <2>9 DEF Slots
    <3> QED
      BY <2>9, <3>1 DEF ReconnectReturns, ReconnectGoto
  <2>10. ASSUME NEW r \in Slots, WaitCancelled(r) PROVE DataTypes' /\ LastKnown'
    BY <2>9, <2>10 DEF WaitCancelled
  <2>11. ASSUME NEW r \in Slots, NEW c \in Conns, DialSucceeds(r, c) PROVE DataTypes' /\ LastKnown'
    <3>1. usable' \subseteq Conns /\ c \in 0..MaxConns /\ c # 0
      BY <2>11, OpenTyped DEF DialSucceeds
    <3> QED
      BY <2>11, <3>1 DEF DialSucceeds, ReconnectGoto
  <2>12. ASSUME NEW r \in Slots, DialFails(r) PROVE DataTypes' /\ LastKnown'
    <3>1. CASE /\ ReconnectGoto(r, "wait") /\ CountAttempt(r)
               /\ failed' = IF r = rLast /\ failed + 1 < MaxAttempts THEN failed + 1 ELSE failed
               /\ UNCHANGED <<rKind, rConn, rCancel, chanVars>>
      BY <2>12, <3>1 DEF DialFails, ReconnectGoto, CountAttempt
    <3>2. CASE ReconnectReturns(r) /\ UNCHANGED countVars
      BY <2>9, <2>12, <3>2 DEF DialFails
    <3> QED
      BY <2>12, <3>1, <3>2 DEF DialFails
  <2>13. ASSUME NEW r \in Slots, SetCurrent(r) PROVE DataTypes' /\ LastKnown'
    BY <2>13 DEF SetCurrent, ReconnectGoto
  <2>14. ASSUME NEW r \in Slots, HeartbeatUpdateConn(r) PROVE DataTypes' /\ LastKnown'
    BY <2>14 DEF HeartbeatUpdateConn, ReconnectGoto
  <2>15. ASSUME NEW r \in Slots, DispatcherUpdateConn(r) PROVE DataTypes' /\ LastKnown'
    BY <2>15 DEF DispatcherUpdateConn, ReconnectGoto
  <2>16. ASSUME NEW r \in Slots, ReconnectSucceeded(r) PROVE DataTypes' /\ LastKnown'
    BY <2>9, <2>16 DEF ReconnectSucceeded
  <2>17. CASE DispatcherTop \/ DispatcherReadFails \/ DispatcherMessage \/ DispatcherConfigUpdate
    BY <2>17 DEF DispatcherTop, DispatcherReadFails, DispatcherMessage, DispatcherConfigUpdate
  <2>18. CASE UpdateRejected \/ SwitchBegin \/ SwitchCloseOld \/ SwitchDialFails
    BY <2>18 DEF UpdateRejected, SwitchBegin, SwitchCloseOld, SwitchDialFails, Close
  <2>19. ASSUME NEW c \in Conns, SwitchDials(c) PROVE DataTypes' /\ LastKnown'
    <3>1. usable' \subseteq Conns /\ c \in 0..MaxConns /\ c # 0
      BY <2>19, OpenTyped DEF SwitchDials
    <3> QED
      BY <2>19, <3>1 DEF SwitchDials
  <2>20. CASE SwitchSetCurrent \/ SwitchHeartbeat \/ SwitchDispatcher
    BY <2>20 DEF SwitchSetCurrent, SwitchHeartbeat, SwitchDispatcher
  <2>21. CASE StopBegin \/ StopHeartbeatDone \/ StopDispatcherDone \/ StopReconnectDone
    BY <2>21 DEF StopBegin, StopHeartbeatDone, StopDispatcherDone, StopReconnectDone, StopGoto
  <2>22. CASE StopReconnect
    BY <2>22 DEF StopReconnect, StopGoto, Slots
  <2>23. CASE StopCloseConn
    BY <2>23 DEF StopCloseConn, StopGoto, Close
  <2>24. CASE UNCHANGED vars
    BY <2>24 DEF vars
  <2> QED
    BY <2>1, <2>2, <2>3, <2>4, <2>5, <2>6, <2>7, <2>8, <2>10, <2>11, <2>12, <2>13, <2>14, <2>15,
       <2>16, <2>17, <2>18, <2>19, <2>20, <2>21, <2>22, <2>23, <2>24
       DEF Next, StartStep, HeartbeatStep, ReconnectStep, DialOk, HandOver, DispatcherStep,
           SwitchStep, StopStep
<1>3. Init => FlagTypes
  BY Zenon DEF Init, FlagTypes
<1> QED
  BY <1>1, <1>2, <1>3, FlagsTyped, PTL DEF Spec, TypeOK

-----------------------------------------------------------------------------
(* One reconnect, and one connection for all *)

(* Before Start has connected nothing runs.                                *)
BeforeStart ==
  startPc = "init" =>
    /\ sPc = "run" /\ hbPc = "off" /\ dPc = "off" /\ handlers = 0
    /\ \A r \in Slots : rPc[r] = "none"

(* Who has come how far with a hand-over.  ConnsAgree only speaks of the   *)
(* states between two of them.                                             *)
HandOverAgrees ==
  sPc = "run" /\ ~raced =>
    /\ \A r \in Slots :
         Handing(r) => /\ ~Switching /\ cur = rConn[r]
                       /\ rPc[r] = "setdsp" => hbConn = cur
    /\ Switching => cur = dUse /\ (dPc = "swdsp" => hbConn = cur)
    /\ ~Switching /\ (\A r \in Slots : ~Handing(r)) => cur = hbConn /\ cur = dspConn

(* Until Stop, attempt is zero between two back-offs and one more than the *)
(* failed dials during one.                                                *)
AttemptsCounted ==
  sPc = "run" =>
    /\ \A r \in Slots :
         rPc[r] # "none" =>
           /\ r = rLast
           /\ rPc[r] = "spawn" => failed = 0
           /\ attempt = IF rPc[r] = "spawn" \/ rKind[r] = "local" THEN 0 ELSE failed + 1
    /\ (\A r \in Slots : rPc[r] = "none") => attempt = 0
    /\ rCancel = {}

IInv == DataTypes /\ BeforeStart /\ OneReconnect /\ HandOverAgrees /\ AttemptsCounted

(* A step that leaves Start alone: what runs may end, but nothing starts.  *)
LEMMA BeforeStartKept ==
  ASSUME DataTypes, BeforeStart, [Next]_vars
  PROVE  BeforeStart'
<1> USE DEF BeforeStart, connVars, hbVars, chanVars, countVars, recVars, dspVars, stopVars
<1>1. CASE StartStep
  BY <1>1 DEF StartStep, StartConnects, StartFails
<1>2. CASE HeartbeatStep
  BY <1>2 DEF HeartbeatStep, HeartbeatTick, HeartbeatSent, RecordMiss, HeartbeatEnds
<1>3. CASE HandleDisconnect
  BY <1>3 DEF HandleDisconnect
<1>4. ASSUME NEW r \in Slots, ReconnectStep(r) PROVE BeforeStart'
  <2>1. rPc[r] # "none" /\ UNCHANGED startPc
    BY <1>4 DEF ReconnectStep, GoroutineStarts, WaitOver, WaitCancelled, DialOk, DialSucceeds,
                DialFails, HandOver, SetCurrent, HeartbeatUpdateConn, DispatcherUpdateConn,
                ReconnectSucceeded
  <2> QED
    BY <2>1
<1>5. CASE DispatcherStep \/ DispatcherMessage \/ DispatcherConfigUpdate
  <2>1. dPc # "off" /\ UNCHANGED startPc
    BY <1>5 DEF DispatcherStep, DispatcherTop, DispatcherReadFails, DispatcherMessage,
                DispatcherConfigUpdate, SwitchStep, UpdateRejected, SwitchBegin, SwitchCloseOld,
                SwitchDials, SwitchDialFails, SwitchSetCurrent, SwitchHeartbeat, SwitchDispatcher
  <2> QED
    BY <2>1
<1>6. CASE StopBegin \/ StopStep
  <2>1. startPc' = "init" => startPc = "init" /\ sPc # "run"
    BY <1>6 DEF StopBegin, StopStep, StopHeartbeatDone, StopDispatcherDone, StopReconnect,
                StopReconnectDone, StopCloseConn
  <2> QED
    BY <2>1
<1>7. CASE (\E c \in Conns : Break(c)) \/ UNCHANGED vars
  BY <1>7 DEF Break, vars
<1> QED
  BY <1>1, <1>2, <1>3, <1>4, <1>5, <1>6, <1>7 DEF Next

(* Stop is not undone.                                                     *)
LEMMA StopStays ==
  ASSUME [Next]_vars PROVE sPc' = "run" => sPc = "run"
  BY DEF Next, Break, StartStep, StartFails, StartConnects, HeartbeatStep,
     HeartbeatTick, HeartbeatSent, RecordMiss, HeartbeatEnds, HandleDisconnect,
     ReconnectStep, GoroutineStarts, WaitOver, WaitCancelled, DialOk, DialSucceeds, DialFails,
     HandOver, SetCurrent, HeartbeatUpdateConn, DispatcherUpdateConn, ReconnectSucceeded,
     DispatcherStep, DispatcherTop, DispatcherReadFails, DispatcherMessage,
     DispatcherConfigUpdate, SwitchStep, UpdateRejected, SwitchBegin, SwitchCloseOld, SwitchDials,
     SwitchDialFails, SwitchSetCurrent, SwitchHeartbeat, SwitchDispatcher, StopBegin, StopStep,
     StopHeartbeatDone, StopDispatcherDone, StopReconnect, StopReconnectDone, StopCloseConn,
     StopGoto, vars, stopVars

(* A handler finds running set or nobody at work, and whoever clears       *)
(* running is the only one at work and returns with it.                    *)
LEMMA OneReconnectKept ==
  ASSUME DataTypes, OneReconnect, [Next]_vars
  PROVE  OneReconnect'
<1> SUFFICES ASSUME sPc' = "run" PROVE OneReconnect'
  BY DEF OneReconnect
<1> sPc = "run"
  BY StopStays
<1>t. rPc \in [Slots -> {"none", "spawn", "wait", "dial", "setcur", "sethb", "setdsp", "finish"}]
  BY DEF DataTypes
<1> USE DEF OneReconnect, connVars, hbVars, chanVars, countVars, recVars, dspVars, stopVars
<1>1. CASE (\E c \in Conns : Break(c)) \/ StartStep \/ HeartbeatStep \/ DispatcherStep
           \/ DispatcherMessage \/ DispatcherConfigUpdate \/ StopBegin \/ UNCHANGED vars
  <2>1. UNCHANGED <<rPc, rRunning>>
    BY <1>1 DEF Break, StartStep, StartFails, StartConnects, HeartbeatStep,
       HeartbeatTick, HeartbeatSent, RecordMiss, HeartbeatEnds, DispatcherStep, DispatcherTop,
       DispatcherReadFails, DispatcherMessage, DispatcherConfigUpdate, SwitchStep, UpdateRejected,
       SwitchBegin, SwitchCloseOld, SwitchDials, SwitchDialFails, SwitchSetCurrent,
       SwitchHeartbeat, SwitchDispatcher, StopBegin, vars
  <2> QED
    BY <2>1
<1>2. CASE HandleDisconnect
  <2>1. CASE UNCHANGED recVars
    BY <2>1
  <2>2. CASE ~rRunning /\ Spawn(Kinds)
    <3>1. \A r \in Slots : rPc[r] = "none"
      BY <2>2
    <3>2. rRunning'
      BY <2>2 DEF Spawn
    <3>3. PICK r \in Slots : rPc' = [rPc EXCEPT ![r] = "spawn"]
      BY <2>2 DEF Spawn
    <3> QED
      BY <1>t, <3>1, <3>2, <3>3
  <2> QED
    BY <1>2, <2>1, <2>2 DEF HandleDisconnect
<1>3. ASSUME NEW r \in Slots, ReconnectStep(r) PROVE OneReconnect'
  <2>1. rPc[r] # "none" /\ (\A q \in Slots : q # r => rPc'[q] = rPc[q])
    BY <1>3, <1>t DEF ReconnectStep, GoroutineStarts, WaitOver, WaitCancelled, DialOk, DialSucceeds,
       DialFails, HandOver, SetCurrent, HeartbeatUpdateConn, DispatcherUpdateConn,
       ReconnectSucceeded, ReconnectReturns, ReconnectGoto
  <2>2. CASE UNCHANGED rRunning
    BY <2>1, <2>2
  <2>3. CASE ReconnectSucceeded(r)
    <3>1. rPc'[r] = "none"
      BY <2>3, <1>t DEF ReconnectSucceeded, ReconnectReturns, ReconnectGoto
    <3> QED
      BY <2>1, <3>1
  <2> QED
    BY <1>3, <2>2, <2>3 DEF ReconnectStep, GoroutineStarts, WaitOver, WaitCancelled, DialOk,
       DialSucceeds, DialFails, HandOver, SetCurrent, HeartbeatUpdateConn, DispatcherUpdateConn
<1>4. CASE StopStep
  BY <1>4 DEF StopStep, StopHeartbeatDone, StopDispatcherDone, StopReconnect,
              StopReconnectDone, StopCloseConn
<1> QED
  BY <1>1, <1>2, <1>3, <1>4 DEF Next

-----------------------------------------------------------------------------
(* The hand-overs *)

(* A step that takes no part in a hand-over.                               *)
Aside ==
  /\ UNCHANGED connVars
  /\ \A r \in Slots : Handing(r) \/ Handing(r)' => rPc'[r] = rPc[r] /\ rConn'[r] = rConn[r]
  /\ Switching \/ Switching' => UNCHANGED dspVars

(* Such a step disturbs no hand-over.                                      *)
LEMMA AsideKeeps ==
  ASSUME HandOverAgrees, Aside, sPc' = "run" => sPc = "run"
  PROVE  HandOverAgrees'
  BY DEF HandOverAgrees, Aside, Handing, Switching, connVars, dspVars

(* Every step is aside, or one of the seven that set a connection.         *)
LEMMA AsideOrHandOver ==
  ASSUME DataTypes, [Next]_vars
  PROVE  \/ Aside
         \/ \E c \in Conns : StartConnects(c)
         \/ \E r \in Slots : SetCurrent(r) \/ HeartbeatUpdateConn(r) \/ DispatcherUpdateConn(r)
         \/ SwitchSetCurrent \/ SwitchHeartbeat \/ SwitchDispatcher
<1>t. /\ rPc \in [Slots -> {"none", "spawn", "wait", "dial", "setcur", "sethb", "setdsp", "finish"}]
      /\ rConn \in [Slots -> 0..MaxConns]
  BY DEF DataTypes
<1> USE DEF Aside, Handing, Switching
<1>1. CASE (\E c \in Conns : Break(c)) \/ StartFails \/ HeartbeatStep \/ StopBegin \/ StopStep
           \/ UNCHANGED vars
  <2>1. UNCHANGED <<connVars, rPc, rConn, dspVars>>
    BY <1>1 DEF Break, StartFails, HeartbeatStep, HeartbeatTick, HeartbeatSent, RecordMiss,
       HeartbeatEnds, StopBegin, StopStep, StopHeartbeatDone, StopDispatcherDone, StopReconnect,
       StopReconnectDone, StopCloseConn, vars, recVars
  <2> QED
    BY <2>1 DEF dspVars
<1>2. CASE HandleDisconnect
  <2>1. UNCHANGED <<connVars, rConn, dspVars>>
    BY <1>2 DEF HandleDisconnect, Spawn, recVars
  <2>2. UNCHANGED rPc \/ \E r \in Slots : rPc[r] = "none" /\ rPc' = [rPc EXCEPT ![r] = "spawn"]
    BY <1>2 DEF HandleDisconnect, Spawn, recVars
  <2> QED
    BY <1>t, <2>1, <2>2 DEF dspVars
<1>3. ASSUME NEW r \in Slots,
             \/ GoroutineStarts(r) \/ WaitOver(r) \/ WaitCancelled(r) \/ DialOk(r)
             \/ DialFails(r) \/ ReconnectSucceeded(r)
      PROVE  Aside
  <2>1. UNCHANGED <<connVars, dspVars>>
    BY <1>3 DEF GoroutineStarts, WaitOver, WaitCancelled, DialOk, DialSucceeds, DialFails,
       ReconnectSucceeded
  <2>2. /\ ~Handing(r) /\ rPc'[r] \notin {"sethb", "setdsp"}
        /\ \A q \in Slots : q # r => rPc'[q] = rPc[q] /\ rConn'[q] = rConn[q]
    BY <1>3, <1>t DEF GoroutineStarts, WaitOver, WaitCancelled, DialOk, DialSucceeds, DialFails,
       ReconnectSucceeded, ReconnectReturns, ReconnectGoto
  <2> QED
    BY <2>1, <2>2 DEF dspVars
<1>4. CASE DispatcherTop \/ DispatcherReadFails \/ DispatcherMessage \/ DispatcherConfigUpdate
           \/ UpdateRejected \/ SwitchBegin \/ SwitchCloseOld \/ SwitchDialFails
           \/ \E c \in Conns : SwitchDials(c)
  <2>1. UNCHANGED <<connVars, rPc, rConn>> /\ ~Switching /\ dPc' \notin {"swhb", "swdsp"}
    BY <1>4 DEF DispatcherTop, DispatcherReadFails, DispatcherMessage, DispatcherConfigUpdate,
       UpdateRejected, SwitchBegin, SwitchCloseOld, SwitchDialFails, SwitchDials, recVars
  <2> QED
    BY <2>1
<1> QED
  BY <1>1, <1>2, <1>3, <1>4 DEF Next, StartStep, ReconnectStep, HandOver, DispatcherStep, SwitchStep

(* A hand-over that begins while another is under way sets raced; one that *)
(* is alone ends with all three components on its connection.              *)
LEMMA HandOverKept ==
  ASSUME DataTypes, BeforeStart, OneReconnect, HandOverAgrees, [Next]_vars
  PROVE  HandOverAgrees'
<1> SUFFICES ASSUME sPc' = "run", ~raced' PROVE HandOverAgrees'
  BY DEF HandOverAgrees
<1>r. sPc = "run"
  BY StopStays
<1>t. rPc \in [Slots -> {"none", "spawn", "wait", "dial", "setcur", "sethb", "setdsp", "finish"}]
  BY DEF DataTypes
<1>o. \A q, r \in Slots : rPc[q] # "none" /\ rPc[r] # "none" => q = r
  BY <1>r DEF OneReconnect
<1>1. CASE Aside
  BY <1>1, AsideKeeps, StopStays
<1>2. ASSUME NEW c \in Conns, StartConnects(c) PROVE HandOverAgrees'
  <2>1. \A r \in Slots : rPc'[r] = "none"
    BY <1>2 DEF StartConnects, BeforeStart, recVars
  <2> QED
    BY <1>2, <2>1 DEF StartConnects, HandOverAgrees, Handing, Switching
<1>3. ASSUME NEW r \in Slots, SetCurrent(r) PROVE HandOverAgrees'
  <2>1. ~raced /\ ~Switching
    BY <1>3, Zenon DEF SetCurrent
  <2>2. /\ rPc'[r] = "sethb" /\ \A q \in Slots : q # r => rPc'[q] = "none"
        /\ cur' = rConn'[r] /\ dPc' = dPc
    BY <1>3, <1>t, <1>o DEF SetCurrent, ReconnectGoto, dspVars
  <2> QED
    BY <2>1, <2>2 DEF HandOverAgrees, Handing, Switching
<1>4. ASSUME NEW r \in Slots, HeartbeatUpdateConn(r) PROVE HandOverAgrees'
  <2>1. ~raced
    BY <1>4, Zenon DEF HeartbeatUpdateConn
  <2>2. ~Switching /\ cur = rConn[r]
    BY <1>4, <1>r, <2>1 DEF HeartbeatUpdateConn, HandOverAgrees, Handing
  <2>3. /\ rPc'[r] = "setdsp" /\ \A q \in Slots : q # r => rPc'[q] = "none"
        /\ hbConn' = rConn[r] /\ cur' = cur /\ rConn' = rConn /\ dPc' = dPc
    BY <1>4, <1>t, <1>o DEF HeartbeatUpdateConn, ReconnectGoto, dspVars
  <2> QED
    BY <2>2, <2>3 DEF HandOverAgrees, Handing, Switching
<1>5. ASSUME NEW r \in Slots, DispatcherUpdateConn(r) PROVE HandOverAgrees'
  <2>1. ~raced
    BY <1>5, Zenon DEF DispatcherUpdateConn
  <2>2. ~Switching /\ cur = rConn[r] /\ hbConn = cur
    BY <1>5, <1>r, <2>1 DEF DispatcherUpdateConn, HandOverAgrees, Handing
  <2>3. /\ rPc'[r] = "finish" /\ \A q \in Slots : q # r => rPc'[q] = "none"
        /\ dspConn' = rConn[r] /\ cur' = cur /\ hbConn' = hbConn /\ dPc' = dPc
    BY <1>5, <1>t, <1>o DEF DispatcherUpdateConn, ReconnectGoto, dspVars
  <2> QED
    BY <2>2, <2>3 DEF HandOverAgrees, Handing, Switching
<1>6. CASE SwitchSetCurrent
  <2>1. ~raced /\ ~\E r \in Slots : Handing(r)
    BY <1>6, Zenon DEF SwitchSetCurrent
  <2>2. dPc' = "swhb" /\ cur' = dUse' /\ rPc' = rPc
    BY <1>6 DEF SwitchSetCurrent, recVars
  <2> QED
    BY <2>1, <2>2 DEF HandOverAgrees, Handing, Switching
<1>7. CASE SwitchHeartbeat
  <2>1. ~raced
    BY <1>7, Zenon DEF SwitchHeartbeat
  <2>2. dPc = "swhb" /\ dPc' = "swdsp" /\ hbConn' = dUse /\ UNCHANGED <<cur, dUse, rPc>>
    BY <1>7 DEF SwitchHeartbeat, recVars
  <2> QED
    BY <1>r, <2>1, <2>2 DEF HandOverAgrees, Handing, Switching
<1>8. CASE SwitchDispatcher
  <2>1. ~raced
    BY <1>8, Zenon DEF SwitchDispatcher
  <2>2. dPc = "swdsp" /\ dPc' = "top" /\ dspConn' = dUse /\ UNCHANGED <<cur, hbConn, rPc>>
    BY <1>8 DEF SwitchDispatcher, recVars
  <2> QED
    BY <1>r, <2>1, <2>2 DEF HandOverAgrees, Handing, Switching
<1> QED
  BY <1>1, <1>2, <1>3, <1>4, <1>5, <1>6, <1>7, <1>8, AsideOrHandOver

-----------------------------------------------------------------------------
(* The attempts *)

(* Only the goroutine at work counts, and only its success resets.         *)
LEMMA AttemptsKept ==
  ASSUME DataTypes, OneReconnect, AttemptsCounted, [Next]_vars
  PROVE  AttemptsCounted'
<1> SUFFICES ASSUME sPc' = "run" PROVE AttemptsCounted'
  BY DEF AttemptsCounted
<1>r. sPc = "run"
  BY StopStays
<1>t. /\ rPc \in [Slots -> {"none", "spawn", "wait", "dial", "setcur", "sethb", "setdsp", "finish"}]
      /\ rKind \in [Slots -> {"backoff", "local"}]
      /\ attempt \in 0..MaxAttempts /\ failed \in 0..(MaxAttempts - 1)
      /\ MaxAttempts \in Nat /\ MaxAttempts > 0
  BY ConstantTypes DEF DataTypes
<1>o. \A q, r \in Slots : rPc[q] # "none" /\ rPc[r] # "none" => q = r
  BY <1>r DEF OneReconnect
<1>a. /\ \A r \in Slots :
           rPc[r] # "none" =>
             /\ r = rLast
             /\ rPc[r] = "spawn" => failed = 0
             /\ attempt = IF rPc[r] = "spawn" \/ rKind[r] = "local" THEN 0 ELSE failed + 1
      /\ (\A r \in Slots : rPc[r] = "none") => attempt = 0
      /\ rCancel = {}
  BY <1>r DEF AttemptsCounted
<1> USE DEF AttemptsCounted
<1>1. CASE (\E c \in Conns : Break(c)) \/ StartStep \/ HeartbeatStep \/ DispatcherStep
           \/ DispatcherMessage \/ DispatcherConfigUpdate \/ StopBegin \/ UNCHANGED vars
  <2>1. UNCHANGED <<rPc, rKind, rLast, rCancel, attempt, failed>>
    BY <1>1 DEF Break, StartStep, StartFails, StartConnects, HeartbeatStep,
       HeartbeatTick, HeartbeatSent, RecordMiss, HeartbeatEnds, DispatcherStep, DispatcherTop,
       DispatcherReadFails, DispatcherMessage, DispatcherConfigUpdate, SwitchStep, UpdateRejected,
       SwitchBegin, SwitchCloseOld, SwitchDials, SwitchDialFails, SwitchSetCurrent,
       SwitchHeartbeat, SwitchDispatcher, StopBegin, vars, recVars, chanVars, countVars
  <2> QED
    BY <1>a, <2>1
<1>2. CASE HandleDisconnect
  <2>1. CASE UNCHANGED recVars
    BY <1>a, <2>1 DEF recVars, chanVars, countVars
  <2>2. CASE ~rRunning /\ Spawn(Kinds)
    <3>1. \A r \in Slots : rPc[r] = "none"
      BY <1>r, <2>2 DEF OneReconnect
    <3>2. failed' = 0 /\ UNCHANGED <<attempt, rCancel>>
      BY <2>2 DEF Spawn
    <3>3. PICK r \in Slots : rPc' = [rPc EXCEPT ![r] = "spawn"] /\ rLast' = r
      BY <2>2 DEF Spawn
    <3> QED
      BY <1>t, <1>a, <3>1, <3>2, <3>3
  <2> QED
    BY <1>2, <2>1, <2>2 DEF HandleDisconnect
<1>3. ASSUME NEW r \in Slots, ReconnectStep(r) PROVE AttemptsCounted'
  <2>0. /\ rPc[r] # "none" /\ r = rLast /\ UNCHANGED rLast /\ rCancel' = {}
        /\ \A q \in Slots : q # r => rPc[q] = "none" /\ rPc'[q] = "none"
    BY <1>3, <1>t, <1>o, <1>a DEF ReconnectStep, GoroutineStarts, WaitOver, WaitCancelled, DialOk,
       DialSucceeds, DialFails, HandOver, SetCurrent, HeartbeatUpdateConn, DispatcherUpdateConn,
       ReconnectSucceeded, ReconnectReturns, ReconnectGoto, chanVars
  <2>1. CASE GoroutineStarts(r)
    <3>1. rPc'[r] = "wait" /\ rKind' = rKind /\ failed' = failed /\ rPc[r] = "spawn"
      BY <1>t, <2>1 DEF GoroutineStarts
    <3>2. attempt' = IF rKind[r] = "backoff" THEN 1 ELSE 0
      BY <1>t, <1>a, <2>1, <3>1 DEF GoroutineStarts, CountAttempt
    <3> QED
      BY <1>t, <1>a, <2>0, <3>1, <3>2
  <2>2. CASE \/ WaitOver(r) \/ DialOk(r) \/ SetCurrent(r) \/ HeartbeatUpdateConn(r)
             \/ DispatcherUpdateConn(r)
    <3>1. /\ UNCHANGED <<rKind, attempt, failed>>
          /\ rPc[r] \notin {"none", "spawn"} /\ rPc'[r] \notin {"none", "spawn"}
      BY <1>t, <2>2 DEF WaitOver, DialOk, DialSucceeds, SetCurrent, HeartbeatUpdateConn,
         DispatcherUpdateConn, ReconnectGoto, countVars
    <3> QED
      BY <1>a, <2>0, <3>1
  <2>3. CASE WaitCancelled(r)
    BY <1>a, <2>3 DEF WaitCancelled
  <2>4. CASE DialFails(r)
    <3>1. CASE rKind[r] = "backoff"
      <4>1. /\ rPc[r] = "dial" /\ rPc'[r] = "wait" /\ rKind' = rKind
            /\ attempt' = IF attempt < MaxAttempts THEN attempt + 1 ELSE attempt
            /\ failed' = IF failed + 1 < MaxAttempts THEN failed + 1 ELSE failed
        BY <1>t, <1>a, <2>0, <2>4, <3>1 DEF DialFails, CountAttempt, ReconnectGoto
      <4>2. attempt = failed + 1
        BY <1>a, <3>1, <4>1
      <4>3. attempt' = failed' + 1
        BY <1>t, <4>1, <4>2
      <4> QED
        BY <2>0, <3>1, <4>1, <4>3
    <3>2. CASE rKind[r] = "local"
      <4>1. rPc'[r] = "none" /\ attempt' = attempt /\ attempt = 0
        BY <1>t, <1>a, <2>4, <3>2 DEF DialFails, ReconnectReturns, ReconnectGoto, countVars
      <4> QED
        BY <2>0, <4>1
    <3> QED
      BY <1>t, <3>1, <3>2
  <2>5. CASE ReconnectSucceeded(r)
    <3>1. rPc'[r] = "none" /\ attempt' = 0
      BY <1>t, <2>5 DEF ReconnectSucceeded, ReconnectReturns, ReconnectGoto
    <3> QED
      BY <2>0, <3>1
  <2> QED
    BY <1>3, <2>1, <2>2, <2>3, <2>4, <2>5 DEF ReconnectStep, HandOver
<1>4. CASE StopStep
  BY <1>4, <1>r DEF StopStep, StopHeartbeatDone, StopDispatcherDone, StopReconnect,
              StopReconnectDone, StopCloseConn
<1> QED
  BY <1>1, <1>2, <1>3, <1>4 DEF Next

(* Nothing runs before Start, one reconnect goroutine is at work until     *)
(* Stop, every hand-over of a connection is as far as its steps say, and   *)
(* the attempts are those of the goroutine at work.                        *)
THEOREM Inductive == Spec => []IInv
<1>1. Init => BeforeStart /\ OneReconnect /\ HandOverAgrees /\ AttemptsCounted
  BY DEF Init, BeforeStart, OneReconnect, HandOverAgrees, AttemptsCounted, Handing, Switching
<1>2. DataTypes /\ BeforeStart /\ OneReconnect /\ HandOverAgrees /\ AttemptsCounted /\ [Next]_vars
        => BeforeStart' /\ OneReconnect' /\ HandOverAgrees' /\ AttemptsCounted'
  BY BeforeStartKept, OneReconnectKept, HandOverKept, AttemptsKept
<1> QED
  BY <1>1, <1>2, TypeCorrect, PTL DEF Spec, IInv, TypeOK

(* However many conn-loss handlers pile up behind a slow probe, only one   *)
(* of them starts a goroutine until Stop is called.                        *)
THEOREM OneAtATime == Spec => []OneReconnect
<1>1. IInv => OneReconnect
  BY DEF IInv
<1> QED
  BY <1>1, Inductive, PTL

(* Reconnects and domain updates that do not overlap leave c.conn, the     *)
(* heartbeat and the dispatcher on the same connection.                    *)
THEOREM SameConnection == Spec => []ConnsAgree
<1>1. IInv => ConnsAgree
  BY DEF IInv, HandOverAgrees, ConnsAgree
<1> QED
  BY <1>1, Inductive, PTL

-----------------------------------------------------------------------------
(* The waits between attempts *)

(* The bits of a product.                                                  *)
LEMMA ShiftBits ==
  ASSUME NEW k \in Nat, NEW c \in Int
  PROVE  c \in Shift(InitDelay, k) <=> c \in 0..63 /\ c - k \in InitDelay
BY DEF Shift, InitDelay, Bits

(* The product of attempt n is not negative until the top bit of the five  *)
(* seconds reaches the sign, at the 32nd attempt.                          *)
LEMMA SignAt ==
  ASSUME NEW k \in Nat
  PROVE  /\ k <= 30 => ~Negative(Shift(InitDelay, k))
         /\ Negative(Shift(InitDelay, 31))
<1>1. Negative(Shift(InitDelay, k)) <=> 63 - k \in InitDelay
  BY ShiftBits DEF Negative, Sign
<1>2. Negative(Shift(InitDelay, 31)) <=> 63 - 31 \in InitDelay
  BY ShiftBits DEF Negative, Sign
<1> QED
  BY <1>1, <1>2 DEF InitDelay

(* Up to the sixth attempt the product is below 300 s, whose top bit is    *)
(* above all of the product's.                                             *)
LEMMA BelowMax ==
  ASSUME NEW k \in 0..5
  PROVE  Cap(Shift(InitDelay, k)) = Shift(InitDelay, k)
<1>1. \A b \in Shift(InitDelay, k) : b \in Int /\ b < 38
  BY ShiftBits DEF InitDelay, Shift, Bits
<1>2. 38 \in MaxDelay
  BY DEF MaxDelay
<1>3. ~Exceeds(Shift(InitDelay, k), MaxDelay)
  <2> DEFINE v == Shift(InitDelay, k)
  <2>1. 38 \notin v
    BY <1>1
  <2>2. 38 \in (v \cup MaxDelay) \ (v \cap MaxDelay)
    BY <1>2, <2>1
  <2> HIDE DEF v
  <2>3. \A b \in v : ~(38 <= b)
    BY <1>1 DEF v
  <2> QED
    BY <2>2, <2>3 DEF Exceeds, v
<1> QED
  BY <1>3 DEF Cap

(* From the seventh to the 31st it is above.  The seventh product and      *)
(* 300 s have the same top bit, and differ first in bit 35.                *)
LEMMA AboveMax ==
  ASSUME NEW k \in 6..30
  PROVE  Cap(Shift(InitDelay, k)) = MaxDelay
<1> DEFINE v == Shift(InitDelay, k)
           top == IF k = 6 THEN 35 ELSE 32 + k
<1>1. top \in v \ MaxDelay
  <2>1. top \in Int /\ top \in 0..63 /\ top - k \in InitDelay
    BY DEF InitDelay
  <2>2. top \notin MaxDelay
    BY DEF MaxDelay
  <2> QED
    BY <2>1, <2>2, ShiftBits
<1>2. ASSUME NEW c \in (v \cup MaxDelay) \ (v \cap MaxDelay) PROVE c <= top
  <2>1. CASE c \in v
    <3>1. c \in Int /\ k \in Nat
      BY <2>1 DEF Shift, Bits
    <3>2. c - k \in InitDelay
      BY <2>1, <3>1, ShiftBits
    <3>3. c <= 32 + k
      BY <3>1, <3>2 DEF InitDelay
    <3>4. CASE k = 6
      <4>1. c \in {15, 18, 19, 20, 21, 22, 24, 31, 33, 35, 38}
        BY <3>1, <3>2, <3>4 DEF InitDelay
      <4>2. c # 38
        BY <1>2, <2>1 DEF MaxDelay
      <4> QED
        BY <3>4, <4>1, <4>2
    <3> QED
      BY <3>3, <3>4
  <2>2. CASE c \in MaxDelay
    <3>1. c \in Int /\ c <= 38 /\ (c # 38 => c <= 34)
      BY <2>2 DEF MaxDelay
    <3>2. k = 6 => 38 \in v
      BY ShiftBits DEF InitDelay
    <3>3. k = 6 => c # 38
      BY <1>2, <2>2, <3>2
    <3> QED
      BY <3>1, <3>3
  <2> QED
    BY <1>2, <2>1, <2>2
<1>3. Exceeds(v, MaxDelay)
  <2>1. ~Negative(v)
    BY SignAt
  <2> HIDE DEF v, top
  <2> QED
    BY <1>1, <1>2, <2>1 DEF Exceeds
<1> QED
  BY <1>3 DEF Cap

(* A product that is negative or zero is not capped.                       *)
LEMMA NotPositive ==
  ASSUME NEW w, Negative(w) \/ w = {}
  PROVE  Cap(w) = w /\ ~Positive(w)
BY DEF Cap, Exceeds, Positive, Negative

(* From the 56th attempt of an outage on, for ever, nextDelay gives no     *)
(* positive wait: the product has lost all its bits, or it is what the     *)
(* machine makes of a float beyond the range of int64.                     *)
THEOREM NoWait == \A n \in Nat : n >= FirstIdle => \A d \in NextDelay(n) : ~Positive(d)
<1> SUFFICES ASSUME NEW n \in Nat, n >= FirstIdle, NEW p \in Products(n - 1)
             PROVE  ~Positive(Cap(p))
  BY DEF NextDelay
<1>1. n - 1 \in Nat /\ n - 1 >= 55
  BY DEF FirstIdle
<1>2. Shift(InitDelay, n - 1) = {}
  <2>1. ASSUME NEW c \in Shift(InitDelay, n - 1) PROVE FALSE
    <3>1. c \in Int /\ c <= 63 /\ c - (n - 1) \in InitDelay
      BY <1>1, ShiftBits DEF Shift, Bits, InitDelay
    <3> QED
      BY <1>1, <3>1 DEF InitDelay
  <2> QED
    BY <2>1
<1>3. Negative(MinusInit)
  BY DEF Negative, MinusInit, Sign, Bits, InitDelay
<1>4. p = {} \/ Negative(p)
  BY <1>1, <1>2, <1>3 DEF Products
<1> QED
  BY <1>4, NotPositive

(* The delays up to the 31st attempt are the documented ones.              *)
LEMMA AsDocumented ==
  ASSUME NEW n \in 1..LastSound
  PROVE  Cap(Shift(InitDelay, n - 1)) = Documented(n)
<1>1. n \in 1..31
  BY DEF LastSound
<1>2. CASE n <= 6
  <2>1. n - 1 \in 0..5
    BY <1>1, <1>2
  <2> QED
    BY <1>2, <2>1, BelowMax DEF Documented
<1>3. CASE ~(n <= 6)
  <2>1. n - 1 \in 6..30
    BY <1>1, <1>3
  <2> QED
    BY <1>3, <2>1, AboveMax DEF Documented
<1> QED
  BY <1>2, <1>3

(* The 32nd attempt of an outage does not wait: five seconds times 2^31    *)
(* does not fit into an int64, the product is negative and passes the cap. *)
THEOREM Overflow == \A d \in NextDelay(LastSound + 1) : Negative(d)
<1> SUFFICES ASSUME NEW d \in NextDelay(LastSound + 1) PROVE Negative(d)
  OBVIOUS
<1>1. Products((LastSound + 1) - 1) = {Shift(InitDelay, 31)}
  BY DEF Products, LastSound, Sign
<1>2. d = Cap(Shift(InitDelay, 31))
  BY <1>1 DEF NextDelay
<1>3. Negative(Shift(InitDelay, 31))
  BY SignAt
<1> QED
  BY <1>2, <1>3, NotPositive

(* The waits of handleRetry before the three retries of a task are 5, 10   *)
(* and 20 seconds, as the README says.                                     *)
THEOREM RetriesWait == \A n \in 1..3 : RetryDelay(n) = Documented(n)
  BY AsDocumented DEF RetryDelay, LastSound

(* Until Stop, a goroutine that backs off waits what the documentation     *)
(* says for the number of its own dials that failed, up to its 31st wait.  *)
THEOREM Waits == Spec => []BackoffHolds
<1>1. IInv => BackoffHolds
  <2> SUFFICES ASSUME IInv, sPc = "run", NEW r \in Slots,
                      rPc[r] = "wait", rKind[r] = "backoff", failed < LastSound
               PROVE  NextDelay(attempt) = {Documented(failed + 1)}
    BY DEF BackoffHolds
  <2>1. attempt = failed + 1
    BY DEF IInv, AttemptsCounted
  <2>2. failed \in Nat
    BY ConstantTypes DEF IInv, DataTypes
  <2>3. attempt \in 1..LastSound
    BY <2>1, <2>2 DEF LastSound
  <2>4. Products(attempt - 1) = {Shift(InitDelay, attempt - 1)}
    BY <2>3 DEF Products, LastSound, Sign
  <2>5. Cap(Shift(InitDelay, attempt - 1)) = Documented(attempt)
    BY <2>3, AsDocumented
  <2> QED
    BY <2>1, <2>4, <2>5 DEF NextDelay
<1> QED
  BY <1>1, Inductive, PTL
===============================================================================
