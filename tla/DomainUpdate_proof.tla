-------------------------- MODULE DomainUpdate_proof --------------------------
(***************************************************************************)
(* Proofs about DomainUpdate for any set of endpoints, malformed and       *)
(* unloadable ones among them, any number of updates, with and without     *)
(* failing saves.                                                          *)
(***************************************************************************)
EXTENDS DomainUpdate, TLAPS

-----------------------------------------------------------------------------
(* The inductive invariant *)

(* How far an update has got, seen from its target and its way back.       *)
UpdateProgress ==
  /\ upc # "idle" => phase = "up" /\ target \notin Malformed /\ ~lastAck.applied
  /\ upc # "idle" => backup \in answered
  /\ upc \notin {"idle", "probe"} => target \in answered
  /\ upc \in {"probe", "assign", "rollback"} => endpoint = backup
  /\ upc \in {"save", "switch", "dial"} => endpoint = target
  /\ upc \in {"probe", "assign", "save"} /\ ~unsaved /\ ~overridden => file = backup
  /\ upc \in {"switch", "dial"} => file = target /\ ~unsaved /\ ~overridden

(* The file's endpoint has answered, and so has the running agent's from   *)
(* its first connection on; nothing that both validations refuse is in     *)
(* either.                                                                 *)
AnsweredKept ==
  /\ file \in answered /\ answered \cap Malformed \cap Unloadable = {}
  /\ phase = "up" /\ endpoint \notin answered =>
       /\ upc = "idle" /\ conn = NoConn
       /\ dialing \in {endpoint, NoConn} /\ endpoint \notin Unloadable
  /\ dialing # NoConn => dialing \notin Malformed \cap Unloadable

(* Who can be connected, and to what; a reconnect that is still dialling   *)
(* when an update begins, or begins during one, is a race.                 *)
ConnProgress ==
  /\ phase # "up" => conn = NoConn /\ dialing = NoConn
  /\ ~raced => /\ dialing \in {endpoint, NoConn} /\ (upc # "idle" => dialing = NoConn)
               /\ upc \in {"probe", "assign", "save", "switch"} => conn \in {backup, NoConn}
               /\ upc \in {"dial", "rollback"} => conn = NoConn

(* The endpoint the heartbeats name.                                       *)
HeartbeatProgress ==
  /\ upc \in {"probe", "assign", "save", "switch"} /\ ~hbStale => hbEndpoint = backup
  /\ upc = "dial" => hbEndpoint = target
  /\ upc = "rollback" => hbStale

IInv ==
  /\ UpdateProgress /\ AnsweredKept /\ ConnProgress /\ HeartbeatProgress
  /\ FileFollowsConfig /\ EndpointFollowsConfig /\ AppliedIsKept /\ RefusedIsDotless

-----------------------------------------------------------------------------
(* Types *)

(* What the steps need of the constants.                                   *)
LEMMA ConstantTypes ==
  /\ Configured \in Endpoints /\ Configured \notin Malformed
  /\ Overrides \subseteq Endpoints
  /\ NoConn \notin Endpoints /\ MaxUpdates \in Nat
BY DomainUpdateAssumption

(* The flags and the acknowledgement stay Boolean.                         *)
LEMMA FlagsTyped == DataTypes /\ FlagTypes /\ [Next]_vars => FlagTypes'
<1> SUFFICES ASSUME DataTypes, FlagTypes, [Next]_vars PROVE FlagTypes'
  OBVIOUS
<1> DEFINE Acks == [applied : BOOLEAN, endpoint : Endpoints \cup {NoConn}]
<1>1. raced' \in BOOLEAN
  BY Zenon DEF FlagTypes, Next, UpdateDomain, ProbeOk, ProbeFails, AssignEndpoint, SaveOk,
     SaveFails, SwitchBegin, SwitchOk, SwitchFails, RollbackSaves, ConnBreaks, ReconnectDials,
     ReconnectEnds, Exit, Start, Return, vars, cfgVars, updVars, recVars, histVars
<1>2. unsaved' \in BOOLEAN
  BY Zenon DEF FlagTypes, Next, UpdateDomain, ProbeOk, ProbeFails, AssignEndpoint, SaveOk,
     SaveFails, SwitchBegin, SwitchOk, SwitchFails, RollbackSaves, ConnBreaks, ReconnectDials,
     ReconnectEnds, Exit, Start, Return, vars, cfgVars, updVars, recVars, histVars
<1>3. hbStale' \in BOOLEAN
  BY Zenon DEF FlagTypes, Next, UpdateDomain, ProbeOk, ProbeFails, AssignEndpoint, SaveOk,
     SaveFails, SwitchBegin, SwitchOk, SwitchFails, RollbackSaves, ConnBreaks, ReconnectDials,
     ReconnectEnds, Exit, Start, Return, vars, cfgVars, updVars, recVars, histVars
<1>7. overridden' \in BOOLEAN
  BY Zenon DEF FlagTypes, Next, UpdateDomain, ProbeOk, ProbeFails, AssignEndpoint, SaveOk,
     SaveFails, SwitchBegin, SwitchOk, SwitchFails, RollbackSaves, ConnBreaks, ReconnectDials,
     ReconnectEnds, Exit, Start, Return, vars, cfgVars, updVars, recVars, histVars
<1>4. ASSUME NEW b \in BOOLEAN, NEW x \in Endpoints \cup {NoConn}
      PROVE  [applied |-> b, endpoint |-> x] \in Acks
  BY Zenon
<1>5. target \in Endpoints \cup {NoConn}
  BY DEF DataTypes
<1>6. lastAck' \in Acks
  <2>1. \/ lastAck' = lastAck
        \/ \E b \in BOOLEAN, x \in Endpoints \cup {NoConn} :
             lastAck' = [applied |-> b, endpoint |-> x]
    BY <1>5, Zenon DEF NoAck, Next, UpdateDomain, ProbeOk, ProbeFails, AssignEndpoint, SaveOk,
     SaveFails, SwitchBegin, SwitchOk, SwitchFails, RollbackSaves, ConnBreaks, ReconnectDials,
     ReconnectEnds, Exit, Start, Return, vars, cfgVars, updVars, recVars, histVars
  <2> QED
    BY <1>4, <2>1, Zenon DEF FlagTypes
<1> QED
  BY <1>1, <1>2, <1>3, <1>6, <1>7, Zenon DEF FlagTypes

(* Every reachable state of the update, the reconnects and the restarts is *)
(* well typed.                                                             *)
THEOREM TypeCorrect == Spec => []TypeOK
<1>1. Init => DataTypes
  BY ConstantTypes DEF Init, DataTypes, UpdPcs
<1>2. DataTypes /\ [Next]_vars => DataTypes'
  <2> SUFFICES ASSUME DataTypes, [Next]_vars PROVE DataTypes'
    OBVIOUS
  <2> USE ConstantTypes DEF DataTypes, UpdPcs, cfgVars, updVars, recVars, histVars
  <2>1. ASSUME NEW e \in Endpoints, UpdateDomain(e) PROVE DataTypes'
    BY <2>1 DEF UpdateDomain, IsValidDomain, NoAck
  <2>2. CASE ProbeOk
    BY <2>2 DEF ProbeOk, Goto
  <2>3. CASE ProbeFails
    BY <2>3 DEF ProbeFails, Return
  <2>4. CASE AssignEndpoint
    BY <2>4 DEF AssignEndpoint, Goto
  <2>5. CASE SaveOk
    BY <2>5 DEF SaveOk, Goto
  <2>6. CASE SaveFails
    BY <2>6 DEF SaveFails, Return
  <2>7. CASE SwitchBegin
    BY <2>7 DEF SwitchBegin, Goto
  <2>8. CASE SwitchOk
    BY <2>8 DEF SwitchOk, Return
  <2>9. CASE SwitchFails
    BY <2>9 DEF SwitchFails, Goto
  <2>10. CASE RollbackSaves
    BY <2>10 DEF RollbackSaves, Return
  <2>11. CASE ConnBreaks
    BY <2>11 DEF ConnBreaks
  <2>12. CASE ReconnectDials
    BY <2>12 DEF ReconnectDials
  <2>13. CASE ReconnectEnds
    BY <2>13 DEF ReconnectEnds
  <2>14. CASE Exit
    BY <2>14 DEF Exit
  <2>15. CASE Start
    BY <2>15 DEF Start, Validate, ApplyEnvOverrides
  <2>16. CASE UNCHANGED vars
    BY <2>16 DEF vars
  <2> QED
    BY <2>1, <2>2, <2>3, <2>4, <2>5, <2>6, <2>7, <2>8, <2>9, <2>10,
       <2>11, <2>12, <2>13, <2>14, <2>15, <2>16 DEF Next
<1>3. Init => FlagTypes
  <2>1. FALSE \in BOOLEAN /\ NoConn \in Endpoints \cup {NoConn}
    OBVIOUS
  <2>2. NoAck \in [applied : BOOLEAN, endpoint : Endpoints \cup {NoConn}]
    BY <2>1, Zenon DEF NoAck
  <2> QED
    BY <2>1, <2>2, Zenon DEF Init, FlagTypes
<1> QED
  BY <1>1, <1>2, <1>3, FlagsTyped, PTL DEF Spec, TypeOK

-----------------------------------------------------------------------------
(* Safety *)

(* The invariant is inductive.                                             *)
LEMMA Inductive == Spec => []IInv
<1>1. Init => IInv
  BY ConstantTypes DEF Init, IInv, UpdateProgress, AnsweredKept, ConnProgress, HeartbeatProgress,
     FileFollowsConfig, EndpointFollowsConfig, AppliedIsKept, RefusedIsDotless, NoAck
<1>2. DataTypes /\ IInv /\ [Next]_vars => IInv'
  <2> SUFFICES ASSUME DataTypes, IInv, [Next]_vars PROVE IInv'
    OBVIOUS
  <2> USE ConstantTypes DEF DataTypes, UpdPcs, IInv, UpdateProgress, AnsweredKept, ConnProgress,
      HeartbeatProgress, FileFollowsConfig, EndpointFollowsConfig, AppliedIsKept,
      RefusedIsDotless, cfgVars, updVars, recVars, histVars
  <2>1. ASSUME NEW e \in Endpoints, UpdateDomain(e) PROVE IInv'
    <3>1. /\ phase = "up" /\ upc = "idle" /\ conn # NoConn
          /\ UNCHANGED <<phase, cfgVars, conn, dialing, answered, unsaved, overridden, hbStale>>
      BY <2>1 DEF UpdateDomain
    <3>2. CASE ~lastAck'.applied /\ UNCHANGED <<updVars, raced>>
      BY <3>1, <3>2
    <3>3. CASE /\ e \notin Malformed
               /\ upc' = "probe" /\ target' = e /\ backup' = endpoint
               /\ ~raced' => ~raced /\ dialing = NoConn
               /\ ~lastAck'.applied
      BY <3>1, <3>3
    <3> HIDE DEF DataTypes, IInv
    <3>4. [applied |-> FALSE, endpoint |-> e].applied = FALSE /\ NoAck.applied = FALSE
      BY DEF NoAck
    <3> QED
      BY <2>1, <3>2, <3>3, <3>4, Zenon DEF UpdateDomain, IsValidDomain
  <2>2. CASE ProbeOk
    BY <2>2 DEF ProbeOk, Goto
  <2>3. CASE ProbeFails
    BY <2>3 DEF ProbeFails, Return
  <2>4. CASE AssignEndpoint
    BY <2>4 DEF AssignEndpoint, Goto
  <2>5. CASE SaveOk
    BY <2>5 DEF SaveOk, Goto
  <2>6. CASE SaveFails
    BY <2>6 DEF SaveFails, Return
  <2>7. CASE SwitchBegin
    BY <2>7 DEF SwitchBegin, Goto
  <2>8. CASE SwitchOk
    BY <2>8 DEF SwitchOk, Return
  <2>9. CASE SwitchFails
    BY <2>9 DEF SwitchFails, Goto
  <2>10. CASE RollbackSaves
    BY <2>10 DEF RollbackSaves, Return
  <2>11. CASE ConnBreaks
    BY <2>11 DEF ConnBreaks
  <2>12. CASE ReconnectDials
    BY <2>12, ZenonT(60) DEF ReconnectDials
  <2>13. CASE ReconnectEnds
    BY <2>13 DEF ReconnectEnds
  <2>14. CASE Exit
    BY <2>14 DEF Exit
  <2>15. CASE Start
    BY <2>15 DEF Start, Validate, ApplyEnvOverrides, Dotless
  <2>16. CASE UNCHANGED vars
    BY <2>16 DEF vars
  <2> QED
    BY <2>1, <2>2, <2>3, <2>4, <2>5, <2>6, <2>7, <2>8, <2>9, <2>10,
       <2>11, <2>12, <2>13, <2>14, <2>15, <2>16 DEF Next
<1> QED
  BY <1>1, <1>2, TypeCorrect, PTL DEF Spec, TypeOK

(* The config file always names the first endpoint or one that answered:   *)
(* SaveAtomic is reached only after validateAndProbe, and the way back,    *)
(* an override of the environment included, leads to an endpoint the agent *)
(* was connected to, for an update only comes over a connection.           *)
THEOREM FileHasAnswered == Spec => []FileAnswered
<1>1. IInv => FileAnswered
  BY DEF IInv, AnsweredKept, FileAnswered
<1> QED
  BY <1>1, Inductive, PTL

(* Between two updates the running agent and its file agree, whichever     *)
(* step of UpdateDomain failed, unless the save of a rollback failed or    *)
(* CPA_CLOUD_ENDPOINT overrode the file and nothing was saved since.       *)
THEOREM FileAgrees == Spec => []FileFollowsConfig
<1>1. IInv => FileFollowsConfig
  BY DEF IInv
<1> QED
  BY <1>1, Inductive, PTL

(* Between two updates the connection and the heartbeats follow the        *)
(* config, unless a reconnect ran during an update or a switch failed.     *)
THEOREM EndpointAgrees == Spec => []EndpointFollowsConfig
<1>1. IInv => EndpointFollowsConfig
  BY DEF IInv
<1> QED
  BY <1>1, Inductive, PTL

(* An update that was acknowledged as applied stays in the file, across    *)
(* restarts, until the next update.                                        *)
THEOREM AppliedKept == Spec => []AppliedIsKept
<1>1. IInv => AppliedIsKept
  BY DEF IInv
<1> QED
  BY <1>1, Inductive, PTL

(* Without an override, only an endpoint without a dot, on which           *)
(* isValidDomain and config.Validate disagree, can be in a file that Load  *)
(* refuses: what an override supplied was validated before it was saved.   *)
THEOREM RefusedDotless == Spec => []RefusedIsDotless
<1>1. IInv => RefusedIsDotless
  BY DEF IInv
<1> QED
  BY <1>1, Inductive, PTL
===============================================================================
