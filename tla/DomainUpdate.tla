----------------------------- MODULE DomainUpdate -----------------------------
(***************************************************************************)
(* internal/cloudlink/domain_update.go and switchConn: the cloud moves the *)
(* agent to another domain.  The endpoint lives in the shared AgentConfig, *)
(* in the config file, in the heartbeat's settings and in the connection;  *)
(* UpdateDomain changes them one after the other and takes back what it    *)
(* changed when a step fails.  A reconnect goroutine reads the shared      *)
(* config at any point, and the process may end at any point; the next     *)
(* start loads the file, lets the environment variable CPA_CLOUD_ENDPOINT  *)
(* override its endpoint, and validates the result.                        *)
(***************************************************************************)
EXTENDS Naturals, Sequences

CONSTANTS
  Endpoints,    \* endpoints the cloud may send, and the configured one
  Configured,   \* the endpoint in the file of the first start
  Overrides,    \* values CPA_CLOUD_ENDPOINT may have at a start, or it is unset
  Malformed,    \* those isValidDomain refuses (empty, a URL, an IP, bad labels)
  Unloadable,   \* those config.Validate refuses (empty, an IP, no dot)
  SaveMayFail,  \* whether SaveAtomic may return an error
  MaxUpdates,   \* bound on config_update messages
  NoConn

ASSUME DomainUpdateAssumption ==
  /\ Configured \in Endpoints \ (Malformed \cup Unloadable)
  /\ Malformed \subseteq Endpoints /\ Unloadable \subseteq Endpoints
  /\ Overrides \subseteq Endpoints
  /\ SaveMayFail \in BOOLEAN /\ MaxUpdates \in Nat
  /\ NoConn \notin Endpoints

VARIABLES
  phase,        \* "up", "down", or "refused": Load rejected the endpoint
  endpoint,     \* cfg.Cloud.Endpoint (DerivedURL follows it)
  file,         \* the endpoint in the config file
  hbEndpoint,   \* heartbeat.cfg.CloudEndpoint
  conn,         \* the endpoint the current connection goes to, or NoConn
  upc,          \* where UpdateDomain is
  target,       \* newEndpoint
  backup,       \* the endpoint to go back to
  dialing,      \* endpoint a reconnect goroutine is dialling, or NoConn
  raced,        \* history: a reconnect ran during an update
  answered,     \* history: endpoints that answered a probe or a connect
  lastAck,      \* history: config_ack of the last update that began, if it has one
  unsaved,      \* history: a rollback could not be saved, nothing since
  overridden,   \* history: the endpoint came from the environment, not saved since
  hbStale,      \* history: the last switch failed
  updates

cfgVars == <<endpoint, file, hbEndpoint>>
updVars == <<upc, target, backup>>
recVars == <<dialing, raced>>
histVars == <<answered, lastAck, unsaved, overridden, hbStale, updates>>
vars == <<phase, cfgVars, conn, updVars, recVars, histVars>>

NoAck == [applied |-> FALSE, endpoint |-> NoConn]

Init ==
  /\ phase = "down"
  /\ endpoint = Configured /\ file = Configured /\ hbEndpoint = Configured
  /\ conn = NoConn
  /\ upc = "idle" /\ target = NoConn /\ backup = NoConn
  /\ dialing = NoConn /\ raced = FALSE
  /\ answered = {Configured} /\ lastAck = NoAck /\ unsaved = FALSE
  /\ overridden = FALSE /\ hbStale = FALSE /\ updates = 0

-----------------------------------------------------------------------------
(* UpdateDomain *)

(* The two validations of an endpoint: of what the cloud sends, and of     *)
(* what Load found in the file and the environment.                        *)
IsValidDomain(e) == e \notin Malformed
Validate(e) == e \notin Unloadable

(* CPA_CLOUD_ENDPOINT, when it is set, replaces the file's endpoint.       *)
ApplyEnvOverrides(e, env) == IF env = NoConn THEN e ELSE env

Goto(pc) == upc' = pc /\ UNCHANGED <<target, backup>>

(* ReportConfigAck, then UpdateDomain returns.                             *)
Return(applied) ==
  /\ lastAck' = [applied |-> applied, endpoint |-> target]
  /\ upc' = "idle" /\ target' = NoConn /\ backup' = NoConn

(* The message arrives on the connection; a malformed domain is refused.   *)
UpdateDomain(e) ==
  /\ phase = "up" /\ upc = "idle" /\ conn # NoConn /\ updates < MaxUpdates
  /\ updates' = updates + 1
  /\ \/ /\ ~IsValidDomain(e)
        /\ lastAck' = [applied |-> FALSE, endpoint |-> e]
        /\ UNCHANGED <<updVars, raced>>
     \/ /\ IsValidDomain(e)
        /\ upc' = "probe" /\ target' = e /\ backup' = endpoint
        /\ raced' = (raced \/ dialing # NoConn)
        /\ lastAck' = NoAck
  /\ UNCHANGED <<phase, cfgVars, conn, dialing, answered, unsaved, overridden, hbStale>>

(* validateAndProbe: DNS, dial, handshake on a connection of its own.      *)
ProbeOk ==
  /\ upc = "probe"
  /\ answered' = answered \cup {target}
  /\ Goto("assign")
  /\ UNCHANGED <<phase, cfgVars, conn, recVars, lastAck, unsaved, overridden, hbStale, updates>>

(* Mutant: the error of the probe is not looked at.                        *)
ProbeFailsUnnoticed ==
  /\ upc = "probe"
  /\ Goto("assign")
  /\ UNCHANGED <<phase, cfgVars, conn, recVars, histVars>>

ProbeFails ==
  /\ upc = "probe"
  /\ Return(FALSE)
  /\ UNCHANGED <<phase, cfgVars, conn, recVars, answered, unsaved, overridden, hbStale, updates>>

AssignEndpoint ==
  /\ upc = "assign"
  /\ endpoint' = target
  /\ Goto("save")
  /\ UNCHANGED <<phase, file, hbEndpoint, conn, recVars, histVars>>

(* SaveAtomic renames a complete file into place ...                       *)
SaveOk ==
  /\ upc = "save"
  /\ file' = endpoint /\ unsaved' = FALSE /\ overridden' = FALSE
  /\ Goto("switch")
  /\ UNCHANGED <<phase, endpoint, hbEndpoint, conn, recVars, answered, lastAck, hbStale, updates>>

(* ... or leaves the old one, and the endpoint is taken back.              *)
SaveFails ==
  /\ upc = "save" /\ SaveMayFail
  /\ endpoint' = backup
  /\ Return(FALSE)
  /\ UNCHANGED <<phase, file, hbEndpoint, conn, recVars, answered, unsaved, overridden, hbStale, updates>>

(* Mutant: the heartbeat keeps the old endpoint.                           *)
SwitchBeginHbOld ==
  /\ upc = "switch"
  /\ conn' = NoConn /\ endpoint' = target
  /\ Goto("dial")
  /\ UNCHANGED <<phase, file, hbEndpoint, recVars, histVars>>

(* switchConn closes the old connection before it dials the new domain.    *)
SwitchBegin ==
  /\ upc = "switch"
  /\ conn' = NoConn /\ endpoint' = target /\ hbEndpoint' = target
  /\ Goto("dial")
  /\ UNCHANGED <<phase, file, recVars, histVars>>

SwitchOk ==
  /\ upc = "dial"
  /\ conn' = endpoint
  /\ Return(TRUE) /\ hbStale' = FALSE
  /\ UNCHANGED <<phase, cfgVars, recVars, answered, unsaved, overridden, updates>>

(* A failed switch takes the endpoint back, in memory (the heartbeat goes  *)
(* on naming the new one) ...                                              *)
SwitchFails ==
  /\ upc = "dial"
  /\ endpoint' = backup /\ hbStale' = TRUE
  /\ Goto("rollback")
  /\ UNCHANGED <<phase, file, hbEndpoint, conn, recVars, answered, lastAck, unsaved, overridden, updates>>

(* Mutant: the rollback is not saved.                                      *)
RollbackUnsaved ==
  /\ upc = "rollback"
  /\ Return(FALSE)
  /\ UNCHANGED <<phase, cfgVars, conn, recVars, answered, unsaved, overridden, hbStale, updates>>

(* Mutant: the failed update is acknowledged as applied.                   *)
RollbackAcksApplied ==
  /\ upc = "rollback"
  /\ file' = endpoint
  /\ Return(TRUE)
  /\ UNCHANGED <<phase, endpoint, hbEndpoint, conn, recVars, answered, unsaved, overridden, hbStale, updates>>

(* ... and in the file, where an error goes unnoticed.                     *)
RollbackSaves ==
  /\ upc = "rollback"
  /\ \/ file' = endpoint /\ unsaved' = FALSE /\ overridden' = FALSE
     \/ SaveMayFail /\ unsaved' = TRUE /\ UNCHANGED <<file, overridden>>
  /\ Return(FALSE)
  /\ UNCHANGED <<phase, endpoint, hbEndpoint, conn, recVars, answered, hbStale, updates>>

-----------------------------------------------------------------------------
(* The rest of the agent *)

ConnBreaks ==
  /\ phase = "up" /\ conn # NoConn
  /\ conn' = NoConn
  /\ UNCHANGED <<phase, cfgVars, updVars, recVars, histVars>>

(* connect of a reconnect goroutine dials whatever the config says now.    *)
ReconnectDials ==
  /\ phase = "up" /\ dialing = NoConn /\ conn = NoConn
  /\ dialing' = endpoint
  /\ raced' = (raced \/ upc # "idle")
  /\ UNCHANGED <<phase, cfgVars, conn, updVars, histVars>>

ReconnectEnds ==
  /\ dialing # NoConn
  /\ \/ UNCHANGED <<conn, answered>>
     \/ conn' = dialing /\ answered' = answered \cup {dialing}
  /\ dialing' = NoConn
  /\ UNCHANGED <<phase, cfgVars, updVars, raced, lastAck, unsaved, overridden, hbStale, updates>>

(* The process ends; only the file stays.                                  *)
Exit ==
  /\ phase = "up"
  /\ phase' = "down"
  /\ conn' = NoConn /\ upc' = "idle" /\ target' = NoConn /\ backup' = NoConn
  /\ dialing' = NoConn /\ raced' = FALSE
  /\ UNCHANGED <<cfgVars, histVars>>

(* Mutant: Load validates the file before it applies the environment.      *)
StartValidatesFirst ==
  /\ phase \in {"down", "refused"}
  /\ \E env \in Overrides \cup {NoConn} :
       LET loaded == ApplyEnvOverrides(file, env) IN
       /\ endpoint' = loaded /\ overridden' = (loaded # file)
       /\ \/ /\ ~Validate(file)
             /\ phase' = "refused"
             /\ UNCHANGED <<hbEndpoint, unsaved, hbStale>>
          \/ /\ Validate(file)
             /\ phase' = "up"
             /\ hbEndpoint' = loaded /\ unsaved' = FALSE /\ hbStale' = FALSE
  /\ UNCHANGED <<file, conn, updVars, recVars, answered, lastAck, updates>>

(* Load: the file's endpoint or the environment's, and if Validate refuses *)
(* it Run ends; a later start may find another environment.                *)
Start ==
  /\ phase \in {"down", "refused"}
  /\ \E env \in Overrides \cup {NoConn} :
       LET loaded == ApplyEnvOverrides(file, env) IN
       /\ endpoint' = loaded /\ overridden' = (loaded # file)
       /\ \/ /\ ~Validate(loaded)
             /\ phase' = "refused"
             /\ UNCHANGED <<hbEndpoint, unsaved, hbStale>>
          \/ /\ Validate(loaded)
             /\ phase' = "up"
             /\ hbEndpoint' = loaded /\ unsaved' = FALSE /\ hbStale' = FALSE
  /\ UNCHANGED <<file, conn, updVars, recVars, answered, lastAck, updates>>

Next ==
  \/ \E e \in Endpoints : UpdateDomain(e)
  \/ ProbeOk \/ ProbeFails \/ AssignEndpoint \/ SaveOk \/ SaveFails
  \/ SwitchBegin \/ SwitchOk \/ SwitchFails \/ RollbackSaves
  \/ ConnBreaks \/ ReconnectDials \/ ReconnectEnds \/ Exit \/ Start

Spec == Init /\ [][Next]_vars

-----------------------------------------------------------------------------
UpdPcs == {"idle", "probe", "assign", "save", "switch", "dial", "rollback"}

(* Types; an update in progress knows its target and its way back.         *)
DataTypes ==
  /\ phase \in {"up", "down", "refused"}
  /\ {endpoint, file, hbEndpoint} \subseteq Endpoints
  /\ {conn, dialing} \subseteq Endpoints \cup {NoConn}
  /\ upc \in UpdPcs
  /\ {target, backup} \subseteq Endpoints \cup {NoConn}
  /\ upc # "idle" <=> target # NoConn /\ backup # NoConn
  /\ answered \subseteq Endpoints
  /\ updates \in 0..MaxUpdates

FlagTypes ==
  /\ raced \in BOOLEAN /\ unsaved \in BOOLEAN /\ hbStale \in BOOLEAN
  /\ overridden \in BOOLEAN
  /\ lastAck \in [applied : BOOLEAN, endpoint : Endpoints \cup {NoConn}]

TypeOK == DataTypes /\ FlagTypes

(* Whatever fails or ends the process when, and whatever the environment   *)
(* overrides, the file names the first endpoint or one that answered: an   *)
(* update probes before it saves, and a rollback, which writes the running *)
(* config and an override with it, goes back to an endpoint the agent had  *)
(* been connected to.                                                      *)
FileAnswered == file \in answered

(* Between two updates the running agent and its file agree on the         *)
(* endpoint, after successes, failures at every step and restarts, unless  *)
(* the save of a rollback itself failed, or the environment overrode the   *)
(* file and nothing was saved since.                                       *)
FileFollowsConfig ==
  phase = "up" /\ upc = "idle" /\ ~unsaved /\ ~overridden => file = endpoint

(* Between two updates the connection goes to the endpoint the config      *)
(* names, unless a reconnect ran while an update was under way, and the    *)
(* heartbeats name it, through failed probes and saves, reconnects and     *)
(* restarts, unless the last switch failed: switchConn sets their endpoint *)
(* before it dials and nothing takes it back.                              *)
EndpointFollowsConfig ==
  phase = "up" /\ upc = "idle" =>
    /\ raced \/ conn \in {endpoint, NoConn}
    /\ hbStale \/ hbEndpoint = endpoint

(* An update acknowledged as applied is kept: until the next update the    *)
(* file names its endpoint, also across restarts.                          *)
AppliedIsKept == upc = "idle" /\ lastAck.applied => file = lastAck.endpoint

(* When no override is in play, a file that keeps the agent from starting  *)
(* names an endpoint without a dot, on which isValidDomain and             *)
(* config.Validate disagree; no other endpoint the cloud sends, and none   *)
(* the environment ever supplied, gets there, whatever fails on the way.   *)
Dotless == Unloadable \ Malformed
RefusedIsDotless == phase = "refused" /\ ~overridden => file \in Dotless
=============================================================================
