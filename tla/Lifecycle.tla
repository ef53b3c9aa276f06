----------------------------- MODULE Lifecycle -----------------------------
(***************************************************************************)
(* internal/lifecycle: Run starts the parts one after the other and, on a  *)
(* signal, Shutdown stops them in a goroutine of its own for which Run     *)
(* waits ten seconds.  The parts in between: workers that call the print   *)
(* adapters (Protocol) and hand results to the reporter (Reporter), which  *)
(* the heartbeat uses too, and the network prober's loop.                  *)
(*                                                                         *)
(* What the executor does with a task in detail is in Executor, the queues *)
(* of the devices in TaskQueue, the cloud connection in CloudLink and      *)
(* DomainUpdate; here a task is queued, handed out, tried, retried or      *)
(* given up, and the link is up or not.                                    *)
(***************************************************************************)
EXTENDS Naturals, Sequences, FiniteSets

CONSTANTS
  Workers, Tasks, NoTask,
  Devices,       \* devices known when the executor starts
  DeviceOf,      \* the device of each task
  MaxRetry,      \* maxRetryCount, 3 in the program
  Recoverable,   \* tasks an earlier run may have left behind
  Beats,         \* device status messages of the heartbeat
  Protocols, BufferSize, MaxUpdates

Heartbeat == "heartbeat"
Reconnect == "reconnect"
Main == "main"   \* Run in CloudLink.Start, later the dispatcher in a domain update
Results == Tasks \X (1 .. MaxRetry + 2)   \* a task's results, numbered
Msgs == Results \cup Beats
Senders == Workers \cup {Heartbeat}
Flushers == {Main, Reconnect}

ASSUME LifecycleAssumption ==
  /\ NoTask \notin Tasks /\ NoTask \notin Msgs /\ Results \cap Beats = {}
  /\ Recoverable \subseteq Tasks /\ DeviceOf \in [Tasks -> Devices]
  /\ Heartbeat \notin Workers /\ IsFiniteSet(Workers) /\ MaxRetry \in Nat
  /\ BufferSize \in Nat \ {0} /\ MaxUpdates \in Nat

VARIABLES
  runPc,         \* Run
  sdPc,          \* the goroutine of Shutdown
  db, link, prober, ops,    \* the parts and how far each has come
  disp,          \* the dispatcher's loop
  cancelled,     \* the executor's context is done
  cbReady,       \* OnTaskResult was called
  recovered,     \* tasks that Recover queued
  arrived,       \* tasks from the cloud
  todo, ready,   \* tasks in a queue; tasks in the executor's channel
  cpc, shut,     \* device consumers; queues that Close has closed
  wpc, wtask,    \* workers
  wretry,        \* RetryCount of a worker's task
  wres,          \* how many results of it were reported
  early          \* history: results for which there was no callback

(* Protocol and Reporter *)
VARIABLES at, proto, acks, copied, expired, outcome
VARIABLES connected, buf, spc, smsg, fpc, pending, sent, dropped, updates

P == INSTANCE Protocol WITH Callers <- Workers
R == INSTANCE Reporter WITH NoMsg <- NoTask

sendVars == <<at, proto, acks, copied, expired, outcome>>
reportVars == <<connected, buf, spc, smsg, fpc, pending, sent, dropped, updates>>
partVars == <<db, link, prober, ops, disp>>
taskVars == <<recovered, arrived, todo, ready>>
consVars == <<cpc, shut>>
workVars == <<wpc, wtask, wretry, wres, early>>
execVars == <<taskVars, consVars, workVars>>
vars == <<runPc, sdPc, partVars, cancelled, cbReady, execVars, sendVars, reportVars>>

Init ==
  /\ runPc = "load" /\ sdPc = "none"
  /\ db = "none" /\ link = "off" /\ prober = "off" /\ ops = "off" /\ disp = "off"
  /\ cancelled = FALSE /\ cbReady = FALSE
  /\ recovered = {} /\ arrived = {} /\ todo = {} /\ ready = {}
  /\ cpc = [d \in Devices |-> "none"] /\ shut = {}
  /\ wpc = [w \in Workers |-> "none"] /\ wtask = [w \in Workers |-> NoTask]
  /\ wretry = [w \in Workers |-> 0] /\ wres = [w \in Workers |-> 0]
  /\ early = {}
  /\ P!Init /\ R!Init

-----------------------------------------------------------------------------
(* Run, up to the wait for a signal *)

Starting == runPc \notin {"up", "shutdown", "exited"}

(* Configuration, loggers and the database: an error ends the program.     *)
Load ==
  /\ runPc = "load" /\ runPc' \in {"storage", "exited"}
  /\ UNCHANGED <<sdPc, partVars, cancelled, cbReady, execVars, sendVars, reportVars>>

InitStorage ==
  /\ runPc = "storage"
  /\ \/ runPc' = "recover" /\ db' = "open"
     \/ runPc' = "exited" /\ UNCHANGED db
  /\ UNCHANGED <<sdPc, link, prober, ops, disp, cancelled, cbReady, execVars, sendVars, reportVars>>

(* Devices and recovered tasks; an error is logged.                        *)
Recover ==
  /\ runPc = "recover"
  /\ recovered' \in SUBSET Recoverable /\ todo' = recovered'
  /\ runPc' = "credential"
  /\ UNCHANGED <<sdPc, partVars, cancelled, cbReady, arrived, ready, consVars, workVars,
                 sendVars, reportVars>>

(* Without a credential runPendingConfig starts nothing but the ops API.   *)
Credential ==
  /\ runPc = "credential" /\ runPc' \in {"prober", "ops"}
  /\ UNCHANGED <<sdPc, partVars, cancelled, cbReady, execVars, sendVars, reportVars>>

StartProber ==
  /\ runPc = "prober"
  /\ prober' = "on" /\ runPc' = "executor"
  /\ UNCHANGED <<sdPc, db, link, ops, disp, cancelled, cbReady, execVars, sendVars, reportVars>>

StartExecutor ==
  /\ runPc = "executor"
  /\ wpc' = [w \in Workers |-> "idle"] /\ cpc' = [d \in Devices |-> "check"]
  /\ runPc' = "callback"
  /\ UNCHANGED <<sdPc, partVars, cancelled, cbReady, taskVars, shut, wtask, wretry, wres, early,
                 sendVars, reportVars>>

(* Mutant: the callback is forgotten.                                      *)
NoCallback ==
  /\ runPc = "callback"
  /\ runPc' = "link"
  /\ UNCHANGED <<sdPc, partVars, cancelled, cbReady, execVars, sendVars, reportVars>>

OnTaskResult ==
  /\ runPc = "callback"
  /\ cbReady' = TRUE /\ runPc' = "link"
  /\ UNCHANGED <<sdPc, partVars, cancelled, execVars, sendVars, reportVars>>

(* CloudLink.Start: connect hands the connection to the reporter, which    *)
(* flushes; then the loops start.                                          *)
LinkConnects ==
  /\ runPc = "link" /\ link = "off"
  /\ R!UpdateConn(Main) /\ link' = "connecting"
  /\ UNCHANGED <<runPc, sdPc, db, prober, ops, disp, cancelled, cbReady, execVars, sendVars>>

LinkStarted ==
  /\ runPc = "link" /\ link = "connecting" /\ fpc[Main] = "idle"
  /\ link' = "up" /\ disp' = "read" /\ runPc' = "ops"
  /\ UNCHANGED <<sdPc, db, prober, ops, cancelled, cbReady, execVars, sendVars, reportVars>>

(* An error is logged, and Run goes on without the cloud.                  *)
LinkFails ==
  /\ runPc = "link" /\ link = "off"
  /\ link' = "failed" /\ runPc' = "ops"
  /\ UNCHANGED <<sdPc, db, prober, ops, disp, cancelled, cbReady, execVars, sendVars, reportVars>>

(* If the port is taken Run returns, without Shutdown.                     *)
StartOps ==
  /\ runPc = "ops"
  /\ \/ runPc' = "up" /\ ops' = "up"
     \/ runPc' = "exited" /\ UNCHANGED ops
  /\ UNCHANGED <<sdPc, db, link, prober, disp, cancelled, cbReady, execVars, sendVars, reportVars>>

(* Before WaitForSignal nobody catches a signal: the process ends.         *)
Signal ==
  /\ \/ runPc = "up" /\ runPc' = "shutdown" /\ sdPc' = "link"
     \/ Starting /\ runPc' = "exited" /\ UNCHANGED sdPc
  /\ UNCHANGED <<partVars, cancelled, cbReady, execVars, sendVars, reportVars>>

-----------------------------------------------------------------------------
(* Shutdown *)

SdGoto(pc) == sdPc' = pc

(* Mutant: Stop does not wait for the dispatcher.                          *)
StopLinkEarly ==
  /\ sdPc = "link" /\ spc[Heartbeat] = "idle" /\ fpc[Reconnect] = "idle"
  /\ link' = (IF link = "up" THEN "stopped" ELSE link) /\ SdGoto("executor")
  /\ UNCHANGED <<runPc, db, prober, ops, disp, cancelled, cbReady, execVars, sendVars, reportVars>>

(* CloudLink.Stop waits for the heartbeat, which may be in a report, for   *)
(* the dispatcher and for a reconnect under way; a handler of a lost       *)
(* connection that is still in its probe may reconnect later.  A part that *)
(* was not started is left alone, here and below.                          *)
StopLink ==
  /\ sdPc = "link" /\ spc[Heartbeat] = "idle" /\ disp \in {"off", "ended"}
  /\ fpc[Reconnect] = "idle"
  /\ link' = (IF link = "up" THEN "stopped" ELSE link) /\ SdGoto("executor")
  /\ UNCHANGED <<runPc, db, prober, ops, disp, cancelled, cbReady, execVars, sendVars, reportVars>>

(* Executor.Stop: cancel, which ends every call's context, ...             *)
StopExecutor ==
  /\ sdPc = "executor"
  /\ cancelled' = (\E w \in Workers : wpc[w] # "none") /\ P!ExpireAll /\ SdGoto("close")
  /\ UNCHANGED <<runPc, partVars, cbReady, execVars, reportVars>>

(* ... close the queues there are (one after the other, see Executor), ... *)
HasQueue(d) == cpc[d] \in {"wait", "done"} \/ \E t \in recovered \cup arrived : DeviceOf[t] = d
CloseQueues ==
  /\ sdPc = "close"
  /\ shut' = {d \in Devices : HasQueue(d)} /\ SdGoto("workers")
  /\ UNCHANGED <<runPc, partVars, cancelled, cbReady, taskVars, cpc, workVars, sendVars, reportVars>>

(* ... and wait for workers and consumers.                                 *)
WorkersStopped ==
  /\ sdPc = "workers"
  /\ \A w \in Workers : wpc[w] \in {"none", "done"}
  /\ \A d \in Devices : cpc[d] \in {"none", "done"}
  /\ SdGoto("prober")
  /\ UNCHANGED <<runPc, partVars, cancelled, cbReady, execVars, sendVars, reportVars>>

(* LoopProber.Stop cancels and waits, if the prober runs.  Closing the     *)
(* queue, next in line, changes nothing any more.                          *)
StopProber ==
  /\ sdPc = "prober"
  /\ SdGoto(IF prober = "off" THEN "ops" ELSE "proberdone")
  /\ UNCHANGED <<runPc, partVars, cancelled, cbReady, execVars, sendVars, reportVars>>

ProberStopped ==
  /\ sdPc = "proberdone" /\ prober = "ended"
  /\ SdGoto("ops")
  /\ UNCHANGED <<runPc, partVars, cancelled, cbReady, execVars, sendVars, reportVars>>

(* Server.Stop gives open requests five seconds.                           *)
StopOps ==
  /\ sdPc = "ops"
  /\ ops' = "stopped" /\ SdGoto("db")
  /\ UNCHANGED <<runPc, db, link, prober, disp, cancelled, cbReady, execVars, sendVars, reportVars>>

CloseDb ==
  /\ sdPc = "db"
  /\ db' = "closed" /\ SdGoto("done")
  /\ UNCHANGED <<runPc, link, prober, ops, disp, cancelled, cbReady, execVars, sendVars, reportVars>>

ShutdownComplete ==
  /\ runPc = "shutdown" /\ sdPc = "done"
  /\ runPc' = "exited"
  /\ UNCHANGED <<sdPc, partVars, cancelled, cbReady, execVars, sendVars, reportVars>>

(* The ten seconds are over: the process ends whatever still runs.         *)
ShutdownTimeout ==
  /\ runPc = "shutdown"
  /\ runPc' = "exited"
  /\ UNCHANGED <<sdPc, partVars, cancelled, cbReady, execVars, sendVars, reportVars>>

-----------------------------------------------------------------------------
(* The prober's loop, in a probe or between two, sees that its context is  *)
(* done; a probe under way ends with its dials.                            *)
ProberEnds ==
  /\ prober = "on" /\ sdPc = "proberdone"
  /\ prober' = "ended"
  /\ UNCHANGED <<runPc, sdPc, db, link, ops, disp, cancelled, cbReady, execVars, sendVars, reportVars>>

-----------------------------------------------------------------------------
(* The cloud and the reporter *)

(* The dispatcher's loop.  A task is queued, for anybody to see, and then  *)
(* stored; a cancelled one leaves the queue and then the database.         *)
TaskArrives(t) ==
  /\ disp = "read" /\ t \notin recovered \cup arrived
  /\ arrived' = arrived \cup {t} /\ todo' = todo \cup {t} /\ disp' = "store"
  /\ UNCHANGED <<runPc, sdPc, db, link, prober, ops, cancelled, cbReady, recovered, ready,
                 consVars, workVars, sendVars, reportVars>>

TaskCancelled(t) ==
  /\ disp = "read" /\ t \in todo
  /\ todo' = todo \ {t} /\ disp' = "store"
  /\ UNCHANGED <<runPc, sdPc, db, link, prober, ops, cancelled, cbReady, recovered, arrived, ready,
                 consVars, workVars, sendVars, reportVars>>

(* A domain update hands the reporter a new connection.                    *)
DomainUpdated ==
  /\ disp = "read"
  /\ R!UpdateConn(Main) /\ disp' = "switch"
  /\ UNCHANGED <<runPc, sdPc, db, link, prober, ops, cancelled, cbReady, execVars, sendVars>>

MessageHandled ==
  /\ disp = "store" \/ (disp = "switch" /\ fpc[Main] = "idle")
  /\ disp' = "read"
  /\ UNCHANGED <<runPc, sdPc, db, link, prober, ops, cancelled, cbReady, execVars,
                 sendVars, reportVars>>

(* Its read fails, or its context ends with Stop; nothing starts it again. *)
DispatcherEnds ==
  /\ disp = "read" /\ disp' = "ended"
  /\ UNCHANGED <<runPc, sdPc, db, link, prober, ops, cancelled, cbReady, execVars,
                 sendVars, reportVars>>

(* After a heartbeat the status of each device is reported.                *)
HeartbeatReports(m) ==
  /\ link = "up"
  /\ R!Send(Heartbeat, m)
  /\ UNCHANGED <<runPc, sdPc, partVars, cancelled, cbReady, execVars, sendVars>>

(* The reconnect goroutine, also a late one after Stop.                    *)
ReconnectUpdates ==
  /\ link \in {"up", "stopped"}
  /\ R!UpdateConn(Reconnect)
  /\ UNCHANGED <<runPc, sdPc, partVars, cancelled, cbReady, execVars, sendVars>>

Reporting(s) ==
  /\ R!SenderStep(s)
  /\ UNCHANGED <<runPc, sdPc, partVars, cancelled, cbReady, execVars, sendVars>>

Flushing(f) ==
  /\ R!FlusherStep(f)
  /\ UNCHANGED <<runPc, sdPc, partVars, cancelled, cbReady, execVars, sendVars>>

-----------------------------------------------------------------------------
(* Device consumers *)

ConsumerGoto(d, pc) == cpc' = [cpc EXCEPT ![d] = pc]

(* The loop's test of the context; then Dequeue, with a new queue if there *)
(* is none yet.                                                            *)
ConsumerChecks(d) ==
  /\ cpc[d] = "check"
  /\ ConsumerGoto(d, IF cancelled THEN "done" ELSE "create")
  /\ UNCHANGED <<runPc, sdPc, partVars, cancelled, cbReady, taskVars, shut, workVars,
                 sendVars, reportVars>>

ConsumerDequeues(d) ==
  /\ cpc[d] = "create"
  /\ ConsumerGoto(d, "wait")
  /\ UNCHANGED <<runPc, sdPc, partVars, cancelled, cbReady, taskVars, shut, workVars,
                 sendVars, reportVars>>

(* A task goes into the channel, if that has room, and the loop comes back *)
(* to its queue, which exists now; or the context is done and the task is  *)
(* dropped.                                                                *)
ConsumerHands(d, t) ==
  /\ cpc[d] = "wait" /\ d \notin shut /\ t \in todo /\ DeviceOf[t] = d
  /\ todo' = todo \ {t}
  /\ \/ /\ Cardinality(ready) < Cardinality(Workers)
        /\ ready' = ready \cup {t} /\ UNCHANGED cpc
     \/ cancelled /\ ConsumerGoto(d, "done") /\ UNCHANGED ready
  /\ UNCHANGED <<runPc, sdPc, partVars, cancelled, cbReady, recovered, arrived, shut, workVars,
                 sendVars, reportVars>>

(* Dequeue returns from a closed queue.                                    *)
ConsumerEnds(d) ==
  /\ cpc[d] = "wait" /\ d \in shut
  /\ ConsumerGoto(d, "done")
  /\ UNCHANGED <<runPc, sdPc, partVars, cancelled, cbReady, taskVars, shut, workVars,
                 sendVars, reportVars>>

-----------------------------------------------------------------------------
(* Workers *)

WorkerGoto(w, pc) == wpc' = [wpc EXCEPT ![w] = pc]
Idle(w) ==
  /\ WorkerGoto(w, "idle") /\ wtask' = [wtask EXCEPT ![w] = NoTask]
  /\ wretry' = [wretry EXCEPT ![w] = 0] /\ wres' = [wres EXCEPT ![w] = 0]
(* fireTaskResult: with the callback, ReportTaskResult on this goroutine.  *)
Fire(w, pc) ==
  /\ WorkerGoto(w, pc) /\ UNCHANGED wtask
  /\ \/ /\ cbReady
        /\ wres' = [wres EXCEPT ![w] = @ + 1] /\ R!Send(w, <<wtask[w], wres'[w]>>)
        /\ UNCHANGED early
     \/ /\ ~cbReady
        /\ early' = early \cup {wtask[w]}
        /\ UNCHANGED <<wres, reportVars>>

(* executeTaskLoop after an error: with the context cancelled the task is  *)
(* dropped; else handleRetry, which waits or, at the last retry, reports.  *)
HandleRetry(w) ==
  \/ cancelled /\ Idle(w) /\ UNCHANGED <<early, reportVars>>
  \/ /\ ~cancelled /\ wretry' = [wretry EXCEPT ![w] = @ + 1]
     /\ \/ /\ wretry[w] < MaxRetry /\ WorkerGoto(w, "delay")
           /\ UNCHANGED <<wtask, wres, early, reportVars>>
        \/ wretry[w] >= MaxRetry /\ Fire(w, "report")

WorkerTakes(w, t) ==
  /\ wpc[w] = "idle" /\ t \in ready
  /\ ready' = ready \ {t} /\ wtask' = [wtask EXCEPT ![w] = t] /\ WorkerGoto(w, "try")
  /\ UNCHANGED <<runPc, sdPc, partVars, cancelled, cbReady, recovered, arrived, todo, consVars,
                 wretry, wres, early, sendVars, reportVars>>

(* executeTask: the device is offline and the loop waits ten seconds, ...  *)
DeviceOffline(w) ==
  /\ wpc[w] = "try" /\ ~cancelled
  /\ WorkerGoto(w, "delay")
  /\ UNCHANGED <<runPc, sdPc, partVars, cancelled, cbReady, taskVars, consVars,
                 wtask, wretry, wres, early, sendVars, reportVars>>

(* ... the device or its adapter is unknown, which is reported as FAILED   *)
(* before the retry is decided, ...                                        *)
LookupFails(w) ==
  /\ wpc[w] = "try" /\ ~cancelled
  /\ Fire(w, "refused")
  /\ UNCHANGED <<runPc, sdPc, partVars, cancelled, cbReady, taskVars, consVars, wretry, sendVars>>

(* ... the document cannot be read, ...                                    *)
DataUnreadable(w) ==
  /\ wpc[w] = "try" /\ ~cancelled
  /\ HandleRetry(w)
  /\ UNCHANGED <<runPc, sdPc, partVars, cancelled, cbReady, taskVars, consVars, sendVars>>

(* ... or the adapter is called.                                           *)
WorkerSends(w) ==
  /\ wpc[w] = "try" /\ ~cancelled
  /\ WorkerGoto(w, "send") /\ \E p \in Protocols : P!SendBegin(w, p)
  /\ UNCHANGED <<runPc, sdPc, partVars, cancelled, cbReady, taskVars, consVars,
                 wtask, wretry, wres, early, reportVars>>

(* The test at the head of executeTaskLoop.                                *)
LoopCancelled(w) ==
  /\ wpc[w] = "try" /\ cancelled
  /\ Idle(w)
  /\ UNCHANGED <<runPc, sdPc, partVars, cancelled, cbReady, taskVars, consVars, early,
                 sendVars, reportVars>>

Sending(w) ==
  /\ P!SendStep(w)
  /\ UNCHANGED <<runPc, sdPc, partVars, cancelled, cbReady, execVars, reportVars>>

WorkerSucceeds(w) ==
  /\ wpc[w] = "send" /\ outcome[w] = "ok"
  /\ P!SendEnd(w) /\ Fire(w, "report")
  /\ UNCHANGED <<runPc, sdPc, partVars, cancelled, cbReady, taskVars, consVars, wretry>>

WorkerFails(w) ==
  /\ wpc[w] = "send" /\ outcome[w] = "error"
  /\ P!SendEnd(w) /\ HandleRetry(w)
  /\ UNCHANGED <<runPc, sdPc, partVars, cancelled, cbReady, taskVars, consVars>>

(* The report of a failed lookup is done.                                  *)
LookupReported(w) ==
  /\ wpc[w] = "refused" /\ spc[w] = "idle"
  /\ HandleRetry(w)
  /\ UNCHANGED <<runPc, sdPc, partVars, cancelled, cbReady, taskVars, consVars, sendVars>>

(* A timer or the context ends the wait.                                   *)
DelayOver(w) ==
  /\ wpc[w] = "delay"
  /\ WorkerGoto(w, "try")
  /\ UNCHANGED <<runPc, sdPc, partVars, cancelled, cbReady, taskVars, consVars,
                 wtask, wretry, wres, early, sendVars, reportVars>>

WorkerReported(w) ==
  /\ wpc[w] = "report" /\ spc[w] = "idle"
  /\ Idle(w)
  /\ UNCHANGED <<runPc, sdPc, partVars, cancelled, cbReady, taskVars, consVars, early,
                 sendVars, reportVars>>

(* Mutant: a worker stops when nothing is waiting.                         *)
WorkerDrains(w) ==
  /\ wpc[w] = "idle" /\ cancelled /\ todo \cup ready = {}
  /\ WorkerGoto(w, "done")
  /\ UNCHANGED <<runPc, sdPc, partVars, cancelled, cbReady, taskVars, consVars,
                 wtask, wretry, wres, early, sendVars, reportVars>>

WorkerExits(w) ==
  /\ wpc[w] = "idle" /\ cancelled
  /\ WorkerGoto(w, "done")
  /\ UNCHANGED <<runPc, sdPc, partVars, cancelled, cbReady, taskVars, consVars,
                 wtask, wretry, wres, early, sendVars, reportVars>>

-----------------------------------------------------------------------------
StartUp ==
  \/ Load \/ InitStorage \/ Recover \/ Credential \/ StartProber \/ StartExecutor
  \/ OnTaskResult \/ LinkConnects \/ LinkStarted \/ LinkFails \/ StartOps
ShutdownStep ==
  \/ StopLink \/ StopExecutor \/ CloseQueues \/ WorkersStopped \/ StopProber \/ ProberStopped
  \/ StopOps \/ CloseDb \/ ShutdownComplete
DispatcherStep ==
  \/ DomainUpdated \/ MessageHandled \/ DispatcherEnds
  \/ \E t \in Tasks : TaskArrives(t) \/ TaskCancelled(t)
ConsumerStep(d) ==
  \/ ConsumerChecks(d) \/ ConsumerDequeues(d) \/ ConsumerEnds(d)
  \/ \E t \in Tasks : ConsumerHands(d, t)
TaskTried(w) == DeviceOffline(w) \/ LookupFails(w) \/ DataUnreadable(w) \/ WorkerSends(w)
WorkerStep(w) ==
  \/ TaskTried(w) \/ LoopCancelled(w) \/ WorkerSucceeds(w) \/ WorkerFails(w)
  \/ LookupReported(w) \/ DelayOver(w) \/ WorkerReported(w) \/ WorkerExits(w)
Running == runPc # "exited"

Next ==
  /\ Running
  /\ \/ StartUp \/ Signal \/ ShutdownStep \/ ShutdownTimeout
     \/ ProberEnds \/ DispatcherStep
     \/ \E m \in Beats : HeartbeatReports(m)
     \/ ReconnectUpdates
     \/ \E s \in Senders : Reporting(s)
     \/ \E f \in Flushers : Flushing(f)
     \/ \E d \in Devices : ConsumerStep(d)
     \/ \E w \in Workers : Sending(w) \/ WorkerStep(w) \/ \E t \in Tasks : WorkerTakes(w, t)

Spec == Init /\ [][Next]_vars

(* What ends by itself: goroutines run, timers fire, writes to the cloud   *)
(* and calls under a context have a limit.  Nothing is assumed of an LPR   *)
(* printer, of the dispatcher, of signals, or that the ten seconds of      *)
(* Shutdown run out.                                                       *)
SendEnds(w) ==
  /\ P!Bounded(w)
  /\ UNCHANGED <<runPc, sdPc, partVars, cancelled, cbReady, execVars, reportVars>>
Fairness ==
  /\ WF_vars(Running /\ (ShutdownStep \/ ProberEnds))
  /\ \A d \in Devices : WF_vars(Running /\ ConsumerStep(d))
  /\ \A w \in Workers : WF_vars(Running /\ (WorkerStep(w) \/ SendEnds(w) \/ Reporting(w)))

FairSpec == Spec /\ Fairness

-----------------------------------------------------------------------------
RunPcs == {"load", "storage", "recover", "credential", "prober", "executor", "callback",
           "link", "ops", "up", "shutdown", "exited"}
SdPcs == {"none", "link", "executor", "close", "workers", "prober", "proberdone", "ops", "db", "done"}
WorkPcs == {"none", "idle", "try", "send", "refused", "delay", "report", "done"}
(* Types; a worker has a task exactly while it works on one, is in Send    *)
(* only then, and in the reporter only with its own result, of which there *)
(* are no more than retries and two; the reporter's buffer stays within    *)
(* its bound.                                                              *)
PartTypes ==
  /\ runPc \in RunPcs /\ sdPc \in SdPcs
  /\ db \in {"none", "open", "closed"} /\ ops \in {"off", "up", "stopped"}
  /\ link \in {"off", "connecting", "failed", "up", "stopped"}
  /\ prober \in {"off", "on", "ended"}
  /\ disp \in {"off", "read", "store", "switch", "ended"}
  /\ cpc \in [Devices -> {"none", "check", "create", "wait", "done"}] /\ shut \subseteq Devices
FlagTypes == cancelled \in BOOLEAN /\ cbReady \in BOOLEAN
WorkTypes ==
  /\ recovered \subseteq Tasks /\ arrived \subseteq Tasks /\ early \subseteq Tasks
  /\ todo \subseteq Tasks /\ ready \subseteq Tasks
  /\ wpc \in [Workers -> WorkPcs] /\ wtask \in [Workers -> Tasks \cup {NoTask}]
  /\ wretry \in [Workers -> 0 .. MaxRetry + 1] /\ wres \in [Workers -> 0 .. MaxRetry + 2]
  /\ \A w \in Workers :
       /\ wtask[w] # NoTask <=> wpc[w] \in {"try", "send", "refused", "delay", "report"}
       /\ at[w] # "off" <=> wpc[w] = "send"
       /\ smsg[w] # NoTask => /\ wpc[w] \in {"refused", "report"}
                              /\ smsg[w] = <<wtask[w], wres[w]>>
TypeOK == PartTypes /\ FlagTypes /\ WorkTypes /\ P!TypeOK /\ R!TypeOK

(* The database closes last: when it does, the dispatcher, which stores    *)
(* and deletes records, has ended, every task handed out is done with,     *)
(* nobody is in an adapter or in the reporter on behalf of a worker or the *)
(* heartbeat, and no probe is under way.                                   *)
DbClosedLast ==
  db = "closed" =>
    /\ disp \in {"off", "ended"} /\ link # "up" /\ ops # "up" /\ prober \in {"off", "ended"}
    /\ \A d \in Devices : cpc[d] \in {"none", "done"}
    /\ \A w \in Workers : wpc[w] \in {"none", "done"} /\ at[w] = "off"
    /\ \A s \in Senders : spc[s] = "idle"

(* Workers run before the callback is registered, so a result can go       *)
(* unheard, but only that of a task left behind by an earlier run.         *)
UnheardIsRecovered == early \subseteq recovered

(* Of Reporter, with workers, heartbeat, Start, domain updates and         *)
(* reconnects as its callers: no message is written twice, and none is     *)
(* forgotten.                                                              *)
WrittenOnce == R!WrittenOnce
NoneForgotten == [][\A m \in Msgs : R!Reported(m) => R!Reported(m)']_reportVars

(* Of Protocol: Send returns when its context ends, but for LPR, or the    *)
(* process ends.                                                           *)
SendReturns ==
  \A w \in Workers : w \in expired ~> (at[w] \in {"off", "back", "lpr"} \/ ~Running)

(* A consumer that has, or will have, a queue Close did not list: nothing  *)
(* will ever close it.                                                     *)
Missed ==
  sdPc = "workers" /\ \E d \in Devices : cpc[d] \in {"create", "wait"} /\ d \notin shut

(* Once CloudLink.Stop has returned, the rest of Shutdown completes and    *)
(* does not need its ten seconds, whatever the workers, consumers and the  *)
(* prober were doing, unless a printer leaves an LPR exchange open for     *)
(* good or a consumer is left for good in a queue that Close did not see.  *)
Held == Missed \/ \E w \in Workers : at[w] = "lpr"
ShutdownCompletes == []<>~Held => (sdPc = "executor" ~> ~Running)
=============================================================================
