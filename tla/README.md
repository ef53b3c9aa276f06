# Cloud Print Agent: a TLA+ verification project

The agent runs beside the printers of a factory. It keeps a WSS connection to
the cloud, stores the print tasks it receives, sends them to printers and
reports the results. This directory holds TLA+ models of the concurrent and
crash-prone parts of that program, the TLC configurations that check them, and
proofs of what the runs check for all values of the constants. `PROJECT.json` maps every definition to its lines
of source and lists the runs, hazards, findings and theorems.

To check: `tlc -config X.cfg MCY` for a run, `tlapm X_proof.tla` for the proofs
about module X. The runs named below are those of `PROJECT.json`.

## The system

| component | state | operations | hard behaviour |
|---|---|---|---|
| task queue (`taskqueue/queue.go`) | one slice, mutex, cond and closed flag per device; a global closed flag | Enqueue, Dequeue, Cancel, Close | signals sent after the lock is released, record saved after the task is visible, Close against new consumers |
| task storage (`storage/task_repo.go`) | a bbolt bucket per device, keyed by sequence number | SaveTask, DeleteTask, LoadTasks | repeated ids and numbers, failing transactions |
| crash recovery (`storage/recover.go`, `taskqueue/recover.go`) | the buckets at a start | RecoverAll, Recover | crashes at any point, also during recovery |
| executor (`executor/`) | consumers, channel `taskCh`, workers, task status and retry count | Start, Stop, deviceConsumer, worker, executeTask, handleRetry | device changes, retries, cancellation and shutdown in every order |
| cloud connection (`cloudlink/cloudlink.go`, `heartbeat.go`, `reconnect.go`, `dispatcher.go`) | the connection and three copies of it, miss count, reconnect flag | Start, Stop, heartbeat, HandleDisconnect, reconnect loops, dispatcher loop, switchConn | late handlers, overlapping hand-overs, stop against everything |
| reporter (`cloudlink/reporter.go`) | connection, bounded buffer | Send, UpdateConn, flushBuffer | writes without a lock against flushes |
| domain update (`cloudlink/domain_update.go`, `config/`) | endpoint in memory, file, heartbeat and connection | UpdateDomain, SaveAtomic, rollback, Load | every step can fail, the process can end between two |
| device manager (`device/manager.go`) | the device table | Add, Update, Remove, Get, List | read by workers while the dispatcher edits it |
| health check, protocol probe, debouncer (`device/health.go`, `probe_scheduler.go`, `debounce.go`) | copies of devices, pending changes and their timers | checkDevice, ProbeAndUpdate, ApplyChange, flush | results of a dial written after the table changed, timers against changes and shutdown |
| printer protocols (`protocol/`) | one call of Send per worker | Send of RAW, LPR, IPP, CUPS | a timeout racing the end of a copy, printers that do not answer |
| network probe (`netprobe/`) | the loop, the class | Start, Stop, Probe, Classify | stop against a probe under way |
| lifecycle (`lifecycle/app.go`) | the parts | Run, Shutdown | signals and errors between two starts, parts that do not end |
| credentials, ops API, observability | | | see "What is not modelled" |

Interaction: the dispatcher goroutine calls Enqueue, Cancel, the device manager
and the domain updater; one consumer goroutine per device moves tasks from the
queue to `taskCh`; five workers take them from there; a result goes through a
callback to the reporter. The heartbeat starts conn-loss handlers, which start
reconnect goroutines, which install a connection in cloudlink, reporter,
heartbeat and dispatcher one after the other.

## Modules

| module | models | uses |
|---|---|---|
| `TaskStore` | a device's bucket: SaveTask and DeleteTask as operators | |
| `DeviceFifo` | abstract specification: a bounded FIFO per device that is shut for good | |
| `TaskQueue` | the queue with dispatcher, consumers and stopping goroutine | `TaskStore`; implements `DeviceFifo` |
| `Executor` | consumers, channel, workers, retries, Start and Stop | `DeviceFifo` as its queue |
| `Durability` | one device's tasks over crashes and recoveries | `TaskStore` |
| `Backoff` | nextDelay and the retry delay on 64-bit words | |
| `CloudLink` | connection, heartbeat, reconnect, dispatcher, domain switch, Stop | `Backoff` |
| `Reporter` | senders, flushers and the buffer | |
| `Protocol` | Send of the four print adapters under a context | |
| `Lifecycle` | Run and Shutdown, dispatcher, consumers, workers, prober | composes `Protocol` and `Reporter` |
| `Devices` | device table, health check, protocol probe, debouncer | |
| `DomainUpdate` | one endpoint in four places, failures and restarts | |

Each `MC` module names the model values of its configurations. `X_proof` holds
the theorems about module X (`Lifecycle_proof` those about `Reporter` and
`Protocol` too, in the form in which Run uses them), `SequenceLemmas` the facts
about `RemoveAt`, `Append`, `Tail` and `SubSeq` that several of them need.

**TaskQueue.** A step is one critical section, one storage transaction or one
cond operation. `dpc` is the dispatcher's place in Enqueue: `EnqueueBegin`
(validation and `closeMu`), `EnqueueGetOrCreate`, `EnqueueAppend` (under
`dq.mu`), `EnqueueSave` and `EnqueueSignal`, both after the unlock. `cpc[d]` is
the consumer of device d; `DequeueTurn` is one turn of Dequeue's loop, and a
consumer at "wait" is parked in `cond.Wait`. `CloseFlag`, `CloseSnapshot`,
`CloseDevice` and `CloseBroadcast` are Close. A delivery, not a task id, is the
unit: `TaskID` and `SeqNo` are functions of it, so one task sent twice is two
deliveries. TryDequeue is called by tests only.

**Executor.** The queue is used through `DeviceFifo`'s actions, which is what
the refinement of `TaskQueue` justifies. `wpc` is a worker's place in
executeTaskLoop, executeTask and handleRetry, and every point at which another
goroutine's change is read (device table, context) is a step of its own. A
device is what executeTask can tell about it: missing, offline, without
adapter, ready. Delays have no length. `cbReady` is the time between
`executor.Start` and `OnTaskResult` in `app.go`. Stop is the cancel, Close's
snapshot of the queues there are (`StopSnapshot`; `known` are the devices that
have one), the closing of each of them (`StopClose`) and the wait for workers
and consumers (`StopReturn`). A consumer creates its queue with its first
Dequeue (`ConsumerCreate`), perhaps after the snapshot. `Errors` are what
executeTask returns; handleRetry treats all but "offline" alike.

**Durability.** `stored` is the status inside a record. Enqueue encodes the
task after other goroutines can have it, so the saved status is any it has had
since it was appended (`had`). `Crash` stands for power loss and for a graceful
exit: Shutdown writes nothing to the buckets.

**CloudLink.** Connections are ids from a pool; one that nobody holds may be
used again. `rPc` has two slots, because Stop clears `running` while a
goroutine is still on its way and a late handler can start another. `Spawn` is
the handler's critical section and `GoroutineStarts` the goroutine's first
statement, `defer close(r.done)`, which reads the shared field without the
lock: `rDone[r]` is the channel it got, `stolen` that it got another's. A lost
heartbeat has an error without a class, so `ClassifyDisconnect` asks the
prober; `LocalClass` allows its local part to fail. Stop captures the
connection first, as the code does. `attempt` is r.attempt, counted before each
wait and cleared by a successful reconnect; `failed` is a history of the failed
dials of the goroutine that backs off.

**Backoff.** A word is the set of its bits, because TLC's integers have 32 of
them and the point is where 64 overflow. `math.Pow` beyond the range of int64
is converted as the machine likes, so `Products` has two values there.

**Reporter** and **DomainUpdate** have one action per lock section, write or
assignment between which others can act. A write succeeds or fails; a failed
SaveAtomic leaves the old file. A start loads the file, lets
CPA_CLOUD_ENDPOINT replace the endpoint (`ApplyEnvOverrides`; the value may
differ from start to start) and validates the result. `answered` are the
endpoints that answered a probe or the agent's own dial.

**Protocol.** `at[c]` is where caller c is inside Send. RAW's copying goroutine
(`copied`) and the select are separate steps, so that the timeout can win
although the copy is complete. LPR's four exchanges look at neither deadline
nor context. IPP's answer says nothing of whether the job was accepted, since
Send does not read the body. CUPS is three steps: temporary file, conversion,
`lp`. What a printer has received is not part of the state: a copy that ended
without error may be in the socket's buffer and a job that `lp` accepted in the
spooler, and the code cannot tell.

**Lifecycle.** `runPc` is Run, with its error returns, PendingConfig mode and
`cloudLink.Start` that fails; `sdPc` is the goroutine inside Shutdown. The
dispatcher (`disp`) reads, stores or deletes a record, or switches the domain,
and CloudLink.Stop waits for it. Consumers (`cpc`) move tasks from the queues
(`todo`) to the channel (`ready`); Close closes the queues there are (`shut`).
A worker tries its task, is in `Protocol`'s Send, waits or reports through
`Reporter`; a lookup that fails reports FAILED before the retry is decided, so
the results of a task are numbered (`wres`). The reporter's other callers are
the heartbeat (device status) and, with UpdateConn, Start, domain updates and
the reconnect goroutine, also one that outlives Stop. `Signal` before
WaitForSignal ends the process, as does a taken ops port. `ShutdownTimeout` may
come at any time.

**Devices.** `table` is the manager's map with address, protocol, port and
status; the health check and the probe hold copies (`hdev`, `pdev`) between
their dial and the lock. `want` is the address the cloud gave last, `by` who
wrote the protocol. `armed` counts timers that will call flush, `hand[g]` is
the report timer goroutine g is busy with between flush's unlock and its end:
reports of one device may overlap, and `raced` remembers that the last ones
did. `HealthStart` is the call of StartHealthCheck, which nothing in the
program makes and which may never come. `Rest` is the point from which nobody
changes anything, for the liveness property.

## Runs

| run | shows |
|---|---|
| `queue` | No device queue exceeds its capacity; no consumer is parked on a filled or closed queue without a Signal or Broadcast to come; a delivery is queued or handed out at most once; a queued task has its record unless storage failed or the cloud reused its keys; the queue implements `DeviceFifo`; a consumer on a filled queue gets on; Stop returns if Close's snapshot has every queue. |
| `executor_safety` | A delivery is in one place, nothing is dropped before Stop, attempts and reports are bounded, the last report is the status the task ended with, a printed task is left alone. |
| `executor_liveness` | As long as calls of Send return, every task of a started device is worked off unless devices stay offline or Stop comes. Stop returns unless a call of Send does not, or a consumer is left in a queue that came into being after Close's snapshot (`Missed`). |
| `executor_serial` | Violation, see Findings. |
| `durability_safety` | A delivery is recovered at most once in the life of the installation, a cancelled one never comes back even if its record stayed, the queue stays in the cloud's order and within capacity, no delivery is in memory twice. |
| `durability_lost` | Violation, see Findings. |
| `cloudlink_safety` | One reconnect goroutine at a time until Stop; heartbeat, dispatcher and cloudlink hold the same connection unless two hand-overs overlapped; the wait before a dial is the documented one for the failed dials of the goroutine so far, up to the 31st, whatever earlier outages left in r.attempt. |
| `cloudlink_liveness` | The agent gets online again after every outage, unless a goroutine that had waited for the local network failed its one dial; Stop returns, unless a reconnect goroutine that had not run yet took the done channel of the next. |
| `cloudlink_receives` | Violation, see Findings. |
| `lifecycle` | When the database is closed the dispatcher, which writes to it, has ended, as have consumers and workers, and nobody is in an adapter, a report or a probe; only a recovered task can end before the result callback is there; no report is written twice or forgotten, except those a full buffer pushes out, and the buffer stays within its bound; Send returns after its context ends, but for LPR; once CloudLink.Stop has returned, Shutdown completes without its ten seconds, unless an LPR printer is silent or a consumer is left in a queue that Close did not see. |
| `devices` | A check or probe under way neither brings back a removed device nor restores an old address; a pending change has a timer; the last change is the last one reported, unless the last reports of the device overlapped; if somebody has started the check, then, when all is calm, a device is ONLINE exactly if the printer at its address answers, unless the table names another port than the printer serves (`Misled`: the cloud sent it, or a probe of an old address or of a printer that was off wrote over the protocol). |
| `domain_safety` | The file names the first endpoint or one that answered, also after a rollback that saves what the environment supplied; file and memory agree between updates unless a rollback could not be saved or the environment overrode the file and nothing was saved since; the connection goes to the configured endpoint unless a reconnect ran during an update, and heartbeats name it unless a switch failed; an update acknowledged as applied is in the file; without an override only a name without a dot can make the next start fail. |

Every module has a `TypeOK`; those of `TaskQueue` and `Lifecycle`, which also
relate the places of several goroutines, are among the checked properties, and
all are proved.

For every property of a passing run `PROJECT.json` names a mutant, a changed
definition kept beside the original, under which TLC finds the property
violated. Deadlock is not checked: each system stops for good after Stop, or
when its bound on inputs is used up.

### Bounds

- `queue`: three deliveries for one device, one of them a repetition, and a
  malformed one; capacity 2, so that the queue is full, holds two tasks at once and
  has a task refused; a second device has a consumer that parks and is closed.
  What happens between two devices is only the map of queues and Close's loop,
  which two devices show; the theorems cover all sizes.
- `executor_safety`: two workers, two tasks of one device, capacity 1,
  `MaxRetry` 1 (3 in the program): a retry that succeeds, one that exhausts the
  count, a full queue and both workers on one device all occur (1,148,432
  states). Workers are symmetric. `executor_liveness` has one worker and a
  channel of one, so that two tasks fill the channel and block the consumer
  (198,508 states).
- `durability_safety`: three deliveries, capacity 2, two crashes. Two crashes
  are the least that crash a recovery; three records overflow the queue.
- `cloudlink_*`: pools of 3 connections (4 in `cloudlink_receives`), enough
  that a goroutine can hold an old one while a new one is installed and
  replaced. `MissThreshold` 2 for 3: one miss that is forgiven and one that
  is not. `MaxHandlers` 1 waiting handler, but each handler that ran makes room
  for the next. `DomainUpdates` is switched off where the liveness check needs
  a smaller graph; `cloudlink_safety` has them, and in turn no Stop
  (`MayStop`), of which its invariants say nothing. `MaxAttempts` bounds
  r.attempt: 8 in `cloudlink_safety`, so that the sequence of waits reaches its
  cap at 7 (1,361,822 states), 2 and 1 elsewhere; past the bound the counter
  stays, and the theorems have no bound.
- `lifecycle`: one worker, because workers share only the channel and the
  reporter, where the heartbeat is the second sender and where Start or the
  dispatcher and the reconnect goroutine are two flushers; one device and one
  task, which may be recovered or arrive, with `MaxRetry` 1 and so up to three
  results; each attempt chooses among all four protocols; a buffer of one
  message for four, so that it overflows; three installs, so that flushes
  overlap during and after Start (816,301 states).
- `devices`: one printer, as devices do not interact, moved between an address
  that serves RAW's port and one that serves LPR's. Messages carry CUPS, which
  names no port, and port 0 or 515, so that a device has the right port, a
  wrong one, or the check's default; the probe brings in the other protocols.
  Four events (`MaxEvents`: messages, probes, printers switched) and two timer
  goroutines (577,937 states).
- `domain_safety`: three domains, a name without a dot, an address and a URL,
  three updates; starts with and without an override, valid ones and ones that
  Load refuses (86,349 states).

### Fairness

Go runs every runnable goroutine and its mutexes do not starve a waiter: weak
fairness for the steps of an operation that has begun. Nothing is assumed of
the cloud, of the caller of Stop, of links, or of device messages.

- `TaskQueue`: no fairness for `ConsumerSend`, which waits for workers.
- `Executor`: strong fairness for `ConsumerSend`, because Go channels queue
  blocked senders. None for a call of Send (`SendStep`): LPR looks at neither
  deadline nor context after it has dialled. That calls return is a premise of
  the two liveness properties (`SendsReturn`); `SendReturns` of the `lifecycle`
  run shows it for RAW, IPP and CUPS.
- `Lifecycle`: weak fairness for Shutdown, the end of the prober, consumers,
  workers, their reports (a write has ten seconds) and for what Send does under
  its context; none for what waits for a printer, for the dispatcher, for
  signals, for reconnects or for `ShutdownTimeout`.
- `Devices`: weak fairness for the check once it was started, for a probe,
  timers and reports; none for `HealthStart`.
- `CloudLink`: strong fairness for a successful dial, which says that an outage
  ends; `Reconnects` assumes in addition that from some point on no link breaks.

## Proofs

Every invariant and every action property that a passing run checks is proved
for all values of the constants. The only assumptions are the
named `ASSUME`s of the modules, which TLC evaluates on every run: types of the
constants, positive capacities, a "none" value that is not a member, and finite
sets where a cardinality or a sorted sequence is taken (`Workers` of `Executor`,
`Tasks` of `Durability`, the messages of `Lifecycle`). The bounds on inputs
(`MaxCrashes`, `MaxUpdates`, `MaxConns`, ...) are any natural numbers there, so
the theorems hold for any number of crashes, updates or connections.

All proofs have the same shape: a type theorem; an inductive invariant `IInv` of
named parts, first checked by TLC as an invariant of the module's run; one step
per action; and the theorems that follow from `IInv`. Boolean flags have a
lemma `FlagsTyped` of their own, because the SMT backend does not treat Boolean
variables as values and Zenon does.

**TaskQueue_proof.**

- `TypeCorrect`. `TypeOK` is inductive as it stands, because it includes that
  an Enqueue in progress has a delivery and that Close has at most one
  broadcast outstanding.
- `WakeupsKept` (`NoLostWakeup`). A consumer parks only on an empty open queue,
  under the same lock as append and close; from an append until its Signal the
  dispatcher stays at "save" or "signal" for that device; from a close until
  its Broadcast the device is in `bcast`, which has one element, so that
  `CloseBroadcast` may empty it.
- `CapacityKept` (`WithinCapacity`).
- `Delivery` (`DeliveredOnce`), from `Once`: queues and `given` have only tasks
  of their device, no delivery at two indices of either or in both, all taken in,
  and the delivery in Enqueue not yet answered. The last part is what makes an
  append bring a new element.
- `Stored` (`QueuedIsStored`), from `Once` and `RecordsKept`: saving or deleting
  a record leaves alone the records with an id and a number of their own.
- `QueueImplementsFifo` (`ImplementsFifo`). Append, pop, cancel and close map
  to Put, Take, Withdraw and Shut; all else leaves `tasks`, `given` and
  `dqClosed` alone.

**Executor_proof.** `InOnePlace` counts places, which no prover here follows
through a step, so `IInv` says it by indices and holders: `OwnDevice`,
`NoCopies` (no place has a delivery twice) and `Apart` (no two places have the
same, and one that is queued was not handed out). `Progress` says for each
point of executeTask how many retries, prints and reports a task can have behind
it and its status; `Fresh` that a delivery no worker has seen has none;
`LastReport` and `Kept` what holds of one that is nowhere any more. Steps are of
two kinds: `Carry` moves deliveries between places and leaves their content
alone, `WorkStep` changes the content of the one task a worker has. From it:
`OnePlace`, `NoneDropped`, `Bounded`, `ReportStands` and, as an action property,
`PrintedStays`. `UsesFifo`: `Spec => Q!Spec`, the executor does with its queue
only what `DeviceFifo` says; with `QueueImplementsFifo` it is the other half of
putting the abstract queue in the place of the real one.

**Durability_proof.** `RecoveredOnce` is not inductive: a record must not come
back as RUNNING after it was recovered. `SettledPending` says that the record of
a recovered or cancelled delivery is PENDING for ever; `Untouched` that a queued
task still has the status its record has or will get; `SentInOrder`, with
`Delivered`, that new tasks come after recovered ones. Theorems:
`RecoveredAtMostOnce`, `CancelledForGood`, `QueueOrdered`, and `BucketKeys`: no
two records under one key, so that the order in which recovery loads a bucket
is total.

**DomainUpdate_proof.** The properties speak of the time between two updates.
`UpdateProgress`, `ConnProgress` and `HeartbeatProgress` say for each point of
UpdateDomain which of memory, file, connection and heartbeat have the target and
which the backup. The backup may come from the environment; it has answered all
the same, because an update arrives over a connection to it. Theorems: `FileHasAnswered`, `FileAgrees`,
`EndpointAgrees`, `AppliedKept`, `RefusedDotless`.

**Devices_proof.** `PendingTimed` is part of the type proof: without it Close
could count a device's timers below zero. `LastReported` needs `ChangeFollowed`:
the last change is pending, or else, if the device has not raced, in the hand of
the one goroutine that reports it, or else reported. A flush clears or sets
`raced` by whether another goroutine reports the device at that moment.
`EditsKept` is inductive with the types: a check or a probe writes only to a
device that is there, and not its address.

**CloudLink_proof.** `TypeCorrect` includes `LastKnown`: `r.done` is set while a
reconnect goroutine is about or `running` is set. `OneAtATime` (`OneReconnect`) holds
because the handler's critical section starts a goroutine only when `running` is
clear and `running` is cleared, until Stop, only by the goroutine that ends. `ConnsAgree`
speaks of states between two hand-overs only; `HandOverAgrees` adds how far each
hand-over is: a reconnect or a domain switch under way has installed its
connection in cloudlink, and in the heartbeat before it turns to the
dispatcher. Seven steps set a connection; all others are `Aside` and keep it.
From it `SameConnection`. The back-off is a matter of bits: `ShiftBits` says
which a product has, so that the sign, the comparison with 300 s (the seventh
product and 300 s differ first in bit 35) and the loss of all bits become
arithmetic on the number of the attempt. `Waits` (`BackoffHolds`) joins this
with the invariant that r.attempt is the number of failed dials of the
goroutine that backs off. Beyond its reach: `Overflow`, the 32nd delay is
negative, and `NoWait`, which TLC cannot check: no wait is positive from the
56th attempt on, however long the outage lasts. `RetriesWait`: a task's three
retries stay sound.

**Lifecycle_proof.** `IInv` joins the types with

- `NotStarted` and `Stopped`: what cannot run yet at each point of Run, and
  what has ended at each point of Shutdown. `DatabaseLast` follows; on its own
  it says nothing of the waits that come before the close.
- `Heard`: all tasks about are recovered or arrived, and none arrives before
  the callback is registered. `Unheard` follows.
- `Counted`: a worker has reported no more results than its retries allow.
- `R!WrittenOnce`, which is inductive for the reporter once a flusher that does
  not flush has nothing taken (`NothingTaken`). The proof goes by the places a
  message can be in. `MessagesOnce` and the action property `MessagesKept`
  follow.

`ImplementsReporter`: `Spec => R!Spec`, every step of `Lifecycle` is a step of
`Reporter` or leaves its variables alone; what holds of `Reporter` for any
callers holds of the agent. `ResultsInTurn`: a task is in one queue, in the
channel or with one worker, and a worker that has it has reported exactly its
first `wres` results, those of failed lookups included, each once; so the guard
by which `Reporter`'s Send takes each message once never holds a worker up.

### Only model-checked

- All liveness: `WaiterServed`, `StopTerminates`, `WorkedOff`, `Reconnects`,
  `SendReturns`, `ShutdownCompletes`, `StatusConverges`. Fairness and ENABLED
  are out of the prover's reach.
- The three violation runs.

## Findings

Three violation runs show where the program and its documents disagree:

1. `durability_lost`: README.md:112 promises that no task is lost on power
   failure. Only RUNNING and RETRYING records are recovered, tasks are stored as
   PENDING, and no later status is saved: a task waiting or running at the
   crash is normally never queued again.
2. `executor_serial`: README.md:115 promises serial execution to avoid clashes
   on a printer. Two workers can send two tasks to one printer at once.
3. `cloudlink_receives`: README.md:119 promises automatic reconnects. The
   dispatcher loop ends with its connection and is not started again; the agent
   is online and deaf.

Others are exceptions that a property of a passing run names:

- `Reconnects` (`gaveUp`): after a failure that the probe classifies as local
  (the local part fails while the name still resolves, by a resolver on the LAN
  or because the link came back between the two) the goroutine waits, then
  dials once; if that fails it returns with `running` set, every later handler
  returns at once, and the agent stays offline.
- `BackoffHolds` (`LastSound`): README.md:113 and the constant name 300 s as the
  limit. The 32nd product of an outage is negative (`Overflow`) and from the
  56th attempt on none is positive (`NoWait`), so the agent dials without a
  pause.
- `StopTerminates` (`stolen`): the unlocked read of `r.done`.
- `SendReturns`, `ShutdownCompletes`: README.md:114 gives a send sixty seconds,
  LPR takes as long as the printer likes.
- `StopTerminates` and `ShutdownCompletes` (`Missed`): Close closes the queues
  it has listed; a consumer that is on its way to its first Dequeue creates
  another and parks in it, and Executor.Stop waits for it.
- `LastChangeReported` (`raced`): two reports of a device can be under way at
  the same time, and the older one can be the last that the cloud hears.
- `StatusConverges` (`Misled`): a probe overwrites the protocol the cloud sent,
  also with what it found at an address the device has left, and a device
  without a port of its own is then dialled at the wrong one.
- `FileFollowsConfig` (`overridden`): CPA_CLOUD_ENDPOINT wins at every start
  over the file, an applied update included, and a later rollback writes it
  into the file.
- `EndpointFollowsConfig` (`hbStale`): after a failed switch heartbeats name
  the endpoint that was not reached.
- handleRetry retries errors that `errs.go` calls terminal and moves FAILED
  tasks, which `domain.go` calls final, to RETRYING; `AttemptsBounded` and
  `LastReportStands` hold in spite of it.
- isValidDomain accepts a name without a dot that config.Validate refuses at
  the next start; `RefusedIsDotless` shows that this is the only way an update
  can have that effect.

README.md:127-129 describes health checks, protocol detection and status
reports; the components exist (`Devices`) and Run constructs none of them.

## What is not modelled

- Credentials, observability and the handlers of the ops API: I/O, encoding
  and reads without control state of their own. That credentials load or not,
  and that the ops server starts or not, is in `Lifecycle`.
- Task files (`persist.go`), the config migrator and the adapters' Probe
  functions: no code of the program calls them.
- What the three dials of the network probe find is a choice; nothing
  registers with its OnClassChange.
- The bytes of the printer protocols, what printers and spoolers do with them,
  and lengths of time other than in `Backoff`. IPP counts as printed what the
  printer refused in the body of its answer, and a document of which a complete
  copy lost the race against the timeout is sent again.
- bbolt's atomicity and durability, and the WebSocket library, are taken as
  they are used: a transaction is atomic, a read or write fails on a closed
  connection.
- Simplifications: `Reporter` leaves out the branch of flushBuffer for a nil
  connection, which UpdateConn is never given; `CloudLink` does not follow the
  panic of a channel closed twice; the cloud
  connection of `Lifecycle` breaks only in the form of failing writes and of a
  dispatcher that ends.

## Plan

Done: a model of every component of the table above that keeps control state,
and proofs of all invariants and action properties that the runs check. Still
to be done:

1. Theorems that say more than the runs: for `Executor`, that deliveries of one
   device reach the channel in queue order; for `Reporter`, that messages of
   one flush are written in order (the hazard at `reporter.go:106` says what is
   not in order).
2. `Durability` as a refinement of an abstract store that says which
   deliveries an agent may forget at a crash.
