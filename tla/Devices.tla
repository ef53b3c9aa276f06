------------------------------- MODULE Devices -------------------------------
(***************************************************************************)
(* internal/device: the table of printers, edited by messages of the cloud *)
(* while the health check and the protocol probe dial printers without its *)
(* lock and write their findings into it afterwards; and the debouncer     *)
(* that reports status changes after a window of thirty seconds, a timer   *)
(* goroutine per change.                                                   *)
(*                                                                         *)
(* The program edits and reads the table, but instantiates neither the     *)
(* HealthChecker nor the ProbeScheduler nor the Debouncer.  They are       *)
(* composed here as their interfaces allow: the checker's callback is the  *)
(* debouncer's ApplyChange.                                                *)
(***************************************************************************)
EXTENDS Naturals, FiniteSets

CONSTANTS
  Devices, Addrs,
  Port,          \* the port that the printer at an address serves
  SentProtos, SentPorts, SentStatuses,     \* what device messages carry
  Timers,        \* timer goroutines, a bound on the reports under way
  MaxEvents,     \* bound on messages, probes and changes of up
  None

Protos == {"RAW", "LPR", "IPP", "CUPS", "UNKNOWN"}
Statuses == {"ONLINE", "OFFLINE", "PROBE_FAILED"}

(* An entry of the table, and the copies the check and the probe work on.  *)
Records == [addr : Addrs, proto : Protos, port : Nat, status : Statuses \cup {""}]
Copies == [id : Devices, addr : Addrs, proto : Protos, port : Nat]
ProbeCopies == [id : Devices, addr : Addrs]
Changes == [id : Devices, status : Statuses]

ASSUME DevicesAssumption ==
  /\ Port \in [Addrs -> Nat]
  /\ SentProtos \subseteq Protos /\ SentPorts \subseteq Nat
  /\ SentStatuses \subseteq Statuses \cup {""}
  /\ None \notin Addrs \cup Statuses
  /\ None \notin Records /\ None \notin Copies /\ None \notin ProbeCopies
  /\ None \notin Changes /\ MaxEvents \in Nat

VARIABLES
  table,         \* m.devices: address, protocol, port and status, or None
  want,          \* history: the address the messages gave a device, or None
  by,            \* history: who wrote the protocol: cloud, probe, or a probe
                 \* that found nothing or looked at another address ("lost")
  up,            \* addresses at which a printer answers
  events,        \* how many messages, probes and changes of up there were
  hpc, hlist,    \* the health check and the copies it still has to check
  hdev, hnew,    \* the copy in hand and what the dial found
  ppc, pdev,     \* the protocol probe and its copy of a device
  pend, armed,   \* d.pending and the timers that will call flush
  hand,          \* timer goroutines: the report each is busy with
  applied, reported,     \* history: last change applied, last one reported
  raced,         \* history: devices whose last reports overlapped
  closing        \* the context is done

tableVars == <<table, want, by>>
healthVars == <<hpc, hlist, hdev, hnew>>
probeVars == <<ppc, pdev>>
bounceVars == <<pend, armed, hand, applied, reported, raced>>
vars == <<tableVars, up, events, healthVars, probeVars, bounceVars, closing>>

Init ==
  /\ table = [d \in Devices |-> None] /\ want = table /\ by = [d \in Devices |-> "cloud"]
  /\ up \in SUBSET Addrs /\ events = 0
  /\ hpc = "off" /\ hlist = {} /\ hdev = None /\ hnew = None
  /\ ppc = "idle" /\ pdev = None
  /\ pend = [d \in Devices |-> None] /\ armed = [d \in Devices |-> 0]
  /\ hand = [g \in Timers |-> None]
  /\ applied = [d \in Devices |-> None] /\ reported = [d \in Devices |-> None]
  /\ raced = {} /\ closing = FALSE

-----------------------------------------------------------------------------
(* Messages of the cloud; the empty status is written "" *)

(* From some point on no messages come, nobody probes, and printers stay   *)
(* as they are.                                                            *)
Calm == events = MaxEvents
Event == ~Calm /\ events' = events + 1

Present(d) == table[d] # None
Set(d, rec) == table' = [table EXCEPT ![d] = rec]
Want(d, a) == want' = [want EXCEPT ![d] = a] /\ by' = [by EXCEPT ![d] = "cloud"]

Add(d, a, p, n, s) ==
  /\ Event /\ ~Present(d)
  /\ Set(d, [addr |-> a, proto |-> p, port |-> n, status |-> IF s = "" THEN "OFFLINE" ELSE s])
  /\ Want(d, a)
  /\ UNCHANGED <<up, healthVars, probeVars, bounceVars, closing>>

(* Update takes the message as it is, an empty status too.                 *)
Update(d, a, p, n, s) ==
  /\ Event /\ Present(d)
  /\ Set(d, [addr |-> a, proto |-> p, port |-> n, status |-> s])
  /\ Want(d, a)
  /\ UNCHANGED <<up, healthVars, probeVars, bounceVars, closing>>

Remove(d) ==
  /\ Event /\ Present(d)
  /\ Set(d, None) /\ Want(d, None)
  /\ UNCHANGED <<up, healthVars, probeVars, bounceVars, closing>>

(* Printers are switched on and off; at some point all this may rest.      *)
Switch(a) ==
  /\ Event
  /\ up' = IF a \in up THEN up \ {a} ELSE up \cup {a}
  /\ UNCHANGED <<tableVars, healthVars, probeVars, bounceVars, closing>>

Rest ==
  /\ ~Calm /\ events' = MaxEvents
  /\ UNCHANGED <<tableVars, up, healthVars, probeVars, bounceVars, closing>>

-----------------------------------------------------------------------------
(* Debouncer *)

(* Mutant: a second change stops the timer and does not start it again.    *)
ApplyStopsTimer(d, s) ==
  /\ pend' = [pend EXCEPT ![d] = s]
  /\ armed' = [armed EXCEPT ![d] = IF pend[d] = None THEN @ + 1 ELSE @ - 1]
  /\ applied' = [applied EXCEPT ![d] = s]
  /\ UNCHANGED <<hand, reported, raced>>

(* A first change starts a timer, later ones only replace the status.      *)
ApplyChange(d, s) ==
  /\ pend' = [pend EXCEPT ![d] = s]
  /\ armed' = [armed EXCEPT ![d] = IF pend[d] = None THEN @ + 1 ELSE @]
  /\ applied' = [applied EXCEPT ![d] = s]
  /\ UNCHANGED <<hand, reported, raced>>

(* A timer fires: flush takes the entry under the lock, if there is one,   *)
(* and reports it outside, perhaps next to an earlier report of the device *)
(* that is still under way.  One that is alone sets right what such a race *)
(* left behind.                                                            *)
InHand(d) == \E g \in Timers : hand[g] # None /\ hand[g].id = d
Race(ds) == raced' = (raced \ ds) \cup {d \in ds : InHand(d)}
FlushStart(d) == armed[d] > 0 /\ armed' = [armed EXCEPT ![d] = @ - 1]

FlushNothing(d) ==
  /\ FlushStart(d) /\ pend[d] = None
  /\ UNCHANGED <<tableVars, up, events, healthVars, probeVars, pend, hand, applied, reported,
                 raced, closing>>

Flush(d, g) ==
  /\ FlushStart(d) /\ pend[d] # None /\ hand[g] = None
  /\ hand' = [hand EXCEPT ![g] = [id |-> d, status |-> pend[d]]]
  /\ pend' = [pend EXCEPT ![d] = None]
  /\ Race({d})
  /\ UNCHANGED <<tableVars, up, events, healthVars, probeVars, applied, reported, closing>>

(* Mutant: the entry is deleted after its report, not before.              *)
ReportDeletes(g) ==
  /\ hand[g] # None
  /\ reported' = [reported EXCEPT ![hand[g].id] = hand[g].status]
  /\ hand' = [hand EXCEPT ![g] = None]
  /\ pend' = [pend EXCEPT ![hand[g].id] = None]
  /\ UNCHANGED <<tableVars, up, events, healthVars, probeVars, armed, applied,
                 raced, closing>>

Report(g) ==
  /\ hand[g] # None
  /\ reported' = [reported EXCEPT ![hand[g].id] = hand[g].status]
  /\ hand' = [hand EXCEPT ![g] = None]
  /\ UNCHANGED <<tableVars, up, events, healthVars, probeVars, pend, armed, applied,
                 raced, closing>>

(* The context is done: Start's goroutine reports what is pending under    *)
(* the lock.  It is too late to stop a timer that has fired already.       *)
Close ==
  LET due == {d \in Devices : pend[d] # None} IN
  /\ ~closing /\ closing' = TRUE
  /\ reported' = [d \in Devices |-> IF d \in due THEN pend[d] ELSE reported[d]]
  /\ pend' = [d \in Devices |-> None]
  /\ \E late \in SUBSET due :
       armed' = [d \in Devices |-> IF d \in due \ late THEN armed[d] - 1 ELSE armed[d]]
  /\ Race(due)
  /\ UNCHANGED <<tableVars, up, events, healthVars, probeVars, hand, applied>>

-----------------------------------------------------------------------------
(* HealthChecker *)

(* The port of a device, 0 if neither it nor the protocol names one, and   *)
(* the port a check dials.                                                 *)
ProtoPort(p) ==
  CASE p = "RAW" -> 9100 [] p = "LPR" -> 515 [] p = "IPP" -> 631 [] OTHER -> 0
DefaultPort(rec) == IF rec.port > 0 THEN rec.port ELSE ProtoPort(rec.proto)
DialPort(rec) == IF DefaultPort(rec) <= 0 THEN 9100 ELSE DefaultPort(rec)
Found(rec) ==
  IF rec.addr \in up /\ Port[rec.addr] = DialPort(rec) THEN "ONLINE" ELSE "OFFLINE"
Copy(d) == [id |-> d, addr |-> table[d].addr, proto |-> table[d].proto, port |-> table[d].port]

(* StartHealthCheck, which nothing in the program calls.                   *)
HealthStart ==
  /\ hpc = "off" /\ hpc' = "wait"
  /\ UNCHANGED <<tableVars, up, events, hlist, hdev, hnew, probeVars, bounceVars, closing>>

HealthTick ==
  /\ hpc = "wait" /\ ~closing
  /\ hlist' = {Copy(d) : d \in {c \in Devices : Present(c)}}
  /\ hpc' = "next"
  /\ UNCHANGED <<tableVars, up, events, hdev, hnew, probeVars, bounceVars, closing>>

HealthEnds ==
  /\ hpc \in {"wait", "next"} /\ closing
  /\ hpc' = "ended" /\ hlist' = {}
  /\ UNCHANGED <<tableVars, up, events, hdev, hnew, probeVars, bounceVars, closing>>

(* checkDevice dials the copy's address; a cancelled dial fails ...        *)
CheckDials(rec) ==
  /\ hpc = "next" /\ rec \in hlist
  /\ hdev' = rec /\ hlist' = hlist \ {rec}
  /\ hnew' \in {Found(rec)} \cup (IF closing THEN {"OFFLINE"} ELSE {})
  /\ hpc' = "dialled"
  /\ UNCHANGED <<tableVars, up, events, probeVars, bounceVars, closing>>

(* Mutant: the list is worked off once.                                    *)
RoundOnce ==
  /\ hpc = "next" /\ hlist = {}
  /\ hpc' = "ended"
  /\ UNCHANGED <<tableVars, up, events, hlist, hdev, hnew, probeVars, bounceVars, closing>>

RoundEnds ==
  /\ hpc = "next" /\ hlist = {}
  /\ hpc' = "wait"
  /\ UNCHANGED <<tableVars, up, events, hlist, hdev, hnew, probeVars, bounceVars, closing>>

CheckForgets == hdev' = None /\ hnew' = None

(* ... and the result goes into the table, if the device is still there    *)
(* and its status another ...                                              *)
CheckUnchanged ==
  /\ hpc = "dialled"
  /\ Present(hdev.id) => table[hdev.id].status = hnew
  /\ hpc' = "next" /\ CheckForgets
  /\ UNCHANGED <<tableVars, up, events, hlist, probeVars, bounceVars, closing>>

(* Mutant: the copy is written back.                                       *)
CheckWritesCopy ==
  /\ hpc = "dialled"
  /\ Present(hdev.id) => table[hdev.id].status # hnew
  /\ Set(hdev.id, [addr |-> hdev.addr, proto |-> hdev.proto, port |-> hdev.port, status |-> hnew])
  /\ hpc' = "fire"
  /\ UNCHANGED <<want, by, up, events, hlist, hdev, hnew, probeVars, bounceVars, closing>>

CheckChanges ==
  /\ hpc = "dialled" /\ Present(hdev.id) /\ table[hdev.id].status # hnew
  /\ table' = [table EXCEPT ![hdev.id].status = hnew]
  /\ hpc' = "fire"
  /\ UNCHANGED <<want, by, up, events, hlist, hdev, hnew, probeVars, bounceVars, closing>>

(* ... and outside the lock to the callback.                               *)
FireStatusChange ==
  /\ hpc = "fire"
  /\ ApplyChange(hdev.id, hnew)
  /\ hpc' = "next" /\ CheckForgets
  /\ UNCHANGED <<tableVars, up, events, hlist, probeVars, closing>>

-----------------------------------------------------------------------------
(* ProbeScheduler: ProbeAndUpdate of one device at a time *)

ProbeBegin(d) ==
  /\ Event /\ ppc = "idle" /\ Present(d)
  /\ pdev' = [id |-> d, addr |-> table[d].addr] /\ ppc' = "probe"
  /\ UNCHANGED <<tableVars, up, healthVars, bounceVars, closing>>

(* ProbeProtocol tries the ports in turn; cancelled, it is an error with   *)
(* the same outcome as no port.  applyProbeResult writes what it found     *)
(* over what the cloud sent, also if the device has another address by     *)
(* now, and calls no callback.                                             *)
ProbeProtos == {"RAW", "LPR", "IPP"}
Probed(a) == IF a \in up THEN {p \in ProbeProtos : ProtoPort(p) = Port[a]} ELSE {}
ApplyProbeResult(d, p, s) == table' = [table EXCEPT ![d].proto = p, ![d].status = s]

ProbeFinds(p) ==
  /\ ppc = "probe" /\ p \in Probed(pdev.addr)
  /\ IF Present(pdev.id)
     THEN /\ ApplyProbeResult(pdev.id, p, "ONLINE")
          /\ by' = [by EXCEPT ![pdev.id] = IF table[pdev.id].addr = pdev.addr THEN "probe" ELSE "lost"]
     ELSE UNCHANGED <<table, by>>
  /\ ppc' = "idle" /\ pdev' = None
  /\ UNCHANGED <<want, up, events, healthVars, bounceVars, closing>>

ProbeFails ==
  /\ ppc = "probe" /\ (Probed(pdev.addr) = {} \/ closing)
  /\ IF Present(pdev.id)
     THEN /\ ApplyProbeResult(pdev.id, "UNKNOWN", "PROBE_FAILED")
          /\ by' = [by EXCEPT ![pdev.id] = "lost"]
     ELSE UNCHANGED <<table, by>>
  /\ ppc' = "idle" /\ pdev' = None
  /\ UNCHANGED <<want, up, events, healthVars, bounceVars, closing>>

-----------------------------------------------------------------------------
Messages ==
  \E d \in Devices :
    \/ Remove(d)
    \/ \E a \in Addrs, p \in SentProtos, n \in SentPorts, s \in SentStatuses :
         Add(d, a, p, n, s) \/ Update(d, a, p, n, s)
HealthStep ==
  \/ HealthTick \/ HealthEnds \/ (\E rec \in hlist : CheckDials(rec)) \/ RoundEnds
  \/ CheckUnchanged \/ CheckChanges \/ FireStatusChange

ProbeEnds == ProbeFails \/ \E p \in ProbeProtos : ProbeFinds(p)
TimerStep(d) == FlushNothing(d) \/ \E g \in Timers : Flush(d, g)

Next ==
  \/ Messages \/ (\E a \in Addrs : Switch(a)) \/ Rest
  \/ HealthStart \/ HealthStep
  \/ (\E d \in Devices : ProbeBegin(d)) \/ ProbeEnds
  \/ (\E d \in Devices : TimerStep(d)) \/ (\E g \in Timers : Report(g))
  \/ Close

Spec == Init /\ [][Next]_vars

(* Tickers and timers fire, dials and reports have a limit.  Nothing is    *)
(* assumed of the check before somebody starts it.                         *)
Fairness ==
  /\ WF_vars(HealthStep) /\ WF_vars(ProbeEnds)
  /\ \A d \in Devices : WF_vars(TimerStep(d))
  /\ \A g \in Timers : WF_vars(Report(g))

FairSpec == Spec /\ Fairness

-----------------------------------------------------------------------------
(* Types; the check has a copy in hand from its dial to its callback.      *)
DataTypes ==
  /\ table \in [Devices -> Records \cup {None}] /\ want \in [Devices -> Addrs \cup {None}]
  /\ by \in [Devices -> {"cloud", "probe", "lost"}]
  /\ up \subseteq Addrs /\ hlist \subseteq Copies
  /\ hpc \in {"off", "wait", "next", "dialled", "fire", "ended"}
  /\ IF hpc \in {"dialled", "fire"} THEN hdev \in Copies /\ hnew \in Statuses
                                    ELSE hdev = None /\ hnew = None
  /\ ppc \in {"idle", "probe"}
  /\ IF ppc = "probe" THEN pdev \in ProbeCopies ELSE pdev = None
  /\ pend \in [Devices -> Statuses \cup {None}] /\ hand \in [Timers -> Changes \cup {None}]
  /\ applied \in [Devices -> Statuses \cup {None}]
  /\ reported \in [Devices -> Statuses \cup {None}]
  /\ events \in 0 .. MaxEvents /\ armed \in [Devices -> Nat] /\ raced \subseteq Devices

FlagType == closing \in BOOLEAN
TypeOK == DataTypes /\ FlagType

(* What the cloud said of a device stands: a check or probe that was under *)
(* way when it was removed or moved neither brings it back nor restores    *)
(* the old address.                                                        *)
EditsStand ==
  \A d \in Devices : want[d] = IF Present(d) THEN table[d].addr ELSE None

(* A pending change always has a timer that will report it, also after the *)
(* race of Close with timers that have fired.                              *)
PendingHasTimer == \A d \in Devices : pend[d] # None => armed[d] > 0

(* When nothing is pending or on its way, the last status reported is the  *)
(* last one applied, however changes and timers interleave, except where   *)
(* the last reports of a device were under way at the same time.           *)
LastChangeReported ==
  \A d \in Devices :
    pend[d] = None /\ ~InHand(d) /\ d \notin raced => reported[d] = applied[d]

(* The table names another port than the printer serves: the cloud sent a  *)
(* wrong one, or a wrong protocol and no port; or it sent no port and a    *)
(* probe of another address, or of a printer that was off, wrote over the  *)
(* protocol.                                                               *)
Misled(d) ==
  LET rec == table[d] IN
  \/ rec.port > 0 /\ rec.port # Port[rec.addr]
  \/ rec.port = 0 /\ by[d] = "cloud" /\ DialPort(rec) # Port[rec.addr]
  \/ rec.port = 0 /\ by[d] = "lost"

(* If somebody has started the check, then, when messages, printers and    *)
(* probes have come to rest, a device is shown ONLINE exactly if the       *)
(* printer at its address answers, although checks and probes that began   *)
(* before may still write what they found; unless the table is misled,     *)
(* which nothing but a message or another probe mends.                     *)
StatusConverges ==
  \A d \in Devices :
    Calm /\ hpc # "off" ~>
      [](\/ closing \/ ~Present(d) \/ Misled(d)
         \/ table[d].status = IF table[d].addr \in up THEN "ONLINE" ELSE "OFFLINE")
=============================================================================
