---------------------------- MODULE Devices_proof ----------------------------
(***************************************************************************)
(* Proofs about Devices for any devices, addresses, protocols and messages *)
(* of the cloud.                                                           *)
(***************************************************************************)
EXTENDS Devices, TLAPS

-----------------------------------------------------------------------------
(* Types *)

(* What the steps need of the constants.                                   *)
LEMMA ConstantTypes ==
  /\ SentProtos \subseteq Protos /\ SentPorts \subseteq Nat
  /\ SentStatuses \subseteq Statuses \cup {""} /\ MaxEvents \in Nat
  /\ None \notin Addrs /\ None \notin Statuses
  /\ None \notin Records /\ None \notin Copies /\ None \notin ProbeCopies /\ None \notin Changes
BY DevicesAssumption

(* The bound on events is a number.                                        *)
LEMMA BoundTyped == MaxEvents \in Nat
BY ConstantTypes

(* The flag is a Boolean after every step.                                 *)
LEMMA FlagTyped == FlagType /\ [Next]_vars => FlagType'
BY ZenonT(30)
   DEF FlagType, Next, Messages, HealthStart, HealthStep, ProbeEnds, TimerStep, Add, Update, Remove, Switch, Rest,
       HealthTick, HealthEnds, CheckDials, RoundEnds, CheckUnchanged, CheckChanges, FireStatusChange,
       ProbeBegin, ProbeFinds, ProbeFails, FlushNothing, Flush, Report, Close, vars

(* The count of events stays within its bound.                             *)
LEMMA EventsTyped ==
  ASSUME events \in 0 .. MaxEvents, Event \/ UNCHANGED events \/ events' = MaxEvents
  PROVE  events' \in 0 .. MaxEvents
<1>1. MaxEvents \in Nat /\ events \in Nat /\ events <= MaxEvents
  BY BoundTyped
<1>2. CASE Event
  <2>1. events # MaxEvents /\ events' = events + 1
    BY <1>2 DEF Event, Calm
  <2> QED
    BY <1>1, <2>1
<1>3. CASE UNCHANGED events
  BY <1>3
<1>4. CASE events' = MaxEvents
  BY <1>1, <1>4
<1> QED
  BY <1>2, <1>3, <1>4

(* What the dial of a check and a record in the table can hold.            *)
LEMMA RecordTypes ==
  ASSUME DataTypes, NEW d \in Devices, Present(d)
  PROVE  table[d] \in Records /\ Copy(d) \in Copies
BY DEF DataTypes, Present, Copy, Records, Copies

(* What can be said of the number of timers of a device.                   *)
LEMMA TimerCounts ==
  ASSUME DataTypes, PendingHasTimer, NEW d \in Devices
  PROVE  /\ armed[d] \in Nat /\ armed[d] + 1 \in Nat /\ armed[d] + 1 > 0
         /\ armed[d] > 0 => armed[d] - 1 \in Nat
         /\ pend[d] # None => armed[d] > 0
BY DEF DataTypes, PendingHasTimer

(* PendingHasTimer belongs to the types: it keeps Close from counting a    *)
(* device's timers below zero.                                             *)
LEMMA TypesInductive ==
  DataTypes /\ PendingHasTimer /\ [Next]_vars => DataTypes' /\ PendingHasTimer'
<1> SUFFICES ASSUME DataTypes, PendingHasTimer, [Next]_vars
             PROVE  DataTypes' /\ PendingHasTimer'
  OBVIOUS
<1>e. events' \in 0 .. MaxEvents
  <2>1. Event \/ UNCHANGED events \/ events' = MaxEvents
    BY DEF Next, Messages, HealthStart, HealthStep, ProbeEnds, TimerStep, Add, Update, Remove, Switch,
       Rest, HealthTick, HealthEnds, CheckDials, RoundEnds, CheckUnchanged, CheckChanges,
       FireStatusChange, ProbeBegin, ProbeFinds, ProbeFails, FlushNothing, Flush, Report, Close, vars
  <2> QED
    BY <2>1, EventsTyped DEF DataTypes
<1> USE ConstantTypes, <1>e DEF DataTypes, PendingHasTimer, tableVars, healthVars, probeVars, bounceVars
<1>1. ASSUME NEW d \in Devices, Remove(d) PROVE DataTypes' /\ PendingHasTimer'
  BY <1>1 DEF Remove, Set, Want
<1>2. ASSUME NEW d \in Devices, NEW a \in Addrs, NEW p \in SentProtos, NEW n \in SentPorts,
             NEW s \in SentStatuses, Add(d, a, p, n, s) \/ Update(d, a, p, n, s)
      PROVE  DataTypes' /\ PendingHasTimer'
  <2>1. PICK rec \in Records : table' = [table EXCEPT ![d] = rec]
    BY <1>2 DEF Add, Update, Set, Records, Statuses
  <2>2. /\ want' = [want EXCEPT ![d] = a] /\ by' = [by EXCEPT ![d] = "cloud"]
        /\ UNCHANGED <<up, healthVars, probeVars, bounceVars>>
    BY <1>2 DEF Add, Update, Want
  <2> QED
    BY <2>1, <2>2
<1>3. ASSUME NEW a \in Addrs, Switch(a) PROVE DataTypes' /\ PendingHasTimer'
  <2>1. up' \subseteq Addrs
    BY <1>3 DEF Switch
  <2> QED
    BY <1>3, <2>1 DEF Switch
<1>4. CASE Rest
  BY <1>4 DEF Rest
<1>0. CASE HealthStart
  BY <1>0 DEF HealthStart
<1>5. CASE HealthTick
  <2>1. hlist' \subseteq Copies
    <3> HIDE DEF DataTypes
    <3> QED
      BY <1>5, RecordTypes DEF HealthTick
  <2> QED
    BY <1>5, <2>1 DEF HealthTick
<1>6. CASE HealthEnds
  BY <1>6 DEF HealthEnds
<1>7. ASSUME NEW rec \in hlist, CheckDials(rec) PROVE DataTypes' /\ PendingHasTimer'
  BY <1>7 DEF CheckDials, Found, Statuses
<1>8. CASE RoundEnds
  BY <1>8 DEF RoundEnds
<1>9. CASE CheckUnchanged
  BY <1>9 DEF CheckUnchanged, CheckForgets
<1>10. CASE CheckChanges
  <2>1. hdev.id \in Devices /\ hnew \in Statuses
    BY <1>10 DEF CheckChanges, Copies
  <2>2. table[hdev.id] \in Records
    BY <1>10, <2>1, RecordTypes DEF CheckChanges
  <2>3. [table[hdev.id] EXCEPT !.status = hnew] \in Records
    BY <2>1, <2>2 DEF Records
  <2> QED
    BY <1>10, <2>1, <2>3 DEF CheckChanges
<1>11. CASE FireStatusChange
  <2>1. hdev.id \in Devices /\ hnew \in Statuses
    BY <1>11 DEF FireStatusChange, Copies
  <2> DEFINE c == hdev.id
             n == IF pend[c] = None THEN armed[c] + 1 ELSE armed[c]
  <2>2. /\ pend' = [pend EXCEPT ![c] = hnew] /\ applied' = [applied EXCEPT ![c] = hnew]
        /\ armed' = [armed EXCEPT ![c] = n] /\ UNCHANGED <<hand, reported, raced>>
    BY <1>11, <2>1 DEF FireStatusChange, ApplyChange
  <2>3. n \in Nat /\ n > 0
    <3> HIDE DEF DataTypes, PendingHasTimer
    <3> QED
      BY <2>1, TimerCounts
  <2> HIDE DEF c, n
  <2>4. armed' \in [Devices -> Nat] /\ PendingHasTimer'
    BY <2>1, <2>2, <2>3 DEF c
  <2> QED
    BY <1>11, <2>1, <2>2, <2>4 DEF FireStatusChange, CheckForgets, c
<1>12. ASSUME NEW d \in Devices, ProbeBegin(d) PROVE DataTypes' /\ PendingHasTimer'
  <2>1. pdev' \in ProbeCopies
    BY <1>12, RecordTypes DEF ProbeBegin, Records, ProbeCopies
  <2> QED
    BY <1>12, <2>1 DEF ProbeBegin
<1>13. ASSUME ppc = "probe", ppc' = "idle", pdev' = None, UNCHANGED <<want, up, healthVars, bounceVars>>,
              \/ UNCHANGED <<table, by>>
              \/ /\ Present(pdev.id)
                 /\ \E p \in Protos, s \in Statuses : ApplyProbeResult(pdev.id, p, s)
                 /\ \E b \in {"probe", "lost"} : by' = [by EXCEPT ![pdev.id] = b]
       PROVE  DataTypes' /\ PendingHasTimer'
  <2>1. pdev.id \in Devices
    BY <1>13 DEF ProbeCopies
  <2>2. table' \in [Devices -> Records \cup {None}] /\ by' \in [Devices -> {"cloud", "probe", "lost"}]
    <3>1. ASSUME NEW p \in Protos, NEW s \in Statuses, Present(pdev.id), ApplyProbeResult(pdev.id, p, s)
          PROVE  table' \in [Devices -> Records \cup {None}]
      <4>1. table[pdev.id] \in Records
        BY <2>1, <3>1, RecordTypes
      <4>2. [table[pdev.id] EXCEPT !.proto = p, !.status = s] \in Records
        BY <4>1 DEF Records
      <4>3. table' = [table EXCEPT ![pdev.id] = [table[pdev.id] EXCEPT !.proto = p, !.status = s]]
        BY <2>1, <3>1 DEF ApplyProbeResult
      <4> QED
        BY <4>2, <4>3
    <3>2. by' \in [Devices -> {"cloud", "probe", "lost"}]
      BY <1>13, <2>1
    <3>3. UNCHANGED table => table' \in [Devices -> Records \cup {None}]
      OBVIOUS
    <3> HIDE DEF DataTypes, PendingHasTimer
    <3> QED
      BY <1>13, <3>1, <3>2, <3>3
  <2> QED
    BY <1>13, <2>2
<1>18. CASE ProbeEnds
  <2>1. \A p \in ProbeProtos : p \in Protos
    BY DEF ProbeProtos, Protos
  <2>2. "UNKNOWN" \in Protos /\ "ONLINE" \in Statuses /\ "PROBE_FAILED" \in Statuses
    BY DEF Protos, Statuses
  <2> HIDE DEF DataTypes, PendingHasTimer
  <2> QED
    BY <1>13, <1>18, <2>1, <2>2 DEF ProbeEnds, ProbeFinds, ProbeFails
<1>14. ASSUME NEW d \in Devices, TimerStep(d) PROVE DataTypes' /\ PendingHasTimer'
  <2> DEFINE n == armed[d] - 1
  <2>1. n \in Nat /\ armed' = [armed EXCEPT ![d] = n]
    BY <1>14, TimerCounts DEF TimerStep, FlushNothing, Flush, FlushStart
  <2> HIDE DEF n
  <2>2. armed' \in [Devices -> Nat]
    BY <2>1
  <2>3. /\ pend[d] = None \/ pend' = [pend EXCEPT ![d] = None]
        /\ UNCHANGED pend \/ pend' = [pend EXCEPT ![d] = None]
        /\ UNCHANGED <<tableVars, up, healthVars, probeVars, applied, reported>>
    BY <1>14 DEF TimerStep, FlushNothing, Flush
  <2>4. PendingHasTimer'
    BY <2>1, <2>3
  <2>5. hand' \in [Timers -> Changes \cup {None}] /\ raced' \subseteq Devices
    <3>1. CASE FlushNothing(d)
      BY <3>1 DEF FlushNothing
    <3>2. ASSUME NEW g \in Timers, Flush(d, g)
          PROVE  hand' \in [Timers -> Changes \cup {None}] /\ raced' \subseteq Devices
      <4> DEFINE rec == [id |-> d, status |-> pend[d]]
      <4>1. rec \in Changes
        BY <3>2 DEF Flush, Changes
      <4>2. hand' = [hand EXCEPT ![g] = rec]
        BY <3>2 DEF Flush
      <4>3. raced' \subseteq Devices
        BY <3>2 DEF Flush, Race
      <4> HIDE DEF rec
      <4> QED
        BY <4>1, <4>2, <4>3
    <3> QED
      BY <1>14, <3>1, <3>2 DEF TimerStep
  <2> QED
    BY <2>2, <2>3, <2>4, <2>5
<1>15. ASSUME NEW g \in Timers, Report(g) PROVE DataTypes' /\ PendingHasTimer'
  <2>1. hand[g].id \in Devices /\ hand[g].status \in Statuses
    BY <1>15 DEF Report, Changes
  <2> QED
    BY <1>15, <2>1 DEF Report
<1>16. CASE Close
  <2>1. PICK late : armed' = [d \in Devices |->
          IF d \in {c \in Devices : pend[c] # None} \ late THEN armed[d] - 1 ELSE armed[d]]
    BY <1>16 DEF Close
  <2>2. armed' \in [Devices -> Nat]
    <3> DEFINE n(d) == IF d \in {c \in Devices : pend[c] # None} \ late
                       THEN armed[d] - 1 ELSE armed[d]
    <3>1. ASSUME NEW d \in Devices PROVE n(d) \in Nat
      <4> HIDE DEF DataTypes, PendingHasTimer
      <4> QED
        BY TimerCounts
    <3>2. armed' = [d \in Devices |-> n(d)]
      BY <2>1
    <3> HIDE DEF n
    <3> QED
      BY <3>1, <3>2
  <2>3. PendingHasTimer'
    BY <1>16 DEF Close
  <2>4. /\ reported' \in [Devices -> Statuses \cup {None}]
        /\ pend' \in [Devices -> Statuses \cup {None}]
        /\ raced' \subseteq Devices
    BY <1>16 DEF Close, Race
  <2> QED
    BY <1>16, <2>2, <2>3, <2>4 DEF Close
<1>17. CASE UNCHANGED vars
  BY <1>17 DEF vars
<1> QED
  BY <1>0, <1>1, <1>2, <1>3, <1>4, <1>5, <1>6, <1>7, <1>8, <1>9, <1>10, <1>11, <1>12, <1>14,
     <1>15, <1>16, <1>17, <1>18 DEF Next, Messages, HealthStep

(* The agent starts well typed and with nothing pending.                   *)
LEMMA InitTypes == Init => TypeOK /\ PendingHasTimer
<1> SUFFICES ASSUME Init PROVE TypeOK /\ PendingHasTimer
  OBVIOUS
<1>1. DataTypes /\ PendingHasTimer
  <2>1. events \in 0 .. MaxEvents
    BY BoundTyped DEF Init
  <2>2. /\ table \in [Devices -> Records \cup {None}] /\ want \in [Devices -> Addrs \cup {None}]
        /\ by \in [Devices -> {"cloud", "probe", "lost"}] /\ armed \in [Devices -> Nat]
    BY DEF Init
  <2>3. /\ pend \in [Devices -> Statuses \cup {None}] /\ hand \in [Timers -> Changes \cup {None}]
        /\ applied \in [Devices -> Statuses \cup {None}]
        /\ reported \in [Devices -> Statuses \cup {None}]
    BY DEF Init
  <2>4. /\ up \subseteq Addrs /\ hlist = {} /\ hpc = "off" /\ hdev = None /\ hnew = None
        /\ ppc = "idle" /\ pdev = None /\ raced = {} /\ \A d \in Devices : pend[d] = None
    BY DEF Init
  <2> QED
    BY <2>1, <2>2, <2>3, <2>4 DEF DataTypes, PendingHasTimer
<1>2. FlagType
  BY Zenon DEF Init, FlagType
<1> QED
  BY <1>1, <1>2 DEF TypeOK

(* Every reachable state of the device table, of the checks that work on   *)
(* copies of it and of the debouncer is well typed: flush and Close count  *)
(* no timer twice.                                                         *)
THEOREM TypeCorrect == Spec => []TypeOK
BY InitTypes, TypesInductive, FlagTyped, PTL DEF Spec, TypeOK

-----------------------------------------------------------------------------
(* Debouncer *)

(* A pending status change always has a timer that will report it, however *)
(* changes, timers and the shutdown interleave.                            *)
THEOREM PendingTimed == Spec => []PendingHasTimer
BY InitTypes, TypesInductive, PTL DEF Spec, TypeOK

(* Where the last change applied to a device is: still pending, or else,   *)
(* unless its reports overlapped, in the one report under way, or else     *)
(* reported.                                                               *)
Holds(g, d) == hand[g] # None /\ hand[g].id = d
PendingIsLast == \A d \in Devices : pend[d] # None => applied[d] = pend[d]
OneReport ==
  \A d \in Devices, g \in Timers : d \notin raced /\ Holds(g, d) =>
    /\ \A h \in Timers : Holds(h, d) => h = g
    /\ pend[d] = None => applied[d] = hand[g].status
NoReport ==
  \A d \in Devices : d \notin raced /\ pend[d] = None /\ (\A g \in Timers : ~Holds(g, d)) =>
    applied[d] = reported[d]
ChangeFollowed == PendingIsLast /\ OneReport /\ NoReport

(* A timer takes the pending change of a device, and the device has raced  *)
(* exactly if somebody else is busy with a report of it.                   *)
LEMMA FlushFollowed ==
  ASSUME DataTypes, ChangeFollowed, NEW d \in Devices, NEW g \in Timers, Flush(d, g)
  PROVE  ChangeFollowed'
<1>1. /\ pend[d] # None /\ hand[g] = None /\ pend' = [pend EXCEPT ![d] = None]
      /\ hand' = [hand EXCEPT ![g] = [id |-> d, status |-> pend[d]]]
      /\ UNCHANGED <<applied, reported>>
  BY DEF Flush
<1>2. /\ pend'[d] = None /\ \A c \in Devices : c # d => pend'[c] = pend[c]
      /\ hand'[g] # None /\ hand'[g].id = d /\ hand'[g].status = pend[d]
      /\ \A h \in Timers : h # g => hand'[h] = hand[h]
  <2> DEFINE rec == [id |-> d, status |-> pend[d]]
  <2>1. /\ pend \in [Devices -> Statuses \cup {None}] /\ hand \in [Timers -> Changes \cup {None}]
    BY DEF DataTypes
  <2>2. rec \in Changes /\ rec.id = d /\ rec.status = pend[d]
    BY <1>1, <2>1 DEF Changes
  <2>3. hand' = [hand EXCEPT ![g] = rec]
    BY <1>1
  <2> HIDE DEF rec
  <2> QED
    BY <1>1, <2>1, <2>2, <2>3, ConstantTypes
<1>3. /\ Holds(g, d)' /\ \A c \in Devices : c # d => ~Holds(g, c)'
      /\ \A h \in Timers, c \in Devices : h # g => (Holds(h, c)' <=> Holds(h, c))
      /\ \A c \in Devices : ~Holds(g, c)
  BY <1>1, <1>2 DEF Holds
<1>4. /\ d \notin raced' => \A h \in Timers : ~Holds(h, d)
      /\ \A c \in Devices : c # d => (c \in raced' <=> c \in raced)
  BY DEF Flush, Race, InHand, Holds
<1>5. PendingIsLast'
  BY <1>1, <1>2 DEF ChangeFollowed, PendingIsLast
<1>6. NoReport'
  BY <1>1, <1>2, <1>3, <1>4 DEF ChangeFollowed, NoReport
<1>7. ASSUME NEW c \in Devices, NEW h \in Timers, c \notin raced', Holds(h, c)'
      PROVE  /\ \A k \in Timers : Holds(k, c)' => k = h
             /\ pend'[c] = None => applied'[c] = hand'[h].status
  <2>1. CASE c = d
    <3>1. h = g /\ applied[d] = pend[d]
      BY <1>1, <1>3, <1>4, <1>7, <2>1 DEF ChangeFollowed, PendingIsLast
    <3> QED
      BY <1>1, <1>2, <1>3, <1>4, <1>7, <2>1, <3>1
  <2>2. CASE c # d
    <3>1. h # g /\ Holds(h, c) /\ c \notin raced
      BY <1>3, <1>4, <1>7, <2>2
    <3> QED
      BY <1>1, <1>2, <1>3, <2>2, <3>1 DEF ChangeFollowed, OneReport
  <2> QED
    BY <2>1, <2>2
<1> QED
  BY <1>5, <1>6, <1>7 DEF ChangeFollowed, OneReport

(* A report is through.                                                    *)
LEMMA ReportFollowed ==
  ASSUME DataTypes, ChangeFollowed, NEW g \in Timers, Report(g)
  PROVE  ChangeFollowed'
<1>1. PICK d \in Devices : d = hand[g].id
  BY DEF Report, DataTypes, Changes
<1>2. /\ hand[g] # None /\ hand' = [hand EXCEPT ![g] = None]
      /\ reported' = [reported EXCEPT ![d] = hand[g].status] /\ UNCHANGED <<pend, applied, raced>>
  BY <1>1 DEF Report
<1>3. /\ hand'[g] = None /\ \A h \in Timers : h # g => hand'[h] = hand[h]
      /\ reported'[d] = hand[g].status /\ \A c \in Devices : c # d => reported'[c] = reported[c]
  BY <1>2 DEF DataTypes
<1>4. /\ Holds(g, d) /\ \A c \in Devices : ~Holds(g, c)' /\ (c # d => ~Holds(g, c))
      /\ \A h \in Timers, c \in Devices : h # g => (Holds(h, c)' <=> Holds(h, c))
  BY <1>1, <1>2, <1>3 DEF Holds
<1>5. PendingIsLast'
  BY <1>2 DEF ChangeFollowed, PendingIsLast
<1>6. OneReport'
  BY <1>2, <1>3, <1>4 DEF ChangeFollowed, OneReport
<1>7. ASSUME NEW c \in Devices, c \notin raced', pend'[c] = None, \A h \in Timers : ~Holds(h, c)'
      PROVE  applied'[c] = reported'[c]
  <2>1. CASE c = d
    BY <1>2, <1>3, <1>4, <1>7, <2>1 DEF ChangeFollowed, OneReport
  <2>2. CASE c # d
    <3>1. \A h \in Timers : ~Holds(h, c)
      BY <1>4, <1>7, <2>2
    <3> QED
      BY <1>2, <1>3, <1>7, <2>2, <3>1 DEF ChangeFollowed, NoReport
  <2> QED
    BY <2>1, <2>2
<1> QED
  BY <1>5, <1>6, <1>7 DEF ChangeFollowed, NoReport

(* The last status reported is the last one applied once nothing is under  *)
(* way, except where the last reports of a device overlapped.              *)
THEOREM LastReported == Spec => []LastChangeReported
<1>1. Init => ChangeFollowed
  BY DEF Init, ChangeFollowed, PendingIsLast, OneReport, NoReport, Holds
<1>2. DataTypes /\ ChangeFollowed /\ [Next]_vars => ChangeFollowed'
  <2> SUFFICES ASSUME DataTypes, ChangeFollowed, [Next]_vars PROVE ChangeFollowed'
    OBVIOUS
  <2>0. /\ pend \in [Devices -> Statuses \cup {None}] /\ hand \in [Timers -> Changes \cup {None}]
        /\ applied \in [Devices -> Statuses \cup {None}]
        /\ reported \in [Devices -> Statuses \cup {None}]
    BY DEF DataTypes
  <2>1. CASE UNCHANGED <<pend, hand, applied, reported, raced>>
    BY <2>1 DEF ChangeFollowed, PendingIsLast, OneReport, NoReport, Holds
  <2>2. CASE FireStatusChange
    <3>1. hnew # None
      BY <2>2, ConstantTypes DEF FireStatusChange, DataTypes
    <3>2. /\ pend' = [pend EXCEPT ![hdev.id] = hnew]
          /\ applied' = [applied EXCEPT ![hdev.id] = hnew]
          /\ UNCHANGED <<hand, reported, raced>>
      BY <2>2 DEF FireStatusChange, ApplyChange
    <3> QED
      BY <2>0, <3>1, <3>2 DEF ChangeFollowed, PendingIsLast, OneReport, NoReport, Holds
  <2>3. ASSUME NEW d \in Devices, TimerStep(d) PROVE ChangeFollowed'
    BY <2>1, <2>3, FlushFollowed DEF TimerStep, FlushNothing
  <2>4. ASSUME NEW g \in Timers, Report(g) PROVE ChangeFollowed'
    BY <2>4, ReportFollowed
  <2>5. CASE Close
    <3>1. /\ reported' = [d \in Devices |-> IF pend[d] # None THEN pend[d] ELSE reported[d]]
          /\ pend' = [d \in Devices |-> None] /\ UNCHANGED <<hand, applied>>
      BY <2>5 DEF Close
    <3>2. \A d \in Devices : d \notin raced' =>
            (pend[d] # None /\ \A g \in Timers : ~Holds(g, d)) \/ (pend[d] = None /\ d \notin raced)
      BY <2>5 DEF Close, Race, InHand, Holds
    <3>3. \A d \in Devices, g \in Timers : Holds(g, d)' <=> Holds(g, d)
      BY <3>1 DEF Holds
    <3>4. PendingIsLast'
      BY <3>1 DEF PendingIsLast
    <3>5. OneReport'
      BY <3>1, <3>2, <3>3 DEF ChangeFollowed, OneReport
    <3>6. NoReport'
      BY <3>1, <3>2, <3>3 DEF ChangeFollowed, PendingIsLast, NoReport
    <3> QED
      BY <3>4, <3>5, <3>6 DEF ChangeFollowed
  <2> QED
    BY <2>1, <2>2, <2>3, <2>4, <2>5
       DEF Next, Messages, HealthStart, HealthStep, ProbeEnds, Add, Update, Remove, Switch, Rest,
           HealthTick, HealthEnds, CheckDials, RoundEnds, CheckUnchanged, CheckChanges, ProbeBegin,
           ProbeFinds, ProbeFails, vars, bounceVars
<1>3. ChangeFollowed => LastChangeReported
  BY DEF ChangeFollowed, NoReport, LastChangeReported, InHand, Holds
<1> QED
  BY <1>1, <1>2, <1>3, TypeCorrect, PTL DEF Spec, TypeOK

-----------------------------------------------------------------------------
(* Edits *)

(* A check or a probe that was under way when the cloud removed or moved a *)
(* device never undoes the edit.                                           *)
THEOREM EditsKept == Spec => []EditsStand
<1>1. Init => EditsStand
  BY DEF Init, EditsStand, Present
<1>2. DataTypes /\ EditsStand /\ [Next]_vars => EditsStand'
  <2> SUFFICES ASSUME DataTypes, EditsStand, [Next]_vars PROVE EditsStand'
    OBVIOUS
  <2>0. table \in [Devices -> Records \cup {None}] /\ want \in [Devices -> Addrs \cup {None}]
    BY DEF DataTypes
  <2> USE DEF EditsStand, Present
  <2>1. ASSUME NEW d \in Devices, Remove(d) PROVE EditsStand'
    BY <2>0, <2>1 DEF Remove, Set, Want
  <2>2. ASSUME NEW d \in Devices, NEW a \in Addrs, NEW p \in SentProtos, NEW n \in SentPorts,
               NEW s \in SentStatuses, Add(d, a, p, n, s) \/ Update(d, a, p, n, s)
        PROVE  EditsStand'
    <3>1. PICK rec \in Records :
            rec.addr = a /\ table' = [table EXCEPT ![d] = rec] /\ want' = [want EXCEPT ![d] = a]
      BY <2>2, ConstantTypes DEF Add, Update, Set, Want, Records, Statuses
    <3> QED
      BY <2>0, <3>1, ConstantTypes
  <2>3. CASE CheckChanges
    <3>1. hdev.id \in Devices /\ table[hdev.id] \in Records
      BY <2>3, RecordTypes DEF CheckChanges, DataTypes, Copies
    <3> DEFINE rec == [table[hdev.id] EXCEPT !.status = hnew]
    <3>2. rec \in Records /\ rec.addr = table[hdev.id].addr
      BY <2>3, <3>1 DEF CheckChanges, DataTypes, Records
    <3>3. table' = [table EXCEPT ![hdev.id] = rec] /\ UNCHANGED want
      BY <2>3 DEF CheckChanges
    <3> HIDE DEF rec
    <3> QED
      BY <2>0, <3>1, <3>2, <3>3, ConstantTypes
  <2>4. ASSUME ppc = "probe", Present(pdev.id), NEW p \in Protos, NEW s \in Statuses,
               ApplyProbeResult(pdev.id, p, s), UNCHANGED want
        PROVE  EditsStand'
    <3>1. pdev.id \in Devices
      BY <2>4 DEF DataTypes, ProbeCopies
    <3>2. table[pdev.id] \in Records
      BY <2>4, <3>1, RecordTypes
    <3> DEFINE rec == [table[pdev.id] EXCEPT !.proto = p, !.status = s]
    <3>3. table' = [table EXCEPT ![pdev.id] = rec]
      BY <2>0, <2>4, <3>1 DEF ApplyProbeResult
    <3>4. rec \in Records /\ rec.addr = table[pdev.id].addr
      BY <3>2 DEF Records
    <3> HIDE DEF rec
    <3> QED
      BY <2>0, <2>4, <3>1, <3>2, <3>3, <3>4, ConstantTypes
  <2>5. CASE UNCHANGED <<table, want>>
    BY <2>5
  <2>6. CASE ProbeEnds
    <3>1. \A p \in ProbeProtos : p \in Protos
      BY DEF ProbeProtos, Protos
    <3>2. "UNKNOWN" \in Protos /\ "ONLINE" \in Statuses /\ "PROBE_FAILED" \in Statuses
      BY DEF Protos, Statuses
    <3> QED
      BY <2>4, <2>5, <2>6, <3>1, <3>2 DEF ProbeEnds, ProbeFinds, ProbeFails
  <2> QED
    BY <2>1, <2>2, <2>3, <2>5, <2>6
       DEF Next, Messages, HealthStart, HealthStep, TimerStep, Switch, Rest, HealthTick, HealthEnds,
           CheckDials, RoundEnds, CheckUnchanged, FireStatusChange, ProbeBegin,
           FlushNothing, Flush, Report, Close, vars, tableVars
<1> QED
  BY <1>1, <1>2, TypeCorrect, PTL DEF Spec, TypeOK
==============================================================================
