--------------------------- MODULE Lifecycle_proof ---------------------------
(***************************************************************************)
(* Proofs about Lifecycle and, through it, about Reporter and Protocol, for *)
(* any sets of workers, tasks and protocols and any size of the buffer.    *)
(***************************************************************************)
EXTENDS Lifecycle, SequenceLemmas

-----------------------------------------------------------------------------
(* The messages of a sequence *)

(* An empty sequence has no messages.                                      *)
LEMMA EmptyRange == R!Range(<<>>) = {} /\ R!IsInjective(<<>>)
  BY DEF R!Range, R!IsInjective

(* A message more; if it is new, the messages stay distinct.               *)
LEMMA AppendRange ==
  ASSUME NEW s \in Seq(Msgs), NEW e \in Msgs
  PROVE  /\ R!Range(Append(s, e)) = R!Range(s) \cup {e}
         /\ R!IsInjective(s) /\ e \notin R!Range(s) => R!IsInjective(Append(s, e))
<1> DEFINE n == Len(s)
           a == Append(s, e)
<1>1. n \in Nat /\ DOMAIN s = 1..n
  BY LenProperties
<1>2. DOMAIN a = 1..(n + 1) /\ a[n + 1] = e /\ \A j \in 1..n : a[j] = s[j]
  BY AppendElements, LenProperties
<1> HIDE DEF n, a
<1>3. \A j \in DOMAIN a : j \in DOMAIN s \/ j = n + 1
  BY <1>1, <1>2
<1>4. n + 1 \in DOMAIN a /\ \A j \in DOMAIN s : j \in DOMAIN a /\ j # n + 1 /\ a[j] = s[j]
  BY <1>1, <1>2
<1>5. R!Range(a) = R!Range(s) \cup {e}
  BY <1>2, <1>3, <1>4 DEF R!Range
<1>6. ASSUME R!IsInjective(s), e \notin R!Range(s) PROVE R!IsInjective(a)
  BY <1>2, <1>3, <1>4, <1>6 DEF R!Range, R!IsInjective
<1> QED
  BY <1>5, <1>6 DEF a

(* Without the head, which is gone if the messages were distinct.          *)
LEMMA TailRange ==
  ASSUME NEW s \in Seq(Msgs), s # <<>>
  PROVE  /\ Head(s) \in Msgs /\ Tail(s) \in Seq(Msgs) /\ Len(Tail(s)) = Len(s) - 1
         /\ R!Range(s) = R!Range(Tail(s)) \cup {Head(s)}
         /\ R!IsInjective(s) => R!IsInjective(Tail(s)) /\ Head(s) \notin R!Range(Tail(s))
<1> DEFINE r == Tail(s)
           h == Head(s)
<1>1. h \in Msgs /\ r \in Seq(Msgs) /\ Len(r) = Len(s) - 1
  BY TailElements
<1>2. /\ h = s[1] /\ 1 \in DOMAIN s
      /\ \A j \in DOMAIN r : r[j] = s[Place(1, j)] /\ Place(1, j) \in DOMAIN s /\ Place(1, j) # 1
      /\ \A j, k \in DOMAIN r : j < k => Place(1, j) < Place(1, k)
  BY TailPlaces
<1>3. \A i \in DOMAIN s : i # 1 => i - 1 \in DOMAIN r /\ r[i - 1] = s[i]
  BY TailOthers
<1>4. \A j, k \in DOMAIN r : Place(1, j) = Place(1, k) => j = k
  <2>1. \A j \in DOMAIN r : j \in Nat /\ j >= 1
    BY <1>1, LenProperties
  <2> QED
    BY <2>1 DEF Place
<1> HIDE DEF r, h
<1>5. R!Range(s) = R!Range(r) \cup {h}
  <2>1. ASSUME NEW i \in DOMAIN s PROVE s[i] \in R!Range(r) \cup {h}
    BY <1>2, <1>3 DEF R!Range
  <2>2. ASSUME NEW j \in DOMAIN r PROVE r[j] \in R!Range(s)
    BY <1>2 DEF R!Range
  <2>3. h \in R!Range(s)
    BY <1>2 DEF R!Range
  <2> QED
    BY <2>1, <2>2, <2>3 DEF R!Range
<1>6. ASSUME R!IsInjective(s) PROVE R!IsInjective(r) /\ h \notin R!Range(r)
  BY <1>2, <1>4, <1>6 DEF R!Range, R!IsInjective
<1> QED
  BY <1>1, <1>5, <1>6 DEF r, h

-----------------------------------------------------------------------------
(* The reporter *)

(* What the steps need of the constants.                                   *)
LEMMA Constants ==
  /\ NoTask \notin Msgs /\ BufferSize \in Nat \ {0} /\ MaxUpdates \in Nat
  /\ Workers \subseteq Senders /\ Heartbeat \in Senders /\ Heartbeat \notin Workers
  /\ Main \in Flushers /\ Reconnect \in Flushers /\ Main # Reconnect
  /\ NoTask \notin Tasks /\ Results \subseteq Msgs /\ Beats \subseteq Msgs
  /\ Recoverable \subseteq Tasks /\ MaxRetry \in Nat
  BY LifecycleAssumption DEF Msgs, Senders, Flushers, Main, Reconnect

(* What buffer leaves: the message is in, and what went is marked dropped. *)
LEMMA BufferKeeps ==
  ASSUME buf \in Seq(Msgs), Len(buf) <= BufferSize, NEW m \in Msgs, R!Buffer(m)
  PROVE  /\ buf' \in Seq(Msgs) /\ Len(buf') <= BufferSize
         /\ R!Range(buf') \subseteq R!Range(buf) \cup {m}
         /\ R!Range(buf) \cup {m} \subseteq R!Range(buf') \cup dropped'
         /\ dropped \subseteq dropped' /\ dropped' \subseteq dropped \cup R!Range(buf)
         /\ R!IsInjective(buf) /\ m \notin R!Range(buf) => R!IsInjective(buf')
<1>0. BufferSize \in Nat /\ BufferSize > 0 /\ Len(buf) \in Nat
  BY Constants, LenProperties
<1>1. CASE Len(buf) >= BufferSize
  <2>1. buf # <<>> /\ Len(buf) = BufferSize
    BY <1>0, <1>1
  <2> DEFINE r == Tail(buf)
             h == Head(buf)
  <2>2. buf' = Append(r, m) /\ dropped' = dropped \cup {h}
    BY <1>1 DEF R!Buffer
  <2>3. /\ h \in Msgs /\ r \in Seq(Msgs) /\ Len(r) = Len(buf) - 1
        /\ R!Range(buf) = R!Range(r) \cup {h}
        /\ R!IsInjective(buf) => R!IsInjective(r) /\ h \notin R!Range(r)
    BY <2>1, TailRange
  <2> HIDE DEF r, h
  <2>4. Append(r, m) \in Seq(Msgs) /\ Len(Append(r, m)) = Len(r) + 1
    BY <2>3, AppendElements
  <2>5. /\ R!Range(Append(r, m)) = R!Range(r) \cup {m}
        /\ R!IsInjective(r) /\ m \notin R!Range(r) => R!IsInjective(Append(r, m))
    BY <2>3, AppendRange
  <2>6. buf' \in Seq(Msgs) /\ Len(buf') <= BufferSize
    BY <1>0, <2>1, <2>2, <2>3, <2>4
  <2> QED
    BY <2>2, <2>3, <2>5, <2>6
<1>2. CASE ~(Len(buf) >= BufferSize)
  <2>1. buf' = Append(buf, m) /\ dropped' = dropped
    BY <1>2 DEF R!Buffer
  <2>2. Append(buf, m) \in Seq(Msgs) /\ Len(Append(buf, m)) = Len(buf) + 1
    BY AppendElements
  <2>3. /\ R!Range(Append(buf, m)) = R!Range(buf) \cup {m}
        /\ R!IsInjective(buf) /\ m \notin R!Range(buf) => R!IsInjective(Append(buf, m))
    BY AppendRange
  <2>4. buf' \in Seq(Msgs) /\ Len(buf') <= BufferSize
    BY <1>0, <1>2, <2>1, <2>2
  <2> QED
    BY <2>1, <2>3, <2>4
<1> QED
  BY <1>1, <1>2

(* What a step that takes in no new message keeps: what was reported stays *)
(* reported, and nothing else becomes so.                                  *)
SameReported == \A m \in Msgs : R!Reported(m) <=> R!Reported(m)'

(* Reported and WrittenOnce, place by place.                               *)
Somewhere(m) ==
  \/ m \in R!Range(sent) \/ m \in dropped \/ m \in R!Range(buf)
  \/ \E s \in Senders : smsg[s] = m
  \/ \E f \in Flushers : m \in R!Range(pending[f])
Distinct ==
  R!IsInjective(sent) /\ R!IsInjective(buf) /\ \A f \in Flushers : R!IsInjective(pending[f])
HeldOnce ==
  \A s \in Senders :
    smsg[s] # NoTask => /\ smsg[s] \notin R!Range(sent) /\ smsg[s] \notin R!Range(buf)
                        /\ \A f \in Flushers : smsg[s] \notin R!Range(pending[f])
                        /\ \A r \in Senders : smsg[r] = smsg[s] => r = s
BufferedOnce == \A m \in R!Range(buf) : m \notin R!Range(sent)
TakenOnce ==
  \A f \in Flushers : \A m \in R!Range(pending[f]) :
    /\ m \notin R!Range(sent) /\ m \notin R!Range(buf)
    /\ \A g \in Flushers : f # g => m \notin R!Range(pending[g])
Once == Distinct /\ HeldOnce /\ BufferedOnce /\ TakenOnce

(* The two formulations agree ...                                          *)
LEMMA ByPlace ==
  ASSUME R!DataTypes
  PROVE  /\ \A m : R!Reported(m) <=> Somewhere(m)
         /\ R!WrittenOnce <=> Once
<1>1. \A m : m \in R!Range(smsg) <=> \E s \in Senders : smsg[s] = m
  BY DEF R!DataTypes, R!Range
<1>2. \A m : m \in R!Taken <=> \E f \in Flushers : m \in R!Range(pending[f])
  BY DEF R!Taken
<1>3. \A m : R!Reported(m) <=> Somewhere(m)
  BY <1>1, <1>2 DEF R!Reported, Somewhere
<1>4. R!WrittenOnce <=> Once
  BY <1>2 DEF R!WrittenOnce, Once, Distinct, HeldOnce, BufferedOnce, TakenOnce
<1> QED
  BY <1>3, <1>4

(* ... also after a step.                                                  *)
LEMMA ByPlaceNext ==
  ASSUME R!DataTypes'
  PROVE  /\ \A m : R!Reported(m)' <=> Somewhere(m)'
         /\ R!WrittenOnce' <=> Once'
<1>1. \A m : m \in R!Range(smsg') <=> \E s \in Senders : smsg'[s] = m
  BY DEF R!DataTypes, R!Range
<1>2. \A m : m \in R!Taken' <=> \E f \in Flushers : m \in R!Range(pending'[f])
  BY DEF R!Taken
<1>3. \A m : R!Reported(m)' <=> Somewhere(m)'
  BY <1>1, <1>2 DEF R!Reported, Somewhere
<1>4. R!WrittenOnce' <=> Once'
  BY <1>2 DEF R!WrittenOnce, Once, Distinct, HeldOnce, BufferedOnce, TakenOnce
<1> QED
  BY <1>3, <1>4

(* A message is picked up.                                                 *)
LEMMA SendKeeps ==
  ASSUME R!DataTypes, NEW s \in Senders, NEW m \in Msgs, R!Send(s, m)
  PROVE  /\ R!DataTypes'
         /\ R!WrittenOnce => R!WrittenOnce'
         /\ \A k \in Msgs : R!Reported(k)' <=> R!Reported(k) \/ k = m
<1>1. /\ UNCHANGED <<buf, fpc, pending, sent, dropped, updates>>
      /\ ~R!Reported(m) /\ smsg' = [smsg EXCEPT ![s] = m] /\ smsg[s] = NoTask
      /\ \E pc \in {"write", "buffer"} : spc' = [spc EXCEPT ![s] = pc]
  BY DEF R!Send, R!DataTypes, R!flushVars
<1>2. R!DataTypes'
  BY <1>1, Constants DEF R!DataTypes
<1>3. /\ smsg'[s] = m /\ \A r \in Senders : r # s => smsg'[r] = smsg[r]
  BY <1>1 DEF R!DataTypes
<1>4. ASSUME NEW k \in Msgs PROVE R!Reported(k)' <=> R!Reported(k) \/ k = m
  <2>1. Somewhere(k)' <=> Somewhere(k) \/ k = m
    BY <1>1, <1>3, Constants DEF Somewhere
  <2> QED
    BY <1>2, <2>1, ByPlace, ByPlaceNext
<1>5. ASSUME R!WrittenOnce PROVE R!WrittenOnce'
  <2>1. ~Somewhere(m)
    BY <1>1, ByPlace
  <2>2. HeldOnce'
    BY <1>1, <1>3, <1>5, <2>1, ByPlace DEF Somewhere, Once, HeldOnce
  <2>3. (Distinct /\ BufferedOnce /\ TakenOnce)'
    BY <1>1, <1>5, ByPlace DEF Once, Distinct, BufferedOnce, TakenOnce
  <2> QED
    BY <1>2, <2>2, <2>3, ByPlaceNext DEF Once
<1> QED
  BY <1>2, <1>4, <1>5

(* A sender is done with its message, which was written.                   *)
LEMMA SendWritesKeeps ==
  ASSUME R!DataTypes, NEW s \in Senders, R!SendWrites(s)
  PROVE  R!DataTypes' /\ SameReported /\ (R!WrittenOnce => R!WrittenOnce')
<1>1. PICK m \in Msgs : m = smsg[s]
  BY DEF R!SendWrites, R!DataTypes
<1>2. /\ UNCHANGED <<buf, fpc, pending, dropped, updates>>
      /\ spc' = [spc EXCEPT ![s] = "idle"] /\ smsg' = [smsg EXCEPT ![s] = NoTask]
      /\ sent' = Append(sent, m) /\ sent \in Seq(Msgs)
  BY <1>1 DEF R!SendWrites, R!SenderDone, R!DataTypes, R!flushVars
<1>3. /\ sent' \in Seq(Msgs) /\ R!Range(sent') = R!Range(sent) \cup {m}
      /\ R!IsInjective(sent) /\ m \notin R!Range(sent) => R!IsInjective(sent')
  BY <1>2, AppendElements, AppendRange
<1>4. R!DataTypes'
  BY <1>2, <1>3 DEF R!DataTypes
<1>5. /\ smsg'[s] = NoTask /\ \A r \in Senders : r # s => smsg'[r] = smsg[r]
  BY <1>2 DEF R!DataTypes
<1>6. SameReported
  <2>1. ASSUME NEW k \in Msgs PROVE Somewhere(k) <=> Somewhere(k)'
    BY <1>1, <1>2, <1>3, <1>5, Constants DEF Somewhere
  <2> QED
    BY <1>4, <2>1, ByPlace, ByPlaceNext DEF SameReported
<1>7. ASSUME R!WrittenOnce PROVE R!WrittenOnce'
  <2>1. Once
    BY <1>7, ByPlace
  <2>2. /\ m \notin R!Range(sent) /\ m \notin R!Range(buf)
        /\ \A f \in Flushers : m \notin R!Range(pending[f])
        /\ \A r \in Senders : r # s => smsg[r] # m
    BY <1>1, <2>1, Constants DEF Once, HeldOnce
  <2>3. Distinct'
    BY <1>2, <1>3, <2>1, <2>2 DEF Once, Distinct
  <2>4. HeldOnce'
    BY <1>2, <1>3, <1>5, <2>1, <2>2 DEF Once, HeldOnce
  <2>5. BufferedOnce' /\ TakenOnce'
    BY <1>2, <1>3, <2>1, <2>2 DEF Once, BufferedOnce, TakenOnce
  <2> QED
    BY <1>4, <2>3, <2>4, <2>5, ByPlaceNext DEF Once
<1> QED
  BY <1>4, <1>6, <1>7

(* A sender is done with its message, which was buffered.                  *)
LEMMA SendBuffersKeeps ==
  ASSUME R!DataTypes, NEW s \in Senders, R!SendBuffers(s)
  PROVE  R!DataTypes' /\ SameReported /\ (R!WrittenOnce => R!WrittenOnce')
<1>1. PICK m \in Msgs : m = smsg[s]
  BY DEF R!SendBuffers, R!DataTypes
<1>2. /\ UNCHANGED <<fpc, pending, sent, updates>> /\ R!Buffer(m)
      /\ spc' = [spc EXCEPT ![s] = "idle"] /\ smsg' = [smsg EXCEPT ![s] = NoTask]
      /\ buf \in Seq(Msgs) /\ Len(buf) <= BufferSize
  BY <1>1 DEF R!SendBuffers, R!SenderDone, R!DataTypes, R!flushVars
<1>3. /\ buf' \in Seq(Msgs) /\ Len(buf') <= BufferSize
      /\ R!Range(buf') \subseteq R!Range(buf) \cup {m}
      /\ R!Range(buf) \cup {m} \subseteq R!Range(buf') \cup dropped'
      /\ dropped \subseteq dropped' /\ dropped' \subseteq dropped \cup R!Range(buf)
      /\ R!IsInjective(buf) /\ m \notin R!Range(buf) => R!IsInjective(buf')
  BY <1>2, BufferKeeps
<1>4. R!DataTypes'
  <2>1. dropped' \subseteq Msgs
    BY <1>2, <1>3 DEF R!Range, R!DataTypes
  <2> QED
    BY <1>2, <1>3, <2>1 DEF R!DataTypes
<1>5. /\ smsg'[s] = NoTask /\ \A r \in Senders : r # s => smsg'[r] = smsg[r]
  BY <1>2 DEF R!DataTypes
<1>6. SameReported
  <2>1. ASSUME NEW k \in Msgs PROVE Somewhere(k) <=> Somewhere(k)'
    BY <1>1, <1>2, <1>3, <1>5, Constants DEF Somewhere
  <2> QED
    BY <1>4, <2>1, ByPlace, ByPlaceNext DEF SameReported
<1>7. ASSUME R!WrittenOnce PROVE R!WrittenOnce'
  <2>1. Once
    BY <1>7, ByPlace
  <2>2. /\ m \notin R!Range(sent) /\ m \notin R!Range(buf)
        /\ \A f \in Flushers : m \notin R!Range(pending[f])
        /\ \A r \in Senders : r # s => smsg[r] # m
    BY <1>1, <2>1, Constants DEF Once, HeldOnce
  <2>3. Distinct'
    BY <1>2, <1>3, <2>1, <2>2 DEF Once, Distinct
  <2>4. HeldOnce'
    BY <1>2, <1>3, <1>5, <2>1, <2>2 DEF Once, HeldOnce
  <2>5. BufferedOnce' /\ TakenOnce'
    BY <1>2, <1>3, <2>1, <2>2 DEF Once, BufferedOnce, TakenOnce
  <2> QED
    BY <1>4, <2>3, <2>4, <2>5, ByPlaceNext DEF Once
<1> QED
  BY <1>4, <1>6, <1>7

(* A step that moves no message.                                           *)
LEMMA IdleStepKeeps ==
  ASSUME R!DataTypes, R!DataTypes', UNCHANGED <<buf, smsg, pending, sent, dropped>>
  PROVE  SameReported /\ (R!WrittenOnce => R!WrittenOnce')
<1>1. ASSUME NEW k \in Msgs PROVE Somewhere(k) <=> Somewhere(k)'
  BY DEF Somewhere
<1>2. Once => Once'
  BY DEF Once, Distinct, HeldOnce, BufferedOnce, TakenOnce
<1> QED
  BY <1>1, <1>2, ByPlace, ByPlaceNext DEF SameReported

(* A flusher takes the whole buffer.                                       *)
LEMMA FlushTakesKeeps ==
  ASSUME R!DataTypes, NEW f \in Flushers, R!FlushTakes(f), pending[f] = <<>>
  PROVE  R!DataTypes' /\ SameReported /\ (R!WrittenOnce => R!WrittenOnce')
<1>1. /\ UNCHANGED <<spc, smsg, sent, dropped, updates>> /\ buf' = <<>>
      /\ pending' = [pending EXCEPT ![f] = buf]
      /\ \E pc \in {"idle", "flush"} : fpc' = [fpc EXCEPT ![f] = pc]
  BY DEF R!FlushTakes, R!FlusherGoto, R!sendVars
<1>2. R!DataTypes'
  <2>1. <<>> \in Seq(Msgs) /\ Len(<<>>) <= BufferSize
    BY Constants, EmptySeq
  <2> QED
    BY <1>1, <2>1 DEF R!DataTypes
<1>3. /\ pending'[f] = buf /\ R!Range(pending[f]) = {} /\ R!Range(buf') = {}
      /\ R!IsInjective(buf') /\ \A g \in Flushers : g # f => pending'[g] = pending[g]
  BY <1>1, EmptyRange DEF R!DataTypes
<1>4. SameReported
  <2>1. ASSUME NEW k \in Msgs PROVE Somewhere(k) <=> Somewhere(k)'
    BY <1>1, <1>3 DEF Somewhere
  <2> QED
    BY <1>2, <2>1, ByPlace, ByPlaceNext DEF SameReported
<1>5. ASSUME R!WrittenOnce PROVE R!WrittenOnce'
  <2>1. Once
    BY <1>5, ByPlace
  <2>2. Distinct'
    BY <1>1, <1>3, <2>1 DEF Once, Distinct
  <2>3. HeldOnce'
    BY <1>1, <1>3, <2>1 DEF Once, HeldOnce
  <2>4. BufferedOnce' /\ TakenOnce'
    BY <1>1, <1>3, <2>1 DEF Once, BufferedOnce, TakenOnce
  <2> QED
    BY <1>2, <2>2, <2>3, <2>4, ByPlaceNext DEF Once
<1> QED
  BY <1>2, <1>4, <1>5

(* A flusher writes the next message, or buffers it again.                 *)
LEMMA FlushWritesKeeps ==
  ASSUME R!DataTypes, NEW f \in Flushers, R!FlushWrites(f)
  PROVE  R!DataTypes' /\ SameReported /\ (R!WrittenOnce => R!WrittenOnce')
<1> DEFINE rest == Tail(pending[f])
<1>1. pending[f] \in Seq(Msgs) /\ pending[f] # <<>>
  BY DEF R!FlushWrites, R!DataTypes
<1>2. PICK m \in Msgs : m = Head(pending[f])
  BY <1>1, TailRange
<1>3. /\ rest \in Seq(Msgs) /\ R!Range(pending[f]) = R!Range(rest) \cup {m}
      /\ R!IsInjective(pending[f]) => R!IsInjective(rest) /\ m \notin R!Range(rest)
  BY <1>1, <1>2, TailRange
<1>4. /\ UNCHANGED <<buf, fpc, spc, smsg, dropped, updates>>
      /\ sent' = Append(sent, m) /\ sent \in Seq(Msgs)
      /\ pending' = [pending EXCEPT ![f] = rest]
  BY <1>2 DEF R!FlushWrites, R!DataTypes, R!sendVars
<1> HIDE DEF rest
<1>5. /\ sent' \in Seq(Msgs) /\ R!Range(sent') = R!Range(sent) \cup {m}
      /\ R!IsInjective(sent) /\ m \notin R!Range(sent) => R!IsInjective(sent')
  BY <1>4, AppendElements, AppendRange
<1>6. R!DataTypes'
  BY <1>3, <1>4, <1>5 DEF R!DataTypes
<1>7. pending'[f] = rest /\ \A g \in Flushers : g # f => pending'[g] = pending[g]
  BY <1>4 DEF R!DataTypes
<1>8. SameReported
  <2>1. ASSUME NEW k \in Msgs PROVE Somewhere(k) <=> Somewhere(k)'
    BY <1>3, <1>4, <1>5, <1>7 DEF Somewhere
  <2> QED
    BY <1>6, <2>1, ByPlace, ByPlaceNext DEF SameReported
<1>9. ASSUME R!WrittenOnce PROVE R!WrittenOnce'
  <2>1. Once
    BY <1>9, ByPlace
  <2>2. /\ m \notin R!Range(sent) /\ m \notin R!Range(buf) /\ m \notin R!Range(rest)
        /\ \A g \in Flushers : g # f => m \notin R!Range(pending[g])
    BY <1>3, <2>1 DEF Once, Distinct, TakenOnce
  <2>3. \A s \in Senders : smsg[s] # m
    BY <1>3, <2>1, Constants DEF Once, HeldOnce
  <2>4. Distinct'
    BY <1>3, <1>4, <1>5, <1>7, <2>1, <2>2 DEF Once, Distinct
  <2>5. HeldOnce'
    BY <1>3, <1>4, <1>5, <1>7, <2>1, <2>3 DEF Once, HeldOnce
  <2>6. BufferedOnce'
    BY <1>4, <1>5, <2>1, <2>2 DEF Once, BufferedOnce
  <2>7. ASSUME NEW g \in Flushers, NEW k \in R!Range(pending'[g])
        PROVE  /\ k \in R!Range(pending[g]) /\ k # m
               /\ k \notin R!Range(sent') /\ k \notin R!Range(buf')
    <3>1. k \in R!Range(pending[g]) /\ k # m
      BY <1>3, <1>7, <2>2
    <3>2. k \notin R!Range(sent) /\ k \notin R!Range(buf)
      BY <2>1, <3>1 DEF Once, TakenOnce
    <3> QED
      BY <1>4, <1>5, <3>1, <3>2
  <2>8. TakenOnce'
    BY <2>1, <2>7 DEF Once, TakenOnce
  <2> QED
    BY <1>6, <2>4, <2>5, <2>6, <2>8, ByPlaceNext DEF Once
<1> QED
  BY <1>6, <1>8, <1>9

(* A message that cannot be written goes back into the buffer.             *)
LEMMA FlushFailsKeeps ==
  ASSUME R!DataTypes, NEW f \in Flushers, R!FlushFails(f)
  PROVE  R!DataTypes' /\ SameReported /\ (R!WrittenOnce => R!WrittenOnce')
<1> DEFINE rest == Tail(pending[f])
<1>1. pending[f] \in Seq(Msgs) /\ pending[f] # <<>>
  BY DEF R!FlushFails, R!DataTypes
<1>2. PICK m \in Msgs : m = Head(pending[f])
  BY <1>1, TailRange
<1>3. /\ rest \in Seq(Msgs) /\ R!Range(pending[f]) = R!Range(rest) \cup {m}
      /\ R!IsInjective(pending[f]) => R!IsInjective(rest) /\ m \notin R!Range(rest)
  BY <1>1, <1>2, TailRange
<1>4. /\ UNCHANGED <<fpc, spc, smsg, sent, updates>> /\ R!Buffer(m)
      /\ buf \in Seq(Msgs) /\ Len(buf) <= BufferSize
      /\ pending' = [pending EXCEPT ![f] = rest]
  BY <1>2 DEF R!FlushFails, R!DataTypes, R!sendVars
<1> HIDE DEF rest
<1>5. /\ buf' \in Seq(Msgs) /\ Len(buf') <= BufferSize
      /\ R!Range(buf') \subseteq R!Range(buf) \cup {m}
      /\ R!Range(buf) \cup {m} \subseteq R!Range(buf') \cup dropped'
      /\ dropped \subseteq dropped' /\ dropped' \subseteq dropped \cup R!Range(buf)
      /\ R!IsInjective(buf) /\ m \notin R!Range(buf) => R!IsInjective(buf')
  BY <1>4, BufferKeeps
<1>6. R!DataTypes'
  <2>1. dropped' \subseteq Msgs
    BY <1>4, <1>5 DEF R!Range, R!DataTypes
  <2> QED
    BY <1>3, <1>4, <1>5, <2>1 DEF R!DataTypes
<1>7. pending'[f] = rest /\ \A g \in Flushers : g # f => pending'[g] = pending[g]
  BY <1>4 DEF R!DataTypes
<1>8. SameReported
  <2>1. ASSUME NEW k \in Msgs PROVE Somewhere(k) <=> Somewhere(k)'
    BY <1>3, <1>4, <1>5, <1>7 DEF Somewhere
  <2> QED
    BY <1>6, <2>1, ByPlace, ByPlaceNext DEF SameReported
<1>9. ASSUME R!WrittenOnce PROVE R!WrittenOnce'
  <2>1. Once
    BY <1>9, ByPlace
  <2>2. /\ m \notin R!Range(sent) /\ m \notin R!Range(buf) /\ m \notin R!Range(rest)
        /\ \A g \in Flushers : g # f => m \notin R!Range(pending[g])
    BY <1>3, <2>1 DEF Once, Distinct, TakenOnce
  <2>3. \A s \in Senders : smsg[s] # m
    BY <1>3, <2>1, Constants DEF Once, HeldOnce
  <2>4. Distinct'
    BY <1>3, <1>4, <1>5, <1>7, <2>1, <2>2 DEF Once, Distinct
  <2>5. HeldOnce'
    BY <1>3, <1>4, <1>5, <1>7, <2>1, <2>3 DEF Once, HeldOnce
  <2>6. BufferedOnce'
    BY <1>4, <1>5, <2>1, <2>2 DEF Once, BufferedOnce
  <2>7. ASSUME NEW g \in Flushers, NEW k \in R!Range(pending'[g])
        PROVE  /\ k \in R!Range(pending[g]) /\ k # m
               /\ k \notin R!Range(sent') /\ k \notin R!Range(buf')
    <3>1. k \in R!Range(pending[g]) /\ k # m
      BY <1>3, <1>7, <2>2
    <3>2. k \notin R!Range(sent) /\ k \notin R!Range(buf)
      BY <2>1, <3>1 DEF Once, TakenOnce
    <3> QED
      BY <1>4, <1>5, <3>1, <3>2
  <2>8. TakenOnce'
    BY <2>1, <2>7 DEF Once, TakenOnce
  <2> QED
    BY <1>6, <2>4, <2>5, <2>6, <2>8, ByPlaceNext DEF Once
<1> QED
  BY <1>6, <1>8, <1>9

(* A flusher that is not flushing has nothing left to write.               *)
NothingTaken == \A f \in Flushers : fpc[f] # "flush" => pending[f] = <<>>

(* A step of the reporter that takes in no message.                        *)
OtherStep ==
  \/ \E s \in Senders : R!SenderStep(s)
  \/ \E f \in Flushers : R!FlusherStep(f) \/ R!UpdateConn(f)
  \/ UNCHANGED R!vars

(* Such a step moves messages from place to place.                         *)
LEMMA OtherStepKeeps ==
  ASSUME R!DataTypes, NothingTaken, OtherStep
  PROVE  R!DataTypes' /\ NothingTaken' /\ (R!WrittenOnce => R!WrittenOnce') /\ SameReported
<1> DEFINE Kept == R!DataTypes' /\ NothingTaken' /\ (R!WrittenOnce => R!WrittenOnce') /\ SameReported
<1>1. ASSUME NEW s \in Senders, R!SendWrites(s) PROVE Kept
  BY <1>1, SendWritesKeeps DEF R!SendWrites, R!flushVars, NothingTaken
<1>2. ASSUME NEW s \in Senders, R!SendFails(s) PROVE Kept
  <2>1. R!DataTypes'
    BY <1>2 DEF R!SendFails, R!flushVars, R!DataTypes
  <2> QED
    BY <1>2, <2>1, IdleStepKeeps DEF R!SendFails, R!flushVars, NothingTaken
<1>3. ASSUME NEW s \in Senders, R!SendBuffers(s) PROVE Kept
  BY <1>3, SendBuffersKeeps DEF R!SendBuffers, R!flushVars, NothingTaken
<1>4. ASSUME NEW f \in Flushers, R!UpdateConn(f) PROVE Kept
  <2>1. R!DataTypes'
    BY <1>4, Constants DEF R!UpdateConn, R!FlusherGoto, R!sendVars, R!DataTypes
  <2>2. NothingTaken'
    BY <1>4 DEF R!UpdateConn, R!FlusherGoto, NothingTaken, R!DataTypes
  <2> QED
    BY <1>4, <2>1, <2>2, IdleStepKeeps DEF R!UpdateConn, R!sendVars
<1>5. ASSUME NEW f \in Flushers, R!FlushTakes(f) PROVE Kept
  <2>1. pending[f] = <<>>
    BY <1>5 DEF R!FlushTakes, NothingTaken
  <2>2. NothingTaken'
    BY <1>5 DEF R!FlushTakes, R!FlusherGoto, NothingTaken, R!DataTypes
  <2> QED
    BY <1>5, <2>1, <2>2, FlushTakesKeeps
<1>6. ASSUME NEW f \in Flushers, R!FlushWrites(f) PROVE Kept
  <2>1. NothingTaken'
    BY <1>6 DEF R!FlushWrites, NothingTaken, R!DataTypes
  <2> QED
    BY <1>6, <2>1, FlushWritesKeeps
<1>7. ASSUME NEW f \in Flushers, R!FlushFails(f) PROVE Kept
  <2>1. NothingTaken'
    BY <1>7 DEF R!FlushFails, NothingTaken, R!DataTypes
  <2> QED
    BY <1>7, <2>1, FlushFailsKeeps
<1>8. ASSUME NEW f \in Flushers, R!FlushEnds(f) PROVE Kept
  <2>1. R!DataTypes' /\ NothingTaken'
    BY <1>8 DEF R!FlushEnds, R!FlusherGoto, R!sendVars, R!DataTypes, NothingTaken
  <2> QED
    BY <1>8, <2>1, IdleStepKeeps DEF R!FlushEnds, R!sendVars
<1>9. CASE UNCHANGED R!vars
  <2>1. R!DataTypes' /\ NothingTaken'
    BY <1>9 DEF R!vars, R!sendVars, R!flushVars, R!DataTypes, NothingTaken
  <2> QED
    BY <1>9, <2>1, IdleStepKeeps DEF R!vars, R!sendVars, R!flushVars
<1> QED
  BY <1>1, <1>2, <1>3, <1>4, <1>5, <1>6, <1>7, <1>8, <1>9
     DEF OtherStep, R!SenderStep, R!FlusherStep

(* Every step of the reporter keeps its types, holds a message in one      *)
(* place and forgets none.                                                 *)
LEMMA ReporterKeeps ==
  ASSUME R!DataTypes, NothingTaken, [R!Next]_(R!vars)
  PROVE  /\ R!DataTypes' /\ NothingTaken' /\ (R!WrittenOnce => R!WrittenOnce')
         /\ \A m \in Msgs : R!Reported(m) => R!Reported(m)'
<1>1. ASSUME NEW s \in Senders, NEW m \in Msgs, R!Send(s, m)
      PROVE  /\ R!DataTypes' /\ NothingTaken' /\ (R!WrittenOnce => R!WrittenOnce')
             /\ \A k \in Msgs : R!Reported(k) => R!Reported(k)'
  <2>1. NothingTaken'
    BY <1>1 DEF R!Send, R!flushVars, NothingTaken
  <2> QED
    BY <1>1, <2>1, SendKeeps
<1>2. OtherStep \/ \E s \in Senders, m \in Msgs : R!Send(s, m)
  BY DEF R!Next, OtherStep
<1> QED
  BY <1>1, <1>2, OtherStepKeeps DEF SameReported

-----------------------------------------------------------------------------
(* The print adapters *)

(* What a step of one call does to the others: nothing.                    *)
OthersSame(w) == \A v \in Workers : v # w => at'[v] = at[v]

(* A call goes on until it returns ...                                     *)
LEMMA CallStepKeeps ==
  ASSUME P!TypeOK, NEW w \in Workers, P!SendStep(w)
  PROVE  P!TypeOK' /\ OthersSame(w) /\ at[w] # "off" /\ at'[w] # "off"
<1> DEFINE Kept == P!TypeOK' /\ OthersSame(w) /\ at[w] # "off" /\ at'[w] # "off"
<1> SUFFICES Kept
  OBVIOUS
<1>r. ASSUME NEW o \in {"ok", "error"}, P!Return(w, o), at[w] # "off" PROVE Kept
  BY <1>r DEF P!Return, P!Goto, P!TypeOK, P!LprAcks, OthersSame
<1>1. CASE P!Expire(w) \/ P!DialOk(w)
  BY <1>1 DEF P!Expire, P!DialOk, P!Goto, P!TypeOK, OthersSame
<1>2. CASE P!DialFails(w) \/ P!RawReturns(w) \/ P!RawTimeout(w) \/ P!LprFails(w)
  BY <1>2, <1>r DEF P!DialFails, P!RawReturns, P!RawTimeout, P!LprFails
<1>3. CASE P!RawCopied(w) \/ P!RawBroken(w)
  BY <1>3 DEF P!RawCopied, P!RawBroken, P!TypeOK, OthersSame
<1>4. CASE P!LprAck(w)
  <2>1. CASE P!Return(w, "ok")
    BY <1>4, <1>r, <2>1 DEF P!LprAck
  <2>2. CASE ~P!Return(w, "ok")
    <3>1. acks[w] \in Nat /\ acks[w] + 1 < 4 /\ acks' = [acks EXCEPT ![w] = acks[w] + 1]
      BY <1>4, <2>2 DEF P!LprAck, P!LprAcks, P!TypeOK
    <3>2. acks' \in [Workers -> 0 .. P!LprAcks - 1]
      BY <3>1 DEF P!TypeOK, P!LprAcks
    <3> QED
      BY <1>4, <2>2, <3>2 DEF P!LprAck, P!TypeOK, OthersSame
  <2> QED
    BY <2>1, <2>2
<1>5. CASE P!HttpAnswer(w) \/ P!HttpFails(w)
  BY <1>5, <1>r DEF P!HttpAnswer, P!HttpFails
<1>6. CASE P!SpoolOk(w) \/ P!ConvertEnds(w)
  BY <1>6 DEF P!SpoolOk, P!ConvertEnds, P!Goto, P!TypeOK, OthersSame
<1>7. CASE P!SpoolFails(w) \/ P!LpFails(w) \/ P!LpOk(w)
  BY <1>7, <1>r DEF P!SpoolFails, P!LpFails, P!LpOk
<1> QED
  BY <1>1, <1>2, <1>3, <1>4, <1>5, <1>6, <1>7
     DEF P!SendStep, P!Bounded, P!Printer, P!RawStep, P!CupsStep

(* ... it begins ...                                                       *)
LEMMA CallBeginsKeeps ==
  ASSUME P!TypeOK, NEW w \in Workers, NEW p \in Protocols, P!SendBegin(w, p)
  PROVE  P!TypeOK' /\ OthersSame(w) /\ at'[w] # "off"
<1>1. PICK pc \in {"http", "spool", "dial"} : at' = [at EXCEPT ![w] = pc]
  BY DEF P!SendBegin, P!Goto
<1> QED
  BY <1>1 DEF P!SendBegin, P!TypeOK, OthersSame

(* ... and is over.                                                        *)
LEMMA CallEndsKeeps ==
  ASSUME P!TypeOK, NEW w \in Workers, P!SendEnd(w)
  PROVE  P!TypeOK' /\ OthersSame(w) /\ at'[w] = "off"
  BY DEF P!SendEnd, P!Goto, P!TypeOK, OthersSame

(* A context that ends moves no call by itself.                            *)
LEMMA CallsExpireKeeps ==
  ASSUME P!TypeOK, P!ExpireAll \/ UNCHANGED sendVars
  PROVE  P!TypeOK' /\ at' = at
  BY DEF P!TypeOK, P!ExpireAll, sendVars

-----------------------------------------------------------------------------
(* How Lifecycle uses the two *)

(* The steps of Run, Shutdown and their parts that leave calls and workers *)
(* alone, those that touch the reporter apart.                             *)
PartStep ==
  \/ Load \/ InitStorage \/ Credential \/ StartProber \/ OnTaskResult \/ LinkStarted \/ LinkFails
  \/ StartOps \/ Signal \/ ShutdownTimeout \/ StopLink \/ CloseQueues \/ WorkersStopped
  \/ StopProber \/ ProberStopped \/ StopOps \/ CloseDb \/ ShutdownComplete \/ ProberEnds
  \/ MessageHandled \/ DispatcherEnds
  \/ \E d \in Devices : ConsumerChecks(d) \/ ConsumerDequeues(d) \/ ConsumerEnds(d)
ReportStep ==
  \/ LinkConnects \/ DomainUpdated \/ ReconnectUpdates
  \/ \E s \in Senders : Reporting(s)
  \/ \E f \in Flushers : Flushing(f)
WorkerActs(w) == Sending(w) \/ WorkerStep(w) \/ \E t \in Tasks : WorkerTakes(w, t)

(* Every step is of one of these kinds.                                    *)
LEMMA StepKinds ==
  ASSUME [Next]_vars
  PROVE  \/ PartStep \/ Recover \/ StartExecutor \/ StopExecutor \/ ReportStep
         \/ \E m \in Beats : HeartbeatReports(m)
         \/ \E t \in Tasks : TaskArrives(t) \/ TaskCancelled(t)
         \/ \E d \in Devices, t \in Tasks : ConsumerHands(d, t)
         \/ \E w \in Workers : WorkerActs(w)
         \/ UNCHANGED vars
  BY DEF Next, StartUp, ShutdownStep, DispatcherStep, ConsumerStep, PartStep, ReportStep, WorkerActs

(* What the first kind leaves alone.                                       *)
LEMMA PartStepAside ==
  ASSUME PartStep
  PROVE  /\ UNCHANGED <<taskVars, workVars, sendVars, reportVars>>
         /\ UNCHANGED cbReady \/ cbReady'
  BY DEF PartStep, Load, InitStorage, Credential, StartProber, OnTaskResult, LinkStarted, LinkFails,
     StartOps, Signal, ShutdownTimeout, StopLink, CloseQueues, WorkersStopped, StopProber,
     ProberStopped, StopOps, CloseDb, ShutdownComplete, ProberEnds, MessageHandled, DispatcherEnds,
     ConsumerChecks, ConsumerDequeues, ConsumerEnds, execVars

(* What the second kind leaves alone.                                      *)
LEMMA ReportStepAside ==
  ASSUME ReportStep
  PROVE  UNCHANGED <<sdPc, cancelled, cbReady, taskVars, consVars, workVars, sendVars>> /\ OtherStep
  BY Constants DEF ReportStep, LinkConnects, DomainUpdated, ReconnectUpdates, Reporting, Flushing,
     execVars, OtherStep

(* A call of Send begins, goes on, ends or has its context ended.          *)
LEMMA CallStep ==
  ASSUME [Next]_vars
  PROVE  \/ P!ExpireAll \/ UNCHANGED sendVars
         \/ \E w \in Workers : \/ P!SendStep(w) \/ P!SendEnd(w)
                               \/ \E p \in Protocols : P!SendBegin(w, p)
<1>1. CASE PartStep \/ ReportStep
  BY <1>1, PartStepAside, ReportStepAside
<1>2. CASE \/ Recover \/ StartExecutor \/ StopExecutor
           \/ \E m \in Beats : HeartbeatReports(m)
           \/ \E t \in Tasks : TaskArrives(t) \/ TaskCancelled(t)
           \/ \E d \in Devices, t \in Tasks : ConsumerHands(d, t)
           \/ UNCHANGED vars
  BY <1>2 DEF Recover, StartExecutor, StopExecutor, HeartbeatReports, TaskArrives, TaskCancelled,
     ConsumerHands, vars
<1>3. ASSUME NEW w \in Workers, WorkerActs(w)
      PROVE  \/ UNCHANGED sendVars \/ P!SendStep(w) \/ P!SendEnd(w)
             \/ \E p \in Protocols : P!SendBegin(w, p)
  BY <1>3 DEF WorkerActs, Sending, WorkerStep, TaskTried, WorkerTakes, DeviceOffline, LookupFails,
     DataUnreadable, WorkerSends, LoopCancelled, WorkerSucceeds, WorkerFails, LookupReported,
     DelayOver, WorkerReported, WorkerExits
<1> QED
  BY <1>1, <1>2, <1>3, StepKinds

(* How many results of its task a worker has reported: none without a      *)
(* task, at most one per retry before an attempt, and one more when the    *)
(* lookup of an attempt has failed.                                        *)
Counted ==
  \A w \in Workers :
    /\ wpc[w] \in {"none", "idle", "done"} => wretry[w] = 0 /\ wres[w] = 0
    /\ wpc[w] \in {"try", "send", "delay"} => wretry[w] <= MaxRetry /\ wres[w] <= wretry[w]
    /\ wpc[w] = "refused" => wretry[w] <= MaxRetry /\ wres[w] <= wretry[w] + 1

(* The kinds of a worker's steps: in Send, taking a task, going on with    *)
(* it, retrying, firing a result, giving it up.                            *)
Moves(w, from, to) ==
  wpc[w] = from /\ WorkerGoto(w, to) /\ UNCHANGED <<wtask, wretry, wres, early, reportVars>>
Retries(w) ==
  /\ wpc[w] \in {"try", "send", "refused"} /\ wretry[w] < MaxRetry
  /\ WorkerGoto(w, "delay") /\ wretry' = [wretry EXCEPT ![w] = @ + 1]
  /\ UNCHANGED <<wtask, wres, early, reportVars>>
Fires(w, pc) ==
  /\ wpc[w] \in {"try", "send", "refused"} /\ (pc = "refused" => wpc[w] = "try")
  /\ Fire(w, pc)
  /\ UNCHANGED wretry \/ (pc = "report" /\ wretry' = [wretry EXCEPT ![w] = @ + 1])
Leaves(w) ==
  /\ wpc[w] \in {"try", "send", "refused"} \/ (wpc[w] = "report" /\ spc[w] = "idle")
  /\ wpc[w] = "refused" => spc[w] = "idle"
  /\ Idle(w) /\ UNCHANGED <<early, reportVars>>
CallAlong(w) ==
  /\ wpc[w] = "send" /\ wpc'[w] # "send" => P!SendEnd(w)
  /\ wpc[w] # "send" /\ wpc'[w] # "send" => UNCHANGED sendVars
  /\ wpc[w] # "send" /\ wpc'[w] = "send" => \E p \in Protocols : P!SendBegin(w, p)
Handles(w) ==
  /\ UNCHANGED taskVars
  /\ \/ Moves(w, "try", "delay") \/ Moves(w, "delay", "try") \/ Moves(w, "idle", "done")
     \/ Moves(w, "try", "send") \/ Retries(w) \/ Fires(w, "refused") \/ Fires(w, "report") \/ Leaves(w)
  /\ wpc[w] = "refused" => spc[w] = "idle"
  /\ CallAlong(w)

(* Every step of a worker outside Send is of one of these kinds.           *)
LEMMA WorkerKinds ==
  ASSUME WorkTypes, NEW w \in Workers, WorkerStep(w)
  PROVE  Handles(w)
<1>0. wpc \in [Workers -> WorkPcs]
  BY DEF WorkTypes
<1>1. CASE DeviceOffline(w) \/ DelayOver(w) \/ WorkerExits(w)
  BY <1>0, <1>1 DEF DeviceOffline, DelayOver, WorkerExits, Handles, Moves, WorkerGoto, CallAlong
<1>2. CASE WorkerSends(w)
  BY <1>0, <1>2 DEF WorkerSends, Handles, Moves, WorkerGoto, CallAlong
<1>3. CASE LookupFails(w)
  BY <1>0, <1>3 DEF LookupFails, Handles, Fires, Fire, WorkerGoto, CallAlong
<1>4. CASE WorkerSucceeds(w)
  BY <1>0, <1>4 DEF WorkerSucceeds, Handles, Fires, Fire, WorkerGoto, CallAlong
<1>5. CASE LoopCancelled(w) \/ WorkerReported(w)
  BY <1>0, <1>5 DEF LoopCancelled, WorkerReported, Handles, Leaves, Idle, WorkerGoto, CallAlong
<1>6. ASSUME HandleRetry(w), UNCHANGED taskVars, wpc[w] \in {"try", "send", "refused"},
             wpc[w] = "send" => P!SendEnd(w), wpc[w] # "send" => UNCHANGED sendVars,
             wpc[w] = "refused" => spc[w] = "idle"
      PROVE  Handles(w)
  <2>1. CASE Idle(w) /\ UNCHANGED <<early, reportVars>>
    BY <1>0, <1>6, <2>1 DEF Handles, Leaves, Idle, WorkerGoto, CallAlong
  <2>2. CASE /\ wretry' = [wretry EXCEPT ![w] = @ + 1] /\ wretry[w] < MaxRetry
             /\ WorkerGoto(w, "delay") /\ UNCHANGED <<wtask, wres, early, reportVars>>
    BY <1>0, <1>6, <2>2 DEF Handles, Retries, WorkerGoto, CallAlong
  <2>3. CASE wretry' = [wretry EXCEPT ![w] = @ + 1] /\ Fire(w, "report")
    <3>1. wpc'[w] = "report"
      BY <1>0, <2>3 DEF Fire, WorkerGoto
    <3> QED
      BY <1>6, <2>3, <3>1 DEF Handles, Fires, CallAlong
  <2> QED
    BY <1>6, <2>1, <2>2, <2>3 DEF HandleRetry
<1>7. CASE DataUnreadable(w) \/ WorkerFails(w) \/ LookupReported(w)
  BY <1>6, <1>7 DEF DataUnreadable, WorkerFails, LookupReported
<1> QED
  BY <1>1, <1>2, <1>3, <1>4, <1>5, <1>7 DEF WorkerStep, TaskTried

(* The result a worker fires next is a message of the reporter.            *)
LEMMA FireSends ==
  ASSUME WorkTypes, Counted, NEW w \in Workers, NEW pc, Fires(w, pc)
  PROVE  /\ wtask[w] \in Tasks /\ wres[w] + 1 \in 1 .. MaxRetry + 2
         /\ <<wtask[w], wres[w] + 1>> \in Msgs
         /\ \/ wres' = [wres EXCEPT ![w] = wres[w] + 1] /\ R!Send(w, <<wtask[w], wres[w] + 1>>)
               /\ UNCHANGED early
            \/ UNCHANGED <<wres, reportVars>> /\ ~cbReady /\ early' = early \cup {wtask[w]}
<1>1. /\ wpc[w] \in {"try", "send", "refused"} /\ wres \in [Workers -> 0 .. MaxRetry + 2]
      /\ wretry[w] \in Nat /\ wretry[w] <= MaxRetry /\ wres[w] <= wretry[w] + 1 /\ MaxRetry \in Nat
  BY Constants DEF Fires, WorkTypes, Counted
<1>2. wtask[w] \in Tasks
  BY <1>1 DEF WorkTypes
<1>3. wres[w] + 1 \in 1 .. MaxRetry + 2
  BY <1>1
<1>4. <<wtask[w], wres[w] + 1>> \in Msgs
  BY <1>2, <1>3, Constants DEF Results
<1>5. CASE ~cbReady /\ early' = early \cup {wtask[w]} /\ UNCHANGED <<wres, reportVars>>
  BY <1>2, <1>3, <1>4, <1>5
<1>6. CASE /\ wres' = [wres EXCEPT ![w] = @ + 1] /\ R!Send(w, <<wtask[w], wres'[w]>>)
           /\ UNCHANGED early
  <2>1. wres'[w] = wres[w] + 1
    BY <1>1, <1>6
  <2> QED
    BY <1>2, <1>3, <1>4, <1>6, <2>1
<1> QED
  BY <1>5, <1>6 DEF Fires, Fire

(* A worker's step leaves the reporter alone or gives it a result.         *)
LEMMA WorkerReports ==
  ASSUME WorkTypes, Counted, NEW w \in Workers, WorkerActs(w)
  PROVE  \/ UNCHANGED reportVars
         \/ \E m \in Msgs : R!Send(w, m)
<1>1. CASE Sending(w) \/ \E t \in Tasks : WorkerTakes(w, t)
  BY <1>1 DEF Sending, WorkerTakes
<1>2. CASE WorkerStep(w)
  <2>1. Handles(w)
    BY <1>2, WorkerKinds
  <2>2. ASSUME NEW pc, Fires(w, pc) PROVE UNCHANGED reportVars \/ \E m \in Msgs : R!Send(w, m)
    BY <2>2, FireSends
  <2> QED
    BY <2>1, <2>2 DEF Handles, Moves, Retries, Leaves
<1> QED
  BY <1>1, <1>2 DEF WorkerActs

(* Every step is one of the reporter or leaves it alone.                   *)
LEMMA ReporterStep ==
  ASSUME WorkTypes, Counted, [Next]_vars
  PROVE  [R!Next]_(R!vars)
<1> DEFINE Goal == R!Next \/ UNCHANGED R!vars
<1> SUFFICES Goal
  OBVIOUS
<1>0. ASSUME UNCHANGED reportVars PROVE Goal
  BY <1>0 DEF reportVars, R!vars, R!sendVars, R!flushVars
<1>1. CASE PartStep
  BY <1>0, <1>1, PartStepAside
<1>2. CASE ReportStep
  <2>1. OtherStep
    BY <1>2, ReportStepAside
  <2> QED
    BY <2>1 DEF OtherStep, R!Next
<1>3. CASE \/ Recover \/ StartExecutor \/ StopExecutor
           \/ \E t \in Tasks : TaskArrives(t) \/ TaskCancelled(t)
           \/ \E d \in Devices, t \in Tasks : ConsumerHands(d, t)
           \/ UNCHANGED vars
  BY <1>0, <1>3 DEF Recover, StartExecutor, StopExecutor, TaskArrives, TaskCancelled,
     ConsumerHands, vars
<1>4. ASSUME NEW m \in Beats, HeartbeatReports(m) PROVE Goal
  BY <1>4, Constants DEF HeartbeatReports, R!Next
<1>5. ASSUME NEW w \in Workers, WorkerActs(w) PROVE Goal
  <2>1. UNCHANGED reportVars \/ \E m \in Msgs : R!Send(w, m)
    BY <1>5, WorkerReports
  <2>2. w \in Senders
    BY Constants
  <2> QED
    BY <1>0, <2>1, <2>2 DEF R!Next
<1> QED
  BY <1>1, <1>2, <1>3, <1>4, <1>5, StepKinds

-----------------------------------------------------------------------------
(* The order in which the parts start and stop *)

(* Nothing runs before Run has started it, and Shutdown is last.           *)
NotStarted ==
  /\ sdPc # "none" => runPc \in {"shutdown", "exited"}
  /\ runPc \in {"load", "storage", "recover"} => recovered = {}
  /\ runPc \in {"load", "storage", "recover", "credential", "prober", "executor"} =>
       /\ \A w \in Workers : wpc[w] = "none"
       /\ \A d \in Devices : cpc[d] = "none"
  /\ runPc = "link" \/ link # "off" => cbReady
  /\ disp # "off" => link # "off"
  /\ arrived # {} \/ link # "off" => runPc \in {"link", "ops", "up", "shutdown", "exited"}

(* What Shutdown has waited for stays stopped.                             *)
Stopped ==
  /\ disp \notin {"off", "ended"} => link = "up"
  /\ sdPc \notin {"none", "link"} => link # "up" /\ spc[Heartbeat] = "idle"
  /\ sdPc \in {"prober", "proberdone", "ops", "db", "done"} =>
       /\ \A w \in Workers : wpc[w] \in {"none", "done"}
       /\ \A d \in Devices : cpc[d] \in {"none", "done"}
  /\ sdPc \in {"ops", "db", "done"} => prober \in {"off", "ended"}
  /\ sdPc \in {"db", "done"} => ops = "stopped"
  /\ db = "closed" => sdPc = "done"

(* A worker's step leaves the parts, the consumers and the heartbeat alone. *)
LEMMA WorkerAside ==
  ASSUME WorkTypes, Counted, P!TypeOK, R!DataTypes, NEW w \in Workers, WorkerActs(w)
  PROVE  /\ UNCHANGED <<runPc, sdPc, partVars, cancelled, cbReady, consVars, recovered, arrived>>
         /\ spc'[Heartbeat] = spc[Heartbeat]
         /\ wpc[w] \notin {"none", "done"}
         /\ \A v \in Workers : v # w => wpc'[v] = wpc[v]
<1>1. UNCHANGED <<runPc, sdPc, partVars, cancelled, cbReady, consVars, recovered, arrived>>
  BY DEF WorkerActs, Sending, WorkerStep, TaskTried, WorkerTakes, DeviceOffline, LookupFails,
     DataUnreadable, WorkerSends, LoopCancelled, WorkerSucceeds, WorkerFails, LookupReported,
     DelayOver, WorkerReported, WorkerExits, taskVars, execVars
<1>2. wpc[w] \notin {"none", "done"} \/ Sending(w)
  BY DEF WorkerActs, WorkerStep, TaskTried, WorkerTakes, DeviceOffline, LookupFails,
     DataUnreadable, WorkerSends, LoopCancelled, WorkerSucceeds, WorkerFails, LookupReported,
     DelayOver, WorkerReported, WorkerExits
<1>3. Sending(w) => at[w] # "off"
  BY CallStepKeeps DEF Sending
<1>4. wpc[w] \notin {"none", "done"}
  BY <1>2, <1>3 DEF WorkTypes
<1>5. \A v \in Workers : v # w => wpc'[v] = wpc[v]
  <2>0. wpc \in [Workers -> WorkPcs]
    BY DEF WorkTypes
  <2>1. CASE Sending(w) \/ \E t \in Tasks : WorkerTakes(w, t)
    BY <2>0, <2>1 DEF Sending, WorkerTakes, WorkerGoto, execVars, workVars
  <2>2. CASE WorkerStep(w)
    BY <2>0, <2>2, WorkerKinds DEF Handles, Moves, Retries, Fires, Leaves, Fire, Idle, WorkerGoto
  <2> QED
    BY <2>1, <2>2 DEF WorkerActs
<1>6. spc'[Heartbeat] = spc[Heartbeat]
  <2>1. CASE UNCHANGED reportVars
    BY <2>1 DEF reportVars
  <2>2. ASSUME NEW m \in Msgs, R!Send(w, m) PROVE spc'[Heartbeat] = spc[Heartbeat]
    <3>1. spc \in [Senders -> {"idle", "write", "buffer"}] /\ w \in Senders /\ Heartbeat # w
      BY Constants DEF R!DataTypes
    <3>2. \E pc : spc' = [spc EXCEPT ![w] = pc]
      BY <2>2 DEF R!Send
    <3> QED
      BY <3>1, <3>2, Constants
  <2> QED
    BY <2>1, <2>2, WorkerReports
<1> QED
  BY <1>1, <1>4, <1>5, <1>6

(* No step starts a part too early or again, or lets one run that Shutdown *)
(* has waited for.                                                         *)
LEMMA OrderKept ==
  ASSUME PartTypes, WorkTypes, Counted, P!TypeOK, R!DataTypes, NotStarted, Stopped, [Next]_vars
  PROVE  PartTypes' /\ NotStarted' /\ Stopped'
<1> DEFINE Kept == PartTypes' /\ NotStarted' /\ Stopped'
<1> SUFFICES Kept
  OBVIOUS
<1>0. /\ runPc \in RunPcs /\ sdPc \in SdPcs /\ link \in {"off", "connecting", "failed", "up", "stopped"}
      /\ prober \in {"off", "on", "ended"} /\ disp \in {"off", "read", "store", "switch", "ended"}
      /\ cpc \in [Devices -> {"none", "check", "create", "wait", "done"}] /\ shut \subseteq Devices
      /\ spc \in [Senders -> {"idle", "write", "buffer"}]
      /\ wpc \in [Workers -> WorkPcs]
  BY DEF PartTypes, WorkTypes, R!DataTypes
<1> USE DEF PartTypes, RunPcs, SdPcs, NotStarted, Stopped, partVars, taskVars, consVars, workVars,
            execVars, reportVars, SdGoto
<1>1. CASE Load \/ Credential \/ LinkStarted \/ LinkFails \/ StartOps
  BY <1>1 DEF Load, Credential, LinkStarted, LinkFails, StartOps
<1>2. CASE InitStorage \/ Recover \/ StartProber
  BY <1>2 DEF InitStorage, Recover, StartProber
<1>3. CASE StartExecutor
  BY <1>3 DEF StartExecutor
<1>4. CASE OnTaskResult
  BY <1>4 DEF OnTaskResult
<1>5. CASE LinkConnects
  <2>1. UNCHANGED spc
    BY <1>5 DEF LinkConnects, R!UpdateConn, R!sendVars
  <2> QED
    BY <1>5, <2>1 DEF LinkConnects
<1>6. CASE Signal \/ ShutdownTimeout \/ ShutdownComplete
  BY <1>6 DEF Signal, ShutdownTimeout, ShutdownComplete, Starting
<1>7. CASE StopLink
  <2>1. /\ sdPc = "link" /\ sdPc' = "executor" /\ spc' = spc /\ spc[Heartbeat] = "idle"
        /\ disp \in {"off", "ended"}
        /\ UNCHANGED <<runPc, db, prober, ops, disp, cbReady, recovered, arrived, wpc, cpc, shut>>
    BY <1>7 DEF StopLink
  <2>2. CASE link = "up"
    <3>1. link' = "stopped"
      BY <1>7, <2>2 DEF StopLink
    <3> QED
      BY <2>1, <2>2, <3>1
  <2>3. CASE link # "up"
    <3>1. link' = link
      BY <1>7, <2>3 DEF StopLink
    <3> QED
      BY <2>1, <2>3, <3>1
  <2> QED
    BY <2>2, <2>3
<1>8. CASE StopExecutor \/ CloseQueues
  <2>1. CASE StopExecutor
    BY <2>1 DEF StopExecutor
  <2>2. CASE CloseQueues
    <3>1. /\ sdPc = "close" /\ sdPc' = "workers" /\ shut' \subseteq Devices
          /\ UNCHANGED <<runPc, db, link, prober, ops, disp, cbReady, recovered, arrived, wpc, cpc, spc>>
      BY <2>2 DEF CloseQueues
    <3> QED
      BY <3>1
  <2> QED
    BY <1>8, <2>1, <2>2
<1>9. CASE WorkersStopped \/ StopProber \/ ProberStopped
  BY <1>9 DEF WorkersStopped, StopProber, ProberStopped
<1>10. CASE StopOps \/ CloseDb \/ ProberEnds
  BY <1>10 DEF StopOps, CloseDb, ProberEnds
<1>11. ASSUME NEW t \in Tasks, TaskArrives(t) \/ TaskCancelled(t) PROVE Kept
  BY <1>11 DEF TaskArrives, TaskCancelled
<1>12. CASE MessageHandled \/ DispatcherEnds
  BY <1>12 DEF MessageHandled, DispatcherEnds
<1>13. CASE DomainUpdated
  <2>1. UNCHANGED spc
    BY <1>13 DEF DomainUpdated, R!UpdateConn, R!sendVars
  <2> QED
    BY <1>13, <2>1 DEF DomainUpdated
<1>14. ASSUME NEW d \in Devices,
              \/ ConsumerChecks(d) \/ ConsumerDequeues(d) \/ ConsumerEnds(d)
              \/ \E t \in Tasks : ConsumerHands(d, t)
       PROVE  Kept
  <2>1. /\ UNCHANGED <<runPc, sdPc, partVars, cbReady, recovered, arrived, wpc, shut, spc>>
        /\ cpc[d] \in {"check", "create", "wait"}
        /\ UNCHANGED cpc \/ \E pc \in {"create", "wait", "done"} : cpc' = [cpc EXCEPT ![d] = pc]
    BY <1>14 DEF ConsumerChecks, ConsumerDequeues, ConsumerEnds, ConsumerHands, ConsumerGoto
  <2>2. \A e \in Devices : e # d => cpc'[e] = cpc[e]
    BY <1>0, <2>1
  <2>3. cpc' \in [Devices -> {"none", "check", "create", "wait", "done"}]
    BY <1>0, <2>1
  <2>4. NotStarted'
    BY <2>1, <2>2, <2>3
  <2>5. Stopped'
    BY <2>1, <2>2, <2>3
  <2> QED
    BY <2>1, <2>3, <2>4, <2>5
<1>15. ASSUME NEW m \in Beats, HeartbeatReports(m) PROVE Kept
  BY <1>15 DEF HeartbeatReports
<1>16. ASSUME UNCHANGED <<runPc, sdPc, partVars, cbReady, recovered, arrived, wpc, consVars>>,
              spc'[Heartbeat] = spc[Heartbeat] \/ spc[Heartbeat] # "idle"
       PROVE  Kept
  BY <1>16
<1>17. CASE ReconnectUpdates
  <2>1. UNCHANGED spc
    BY <1>17 DEF ReconnectUpdates, R!UpdateConn, R!sendVars
  <2> QED
    BY <1>16, <1>17, <2>1 DEF ReconnectUpdates
<1>18. ASSUME NEW s \in Senders, Reporting(s) PROVE Kept
  <2>1. spc'[Heartbeat] = spc[Heartbeat] \/ spc[Heartbeat] # "idle"
    BY <1>0, <1>18, Constants DEF Reporting, R!SenderStep, R!SendWrites, R!SendFails, R!SendBuffers,
       R!SenderDone
  <2> QED
    BY <1>16, <1>18, <2>1 DEF Reporting
<1>19. ASSUME NEW f \in Flushers, Flushing(f) PROVE Kept
  <2>1. UNCHANGED spc
    BY <1>19 DEF Flushing, R!FlusherStep, R!FlushTakes, R!FlushWrites, R!FlushFails, R!FlushEnds,
       R!sendVars
  <2> QED
    BY <1>16, <1>19, <2>1 DEF Flushing
<1>20. ASSUME NEW w \in Workers, WorkerActs(w) PROVE Kept
  <2>1. /\ UNCHANGED <<runPc, sdPc, partVars, cancelled, cbReady, consVars, recovered, arrived>>
        /\ spc'[Heartbeat] = spc[Heartbeat] /\ wpc[w] \notin {"none", "done"}
        /\ \A v \in Workers : v # w => wpc'[v] = wpc[v]
    BY <1>20, WorkerAside
  <2> QED
    BY <2>1
<1>21. CASE UNCHANGED vars
  BY <1>16, <1>21 DEF vars
<1> QED
  BY <1>1, <1>2, <1>3, <1>4, <1>5, <1>6, <1>7, <1>8, <1>9, <1>10, <1>11, <1>12, <1>13, <1>14, <1>15,
     <1>17, <1>18, <1>19, <1>20, <1>21, StepKinds DEF PartStep, ReportStep

-----------------------------------------------------------------------------
(* The workers and their tasks *)

(* Before the callback is registered only recovered tasks are about.       *)
Heard ==
  /\ arrived # {} => cbReady
  /\ todo \subseteq recovered \cup arrived /\ ready \subseteq recovered \cup arrived
  /\ \A w \in Workers : wtask[w] # NoTask => wtask[w] \in recovered \cup arrived
  /\ early \subseteq recovered

(* A step of the parts: tasks may come and go, but no worker moves;        *)
(* whoever ends a report empties the hands it was in.                      *)
WorkersWait ==
  /\ UNCHANGED workVars
  /\ \A w \in Workers : /\ at'[w] = at[w]
                        /\ smsg'[w] = smsg[w] \/ smsg'[w] = NoTask
TasksKnown ==
  /\ recovered \subseteq recovered' /\ recovered' \subseteq Tasks
  /\ arrived \subseteq arrived' /\ arrived' \subseteq Tasks
  /\ todo' \subseteq recovered' \cup arrived' /\ ready' \subseteq recovered' \cup arrived'
  /\ arrived' # {} => cbReady'

(* Such a step keeps the workers' state.                                   *)
LEMMA WaitKeeps ==
  ASSUME WorkTypes, Counted, Heard, WorkersWait, TasksKnown
  PROVE  WorkTypes' /\ Counted' /\ Heard'
<1>1. Heard'
  BY DEF Heard, WorkersWait, workVars, TasksKnown
<1>2. Counted'
  BY DEF Counted, WorkersWait, workVars
<1>3. WorkTypes'
  BY DEF WorkTypes, WorkersWait, workVars, TasksKnown
<1> QED
  BY <1>1, <1>2, <1>3

(* What is known of one worker.                                            *)
WorkerOk(w) ==
  /\ wtask[w] # NoTask <=> wpc[w] \in {"try", "send", "refused", "delay", "report"}
  /\ at[w] # "off" <=> wpc[w] = "send"
  /\ smsg[w] # NoTask => wpc[w] \in {"refused", "report"} /\ smsg[w] = <<wtask[w], wres[w]>>
  /\ wpc[w] \in {"none", "idle", "done"} => wretry[w] = 0 /\ wres[w] = 0
  /\ wpc[w] \in {"try", "send", "delay"} => wretry[w] <= MaxRetry /\ wres[w] <= wretry[w]
  /\ wpc[w] = "refused" => wretry[w] <= MaxRetry /\ wres[w] <= wretry[w] + 1
  /\ wtask[w] # NoTask => wtask[w] \in recovered \cup arrived
WorkFuncs ==
  /\ wpc \in [Workers -> WorkPcs] /\ wtask \in [Workers -> Tasks \cup {NoTask}]
  /\ wretry \in [Workers -> 0 .. MaxRetry + 1] /\ wres \in [Workers -> 0 .. MaxRetry + 2]

(* A step of one worker keeps the others' state.                           *)
LEMMA OneWorkerKeeps ==
  ASSUME WorkTypes, Counted, Heard, NEW w \in Workers,
         UNCHANGED <<recovered, arrived, cbReady>>,
         todo' \subseteq todo, ready' \subseteq ready,
         early' = early \/ (~cbReady /\ early' = early \cup {wtask[w]} /\ wtask[w] # NoTask),
         WorkFuncs', WorkerOk(w)',
         \A v \in Workers : v # w =>
           /\ wpc'[v] = wpc[v] /\ wtask'[v] = wtask[v] /\ wretry'[v] = wretry[v] /\ wres'[v] = wres[v]
           /\ at'[v] = at[v] /\ smsg'[v] = smsg[v]
  PROVE  WorkTypes' /\ Counted' /\ Heard'
<1>1. \A v \in Workers : WorkerOk(v)
  BY DEF WorkTypes, Counted, Heard, WorkerOk
<1>2. \A v \in Workers : WorkerOk(v)'
  BY <1>1 DEF WorkerOk
<1>3. wtask[w] # NoTask => wtask[w] \in Tasks /\ wtask[w] \in recovered \cup arrived
  BY DEF WorkTypes, Heard
<1>4. early' \subseteq Tasks /\ early' \subseteq recovered'
  BY <1>3 DEF WorkTypes, Heard
<1>5. Counted'
  BY <1>2 DEF WorkerOk, Counted
<1>6. WorkTypes'
  BY <1>2, <1>4 DEF WorkTypes, WorkFuncs, WorkerOk
<1>7. Heard'
  BY <1>2, <1>4 DEF WorkerOk, Heard
<1> QED
  BY <1>5, <1>6, <1>7

(* A worker in Send, or that takes a task.                                 *)
LEMMA TakesKeeps ==
  ASSUME WorkTypes, Counted, P!TypeOK, Heard, NEW w \in Workers,
         Sending(w) \/ \E t \in Tasks : WorkerTakes(w, t)
  PROVE  WorkTypes' /\ Counted' /\ Heard'
<1>0. WorkFuncs /\ WorkerOk(w) /\ MaxRetry \in Nat
  BY Constants DEF WorkTypes, Counted, Heard, WorkFuncs, WorkerOk
<1>1. CASE Sending(w)
  <2>1. at[w] # "off" /\ at'[w] # "off" /\ \A v \in Workers : v # w => at'[v] = at[v]
    BY <1>1, CallStepKeeps DEF Sending, OthersSame
  <2>2. UNCHANGED <<recovered, arrived, cbReady, todo, ready, early, wpc, wtask, wretry, wres, smsg>>
    BY <1>1 DEF Sending, execVars, taskVars, workVars, reportVars
  <2>3. WorkFuncs' /\ WorkerOk(w)'
    BY <1>0, <2>1, <2>2 DEF WorkFuncs, WorkerOk
  <2> QED
    BY <2>1, <2>2, <2>3, OneWorkerKeeps
<1>2. ASSUME NEW t \in Tasks, WorkerTakes(w, t) PROVE WorkTypes' /\ Counted' /\ Heard'
  <2>1. /\ UNCHANGED <<recovered, arrived, cbReady, todo, early, wretry, wres, smsg, at>>
        /\ ready' \subseteq ready /\ t \in ready /\ wpc[w] = "idle"
        /\ wpc' = [wpc EXCEPT ![w] = "try"] /\ wtask' = [wtask EXCEPT ![w] = t]
    BY <1>2 DEF WorkerTakes, WorkerGoto, reportVars, sendVars
  <2>2. WorkFuncs' /\ wpc'[w] = "try" /\ wtask'[w] = t
    BY <1>0, <2>1 DEF WorkFuncs, WorkPcs
  <2>3. t # NoTask /\ t \in recovered \cup arrived
    BY <2>1, Constants DEF Heard
  <2>4. WorkerOk(w)'
    BY <1>0, <2>1, <2>2, <2>3 DEF WorkFuncs, WorkerOk
  <2>5. \A v \in Workers : v # w => wpc'[v] = wpc[v] /\ wtask'[v] = wtask[v]
    BY <1>0, <2>1 DEF WorkFuncs
  <2> QED
    BY <2>1, <2>2, <2>4, <2>5, OneWorkerKeeps
<1> QED
  BY <1>1, <1>2

(* A worker goes on with its task, reports it or drops it.                 *)
LEMMA WorkerStepKeeps ==
  ASSUME WorkTypes, Counted, P!TypeOK, R!DataTypes, Heard, NEW w \in Workers, WorkerStep(w)
  PROVE  WorkTypes' /\ Counted' /\ Heard'
<1> DEFINE Kept == WorkTypes' /\ Counted' /\ Heard'
<1> SUFFICES Kept
  OBVIOUS
<1>0. WorkFuncs /\ WorkerOk(w) /\ MaxRetry \in Nat
  BY Constants DEF WorkTypes, Counted, Heard, WorkFuncs, WorkerOk
<1>1. Handles(w) /\ UNCHANGED <<recovered, arrived, todo, ready>>
  BY WorkerKinds DEF Handles, taskVars
<1>2. UNCHANGED cbReady
  BY WorkerAside DEF WorkerActs
<1>3. /\ at'[w] # "off" <=> wpc'[w] = "send"
      /\ \A v \in Workers : v # w => at'[v] = at[v]
  <2>1. CASE wpc[w] = "send" /\ wpc'[w] # "send"
    BY <1>1, <2>1, CallEndsKeeps DEF Handles, CallAlong, OthersSame
  <2>2. CASE wpc[w] # "send" /\ wpc'[w] # "send"
    BY <1>0, <1>1, <2>2 DEF Handles, CallAlong, sendVars, WorkerOk
  <2>3. CASE wpc[w] # "send" /\ wpc'[w] = "send"
    BY <1>1, <2>3, CallBeginsKeeps DEF Handles, CallAlong, OthersSame
  <2>4. ~(wpc[w] = "send" /\ wpc'[w] = "send")
    BY <1>0, <1>1 DEF Handles, Moves, Retries, Fires, Fire, Leaves, Idle, WorkerGoto, WorkFuncs
  <2> QED
    BY <2>1, <2>2, <2>3, <2>4
<1>4. wpc[w] \notin {"report", "refused"} \/ spc[w] = "idle" => smsg[w] = NoTask
  BY <1>0, Constants DEF WorkerOk, R!DataTypes
<1>5. ASSUME NEW from, NEW to \in WorkPcs, Moves(w, from, to),
             \/ from = "idle" /\ to = "done"
             \/ from \in {"try", "delay"} /\ to \in {"try", "delay", "send"}
      PROVE  Kept
  <2>1. UNCHANGED <<early, wtask, wretry, wres, smsg>> /\ wpc' = [wpc EXCEPT ![w] = to] /\ wpc[w] = from
    BY <1>5 DEF Moves, WorkerGoto, reportVars
  <2>2. WorkFuncs' /\ wpc'[w] = to /\ \A v \in Workers : v # w => wpc'[v] = wpc[v]
    BY <1>0, <2>1 DEF WorkFuncs
  <2>3. WorkerOk(w)'
    BY <1>0, <1>1, <1>3, <1>5, <2>1, <2>2 DEF WorkerOk
  <2> QED
    BY <1>1, <1>2, <1>3, <2>1, <2>2, <2>3, OneWorkerKeeps
<1>6. ASSUME Retries(w) PROVE Kept
  <2>1. /\ UNCHANGED <<early, wtask, wres, smsg>> /\ wpc' = [wpc EXCEPT ![w] = "delay"]
        /\ wpc[w] \in {"try", "send", "refused"} /\ wretry[w] < MaxRetry
        /\ wretry' = [wretry EXCEPT ![w] = wretry[w] + 1]
    BY <1>6 DEF Retries, WorkerGoto, reportVars
  <2>2. wretry[w] \in Nat /\ wres[w] \in Nat
    BY <1>0 DEF WorkFuncs
  <2>3. wretry[w] + 1 \in 0 .. MaxRetry + 1
    BY <1>0, <2>1, <2>2
  <2>4. /\ WorkFuncs' /\ wpc'[w] = "delay" /\ wretry'[w] = wretry[w] + 1
        /\ \A v \in Workers : v # w => wpc'[v] = wpc[v] /\ wretry'[v] = wretry[v]
    BY <1>0, <2>1, <2>3 DEF WorkFuncs, WorkPcs
  <2>5. smsg[w] = NoTask
    BY <1>1, <1>4, <2>1 DEF Handles
  <2>6. WorkerOk(w)'
    BY <1>0, <1>1, <1>3, <2>1, <2>2, <2>4, <2>5 DEF WorkerOk
  <2> QED
    BY <1>1, <1>2, <1>3, <2>1, <2>4, <2>6, OneWorkerKeeps
<1>7. ASSUME NEW pc \in {"refused", "report"}, Fires(w, pc) PROVE Kept
  <2>1. /\ UNCHANGED wtask /\ wpc' = [wpc EXCEPT ![w] = pc]
        /\ wpc[w] \in {"try", "send", "refused"} /\ (pc = "refused" => wpc[w] = "try")
        /\ \/ UNCHANGED wretry
           \/ pc = "report" /\ wretry' = [wretry EXCEPT ![w] = wretry[w] + 1]
    BY <1>7 DEF Fires, Fire, WorkerGoto
  <2>2. /\ wtask[w] \in Tasks /\ wres[w] + 1 \in 1 .. MaxRetry + 2
        /\ <<wtask[w], wres[w] + 1>> \in Msgs
        /\ \/ wres' = [wres EXCEPT ![w] = wres[w] + 1] /\ R!Send(w, <<wtask[w], wres[w] + 1>>)
              /\ UNCHANGED early
           \/ UNCHANGED <<wres, reportVars>> /\ ~cbReady /\ early' = early \cup {wtask[w]}
    BY <1>7, FireSends
  <2>3. wretry[w] \in Nat /\ wres[w] \in Nat /\ wretry[w] <= MaxRetry /\ wtask[w] # NoTask
    BY <1>0, <2>1 DEF WorkFuncs, WorkerOk
  <2>4. wretry[w] + 1 \in 0 .. MaxRetry + 1
    BY <1>0, <2>3
  <2>5. /\ wpc' \in [Workers -> WorkPcs] /\ wtask' \in [Workers -> Tasks \cup {NoTask}] /\ wpc'[w] = pc
        /\ \A v \in Workers : v # w => wpc'[v] = wpc[v]
    BY <1>0, <2>1 DEF WorkFuncs, WorkPcs
  <2>6. /\ wretry' \in [Workers -> 0 .. MaxRetry + 1]
        /\ wretry'[w] = wretry[w] \/ pc = "report"
        /\ \A v \in Workers : v # w => wretry'[v] = wretry[v]
    BY <1>0, <2>1, <2>4 DEF WorkFuncs
  <2>7. smsg[w] = NoTask
    BY <1>1, <1>4, <2>1 DEF Handles
  <2>8. CASE UNCHANGED <<wres, reportVars>> /\ ~cbReady /\ early' = early \cup {wtask[w]}
    <3>1. UNCHANGED <<wres, smsg>> /\ WorkFuncs'
      BY <1>0, <2>5, <2>6, <2>8 DEF WorkFuncs, reportVars
    <3>2. WorkerOk(w)'
      BY <1>0, <1>1, <1>3, <2>1, <2>3, <2>5, <2>6, <2>7, <3>1 DEF WorkerOk
    <3> QED
      BY <1>1, <1>2, <1>3, <2>1, <2>3, <2>5, <2>6, <2>8, <3>1, <3>2, OneWorkerKeeps
  <2>9. CASE /\ wres' = [wres EXCEPT ![w] = wres[w] + 1] /\ R!Send(w, <<wtask[w], wres[w] + 1>>)
             /\ UNCHANGED early
    <3>1. /\ wres' \in [Workers -> 0 .. MaxRetry + 2] /\ wres'[w] = wres[w] + 1
          /\ \A v \in Workers : v # w => wres'[v] = wres[v]
      BY <1>0, <2>2, <2>9 DEF WorkFuncs
    <3>2. smsg'[w] = <<wtask[w], wres[w] + 1>> /\ \A v \in Workers : v # w => smsg'[v] = smsg[v]
      BY <2>9, Constants DEF R!Send, R!DataTypes
    <3>3. WorkFuncs'
      BY <2>5, <2>6, <3>1 DEF WorkFuncs
    <3>4. WorkerOk(w)'
      BY <1>0, <1>1, <1>3, <2>1, <2>3, <2>5, <2>6, <3>1, <3>2 DEF WorkerOk
    <3> QED
      BY <1>1, <1>2, <1>3, <2>1, <2>5, <2>6, <2>9, <3>1, <3>2, <3>3, <3>4, OneWorkerKeeps
  <2> QED
    BY <2>2, <2>8, <2>9
<1>8. ASSUME Leaves(w) PROVE Kept
  <2>1. /\ UNCHANGED <<early, smsg>> /\ wpc' = [wpc EXCEPT ![w] = "idle"]
        /\ wtask' = [wtask EXCEPT ![w] = NoTask]
        /\ wretry' = [wretry EXCEPT ![w] = 0] /\ wres' = [wres EXCEPT ![w] = 0]
    BY <1>8 DEF Leaves, Idle, WorkerGoto, reportVars
  <2>2. /\ WorkFuncs' /\ wpc'[w] = "idle" /\ wtask'[w] = NoTask /\ wretry'[w] = 0 /\ wres'[w] = 0
        /\ \A v \in Workers : v # w => /\ wpc'[v] = wpc[v] /\ wtask'[v] = wtask[v]
                                       /\ wretry'[v] = wretry[v] /\ wres'[v] = wres[v]
    BY <1>0, <2>1 DEF WorkFuncs, WorkPcs
  <2>3. smsg[w] = NoTask
    BY <1>4, <1>8 DEF Leaves
  <2>4. WorkerOk(w)'
    BY <1>0, <1>1, <1>3, <2>1, <2>2, <2>3 DEF WorkerOk
  <2> QED
    BY <1>1, <1>2, <1>3, <2>1, <2>2, <2>4, OneWorkerKeeps
<1>9. "try" \in WorkPcs /\ "delay" \in WorkPcs /\ "send" \in WorkPcs /\ "done" \in WorkPcs
  BY DEF WorkPcs
<1> QED
  BY <1>1, <1>5, <1>6, <1>7, <1>8, <1>9 DEF Handles

(* Every step keeps the workers' state.                                    *)
LEMMA WorkersKept ==
  ASSUME WorkTypes, Counted, P!TypeOK, R!DataTypes, NotStarted, Heard, [Next]_vars
  PROVE  WorkTypes' /\ Counted' /\ Heard'
<1> DEFINE Kept == WorkTypes' /\ Counted' /\ Heard'
<1> SUFFICES Kept
  OBVIOUS
<1>0. ASSUME UNCHANGED taskVars, UNCHANGED cbReady \/ cbReady' PROVE TasksKnown
  BY <1>0 DEF taskVars, TasksKnown, WorkTypes, Heard
<1>1. ASSUME UNCHANGED <<workVars, sendVars>>, TasksKnown,
             \A w \in Workers : smsg'[w] = smsg[w] \/ smsg'[w] = NoTask
      PROVE  Kept
  <2>1. WorkersWait
    BY <1>1 DEF WorkersWait, sendVars
  <2> QED
    BY <1>1, <2>1, WaitKeeps
<1>2. CASE PartStep
  BY <1>0, <1>1, <1>2, PartStepAside DEF reportVars
<1>3. CASE ReportStep
  <2>1. UNCHANGED <<cbReady, taskVars, workVars, sendVars>>
    BY <1>3, ReportStepAside
  <2>2. CASE LinkConnects \/ DomainUpdated \/ ReconnectUpdates
    <3>1. UNCHANGED smsg
      BY <2>2 DEF LinkConnects, DomainUpdated, ReconnectUpdates, R!UpdateConn, R!sendVars
    <3> QED
      BY <1>0, <1>1, <2>1, <3>1
  <2>3. ASSUME NEW s \in Senders, Reporting(s) PROVE Kept
    <3>1. \A w \in Workers : smsg'[w] = smsg[w] \/ smsg'[w] = NoTask
      BY <2>3, Constants DEF Reporting, R!SenderStep, R!SendWrites, R!SendFails, R!SendBuffers,
         R!SenderDone, R!DataTypes
    <3> QED
      BY <1>0, <1>1, <2>1, <3>1
  <2>4. ASSUME NEW f \in Flushers, Flushing(f) PROVE Kept
    <3>1. UNCHANGED smsg
      BY <2>4 DEF Flushing, R!FlusherStep, R!FlushTakes, R!FlushWrites, R!FlushFails, R!FlushEnds,
         R!sendVars
    <3> QED
      BY <1>0, <1>1, <2>1, <3>1
  <2> QED
    BY <1>3, <2>2, <2>3, <2>4 DEF ReportStep
<1>4. CASE Recover
  <2>1. recovered = {} /\ arrived = {}
    BY <1>4 DEF Recover, NotStarted
  <2>2. TasksKnown
    BY <1>4, <2>1, Constants DEF Recover, TasksKnown, Heard
  <2> QED
    BY <1>1, <1>4, <2>2 DEF Recover, reportVars
<1>5. CASE StartExecutor
  <2>1. \A w \in Workers : wpc[w] = "none"
    BY <1>5 DEF StartExecutor, NotStarted
  <2>2. /\ UNCHANGED <<taskVars, cbReady, wtask, wretry, wres, early, at, smsg>>
        /\ wpc' = [w \in Workers |-> "idle"]
    BY <1>5 DEF StartExecutor, sendVars, reportVars
  <2>3. WorkTypes' /\ Counted'
    BY <2>1, <2>2 DEF WorkTypes, WorkPcs, Counted, taskVars
  <2>4. Heard'
    BY <2>2 DEF Heard, taskVars
  <2> QED
    BY <2>3, <2>4
<1>6. CASE StopExecutor
  <2>1. WorkersWait /\ UNCHANGED <<taskVars, cbReady>>
    BY <1>6 DEF StopExecutor, P!ExpireAll, WorkersWait, execVars, reportVars
  <2> QED
    BY <1>0, <2>1, WaitKeeps
<1>7. ASSUME NEW m \in Beats, HeartbeatReports(m) PROVE Kept
  <2>1. \A w \in Workers : smsg'[w] = smsg[w]
    BY <1>7, Constants DEF HeartbeatReports, R!Send, R!DataTypes
  <2> QED
    BY <1>0, <1>1, <1>7, <2>1 DEF HeartbeatReports, execVars
<1>8. ASSUME NEW t \in Tasks, TaskArrives(t) \/ TaskCancelled(t) PROVE Kept
  <2>1. cbReady
    BY <1>8 DEF TaskArrives, TaskCancelled, NotStarted
  <2>2. TasksKnown
    BY <1>8, <2>1 DEF TaskArrives, TaskCancelled, TasksKnown, WorkTypes, Heard
  <2> QED
    BY <1>1, <1>8, <2>2 DEF TaskArrives, TaskCancelled, reportVars
<1>9. ASSUME NEW d \in Devices, NEW t \in Tasks, ConsumerHands(d, t) PROVE Kept
  <2>1. TasksKnown
    BY <1>9 DEF ConsumerHands, TasksKnown, WorkTypes, Heard
  <2> QED
    BY <1>1, <1>9, <2>1 DEF ConsumerHands, reportVars
<1>10. ASSUME NEW w \in Workers, WorkerActs(w) PROVE Kept
  BY <1>10, TakesKeeps, WorkerStepKeeps DEF WorkerActs
<1>11. CASE UNCHANGED vars
  BY <1>0, <1>1, <1>11 DEF vars, execVars, reportVars
<1> QED
  BY <1>2, <1>3, <1>4, <1>5, <1>6, <1>7, <1>8, <1>9, <1>10, <1>11, StepKinds

Flags == FlagTypes /\ connected \in BOOLEAN

(* The flags are Booleans after every step.                                *)
LEMMA FlagsKept == Flags /\ [Next]_vars => Flags'
<1> SUFFICES ASSUME FlagTypes, connected \in BOOLEAN, [Next]_vars
             PROVE  FlagTypes' /\ connected' \in BOOLEAN
  BY DEF Flags
<1> USE DEF Next, StartUp, Load, InitStorage, Recover, Credential, StartProber, StartExecutor,
     OnTaskResult, LinkConnects, LinkStarted, LinkFails, StartOps, Signal, ShutdownStep, StopLink,
     StopExecutor, CloseQueues, WorkersStopped, StopProber, ProberStopped, StopOps, CloseDb,
     ShutdownComplete, ShutdownTimeout, ProberEnds, DispatcherStep, TaskArrives, TaskCancelled,
     DomainUpdated, MessageHandled, DispatcherEnds, HeartbeatReports, ReconnectUpdates, Reporting,
     Flushing, ConsumerStep, ConsumerChecks, ConsumerDequeues, ConsumerHands, ConsumerEnds,
     WorkerTakes, Sending, WorkerStep, TaskTried, DeviceOffline, LookupFails, DataUnreadable,
     WorkerSends, LoopCancelled, WorkerSucceeds, WorkerFails, LookupReported, DelayOver,
     WorkerReported, WorkerExits, vars
<1>1. cancelled' \in BOOLEAN
  BY ZenonT(30) DEF FlagTypes
<1>2. cbReady' \in BOOLEAN
  BY ZenonT(30) DEF FlagTypes
<1>3. connected' \in BOOLEAN
  <2>1. connected' = connected \/ connected' = TRUE
    BY ZenonT(60)
       DEF HandleRetry, Fire, R!Send, R!UpdateConn, R!SenderStep, R!SendWrites, R!SendFails,
       R!SendBuffers, R!FlusherStep, R!FlushTakes, R!FlushWrites, R!FlushFails, R!FlushEnds, reportVars
  <2> QED
    BY <2>1, Zenon
<1> QED
  BY <1>1, <1>2, <1>3 DEF FlagTypes

-----------------------------------------------------------------------------
(* The invariant *)

IInv ==
  /\ PartTypes /\ WorkTypes /\ P!TypeOK /\ R!DataTypes
  /\ Counted /\ NothingTaken /\ R!WrittenOnce
  /\ NotStarted /\ Stopped /\ Heard

(* The invariant holds at the start of the process ...                     *)
LEMMA InitEstablishes == Init => IInv /\ Flags
<1> SUFFICES ASSUME Init PROVE IInv /\ Flags
  OBVIOUS
<1>1. PartTypes /\ NotStarted /\ Stopped
  BY Constants DEF Init, R!Init, PartTypes, RunPcs, SdPcs, NotStarted, Stopped
<1>2. WorkTypes /\ Counted /\ Heard
  BY Constants DEF Init, P!Init, R!Init, WorkTypes, WorkPcs, Counted, Heard
<1>3. P!TypeOK
  BY DEF Init, P!Init, P!TypeOK, P!LprAcks
<1>4. R!DataTypes /\ NothingTaken
  <2>1. <<>> \in Seq(Msgs) /\ Len(<<>>) = 0
    BY EmptySeq
  <2> QED
    BY <2>1, Constants DEF Init, R!Init, R!DataTypes, NothingTaken
<1>5. R!WrittenOnce
  <2>1. Once
    BY EmptyRange, Constants DEF Init, R!Init, Once, Distinct, HeldOnce, BufferedOnce, TakenOnce
  <2> QED
    BY <1>4, <2>1, ByPlace
<1>6. FlagTypes /\ connected \in BOOLEAN
  BY Zenon DEF Init, R!Init, FlagTypes
<1> QED
  BY <1>1, <1>2, <1>3, <1>4, <1>5, <1>6 DEF IInv, Flags

(* ... every step keeps what is known of the calls ...                     *)
LEMMA CallsKept ==
  ASSUME P!TypeOK, [Next]_vars
  PROVE  P!TypeOK'
<1>1. CASE P!ExpireAll \/ UNCHANGED sendVars
  BY <1>1, CallsExpireKeeps
<1>2. ASSUME NEW w \in Workers, P!SendStep(w) PROVE P!TypeOK'
  BY <1>2, CallStepKeeps
<1>3. ASSUME NEW w \in Workers, P!SendEnd(w) PROVE P!TypeOK'
  BY <1>3, CallEndsKeeps
<1>4. ASSUME NEW w \in Workers, NEW p \in Protocols, P!SendBegin(w, p) PROVE P!TypeOK'
  BY <1>4, CallBeginsKeeps
<1> QED
  BY <1>1, <1>2, <1>3, <1>4, CallStep

(* ... and the rest.                                                       *)
LEMMA StepKeeps == IInv /\ [Next]_vars => IInv'
<1> SUFFICES ASSUME IInv, [Next]_vars PROVE IInv'
  OBVIOUS
<1> USE DEF IInv
<1>1. [R!Next]_(R!vars)
  BY ReporterStep
<1>2. R!DataTypes' /\ NothingTaken' /\ R!WrittenOnce'
  BY <1>1, ReporterKeeps
<1>3. P!TypeOK'
  BY CallsKept
<1>4. PartTypes' /\ NotStarted' /\ Stopped'
  BY OrderKept
<1>5. WorkTypes' /\ Counted' /\ Heard'
  BY WorkersKept
<1> QED
  BY <1>2, <1>3, <1>4, <1>5

(* The parts start and stop in order, a worker's results are counted, and  *)
(* a message is in one place.                                              *)
THEOREM Inductive == Spec => []IInv
  BY InitEstablishes, StepKeeps, PTL DEF Spec

(* Every reachable state is well typed: the worker that has a task is the  *)
(* one that sends and reports it, with no more results than retries and    *)
(* two, and the reporter's buffer is bounded.                              *)
THEOREM TypeCorrect == Spec => []TypeOK
<1>1. Spec => []Flags
  BY InitEstablishes, FlagsKept, PTL DEF Spec
<1>2. IInv /\ Flags => TypeOK
  BY DEF Flags, IInv, TypeOK, R!TypeOK
<1> QED
  BY <1>1, <1>2, Inductive, PTL

(* The database closes after the dispatcher, the consumers, the workers,   *)
(* the heartbeat and the prober have ended, whatever they were doing when  *)
(* the signal came.                                                        *)
THEOREM DatabaseLast == Spec => []DbClosedLast
<1>1. IInv => DbClosedLast
  <2> SUFFICES ASSUME IInv, db = "closed" PROVE DbClosedLast
    BY DEF DbClosedLast
  <2>1. /\ link # "up" /\ spc[Heartbeat] = "idle" /\ prober \in {"off", "ended"} /\ ops = "stopped"
        /\ disp \in {"off", "ended"}
        /\ \A w \in Workers : wpc[w] \in {"none", "done"}
        /\ \A d \in Devices : cpc[d] \in {"none", "done"}
    BY DEF IInv, Stopped
  <2>2. ASSUME NEW w \in Workers PROVE at[w] = "off" /\ spc[w] = "idle"
    BY <2>1, Constants DEF IInv, WorkTypes, R!DataTypes
  <2> QED
    BY <2>1, <2>2 DEF DbClosedLast, Senders
<1> QED
  BY <1>1, Inductive, PTL

(* A result that nobody hears belongs to a task that Recover queued.       *)
THEOREM Unheard == Spec => []UnheardIsRecovered
<1>1. IInv => UnheardIsRecovered
  BY DEF IInv, Heard, UnheardIsRecovered
<1> QED
  BY <1>1, Inductive, PTL

(* Whatever workers, heartbeat, Start, domain updates and reconnects do at *)
(* the same time, the reporter has each message in one place.              *)
THEOREM MessagesOnce == Spec => []WrittenOnce
<1>1. IInv => WrittenOnce
  BY DEF IInv, WrittenOnce
<1> QED
  BY <1>1, Inductive, PTL

(* No step makes the reporter forget a message.                            *)
THEOREM MessagesKept == Spec => NoneForgotten
<1>1. IInv /\ [Next]_vars => [\A m \in Msgs : R!Reported(m) => R!Reported(m)']_reportVars
  <2> SUFFICES ASSUME IInv, [Next]_vars, NEW m \in Msgs PROVE R!Reported(m) => R!Reported(m)'
    OBVIOUS
  <2>1. [R!Next]_(R!vars)
    BY ReporterStep DEF IInv
  <2> QED
    BY <2>1, ReporterKeeps DEF IInv
<1> QED
  BY <1>1, Inductive, PTL DEF Spec, NoneForgotten

(* Run, its workers and the reconnects use the reporter as its own         *)
(* specification says: Lifecycle implements Reporter.                      *)
THEOREM ImplementsReporter == Spec => R!Spec
<1>1. Init => R!Init
  BY DEF Init
<1>2. IInv /\ [Next]_vars => [R!Next]_(R!vars)
  BY ReporterStep DEF IInv
<1> QED
  BY <1>1, <1>2, Inductive, PTL DEF Spec, R!Spec

-----------------------------------------------------------------------------
(* The results of a task *)

(* A task waits in a queue, in the channel or with one worker, or is over; *)
(* while it waits it has no result, and a worker that has it has reported  *)
(* exactly its first wres results.                                         *)
Numbers == 1 .. MaxRetry + 2
InTurn ==
  \A t \in Tasks :
    /\ \A n \in Numbers : R!Reported(<<t, n>>) => t \in recovered \cup arrived
    /\ t \in todo \cup ready => /\ t \notin todo \cap ready
                                /\ \A n \in Numbers : ~R!Reported(<<t, n>>)
                                /\ \A w \in Workers : wtask[w] # t
    /\ \A w \in Workers : wtask[w] = t =>
         /\ \A n \in Numbers : R!Reported(<<t, n>>) <=> n <= wres[w]
         /\ \A v \in Workers : wtask[v] = t => v = w

(* A step after which no task has a result, a place or a worker that it    *)
(* did not have before.                                                    *)
SameResults == \A t \in Tasks, n \in Numbers : R!Reported(<<t, n>>)' <=> R!Reported(<<t, n>>)
NobodyTakes ==
  \A w \in Workers : wtask'[w] # NoTask => wtask'[w] = wtask[w] /\ wres'[w] = wres[w]

(* Such a step keeps the order.                                            *)
LEMMA QuietKeeps ==
  ASSUME InTurn, SameResults, NobodyTakes, UNCHANGED <<recovered, arrived>>,
         todo' \subseteq todo, ready' \subseteq ready
  PROVE  InTurn'
<1>1. ASSUME NEW t \in Tasks, NEW w \in Workers, wtask'[w] = t
      PROVE  wtask[w] = t /\ wres'[w] = wres[w]
  BY <1>1, Constants DEF NobodyTakes
<1> QED
  BY <1>1 DEF InTurn, SameResults

(* Nothing but a worker's report adds a result: the heartbeat's messages   *)
(* are not results, and the other steps move what there is.                *)
LEMMA OldResults ==
  ASSUME IInv, OtherStep \/ UNCHANGED reportVars \/ \E m \in Beats : R!Send(Heartbeat, m)
  PROVE  SameResults
<1>0. \A t \in Tasks, n \in Numbers : <<t, n>> \in Msgs /\ <<t, n>> \notin Beats
  BY Constants, LifecycleAssumption DEF Numbers, Results
<1>1. CASE OtherStep \/ UNCHANGED reportVars
  <2>1. OtherStep
    BY <1>1 DEF OtherStep, reportVars, R!vars, R!sendVars, R!flushVars
  <2>2. SameReported
    BY <2>1, OtherStepKeeps DEF IInv
  <2> QED
    BY <1>0, <2>2 DEF SameReported, SameResults
<1>2. ASSUME NEW m \in Beats, R!Send(Heartbeat, m) PROVE SameResults
  <2>1. \A k \in Msgs : R!Reported(k)' <=> R!Reported(k) \/ k = m
    BY <1>2, SendKeeps, Constants DEF IInv
  <2> QED
    BY <1>0, <2>1 DEF SameResults
<1> QED
  BY <1>1, <1>2

(* A worker takes a task from the channel: it has no result yet, and       *)
(* nobody else has it.                                                     *)
LEMMA TakesInTurn ==
  ASSUME IInv, InTurn, NEW w \in Workers, NEW t \in Tasks, WorkerTakes(w, t)
  PROVE  InTurn'
<1>1. SameResults
  BY OldResults DEF WorkerTakes
<1>2. /\ t \in ready /\ ready' = ready \ {t} /\ UNCHANGED <<recovered, arrived, todo, wres>>
      /\ wtask' = [wtask EXCEPT ![w] = t] /\ wpc[w] = "idle"
  BY DEF WorkerTakes
<1>3. /\ wtask'[w] = t /\ wtask[w] = NoTask /\ wres[w] = 0
      /\ \A v \in Workers : v # w => wtask'[v] = wtask[v]
  BY <1>2 DEF IInv, WorkTypes, Counted
<1>4. /\ t \notin todo /\ \A v \in Workers : wtask[v] # t
      /\ \A n \in Numbers : ~R!Reported(<<t, n>>)'
  BY <1>1, <1>2 DEF InTurn, SameResults
<1>5. \A n \in Numbers : ~(n <= 0)
  BY Constants DEF Numbers
<1>6. ASSUME NEW u \in Tasks, NEW v \in Workers, wtask'[v] = u
      PROVE  /\ u \notin todo' \cup ready'
             /\ \A n \in Numbers : R!Reported(<<u, n>>)' <=> n <= wres'[v]
             /\ \A x \in Workers : wtask'[x] = u => x = v
  <2>1. CASE u = t
    <3>1. v = w
      BY <1>3, <1>4, <1>6, <2>1
    <3> QED
      BY <1>2, <1>3, <1>4, <1>5, <2>1, <3>1
  <2>2. CASE u # t
    <3>1. v # w /\ wtask[v] = u
      BY <1>3, <1>6, <2>2
    <3> QED
      BY <1>1, <1>2, <1>3, <2>2, <3>1 DEF InTurn, SameResults
  <2> QED
    BY <2>1, <2>2
<1>7. ASSUME NEW u \in Tasks
      PROVE  /\ \A n \in Numbers : R!Reported(<<u, n>>)' => u \in recovered' \cup arrived'
             /\ u \in todo' \cup ready' => /\ u \notin todo' \cap ready'
                                           /\ \A n \in Numbers : ~R!Reported(<<u, n>>)'
  BY <1>1, <1>2 DEF InTurn, SameResults
<1> QED
  BY <1>6, <1>7 DEF InTurn

(* A worker that fires reports its next result.                            *)
LEMMA FiresInTurn ==
  ASSUME IInv, InTurn, NEW w \in Workers, NEW pc, Fires(w, pc), UNCHANGED taskVars
  PROVE  InTurn'
<1>0. UNCHANGED <<recovered, arrived, todo, ready, wtask>>
  BY DEF Fires, Fire, taskVars
<1>1. CASE UNCHANGED <<wres, reportVars>>
  <2>1. SameResults /\ NobodyTakes
    BY <1>0, <1>1, OldResults DEF NobodyTakes
  <2> QED
    BY <1>0, <2>1, QuietKeeps
<1>2. CASE wres' = [wres EXCEPT ![w] = wres[w] + 1] /\ R!Send(w, <<wtask[w], wres[w] + 1>>)
  <2>1. PICK t \in Tasks, k \in Numbers : t = wtask[w] /\ k = wres[w] + 1 /\ <<t, k>> \in Msgs
    BY FireSends DEF IInv, Numbers
  <2>2. \A m \in Msgs : R!Reported(m)' <=> R!Reported(m) \/ m = <<t, k>>
    BY <1>2, <2>1, SendKeeps, Constants DEF IInv
  <2>3. \A u \in Tasks, n \in Numbers :
          R!Reported(<<u, n>>)' <=> R!Reported(<<u, n>>) \/ (u = t /\ n = k)
    BY <2>2, Constants DEF Numbers, Results
  <2>4. wres'[w] = k /\ wres[w] = k - 1 /\ \A v \in Workers : v # w => wres'[v] = wres[v]
    BY <1>2, <2>1 DEF IInv, WorkTypes
  <2>5. \A n \in Numbers : n <= k <=> n <= k - 1 \/ n = k
    BY <2>1, Constants DEF Numbers
  <2>6. t \in recovered \cup arrived
    BY <2>1, Constants DEF IInv, Heard
  <2>7. ASSUME NEW u \in Tasks, NEW v \in Workers, wtask'[v] = u
        PROVE  \A n \in Numbers : R!Reported(<<u, n>>)' <=> n <= wres'[v]
    <3>1. CASE v = w
      <4>1. u = t /\ \A n \in Numbers : R!Reported(<<u, n>>) <=> n <= wres[w]
        BY <1>0, <2>1, <2>7, <3>1 DEF InTurn
      <4>2. \A n \in Numbers : R!Reported(<<u, n>>)' <=> n <= k - 1 \/ n = k
        BY <2>3, <2>4, <4>1
      <4> QED
        BY <2>4, <2>5, <3>1, <4>2
    <3>2. CASE v # w
      <4>1. u # t
        BY <1>0, <2>1, <2>7, <3>2 DEF InTurn
      <4> QED
        BY <1>0, <2>3, <2>4, <2>7, <3>2, <4>1 DEF InTurn
    <3> QED
      BY <3>1, <3>2
  <2>8. t \notin todo \cup ready
    BY <2>1 DEF InTurn
  <2> QED
    BY <1>0, <2>3, <2>6, <2>7, <2>8 DEF InTurn
<1> QED
  BY <1>1, <1>2, FireSends DEF IInv

(* Every step keeps the order of a task's results.                         *)
LEMMA InTurnKept ==
  ASSUME IInv, InTurn, [Next]_vars
  PROVE  InTurn'
<1>t. wpc \in [Workers -> WorkPcs] /\ wtask \in [Workers -> Tasks \cup {NoTask}]
  BY DEF IInv, WorkTypes
<1>1. ASSUME NobodyTakes, UNCHANGED <<recovered, arrived>>, todo' \subseteq todo, ready' \subseteq ready,
             OtherStep \/ UNCHANGED reportVars \/ \E m \in Beats : R!Send(Heartbeat, m)
      PROVE  InTurn'
  BY <1>1, OldResults, QuietKeeps
<1>2. ASSUME UNCHANGED workVars PROVE NobodyTakes
  BY <1>2 DEF workVars, NobodyTakes
<1>3. CASE PartStep
  BY <1>1, <1>2, <1>3, PartStepAside DEF taskVars
<1>4. CASE ReportStep
  BY <1>1, <1>2, <1>4, ReportStepAside DEF taskVars
<1>5. CASE Recover
  <2>1. recovered = {} /\ arrived = {} /\ ready = {} /\ UNCHANGED <<wtask, wres, arrived, ready>>
    BY <1>5 DEF Recover, IInv, NotStarted, Heard, workVars
  <2>2. SameResults
    BY <1>5, OldResults DEF Recover
  <2>3. \A t \in Tasks, n \in Numbers : ~R!Reported(<<t, n>>)'
    BY <2>1, <2>2 DEF InTurn, SameResults
  <2>4. \A w \in Workers : wtask[w] = NoTask
    BY <2>1 DEF IInv, Heard
  <2> QED
    BY <2>1, <2>3, <2>4, Constants DEF InTurn
<1>6. CASE StartExecutor \/ StopExecutor
  <2>1. NobodyTakes /\ UNCHANGED <<taskVars, reportVars>>
    BY <1>6 DEF StartExecutor, StopExecutor, NobodyTakes, execVars, workVars
  <2> QED
    BY <1>1, <2>1 DEF taskVars
<1>7. ASSUME NEW m \in Beats, HeartbeatReports(m) PROVE InTurn'
  BY <1>1, <1>2, <1>7 DEF HeartbeatReports, execVars, taskVars
<1>8. ASSUME NEW t \in Tasks, TaskArrives(t) PROVE InTurn'
  <2>1. SameResults
    BY <1>8, OldResults DEF TaskArrives
  <2>2. /\ t \notin recovered \cup arrived /\ UNCHANGED <<wtask, wres, recovered, ready>>
        /\ arrived' = arrived \cup {t} /\ todo' = todo \cup {t}
    BY <1>8 DEF TaskArrives, workVars
  <2>3. /\ t \notin ready /\ \A n \in Numbers : ~R!Reported(<<t, n>>)'
        /\ \A w \in Workers : wtask[w] # t
    BY <2>1, <2>2, Constants DEF InTurn, SameResults, IInv, Heard
  <2> QED
    BY <2>1, <2>2, <2>3 DEF InTurn, SameResults
<1>9. ASSUME NEW t \in Tasks, TaskCancelled(t) PROVE InTurn'
  BY <1>1, <1>2, <1>9 DEF TaskCancelled
<1>10. ASSUME NEW d \in Devices, NEW t \in Tasks, ConsumerHands(d, t) PROVE InTurn'
  <2>1. SameResults
    BY <1>10, OldResults DEF ConsumerHands
  <2>2. /\ t \in todo /\ todo' = todo \ {t} /\ UNCHANGED <<wtask, wres, recovered, arrived>>
        /\ ready' = ready \cup {t} \/ ready' = ready
    BY <1>10 DEF ConsumerHands, workVars
  <2> QED
    BY <2>1, <2>2 DEF InTurn, SameResults
<1>11. ASSUME NEW w \in Workers, WorkerActs(w) PROVE InTurn'
  <2>1. CASE Sending(w)
    BY <1>1, <1>2, <2>1 DEF Sending, execVars, taskVars
  <2>2. ASSUME NEW t \in Tasks, WorkerTakes(w, t) PROVE InTurn'
    BY <2>2, TakesInTurn
  <2>3. CASE WorkerStep(w)
    <3>1. Handles(w) /\ UNCHANGED taskVars
      BY <2>3, WorkerKinds DEF IInv, Handles
    <3>2. ASSUME NEW pc, Fires(w, pc) PROVE InTurn'
      BY <3>1, <3>2, FiresInTurn
    <3>3. ASSUME UNCHANGED <<wtask, wres, reportVars>> PROVE InTurn'
      BY <1>1, <3>1, <3>3 DEF taskVars, NobodyTakes
    <3>4. CASE Leaves(w)
      <4>1. /\ UNCHANGED reportVars /\ wtask' = [wtask EXCEPT ![w] = NoTask]
            /\ wres' = [wres EXCEPT ![w] = 0] /\ wres \in [Workers -> 0 .. MaxRetry + 2]
        BY <3>4 DEF Leaves, Idle, IInv, WorkTypes
      <4>2. NobodyTakes
        BY <1>t, <4>1 DEF NobodyTakes
      <4> QED
        BY <1>1, <3>1, <4>1, <4>2 DEF taskVars
    <3> QED
      BY <3>1, <3>2, <3>3, <3>4 DEF Handles, Moves, Retries
  <2> QED
    BY <1>11, <2>1, <2>2, <2>3 DEF WorkerActs
<1>12. CASE UNCHANGED vars
  BY <1>1, <1>2, <1>12 DEF vars, execVars, taskVars
<1> QED
  BY <1>3, <1>4, <1>5, <1>6, <1>7, <1>8, <1>9, <1>10, <1>11, <1>12, StepKinds

(* Over recovery, failed lookups, retries and reconnects a task's results  *)
(* are reported one after the other and each once, so that the model's     *)
(* Send, which takes in a message only once, never holds up a worker.      *)
THEOREM ResultsInTurn == Spec => []InTurn
<1>1. Init => InTurn
  <2> SUFFICES ASSUME Init PROVE InTurn
    OBVIOUS
  <2>1. R!DataTypes
    BY InitEstablishes DEF IInv
  <2>2. ASSUME NEW m \in Msgs PROVE ~R!Reported(m)
    <3>1. ~Somewhere(m)
      BY EmptyRange, Constants DEF Init, R!Init, Somewhere
    <3> QED
      BY <2>1, <3>1, ByPlace
  <2>3. \A t \in Tasks, n \in Numbers : ~R!Reported(<<t, n>>)
    BY <2>2, Constants DEF Numbers, Results
  <2> QED
    BY <2>3, Constants DEF InTurn, Init
<1>2. IInv /\ InTurn /\ [Next]_vars => InTurn'
  BY InTurnKept
<1> QED
  BY <1>1, <1>2, Inductive, PTL DEF Spec
=============================================================================
