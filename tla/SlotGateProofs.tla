--------------------------- MODULE SlotGateProofs ---------------------------
(***************************************************************************)
(* Proofs about SlotGate, for any number of callers, any queue depth and   *)
(* any timeouts.                                                           *)
(***************************************************************************)
EXTENDS SlotGate, SequenceTheorems, TLAPS

(***************************************************************************)
(* The two ways the gate shortens its queue                                *)
(***************************************************************************)

\* waiting.splice(idx, 1): the other entries keep their order.
LEMMA RemoveAtProperties ==
    ASSUME NEW S, NEW s \in Seq(S), NEW i \in 1 .. Len(s)
    PROVE  /\ RemoveAt(s, i) \in Seq(S)
           /\ Len(RemoveAt(s, i)) = Len(s) - 1
           /\ \A j \in 1 .. Len(s) - 1 :
                 RemoveAt(s, i)[j] = IF j < i THEN s[j] ELSE s[j + 1]
<1> DEFINE ahead == SubSeq(s, 1, i - 1)
           behind == SubSeq(s, i + 1, Len(s))
<1>1. /\ Len(s) \in Nat
      /\ \A j \in 1 .. Len(s) : s[j] \in S
  BY ElementOfSeq, LenProperties
<1>2. /\ ahead \in Seq(S)
      /\ Len(ahead) = i - 1
      /\ \A j \in 1 .. i - 1 : ahead[j] = s[j]
  <2>1. \A j \in 1 .. i - 1 : s[j] \in S
    BY <1>1
  <2>2. QED
    BY <1>1, <2>1, SubSeqProperties, SMT
<1>3. /\ behind \in Seq(S)
      /\ Len(behind) = Len(s) - i
      /\ \A j \in 1 .. Len(s) - i : behind[j] = s[i + j]
  <2>1. \A j \in i + 1 .. Len(s) : s[j] \in S
    BY <1>1
  <2>2. QED
    BY <1>1, <2>1, SubSeqProperties, SMT
<1>4. /\ ahead \o behind \in Seq(S)
      /\ Len(ahead \o behind) = Len(ahead) + Len(behind)
      /\ \A j \in 1 .. Len(ahead) + Len(behind) :
            (ahead \o behind)[j] =
                IF j <= Len(ahead) THEN ahead[j] ELSE behind[j - Len(ahead)]
  BY <1>2, <1>3, ConcatProperties
<1>5. RemoveAt(s, i) = ahead \o behind
  BY DEF RemoveAt
<1> HIDE DEF ahead, behind
<1>6. Len(RemoveAt(s, i)) = Len(s) - 1
  BY <1>1, <1>2, <1>3, <1>4, <1>5
<1>7. ASSUME NEW j \in 1 .. Len(s) - 1
      PROVE  RemoveAt(s, i)[j] = IF j < i THEN s[j] ELSE s[j + 1]
  <2>1. CASE j < i
    BY <1>1, <1>2, <1>3, <1>4, <1>5, <2>1
  <2>2. CASE ~(j < i)
    <3>1. /\ j - (i - 1) \in 1 .. Len(s) - i
          /\ i + (j - (i - 1)) = j + 1
      BY <1>1, <2>2
    <3>2. RemoveAt(s, i)[j] = behind[j - (i - 1)]
      BY <1>1, <1>2, <1>3, <1>4, <1>5, <2>2
    <3>3. QED
      BY <1>3, <2>2, <3>1, <3>2
  <2>3. QED
    BY <2>1, <2>2
<1>8. QED
  BY <1>4, <1>5, <1>6, <1>7

\* The release loop shifted k entries off the queue.
LEMMA DropProperties ==
    ASSUME NEW S, NEW s \in Seq(S), NEW k \in 1 .. Len(s)
    PROVE  /\ SubSeq(s, k + 1, Len(s)) \in Seq(S)
           /\ Len(SubSeq(s, k + 1, Len(s))) = Len(s) - k
           /\ \A j \in 1 .. Len(s) - k :
                 SubSeq(s, k + 1, Len(s))[j] = s[k + j]
<1>1. /\ Len(s) \in Nat
      /\ \A j \in 1 .. Len(s) : s[j] \in S
  BY ElementOfSeq, LenProperties
<1>2. \A j \in k + 1 .. Len(s) : s[j] \in S
  BY <1>1
<1>3. QED
  BY <1>1, <1>2, SubSeqProperties, SMT
-----------------------------------------------------------------------------
(***************************************************************************)
(* Type correctness, and the bound on the queue                            *)
(***************************************************************************)

\* The same three facts about the queue variable after each kind of step.
LEMMA QueueTyped ==
    ASSUME TypeOK
    PROVE  /\ Len(waiting) \in Nat
           /\ DOMAIN waiting = 1 .. Len(waiting)
           /\ \A i \in DOMAIN waiting : waiting[i] \in Entry
  BY LenProperties, ElementOfSeq DEF TypeOK

LEMMA Spliced ==
    ASSUME TypeOK, NEW i \in DOMAIN waiting, waiting' = RemoveAt(waiting, i)
    PROVE  /\ waiting' \in Seq(Entry)
           /\ Len(waiting') = Len(waiting) - 1
           /\ DOMAIN waiting' = 1 .. Len(waiting) - 1
           /\ \A j \in DOMAIN waiting' :
                 waiting'[j] = IF j < i THEN waiting[j] ELSE waiting[j + 1]
<1>1. waiting \in Seq(Entry) /\ i \in 1 .. Len(waiting)
  BY QueueTyped DEF TypeOK
<1>2. /\ waiting' \in Seq(Entry)
      /\ Len(waiting') = Len(waiting) - 1
      /\ \A j \in 1 .. Len(waiting) - 1 :
            waiting'[j] = IF j < i THEN waiting[j] ELSE waiting[j + 1]
  BY <1>1, RemoveAtProperties, Zenon
<1>3. DOMAIN waiting' = 1 .. Len(waiting')
  BY <1>2, LenProperties
<1>4. QED
  BY <1>2, <1>3

LEMMA Shifted ==
    ASSUME TypeOK, NEW k \in DOMAIN waiting,
           waiting' = SubSeq(waiting, k + 1, Len(waiting))
    PROVE  /\ waiting' \in Seq(Entry)
           /\ Len(waiting') = Len(waiting) - k
           /\ DOMAIN waiting' = 1 .. Len(waiting) - k
           /\ \A j \in DOMAIN waiting' : waiting'[j] = waiting[k + j]
<1>1. waiting \in Seq(Entry) /\ k \in 1 .. Len(waiting)
  BY QueueTyped DEF TypeOK
<1>2. /\ waiting' \in Seq(Entry)
      /\ Len(waiting') = Len(waiting) - k
      /\ \A j \in 1 .. Len(waiting) - k : waiting'[j] = waiting[k + j]
  BY <1>1, DropProperties, Zenon
<1>3. DOMAIN waiting' = 1 .. Len(waiting')
  BY <1>2, LenProperties
<1>4. QED
  BY <1>2, <1>3

LEMMA Pushed ==
    ASSUME TypeOK, NEW e \in Entry, waiting' = Append(waiting, e)
    PROVE  /\ waiting' \in Seq(Entry)
           /\ Len(waiting') = Len(waiting) + 1
           /\ DOMAIN waiting' = 1 .. Len(waiting) + 1
           /\ \A j \in DOMAIN waiting : waiting'[j] = waiting[j]
           /\ waiting'[Len(waiting) + 1] = e
<1>1. /\ waiting' \in Seq(Entry)
      /\ Len(waiting') = Len(waiting) + 1
      /\ \A j \in 1 .. Len(waiting) : waiting'[j] = waiting[j]
      /\ waiting'[Len(waiting) + 1] = e
  BY AppendProperties DEF TypeOK
<1>2. DOMAIN waiting' = 1 .. Len(waiting')
  BY <1>1, LenProperties
<1>3. QED
  BY <1>1, <1>2, QueueTyped

\* The entry acquire() pushes.
LEMMA NewEntryTyped ==
    ASSUME TypeOK, NEW c \in Callers, NEW timeout \in Timeouts
    PROVE  /\ Deadline(timeout) \in Nat
           /\ [id |-> entries, who |-> c, deadline |-> Deadline(timeout),
               timed |-> timeout # 0] \in Entry
           /\ Armed(timeout) \subseteq Timer
<1>1. timeout \in Nat /\ DefaultTimeout \in Nat /\ now \in Nat /\ entries \in Nat
  BY SlotGateAssumption DEF TypeOK
<1>2. Deadline(timeout) \in Nat
  BY <1>1 DEF Deadline
<1>3. Armed(timeout) \subseteq Timer
  BY <1>1 DEF Armed, Timer
<1>4. QED
  BY <1>1, <1>2, <1>3 DEF Entry

LEMMA TypeInit == Init => TypeOK
<1>1. MaxQueueDepth \in Nat
  BY SlotGateAssumption
<1>2. <<>> \in Seq(Entry) /\ Len(<<>>) = 0
  BY EmptySeq
<1>3. ASSUME Init
      PROVE  TypeOK
  <2>1. waiting \in Seq(Entry) /\ Len(waiting) <= MaxQueueDepth
    BY <1>1, <1>2, <1>3 DEF Init
  <2>2. pc \in [Callers -> Stages]
    BY <1>3 DEF Init, Stages
  <2>3. QED
    BY <1>3, <2>1, <2>2 DEF Init, TypeOK
<1>4. QED
  BY <1>3

LEMMA TypeStep == TypeOK /\ [Next]_vars => TypeOK'
<1> SUFFICES ASSUME TypeOK, [Next]_vars
             PROVE  TypeOK'
  OBVIOUS
<1> USE DEF TypeOK, Stages
<1>0. MaxQueueDepth \in Nat
  BY SlotGateAssumption
<1>1. ASSUME NEW c \in Callers, AcquireFree(c)
      PROVE  TypeOK'
  BY <1>1 DEF AcquireFree
<1>2. ASSUME NEW c \in Callers, AcquireRefused(c)
      PROVE  TypeOK'
  BY <1>2 DEF AcquireRefused
<1>3. ASSUME NEW c \in Callers, NEW timeout \in Timeouts,
             AcquireQueued(c, timeout)
      PROVE  TypeOK'
  <2>1. waiting' \in Seq(Entry) /\ Len(waiting') = Len(waiting) + 1
    BY <1>3, NewEntryTyped, Pushed DEF AcquireQueued
  <2>2. Len(waiting') <= MaxQueueDepth
    BY <1>0, <1>3, <2>1, QueueTyped DEF AcquireQueued, HasRoom
  <2>3. timers' \in SUBSET Timer
    BY <1>3, NewEntryTyped DEF AcquireQueued
  <2>4. pc' \in [Callers -> Stages]
    BY <1>3 DEF AcquireQueued
  <2>5. QED
    BY <1>3, <2>1, <2>2, <2>3, <2>4 DEF AcquireQueued
<1>4. ASSUME NEW c \in Callers, Resume(c)
      PROVE  TypeOK'
  BY <1>4 DEF Resume
<1>5. ASSUME NEW c \in Callers, ReleaseFree(c)
      PROVE  TypeOK'
  <2>1. waiting' \in Seq(Entry) /\ Len(waiting') = 0
    BY <1>5, EmptySeq DEF ReleaseFree
  <2>2. pc' \in [Callers -> Stages]
    BY <1>5 DEF ReleaseFree
  <2>3. /\ inflight' \in BOOLEAN
        /\ UNCHANGED <<timers, now, entries>>
    BY <1>5 DEF ReleaseFree
  <2>4. QED
    BY <1>0, <2>1, <2>2, <2>3
<1>6. ASSUME NEW c \in Callers, NEW k \in DOMAIN waiting, ReleaseTo(c, k)
      PROVE  TypeOK'
  <2>1. waiting' \in Seq(Entry) /\ Len(waiting') <= Len(waiting)
    BY <1>6, Shifted, QueueTyped DEF ReleaseTo
  <2>2. pc' \in [Callers -> Stages]
    BY <1>6 DEF ReleaseTo
  <2>3. Len(waiting') <= MaxQueueDepth
    BY <1>0, <2>1, QueueTyped, LenProperties
  <2>4. QED
    BY <1>6, <2>1, <2>2, <2>3 DEF ReleaseTo
<1>7. ASSUME NEW t \in timers, FireTimer(t)
      PROVE  TypeOK'
  <2>1. CASE UNCHANGED <<waiting, pc>>
    BY <1>7, <2>1 DEF FireTimer
  <2>2. ASSUME NEW i \in PlaceOf(t), waiting' = RemoveAt(waiting, i),
               pc' = [pc EXCEPT ![waiting[i].who] = "refused"]
        PROVE  TypeOK'
    <3>1. i \in DOMAIN waiting
      BY DEF PlaceOf
    <3>2. waiting' \in Seq(Entry) /\ Len(waiting') = Len(waiting) - 1
      BY <2>2, <3>1, Spliced
    <3>3. Len(waiting') <= MaxQueueDepth
      BY <1>0, <3>2, QueueTyped
    <3>4. QED
      BY <1>7, <2>2, <3>2, <3>3 DEF FireTimer
  <2>3. QED
    BY <1>7, <2>1, <2>2 DEF FireTimer
<1>8. CASE Tick
  BY <1>8 DEF Tick
<1>9. CASE UNCHANGED vars
  BY <1>9 DEF vars
<1>10. QED
  BY <1>1, <1>2, <1>3, <1>4, <1>5, <1>6, <1>7, <1>8, <1>9
  DEF Next, Acquire, Release

\* No interleaving of acquires, releases and timers takes a variable out of its
\* type or the queue beyond maxQueueDepth.
THEOREM TypeCorrect == Spec => []TypeOK
<1>1. QED
  BY TypeInit, TypeStep, PTL DEF Spec
-----------------------------------------------------------------------------
(***************************************************************************)
(* One holder, no lost slot, a queue that matches the pending promises.    *)
(* None of the three is inductive alone: a release is safe because its     *)
(* caller is the only holder, and hands over to an entry whose caller      *)
(* waits; a timer answers a caller that waits and holds nothing.           *)
(***************************************************************************)

GateInv == MutualExclusion /\ NoLostSlot /\ QueueMatchesWaiters

LEMMA GateInit == Init => GateInv
<1> SUFFICES ASSUME Init
             PROVE  GateInv
  OBVIOUS
<1>1. Holders = {}
  BY DEF Init, Holders
<1>2. DOMAIN waiting = {}
  BY DEF Init
<1>3. \A c \in Callers : pc[c] # "waiting"
  BY DEF Init
<1>4. QED
  BY <1>1, <1>2, <1>3
  DEF Init, GateInv, MutualExclusion, NoLostSlot, QueueMatchesWaiters

\* Steps that queue or unqueue nobody and leave the waiting callers waiting.
LEMMA QueueUntouched ==
    ASSUME TypeOK, QueueMatchesWaiters, UNCHANGED waiting,
           \A c \in Callers : pc'[c] = "waiting" <=> pc[c] = "waiting"
    PROVE  QueueMatchesWaiters'
<1>1. \A i \in DOMAIN waiting : waiting[i].who \in Callers
  BY QueueTyped DEF Entry
<1>2. QED
  BY <1>1 DEF QueueMatchesWaiters

LEMMA AcquireKeepsGate ==
    ASSUME TypeOK, GateInv, NEW c \in Callers, Acquire(c)
    PROVE  GateInv'
<1> USE DEF GateInv
<1>1. CASE AcquireFree(c)
  <2>1. pc' = [pc EXCEPT ![c] = "holding"] /\ pc \in [Callers -> Stages]
    BY <1>1 DEF AcquireFree, TypeOK
  <2>2. Holders = {} /\ waiting = <<>>
    BY <1>1 DEF AcquireFree, NoLostSlot
  <2>3. Holders' = {c}
    BY <2>1, <2>2 DEF Holders
  <2>4. QueueMatchesWaiters'
    BY <1>1, <2>1, QueueUntouched DEF AcquireFree, CanCall
  <2>5. QED
    BY <1>1, <2>3, <2>4 DEF AcquireFree, MutualExclusion, NoLostSlot
<1>2. CASE AcquireRefused(c)
  <2>1. pc' = [pc EXCEPT ![c] = "refused"] /\ pc \in [Callers -> Stages]
    BY <1>2 DEF AcquireRefused, TypeOK
  <2>2. Holders' = Holders
    BY <1>2, <2>1 DEF AcquireRefused, CanCall, Holders
  <2>3. QueueMatchesWaiters'
    BY <1>2, <2>1, QueueUntouched DEF AcquireRefused, CanCall
  <2>4. QED
    BY <1>2, <2>2, <2>3 DEF AcquireRefused, MutualExclusion, NoLostSlot
<1>3. ASSUME NEW timeout \in Timeouts, AcquireQueued(c, timeout)
      PROVE  GateInv'
  <2> DEFINE e == [id |-> entries, who |-> c, deadline |-> Deadline(timeout),
                   timed |-> timeout # 0]
  <2>1. pc' = [pc EXCEPT ![c] = "waiting"] /\ pc \in [Callers -> Stages]
    BY <1>3 DEF AcquireQueued, TypeOK
  <2>2. Holders' = Holders
    BY <1>3, <2>1 DEF AcquireQueued, CanCall, Holders
  <2>3. e \in Entry /\ e.who = c
    BY NewEntryTyped
  <2>4. waiting' = Append(waiting, e)
    BY <1>3 DEF AcquireQueued
  <2> HIDE DEF e
  <2>5. /\ DOMAIN waiting' = 1 .. Len(waiting) + 1
        /\ \A j \in DOMAIN waiting : waiting'[j] = waiting[j]
        /\ waiting'[Len(waiting) + 1].who = c
        /\ waiting' # <<>>
    BY <2>3, <2>4, Pushed
  <2>6. /\ DOMAIN waiting = 1 .. Len(waiting)
        /\ Len(waiting) \in Nat
        /\ \A j \in DOMAIN waiting : waiting[j].who \in Callers
    BY QueueTyped DEF Entry
  <2>7. \A j \in DOMAIN waiting : waiting[j].who # c
    BY <1>3 DEF AcquireQueued, CanCall, QueueMatchesWaiters
  <2>8. QueueMatchesWaiters'
    <3>1. \A i \in DOMAIN waiting' : pc'[waiting'[i].who] = "waiting"
      BY <2>1, <2>5, <2>6 DEF QueueMatchesWaiters
    <3>2. \A i, j \in DOMAIN waiting' : waiting'[i].who = waiting'[j].who => i = j
      BY <2>5, <2>6, <2>7 DEF QueueMatchesWaiters
    <3>3. \A d \in Callers : pc'[d] = "waiting"
                               => \E i \in DOMAIN waiting' : waiting'[i].who = d
      BY <2>1, <2>5, <2>6 DEF QueueMatchesWaiters
    <3>4. QED
      BY <3>1, <3>2, <3>3 DEF QueueMatchesWaiters
  <2>9. QED
    BY <1>3, <2>2, <2>5, <2>8 DEF AcquireQueued, MutualExclusion, NoLostSlot
<1>4. QED
  BY <1>1, <1>2, <1>3 DEF Acquire

LEMMA ResumeKeepsGate ==
    ASSUME TypeOK, GateInv, NEW c \in Callers, Resume(c)
    PROVE  GateInv'
<1> USE DEF GateInv
<1>1. pc' = [pc EXCEPT ![c] = "holding"] /\ pc \in [Callers -> Stages]
  BY DEF Resume, TypeOK
<1>2. Holders' = Holders
  BY <1>1 DEF Resume, Holders
<1>3. QueueMatchesWaiters'
  BY <1>1, QueueUntouched DEF Resume
<1>4. QED
  BY <1>2, <1>3 DEF Resume, MutualExclusion, NoLostSlot

\* What a release relies on: its caller is the only holder, and the callers in
\* the queue are waiting ones.
LEMMA Releasing ==
    ASSUME TypeOK, GateInv, NEW c \in Callers, pc[c] = "holding"
    PROVE  /\ inflight
           /\ \A x \in Callers : pc[x] \in {"handed", "holding"} => x = c
           /\ \A i \in DOMAIN waiting : /\ waiting[i].who \in Callers
                                         /\ waiting[i].who # c
<1>1. c \in Holders
  BY DEF Holders
<1>2. \A i \in DOMAIN waiting : waiting[i].who \in Callers
  BY QueueTyped DEF Entry
<1>3. QED
  BY <1>1, <1>2
  DEF GateInv, Holders, MutualExclusion, NoLostSlot, QueueMatchesWaiters

LEMMA ReleaseFreeKeepsGate ==
    ASSUME TypeOK, GateInv, NEW c \in Callers, ReleaseFree(c)
    PROVE  GateInv'
<1>1. /\ \A x \in Callers : pc[x] \in {"handed", "holding"} => x = c
      /\ \A x \in Callers :
            pc[x] = "waiting" => x \in WaitersAt(DOMAIN waiting)
  BY Releasing DEF ReleaseFree, GateInv, QueueMatchesWaiters, WaitersAt
<1>2. \A x \in Callers : pc'[x] \notin {"handed", "holding", "waiting"}
  BY <1>1 DEF ReleaseFree
<1>3. waiting' = <<>> /\ inflight' = FALSE /\ DOMAIN waiting' = {}
  BY DEF ReleaseFree
<1>4. Holders' = {}
  BY <1>2 DEF Holders
<1>5. QueueMatchesWaiters'
  BY <1>2, <1>3 DEF QueueMatchesWaiters
<1>6. QED
  BY <1>3, <1>4, <1>5 DEF GateInv, MutualExclusion, NoLostSlot

LEMMA ReleaseToKeepsGate ==
    ASSUME TypeOK, GateInv, NEW c \in Callers, NEW k \in DOMAIN waiting,
           ReleaseTo(c, k)
    PROVE  GateInv'
<1> DEFINE next == waiting[k].who
<1>1. /\ inflight
      /\ \A x \in Callers : pc[x] \in {"handed", "holding"} => x = c
      /\ \A i \in DOMAIN waiting : waiting[i].who \in Callers /\ waiting[i].who # c
  BY Releasing DEF ReleaseTo
<1>2. /\ DOMAIN waiting = 1 .. Len(waiting)
      /\ Len(waiting) \in Nat
  BY QueueTyped
<1>3. /\ DOMAIN waiting' = 1 .. Len(waiting) - k
      /\ \A j \in DOMAIN waiting' : waiting'[j] = waiting[k + j]
  BY Shifted DEF ReleaseTo
<1>4. pc' = [x \in Callers |->
               IF x = c THEN "idle"
               ELSE IF x = next THEN "handed"
               ELSE IF x \in WaitersAt(1 .. k - 1) THEN "refused"
               ELSE pc[x]]
  BY DEF ReleaseTo
<1>5. Holders' = {next}
  BY <1>1, <1>4 DEF Holders
<1>6. \A j \in DOMAIN waiting' : /\ k + j \in DOMAIN waiting
                                 /\ waiting'[j] = waiting[k + j]
                                 /\ waiting'[j].who \in Callers
                                 /\ waiting'[j].who # next
                                 /\ waiting'[j].who \notin WaitersAt(1 .. k - 1)
  <2> SUFFICES ASSUME NEW j \in DOMAIN waiting'
               PROVE  /\ k + j \in DOMAIN waiting
                      /\ waiting'[j] = waiting[k + j]
                      /\ waiting[k + j].who \in Callers
                      /\ \A i \in 1 .. k : waiting[i].who # waiting[k + j].who
    BY <1>2, <1>3 DEF WaitersAt
  <2>1. /\ k + j \in DOMAIN waiting
        /\ \A i \in 1 .. k : i \in DOMAIN waiting /\ i # k + j
    BY <1>2, <1>3
  <2>2. QED
    BY <1>1, <1>3, <2>1 DEF GateInv, QueueMatchesWaiters
<1>7. \A j \in DOMAIN waiting' : pc'[waiting'[j].who] = "waiting"
  BY <1>1, <1>4, <1>6 DEF GateInv, QueueMatchesWaiters
<1>8. \A i, j \in DOMAIN waiting' : waiting'[i].who = waiting'[j].who => i = j
  BY <1>2, <1>3, <1>6 DEF GateInv, QueueMatchesWaiters
<1>9. ASSUME NEW d \in Callers, pc'[d] = "waiting"
      PROVE  \E i \in DOMAIN waiting' : waiting'[i].who = d
  <2>1. /\ pc[d] = "waiting"
        /\ d # next
        /\ d \notin WaitersAt(1 .. k - 1)
    BY <1>4, <1>9
  <2>2. PICK m \in DOMAIN waiting : waiting[m].who = d
    BY <2>1 DEF GateInv, QueueMatchesWaiters
  <2>3. m > k
    BY <1>2, <2>1, <2>2 DEF WaitersAt
  <2>4. m - k \in DOMAIN waiting' /\ k + (m - k) = m
    BY <1>2, <1>3, <2>3
  <2>5. QED
    BY <1>3, <2>2, <2>4
<1>10. QED
  BY <1>1, <1>5, <1>7, <1>8, <1>9
  DEF GateInv, MutualExclusion, NoLostSlot, QueueMatchesWaiters, ReleaseTo

LEMMA FireTimerKeepsGate ==
    ASSUME TypeOK, GateInv, NEW t \in timers, FireTimer(t)
    PROVE  GateInv'
<1>1. CASE UNCHANGED <<waiting, pc>>
  BY <1>1, QueueUntouched
  DEF FireTimer, GateInv, MutualExclusion, NoLostSlot, Holders
<1>2. ASSUME NEW i \in PlaceOf(t), waiting' = RemoveAt(waiting, i),
             pc' = [pc EXCEPT ![waiting[i].who] = "refused"]
      PROVE  GateInv'
  <2> DEFINE out == waiting[i].who
  <2>1. /\ i \in DOMAIN waiting
        /\ DOMAIN waiting = 1 .. Len(waiting)
        /\ Len(waiting) \in Nat
        /\ \A j \in DOMAIN waiting : waiting[j].who \in Callers
    BY QueueTyped DEF PlaceOf, Entry
  <2>2. /\ DOMAIN waiting' = 1 .. Len(waiting) - 1
        /\ \A j \in DOMAIN waiting' :
              waiting'[j] = IF j < i THEN waiting[j] ELSE waiting[j + 1]
    BY <1>2, <2>1, Spliced
  <2>3. pc[out] = "waiting" /\ out \in Callers
    BY <2>1 DEF GateInv, QueueMatchesWaiters
  <2>4. pc \in [Callers -> Stages] /\ pc' = [pc EXCEPT ![out] = "refused"]
    BY <1>2 DEF TypeOK
  <2>5. Holders' = Holders
    BY <2>3, <2>4 DEF Holders
  <2>6. \A j \in DOMAIN waiting' :
            \E m \in DOMAIN waiting : /\ waiting'[j] = waiting[m]
                                      /\ m # i
                                      /\ m = IF j < i THEN j ELSE j + 1
    BY <2>1, <2>2
  <2>7. \A j \in DOMAIN waiting' : pc'[waiting'[j].who] = "waiting"
    BY <2>1, <2>4, <2>6 DEF GateInv, QueueMatchesWaiters
  <2>8. \A j, l \in DOMAIN waiting' : waiting'[j].who = waiting'[l].who => j = l
    BY <2>1, <2>2, <2>6 DEF GateInv, QueueMatchesWaiters
  <2>9. ASSUME NEW d \in Callers, pc'[d] = "waiting"
        PROVE  \E j \in DOMAIN waiting' : waiting'[j].who = d
    <3>1. pc[d] = "waiting" /\ d # out
      BY <2>3, <2>4, <2>9
    <3>2. PICK m \in DOMAIN waiting : waiting[m].who = d
      BY <3>1 DEF GateInv, QueueMatchesWaiters
    <3>3. CASE m < i
      <4>1. m \in DOMAIN waiting' /\ waiting'[m] = waiting[m]
        BY <2>1, <2>2, <3>3
      <4>2. QED
        BY <3>2, <4>1
    <3>4. CASE m > i
      <4>1. /\ m - 1 \in DOMAIN waiting'
            /\ ~(m - 1 < i)
            /\ (m - 1) + 1 = m
        BY <2>1, <2>2, <3>4
      <4>2. QED
        BY <2>2, <3>2, <4>1
    <3>5. QED
      BY <2>1, <3>1, <3>2, <3>3, <3>4
  <2>10. waiting' # <<>> => waiting # <<>>
    BY <2>1
  <2>11. QED
    BY <2>5, <2>7, <2>8, <2>9, <2>10
    DEF GateInv, MutualExclusion, NoLostSlot, QueueMatchesWaiters, FireTimer
<1>3. QED
  BY <1>1, <1>2 DEF FireTimer

LEMMA GateStep == TypeOK /\ GateInv /\ [Next]_vars => GateInv'
<1> SUFFICES ASSUME TypeOK, GateInv, [Next]_vars
             PROVE  GateInv'
  OBVIOUS
<1>1. CASE Tick
  BY <1>1, QueueUntouched
  DEF Tick, GateInv, MutualExclusion, NoLostSlot, Holders
<1>2. CASE UNCHANGED vars
  BY <1>2, QueueUntouched
  DEF vars, GateInv, MutualExclusion, NoLostSlot, Holders
<1>3. QED
  BY <1>1, <1>2, AcquireKeepsGate, ResumeKeepsGate, ReleaseFreeKeepsGate,
     ReleaseToKeepsGate, FireTimerKeepsGate
  DEF Next, Release

LEMMA GateInvariant == Spec => []GateInv
<1>1. QED
  BY GateInit, GateStep, TypeCorrect, PTL DEF Spec

\* At most one caller holds the slot, whatever the callers, timers and clock do.
THEOREM OneHolder == Spec => []MutualExclusion
<1>1. GateInv => MutualExclusion
  BY DEF GateInv
<1>2. QED
  BY <1>1, GateInvariant, PTL

\* No interleaving loses the slot or leaves it free under a waiting caller.
THEOREM SlotNeverLost == Spec => []NoLostSlot
<1>1. GateInv => NoLostSlot
  BY DEF GateInv
<1>2. QED
  BY <1>1, GateInvariant, PTL

\* The entries queued and the promises still pending are always the same ones.
THEOREM QueueAlwaysMatches == Spec => []QueueMatchesWaiters
<1>1. GateInv => QueueMatchesWaiters
  BY DEF GateInv
<1>2. QED
  BY <1>1, GateInvariant, PTL
-----------------------------------------------------------------------------
(***************************************************************************)
(* Explicit timeouts.  Every queued entry that named a timeout still has   *)
(* its own timer armed, and the event loop serves due timers in time.      *)
(***************************************************************************)

TimersInv ==
    /\ \A t \in timers : t.id < entries /\ now <= t.due + TimerSlack
    /\ \A i \in DOMAIN waiting : waiting[i].id < entries
    /\ \A i, j \in DOMAIN waiting : waiting[i].id = waiting[j].id => i = j
    /\ \A i \in DOMAIN waiting :
          waiting[i].timed =>
              [id |-> waiting[i].id, due |-> waiting[i].deadline] \in timers
    /\ \A i \in DOMAIN waiting, t \in timers :
          t.id = waiting[i].id => t.due = waiting[i].deadline

\* Steps that only take entries off the queue, and no timer of one that stays.
LEMMA FewerEntries ==
    ASSUME TypeOK, TimersInv, UNCHANGED <<now, entries>>, timers' \subseteq timers,
           NEW f \in [DOMAIN waiting' -> DOMAIN waiting],
           \A i, j \in DOMAIN waiting' : f[i] = f[j] => i = j,
           \A j \in DOMAIN waiting' : waiting'[j] = waiting[f[j]],
           \A t \in timers \ timers', j \in DOMAIN waiting' :
               t.id # waiting'[j].id
    PROVE  TimersInv'
<1>1. \A j \in DOMAIN waiting' :
          /\ waiting[f[j]] = waiting'[j]
          /\ f[j] \in DOMAIN waiting
  OBVIOUS
<1>2. \A j \in DOMAIN waiting' :
          waiting'[j].timed =>
              [id |-> waiting'[j].id, due |-> waiting'[j].deadline] \in timers'
  <2> SUFFICES ASSUME NEW j \in DOMAIN waiting', waiting'[j].timed
               PROVE  [id |-> waiting'[j].id, due |-> waiting'[j].deadline]
                        \in timers'
    OBVIOUS
  <2> DEFINE t == [id |-> waiting'[j].id, due |-> waiting'[j].deadline]
  <2>1. t \in timers /\ t.id = waiting'[j].id
    BY <1>1 DEF TimersInv
  <2>2. QED
    BY <2>1
<1>3. \A i, j \in DOMAIN waiting' : waiting'[i].id = waiting'[j].id => i = j
  BY <1>1 DEF TimersInv
<1>4. QED
  BY <1>1, <1>2, <1>3 DEF TimersInv

LEMMA TimersStep == TypeOK /\ TimersInv /\ [Next]_vars => TimersInv'
<1> SUFFICES ASSUME TypeOK, TimersInv, [Next]_vars
             PROVE  TimersInv'
  OBVIOUS
<1>1. ASSUME NEW c \in Callers, AcquireFree(c) \/ AcquireRefused(c) \/ Resume(c)
      PROVE  TimersInv'
  BY <1>1 DEF TimersInv, AcquireFree, AcquireRefused, Resume
<1>2. ASSUME NEW c \in Callers, NEW timeout \in Timeouts,
             AcquireQueued(c, timeout)
      PROVE  TimersInv'
  <2> DEFINE e == [id |-> entries, who |-> c, deadline |-> Deadline(timeout),
                   timed |-> timeout # 0]
             n == Len(waiting)
  <2>1. e \in Entry /\ waiting' = Append(waiting, e)
    BY <1>2, NewEntryTyped DEF AcquireQueued
  <2>2. /\ e.id = entries
        /\ e.timed => timeout # 0
        /\ e.deadline = Deadline(timeout)
        /\ timeout # 0 => e.deadline = now + timeout
    BY DEF Deadline
  <2>3. /\ timers' = timers \cup Armed(timeout)
        /\ entries' = entries + 1
        /\ now' = now
    BY <1>2 DEF AcquireQueued
  <2>4. /\ timeout \in Nat
        /\ now \in Nat /\ entries \in Nat /\ TimerSlack \in Nat
        /\ timers \subseteq Timer
    BY SlotGateAssumption DEF TypeOK
  <2> HIDE DEF e
  <2>5. /\ DOMAIN waiting' = 1 .. n + 1
        /\ \A j \in DOMAIN waiting : waiting'[j] = waiting[j]
        /\ waiting'[n + 1] = e
    BY <2>1, Pushed
  <2>6. /\ DOMAIN waiting = 1 .. n
        /\ n \in Nat
        /\ \A j \in DOMAIN waiting : waiting[j].id \in Nat
    BY QueueTyped DEF Entry
  <2>7. \A t \in timers' :
            \/ t \in timers
            \/ timeout # 0 /\ t.id = entries /\ t.due = now + timeout
    BY <2>3 DEF Armed
  <2>8. \A t \in timers' : t.id < entries' /\ now' <= t.due + TimerSlack
    BY <2>3, <2>4, <2>7 DEF TimersInv, Timer
  <2>9. \A i \in DOMAIN waiting' :
            \/ i \in DOMAIN waiting /\ waiting'[i] = waiting[i]
            \/ i = n + 1 /\ waiting'[i] = e
    BY <2>5, <2>6
  <2>10. \A i \in DOMAIN waiting' : waiting'[i].id < entries'
    BY <2>2, <2>3, <2>4, <2>6, <2>9 DEF TimersInv
  <2>11. \A i, j \in DOMAIN waiting' : waiting'[i].id = waiting'[j].id => i = j
    BY <2>2, <2>4, <2>6, <2>9 DEF TimersInv
  <2>12. \A i \in DOMAIN waiting' :
            waiting'[i].timed =>
               [id |-> waiting'[i].id, due |-> waiting'[i].deadline] \in timers'
    <3>1. timeout # 0 => [id |-> e.id, due |-> e.deadline] \in timers'
      BY <2>2, <2>3 DEF Armed
    <3>2. QED
      BY <2>2, <2>3, <2>9, <3>1 DEF TimersInv
  <2>13. \A i \in DOMAIN waiting', t \in timers' :
            t.id = waiting'[i].id => t.due = waiting'[i].deadline
    <3> SUFFICES ASSUME NEW i \in DOMAIN waiting', NEW t \in timers',
                        t.id = waiting'[i].id
                 PROVE  t.due = waiting'[i].deadline
      OBVIOUS
    <3>1. CASE i \in DOMAIN waiting /\ t \in timers
      BY <2>5, <3>1 DEF TimersInv
    <3>2. CASE i = n + 1 /\ t \notin timers
      BY <2>2, <2>5, <2>7, <3>2
    <3>3. CASE i = n + 1 /\ t \in timers
      <4>1. t.id < entries /\ t.id = entries
        BY <2>2, <2>5, <3>3 DEF TimersInv
      <4>2. QED
        BY <2>4, <4>1
    <3>4. CASE i \in DOMAIN waiting /\ t \notin timers
      <4>1. waiting[i].id < entries /\ waiting[i].id = entries
        BY <2>5, <2>7, <3>4 DEF TimersInv
      <4>2. QED
        BY <2>4, <4>1
    <3>5. QED
      BY <2>9, <3>1, <3>2, <3>3, <3>4
  <2>14. QED
    BY <2>8, <2>10, <2>11, <2>12, <2>13 DEF TimersInv
<1>3. ASSUME NEW c \in Callers, ReleaseFree(c)
      PROVE  TimersInv'
  BY <1>3 DEF ReleaseFree, TimersInv
<1>4. ASSUME NEW c \in Callers, NEW k \in DOMAIN waiting, ReleaseTo(c, k)
      PROVE  TimersInv'
  <2> DEFINE f == [j \in DOMAIN waiting' |-> k + j]
  <2>1. /\ DOMAIN waiting' = 1 .. Len(waiting) - k
        /\ \A j \in DOMAIN waiting' : waiting'[j] = waiting[k + j]
        /\ UNCHANGED <<timers, now, entries>>
    BY <1>4, Shifted DEF ReleaseTo
  <2>2. DOMAIN waiting = 1 .. Len(waiting) /\ Len(waiting) \in Nat
    BY QueueTyped
  <2>3. /\ f \in [DOMAIN waiting' -> DOMAIN waiting]
        /\ \A i, j \in DOMAIN waiting' : f[i] = f[j] => i = j
        /\ \A j \in DOMAIN waiting' : waiting'[j] = waiting[f[j]]
    BY <2>1, <2>2
  <2>4. QED
    BY <2>1, <2>3, FewerEntries
<1>5. ASSUME NEW t \in timers, FireTimer(t)
      PROVE  TimersInv'
  <2>1. timers' = timers \ {t} /\ UNCHANGED <<now, entries>>
    BY <1>5 DEF FireTimer
  <2>2. CASE PlaceOf(t) = {} /\ UNCHANGED <<waiting, pc>>
    <3> DEFINE f == [j \in DOMAIN waiting |-> j]
    <3>1. /\ f \in [DOMAIN waiting' -> DOMAIN waiting]
          /\ \A i, j \in DOMAIN waiting' : f[i] = f[j] => i = j
          /\ \A j \in DOMAIN waiting' : waiting'[j] = waiting[f[j]]
      BY <2>2
    <3>2. \A u \in timers \ timers', j \in DOMAIN waiting' : u.id # waiting'[j].id
      BY <2>1, <2>2 DEF PlaceOf
    <3>3. timers' \subseteq timers
      BY <2>1
    <3> HIDE DEF f
    <3>4. QED
      BY <2>1, <3>1, <3>2, <3>3, FewerEntries
  <2>3. ASSUME NEW i \in PlaceOf(t), waiting' = RemoveAt(waiting, i)
        PROVE  TimersInv'
    <3> DEFINE f == [j \in DOMAIN waiting' |-> IF j < i THEN j ELSE j + 1]
    <3>1. i \in DOMAIN waiting /\ waiting[i].id = t.id
      BY DEF PlaceOf
    <3>2. DOMAIN waiting = 1 .. Len(waiting) /\ Len(waiting) \in Nat
      BY QueueTyped
    <3>3. /\ DOMAIN waiting' = 1 .. Len(waiting) - 1
          /\ \A j \in DOMAIN waiting' :
                waiting'[j] = IF j < i THEN waiting[j] ELSE waiting[j + 1]
      BY <2>3, <3>1, Spliced
    <3>4. /\ f \in [DOMAIN waiting' -> DOMAIN waiting]
          /\ \A a, b \in DOMAIN waiting' : f[a] = f[b] => a = b
          /\ \A j \in DOMAIN waiting' : waiting'[j] = waiting[f[j]]
          /\ \A j \in DOMAIN waiting' : f[j] # i
      BY <3>1, <3>2, <3>3
    <3> HIDE DEF f
    <3>5. \A u \in timers \ timers', j \in DOMAIN waiting' : u.id # waiting'[j].id
      BY <2>1, <3>1, <3>4 DEF TimersInv
    <3>6. timers' \subseteq timers
      BY <2>1
    <3>7. QED
      BY <2>1, <3>4, <3>5, <3>6, FewerEntries
  <2>4. QED
    BY <1>5, <2>2, <2>3 DEF FireTimer
<1>6. CASE Tick
  <2>1. \A t \in timers : now + 1 <= t.due + TimerSlack
    BY <1>6, SlotGateAssumption DEF Tick, TypeOK, Timer
  <2>2. QED
    BY <1>6, <2>1 DEF Tick, TimersInv
<1>7. CASE UNCHANGED vars
  BY <1>7 DEF vars, TimersInv
<1>8. QED
  BY <1>1, <1>2, <1>3, <1>4, <1>5, <1>6, <1>7 DEF Next, Acquire, Release

LEMMA TimersInvariant == Spec => []TimersInv
<1>1. Init => TimersInv
  BY DEF Init, TimersInv
<1>2. QED
  BY <1>1, TimersStep, TypeCorrect, PTL DEF Spec

\* An acquire that named a timeout never waits past it, however long the holder
\* keeps the slot.
THEOREM TimeoutsHonoured == Spec => []ExplicitTimeoutHonoured
<1>1. TimersInv => ExplicitTimeoutHonoured
  BY DEF TimersInv, ExplicitTimeoutHonoured
<1>2. QED
  BY <1>1, TimersInvariant, PTL
-----------------------------------------------------------------------------
(***************************************************************************)
(* How waiters are answered                                                *)
(***************************************************************************)

LEMMA AnswersStep ==
    TypeOK /\ GateInv /\ TimersInv /\ [Next]_vars => [AnsweredByOwnDeadline]_vars
<1> SUFFICES ASSUME TypeOK, GateInv, TimersInv, Next
             PROVE  AnsweredByOwnDeadline
  OBVIOUS
<1> SUFFICES ASSUME NEW i \in DOMAIN waiting
             PROVE  /\ pc'[waiting[i].who] = "handed" => now <= waiting[i].deadline
                    /\ pc'[waiting[i].who] = "refused" => now >= waiting[i].deadline
  BY DEF AnsweredByOwnDeadline
<1> DEFINE w == waiting[i].who
<1>1. /\ w \in Callers
      /\ pc[w] = "waiting"
      /\ waiting[i].deadline \in Nat
      /\ now \in Nat
      /\ pc \in [Callers -> Stages]
      /\ \A j \in DOMAIN waiting : waiting[j].who = w => i = j
  BY QueueTyped DEF TypeOK, Entry, GateInv, QueueMatchesWaiters
<1>2. ASSUME NEW c \in Callers, Acquire(c) \/ Resume(c)
      PROVE  pc'[w] \notin {"handed", "refused"}
  BY <1>1, <1>2
  DEF Acquire, AcquireFree, AcquireRefused, AcquireQueued, Resume, CanCall
<1>3. ASSUME NEW c \in Callers, ReleaseFree(c)
      PROVE  pc'[w] # "handed" /\ now > waiting[i].deadline
  BY <1>1, <1>3 DEF ReleaseFree, Late
<1>4. ASSUME NEW c \in Callers, NEW k \in DOMAIN waiting, ReleaseTo(c, k)
      PROVE  /\ pc'[w] = "handed" => now <= waiting[i].deadline
             /\ pc'[w] = "refused" => now >= waiting[i].deadline
  <2>1. pc'[w] = "handed" => w = waiting[k].who
    BY <1>1, <1>4 DEF ReleaseTo
  <2>2. pc'[w] = "refused" => w \in WaitersAt(1 .. k - 1)
    BY <1>1, <1>4 DEF ReleaseTo
  <2>3. ASSUME w = waiting[k].who
        PROVE  now <= waiting[i].deadline
    BY <1>1, <1>4, <2>3 DEF ReleaseTo, Late
  <2>4. ASSUME w \in WaitersAt(1 .. k - 1)
        PROVE  now >= waiting[i].deadline
    <3>1. PICK j \in 1 .. k - 1 : waiting[j].who = w
      BY <2>4 DEF WaitersAt
    <3>2. j \in DOMAIN waiting
      BY QueueTyped
    <3>3. i = j /\ Late(j)
      BY <1>1, <1>4, <3>1, <3>2 DEF ReleaseTo
    <3>4. QED
      BY <1>1, <3>3 DEF Late
  <2>5. QED
    BY <2>1, <2>2, <2>3, <2>4
<1>5. ASSUME NEW t \in timers, FireTimer(t)
      PROVE  /\ pc'[w] # "handed"
             /\ pc'[w] = "refused" => now >= waiting[i].deadline
  <2>1. CASE UNCHANGED pc
    BY <1>1, <2>1
  <2>2. ASSUME NEW j \in PlaceOf(t),
               pc' = [pc EXCEPT ![waiting[j].who] = "refused"]
        PROVE  /\ pc'[w] # "handed"
               /\ pc'[w] = "refused" => now >= waiting[i].deadline
    <3>1. j \in DOMAIN waiting /\ waiting[j].id = t.id
      BY DEF PlaceOf
    <3>2. t.due = waiting[j].deadline /\ t.due <= now
      BY <1>5, <3>1 DEF FireTimer, TimersInv
    <3>3. pc'[w] = "refused" => w = waiting[j].who
      BY <1>1, <2>2
    <3>4. pc'[w] # "handed"
      BY <1>1, <2>2
    <3>5. QED
      BY <1>1, <3>1, <3>2, <3>3, <3>4
  <2>3. QED
    BY <1>5, <2>1, <2>2 DEF FireTimer
<1>6. CASE Tick
  BY <1>1, <1>6 DEF Tick
<1>7. QED
  BY <1>1, <1>2, <1>3, <1>4, <1>5, <1>6 DEF Next, Release

\* A waiter gets the slot only before its own deadline and is rejected only
\* after it: no timer of an answered acquire touches a later one.
THEOREM AnswersAlwaysJustified == Spec => AnswersJustified
<1>1. QED
  BY AnswersStep, TypeCorrect, GateInvariant, TimersInvariant, PTL
  DEF Spec, AnswersJustified
-----------------------------------------------------------------------------
(***************************************************************************)
(* The gate implements FifoLock                                            *)
(***************************************************************************)

OwnerShape ==
    /\ Holders = {} => Owner = NoOne
    /\ \A c \in Callers : pc[c] \in {"handed", "holding"} => Owner = c
    /\ inflight <=> Owner # NoOne

LineShape ==
    /\ Len(waiting) \in Nat
    /\ DOMAIN waiting = 1 .. Len(waiting)
    /\ Line \in Seq(Callers)
    /\ Len(Line) = Len(waiting)
    /\ DOMAIN Line = DOMAIN waiting
    /\ \A i \in DOMAIN waiting : Line[i] = waiting[i].who
    /\ waiting = <<>> => Line = <<>>

LEMMA OwnerIs == GateInv => OwnerShape
<1> SUFFICES ASSUME GateInv
             PROVE  OwnerShape
  OBVIOUS
<1>1. \A c \in Holders : Holders = {c} /\ c \in Callers
  BY DEF GateInv, MutualExclusion, Holders
<1>2. ASSUME NEW c \in Holders
      PROVE  Owner = c
  BY <1>1 DEF Owner
<1>3. \A c \in Callers : c # NoOne
  BY SlotGateAssumption
<1>4. QED
  BY <1>1, <1>2, <1>3 DEF OwnerShape, Owner, Holders, GateInv, NoLostSlot

LEMMA LineIs == TypeOK => LineShape
<1> SUFFICES ASSUME TypeOK
             PROVE  LineShape
  OBVIOUS
<1>1. \A i \in DOMAIN waiting : waiting[i].who \in Callers
  BY QueueTyped DEF Entry
<1>2. Line \in [1 .. Len(waiting) -> Callers] /\ Len(waiting) \in Nat
  BY <1>1, QueueTyped DEF Line
<1>3. Line \in Seq(Callers) /\ Len(Line) = Len(waiting)
  BY <1>2
<1>4. waiting = <<>> => Line = <<>>
  BY <1>3, EmptySeq
<1>5. QED
  BY <1>3, <1>4, QueueTyped DEF Line, LineShape

\* A step that keeps the holders and the callers in the queue is a stutter.
LEMMA Stutters ==
    ASSUME UNCHANGED waiting, Holders' = Holders
    PROVE  UNCHANGED Lock!lockVars
  BY DEF Lock!lockVars, Owner, Line

LEMMA LockStep ==
    TypeOK /\ TypeOK' /\ GateInv /\ GateInv' /\ [Next]_vars
        => [Lock!LockNext]_(Lock!lockVars)
<1> SUFFICES ASSUME TypeOK, TypeOK', GateInv, GateInv', [Next]_vars
             PROVE  [Lock!LockNext]_(Lock!lockVars)
  OBVIOUS
<1>1. OwnerShape /\ OwnerShape' /\ LineShape /\ LineShape'
  BY OwnerIs, LineIs, PTL
<1>2. pc \in [Callers -> Stages]
  BY DEF TypeOK
<1>3. ASSUME NEW c \in Callers, AcquireFree(c)
      PROVE  Lock!Enter(c)
  <2>1. pc'[c] = "holding" /\ ~inflight /\ UNCHANGED waiting
    BY <1>2, <1>3 DEF AcquireFree
  <2>2. Line = <<>> /\ Line' = Line
    BY <1>1, <2>1 DEF GateInv, NoLostSlot, LineShape, Line
  <2>3. Owner = NoOne /\ Owner' = c
    BY <1>1, <2>1 DEF OwnerShape
  <2>4. QED
    BY <2>2, <2>3 DEF Lock!Enter
<1>4. ASSUME NEW c \in Callers, AcquireRefused(c)
      PROVE  UNCHANGED Lock!lockVars
  <2>1. pc' = [pc EXCEPT ![c] = "refused"] /\ UNCHANGED waiting
    BY <1>4 DEF AcquireRefused
  <2>2. Holders' = Holders
    BY <1>2, <1>4, <2>1 DEF AcquireRefused, CanCall, Holders
  <2>3. QED
    BY <2>1, <2>2, Stutters
<1>5. ASSUME NEW c \in Callers, NEW timeout \in Timeouts,
             AcquireQueued(c, timeout)
      PROVE  Lock!Join(c)
  <2> DEFINE e == [id |-> entries, who |-> c, deadline |-> Deadline(timeout),
                   timed |-> timeout # 0]
  <2>1. /\ CanCall(c)
        /\ inflight
        /\ waiting' = Append(waiting, e)
        /\ pc' = [pc EXCEPT ![c] = "waiting"]
    BY <1>5 DEF AcquireQueued
  <2>2. e \in Entry /\ e.who = c
    BY NewEntryTyped
  <2> HIDE DEF e
  <2>3. /\ Len(waiting') = Len(waiting) + 1
        /\ \A j \in DOMAIN waiting : waiting'[j] = waiting[j]
        /\ waiting'[Len(waiting) + 1].who = c
    BY <2>1, <2>2, Pushed
  <2>4. Line' = Append(Line, c)
    <3>1. /\ Append(Line, c) \in Seq(Callers)
          /\ Len(Append(Line, c)) = Len(Line) + 1
          /\ \A i \in 1 .. Len(Line) : Append(Line, c)[i] = Line[i]
          /\ Append(Line, c)[Len(Line) + 1] = c
      BY <1>1, AppendProperties DEF LineShape
    <3>2. \A i \in 1 .. Len(Line') : Line'[i] = Append(Line, c)[i]
      BY <1>1, <2>3, <3>1 DEF LineShape
    <3>3. QED
      BY <1>1, <2>3, <3>1, <3>2, SeqEqual DEF LineShape
  <2>5. Holders' = Holders
    BY <1>2, <2>1 DEF CanCall, Holders
  <2>6. Owner' = Owner /\ Owner # NoOne
    BY <1>1, <2>1, <2>5 DEF Owner, OwnerShape
  <2>7. Owner # c
    <3>1. c \notin Holders /\ Holders # {}
      BY <1>1, <2>1, <2>6 DEF Holders, CanCall, OwnerShape
    <3>2. QED
      BY <3>1 DEF Owner, Holders
  <2>8. c \notin Lock!Range(Line)
    BY <1>1, <2>1
    DEF Lock!Range, LineShape, CanCall, GateInv, QueueMatchesWaiters
  <2>9. QED
    BY <2>4, <2>6, <2>7, <2>8 DEF Lock!Join
<1>6. ASSUME NEW c \in Callers, Resume(c)
      PROVE  UNCHANGED Lock!lockVars
  <2>1. pc' = [pc EXCEPT ![c] = "holding"] /\ UNCHANGED waiting
    BY <1>6 DEF Resume
  <2>2. Holders' = Holders
    BY <1>2, <1>6, <2>1 DEF Resume, Holders
  <2>3. QED
    BY <2>1, <2>2, Stutters
<1>7. ASSUME NEW c \in Callers, ReleaseFree(c)
      PROVE  Lock!Free
  <2>1. pc[c] = "holding" /\ inflight' = FALSE /\ waiting' = <<>>
    BY <1>7 DEF ReleaseFree
  <2>2. Owner = c /\ c # NoOne
    BY <1>1, <2>1, SlotGateAssumption DEF OwnerShape
  <2>3. Owner' = NoOne /\ Line' = <<>>
    BY <1>1, <2>1 DEF OwnerShape, LineShape
  <2>4. QED
    BY <2>2, <2>3 DEF Lock!Free
<1>8. ASSUME NEW c \in Callers, NEW k \in DOMAIN waiting, ReleaseTo(c, k)
      PROVE  Lock!PassTo(k)
  <2>1. /\ pc[c] = "holding"
        /\ waiting' = SubSeq(waiting, k + 1, Len(waiting))
    BY <1>8 DEF ReleaseTo
  <2>2. Owner = c /\ c # NoOne
    BY <1>1, <2>1, SlotGateAssumption DEF OwnerShape
  <2>3. waiting[k].who \in Callers /\ waiting[k].who # c
    BY <2>1, Releasing
  <2>4. pc'[waiting[k].who] = "handed"
    BY <1>8, <2>3 DEF ReleaseTo
  <2>5. Owner' = Line[k]
    BY <1>1, <2>3, <2>4 DEF OwnerShape, LineShape
  <2>6. Line' = SubSeq(Line, k + 1, Len(Line))
    <3>1. /\ Len(waiting') = Len(waiting) - k
          /\ \A j \in DOMAIN waiting' : waiting'[j] = waiting[k + j]
      BY <2>1, Shifted
    <3>2. k \in 1 .. Len(Line) /\ Line \in Seq(Callers)
      BY <1>1 DEF LineShape
    <3>3. /\ SubSeq(Line, k + 1, Len(Line)) \in Seq(Callers)
          /\ Len(SubSeq(Line, k + 1, Len(Line))) = Len(Line) - k
          /\ \A j \in 1 .. Len(Line) - k :
                SubSeq(Line, k + 1, Len(Line))[j] = Line[k + j]
      BY <3>2, DropProperties
    <3>4. \A j \in 1 .. Len(Line') :
              Line'[j] = SubSeq(Line, k + 1, Len(Line))[j]
      <4> SUFFICES ASSUME NEW j \in 1 .. Len(Line')
                   PROVE  Line'[j] = SubSeq(Line, k + 1, Len(Line))[j]
        OBVIOUS
      <4>1. /\ j \in DOMAIN waiting'
            /\ j \in 1 .. Len(Line) - k
            /\ k + j \in DOMAIN waiting
        BY <1>1, <3>1, <3>2 DEF LineShape
      <4>2. Line'[j] = waiting[k + j].who
        BY <1>1, <3>1, <4>1 DEF LineShape
      <4>3. Line[k + j] = waiting[k + j].who
        BY <1>1, <4>1 DEF LineShape
      <4>4. QED
        BY <3>3, <4>1, <4>2, <4>3
    <3>5. QED
      BY <1>1, <3>1, <3>3, <3>4, SeqEqual DEF LineShape
  <2>7. QED
    BY <2>2, <2>5, <2>6 DEF Lock!PassTo
<1>9. ASSUME NEW t \in timers, FireTimer(t)
      PROVE  \/ UNCHANGED Lock!lockVars
             \/ \E i \in DOMAIN Line : Lock!Leave(i)
  <2>1. CASE UNCHANGED <<waiting, pc>>
    BY <2>1, Stutters DEF Holders
  <2>2. ASSUME NEW i \in PlaceOf(t), waiting' = RemoveAt(waiting, i),
               pc' = [pc EXCEPT ![waiting[i].who] = "refused"]
        PROVE  i \in DOMAIN Line /\ Lock!Leave(i)
    <3>1. i \in DOMAIN waiting /\ i \in 1 .. Len(Line) /\ i \in DOMAIN Line
      BY <1>1 DEF PlaceOf, LineShape
    <3>2. /\ Len(waiting') = Len(waiting) - 1
          /\ \A j \in DOMAIN waiting' :
                waiting'[j] = IF j < i THEN waiting[j] ELSE waiting[j + 1]
      BY <2>2, <3>1, Spliced
    <3>3. /\ RemoveAt(Line, i) \in Seq(Callers)
          /\ Len(RemoveAt(Line, i)) = Len(Line) - 1
          /\ \A j \in 1 .. Len(Line) - 1 :
                RemoveAt(Line, i)[j] = IF j < i THEN Line[j] ELSE Line[j + 1]
      BY <1>1, <3>1, RemoveAtProperties DEF LineShape
    <3>4. \A j \in 1 .. Len(Line') : Line'[j] = RemoveAt(Line, i)[j]
      <4> SUFFICES ASSUME NEW j \in 1 .. Len(Line')
                   PROVE  Line'[j] = RemoveAt(Line, i)[j]
        OBVIOUS
      <4> DEFINE m == IF j < i THEN j ELSE j + 1
      <4>1. /\ j \in DOMAIN waiting'
            /\ j \in 1 .. Len(Line) - 1
            /\ m \in DOMAIN waiting
        BY <1>1, <3>1, <3>2 DEF LineShape
      <4>2. waiting'[j] = waiting[m] /\ RemoveAt(Line, i)[j] = Line[m]
        BY <3>2, <3>3, <4>1
      <4> HIDE DEF m
      <4>3. QED
        BY <1>1, <4>1, <4>2 DEF LineShape
    <3>5. Line' = RemoveAt(Line, i)
      BY <1>1, <3>2, <3>3, <3>4, SeqEqual DEF LineShape
    <3>6. Holders' = Holders
      BY <1>2, <2>2, <3>1 DEF Holders, GateInv, QueueMatchesWaiters
    <3>7. QED
      BY <3>1, <3>5, <3>6 DEF Lock!Leave, Lock!RemoveAt, RemoveAt, Owner
  <2>3. QED
    BY <1>9, <2>1, <2>2 DEF FireTimer
<1>10. CASE Tick \/ UNCHANGED vars
  BY <1>10, Stutters DEF Tick, vars, Holders
<1>11. QED
  BY <1>1, <1>3, <1>4, <1>5, <1>6, <1>7, <1>8, <1>9, <1>10
  DEF Next, Acquire, Release, Lock!LockNext, LineShape

\* Every behaviour of the gate is one of the abstract lock: served in arrival
\* order, never barged past, the slot handed on or freed at each release.
THEOREM GateImplementsLock == Spec => ImplementsFifoLock
<1>1. Init => Lock!LockInit
  <2> SUFFICES ASSUME Init
               PROVE  Lock!LockInit
    OBVIOUS
  <2>1. Holders = {} /\ waiting = <<>>
    BY DEF Init, Holders
  <2>2. Line = <<>>
    BY <2>1 DEF Line
  <2>3. QED
    BY <2>1, <2>2 DEF Lock!LockInit, Owner
<1>2. QED
  BY <1>1, LockStep, TypeCorrect, GateInvariant, PTL
  DEF Spec, ImplementsFifoLock, Lock!LockSpec
=============================================================================
