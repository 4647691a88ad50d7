---------------------------- MODULE RouterProofs ----------------------------
(***************************************************************************)
(* Results about Router, for every number of calls and providers, in two   *)
(* layers.  The first one needs nothing of what the metrics contain or how *)
(* they rank: the slot and the calls agree, no count passes the threshold of *)
(* the breaker, a success was delivered by the provider it is credited to. *)
(* The second one does: ranking permutes the candidates, the state keeps its *)
(* types, and a call's snapshot of the registry is right as long as it is not *)
(* outdated, so that tool requests keep to providers with tools and calls  *)
(* fail when they are exhausted.                                           *)
(***************************************************************************)
EXTENDS Router, SequenceLemmas, FiniteSetTheorems

\* The gate: a line of distinct callers behind an owner.
LineFits == /\ owner \in Requests \cup {NoOne}
            /\ line \in Seq(Requests)
            /\ \A i, j \in DOMAIN line : line[i] = line[j] => i = j
            /\ owner = NoOne => line = <<>>

GateInv == stage \in [Requests -> Stages] /\ LineFits /\ SlotHeldWhileRunning

BreakerInv == BreakerTypeOK /\ BreakerNeverOvershoots

\* A record with the fields of Frame, whatever they hold.
Shaped(f) == f \in [ask : {f.ask}, ranked : {f.ranked}, at : {f.at}, known : {f.known},
                    live : {f.live}, attempt : {f.attempt}, heard : {f.heard},
                    noticed : {f.noticed}, emitted : {f.emitted}, ttfb : {f.ttfb},
                    aborted : {f.aborted}, last : {f.last}, stale : {f.stale}]

\* What an attempt delivered, the consumer received last.
Framed(f) == Shaped(f) /\ (f.emitted => f.last = f.at)

FramesInv == /\ frame = [r \in Requests |-> frame[r]]
             /\ \A r \in Requests : Framed(frame[r])

\* The provider an auto call is at has a closed circuit; only pinned calls pause.
AtClosed(r) == /\ stage[r] \in {"calling", "yielded"} /\ ~Pinned(r) /\ frame[r].at \in Ids
                     => openedAt[frame[r].at] = Never
               /\ stage[r] = "backoff" => Pinned(r)

CallsInv == \A r \in Requests : AtClosed(r)

IInv == GateInv /\ BreakerInv /\ FramesInv /\ CallsInv
-----------------------------------------------------------------------------
(***************************************************************************)
(* The gate                                                                *)
(***************************************************************************)

LEMMA Names == /\ NoOne \notin Requests
               /\ Running \subseteq Stages /\ Settled \subseteq Stages
               /\ Running \cap Settled = {}
               /\ {"new", "queued"} \cap (Running \cup Settled) = {}
               /\ {"new", "queued"} \subseteq Stages
BY FifoLockAssumption DEF Requests, Running, Settled, Stages

\* Only one call runs.
LEMMA OneRuns ==
    ASSUME GateInv, NEW r \in Requests, stage[r] \in Running
    PROVE  /\ owner = r
           /\ \A x \in Requests : x # r => stage[x] \notin Running
BY Names DEF GateInv, SlotHeldWhileRunning

LEMMA DropFirst ==
    ASSUME LineFits, NEW k \in DOMAIN line
    PROVE  /\ SubSeq(line, k + 1, Len(line)) \in Seq(Requests)
           /\ Len(SubSeq(line, k + 1, Len(line))) = Len(line) - k
           /\ \A i \in 1 .. Len(line) - k :
                  SubSeq(line, k + 1, Len(line))[i] = line[k + i]
<1>1. /\ line \in Seq(Requests) /\ Len(line) \in Nat /\ DOMAIN line = 1 .. Len(line)
      /\ k \in 1 .. Len(line)
  BY LenProperties DEF LineFits
<1>2. CASE k = Len(line)
  BY <1>1, <1>2, SubSeqProperties, SMT
<1>3. CASE k < Len(line)
  BY <1>1, <1>3, SubSeqProperties, SMT
<1> QED BY <1>1, <1>2, <1>3

LEMMA TakeFirst ==
    ASSUME LineFits, NEW k \in DOMAIN line
    PROVE  /\ DOMAIN SubSeq(line, 1, k - 1) = 1 .. k - 1
           /\ \A i \in 1 .. k - 1 : SubSeq(line, 1, k - 1)[i] = line[i]
<1>1. /\ line \in Seq(Requests) /\ Len(line) \in Nat /\ DOMAIN line = 1 .. Len(line)
      /\ k \in 1 .. Len(line)
  BY LenProperties DEF LineFits
<1>2. /\ SubSeq(line, 1, k - 1) \in Seq(Requests)
      /\ Len(SubSeq(line, 1, k - 1)) = k - 1
      /\ \A i \in 1 .. k - 1 : SubSeq(line, 1, k - 1)[i] = line[i]
  BY <1>1, SubSeqProperties, SMT
<1> QED BY <1>1, <1>2, LenProperties

\* The slot moves on: to one caller of the line, which is granted, or to nobody.
LEMMA HandOverKeepsGate ==
    ASSUME GateInv, NEW r \in Requests, stage[r] \in Running,
           NEW outcome \in Settled, HandOver(r, outcome)
    PROVE  /\ GateInv'
           /\ \A x \in Requests : stage'[x] \in Running => stage'[x] = "granted"
<1> DEFINE n == Len(line)
<1>1. /\ owner = r /\ r \notin Range(line)
      /\ \A x \in Requests : x # r => stage[x] \notin Running
  BY OneRuns, Names DEF GateInv, SlotHeldWhileRunning
<1>2. /\ line \in Seq(Requests) /\ n \in Nat /\ DOMAIN line = 1 .. n
      /\ \A i \in 1 .. n : line[i] \in Requests
      /\ Range(line) = { line[i] : i \in 1 .. n }
  BY LenProperties, ElementOfSeq DEF GateInv, LineFits, Range
<1>3. CASE \E k \in DOMAIN line :
              /\ PassTo(k)
              /\ stage' = StagesAfter(r, outcome, Range(SubSeq(line, 1, k - 1)), {line[k]})
  <2>1. PICK k \in 1 .. n :
              /\ PassTo(k)
              /\ stage' = StagesAfter(r, outcome, Range(SubSeq(line, 1, k - 1)), {line[k]})
    BY <1>2, <1>3
  <2> DEFINE early == Range(SubSeq(line, 1, k - 1))
  <2>2. early = { line[i] : i \in 1 .. k - 1 }
    BY <1>2, TakeFirst DEF Range, GateInv
  <2>3. /\ line' \in Seq(Requests) /\ Len(line') = n - k
        /\ DOMAIN line' = 1 .. n - k
        /\ \A i \in 1 .. n - k : line'[i] = line[k + i]
    BY <1>2, <2>1, DropFirst, LenProperties DEF PassTo, GateInv
  <2>4. owner' = line[k] /\ line[k] \in Requests /\ line[k] # r
    BY <1>1, <1>2, <2>1 DEF PassTo
  <2>5. Range(line') = { line[i] : i \in k + 1 .. n }
    <3>1. Range(line') = { line[k + i] : i \in 1 .. n - k }
      BY <2>3 DEF Range
    <3>2. \A i \in 1 .. n - k : k + i \in k + 1 .. n
      BY <1>2
    <3>3. \A i \in k + 1 .. n : i - k \in 1 .. n - k /\ k + (i - k) = i
      BY <1>2
    <3> QED BY <3>1, <3>2, <3>3
  <2>6. \A i, j \in 1 .. n : line[i] = line[j] => i = j
    BY <1>2 DEF GateInv, LineFits
  <2>7. \A x \in Requests :
            stage'[x] = IF x = r THEN outcome
                        ELSE IF x \in early THEN "failed"
                        ELSE IF x = line[k] THEN "granted" ELSE stage[x]
    BY <2>1 DEF StagesAfter
  <2>8. line[k] \notin early /\ line[k] \notin Range(line')
    BY <1>2, <2>2, <2>5, <2>6
  <2>9. \A x \in Requests : x \in Range(line) =>
            \/ x \in early \/ x = line[k] \/ x \in Range(line')
    BY <1>2, <2>2, <2>5
  <2>10. early \subseteq Range(line) /\ Range(line') \subseteq Range(line)
    BY <1>2, <2>2, <2>5
  <2>11. early \cap Range(line') = {}
    BY <1>2, <2>2, <2>5, <2>6
  <2>12. LineFits'
    <3>1. \A i, j \in DOMAIN line' : line'[i] = line'[j] => i = j
      BY <1>2, <2>3, <2>6
    <3> QED BY <2>3, <2>4, <3>1, Names DEF LineFits
  <2>13. stage' \in [Requests -> Stages]
    BY <2>1, Names DEF StagesAfter, GateInv, Settled, Running
  <2>14. \A x \in Requests : x \in Range(line) <=> stage[x] = "queued"
    BY DEF GateInv, SlotHeldWhileRunning
  <2>15. \A x \in Requests : /\ owner' = x <=> stage'[x] \in Running
                             /\ x \in Range(line') <=> stage'[x] = "queued"
    BY <1>1, <2>4, <2>7, <2>8, <2>9, <2>10, <2>11, <2>14, Names DEF Running, Settled
  <2>16. \A x \in Requests : stage'[x] \in Running => stage'[x] = "granted"
    BY <1>1, <2>7, Names DEF Running, Settled
  <2> QED BY <2>12, <2>13, <2>15, <2>16 DEF GateInv, SlotHeldWhileRunning
<1>4. CASE Free /\ stage' = StagesAfter(r, outcome, Range(line), {})
  <2>1. owner' = NoOne /\ line' = <<>>
    BY <1>4 DEF Free
  <2>2. Range(line') = {} /\ LineFits'
    BY <2>1 DEF Range, LineFits
  <2>3. \A x \in Requests :
            stage'[x] = IF x = r THEN outcome
                        ELSE IF x \in Range(line) THEN "failed" ELSE stage[x]
    BY <1>4 DEF StagesAfter
  <2>4. stage' \in [Requests -> Stages]
    BY <1>4, Names DEF StagesAfter, GateInv, Settled, Running
  <2>5. \A x \in Requests : x \in Range(line) <=> stage[x] = "queued"
    BY DEF GateInv, SlotHeldWhileRunning
  <2>6. \A x \in Requests : stage'[x] \notin Running /\ stage'[x] # "queued"
    BY <1>1, <2>3, <2>5, Names DEF Running, Settled
  <2> QED BY <2>1, <2>2, <2>4, <2>6, Names DEF GateInv, SlotHeldWhileRunning
<1> QED BY <1>3, <1>4 DEF HandOver

\* A running call goes from one stage to another.
LEMMA GoToKeepsGate ==
    ASSUME GateInv, NEW r \in Requests, stage[r] \in Running,
           NEW next \in Running, GoTo(r, next)
    PROVE  /\ GateInv'
           /\ stage'[r] = next
           /\ \A x \in Requests : x # r => stage'[x] \notin Running
<1>1. /\ stage' = [stage EXCEPT ![r] = next] /\ owner' = owner /\ line' = line
  BY DEF GoTo, lockVars
<1>2. /\ stage' \in [Requests -> Stages] /\ stage'[r] = next
      /\ \A x \in Requests : x # r => stage'[x] = stage[x]
  BY <1>1, Names DEF GateInv
<1>3. LineFits'
  BY <1>1 DEF GateInv, LineFits
<1>4. Range(line') = Range(line)
  BY <1>1
<1> QED BY <1>1, <1>2, <1>3, <1>4, OneRuns, Names DEF GateInv, SlotHeldWhileRunning

LEMMA SameGate ==
    ASSUME GateInv, UNCHANGED <<owner, line, stage>>
    PROVE  GateInv'
BY DEF GateInv, LineFits, SlotHeldWhileRunning, Range

LEMMA ArriveKeepsGate ==
    ASSUME GateInv, NEW r \in Requests, NEW ask, Arrive(r, ask)
    PROVE  /\ GateInv'
           /\ stage'[r] \notin {"calling", "yielded", "backoff"}
           /\ \A x \in Requests : x # r => stage'[x] = stage[x]
<1>1. /\ stage[r] = "new" /\ r \notin Range(line) /\ owner # r
      /\ \A x \in Requests : x \in Range(line) <=> stage[x] = "queued"
      /\ \A x \in Requests : owner = x <=> stage[x] \in Running
  BY Names DEF Arrive, GateInv, SlotHeldWhileRunning
<1>2. CASE Enter(r) /\ stage' = [stage EXCEPT ![r] = "granted"]
  <2>1. owner = NoOne /\ line = <<>> /\ owner' = r /\ line' = line
    BY <1>2 DEF Enter
  <2>2. LineFits'
    BY <2>1 DEF GateInv, LineFits
  <2>3. /\ stage' \in [Requests -> Stages] /\ stage'[r] = "granted"
        /\ \A x \in Requests : x # r => stage'[x] = stage[x]
    BY <1>2, Names DEF GateInv, Running
  <2>4. "granted" \in Running /\ "granted" # "queued"
    BY DEF Running
  <2>5. Range(line') = Range(line)
    BY <2>1
  <2> QED BY <1>1, <2>1, <2>2, <2>3, <2>4, <2>5, Names DEF GateInv, SlotHeldWhileRunning
<1>3. CASE Join(r) /\ stage' = [stage EXCEPT ![r] = "queued"]
  <2>1. owner # NoOne /\ owner' = owner /\ line' = Append(line, r)
    BY <1>3 DEF Join
  <2>2. /\ line \in Seq(Requests) /\ Len(line) \in Nat /\ DOMAIN line = 1 .. Len(line)
        /\ line' \in Seq(Requests) /\ DOMAIN line' = 1 .. Len(line) + 1
        /\ \A i \in 1 .. Len(line) : line'[i] = line[i]
        /\ line'[Len(line) + 1] = r
    BY <2>1, AppendProperties, LenProperties DEF GateInv, LineFits
  <2>3. Range(line') = Range(line) \cup {r}
    <3>1. 1 .. Len(line) + 1 = (1 .. Len(line)) \cup {Len(line) + 1}
      BY <2>2
    <3> QED BY <2>2, <3>1 DEF Range
  <2>4. \A i \in 1 .. Len(line) : line[i] # r
    BY <1>1, <2>2 DEF Range
  <2>5. LineFits'
    <3>1. \A i, j \in 1 .. Len(line) + 1 : line'[i] = line'[j] => i = j
      BY <2>2, <2>4 DEF GateInv, LineFits
    <3> QED BY <2>1, <2>2, <3>1 DEF GateInv, LineFits
  <2>6. /\ stage' \in [Requests -> Stages] /\ stage'[r] = "queued"
        /\ \A x \in Requests : x # r => stage'[x] = stage[x]
    BY <1>3, Names DEF GateInv
  <2> QED BY <1>1, <2>1, <2>3, <2>5, <2>6, Names DEF GateInv, SlotHeldWhileRunning
<1>4. CASE UNCHANGED lockVars /\ stage' = [stage EXCEPT ![r] = "failed"]
  <2>1. owner' = owner /\ line' = line
    BY <1>4 DEF lockVars
  <2>2. LineFits'
    BY <2>1 DEF GateInv, LineFits
  <2>3. /\ stage' \in [Requests -> Stages] /\ stage'[r] = "failed"
        /\ \A x \in Requests : x # r => stage'[x] = stage[x]
    BY <1>4, Names DEF GateInv, Settled
  <2>4. "failed" \in Settled
    BY DEF Settled
  <2>5. Range(line') = Range(line)
    BY <2>1
  <2> QED BY <1>1, <2>1, <2>2, <2>3, <2>4, <2>5, Names DEF GateInv, SlotHeldWhileRunning
<1> QED BY <1>2, <1>3, <1>4 DEF Arrive
-----------------------------------------------------------------------------
(***************************************************************************)
(* The breaker                                                             *)
(***************************************************************************)

LEMMA CloseKeepsBreaker ==
    ASSUME BreakerInv, NEW p, Close(p), now' = now
    PROVE  BreakerInv'
<1>1. /\ fails \in [Ids -> Nat] /\ openedAt \in [Ids -> Nat \cup {Never}] /\ now \in Nat
      /\ \A q \in Ids : fails[q] <= Threshold
      /\ \A q \in Ids : openedAt[q] # Never <=> fails[q] = Threshold
  BY DEF BreakerInv, BreakerTypeOK, BreakerNeverOvershoots
<1>2. /\ fails' = [fails EXCEPT ![p] = 0] /\ openedAt' = [openedAt EXCEPT ![p] = Never]
  BY DEF Close
<1>3. /\ fails' \in [Ids -> Nat] /\ openedAt' \in [Ids -> Nat \cup {Never}]
      /\ \A q \in Ids : fails'[q] = IF q = p THEN 0 ELSE fails[q]
      /\ \A q \in Ids : openedAt'[q] = IF q = p THEN Never ELSE openedAt[q]
  BY <1>1, <1>2
<1>4. Threshold \in Nat \ {0}
  BY BreakerAssumption
<1> QED BY <1>1, <1>3, <1>4 DEF BreakerInv, BreakerTypeOK, BreakerNeverOvershoots

\* A provider whose circuit is closed is charged.
LEMMA FailKeepsBreaker ==
    ASSUME BreakerInv, NEW p, p \in Ids => openedAt[p] = Never, Fail(p), now' = now
    PROVE  BreakerInv'
<1>1. CASE p \notin Ids
  <2>1. fails' = fails /\ openedAt' = openedAt
    BY <1>1 DEF Fail, BreakerInv, BreakerTypeOK
  <2> QED BY <2>1 DEF BreakerInv, BreakerTypeOK, BreakerNeverOvershoots
<1>2. CASE p \in Ids
  <2>1. /\ fails \in [Ids -> Nat] /\ openedAt \in [Ids -> Nat \cup {Never}] /\ now \in Nat
        /\ \A q \in Ids : fails[q] <= Threshold
        /\ \A q \in Ids : openedAt[q] # Never <=> fails[q] = Threshold
    BY DEF BreakerInv, BreakerTypeOK, BreakerNeverOvershoots
  <2>2. fails[p] + 1 <= Threshold /\ now # Never
    BY <1>2, <2>1, BreakerAssumption DEF Never
  <2>3. /\ fails' \in [Ids -> Nat] /\ fails'[p] = fails[p] + 1
        /\ \A q \in Ids : q # p => fails'[q] = fails[q]
    BY <1>2, <2>1 DEF Fail
  <2>4. CASE fails[p] + 1 >= Threshold
    <3>1. openedAt' = [openedAt EXCEPT ![p] = now]
      BY <2>4 DEF Fail
    <3> QED BY <1>2, <2>1, <2>2, <2>3, <2>4, <3>1, BreakerAssumption
            DEF BreakerInv, BreakerTypeOK, BreakerNeverOvershoots
  <2>5. CASE ~(fails[p] + 1 >= Threshold)
    <3>1. openedAt' = openedAt
      BY <2>5 DEF Fail
    <3> QED BY <1>2, <2>1, <2>2, <2>3, <2>5, <3>1, BreakerAssumption
            DEF BreakerInv, BreakerTypeOK, BreakerNeverOvershoots
  <2> QED BY <2>4, <2>5
<1> QED BY <1>1, <1>2

LEMMA SameBreaker ==
    ASSUME BreakerInv, UNCHANGED breakerVars, now' = now
    PROVE  BreakerInv'
BY DEF BreakerInv, BreakerTypeOK, BreakerNeverOvershoots, breakerVars

\* isOpen() said no: the circuit is closed from now on.
LEMMA CheckOpenKeepsBreaker ==
    ASSUME BreakerInv, NEW p, ~IsOpen(p), CheckOpen(p), now' = now
    PROVE  BreakerInv' /\ (p \in Ids => openedAt'[p] = Never)
<1>1. CASE openedAt[p] # Never
  BY <1>1, CloseKeepsBreaker DEF CheckOpen, Close, BreakerInv, BreakerTypeOK
<1>2. CASE openedAt[p] = Never
  <2>1. UNCHANGED breakerVars
    BY <1>2 DEF CheckOpen
  <2> QED BY <1>2, <2>1, SameBreaker DEF breakerVars
<1> QED BY <1>1, <1>2
-----------------------------------------------------------------------------
(***************************************************************************)
(* The frames                                                              *)
(***************************************************************************)

LEMMA OneFrame ==
    ASSUME FramesInv, NEW r \in Requests, NEW f, Framed(f),
           frame' = [frame EXCEPT ![r] = f]
    PROVE  FramesInv' /\ frame'[r] = f
BY DEF FramesInv

LEMMA EmptyIsFramed == Framed(EmptyFrame)
BY DEF Framed, Shaped, EmptyFrame

LEMMA CalledIsFramed ==
    ASSUME NEW f, Framed(f), NEW p, NEW known \in BOOLEAN
    PROVE  /\ Framed(Called(f, p, known))
           /\ Called(f, p, known).at = p
           /\ Called(f, p, known).ask = f.ask
<1>1. Shaped(Called(f, p, known))
  BY DEF Framed, Shaped, Called
<1>2. /\ Called(f, p, known).at = p /\ Called(f, p, known).ask = f.ask
      /\ Called(f, p, known).emitted = FALSE
  BY DEF Framed, Shaped, Called
<1> QED BY <1>1, <1>2 DEF Framed

LEMMA DeliveredIsFramed ==
    ASSUME NEW f, Framed(f), NEW ttfb
    PROVE  /\ Framed(Delivered(f, ttfb))
           /\ Delivered(f, ttfb).at = f.at
           /\ Delivered(f, ttfb).ask = f.ask
<1>1. Shaped(Delivered(f, ttfb))
  BY DEF Framed, Shaped, Delivered
<1>2. /\ Delivered(f, ttfb).at = f.at /\ Delivered(f, ttfb).ask = f.ask
      /\ Delivered(f, ttfb).last = f.at
  BY DEF Framed, Shaped, Delivered
<1> QED BY <1>1, <1>2 DEF Framed

LEMMA HeardIsFramed ==
    ASSUME NEW f, Framed(f), NEW looks
    PROVE  /\ Framed(Heard(f, looks))
           /\ Heard(f, looks).at = f.at
           /\ Heard(f, looks).ask = f.ask
<1>1. Shaped(Heard(f, looks))
  BY DEF Framed, Shaped, Heard
<1>2. /\ Heard(f, looks).at = f.at /\ Heard(f, looks).ask = f.ask
      /\ Heard(f, looks).last = f.last /\ Heard(f, looks).emitted = f.emitted
  BY DEF Framed, Shaped, Heard
<1> QED BY <1>1, <1>2 DEF Framed

LEMMA PutIsFramed ==
    ASSUME NEW f, Framed(f), NEW v,
           NEW g \in {[f EXCEPT !.ask = v], [f EXCEPT !.attempt = v], [f EXCEPT !.ranked = v],
                      [f EXCEPT !.aborted = v], [f EXCEPT !.stale = v]}
    PROVE  Framed(g) /\ g.at = f.at /\ (g = [f EXCEPT !.ask = v] \/ g.ask = f.ask)
<1>1. CASE g = [f EXCEPT !.ask = v]
  BY <1>1 DEF Framed, Shaped
<1>2. CASE g = [f EXCEPT !.attempt = v]
  BY <1>2 DEF Framed, Shaped
<1>3. CASE g = [f EXCEPT !.ranked = v]
  BY <1>3 DEF Framed, Shaped
<1>4. CASE g = [f EXCEPT !.aborted = v]
  BY <1>4 DEF Framed, Shaped
<1>5. CASE g = [f EXCEPT !.stale = v]
  BY <1>5 DEF Framed, Shaped
<1> QED BY <1>1, <1>2, <1>3, <1>4, <1>5

LEMMA SameFrames ==
    ASSUME FramesInv, UNCHANGED frame
    PROVE  FramesInv'
BY DEF FramesInv
-----------------------------------------------------------------------------
(***************************************************************************)
(* The calls at a provider                                                 *)
(***************************************************************************)

\* A call ends.
LEMMA HandOverKeeps ==
    ASSUME GateInv, NEW r \in Requests, stage[r] \in Running,
           NEW outcome \in Settled, HandOver(r, outcome)
    PROVE  GateInv' /\ CallsInv'
BY HandOverKeepsGate DEF CallsInv, AtClosed, Running

LEMMA SettleKeeps ==
    ASSUME GateInv, FramesInv, NEW r \in Requests, stage[r] \in Running,
           NEW outcome \in Settled, Settle(r, outcome)
    PROVE  GateInv' /\ CallsInv' /\ FramesInv'
BY HandOverKeeps, OneFrame, EmptyIsFramed DEF Settle

\* A running call goes on; the circuit of an auto call's provider is closed.
LEMMA GoToKeeps ==
    ASSUME GateInv, NEW r \in Requests, stage[r] \in Running,
           NEW next \in Running, GoTo(r, next),
           next \in {"calling", "yielded"} /\ ~Pinned(r)' /\ frame'[r].at \in Ids
               => openedAt'[frame'[r].at] = Never,
           next = "backoff" => Pinned(r)'
    PROVE  GateInv' /\ CallsInv'
<1>1. /\ GateInv' /\ stage'[r] = next
      /\ \A x \in Requests : x # r => stage'[x] \notin Running
  BY GoToKeepsGate
<1>2. AtClosed(r)'
  BY <1>1 DEF AtClosed
<1>3. ASSUME NEW x \in Requests, x # r PROVE AtClosed(x)'
  BY <1>1, <1>3 DEF AtClosed, Running
<1> QED BY <1>1, <1>2, <1>3 DEF CallsInv

\* Nothing about the calls changes but what the invariant does not read.
LEMMA SameCalls ==
    ASSUME CallsInv, UNCHANGED <<stage, openedAt>>,
           \A r \in Requests : frame'[r].at = frame[r].at /\ frame'[r].ask = frame[r].ask
    PROVE  CallsInv'
BY DEF CallsInv, AtClosed, Pinned
-----------------------------------------------------------------------------
(***************************************************************************)
(* The steps                                                               *)
(***************************************************************************)

LEMMA ArriveKeeps ==
    ASSUME IInv, NEW r \in Requests, NEW ask, Arrive(r, ask)
    PROVE  IInv'
<1>1. GateInv /\ BreakerInv /\ FramesInv /\ CallsInv
  BY DEF IInv
<1>2. /\ GateInv' /\ stage'[r] \notin {"calling", "yielded", "backoff"}
      /\ \A x \in Requests : x # r => stage'[x] = stage[x]
  BY <1>1, ArriveKeepsGate
<1>3. BreakerInv' /\ openedAt' = openedAt
  BY <1>1, SameBreaker DEF Arrive, breakerVars
<1>4. frame' = [frame EXCEPT ![r] = [frame[r] EXCEPT !.ask = ask]]
  BY <1>1 DEF Arrive, FramesInv
<1>5. FramesInv' /\ \A x \in Requests : x # r => frame'[x] = frame[x]
  <2>1. Framed([frame[r] EXCEPT !.ask = ask])
    BY <1>1, PutIsFramed DEF FramesInv
  <2> QED BY <1>1, <1>4, <2>1, OneFrame DEF FramesInv
<1>6. CallsInv'
  <2>1. AtClosed(r)'
    BY <1>2 DEF AtClosed
  <2>2. ASSUME NEW x \in Requests, x # r PROVE AtClosed(x)'
    BY <1>1, <1>2, <1>3, <1>5, <2>2 DEF AtClosed, CallsInv, Pinned
  <2> QED BY <2>1, <2>2 DEF CallsInv
<1> QED BY <1>2, <1>3, <1>5, <1>6 DEF IInv

LEMMA BeginPinnedKeeps ==
    ASSUME IInv, NEW r \in Requests, BeginPinned(r)
    PROVE  IInv'
<1>1. GateInv /\ BreakerInv /\ FramesInv /\ CallsInv
  BY DEF IInv
<1>2. stage[r] \in Running /\ Pinned(r) /\ BreakerInv'
  BY <1>1, SameBreaker DEF BeginPinned, Running
<1>3. CASE Settle(r, "failed")
  BY <1>1, <1>2, <1>3, SettleKeeps DEF Settled, IInv
<1>4. CASE /\ GoTo(r, "calling")
           /\ frame' = [frame EXCEPT ![r] =
                 [Called(@, frame[r].ask.provider, TRUE) EXCEPT !.attempt = 1]]
  <2> DEFINE f == Called(frame[r], frame[r].ask.provider, TRUE)
             g == [f EXCEPT !.attempt = 1]
  <2>1. Framed(f) /\ f.ask = frame[r].ask
    BY <1>1, CalledIsFramed DEF FramesInv
  <2>2. frame' = [frame EXCEPT ![r] = g]
    BY <1>1, <1>4 DEF FramesInv
  <2> HIDE DEF f
  <2>3. Framed(g) /\ g.ask = f.ask
    BY <2>1 DEF Framed, Shaped
  <2> HIDE DEF g
  <2>4. FramesInv' /\ frame'[r] = g
    BY <1>1, <2>2, <2>3, OneFrame
  <2>5. Pinned(r)'
    BY <1>2, <2>1, <2>3, <2>4 DEF Pinned
  <2>6. GateInv' /\ CallsInv'
    <3>1. "calling" \in Running
      BY DEF Running
    <3> QED BY <1>1, <1>2, <1>4, <2>5, <3>1, GoToKeeps
  <2> QED BY <1>2, <2>4, <2>6 DEF IInv
<1> QED BY <1>3, <1>4 DEF BeginPinned

LEMMA BeginAutoKeeps ==
    ASSUME IInv, NEW r \in Requests, BeginAuto(r)
    PROVE  IInv'
<1>1. GateInv /\ BreakerInv /\ FramesInv /\ CallsInv
  BY DEF IInv
<1>2. stage[r] \in Running /\ BreakerInv'
  BY <1>1, SameBreaker DEF BeginAuto, Running
<1>3. CASE Settle(r, "failed")
  BY <1>1, <1>2, <1>3, SettleKeeps DEF Settled, IInv
<1>4. ASSUME NEW ranked, GoTo(r, "choosing"),
             frame' = [frame EXCEPT ![r].ranked = ranked, ![r].stale = FALSE]
      PROVE  IInv'
  <2> DEFINE f == [frame[r] EXCEPT !.ranked = ranked]
             g == [f EXCEPT !.stale = FALSE]
  <2>1. Framed(f)
    BY <1>1, PutIsFramed DEF FramesInv
  <2>2. frame' = [frame EXCEPT ![r] = g]
    BY <1>1, <1>4 DEF FramesInv
  <2> HIDE DEF f
  <2>3. Framed(g)
    BY <2>1, PutIsFramed
  <2> HIDE DEF g
  <2>4. FramesInv'
    BY <1>1, <2>2, <2>3, OneFrame
  <2>5. GateInv' /\ CallsInv'
    <3>1. "choosing" \in Running
      BY DEF Running
    <3> QED BY <1>1, <1>2, <1>4, <3>1, GoToKeeps
  <2> QED BY <1>2, <2>4, <2>5 DEF IInv
<1> QED BY <1>3, <1>4 DEF BeginAuto

LEMMA GiveUpKeeps ==
    ASSUME IInv, NEW r \in Requests, GiveUp(r)
    PROVE  IInv'
<1>1. stage[r] \in Running /\ BreakerInv'
  BY SameBreaker DEF IInv, GiveUp, Running
<1> QED BY <1>1, SettleKeeps DEF GiveUp, IInv, Settled

LEMMA SkipOpenKeeps ==
    ASSUME IInv, NEW r \in Requests, SkipOpen(r)
    PROVE  IInv'
<1>1. GateInv /\ BreakerInv /\ FramesInv /\ CallsInv
  BY DEF IInv
<1>2. stage[r] \in Running /\ BreakerInv' /\ openedAt' = openedAt
  BY <1>1, SameBreaker DEF SkipOpen, Running, breakerVars
<1>3. CASE Settle(r, "failed")
  BY <1>1, <1>2, <1>3, SettleKeeps DEF Settled, IInv
<1>4. CASE /\ frame' = [frame EXCEPT ![r].ranked = Tail(@)]
           /\ UNCHANGED <<stage, lockVars>>
  <2> DEFINE g == [frame[r] EXCEPT !.ranked = Tail(frame[r].ranked)]
  <2>1. frame' = [frame EXCEPT ![r] = g]
    BY <1>1, <1>4 DEF FramesInv
  <2>2. Framed(g) /\ g.at = frame[r].at /\ g.ask = frame[r].ask
    BY <1>1 DEF FramesInv, Framed, Shaped
  <2> HIDE DEF g
  <2>3. FramesInv' /\ \A x \in Requests : /\ frame'[x].at = frame[x].at
                                          /\ frame'[x].ask = frame[x].ask
    BY <1>1, <2>1, <2>2, OneFrame DEF FramesInv
  <2> QED BY <1>1, <1>2, <1>4, <2>3, SameGate, SameCalls DEF IInv, lockVars
<1> QED BY <1>3, <1>4 DEF SkipOpen

LEMMA TryNextKeeps ==
    ASSUME IInv, NEW r \in Requests, TryNext(r)
    PROVE  IInv'
<1> DEFINE p == Head(frame[r].ranked)
           f == [frame[r] EXCEPT !.ranked = Tail(frame[r].ranked)]
           g == Called(f, p, installed[p] # "absent")
<1>1. GateInv /\ BreakerInv /\ FramesInv /\ CallsInv
  BY DEF IInv
<1>2. stage[r] \in Running /\ "calling" \in Running
  BY DEF TryNext, Running
<1>3. BreakerInv' /\ (p \in Ids => openedAt'[p] = Never)
  BY <1>1, CheckOpenKeepsBreaker DEF TryNext
<1>4. frame' = [frame EXCEPT ![r] = g] /\ GoTo(r, "calling")
  BY DEF TryNext
<1>5. Framed(f)
  BY <1>1, PutIsFramed DEF FramesInv
<1> HIDE DEF f
<1>6. Framed(g) /\ g.at = p
  BY <1>5, CalledIsFramed
<1> HIDE DEF g, p
<1>7. FramesInv' /\ frame'[r].at = p
  BY <1>1, <1>4, <1>6, OneFrame
<1>8. GateInv' /\ CallsInv'
  BY <1>1, <1>2, <1>3, <1>4, <1>7, GoToKeeps
<1> QED BY <1>3, <1>7, <1>8 DEF IInv

\* The provider of an auto call is charged for the attempt.
LEMMA ChargeKeepsBreaker ==
    ASSUME BreakerInv, CallsInv, NEW r \in Requests, stage[r] = "calling", ~Pinned(r),
           Fail(frame[r].at), now' = now
    PROVE  BreakerInv'
BY FailKeepsBreaker DEF CallsInv, AtClosed

LEMMA UpstreamThrowsKeeps ==
    ASSUME IInv, NEW r \in Requests, NEW retryable, UpstreamThrows(r, retryable)
    PROVE  IInv'
<1>1. GateInv /\ BreakerInv /\ FramesInv /\ CallsInv
  BY DEF IInv
<1>2. /\ stage[r] = "calling" /\ stage[r] \in Running /\ now' = now
      /\ {"choosing", "backoff"} \subseteq Running /\ "failed" \in Settled
  BY DEF UpstreamThrows, Running, Settled
<1>3. CASE ~Pinned(r) /\ ChargeFailure(r) /\ UNCHANGED frame
  <2>1. BreakerInv' /\ GoTo(r, "choosing")
    BY <1>1, <1>2, <1>3, ChargeKeepsBreaker DEF ChargeFailure
  <2>2. GateInv' /\ CallsInv'
    BY <1>1, <1>2, <2>1, GoToKeeps
  <2> QED BY <1>1, <1>3, <2>1, <2>2, SameFrames DEF IInv
<1>4. CASE ~Pinned(r) /\ Fail(frame[r].at) /\ Settle(r, "failed")
  <2>1. BreakerInv'
    BY <1>1, <1>2, <1>4, ChargeKeepsBreaker
  <2> QED BY <1>1, <1>2, <1>4, <2>1, SettleKeeps DEF IInv
<1>5. CASE Pinned(r) /\ RetryPinned(r, TransientTries) /\ UNCHANGED frame
  <2>1. BreakerInv' /\ GoTo(r, "backoff") /\ Pinned(r)'
    BY <1>1, <1>2, <1>5, SameBreaker DEF RetryPinned, Pinned
  <2>2. GateInv' /\ CallsInv'
    BY <1>1, <1>2, <2>1, GoToKeeps
  <2> QED BY <1>1, <1>5, <2>1, <2>2, SameFrames DEF IInv
<1>6. CASE FailPinned(r)
  <2>1. BreakerInv'
    BY <1>1, <1>2, <1>6, SameBreaker DEF FailPinned
  <2> QED BY <1>1, <1>2, <1>6, <2>1, SettleKeeps DEF FailPinned, IInv
<1> QED BY <1>3, <1>4, <1>5, <1>6 DEF UpstreamThrows

LEMMA UpstreamEndsKeeps ==
    ASSUME IInv, NEW r \in Requests, UpstreamEnds(r)
    PROVE  IInv'
<1>1. GateInv /\ BreakerInv /\ FramesInv /\ CallsInv
  BY DEF IInv
<1>2. /\ stage[r] = "calling" /\ stage[r] \in Running /\ now' = now
      /\ "choosing" \in Running /\ "done" \in Settled
  BY DEF UpstreamEnds, Running, Settled
<1>3. CASE Settle(r, "done") /\ UNCHANGED <<breakerVars, stats>>
  BY <1>1, <1>2, <1>3, SameBreaker, SettleKeeps DEF IInv
<1>4. CASE Succeed(frame[r].at) /\ Settle(r, "done")
  BY <1>1, <1>2, <1>4, CloseKeepsBreaker, SettleKeeps DEF IInv, Succeed
<1>5. CASE ~Pinned(r) /\ ChargeFailure(r) /\ UNCHANGED frame
  <2>1. BreakerInv' /\ GoTo(r, "choosing")
    BY <1>1, <1>2, <1>5, ChargeKeepsBreaker DEF ChargeFailure
  <2>2. GateInv' /\ CallsInv'
    BY <1>1, <1>2, <2>1, GoToKeeps
  <2> QED BY <1>1, <1>5, <2>1, <2>2, SameFrames DEF IInv
<1> QED BY <1>3, <1>4, <1>5 DEF UpstreamEnds

\* A chunk is passed on to the consumer.
LEMMA DeliverKeeps ==
    ASSUME IInv, NEW r \in Requests, stage[r] = "calling", NEW f, NEW ttfb,
           Framed(f), f.at = frame[r].at, f.ask = frame[r].ask,
           frame' = [frame EXCEPT ![r] = Delivered(f, ttfb)], GoTo(r, "yielded"),
           UNCHANGED breakerVars, now' = now
    PROVE  IInv'
<1>1. GateInv /\ BreakerInv /\ FramesInv /\ CallsInv
  BY DEF IInv
<1>2. BreakerInv' /\ openedAt' = openedAt
  BY <1>1, SameBreaker DEF breakerVars
<1>3. /\ FramesInv'
      /\ frame'[r].at = frame[r].at /\ frame'[r].ask = frame[r].ask
  <2> DEFINE g == Delivered(f, ttfb)
  <2>1. /\ Framed(g) /\ g.at = f.at /\ g.ask = f.ask
        /\ frame' = [frame EXCEPT ![r] = g]
    BY DeliveredIsFramed
  <2> HIDE DEF g
  <2>2. FramesInv' /\ frame'[r] = g
    BY <1>1, <2>1, OneFrame
  <2> QED BY <2>1, <2>2
<1>4. GateInv' /\ CallsInv'
  <2>1. stage[r] \in Running /\ "yielded" \in Running
    BY DEF Running
  <2>2. ~Pinned(r)' /\ frame'[r].at \in Ids => openedAt'[frame'[r].at] = Never
    BY <1>1, <1>2, <1>3 DEF CallsInv, AtClosed, Pinned
  <2> QED BY <1>1, <2>1, <2>2, GoToKeeps
<1> QED BY <1>2, <1>3, <1>4 DEF IInv

LEMMA OtherChunkKeeps ==
    ASSUME IInv, NEW r \in Requests, NEW ttfb, OtherChunk(r, ttfb)
    PROVE  IInv'
<1>1. Framed(frame[r])
  BY DEF IInv, FramesInv
<1>2. /\ stage[r] = "calling" /\ GoTo(r, "yielded") /\ UNCHANGED breakerVars /\ now' = now
      /\ frame' = [frame EXCEPT ![r] = Delivered(frame[r], ttfb)]
  BY DEF OtherChunk
<1> QED BY <1>1, <1>2, DeliverKeeps

LEMMA ContentChunkKeeps ==
    ASSUME IInv, NEW r \in Requests, NEW looks, NEW ttfb, ContentChunk(r, looks, ttfb)
    PROVE  IInv'
<1> DEFINE f == Heard(frame[r], looks)
<1>1. GateInv /\ BreakerInv /\ FramesInv /\ CallsInv
  BY DEF IInv
<1>2. /\ stage[r] = "calling" /\ stage[r] \in Running /\ now' = now
      /\ {"choosing", "backoff"} \subseteq Running /\ "failed" \in Settled
  BY DEF ContentChunk, Running, Settled
<1>3. Framed(f) /\ f.at = frame[r].at /\ f.ask = frame[r].ask
  BY <1>1, HeardIsFramed DEF FramesInv
<1>4. \/ /\ frame' = [frame EXCEPT ![r] = Delivered(f, ttfb)]
         /\ GoTo(r, "yielded") /\ UNCHANGED breakerVars
      \/ ~Pinned(r) /\ frame' = [frame EXCEPT ![r] = f] /\ ChargeFailure(r)
      \/ Pinned(r) /\ frame' = [frame EXCEPT ![r] = f] /\ RetryPinned(r, NoticeTries)
      \/ FailPinned(r)
  BY DEF ContentChunk
<1> HIDE DEF f
<1>5. CASE /\ frame' = [frame EXCEPT ![r] = Delivered(f, ttfb)]
           /\ GoTo(r, "yielded") /\ UNCHANGED breakerVars
  BY <1>2, <1>3, <1>5, DeliverKeeps
<1>6. CASE ~Pinned(r) /\ frame' = [frame EXCEPT ![r] = f] /\ ChargeFailure(r)
  <2>1. BreakerInv' /\ GoTo(r, "choosing")
    BY <1>1, <1>2, <1>6, ChargeKeepsBreaker DEF ChargeFailure
  <2>2. GateInv' /\ CallsInv'
    BY <1>1, <1>2, <2>1, GoToKeeps
  <2> QED BY <1>1, <1>3, <1>6, <2>1, <2>2, OneFrame DEF IInv
<1>7. CASE Pinned(r) /\ frame' = [frame EXCEPT ![r] = f] /\ RetryPinned(r, NoticeTries)
  <2>1. FramesInv' /\ frame'[r] = f
    BY <1>1, <1>3, <1>7, OneFrame
  <2>2. BreakerInv' /\ GoTo(r, "backoff") /\ Pinned(r)'
    BY <1>1, <1>2, <1>3, <1>7, <2>1, SameBreaker DEF RetryPinned, Pinned
  <2>3. GateInv' /\ CallsInv'
    BY <1>1, <1>2, <2>2, GoToKeeps
  <2> QED BY <2>1, <2>2, <2>3 DEF IInv
<1>8. CASE FailPinned(r)
  <2>1. BreakerInv'
    BY <1>1, <1>2, <1>8, SameBreaker DEF FailPinned
  <2> QED BY <1>1, <1>2, <1>8, <2>1, SettleKeeps DEF FailPinned, IInv
<1> QED BY <1>4, <1>5, <1>6, <1>7, <1>8

LEMMA RetryKeeps ==
    ASSUME IInv, NEW r \in Requests, Retry(r)
    PROVE  IInv'
<1> DEFINE f == Called(frame[r], frame[r].at, TRUE)
           g == [f EXCEPT !.attempt = frame[r].attempt + 1]
<1>1. GateInv /\ BreakerInv /\ FramesInv /\ CallsInv
  BY DEF IInv
<1>2. /\ stage[r] = "backoff" /\ stage[r] \in Running /\ "calling" \in Running
      /\ GoTo(r, "calling") /\ Pinned(r) /\ BreakerInv'
  <2>1. stage[r] = "backoff" /\ GoTo(r, "calling") /\ UNCHANGED breakerVars /\ now' = now
    BY DEF Retry
  <2>2. stage[r] \in Running /\ "calling" \in Running
    BY <2>1 DEF Running
  <2>3. Pinned(r)
    BY <1>1, <2>1 DEF CallsInv, AtClosed
  <2> QED BY <1>1, <2>1, <2>2, <2>3, SameBreaker
<1>3. Framed(f) /\ f.ask = frame[r].ask
  BY <1>1, CalledIsFramed DEF FramesInv
<1>4. frame' = [frame EXCEPT ![r] = g]
  BY <1>1 DEF Retry, FramesInv
<1> HIDE DEF f
<1>5. Framed(g) /\ g.ask = f.ask
  BY <1>3 DEF Framed, Shaped
<1> HIDE DEF g
<1>6. FramesInv' /\ frame'[r] = g
  BY <1>1, <1>4, <1>5, OneFrame
<1>7. Pinned(r)'
  BY <1>2, <1>3, <1>5, <1>6 DEF Pinned
<1>8. GateInv' /\ CallsInv'
  BY <1>1, <1>2, <1>7, GoToKeeps
<1> QED BY <1>2, <1>6, <1>8 DEF IInv

LEMMA PullKeeps ==
    ASSUME IInv, NEW r \in Requests, Pull(r)
    PROVE  IInv'
<1>1. GateInv /\ BreakerInv /\ FramesInv /\ CallsInv
  BY DEF IInv
<1>2. /\ stage[r] = "yielded" /\ stage[r] \in Running /\ "calling" \in Running
      /\ GoTo(r, "calling") /\ frame' = frame /\ openedAt' = openedAt /\ BreakerInv'
  BY <1>1, SameBreaker DEF Pull, Running, breakerVars
<1>3. ~Pinned(r)' /\ frame'[r].at \in Ids => openedAt'[frame'[r].at] = Never
  BY <1>1, <1>2 DEF CallsInv, AtClosed, Pinned
<1>4. GateInv' /\ CallsInv'
  BY <1>1, <1>2, <1>3, GoToKeeps
<1> QED BY <1>1, <1>2, <1>4, SameFrames DEF IInv

LEMMA CancelKeeps ==
    ASSUME IInv, NEW r \in Requests, Cancel(r)
    PROVE  IInv'
<1>1. stage[r] \in Running /\ BreakerInv'
  BY SameBreaker DEF IInv, Cancel, Running
<1> QED BY <1>1, SettleKeeps DEF Cancel, IInv, Settled

LEMMA AbortKeeps ==
    ASSUME IInv, NEW r \in Requests, Abort(r)
    PROVE  IInv'
<1> DEFINE g == [frame[r] EXCEPT !.aborted = TRUE]
<1>1. GateInv /\ BreakerInv /\ FramesInv /\ CallsInv
  BY DEF IInv
<1>2. /\ UNCHANGED <<owner, line, stage>> /\ openedAt' = openedAt /\ BreakerInv'
  BY <1>1, SameBreaker DEF Abort, lockVars, breakerVars
<1>3. frame' = [frame EXCEPT ![r] = g]
  BY <1>1 DEF Abort, FramesInv
<1>4. Framed(g) /\ g.at = frame[r].at /\ g.ask = frame[r].ask
  BY <1>1 DEF FramesInv, Framed, Shaped
<1> HIDE DEF g
<1>5. FramesInv' /\ \A x \in Requests : /\ frame'[x].at = frame[x].at
                                        /\ frame'[x].ask = frame[x].ask
  BY <1>1, <1>3, <1>4, OneFrame DEF FramesInv
<1> QED BY <1>1, <1>2, <1>5, SameGate, SameCalls DEF IInv

LEMMA ChangeRegistryKeeps ==
    ASSUME IInv, RegistryChanged
    PROVE  IInv'
<1>1. GateInv /\ BreakerInv /\ FramesInv /\ CallsInv
  BY DEF IInv
<1>2. UNCHANGED <<owner, line, stage>> /\ openedAt' = openedAt /\ BreakerInv'
  BY <1>1, SameBreaker DEF RegistryChanged, lockVars, breakerVars
<1>3. ASSUME NEW x \in Requests
      PROVE  Framed(frame'[x]) /\ frame'[x].at = frame[x].at /\ frame'[x].ask = frame[x].ask
  <2>1. frame'[x] = [frame[x] EXCEPT !.stale = TRUE] \/ frame'[x] = frame[x]
    BY DEF RegistryChanged
  <2>2. Framed(frame[x])
    BY <1>1 DEF FramesInv
  <2>3. CASE frame'[x] = [frame[x] EXCEPT !.stale = TRUE]
    BY <2>2, <2>3 DEF Framed, Shaped
  <2> QED BY <2>1, <2>2, <2>3
<1>4. FramesInv'
  BY <1>3 DEF RegistryChanged, FramesInv
<1> QED BY <1>1, <1>2, <1>3, <1>4, SameGate, SameCalls DEF IInv

LEMMA TickKeeps ==
    ASSUME IInv, UNCHANGED <<owner, line, stage, frame, breakerVars>>, now' \in Nat
    PROVE  IInv'
<1>1. GateInv' /\ CallsInv' /\ FramesInv'
  BY SameGate, SameCalls, SameFrames DEF IInv, breakerVars
<1>2. BreakerInv'
  BY DEF IInv, BreakerInv, BreakerTypeOK, BreakerNeverOvershoots, breakerVars
<1> QED BY <1>1, <1>2 DEF IInv
-----------------------------------------------------------------------------
LEMMA InitHolds == Init => IInv
<1> SUFFICES ASSUME Init PROVE IInv
  OBVIOUS
<1>1. GateInv
  <2>1. owner = NoOne /\ line = <<>> /\ stage = [r \in Requests |-> "new"]
    BY DEF Init, LockInit
  <2>2. Range(line) = {}
    BY <2>1 DEF Range
  <2>3. LineFits
    BY <2>1 DEF LineFits
  <2> QED BY <2>1, <2>2, <2>3, Names DEF GateInv, SlotHeldWhileRunning, Running
<1>2. BreakerInv
  BY BreakerAssumption
     DEF Init, BreakerInit, BreakerInv, BreakerTypeOK, BreakerNeverOvershoots, Never
<1>3. FramesInv
  BY EmptyIsFramed DEF Init, FramesInv
<1>4. CallsInv
  BY DEF Init, CallsInv, AtClosed
<1> QED BY <1>1, <1>2, <1>3, <1>4 DEF IInv

LEMMA NextKeeps == IInv /\ [Next]_vars => IInv'
<1> SUFFICES ASSUME IInv, [Next]_vars PROVE IInv'
  OBVIOUS
<1>1. ASSUME NEW r \in Requests, NEW ask \in Asks, Arrive(r, ask) PROVE IInv'
  BY <1>1, ArriveKeeps
<1>2. ASSUME NEW r \in Requests, RouterStep(r) PROVE IInv'
  BY <1>2, BeginPinnedKeeps, BeginAutoKeeps, GiveUpKeeps, SkipOpenKeeps, TryNextKeeps,
     RetryKeeps DEF RouterStep
<1>3. ASSUME NEW r \in Requests, Chunk(r) PROVE IInv'
  BY <1>3, OtherChunkKeeps, ContentChunkKeeps DEF Chunk
<1>4. ASSUME NEW r \in Requests, Finish(r) PROVE IInv'
  BY <1>4, UpstreamEndsKeeps, UpstreamThrowsKeeps DEF Finish
<1>5. ASSUME NEW r \in Requests, Pull(r) \/ Cancel(r) \/ Abort(r) PROVE IInv'
  BY <1>5, PullKeeps, CancelKeeps, AbortKeeps
<1>6. ASSUME ChangeRegistry PROVE IInv'
  BY <1>6, ChangeRegistryKeeps
     DEF ChangeRegistry, RegisterProvider, UnregisterProvider, SetFailoverOrder
<1>7. ASSUME Tick PROVE IInv'
  <2>1. now' \in Nat
    BY <1>7 DEF Tick, IInv, BreakerInv, BreakerTypeOK
  <2> QED BY <1>7, <2>1, TickKeeps DEF Tick, lockVars
<1>8. ASSUME UNCHANGED vars PROVE IInv'
  <2>1. now' \in Nat
    BY <1>8 DEF vars, IInv, BreakerInv, BreakerTypeOK
  <2> QED BY <1>8, <2>1, TickKeeps DEF vars, breakerVars
<1> QED BY <1>1, <1>2, <1>3, <1>4, <1>5, <1>6, <1>7, <1>8 DEF Next

LEMMA Inductive == Spec => []IInv
<1>1. Init => IInv
  BY InitHolds
<1>2. IInv /\ [Next]_vars => IInv'
  BY NextKeeps
<1> QED BY <1>1, <1>2, PTL DEF Spec

\* For any number of concurrent calls and any providers, the owner of the slot is the
\* one call that runs, the line holds the calls that wait, and every exit of
\* streamChat() hands the slot on.
THEOREM SlotAlwaysHeld == Spec => []SlotHeldWhileRunning
<1>1. IInv => SlotHeldWhileRunning
  BY DEF IInv, GateInv
<1> QED BY <1>1, Inductive, PTL

\* For any threshold and cool-off, no failure count of circuit.js passes the threshold
\* under the router, and a circuit is open exactly at it.
THEOREM BreakerStaysInStep == Spec => []BreakerNeverOvershoots
<1>1. IInv => BreakerNeverOvershoots
  BY DEF IInv, BreakerInv
<1> QED BY <1>1, Inductive, PTL

\* A call that ends well has an attempt that delivered, hence delivered last.
LEMMA SuccessStep == IInv /\ [Next]_vars => [SuccessMeansDeliveryStep]_vars
<1> SUFFICES ASSUME IInv, Next, NEW r \in Requests,
                    stage[r] = "calling", stage'[r] = "done", ~Pinned(r)
             PROVE  frame[r].last = frame[r].at
  BY DEF SuccessMeansDeliveryStep
<1>1. GateInv /\ stage[r] \in Running /\ owner = r
  BY OneRuns DEF IInv, Running
<1>2. Framed(frame[r])
  BY DEF IInv, FramesInv
<1>3. ASSUME NEW x \in Requests, GoTo(x, "choosing") \/ GoTo(x, "backoff") \/ GoTo(x, "yielded")
                   \/ GoTo(x, "calling") \/ UNCHANGED stage
      PROVE  FALSE
  BY <1>1, <1>3 DEF GoTo, GateInv
<1>4. ASSUME NEW x \in Requests, Settle(x, "failed") \/ Settle(x, "cancelled"),
             stage[x] \in Running
      PROVE  FALSE
  <2>1. x = r
    BY <1>1, <1>4, OneRuns
  <2>2. stage'[r] \in {"failed", "cancelled"}
    BY <1>4, <2>1 DEF Settle, HandOver, StagesAfter
  <2> QED BY <2>2
<1>5. ASSUME NEW x \in Requests, NEW ask, Arrive(x, ask) PROVE FALSE
  BY <1>1, <1>5, ArriveKeepsGate DEF Arrive
<1>6. ASSUME NEW x \in Requests, RouterStep(x) PROVE FALSE
  BY <1>3, <1>4, <1>6
     DEF RouterStep, BeginPinned, BeginAuto, GiveUp, SkipOpen, TryNext, Retry, Running
<1>7. ASSUME NEW x \in Requests, Chunk(x) PROVE FALSE
  BY <1>3, <1>4, <1>7
     DEF Chunk, OtherChunk, ContentChunk, ChargeFailure, RetryPinned, FailPinned, Running
<1>8. ASSUME NEW x \in Requests, NEW retryable, UpstreamThrows(x, retryable) PROVE FALSE
  BY <1>3, <1>4, <1>8
     DEF UpstreamThrows, ChargeFailure, RetryPinned, FailPinned, Running
<1>9. ASSUME NEW x \in Requests, Pull(x) \/ Cancel(x) \/ Abort(x) PROVE FALSE
  BY <1>3, <1>4, <1>9 DEF Pull, Cancel, Abort, Running
<1>10. ASSUME ChangeRegistry \/ Tick PROVE FALSE
  BY <1>3, <1>10 DEF ChangeRegistry, RegisterProvider, UnregisterProvider, SetFailoverOrder,
                     RegistryChanged, Tick
<1>11. ASSUME NEW x \in Requests, UpstreamEnds(x) PROVE frame[r].last = frame[r].at
  <2>1. stage[x] = "calling" /\ x = r
    BY <1>1, <1>11, OneRuns DEF UpstreamEnds, Running
  <2>2. ~ChargeFailure(x)
    BY <1>3 DEF ChargeFailure
  <2>3. frame[r].emitted
    BY <1>11, <2>1, <2>2 DEF UpstreamEnds
  <2> QED BY <1>2, <2>3 DEF Framed
<1> QED BY <1>5, <1>6, <1>7, <1>8, <1>9, <1>10, <1>11 DEF Next, Finish

\* For any providers and any order of failures, an auto call that streamChat() counts as a
\* success ended at the provider whose chunk its consumer received last.
THEOREM SuccessWasDelivered == Spec => SuccessMeansDelivery
<1>1. IInv /\ [Next]_vars => [SuccessMeansDeliveryStep]_vars
  BY SuccessStep
<1> QED BY <1>1, Inductive, PTL DEF Spec, SuccessMeansDelivery

\* The router's gate is a lock with one owner and a line served in order: every step of
\* a call, of its upstream or of its consumer is one of the lock or leaves it alone.
THEOREM RouterUsesLock == Spec => LockSpec
<1>1. Init => LockInit
  BY DEF Init
<1>2. ASSUME [Next]_vars PROVE [LockNext]_lockVars
  <2>1. ASSUME NEW r, NEW outcome, Settle(r, outcome) PROVE LockNext
    BY <2>1 DEF Settle, HandOver, LockNext
  <2>2. ASSUME NEW r, NEW next, GoTo(r, next) PROVE UNCHANGED lockVars
    BY <2>2 DEF GoTo
  <2>3. ASSUME NEW r \in Requests, NEW ask, Arrive(r, ask) PROVE [LockNext]_lockVars
    BY <2>3 DEF Arrive, LockNext, Requests
  <2>4. ASSUME NEW r \in Requests, RouterStep(r) PROVE [LockNext]_lockVars
    BY <2>1, <2>2, <2>4
       DEF RouterStep, BeginPinned, BeginAuto, GiveUp, SkipOpen, TryNext, Retry
  <2>5. ASSUME NEW r \in Requests, Chunk(r) PROVE [LockNext]_lockVars
    BY <2>1, <2>2, <2>5
       DEF Chunk, OtherChunk, ContentChunk, ChargeFailure, RetryPinned, FailPinned
  <2>6. ASSUME NEW r \in Requests, Finish(r) PROVE [LockNext]_lockVars
    BY <2>1, <2>2, <2>6
       DEF Finish, UpstreamEnds, UpstreamThrows, ChargeFailure, RetryPinned, FailPinned
  <2>7. ASSUME NEW r \in Requests, Pull(r) \/ Cancel(r) \/ Abort(r) PROVE [LockNext]_lockVars
    BY <2>1, <2>2, <2>7 DEF Pull, Cancel, Abort
  <2>8. ASSUME ChangeRegistry \/ Tick \/ UNCHANGED vars PROVE UNCHANGED lockVars
    BY <2>8 DEF ChangeRegistry, RegisterProvider, UnregisterProvider, SetFailoverOrder,
                RegistryChanged, Tick, vars, lockVars
  <2> QED BY <1>2, <2>3, <2>4, <2>5, <2>6, <2>7, <2>8 DEF Next
<1> QED BY <1>1, <1>2, PTL DEF Spec, LockSpec
-----------------------------------------------------------------------------
(***************************************************************************)
(* The ranking                                                             *)
(***************************************************************************)

\* The sum of the samples, a fold, is a number.
Sums == INSTANCE FoldFacts WITH Op <- +

LEMMA SumOfSamples ==
    ASSUME NEW s \in Seq(Nat)
    PROVE  Sum(s) \in Nat
<1>1. \A a \in Nat, e \in Nat : a + e \in Nat
  OBVIOUS
<1>2. Sums!Fold(0, s) \in Nat
  BY <1>1, Sums!FoldKeeps
<1>3. Sums!Fold(0, s) = Sum(s)
  BY DEF Sum, Sums!Fold, FoldLeft, Sums!FoldLeft, MapThenFoldSet, Sums!MapThenFoldSet, Max, Sums!Max
<1> QED BY <1>2, <1>3

LEMMA DivisionType ==
    ASSUME NEW a \in Int, NEW b \in Nat, b > 0
    PROVE  a \div b \in Int
OBVIOUS

LEMMA RoundPercentType ==
    ASSUME NEW a1 \in Int, NEW a2 \in Nat, a2 > 0, NEW b1 \in Int, NEW b2 \in Nat, b2 > 0
    PROVE  RoundPercent(<<a1, a2>>, <<b1, b2>>) \in Int
<1> DEFINE d == 2 * a2 * b2
           n == 200 * (a1 * b2 - b1 * a2) + a2 * b2
<1>1. n \in Int
  OBVIOUS
<1>2. d \in Nat /\ d > 0
  OBVIOUS
<1>3. RoundPercent(<<a1, a2>>, <<b1, b2>>) = n \div d
  BY DEF RoundPercent
<1> HIDE DEF n, d
<1> QED BY <1>1, <1>2, <1>3, DivisionType

LEMMA ScoreType ==
    ASSUME MetricsTypeOK, NEW p \in Ids
    PROVE  Score(p) \in Int
<1> DEFINE s == stats[p].ttfbMs
<1>1. stats[p].ok \in Nat /\ stats[p].fail \in Nat /\ s \in Seq(Nat) /\ Total(p) \in Nat
  BY DEF MetricsTypeOK, Stat, Total
<1>2. \E a1 \in Int, a2 \in Nat : a2 > 0 /\ Smoothed(p) = <<a1, a2>>
  <2>1. CASE Total(p) >= 5
    BY <1>1, <2>1 DEF Smoothed
  <2>2. CASE ~(Total(p) >= 5)
    <3>1. Smoothed(p) = <<5 - Total(p) + 2 * stats[p].ok, 10>>
      BY <2>2 DEF Smoothed
    <3>2. 5 - Total(p) + 2 * stats[p].ok \in Int
      BY <1>1
    <3> QED BY <3>1, <3>2
  <2> QED BY <2>1, <2>2
<1>3. \E l1 \in Int, l2 \in Nat : l2 > 0 /\ Latency(p) = <<l1, l2>>
  <2>1. CASE s = <<>>
    BY <2>1 DEF Latency
  <2>2. CASE s # <<>>
    <3>1. Len(s) \in Nat /\ Len(s) > 0 /\ Sum(s) \in Nat
      BY <1>1, <2>2, SumOfSamples
    <3>2. Latency(p) = <<Sum(s) - 500 * Len(s), 3000 * Len(s)>>
      BY <2>2 DEF Latency
    <3> QED BY <3>1, <3>2
  <2> QED BY <2>1, <2>2
<1>4. \E b1 \in Int, b2 \in Nat : b2 > 0 /\ Penalty(p) = <<b1, b2>>
  BY <1>3 DEF Penalty
<1>5. RoundPercent(Smoothed(p), Penalty(p)) \in Int
  BY <1>2, <1>4, RoundPercentType
<1> QED BY <1>5 DEF Score

\* Element i of ids is ranked ahead of element k.
Ahead(ids, i, k) == \/ Score(ids[i]) > Score(ids[k])
                    \/ Score(ids[i]) = Score(ids[k]) /\ i < k

\* The places of the ids in a ranking: one each, from 1 on.
LEMMA PlacesAreDistinct ==
    ASSUME MetricsTypeOK, NEW ids \in Seq(Ids)
    PROVE  /\ \A i \in DOMAIN ids : Place(ids, i) \in DOMAIN ids
           /\ \A i, k \in DOMAIN ids : Place(ids, i) = Place(ids, k) => i = k
           /\ \A i, k \in DOMAIN ids : Ahead(ids, i, k) => Place(ids, i) < Place(ids, k)
<1> DEFINE n == Len(ids)
           Before(i) == {j \in 1..n : \/ Score(ids[j]) > Score(ids[i])
                                      \/ Score(ids[j]) = Score(ids[i]) /\ j < i}
<1>1. n \in Nat /\ DOMAIN ids = 1..n /\ \A i \in 1..n : Score(ids[i]) \in Int
  BY ScoreType
<1>2. IsFiniteSet(1..n) /\ Cardinality(1..n) = n
  BY <1>1, FS_Interval
<1>3. \A i \in 1..n : Place(ids, i) = 1 + Cardinality(Before(i))
  BY <1>1 DEF Place
<1>4. \A i \in 1..n : /\ Before(i) \in SUBSET (1..n) /\ i \notin Before(i)
                        /\ IsFiniteSet(Before(i)) /\ Cardinality(Before(i)) \in Nat
  BY <1>1, <1>2, FS_Subset, FS_CardinalityType
<1>5. ASSUME NEW i \in 1..n PROVE Place(ids, i) \in 1..n
  <2>1. Cardinality(Before(i)) # n
    <3> HIDE DEF Before, n
    <3> QED BY <1>2, <1>4, FS_Subset
  <2>2. Cardinality(Before(i)) <= n
    BY <1>2, <1>4, FS_Subset
  <2>3. Place(ids, i) = 1 + Cardinality(Before(i)) /\ Cardinality(Before(i)) \in Nat
    BY <1>3, <1>4
  <2> HIDE DEF Before
  <2> QED BY <1>1, <2>1, <2>2, <2>3
<1>6. ASSUME NEW i \in 1..n, NEW k \in 1..n, i \in Before(k)
      PROVE  Place(ids, i) < Place(ids, k)
  <2>1. Before(i) \in SUBSET Before(k)
    BY <1>1, <1>6
  <2>2. Before(i) # Before(k)
    BY <1>4, <1>6
  <2>3. /\ Cardinality(Before(i)) <= Cardinality(Before(k))
        /\ Cardinality(Before(i)) # Cardinality(Before(k))
    <3> HIDE DEF Before, n
    <3> QED BY <1>4, <2>1, <2>2, FS_Subset
  <2>4. /\ Place(ids, i) = 1 + Cardinality(Before(i)) /\ Cardinality(Before(i)) \in Nat
        /\ Place(ids, k) = 1 + Cardinality(Before(k)) /\ Cardinality(Before(k)) \in Nat
    BY <1>3, <1>4
  <2> HIDE DEF Before
  <2> QED BY <2>3, <2>4
<1>7. ASSUME NEW i \in 1..n, NEW k \in 1..n, Place(ids, i) = Place(ids, k) PROVE i = k
  <2>1. i \in Before(k) \/ k \in Before(i) \/ i = k
    BY <1>1
  <2> QED BY <1>1, <1>5, <1>6, <1>7, <2>1
<1>8. \A i, k \in 1..n : Ahead(ids, i, k) => i \in Before(k)
  BY DEF Ahead
<1> QED BY <1>1, <1>5, <1>6, <1>7, <1>8

\* rank() returns the ids it is given, each as often, the better score first and
\* equal scores in the order they came in: the CHOOSE of the model has one answer.
THEOREM RankSorts ==
    ASSUME MetricsTypeOK, NEW ids \in Seq(Ids)
    PROVE  /\ Rank(ids) \in Seq(Ids)
           /\ DOMAIN Rank(ids) = DOMAIN ids
           /\ \E f \in [DOMAIN ids -> DOMAIN ids] :
                 /\ \A i, k \in DOMAIN ids : f[i] = f[k] => i = k
                 /\ \A i \in DOMAIN ids : Rank(ids)[f[i]] = ids[i]
                 /\ \A k \in DOMAIN ids : \E i \in DOMAIN ids : f[i] = k
                 /\ \A i, k \in DOMAIN ids : Ahead(ids, i, k) => f[i] < f[k]
<1> DEFINE n == Len(ids)
           f == [i \in 1..n |-> Place(ids, i)]
<1>1. n \in Nat /\ DOMAIN ids = 1..n /\ \A i \in 1..n : ids[i] \in Ids
  OBVIOUS
<1>2. f \in [1..n -> 1..n] /\ \A i, k \in 1..n : f[i] = f[k] => i = k
  BY <1>1, PlacesAreDistinct
<1>3. \A k \in 1..n : \E i \in 1..n : f[i] = k
  <2>1. IsFiniteSet(1..n)
    BY <1>1, FS_Interval
  <2> HIDE DEF f
  <2>2. f \in Injection(1..n, 1..n)
    BY <1>2 DEF Injection, IsInjective
  <2>3. f \in Surjection(1..n, 1..n)
    BY <2>1, <2>2, FS_Injection
  <2> QED BY <2>3 DEF Surjection
<1>4. ASSUME NEW k \in 1..n
      PROVE  \E i \in 1..n : f[i] = k /\ Rank(ids)[k] = ids[i]
  <2> DEFINE m == CHOOSE i \in 1..n : Place(ids, i) = k
  <2>1. \E i \in 1..n : Place(ids, i) = k
    BY <1>3
  <2>2. m \in 1..n /\ Place(ids, m) = k
    BY <2>1
  <2>3. Rank(ids)[k] = ids[m]
    BY <1>1 DEF Rank
  <2> HIDE DEF m
  <2> QED BY <2>2, <2>3
<1>5. DOMAIN Rank(ids) = 1..n
  BY <1>1 DEF Rank
<1>6. Rank(ids) \in Seq(Ids)
  <2>1. Rank(ids) = [k \in 1..n |-> Rank(ids)[k]]
    BY <1>1 DEF Rank
  <2>2. \A k \in 1..n : Rank(ids)[k] \in Ids
    BY <1>1, <1>4
  <2> HIDE DEF n
  <2> QED BY <1>1, <2>1, <2>2, IsASeq
<1> HIDE DEF f
<1>7. \A i \in 1..n : Rank(ids)[f[i]] = ids[i]
  <2> SUFFICES ASSUME NEW i \in 1..n PROVE Rank(ids)[f[i]] = ids[i]
    OBVIOUS
  <2>1. f[i] \in 1..n
    BY <1>2
  <2>2. PICK m \in 1..n : f[m] = f[i] /\ Rank(ids)[f[i]] = ids[m]
    BY <1>4, <2>1
  <2> QED BY <1>2, <2>2
<1>8. \A i, k \in 1..n : Ahead(ids, i, k) => f[i] < f[k]
  BY <1>1, PlacesAreDistinct DEF f
<1>9. /\ f \in [DOMAIN ids -> DOMAIN ids]
      /\ \A i, k \in DOMAIN ids : f[i] = f[k] => i = k
      /\ \A i \in DOMAIN ids : Rank(ids)[f[i]] = ids[i]
      /\ \A k \in DOMAIN ids : \E i \in DOMAIN ids : f[i] = k
      /\ \A i, k \in DOMAIN ids : Ahead(ids, i, k) => f[i] < f[k]
  BY <1>1, <1>2, <1>3, <1>7, <1>8
<1> QED BY <1>1, <1>5, <1>6, <1>9

LEMMA RankKeepsRange ==
    ASSUME MetricsTypeOK, NEW ids \in Seq(Ids)
    PROVE  Rank(ids) \in Seq(Ids) /\ Range(Rank(ids)) = Range(ids)
<1>1. PICK f \in [DOMAIN ids -> DOMAIN ids] :
          /\ \A i \in DOMAIN ids : Rank(ids)[f[i]] = ids[i]
          /\ \A k \in DOMAIN ids : \E i \in DOMAIN ids : f[i] = k
  BY RankSorts
<1>2. Rank(ids) \in Seq(Ids) /\ DOMAIN Rank(ids) = DOMAIN ids
  BY RankSorts
<1>3. \A k \in DOMAIN ids : \E i \in DOMAIN ids : Rank(ids)[k] = ids[i]
  BY <1>1
<1>4. \A i \in DOMAIN ids : f[i] \in DOMAIN ids /\ Rank(ids)[f[i]] = ids[i]
  BY <1>1
<1> QED BY <1>2, <1>3, <1>4 DEF Range
-----------------------------------------------------------------------------
(***************************************************************************)
(* The types                                                               *)
(***************************************************************************)

TypeInv == /\ MetricsTypeOK
           /\ installed \in [Ids -> Modules]
           /\ order \in Seq(Ids)
           /\ frame \in [Requests -> Frame]

LEMMA SuccessTyped ==
    ASSUME MetricsTypeOK, NEW p, NEW ttfb \in Nat, RecordSuccess(p, ttfb)
    PROVE  MetricsTypeOK'
<1> DEFINE old == stats[p]
           s == old.ttfbMs
           new == [old EXCEPT !.ok = old.ok + 1, !.ttfbMs = Recent(Append(s, ttfb))]
<1>1. CASE p \notin Ids
  BY <1>1 DEF MetricsTypeOK, RecordSuccess
<1>2. CASE p \in Ids
  <2>1. old \in Stat /\ s \in Seq(Nat) /\ Len(s) \in Nat /\ Len(s) <= Window
    BY <1>2 DEF MetricsTypeOK, Stat
  <2>2. Append(s, ttfb) \in Seq(Nat) /\ Len(Append(s, ttfb)) = Len(s) + 1
    BY <2>1, AppendProperties
  <2>3. Recent(Append(s, ttfb)) \in Seq(Nat) /\ Len(Recent(Append(s, ttfb))) <= Window
    BY <2>1, <2>2, MetricsAssumption, HeadTailProperties DEF Recent
  <2>4. new \in Stat /\ Len(new.ttfbMs) <= Window
    <3> DEFINE t == Recent(Append(s, ttfb))
               one == [old EXCEPT !.ok = old.ok + 1]
    <3>1. t \in Seq(Nat) /\ Len(t) <= Window
      BY <2>3
    <3>2. one \in Stat
      BY <2>1 DEF Stat
    <3> HIDE DEF t, one
    <3>3. [one EXCEPT !.ttfbMs = t] \in Stat /\ [one EXCEPT !.ttfbMs = t].ttfbMs = t
      BY <3>1, <3>2 DEF Stat
    <3>4. new = [one EXCEPT !.ttfbMs = t]
      BY <2>1 DEF one, t, Stat
    <3> QED BY <3>1, <3>3, <3>4
  <2>5. stats' = [stats EXCEPT ![p] = new]
    BY <1>2 DEF RecordSuccess, MetricsTypeOK, Stat
  <2> HIDE DEF new
  <2> QED BY <1>2, <2>4, <2>5 DEF MetricsTypeOK
<1> QED BY <1>1, <1>2

LEMMA FailureTyped ==
    ASSUME MetricsTypeOK, NEW p, RecordFailure(p)
    PROVE  MetricsTypeOK'
<1> DEFINE new == [stats[p] EXCEPT !.fail = stats[p].fail + 1]
<1>1. CASE p \notin Ids
  BY <1>1 DEF MetricsTypeOK, RecordFailure
<1>2. CASE p \in Ids
  <2>1. stats[p] \in Stat
    BY <1>2 DEF MetricsTypeOK
  <2>2. new \in Stat /\ new.ttfbMs = stats[p].ttfbMs
    BY <2>1 DEF Stat
  <2>3. stats' = [stats EXCEPT ![p] = new]
    BY <1>2 DEF RecordFailure, MetricsTypeOK
  <2> HIDE DEF new
  <2> QED BY <1>2, <2>2, <2>3 DEF MetricsTypeOK
<1> QED BY <1>1, <1>2

LEMMA SameMetrics == ASSUME MetricsTypeOK, stats' = stats PROVE MetricsTypeOK'
BY DEF MetricsTypeOK

LEMMA EmptyTyped == EmptyFrame \in Frame
BY DEF EmptyFrame, Frame, NoAsk, Ask

LEMMA CalledTyped ==
    ASSUME NEW f \in Frame, NEW p \in Ids \cup {AutoId}, NEW known \in BOOLEAN
    PROVE  Called(f, p, known) \in Frame
<1>1. (known /\ ~f.aborted) \in BOOLEAN
  OBVIOUS
<1> QED BY <1>1 DEF Frame, Called

LEMMA DeliveredTyped ==
    ASSUME NEW f \in Frame, NEW ttfb \in Nat \cup {Never}
    PROVE  Delivered(f, ttfb) \in Frame
BY DEF Frame, Delivered

LEMMA HeardTyped ==
    ASSUME NEW f \in Frame, NEW looks \in BOOLEAN
    PROVE  Heard(f, looks) \in Frame
<1> DEFINE b == looks /\ f.heard + 1 <= NoticeWindow
<1>1. b \in BOOLEAN
  OBVIOUS
<1> HIDE DEF b
<1> DEFINE g == [f EXCEPT !.heard = f.heard + 1]
<1>2. g \in Frame
  BY DEF Frame
<1>3. [f EXCEPT !.heard = f.heard + 1, !.noticed = b] = [g EXCEPT !.noticed = b]
  OBVIOUS
<1> HIDE DEF g
<1>4. [g EXCEPT !.noticed = b] \in Frame
  BY <1>1, <1>2 DEF Frame
<1> QED BY <1>3, <1>4 DEF Heard, b

LEMMA TailTyped ==
    ASSUME NEW f \in Frame, f.ranked # <<>>
    PROVE  /\ Head(f.ranked) \in Ids
           /\ [f EXCEPT !.ranked = Tail(f.ranked)] \in Frame
<1>1. f.ranked \in Seq(Ids)
  BY DEF Frame
<1>2. Head(f.ranked) \in Ids /\ Tail(f.ranked) \in Seq(Ids)
  BY <1>1, HeadTailProperties
<1> QED BY <1>2 DEF Frame

\* The frame of one call changes.
LEMMA OneTyped ==
    ASSUME frame \in [Requests -> Frame], NEW r \in Requests, NEW f \in Frame,
           frame' = [frame EXCEPT ![r] = f]
    PROVE  frame' \in [Requests -> Frame]
OBVIOUS

\* A call ends.
LEMMA SettleTyped ==
    ASSUME frame \in [Requests -> Frame], NEW r \in Requests, NEW outcome, Settle(r, outcome)
    PROVE  frame' \in [Requests -> Frame]
BY EmptyTyped DEF Settle

\* The registry is left alone.
LEMMA SameRegistryTyped ==
    ASSUME TypeInv, UNCHANGED registryVars, MetricsTypeOK', frame' \in [Requests -> Frame]
    PROVE  TypeInv'
BY DEF TypeInv, registryVars

LEMMA ArriveTyped ==
    ASSUME TypeInv, NEW r \in Requests, NEW ask \in Asks, Arrive(r, ask)
    PROVE  TypeInv'
<1> DEFINE f == [frame[r] EXCEPT !.ask = ask]
<1>1. UNCHANGED registryVars /\ stats' = stats
  BY DEF Arrive
<1>2. f \in Frame
  BY RouterAssumption DEF TypeInv, Frame
<1>3. frame' = [frame EXCEPT ![r] = f]
  BY DEF Arrive, TypeInv
<1> HIDE DEF f
<1> QED BY <1>1, <1>2, <1>3, OneTyped, SameMetrics, SameRegistryTyped DEF TypeInv

LEMMA BeginPinnedTyped ==
    ASSUME TypeInv, NEW r \in Requests, BeginPinned(r)
    PROVE  TypeInv'
<1> DEFINE p == frame[r].ask.provider
           f == Called(frame[r], p, TRUE)
           g == [f EXCEPT !.attempt = 1]
<1>1. UNCHANGED registryVars /\ stats' = stats
  BY DEF BeginPinned
<1>2. g \in Frame
  <2>1. frame[r] \in Frame /\ p \in Ids \cup {AutoId}
    BY DEF TypeInv, Frame, Ask
  <2>2. f \in Frame
    BY <2>1, CalledTyped
  <2> HIDE DEF f
  <2> QED BY <2>2 DEF Frame
<1>3. Settle(r, "failed") \/ frame' = [frame EXCEPT ![r] = g]
  BY DEF BeginPinned, TypeInv
<1> HIDE DEF g
<1>4. frame' \in [Requests -> Frame]
  BY <1>2, <1>3, OneTyped, SettleTyped DEF TypeInv
<1> QED BY <1>1, <1>4, SameMetrics, SameRegistryTyped DEF TypeInv

Filter == INSTANCE FoldFacts WITH Op <- KeepIfTools

LEMMA CandidatesTyped ==
    ASSUME TypeInv, NEW ask
    PROVE  /\ Candidates(ask) \in Seq(Ids)
           /\ Range(Candidates(ask)) \subseteq Range(order)
           /\ ask.tools => \A p \in Range(Candidates(ask)) : SupportsTools(p)
<1>1. order \in Seq(Ids)
  BY DEF TypeInv
<1>2. CASE ~ask.tools
  BY <1>1, <1>2 DEF Candidates
<1>3. CASE ask.tools
  <2> DEFINE S == {s \in Seq(Ids) : \A i \in DOMAIN s : /\ SupportsTools(s[i])
                                                        /\ s[i] \in Range(order)}
             G == Range(order)
  <2>1. order \in Seq(G) /\ G \subseteq Ids
    BY <1>1 DEF Range
  <2>2. <<>> \in S
    OBVIOUS
  <2>3. ASSUME NEW kept \in S, NEW p \in G PROVE KeepIfTools(kept, p) \in S
    <3>1. kept \in Seq(Ids) /\ p \in Ids
      BY <2>1
    <3>2. CASE SupportsTools(p)
      <4> DEFINE t == Append(kept, p)
      <4>1. t \in Seq(Ids) /\ Len(kept) \in Nat
        BY <3>1
      <4>2. \A i \in DOMAIN t : \/ i = Len(kept) + 1 /\ t[i] = p
                                \/ i \in DOMAIN kept /\ t[i] = kept[i]
        BY <3>1
      <4>3. KeepIfTools(kept, p) = t
        BY <3>2 DEF KeepIfTools
      <4> HIDE DEF t
      <4> QED BY <3>2, <4>1, <4>2, <4>3
    <3> QED BY <3>2 DEF KeepIfTools
  <2> HIDE DEF S, G
  <2>4. Filter!Fold(<<>>, order) \in S
    BY <2>1, <2>2, <2>3, Filter!FoldKeeps
  <2>5. Filter!Fold(<<>>, order) = Candidates(ask)
    BY <1>3 DEF Candidates, KeepIfTools, Filter!Fold, FoldLeft, Filter!FoldLeft, MapThenFoldSet,
       Filter!MapThenFoldSet, Max, Filter!Max
  <2>6. Candidates(ask) \in S
    BY <2>4, <2>5
  <2> QED BY <2>6 DEF S, Range
<1> QED BY <1>2, <1>3

LEMMA BeginAutoTyped ==
    ASSUME TypeInv, NEW r \in Requests, BeginAuto(r)
    PROVE  TypeInv'
<1> DEFINE c == Rank(Candidates(frame[r].ask))
           f == [frame[r] EXCEPT !.ranked = c]
           g == [f EXCEPT !.stale = FALSE]
<1>1. UNCHANGED registryVars /\ stats' = stats
  BY DEF BeginAuto
<1>2. g \in Frame
  <2>1. frame[r] \in Frame /\ c \in Seq(Ids)
    BY CandidatesTyped, RankKeepsRange DEF TypeInv
  <2> HIDE DEF c
  <2>2. f \in Frame
    BY <2>1 DEF Frame
  <2> HIDE DEF f
  <2> QED BY <2>2 DEF Frame
<1>3. Settle(r, "failed") \/ frame' = [frame EXCEPT ![r] = g]
  BY DEF BeginAuto, TypeInv
<1> HIDE DEF g
<1>4. frame' \in [Requests -> Frame]
  BY <1>2, <1>3, OneTyped, SettleTyped DEF TypeInv
<1> QED BY <1>1, <1>4, SameMetrics, SameRegistryTyped DEF TypeInv

LEMMA ChooseTyped ==
    ASSUME TypeInv, NEW r \in Requests, GiveUp(r) \/ SkipOpen(r) \/ TryNext(r)
    PROVE  TypeInv'
<1> DEFINE p == Head(frame[r].ranked)
           f == [frame[r] EXCEPT !.ranked = Tail(frame[r].ranked)]
           known == installed[p] # "absent"
           g == Called(f, p, known)
<1>1. UNCHANGED registryVars /\ stats' = stats
  BY DEF GiveUp, SkipOpen, TryNext
<1>2. frame[r].ranked # <<>> => f \in Frame /\ g \in Frame
  BY TailTyped, CalledTyped DEF TypeInv
<1>3. \/ Settle(r, "failed")
      \/ frame[r].ranked # <<>> /\ frame' = [frame EXCEPT ![r] = f]
      \/ frame[r].ranked # <<>> /\ frame' = [frame EXCEPT ![r] = g]
  BY DEF GiveUp, SkipOpen, TryNext, TypeInv
<1> HIDE DEF f, g
<1>4. frame' \in [Requests -> Frame]
  BY <1>2, <1>3, OneTyped, SettleTyped DEF TypeInv
<1> QED BY <1>1, <1>4, SameMetrics, SameRegistryTyped DEF TypeInv

LEMMA RetryTyped ==
    ASSUME TypeInv, NEW r \in Requests, Retry(r)
    PROVE  TypeInv'
<1> DEFINE f == Called(frame[r], frame[r].at, TRUE)
           g == [f EXCEPT !.attempt = frame[r].attempt + 1]
<1>1. UNCHANGED registryVars /\ stats' = stats
  BY DEF Retry
<1>2. g \in Frame
  <2>1. frame[r] \in Frame /\ frame[r].at \in Ids \cup {AutoId} /\ frame[r].attempt + 1 \in Nat
    BY DEF TypeInv, Frame
  <2>2. f \in Frame
    BY <2>1, CalledTyped
  <2> HIDE DEF f
  <2> QED BY <2>1, <2>2 DEF Frame
<1>3. frame' = [frame EXCEPT ![r] = g]
  BY DEF Retry, TypeInv
<1> HIDE DEF g
<1> QED BY <1>1, <1>2, <1>3, OneTyped, SameMetrics, SameRegistryTyped DEF TypeInv

\* The steps of the upstream change the frame of the call, or end it.
LEMMA UpstreamTyped ==
    ASSUME TypeInv, NEW r \in Requests, Chunk(r) \/ Finish(r)
    PROVE  TypeInv'
<1>1. UNCHANGED registryVars
  BY DEF Chunk, OtherChunk, ContentChunk, Finish, UpstreamEnds, UpstreamThrows
<1>2. frame[r] \in Frame
  BY DEF TypeInv
<1>3. CASE \E ttfb \in Ttfbs \cup {Never} : OtherChunk(r, ttfb)
  <2>1. PICK ttfb \in Nat \cup {Never} : OtherChunk(r, ttfb)
    BY <1>3, RouterAssumption
  <2>2. frame' = [frame EXCEPT ![r] = Delivered(frame[r], ttfb)] /\ stats' = stats
    BY <2>1 DEF OtherChunk, TypeInv
  <2> QED BY <1>1, <1>2, <2>2, DeliveredTyped, OneTyped, SameMetrics, SameRegistryTyped
          DEF TypeInv
<1>4. CASE \E ttfb \in Ttfbs, looks \in BOOLEAN : ContentChunk(r, looks, ttfb)
  <2>1. PICK ttfb \in Nat, looks \in BOOLEAN : ContentChunk(r, looks, ttfb)
    BY <1>4, RouterAssumption
  <2> DEFINE f == Heard(frame[r], looks)
  <2>2. f \in Frame /\ Delivered(f, ttfb) \in Frame
    BY <1>2, HeardTyped, DeliveredTyped
  <2>3. \/ frame' = [frame EXCEPT ![r] = Delivered(f, ttfb)] /\ stats' = stats
        \/ frame' = [frame EXCEPT ![r] = f] /\ RecordFailure(frame[r].at)
        \/ frame' = [frame EXCEPT ![r] = f] /\ stats' = stats
        \/ Settle(r, "failed") /\ stats' = stats
    BY <2>1 DEF ContentChunk, ChargeFailure, RetryPinned, FailPinned
  <2> HIDE DEF f
  <2>4. frame' \in [Requests -> Frame]
    BY <2>2, <2>3, OneTyped, SettleTyped DEF TypeInv
  <2>5. MetricsTypeOK'
    BY <2>3, FailureTyped, SameMetrics DEF TypeInv
  <2> QED BY <1>1, <2>4, <2>5, SameRegistryTyped
<1>5. CASE Finish(r)
  <2>1. \/ frame' = frame
        \/ Settle(r, "failed") \/ Settle(r, "done")
    BY <1>5 DEF Finish, UpstreamEnds, UpstreamThrows, FailPinned
  <2>2. \/ RecordFailure(frame[r].at) \/ stats' = stats
        \/ RecordSuccess(frame[r].at, frame[r].ttfb) /\ frame[r].ttfb # Never
    BY <1>5 DEF Finish, UpstreamEnds, UpstreamThrows, FailPinned, RetryPinned, ChargeFailure
  <2>3. frame[r].ttfb \in Nat \cup {Never}
    BY <1>2 DEF Frame
  <2>4. MetricsTypeOK'
    BY <2>2, <2>3, FailureTyped, SuccessTyped, SameMetrics DEF TypeInv
  <2>5. frame' \in [Requests -> Frame]
    BY <2>1, SettleTyped DEF TypeInv
  <2> QED BY <1>1, <2>4, <2>5, SameRegistryTyped
<1> QED BY <1>3, <1>4, <1>5 DEF Chunk

LEMMA ConsumerTyped ==
    ASSUME TypeInv, NEW r \in Requests, Pull(r) \/ Cancel(r) \/ Abort(r)
    PROVE  TypeInv'
<1> DEFINE f == [frame[r] EXCEPT !.aborted = TRUE]
<1>1. UNCHANGED registryVars /\ stats' = stats
  BY DEF Pull, Cancel, Abort
<1>2. f \in Frame
  BY DEF TypeInv, Frame
<1>3. \/ frame' = frame \/ Settle(r, "cancelled") \/ frame' = [frame EXCEPT ![r] = f]
  BY DEF Pull, Cancel, Abort, TypeInv
<1> HIDE DEF f
<1>4. frame' \in [Requests -> Frame]
  BY <1>2, <1>3, OneTyped, SettleTyped DEF TypeInv
<1> QED BY <1>1, <1>4, SameMetrics, SameRegistryTyped DEF TypeInv

LEMMA WithoutTyped ==
    ASSUME TypeInv, NEW p
    PROVE  Without(p) \in Seq(Ids)
<1>1. order \in Seq(Ids) /\ Len(order) \in Nat
  BY DEF TypeInv
<1>2. CASE \E i \in 1..Len(order) : order[i] = p
  <2> DEFINE I == {i \in 1..Len(order) : order[i] = p}
  <2>1. I \subseteq Nat /\ I # {}
    BY <1>1, <1>2
  <2>2. Min(I) \in I
    BY <2>1, MinOfNaturals
  <2>3. SelectInSeq(order, LAMBDA v : v = p) = Min(I)
    BY <2>1 DEF SelectInSeq
  <2>4. RemoveFirst(order, p) = RemoveAt(order, Min(I))
    BY <1>2, <2>3 DEF RemoveFirst
  <2>5. Min(I) \in DOMAIN order
    BY <1>1, <2>2
  <2> HIDE DEF I
  <2>6. RemoveAt(order, Min(I)) \in Seq(Ids)
    BY <1>1, <2>5, Removed
  <2> QED BY <1>1, <2>4, <2>6 DEF Without
<1>3. CASE ~ \E i \in 1..Len(order) : order[i] = p
  BY <1>1, <1>3 DEF Without, RemoveFirst
<1> QED BY <1>2, <1>3

LEMMA RegistryTyped ==
    ASSUME TypeInv, ChangeRegistry
    PROVE  TypeInv'
<1>1. order \in Seq(Ids) /\ \A p \in Ids : Without(p) \in Seq(Ids)
  BY WithoutTyped DEF TypeInv
<1>2. /\ RegistryChanged
      /\ order' \in Seq(Ids)
      /\ installed' \in [Ids -> Modules]
  <2>1. ASSUME NEW g \in Registrations, RegisterProvider(g)
        PROVE  order' \in Seq(Ids) /\ installed' \in [Ids -> Modules]
    <3>1. g.id \in Ids /\ g.capability \in Modules
      BY RouterAssumption DEF Registration
    <3>2. order' \in {order, <<g.id>> \o Without(g.id), Append(Without(g.id), g.id)}
      BY <2>1 DEF RegisterProvider
    <3>3. Without(g.id) \in Seq(Ids) /\ <<g.id>> \in Seq(Ids)
      BY <1>1, <3>1
    <3>4. <<g.id>> \o Without(g.id) \in Seq(Ids) /\ Append(Without(g.id), g.id) \in Seq(Ids)
      BY <3>1, <3>3, ConcatProperties, AppendProperties
    <3> QED BY <1>1, <2>1, <3>1, <3>2, <3>4 DEF RegisterProvider, TypeInv
  <2>2. ASSUME NEW p \in Ids, UnregisterProvider(p)
        PROVE  order' \in Seq(Ids) /\ installed' \in [Ids -> Modules]
    BY <1>1, <2>2 DEF UnregisterProvider, TypeInv, Modules
  <2>3. ASSUME NEW ids \in Orders, SetFailoverOrder(ids)
        PROVE  order' \in Seq(Ids) /\ installed' \in [Ids -> Modules]
    BY <2>3, RouterAssumption DEF SetFailoverOrder, TypeInv
  <2> QED BY <2>1, <2>2, <2>3
          DEF ChangeRegistry, RegisterProvider, UnregisterProvider, SetFailoverOrder
<1>3. stats' = stats
  BY <1>2 DEF RegistryChanged
<1>4. frame' \in [Requests -> Frame]
  <2>1. \A x \in Requests : frame[x] \in Frame /\ [frame[x] EXCEPT !.stale = TRUE] \in Frame
    BY DEF TypeInv, Frame
  <2> QED BY <1>2, <2>1 DEF RegistryChanged
<1> QED BY <1>2, <1>3, <1>4, SameMetrics DEF TypeInv

LEMMA InitTyped == Init => TypeInv
<1> SUFFICES ASSUME Init PROVE TypeInv
  OBVIOUS
<1>1. MetricsTypeOK
  BY MetricsAssumption DEF Init, MetricsInit, MetricsTypeOK, Stat
<1>2. installed \in [Ids -> Modules]
  BY DEF Init, Modules
<1>3. order \in Seq(Ids)
  <2> DEFINE n == Cardinality(Ids)
             s == CHOOSE f \in [1..n -> Ids] : IsInjective(f)
  <2>1. n \in Nat /\ ExistsBijection(1..n, Ids)
    BY RouterAssumption, FS_CardinalityType
  <2>2. \E f \in [1..n -> Ids] : IsInjective(f)
    BY <2>1 DEF ExistsBijection, Bijection, Injection
  <2>3. s \in [1..n -> Ids]
    BY <2>2
  <2>4. order = s
    BY DEF Init, SetToSeq
  <2> HIDE DEF s
  <2>5. s \in Seq(Ids)
    BY <2>1, <2>3
  <2> QED BY <2>4, <2>5
<1>4. frame \in [Requests -> Frame]
  BY EmptyTyped DEF Init
<1> QED BY <1>1, <1>2, <1>3, <1>4 DEF TypeInv

LEMMA NextTyped == TypeInv /\ [Next]_vars => TypeInv'
<1> SUFFICES ASSUME TypeInv, [Next]_vars PROVE TypeInv'
  OBVIOUS
<1>1. ASSUME NEW r \in Requests, NEW ask \in Asks, Arrive(r, ask) PROVE TypeInv'
  BY <1>1, ArriveTyped
<1>2. ASSUME NEW r \in Requests, RouterStep(r) PROVE TypeInv'
  BY <1>2, BeginPinnedTyped, BeginAutoTyped, ChooseTyped, RetryTyped DEF RouterStep
<1>3. ASSUME NEW r \in Requests, Chunk(r) \/ Finish(r) PROVE TypeInv'
  BY <1>3, UpstreamTyped
<1>4. ASSUME NEW r \in Requests, Pull(r) \/ Cancel(r) \/ Abort(r) PROVE TypeInv'
  BY <1>4, ConsumerTyped
<1>5. ASSUME ChangeRegistry PROVE TypeInv'
  BY <1>5, RegistryTyped
<1>6. ASSUME Tick \/ UNCHANGED vars PROVE TypeInv'
  BY <1>6, SameMetrics DEF Tick, vars, registryVars, TypeInv
<1> QED BY <1>1, <1>2, <1>3, <1>4, <1>5, <1>6 DEF Next
-----------------------------------------------------------------------------
(***************************************************************************)
(* What an auto call knows of the registry                                 *)
(***************************************************************************)

\* The candidates left are still in the order, and support tools when they must.
Fresh(f) == ~f.stale => /\ Range(f.ranked) \subseteq Range(order)
                        /\ f.ask.tools => \A p \in Range(f.ranked) : SupportsTools(p)

\* So is the one that is called, and its module was looked up.
Placed(f) == ~f.stale => /\ f.at \in Range(order)
                         /\ f.known <=> installed[f.at] # "absent"

Snapshot(r) == /\ stage[r] \in {"choosing", "calling", "yielded"} /\ ~Pinned(r) =>
                      /\ Fresh(frame[r])
                      /\ stage[r] # "choosing" => Placed(frame[r])
               /\ stage[r] = "choosing" => ~Pinned(r)

SnapshotInv == \A r \in Requests : Snapshot(r)

AllInv == IInv /\ TypeInv /\ SnapshotInv

\* g is f, as far as the snapshot goes.
Alike(f, g) == /\ g.ask = f.ask /\ g.stale = f.stale /\ g.ranked = f.ranked
               /\ g.at = f.at /\ g.known = f.known

LEMMA FreshKept ==
    ASSUME NEW r, NEW f, Fresh(f), UNCHANGED registryVars,
           frame'[r].ask = f.ask, frame'[r].stale = f.stale,
           Range(frame'[r].ranked) \subseteq Range(f.ranked)
    PROVE  Fresh(frame[r])'
BY DEF Fresh, registryVars, SupportsTools

LEMMA AlikeKept ==
    ASSUME NEW r, NEW f, UNCHANGED registryVars, Alike(f, frame'[r])
    PROVE  /\ Fresh(f) => Fresh(frame[r])'
           /\ Placed(f) => Placed(frame[r])'
BY DEF Fresh, Placed, Alike, registryVars, SupportsTools

LEMMA SnapshotSettled ==
    ASSUME GateInv, NEW r \in Requests, stage[r] \in Running,
           NEW outcome \in Settled, Settle(r, outcome)
    PROVE  SnapshotInv'
<1>1. \A x \in Requests : stage'[x] \in Running => stage'[x] = "granted"
  BY HandOverKeepsGate DEF Settle
<1> QED BY <1>1 DEF SnapshotInv, Snapshot, Running

LEMMA SnapshotGoesTo ==
    ASSUME GateInv, NEW r \in Requests, stage[r] \in Running,
           NEW next \in Running, GoTo(r, next),
           next \in {"choosing", "calling", "yielded"} /\ ~Pinned(r)' =>
               /\ Fresh(frame[r])'
               /\ next # "choosing" => Placed(frame[r])',
           next = "choosing" => ~Pinned(r)'
    PROVE  SnapshotInv'
<1>1. stage'[r] = next /\ \A x \in Requests : x # r => stage'[x] \notin Running
  BY GoToKeepsGate
<1>2. Snapshot(r)'
  BY <1>1 DEF Snapshot
<1>3. ASSUME NEW x \in Requests, x # r PROVE Snapshot(x)'
  BY <1>1, <1>3 DEF Snapshot, Running
<1> QED BY <1>2, <1>3 DEF SnapshotInv

LEMMA SnapshotSame ==
    ASSUME SnapshotInv, UNCHANGED registryVars, UNCHANGED stage,
           \A x \in Requests : Alike(frame[x], frame'[x])
    PROVE  SnapshotInv'
<1> SUFFICES ASSUME NEW x \in Requests PROVE Snapshot(x)'
  BY DEF SnapshotInv
<1>1. Snapshot(x) /\ stage'[x] = stage[x] /\ (Pinned(x)' <=> Pinned(x))
  BY DEF SnapshotInv, Alike, Pinned
<1>2. /\ Fresh(frame[x]) => Fresh(frame[x])'
      /\ Placed(frame[x]) => Placed(frame[x])'
  BY AlikeKept
<1> QED BY <1>1, <1>2 DEF Snapshot

LEMMA TailRange ==
    ASSUME NEW G, NEW s \in Seq(G), s # <<>>
    PROVE  Head(s) \in Range(s) /\ Range(Tail(s)) \subseteq Range(s)
<1>1. /\ Len(s) \in Nat /\ Len(s) > 0 /\ Head(s) = s[1] /\ 1 \in DOMAIN s
      /\ DOMAIN Tail(s) = 1..(Len(s) - 1)
      /\ \A i \in 1..(Len(s) - 1) : i + 1 \in DOMAIN s /\ Tail(s)[i] = s[i + 1]
  BY HeadTailProperties
<1> QED BY <1>1 DEF Range

LEMMA ArriveSnapshot ==
    ASSUME AllInv, NEW r \in Requests, NEW ask, Arrive(r, ask)
    PROVE  SnapshotInv'
<1>1. UNCHANGED registryVars /\ stage \in [Requests -> Stages] /\ frame \in [Requests -> Frame]
  BY DEF Arrive, AllInv, IInv, GateInv, TypeInv
<1>2. stage'[r] \in {"granted", "queued", "failed"}
      /\ \A x \in Requests : x # r => stage'[x] = stage[x] /\ frame'[x] = frame[x]
  BY <1>1 DEF Arrive
<1> SUFFICES ASSUME NEW x \in Requests PROVE Snapshot(x)'
  BY DEF SnapshotInv
<1>3. CASE x = r
  BY <1>2, <1>3 DEF Snapshot
<1>4. CASE x # r
  BY <1>1, <1>2, <1>4, AlikeKept DEF AllInv, SnapshotInv, Snapshot, Alike, Pinned
<1> QED BY <1>3, <1>4

LEMMA BeginSnapshot ==
    ASSUME AllInv, NEW r \in Requests, BeginPinned(r) \/ BeginAuto(r)
    PROVE  SnapshotInv'
<1>1. /\ GateInv /\ stage[r] \in Running /\ "failed" \in Settled
      /\ {"calling", "choosing"} \subseteq Running /\ UNCHANGED registryVars
      /\ frame \in [Requests -> Frame]
  BY DEF AllInv, IInv, TypeInv, BeginPinned, BeginAuto, Running, Settled
<1>2. CASE Settle(r, "failed")
  BY <1>1, <1>2, SnapshotSettled
<1>3. CASE /\ Pinned(r) /\ GoTo(r, "calling")
           /\ frame' = [frame EXCEPT ![r] = [Called(@, frame[r].ask.provider, TRUE)
                                               EXCEPT !.attempt = 1]]
  <2>1. frame'[r].ask = frame[r].ask
    BY <1>1, <1>3 DEF Called, Frame
  <2> QED BY <1>1, <1>3, <2>1, SnapshotGoesTo DEF Pinned
<1>4. CASE /\ ~Pinned(r) /\ GoTo(r, "choosing")
           /\ frame' = [frame EXCEPT ![r].ranked = Rank(Candidates(frame[r].ask)),
                                     ![r].stale = FALSE]
  <2> DEFINE c == Candidates(frame[r].ask)
  <2>1. /\ c \in Seq(Ids) /\ Range(c) \subseteq Range(order)
        /\ frame[r].ask.tools => \A p \in Range(c) : SupportsTools(p)
    BY CandidatesTyped DEF AllInv
  <2> HIDE DEF c
  <2>2. Range(Rank(c)) = Range(c)
    BY <2>1, RankKeepsRange DEF AllInv, TypeInv
  <2>3. frame'[r].ranked = Rank(c) /\ frame'[r].ask = frame[r].ask
    BY <1>1, <1>4 DEF Frame, c
  <2>4. Fresh(frame[r])'
    BY <1>1, <2>1, <2>2, <2>3 DEF Fresh, registryVars, SupportsTools
  <2>5. ~Pinned(r)'
    BY <1>4, <2>3 DEF Pinned
  <2> QED BY <1>1, <1>4, <2>4, <2>5, SnapshotGoesTo
<1> QED BY <1>2, <1>3, <1>4 DEF BeginPinned, BeginAuto

LEMMA ChooseSnapshot ==
    ASSUME AllInv, NEW r \in Requests, GiveUp(r) \/ SkipOpen(r) \/ TryNext(r)
    PROVE  SnapshotInv'
<1> DEFINE f == frame[r]
<1>1. /\ GateInv /\ stage[r] \in Running /\ "failed" \in Settled /\ "calling" \in Running
      /\ UNCHANGED registryVars /\ frame \in [Requests -> Frame] /\ Snapshot(r)
      /\ stage[r] = "choosing"
  BY DEF AllInv, IInv, TypeInv, SnapshotInv, GiveUp, SkipOpen, TryNext, Running, Settled
<1>2. f.ranked # <<>> => Head(f.ranked) \in Range(f.ranked)
                         /\ Range(Tail(f.ranked)) \subseteq Range(f.ranked)
  BY <1>1, TailRange DEF Frame
<1>3. CASE Settle(r, "failed")
  BY <1>1, <1>3, SnapshotSettled
<1>4. CASE /\ f.ranked # <<>> /\ UNCHANGED stage
           /\ frame' = [frame EXCEPT ![r].ranked = Tail(@)]
  <2>1. /\ frame'[r].ask = f.ask /\ frame'[r].stale = f.stale
        /\ frame'[r].ranked = Tail(f.ranked)
        /\ \A x \in Requests : x # r => frame'[x] = frame[x]
    BY <1>1, <1>4 DEF Frame
  <2>2. Snapshot(r)'
    BY <1>1, <1>2, <1>4, <2>1, FreshKept DEF Snapshot, Pinned
  <2>3. ASSUME NEW x \in Requests, x # r PROVE Snapshot(x)'
    <3>1. Snapshot(x) /\ stage'[x] = stage[x] /\ (Pinned(x)' <=> Pinned(x))
      BY <1>4, <2>1, <2>3 DEF AllInv, SnapshotInv, Pinned
    <3>2. /\ Fresh(frame[x]) => Fresh(frame[x])'
          /\ Placed(frame[x]) => Placed(frame[x])'
      BY <1>1, <2>1, <2>3, AlikeKept DEF Alike
    <3> QED BY <3>1, <3>2 DEF Snapshot
  <2> QED BY <2>2, <2>3 DEF SnapshotInv
<1>5. CASE TryNext(r)
  <2> DEFINE p == Head(f.ranked)
  <2>1. /\ f.ranked # <<>> /\ GoTo(r, "calling")
        /\ frame'[r].ask = f.ask /\ frame'[r].stale = f.stale
        /\ frame'[r].ranked = Tail(f.ranked)
        /\ frame'[r].at = p /\ frame'[r].known = (installed[p] # "absent")
    BY <1>1, <1>5 DEF TryNext, Called, Frame
  <2>2. ~Pinned(r)' => Fresh(f)
    BY <1>1, <2>1 DEF Snapshot, Pinned
  <2>3. Fresh(f) => Fresh(frame[r])' /\ Placed(frame[r])'
    <3>1. Fresh(f) => Fresh(frame[r])'
      BY <1>1, <1>2, <2>1, FreshKept
    <3>2. Fresh(f) => Placed(frame[r])'
      BY <1>1, <1>2, <2>1 DEF Fresh, Placed, registryVars
    <3> QED BY <3>1, <3>2
  <2> QED BY <1>1, <2>1, <2>2, <2>3, SnapshotGoesTo
<1> QED BY <1>3, <1>4, <1>5 DEF GiveUp, SkipOpen

\* The steps of an upstream call and of the consumer of its chunks.
LEMMA CallSnapshot ==
    ASSUME AllInv, NEW r \in Requests, stage[r] \in {"calling", "yielded", "backoff"},
           UNCHANGED registryVars, NEW next \in Running, GoTo(r, next),
           Alike(frame[r], frame'[r]), stage[r] = "backoff" => Pinned(r)',
           next = "choosing" => ~Pinned(r)
    PROVE  SnapshotInv'
<1>1. GateInv /\ stage[r] \in Running /\ Snapshot(r) /\ (Pinned(r)' <=> Pinned(r))
  BY DEF AllInv, IInv, SnapshotInv, Running, Alike, Pinned
<1>2. /\ Fresh(frame[r]) => Fresh(frame[r])'
      /\ Placed(frame[r]) => Placed(frame[r])'
  BY AlikeKept
<1> QED BY <1>1, <1>2, SnapshotGoesTo DEF Snapshot

LEMMA AlikeFrames ==
    ASSUME NEW f \in Frame
    PROVE  /\ \A ttfb : Alike(f, Delivered(f, ttfb))
           /\ \A looks : Alike(f, Heard(f, looks)) /\ Heard(f, looks).ask = f.ask
           /\ \A looks, ttfb : Alike(f, Delivered(Heard(f, looks), ttfb))
           /\ Alike(f, [f EXCEPT !.aborted = TRUE])
           /\ Alike(f, f)
BY DEF Alike, Delivered, Heard, Frame

LEMMA RetrySnapshot ==
    ASSUME AllInv, NEW r \in Requests, Retry(r)
    PROVE  SnapshotInv'
<1>1. /\ GateInv /\ stage[r] \in Running /\ "calling" \in Running /\ GoTo(r, "calling")
      /\ frame \in [Requests -> Frame] /\ Pinned(r)
  BY DEF AllInv, IInv, TypeInv, CallsInv, AtClosed, Retry, Running
<1>2. frame'[r].ask = frame[r].ask
  BY <1>1 DEF Retry, Called, Frame
<1>3. Pinned(r)'
  BY <1>1, <1>2 DEF Pinned
<1> QED BY <1>1, <1>3, SnapshotGoesTo

LEMMA UpstreamSnapshot ==
    ASSUME AllInv, NEW r \in Requests, Chunk(r) \/ Finish(r)
    PROVE  SnapshotInv'
<1> DEFINE GoesOn == \/ GoTo(r, "choosing") /\ ~Pinned(r)
                     \/ GoTo(r, "backoff") \/ GoTo(r, "yielded")
<1>1. /\ GateInv /\ stage[r] = "calling" /\ stage[r] \in Running
      /\ {"failed", "done"} \subseteq Settled
      /\ {"choosing", "backoff", "yielded"} \subseteq Running
      /\ UNCHANGED registryVars /\ frame \in [Requests -> Frame]
  BY DEF AllInv, IInv, TypeInv, Chunk, OtherChunk, ContentChunk, Finish, UpstreamEnds,
         UpstreamThrows, Running, Settled
<1>2. \/ Settle(r, "failed") \/ Settle(r, "done")
      \/ /\ GoesOn
         /\ Alike(frame[r], frame'[r])
  <2>1. ASSUME NEW ttfb, OtherChunk(r, ttfb)
        PROVE  GoTo(r, "yielded") /\ Alike(frame[r], frame'[r])
    BY <1>1, <2>1, AlikeFrames DEF OtherChunk
  <2>2. ASSUME NEW looks, NEW ttfb, ContentChunk(r, looks, ttfb), ~Settle(r, "failed")
        PROVE  /\ GoesOn
               /\ Alike(frame[r], frame'[r])
    <3> DEFINE f == Heard(frame[r], looks)
    <3>1. /\ GoesOn
          /\ frame' = [frame EXCEPT ![r] = Delivered(f, ttfb)] \/ frame' = [frame EXCEPT ![r] = f]
      BY <2>2 DEF ContentChunk, ChargeFailure, RetryPinned, FailPinned
    <3>2. Alike(frame[r], f) /\ Alike(frame[r], Delivered(f, ttfb))
      BY <1>1, AlikeFrames
    <3> HIDE DEF f
    <3> QED BY <1>1, <3>1, <3>2
  <2>3. ASSUME Finish(r), ~Settle(r, "failed"), ~Settle(r, "done")
        PROVE  /\ GoesOn
               /\ Alike(frame[r], frame'[r])
    BY <1>1, <2>3, AlikeFrames
       DEF Finish, UpstreamEnds, UpstreamThrows, ChargeFailure, RetryPinned, FailPinned
  <2> QED BY <2>1, <2>2, <2>3 DEF Chunk
<1> QED BY <1>1, <1>2, SnapshotSettled, CallSnapshot

LEMMA ConsumerSnapshot ==
    ASSUME AllInv, NEW r \in Requests, Pull(r) \/ Cancel(r) \/ Abort(r)
    PROVE  SnapshotInv'
<1>1. /\ GateInv /\ UNCHANGED registryVars /\ "cancelled" \in Settled /\ "calling" \in Running
      /\ frame \in [Requests -> Frame] /\ SnapshotInv
  BY DEF AllInv, IInv, TypeInv, Pull, Cancel, Abort, Running, Settled
<1>2. CASE Pull(r)
  <2>1. stage[r] = "yielded" /\ GoTo(r, "calling") /\ frame' = frame
    BY <1>2 DEF Pull
  <2> QED BY <1>1, <2>1, AlikeFrames, CallSnapshot
<1>3. CASE Cancel(r)
  BY <1>1, <1>3, SnapshotSettled DEF Cancel, Running
<1>4. CASE Abort(r)
  <2>1. stage' = stage /\ frame' = [frame EXCEPT ![r].aborted = TRUE]
    BY <1>4 DEF Abort
  <2>2. \A x \in Requests : Alike(frame[x], frame'[x])
    BY <1>1, <2>1, AlikeFrames
  <2> QED BY <1>1, <2>1, <2>2, SnapshotSame
<1> QED BY <1>2, <1>3, <1>4

LEMMA RegistrySnapshot ==
    ASSUME AllInv, ChangeRegistry
    PROVE  SnapshotInv'
<1>1. /\ RegistryChanged /\ frame \in [Requests -> Frame]
  BY DEF AllInv, TypeInv, ChangeRegistry, RegisterProvider, UnregisterProvider,
         SetFailoverOrder
<1>2. \A r \in Requests : stage'[r] \in {"choosing", "calling", "yielded"} => frame'[r].stale
  BY <1>1 DEF RegistryChanged, Frame
<1>3. ASSUME NEW r \in Requests PROVE stage'[r] = stage[r] /\ (Pinned(r)' <=> Pinned(r))
  BY <1>1 DEF RegistryChanged, Pinned, Frame
<1> QED BY <1>2, <1>3 DEF AllInv, SnapshotInv, Snapshot, Fresh, Placed

LEMMA AllInitially == Init => AllInv
<1>1. Init => SnapshotInv
  BY DEF Init, SnapshotInv, Snapshot
<1> QED BY <1>1, InitHolds, InitTyped DEF AllInv

LEMMA AllKept == AllInv /\ [Next]_vars => AllInv'
<1> SUFFICES ASSUME AllInv, [Next]_vars PROVE SnapshotInv'
  BY NextKeeps, NextTyped DEF AllInv
<1>1. ASSUME NEW r \in Requests, NEW ask \in Asks, Arrive(r, ask) PROVE SnapshotInv'
  BY <1>1, ArriveSnapshot
<1>2. ASSUME NEW r \in Requests, RouterStep(r) PROVE SnapshotInv'
  BY <1>2, BeginSnapshot, ChooseSnapshot, RetrySnapshot DEF RouterStep
<1>3. ASSUME NEW r \in Requests, Chunk(r) \/ Finish(r) PROVE SnapshotInv'
  BY <1>3, UpstreamSnapshot
<1>4. ASSUME NEW r \in Requests, Pull(r) \/ Cancel(r) \/ Abort(r) PROVE SnapshotInv'
  BY <1>4, ConsumerSnapshot
<1>5. ASSUME ChangeRegistry PROVE SnapshotInv'
  BY <1>5, RegistrySnapshot
<1>6. ASSUME Tick \/ UNCHANGED vars PROVE SnapshotInv'
  <2>1. UNCHANGED registryVars /\ stage' = stage /\ frame' = frame
    BY <1>6 DEF Tick, vars, registryVars
  <2> QED BY <2>1, SnapshotSame, AlikeFrames DEF AllInv, TypeInv
<1> QED BY <1>1, <1>2, <1>3, <1>4, <1>5, <1>6 DEF Next

LEMMA AllInductive == Spec => []AllInv
<1> QED BY AllInitially, AllKept, PTL DEF Spec

\* Whatever calls, upstreams and the registry do, the state of the router keeps its types:
\* no counter, sample or candidate goes astray.
THEOREM RouterTypes == Spec => []RouterTypeOK
<1>1. AllInv => RouterTypeOK
  BY DEF AllInv, IInv, GateInv, LineFits, BreakerInv, TypeInv, RouterTypeOK
<1> QED BY <1>1, AllInductive, PTL

LEMMA ToolsStep == AllInv /\ [Next]_vars => [ToolsNeverDegradeStep]_vars
<1> SUFFICES ASSUME AllInv, Next, NEW r \in Requests,
                    stage[r] \in {"granted", "choosing"}, stage'[r] = "calling",
                    frame[r].ask.tools, ~frame[r].stale
             PROVE  installed[frame'[r].at] = "tools"
  BY DEF ToolsNeverDegradeStep
<1>1. /\ GateInv /\ stage[r] \in Running /\ owner = r /\ frame \in [Requests -> Frame]
      /\ \A x \in Requests : x # r => stage[x] \notin Running
  BY OneRuns DEF AllInv, IInv, TypeInv, Running
<1>2. ASSUME NEW x \in Requests, NEW outcome \in Settled, Settle(x, outcome),
             stage[x] \in Running
      PROVE  FALSE
  BY <1>1, <1>2, HandOverKeepsGate DEF Settle, Running
<1>3. ASSUME UNCHANGED stage PROVE FALSE
  BY <1>3
<1>4. ASSUME NEW x \in Requests, NEW next, GoTo(x, next) PROVE x = r /\ next = "calling"
  BY <1>1, <1>4 DEF GoTo, GateInv
<1>5. {"failed", "done", "cancelled"} \subseteq Settled
  BY DEF Settled
<1>6. CASE BeginPinned(r)
  <2> DEFINE p == frame[r].ask.provider
  <2>1. ~Settle(r, "failed")
    BY <1>1, <1>2, <1>5
  <2>2. /\ SupportsTools(p)
        /\ frame' = [frame EXCEPT ![r] = [Called(@, p, TRUE) EXCEPT !.attempt = 1]]
    BY <1>6, <2>1 DEF BeginPinned
  <2>3. frame'[r].at = p
    BY <1>1, <2>2 DEF Called, Frame
  <2> QED BY <2>2, <2>3 DEF SupportsTools
<1>7. CASE TryNext(r)
  <2>1. /\ frame[r].ranked # <<>> /\ frame'[r].at = Head(frame[r].ranked)
        /\ stage[r] = "choosing"
    BY <1>1, <1>7 DEF TryNext, Called, Frame
  <2>2. Head(frame[r].ranked) \in Range(frame[r].ranked)
    BY <1>1, <2>1, TailRange DEF Frame
  <2>3. Fresh(frame[r])
    BY <2>1 DEF AllInv, SnapshotInv, Snapshot
  <2> QED BY <2>1, <2>2, <2>3 DEF Fresh, SupportsTools
<1>8. ASSUME NEW x \in Requests, RouterStep(x) PROVE BeginPinned(r) \/ TryNext(r)
  <2>1. stage[x] \in Running
    BY <1>8 DEF RouterStep, BeginPinned, BeginAuto, GiveUp, SkipOpen, TryNext, Retry, Running
  <2>2. x = r
    BY <1>1, <2>1
  <2>3. ~Settle(r, "failed") /\ ~GoTo(r, "choosing") /\ stage' # stage
    BY <1>1, <1>2, <1>3, <1>4, <1>5
  <2>4. ~BeginAuto(r) /\ ~GiveUp(r) /\ ~SkipOpen(r) /\ ~Retry(r)
    BY <2>3 DEF BeginAuto, GiveUp, SkipOpen, Retry
  <2> QED BY <1>8, <2>2, <2>4 DEF RouterStep
<1>9. ASSUME NEW x \in Requests, NEW ask, Arrive(x, ask) PROVE FALSE
  BY <1>1, <1>9, ArriveKeepsGate
<1>10. ASSUME NEW x \in Requests, Chunk(x) \/ Finish(x) \/ Pull(x) \/ Cancel(x) PROVE FALSE
  <2>1. stage[x] \in {"calling", "yielded"}
    BY <1>10 DEF Chunk, OtherChunk, ContentChunk, Finish, UpstreamEnds, UpstreamThrows, Pull, Cancel
  <2> QED BY <1>1, <2>1 DEF Running
<1>11. ASSUME NEW x \in Requests, Abort(x) PROVE FALSE
  BY <1>3, <1>11 DEF Abort
<1>12. ASSUME ChangeRegistry \/ Tick PROVE FALSE
  BY <1>3, <1>12 DEF ChangeRegistry, RegisterProvider, UnregisterProvider, SetFailoverOrder,
                     RegistryChanged, Tick
<1> QED BY <1>6, <1>7, <1>8, <1>9, <1>10, <1>11, <1>12 DEF Next

\* For any registry, any order of registerProvider(), unregisterProvider() and
\* setFailoverOrder() calls and any ranking, no request with tools reaches a provider that
\* does not support them, unless the registry changed after the candidates were ranked.
THEOREM ToolRequestsKeepTools == Spec => ToolsNeverDegrade
<1>1. AllInv /\ [Next]_vars => [ToolsNeverDegradeStep]_vars
  BY ToolsStep
<1> QED BY <1>1, AllInductive, PTL DEF Spec, ToolsNeverDegrade

LEMMA FailureStep == AllInv /\ [Next]_vars => [FailureMeansExhaustionStep]_vars
<1> SUFFICES ASSUME AllInv, Next, NEW r \in Requests,
                    stage[r] \in {"choosing", "calling"}, stage'[r] = "failed", ~Pinned(r),
                    frame[r].ranked # <<>>, ~frame[r].stale
             PROVE  \E p \in Range(order) : installed[p] = "absent"
  BY DEF FailureMeansExhaustionStep
<1>1. /\ GateInv /\ stage[r] \in Running /\ owner = r /\ frame \in [Requests -> Frame]
      /\ \A x \in Requests : x # r => stage[x] \notin Running
      /\ Snapshot(r)
  BY OneRuns DEF AllInv, IInv, TypeInv, SnapshotInv, Running
<1>2. ASSUME UNCHANGED stage PROVE FALSE
  BY <1>2
<1>3. ASSUME NEW x \in Requests, NEW next \in Running, GoTo(x, next) PROVE FALSE
  BY <1>1, <1>3 DEF GoTo, GateInv, Running
<1>4. {"calling", "choosing", "yielded", "backoff"} \subseteq Running
  BY DEF Running
<1>5. CASE SkipOpen(r)
  <2> DEFINE p == Head(frame[r].ranked)
  <2>1. stage[r] = "choosing" /\ installed[p] = "absent"
    BY <1>2, <1>5 DEF SkipOpen
  <2>2. p \in Range(frame[r].ranked)
    BY <1>1, TailRange DEF Frame
  <2>3. Range(frame[r].ranked) \subseteq Range(order)
    BY <1>1, <2>1 DEF Snapshot, Fresh
  <2> QED BY <2>1, <2>2, <2>3
<1>6. CASE \E retryable \in BOOLEAN : UpstreamThrows(r, retryable)
  <2>1. stage[r] = "calling" /\ ReportThrows(r)
    BY <1>3, <1>4, <1>6 DEF UpstreamThrows, ChargeFailure
  <2>2. frame[r].at \in Range(order) /\ installed[frame[r].at] = "absent"
    BY <1>1, <2>1 DEF Snapshot, Placed, ReportThrows
  <2> QED BY <2>2
<1>7. ASSUME NEW x \in Requests, RouterStep(x) PROVE SkipOpen(r)
  <2>1. x = r
    BY <1>1, <1>7
       DEF RouterStep, BeginPinned, BeginAuto, GiveUp, SkipOpen, TryNext, Retry, Running
  <2> QED BY <1>3, <1>4, <1>7, <2>1
          DEF RouterStep, BeginPinned, BeginAuto, GiveUp, TryNext, Retry
<1>8. ASSUME NEW x \in Requests, NEW ask, Arrive(x, ask) PROVE FALSE
  BY <1>1, <1>8, ArriveKeepsGate DEF Arrive
<1>9. ASSUME NEW x \in Requests, Chunk(x) \/ Finish(x) \/ Pull(x) \/ Cancel(x)
      PROVE  \E retryable \in BOOLEAN : UpstreamThrows(r, retryable)
  <2>1. stage[x] \in {"calling", "yielded"}
    BY <1>9 DEF Chunk, OtherChunk, ContentChunk, Finish, UpstreamEnds, UpstreamThrows, Pull, Cancel
  <2>2. x = r
    BY <1>1, <2>1 DEF Running
  <2>3. ASSUME NEW outcome \in {"done", "cancelled"}, Settle(r, outcome) PROVE FALSE
    BY <1>1, <2>3 DEF Settle, HandOver, StagesAfter
  <2>4. ~Chunk(r)
    BY <1>3, <1>4
       DEF Chunk, OtherChunk, ContentChunk, ChargeFailure, RetryPinned
  <2>5. ~UpstreamEnds(r)
    BY <1>3, <1>4, <2>3 DEF UpstreamEnds, ChargeFailure
  <2>6. ~Pull(r) /\ ~Cancel(r)
    BY <1>3, <1>4, <2>3 DEF Pull, Cancel
  <2> QED BY <1>9, <2>2, <2>4, <2>5, <2>6 DEF Finish
<1>10. ASSUME NEW x \in Requests, Abort(x) PROVE FALSE
  BY <1>2, <1>10 DEF Abort
<1>11. ASSUME ChangeRegistry \/ Tick PROVE FALSE
  BY <1>2, <1>11 DEF ChangeRegistry, RegisterProvider, UnregisterProvider, SetFailoverOrder,
                     RegistryChanged, Tick
<1> QED BY <1>5, <1>6, <1>7, <1>8, <1>9, <1>10, <1>11 DEF Next

\* For any upstreams, consumers and registry, an auto call that began fails only when its
\* candidates are used up; before that only a provider without a module ends it, and the
\* registry changed under the call or has such a provider in its order.
THEOREM FailuresExhaust == Spec => FailureMeansExhaustion
<1>1. AllInv /\ [Next]_vars => [FailureMeansExhaustionStep]_vars
  BY FailureStep
<1> QED BY <1>1, AllInductive, PTL DEF Spec, FailureMeansExhaustion
=============================================================================
