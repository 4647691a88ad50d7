---------------------------- MODULE ProxyProofs ----------------------------
(***************************************************************************)
(* Proofs about Proxy, for every number of requests, every cache and every *)
(* mix of what clients ask: the count of requests in flight is exact and a *)
(* drain that ends by it cuts nothing off; and the cache holds whole answers, *)
(* under their own key, that are as old as their entry says.               *)
(***************************************************************************)
EXTENDS Proxy, FiniteSetTheorems, SequenceLemmas

Counted == { r \in Requests : pending[r] }

Handled == {"reading", "calling", "listing"}

\* The types the argument rests on.
CountTypes == /\ ask \in [Requests -> Ask]
              /\ stage \in [Requests -> Stages]
              /\ response \in [Requests -> {"none", "open", "ended", "finished", "closed"}]
              /\ pending \in [Requests -> BOOLEAN]
              /\ active \in Nat

\* Where a handler is under way, its response is open, or closed early; before the
\* first request there is none.
StagesFit == \A r \in Requests : /\ stage[r] \in Handled => response[r] \in {"open", "closed"}
                                 /\ stage[r] = "new" => response[r] = "none"

\* A request is pending, not dropped, exactly while it is in flight.
PendingFits == \A r \in Requests : pending[r] <=> Unsent(r) /\ ask[r].kind # "preflight"

CountInv == /\ CountTypes
            /\ StagesFit
            /\ PendingFits
            /\ active = Cardinality(Counted)
            /\ phase = "drained" => active = 0
-----------------------------------------------------------------------------
LEMMA CountedFinite == IsFiniteSet(Counted) /\ Cardinality(Counted) \in Nat
<1>1. Counted \subseteq Requests
  BY DEF Counted
<1> QED
  BY <1>1, ProxyAssumption, FS_Subset, FS_CardinalityType

LEMMA NoAskType == NoAsk \in Ask
<1>1. (CHOOSE k \in Keys : TRUE) \in Keys
  BY ProxyAssumption
<1> QED
  BY <1>1 DEF NoAsk, Ask

\* The invariant does not look at the cache, the replies and the kind of exit.
LEMMA CountUntouched ==
  ASSUME CountInv, UNCHANGED <<ask, stage, response, pending, active>>,
         phase' = "drained" => phase = "drained"
  PROVE  CountInv'
<1>1. CountTypes' /\ StagesFit'
  BY DEF CountInv, CountTypes, StagesFit
<1>2. PendingFits'
  BY DEF CountInv, PendingFits, Unsent
<1>3. Counted' = Counted
  BY DEF Counted
<1> QED
  BY <1>1, <1>2, <1>3 DEF CountInv

\* A handler that is under way goes on or ends its response.
LEMMA HandlerKeeps ==
  ASSUME CountInv, NEW r \in Requests, stage[r] \in Handled,
         \/ Answer(r)
         \/ \E next \in Handled : stage' = [stage EXCEPT ![r] = next] /\ UNCHANGED response,
         UNCHANGED <<ask, pending, active, phase>>
  PROVE  CountInv'
<1>1. response[r] \in {"open", "closed"}
  BY DEF CountInv, StagesFit
<1>2. \A x \in Requests : x # r => stage'[x] = stage[x] /\ response'[x] = response[x]
  BY DEF CountInv, CountTypes, Answer
<1>3. CountTypes'
  BY <1>1 DEF CountInv, CountTypes, Answer, Stages, Handled
<1>4. /\ response[r] = "open" => response'[r] \in {"open", "ended"}
      /\ response[r] = "closed" => response'[r] = "closed"
      /\ stage'[r] \in Handled \cup {"over"}
      /\ stage'[r] \in Handled => response'[r] = response[r]
  BY DEF CountInv, CountTypes, Answer, Handled
<1>5. StagesFit'
  BY <1>1, <1>2, <1>4 DEF CountInv, StagesFit, Handled
<1>6. PendingFits'
  <2> SUFFICES ASSUME NEW x \in Requests
               PROVE  pending'[x] <=> Unsent(x)' /\ ask'[x].kind # "preflight"
    BY DEF PendingFits
  <2>1. Unsent(x)' <=> Unsent(x)
    BY <1>1, <1>2, <1>4 DEF Unsent
  <2> QED
    BY <2>1 DEF CountInv, PendingFits
<1>7. Counted' = Counted
  BY DEF Counted
<1> QED
  BY <1>3, <1>5, <1>6, <1>7 DEF CountInv

\* A request object is taken; the count goes up unless it is a preflight.
LEMMA ArriveKeeps ==
  ASSUME CountInv, NEW r \in Requests, NEW a \in Asks, Arrive(r, a)
  PROVE  CountInv'
<1>1. a \in Ask /\ response[r] \in {"none", "closed"} /\ ~pending[r] /\ r \notin Counted
  BY ProxyAssumption DEF Arrive, Unused, CountInv, StagesFit, PendingFits, Unsent, Counted
<1>2. phase' = phase /\ phase # "drained"
  BY DEF Arrive, Exited, Exits
<1>3. /\ response' = [response EXCEPT ![r] = response'[r]]
      /\ stage' = [stage EXCEPT ![r] = stage'[r]]
      /\ \/ response'[r] = "ended" /\ stage'[r] = "over"
         \/ response'[r] = "open" /\ stage'[r] \in Handled
  BY DEF Arrive, AnswerAtOnce, Open, Handled, CountInv, CountTypes
<1>4. ask' = [ask EXCEPT ![r] = a] /\ ask'[r] = a
  BY DEF Arrive, CountInv, CountTypes
<1>5. \A x \in Requests : x # r => /\ stage'[x] = stage[x] /\ response'[x] = response[x]
                                   /\ ask'[x] = ask[x]
  BY <1>3, <1>4 DEF CountInv, CountTypes
<1>6. StagesFit'
  BY <1>3, <1>5 DEF CountInv, StagesFit, Handled
<1>7. /\ ask' \in [Requests -> Ask] /\ stage' \in [Requests -> Stages]
      /\ response' \in [Requests -> {"none", "open", "ended", "finished", "closed"}]
  BY <1>1, <1>3, <1>4 DEF CountInv, CountTypes, Stages, Handled
<1>8. CASE a.kind = "preflight"
  <2>1. UNCHANGED <<pending, active>>
    BY <1>8 DEF Arrive
  <2>2. CountTypes' /\ Counted' = Counted
    BY <1>7, <2>1 DEF CountInv, CountTypes, Counted
  <2>3. PendingFits'
    BY <1>1, <1>4, <1>5, <1>8, <2>1 DEF CountInv, PendingFits, Unsent
  <2> QED
    BY <1>2, <1>6, <2>1, <2>2, <2>3 DEF CountInv
<1>9. CASE a.kind # "preflight"
  <2>1. pending' = [pending EXCEPT ![r] = TRUE] /\ active' = active + 1
    BY <1>9 DEF Arrive
  <2>2. CountTypes'
    BY <1>7, <2>1 DEF CountInv, CountTypes
  <2>3. Counted' = Counted \cup {r}
    BY <2>1 DEF Counted, CountInv, CountTypes
  <2>4. active' = Cardinality(Counted')
    BY <1>1, <2>1, <2>3, CountedFinite, FS_AddElement DEF CountInv
  <2>5. PendingFits'
    <3> SUFFICES ASSUME NEW x \in Requests
                 PROVE  pending'[x] <=> Unsent(x)' /\ ask'[x].kind # "preflight"
      BY DEF PendingFits
    <3>1. CASE x = r
      BY <1>3, <1>4, <1>9, <2>1, <3>1 DEF CountInv, CountTypes, Unsent
    <3>2. CASE x # r
      BY <1>5, <2>1, <3>2 DEF CountInv, CountTypes, PendingFits, Unsent
    <3> QED
      BY <3>1, <3>2
  <2> QED
    BY <1>2, <1>6, <2>2, <2>4, <2>5 DEF CountInv
<1> QED
  BY <1>8, <1>9

\* An event of a response counts once, and resolves a drain at zero only.
LEMMA EventKeeps ==
  ASSUME CountInv, NEW r \in Requests, DropOnce(r), ~Exited,
         response[r] \in {"open", "ended", "finished"},
         response[r] = "open" => response'[r] = "closed",
         response'[r] \in {"finished", "closed"},
         response' = [response EXCEPT ![r] = response'[r]],
         stage[r] \in Handled => response'[r] = "closed",
         UNCHANGED <<ask, stage>>
  PROVE  CountInv'
<1>1. \A x \in Requests : x # r => response'[x] = response[x]
  BY DEF CountInv, CountTypes
<1>2. StagesFit'
  BY <1>1 DEF CountInv, StagesFit, Handled
<1>3. response' \in [Requests -> {"none", "open", "ended", "finished", "closed"}]
  BY DEF CountInv, CountTypes
<1>4. phase # "drained" /\ ~Unsent(r)'
  BY DEF Exited, Exits, Unsent
<1>5. CASE ~pending[r]
  <2>1. UNCHANGED <<pending, active, phase>>
    BY <1>5 DEF DropOnce
  <2>2. CountTypes' /\ Counted' = Counted
    BY <1>3, <2>1 DEF CountInv, CountTypes, Counted
  <2>3. PendingFits'
    BY <1>1, <1>4, <1>5, <2>1 DEF CountInv, PendingFits, Unsent
  <2> QED
    BY <1>2, <1>4, <2>1, <2>2, <2>3 DEF CountInv
<1>6. CASE pending[r]
  <2>1. /\ pending' = [pending EXCEPT ![r] = FALSE]
        /\ active' = active - 1
        /\ phase' = IF phase = "draining" /\ active = 1 THEN "drained" ELSE phase
    BY <1>6 DEF DropOnce
  <2>2. r \in Counted /\ Counted' = Counted \ {r}
    BY <1>6, <2>1 DEF Counted, CountInv, CountTypes
  <2>3. /\ Cardinality(Counted') = Cardinality(Counted) - 1
        /\ IsFiniteSet(Counted')
    BY <2>2, CountedFinite, FS_RemoveElement
  <2>4. active' = Cardinality(Counted') /\ active' \in Nat
    BY <2>1, <2>3, FS_CardinalityType DEF CountInv
  <2>5. CountTypes'
    BY <1>3, <2>1, <2>4 DEF CountInv, CountTypes
  <2>6. PendingFits'
    <3> SUFFICES ASSUME NEW x \in Requests
                 PROVE  pending'[x] <=> Unsent(x)' /\ ask'[x].kind # "preflight"
      BY DEF PendingFits
    <3>1. CASE x = r
      BY <1>4, <2>1, <3>1 DEF CountInv, CountTypes
    <3>2. CASE x # r
      BY <1>1, <2>1, <3>2 DEF CountInv, CountTypes, PendingFits, Unsent
    <3> QED
      BY <3>1, <3>2
  <2>7. phase' = "drained" => active' = 0
    BY <1>4, <2>1
  <2> QED
    BY <1>2, <2>4, <2>5, <2>6, <2>7 DEF CountInv
<1> QED
  BY <1>5, <1>6

\* A signal turns some unused request objects away; those have no response open.
LEMMA SignalKeeps ==
  ASSUME CountInv, Signal
  PROVE  CountInv'
<1>1. PICK refused \in SUBSET { r \in Requests : Unused(r) } :
         stage' = [r \in Requests |-> IF r \in refused THEN "refused" ELSE stage[r]]
  BY DEF Signal
<1>2. UNCHANGED <<ask, response, pending, active>> /\ phase' # "drained"
  BY DEF Signal
<1>3. CountTypes'
  BY <1>1, <1>2 DEF CountInv, CountTypes, Stages
<1>4. StagesFit'
  BY <1>1, <1>2 DEF CountInv, CountTypes, StagesFit, Handled
<1>5. PendingFits'
  BY <1>2 DEF CountInv, PendingFits, Unsent
<1>6. Counted' = Counted
  BY <1>2 DEF Counted
<1> QED
  BY <1>2, <1>3, <1>4, <1>5, <1>6 DEF CountInv

LEMMA CountInit == Init => CountInv
<1> SUFFICES ASSUME Init PROVE CountInv
  OBVIOUS
<1>1. CountTypes /\ StagesFit /\ PendingFits
  BY NoAskType DEF Init, CountTypes, Stages, StagesFit, Handled, PendingFits, Unsent
<1>2. Counted = {}
  BY DEF Init, Counted
<1> QED
  BY <1>1, <1>2, FS_EmptySet DEF Init, CountInv

LEMMA CountStep == CountInv /\ [Next]_vars => CountInv'
<1> SUFFICES ASSUME CountInv, [Next]_vars PROVE CountInv'
  OBVIOUS
<1>1. ASSUME NEW r \in Requests, NEW a \in Asks, Arrive(r, a) PROVE CountInv'
  BY <1>1, ArriveKeeps
<1>2. ASSUME NEW r \in Requests, ReadBody(r) PROVE CountInv'
  <2>1. stage[r] \in Handled /\ UNCHANGED <<ask, pending, active, phase>>
    BY <1>2 DEF ReadBody, RejectBody, AnswerFromCache, StartCall, Handled, processVars
  <2>2. \/ Answer(r)
        \/ \E next \in Handled : stage' = [stage EXCEPT ![r] = next] /\ UNCHANGED response
    BY <1>2 DEF ReadBody, RejectBody, AnswerFromCache, StartCall, Handled
  <2> QED
    BY <2>1, <2>2, HandlerKeeps
<1>3. ASSUME NEW r \in Requests, Chunk(r) PROVE CountInv'
  BY <1>3, CountUntouched DEF Chunk, processVars
<1>4. ASSUME NEW r \in Requests, CallOver(r) \/ SendModels(r) PROVE CountInv'
  <2>1. /\ stage[r] \in Handled /\ Answer(r)
        /\ UNCHANGED <<ask, pending, active, phase>>
    BY <1>4 DEF CallOver, CallEnds, CallThrows, SendModels, Handled, processVars
  <2> QED
    BY <2>1, HandlerKeeps
<1>5. ASSUME NEW r \in Requests, Flush(r) PROVE CountInv'
  <2>1. /\ ~Exited /\ response[r] = "ended" /\ DropOnce(r)
        /\ response' = [response EXCEPT ![r] = "finished"] /\ UNCHANGED <<ask, stage>>
    BY <1>5 DEF Flush
  <2>2. response'[r] = "finished" /\ stage[r] \notin Handled
    BY <2>1 DEF CountInv, CountTypes, StagesFit
  <2> QED
    BY <2>1, <2>2, EventKeeps
<1>6. ASSUME NEW r \in Requests, Close(r) PROVE CountInv'
  <2>1. /\ ~Exited /\ response[r] \in {"open", "ended", "finished"} /\ DropOnce(r)
        /\ response' = [response EXCEPT ![r] = "closed"] /\ UNCHANGED <<ask, stage>>
    BY <1>6 DEF Close
  <2>2. response'[r] = "closed"
    BY <2>1 DEF CountInv, CountTypes
  <2> QED
    BY <2>1, <2>2, EventKeeps
<1>7. CASE Signal
  BY <1>7, SignalKeeps
<1>8. CASE ForceExit \/ Stop \/ GraceOver
  BY <1>8, CountUntouched DEF ForceExit, Stop, GraceOver, ExitAs, requestVars
<1>9. CASE ClearCache \/ Tick
  BY <1>9, CountUntouched DEF ClearCache, Tick, requestVars, processVars
<1>10. CASE UNCHANGED vars
  BY <1>10, CountUntouched DEF vars, requestVars, processVars
<1> QED
  BY <1>1, <1>2, <1>3, <1>4, <1>5, <1>6, <1>7, <1>8, <1>9, <1>10 DEF Next

THEOREM CountInvariant == Spec => []CountInv
<1> QED
  BY CountInit, CountStep, PTL DEF Spec
-----------------------------------------------------------------------------
LEMMA InFlightCounted == CountInv => InFlight = Counted
  BY DEF CountInv, PendingFits, InFlight, Counted

\* The count the proxy reports, and its drain waits for, is exact.
THEOREM CountAlwaysExact == Spec => []ActiveCountsInFlight
<1>1. CountInv => ActiveCountsInFlight
  BY InFlightCounted DEF CountInv, ActiveCountsInFlight
<1> QED
  BY <1>1, CountInvariant, PTL

\* A process that drained cleanly has no request in flight.
THEOREM DrainCutsNothing == Spec => []CleanDrainCutsNothing
<1>1. ASSUME CountInv, phase = "drained" PROVE InFlight = {}
  <2>1. Cardinality(Counted) = 0
    BY <1>1 DEF CountInv
  <2>2. Counted = {}
    BY <2>1, CountedFinite, FS_EmptySet
  <2> QED
    BY <1>1, <2>2, InFlightCounted
<1>2. CountInv => CleanDrainCutsNothing
  BY <1>1 DEF CleanDrainCutsNothing
<1> QED
  BY <1>2, CountInvariant, PTL
-----------------------------------------------------------------------------
(***************************************************************************)
(* What the cache holds                                                    *)
(***************************************************************************)

\* An entry that Keep() may make, with the lifetime that put() gives it.
Whole == { e \in Entry(Reply) : /\ e.value.of = e.key
                                /\ e.value.from # {} /\ ~e.value.tools /\ ~e.value.offered
                                /\ e.value.ended \in Nat
                                /\ e.expires = e.value.ended + TtlMs }

Distinct(s) == \A i, j \in DOMAIN s : s[i].key = s[j].key => i = j

Lacks(s, k) == \A i \in DOMAIN s : s[i].key # k

CacheFits == /\ entries \in Seq(Whole)
             /\ Len(entries) <= MaxEntries
             /\ Distinct(entries)

\* A call gathers the answer to what its request asks.
CallFits == \A r \in Requests :
                stage[r] = "calling" => /\ reply[r].of = ask[r].key
                                        /\ reply[r].offered = ask[r].tools

Rest == /\ now \in Nat
        /\ reply \in [Requests -> Reply]
        /\ phase \in {"up", "idle", "draining"} \cup Exits

CacheInv == CacheFits /\ CallFits /\ Rest
-----------------------------------------------------------------------------
(***************************************************************************)
(* The map                                                                 *)
(***************************************************************************)

\* What is left of the map without a key has no entry for it.
LEMMA WithoutFits ==
  ASSUME CacheFits, NEW k
  PROVE  /\ Without(k) \in Seq(Whole) /\ Distinct(Without(k)) /\ Lacks(Without(k), k)
         /\ Len(Without(k)) <= Len(entries)
         /\ IsFor(k) # {} => Len(Without(k)) < Len(entries)
<1>1. entries \in Seq(Whole) /\ Len(entries) \in Nat /\ DOMAIN entries = 1..Len(entries)
  BY DEF CacheFits
<1>2. IsFor(k) = {} <=> Lacks(entries, k)
  BY DEF IsFor, Lacks, Range
<1>3. CASE IsFor(k) = {}
  BY <1>1, <1>2, <1>3 DEF Without, CacheFits
<1>4. CASE IsFor(k) # {}
  <2> DEFINE i == CHOOSE j \in DOMAIN entries : entries[j].key = k
             t == RemoveAt(entries, i)
  <2>1. i \in DOMAIN entries /\ entries[i].key = k
    BY <1>2, <1>4 DEF Lacks
  <2>2. Without(k) = t
    BY <1>4 DEF Without
  <2> HIDE DEF i
  <2>3. /\ t \in Seq(Whole) /\ Len(t) = Len(entries) - 1
        /\ \A j \in 1..(Len(entries) - 1) :
               t[j] = IF j < i THEN entries[j] ELSE entries[j + 1]
    BY <1>1, <2>1, Removed
  <2> HIDE DEF t
  <2>4. DOMAIN t = 1..(Len(entries) - 1)
    BY <1>1, <2>3
  <2>5. Distinct(entries)
    BY DEF CacheFits
  <2>6. Lacks(t, k)
    <3> SUFFICES ASSUME NEW j \in DOMAIN t, t[j].key = k PROVE FALSE
      BY DEF Lacks
    <3>1. CASE j < i
      BY <1>1, <2>1, <2>3, <2>4, <2>5, <3>1 DEF Distinct
    <3>2. CASE j >= i
      BY <1>1, <2>1, <2>3, <2>4, <2>5, <3>2 DEF Distinct
    <3> QED
      BY <1>1, <2>1, <2>4, <3>1, <3>2
  <2>7. Distinct(t)
    <3> SUFFICES ASSUME NEW j \in DOMAIN t, NEW l \in DOMAIN t, t[j].key = t[l].key
                 PROVE  j = l
      BY DEF Distinct
    <3> DEFINE at(x) == IF x < i THEN x ELSE x + 1
    <3>1. /\ at(j) \in DOMAIN entries /\ at(l) \in DOMAIN entries
          /\ t[j] = entries[at(j)] /\ t[l] = entries[at(l)]
      BY <1>1, <2>1, <2>3, <2>4
    <3>2. at(j) = at(l)
      BY <2>5, <3>1 DEF Distinct
    <3> QED
      BY <1>1, <2>1, <2>4, <3>2
  <2> QED
    BY <1>1, <2>2, <2>3, <2>6, <2>7
<1> QED
  BY <1>3, <1>4

\* An entry for a key that the map lacks may be added.
LEMMA AppendedFits ==
  ASSUME NEW s \in Seq(Whole), Distinct(s), NEW e \in Whole, Lacks(s, e.key)
  PROVE  /\ Append(s, e) \in Seq(Whole) /\ Distinct(Append(s, e))
         /\ Len(Append(s, e)) = Len(s) + 1
         /\ Last(Append(s, e)) = e
<1> DEFINE t == Append(s, e)
<1>1. /\ t \in Seq(Whole) /\ Len(t) = Len(s) + 1 /\ t[Len(s) + 1] = e
      /\ \A i \in 1..Len(s) : t[i] = s[i]
  BY AppendProperties
<1> HIDE DEF t
<1>2. Len(s) \in Nat /\ DOMAIN s = 1..Len(s) /\ DOMAIN t = 1..(Len(s) + 1)
  BY <1>1
<1>3. Distinct(t)
  BY <1>1, <1>2 DEF Distinct, Lacks
<1> QED
  BY <1>1, <1>3 DEF t, Last

\* get(k) moves an entry, which is the last one then.
LEMMA HitFits ==
  ASSUME CacheFits, NEW k, NEW v, Hit(k, v)
  PROVE  CacheFits' /\ Last(entries') \in Whole /\ Last(entries').expires >= now
<1>1. PICK e \in Fresh(k) : entries' = Append(Without(k), e)
  BY DEF Hit
<1>2. e \in Range(entries) /\ e.key = k /\ e.expires >= now
  BY DEF Fresh, IsFor
<1>3. e \in Whole /\ IsFor(k) # {}
  BY <1>2 DEF CacheFits, IsFor, Range
<1>4. /\ Without(k) \in Seq(Whole) /\ Distinct(Without(k)) /\ Lacks(Without(k), k)
      /\ Len(Without(k)) < Len(entries)
  BY <1>3, WithoutFits
<1>5. /\ entries' \in Seq(Whole) /\ Distinct(entries')
      /\ Len(entries') = Len(Without(k)) + 1 /\ Last(entries') = e
  BY <1>1, <1>2, <1>3, <1>4, AppendedFits
<1>6. Len(entries') <= MaxEntries
  BY <1>4, <1>5, CacheAssumption DEF CacheFits
<1> QED
  BY <1>2, <1>3, <1>5, <1>6 DEF CacheFits

LEMMA MissFits == ASSUME CacheFits, NEW k, Miss(k) PROVE CacheFits'
<1>1. entries' = Without(k) /\ Len(entries) \in Nat /\ Len(Without(k)) \in Nat
  BY WithoutFits DEF Miss, CacheFits
<1> QED
  BY <1>1, WithoutFits, CacheAssumption DEF CacheFits

\* put(k, v) keeps the size, and the place of a key that the map holds.
LEMMA PutFits ==
  ASSUME CacheFits, NEW k, NEW v, Put(k, v),
         [key |-> k, value |-> v, expires |-> now + TtlMs] \in Whole
  PROVE  CacheFits'
<1> DEFINE e == [key |-> k, value |-> v, expires |-> now + TtlMs]
           map == WithEntry(e)
<1>1. e \in Whole /\ e.key = k
  OBVIOUS
<1>2. entries' = IF Len(map) > MaxEntries THEN Tail(map) ELSE map
  BY DEF Put
<1>3. entries \in Seq(Whole) /\ Len(entries) \in Nat /\ DOMAIN entries = 1..Len(entries)
      /\ Distinct(entries) /\ Len(entries) <= MaxEntries
  BY DEF CacheFits
<1> HIDE DEF e
<1>4. map \in Seq(Whole) /\ Distinct(map) /\ Len(map) \in {Len(entries), Len(entries) + 1}
  <2>1. CASE IsFor(k) = {}
    <3>1. Lacks(entries, e.key)
      BY <1>1, <2>1 DEF IsFor, Lacks, Range
    <3>2. map = Append(entries, e)
      BY <1>1, <2>1 DEF WithEntry
    <3> QED
      BY <1>1, <1>3, <3>1, <3>2, AppendedFits
  <2>2. CASE IsFor(k) # {}
    <3>1. map = [i \in DOMAIN entries |-> IF entries[i].key = k THEN e ELSE entries[i]]
      BY <1>1, <2>2 DEF WithEntry
    <3> HIDE DEF map
    <3>2. \A i \in DOMAIN entries : map[i] \in Whole /\ map[i].key = entries[i].key
      BY <1>1, <1>3, <3>1
    <3>3. map \in Seq(Whole) /\ DOMAIN map = DOMAIN entries
      BY <1>3, <3>1, <3>2
    <3>4. Len(map) = Len(entries)
      BY <1>3, <3>3
    <3> QED
      BY <1>3, <3>2, <3>3, <3>4 DEF Distinct
  <2> QED
    BY <2>1, <2>2
<1> HIDE DEF map
<1>5. CASE Len(map) > MaxEntries
  <2>1. map # <<>> /\ Len(map) \in Nat
    BY <1>4, <1>5, CacheAssumption
  <2> DEFINE t == Tail(map)
  <2>2. /\ t \in Seq(Whole) /\ Len(t) = Len(map) - 1
        /\ \A i \in 1..(Len(map) - 1) : t[i] = map[i + 1]
    BY <1>4, <2>1, HeadTailProperties
  <2>3. entries' = t
    BY <1>2, <1>5
  <2> HIDE DEF t
  <2>4. DOMAIN t = 1..(Len(map) - 1) /\ DOMAIN map = 1..Len(map)
    BY <1>4, <2>1, <2>2
  <2>5. Distinct(t)
    <3> SUFFICES ASSUME NEW i \in DOMAIN t, NEW j \in DOMAIN t, t[i].key = t[j].key
                 PROVE  i = j
      BY DEF Distinct
    <3>1. /\ i \in 1..(Len(map) - 1) /\ j \in 1..(Len(map) - 1)
          /\ i + 1 \in DOMAIN map /\ j + 1 \in DOMAIN map
      BY <2>1, <2>4
    <3>2. t[i] = map[i + 1] /\ t[j] = map[j + 1]
      BY <2>2, <3>1
    <3>3. i + 1 = j + 1
      BY <1>4, <3>1, <3>2 DEF Distinct
    <3> QED
      BY <3>1, <3>3
  <2>6. Len(t) <= MaxEntries
    <3>1. Len(map) <= Len(entries) + 1
      BY <1>3, <1>4
    <3>2. Len(t) = Len(map) - 1
      BY <2>2
    <3> QED
      BY <1>3, <2>1, <3>1, <3>2, CacheAssumption
  <2> QED
    BY <2>2, <2>3, <2>5, <2>6 DEF CacheFits
<1>6. CASE ~(Len(map) > MaxEntries)
  BY <1>2, <1>4, <1>6, CacheAssumption DEF CacheFits
<1> QED
  BY <1>5, <1>6
-----------------------------------------------------------------------------
(***************************************************************************)
(* The steps                                                               *)
(***************************************************************************)

LEMMA CacheUntouched ==
  ASSUME CacheInv, UNCHANGED <<entries, ask, stage, reply>>, now' \in Nat,
         phase' \in {"up", "idle", "draining"} \cup Exits
  PROVE  CacheInv'
BY DEF CacheInv, CacheFits, Distinct, CallFits, Rest

\* A handler that goes on to anything but a call.
LEMMA NoCallBegins ==
  ASSUME CacheInv, CountInv, CountInv', NEW r \in Requests, NEW next \in Stages \ {"calling"},
         stage' = [stage EXCEPT ![r] = next],
         \A x \in Requests \ {r} : ask'[x] = ask[x] /\ reply'[x] = reply[x]
  PROVE  CallFits'
<1>1. \A x \in Requests : stage'[x] = IF x = r THEN next ELSE stage[x]
  BY DEF CountInv, CountTypes
<1> QED
  BY <1>1 DEF CacheInv, CallFits

LEMMA DropOncePhase ==
  ASSUME Rest, NEW r, DropOnce(r)
  PROVE  phase' \in {"up", "idle", "draining"} \cup Exits
BY DEF Rest, DropOnce, Exits

LEMMA EmptyReplyType ==
  ASSUME NEW a \in Ask
  PROVE  EmptyReply(a) \in Reply /\ EmptyReply(a).of = a.key /\ EmptyReply(a).offered = a.tools
BY DEF EmptyReply, Reply, Ask, Never

\* The end of a call: its reply goes into the cache if it is text only.
LEMMA KeepFits ==
  ASSUME CacheInv, CountInv, NEW r \in Requests, stage[r] = "calling", Keep(r)
  PROVE  CacheFits'
<1>1. CacheFits /\ ask[r] \in Ask /\ reply[r] \in Reply /\ now \in Nat
      /\ reply[r].of = ask[r].key /\ reply[r].offered = ask[r].tools
  BY DEF CacheInv, CountInv, CountTypes, CallFits, Rest
<1>2. CASE UNCHANGED entries
  BY <1>1, <1>2 DEF CacheFits, Distinct
<1>3. CASE /\ UseCache(r) /\ ~reply[r].tools /\ reply[r].from # {}
           /\ Put(ask[r].key, Ended(r))
  <2> DEFINE v == Ended(r)
             k == ask[r].key
  <2>1. /\ v \in Reply /\ v.of = k /\ v.from # {} /\ ~v.tools /\ ~v.offered /\ v.ended = now
    BY <1>1, <1>3 DEF Ended, Reply, UseCache
  <2>2. k \in Keys
    BY <1>1 DEF Ask
  <2> HIDE DEF v, k
  <2>3. [key |-> k, value |-> v, expires |-> now + TtlMs] \in Whole
    BY <1>1, <2>1, <2>2, CacheAssumption DEF Whole, Entry
  <2> QED
    BY <1>1, <1>3, <2>3, PutFits DEF v, k
<1> QED
  BY <1>2, <1>3 DEF Keep

LEMMA CacheInitially == Init => CacheInv
<1> SUFFICES ASSUME Init PROVE CacheInv
  OBVIOUS
<1>1. CacheFits
  BY CacheAssumption DEF Init, CacheInit, CacheFits, Distinct
<1>2. CallFits
  BY DEF Init, CallFits
<1>3. Rest
  BY NoAskType, EmptyReplyType DEF Init, CacheInit, Rest
<1> QED
  BY <1>1, <1>2, <1>3 DEF CacheInv

LEMMA CacheStep == CacheInv /\ CountInv /\ CountInv' /\ [Next]_vars => CacheInv'
<1> SUFFICES ASSUME CacheInv, CountInv, CountInv', [Next]_vars PROVE CacheInv'
  OBVIOUS
<1>0. /\ CacheFits /\ Rest /\ NoAsk \in Ask
      /\ ask \in [Requests -> Ask] /\ stage \in [Requests -> Stages]
  BY NoAskType DEF CacheInv, CountInv, CountTypes
<1>1. ASSUME NEW r \in Requests, NEW a \in Asks, Arrive(r, a) PROVE CacheInv'
  <2>1. /\ UNCHANGED <<entries, now, reply, phase>>
        /\ \E next \in Stages \ {"calling"} : stage' = [stage EXCEPT ![r] = next]
        /\ ask' = [ask EXCEPT ![r] = a]
    BY <1>1 DEF Arrive, AnswerAtOnce, Open, Stages, cacheVars
  <2>2. CallFits'
    BY <1>0, <2>1, NoCallBegins
  <2> QED
    BY <1>0, <2>1, <2>2 DEF CacheInv, CacheFits, Distinct, Rest
<1>2. ASSUME NEW r \in Requests, RejectBody(r) \/ SendModels(r) PROVE CacheInv'
  <2>1. /\ UNCHANGED <<entries, now, ask, reply, phase>>
        /\ stage' = [stage EXCEPT ![r] = "over"]
    BY <1>2 DEF RejectBody, SendModels, Answer, cacheVars, processVars
  <2>2. CallFits'
    BY <2>1, NoCallBegins DEF Stages
  <2> QED
    BY <1>0, <2>1, <2>2 DEF CacheInv, CacheFits, Distinct, Rest
<1>3. ASSUME NEW r \in Requests, AnswerFromCache(r) PROVE CacheInv'
  <2>1. /\ UNCHANGED <<now, ask, reply, phase>>
        /\ stage' = [stage EXCEPT ![r] = "over"]
        /\ \E e \in Range(entries) : Hit(ask[r].key, e.value)
    BY <1>3 DEF AnswerFromCache, Answer, processVars
  <2>2. CallFits'
    BY <2>1, NoCallBegins DEF Stages
  <2>3. CacheFits'
    BY <1>0, <2>1, HitFits
  <2> QED
    BY <1>0, <2>1, <2>2, <2>3 DEF CacheInv, Rest
<1>4. ASSUME NEW r \in Requests, StartCall(r) PROVE CacheInv'
  <2>1. /\ UNCHANGED <<now, ask, phase>>
        /\ stage' = [stage EXCEPT ![r] = "calling"]
        /\ reply' = [reply EXCEPT ![r] = EmptyReply(ask[r])]
        /\ Miss(ask[r].key) \/ UNCHANGED entries
    BY <1>4 DEF StartCall, processVars
  <2>2. CacheFits'
    BY <1>0, <2>1, MissFits DEF CacheFits, Distinct
  <2>3. /\ EmptyReply(ask[r]) \in Reply
        /\ EmptyReply(ask[r]).of = ask[r].key /\ EmptyReply(ask[r]).offered = ask[r].tools
    BY <1>0, EmptyReplyType
  <2>4. CallFits' /\ Rest'
    BY <1>0, <2>1, <2>3 DEF CacheInv, CallFits, Rest
  <2> QED
    BY <2>2, <2>4 DEF CacheInv
<1>5. ASSUME NEW r \in Requests, Chunk(r) PROVE CacheInv'
  <2>1. /\ UNCHANGED <<entries, now, ask, stage, phase>>
        /\ \/ \E p \in Providers : reply' = [reply EXCEPT ![r].from = @ \cup {p}]
           \/ reply' = [reply EXCEPT ![r].tools = TRUE]
    BY <1>5 DEF Chunk, cacheVars, processVars
  <2>2. reply \in [Requests -> Reply]
    BY <1>0 DEF Rest
  <2>3. /\ reply' \in [Requests -> Reply]
        /\ \A x \in Requests : /\ reply'[x].of = reply[x].of
                                /\ reply'[x].offered = reply[x].offered
    <3>1. reply[r] \in Reply
      BY <2>2
    <3>2. ASSUME NEW p \in Providers
          PROVE  [reply[r] EXCEPT !.from = @ \cup {p}] \in Reply
      BY <3>1 DEF Reply
    <3>3. [reply[r] EXCEPT !.tools = TRUE] \in Reply
      BY <3>1 DEF Reply
    <3>4. PICK q \in Reply : /\ reply' = [reply EXCEPT ![r] = q]
                             /\ q.of = reply[r].of /\ q.offered = reply[r].offered
      <4>1. CASE \E p \in Providers : reply' = [reply EXCEPT ![r].from = @ \cup {p}]
        <5>1. PICK p \in Providers : reply' = [reply EXCEPT ![r].from = @ \cup {p}]
          BY <4>1
        <5> DEFINE q == [reply[r] EXCEPT !.from = @ \cup {p}]
        <5>2. q \in Reply
          BY <3>2
        <5>3. reply' = [reply EXCEPT ![r] = q] /\ q.of = reply[r].of
              /\ q.offered = reply[r].offered
          BY <3>1, <5>1 DEF Reply
        <5> QED
          BY <5>2, <5>3
      <4>2. CASE reply' = [reply EXCEPT ![r].tools = TRUE]
        <5> DEFINE q == [reply[r] EXCEPT !.tools = TRUE]
        <5>1. reply' = [reply EXCEPT ![r] = q] /\ q.of = reply[r].of
              /\ q.offered = reply[r].offered
          BY <3>1, <4>2 DEF Reply
        <5> QED
          BY <3>3, <5>1
      <4> QED
        BY <2>1, <4>1, <4>2
    <3> QED
      BY <2>2, <3>4
  <2> QED
    BY <1>0, <2>1, <2>3 DEF CacheInv, CacheFits, Distinct, CallFits, Rest
<1>6. ASSUME NEW r \in Requests, CallOver(r) PROVE CacheInv'
  <2>1. /\ UNCHANGED <<now, ask, phase>> /\ stage[r] = "calling"
        /\ stage' = [stage EXCEPT ![r] = "over"]
        /\ reply' = [reply EXCEPT ![r] = EmptyReply(NoAsk)]
        /\ Keep(r) \/ UNCHANGED entries
    BY <1>6 DEF CallOver, CallEnds, CallThrows, Answer, Forget, cacheVars, processVars
  <2>2. CallFits'
    BY <1>0, <2>1, NoCallBegins DEF Stages, Rest
  <2>3. CacheFits'
    BY <1>0, <2>1, KeepFits DEF CacheFits, Distinct
  <2>4. Rest'
    BY <1>0, <2>1, EmptyReplyType DEF Rest
  <2> QED
    BY <2>2, <2>3, <2>4 DEF CacheInv
<1>7. ASSUME NEW r \in Requests, Flush(r) \/ Close(r) PROVE CacheInv'
  <2>1. UNCHANGED <<entries, now, ask, stage, reply>> /\ DropOnce(r)
    BY <1>7 DEF Flush, Close, cacheVars
  <2> QED
    BY <1>0, <2>1, DropOncePhase, CacheUntouched DEF Rest
<1>8. CASE Signal
  <2>1. /\ UNCHANGED <<entries, now, ask, reply>>
        /\ phase' \in {"idle", "draining"}
        /\ \A r \in Requests : stage'[r] \in {"refused", stage[r]}
    BY <1>8 DEF Signal, cacheVars
  <2> QED
    BY <1>0, <2>1 DEF CacheInv, CacheFits, Distinct, CallFits, Rest
<1>9. CASE ForceExit \/ Stop \/ GraceOver
  <2>1. UNCHANGED <<entries, now, ask, stage, reply>> /\ phase' \in Exits
    BY <1>9 DEF ForceExit, Stop, GraceOver, ExitAs, Exits, cacheVars, requestVars
  <2> QED
    BY <1>0, <2>1, CacheUntouched DEF Rest
<1>10. CASE ClearCache
  <2>1. entries' = <<>> /\ UNCHANGED <<now, ask, stage, reply, phase>>
    BY <1>10 DEF ClearCache, Clear, requestVars, processVars
  <2> QED
    BY <1>0, <2>1, CacheAssumption DEF CacheInv, CacheFits, Distinct, CallFits, Rest
<1>11. CASE Tick
  <2>1. now' = now + 1 /\ UNCHANGED <<entries, ask, stage, reply, phase>>
    BY <1>11 DEF Tick, requestVars, processVars
  <2> QED
    BY <1>0, <2>1, CacheUntouched DEF Rest
<1>12. CASE UNCHANGED vars
  BY <1>0, <1>12, CacheUntouched DEF vars, cacheVars, requestVars, processVars, Rest
<1> QED
  BY <1>1, <1>2, <1>3, <1>4, <1>5, <1>6, <1>7, <1>8, <1>9, <1>10, <1>11, <1>12
  DEF Next, ReadBody

LEMMA CacheInvariant == Spec => [](CacheInv /\ CountInv)
<1> QED
  BY CacheInitially, CacheStep, CountInit, CountStep, PTL DEF Spec
-----------------------------------------------------------------------------
\* The variables keep their types, and the cache its bound, whatever the order in
\* which requests come, go and are answered.
THEOREM TypesKept == Spec => []ProxyTypeOK
<1>1. CacheInv /\ CountInv => ProxyTypeOK
  <2> SUFFICES ASSUME CacheInv, CountInv PROVE ProxyTypeOK
    OBVIOUS
  <2>1. Whole \subseteq Entry(Reply)
    BY DEF Whole
  <2>2. entries \in Seq(Entry(Reply))
    BY <2>1 DEF CacheInv, CacheFits
  <2>3. CacheTypeOK(Reply)
    BY <2>2 DEF CacheInv, CacheFits, Distinct, Rest, CacheTypeOK
  <2> QED
    BY <2>3 DEF CacheInv, Rest, CountInv, CountTypes, ProxyTypeOK
<1> QED
  BY <1>1, CacheInvariant, PTL

\* Only whole answers to the same question are ever in the cache.
THEOREM OnlyWholeAnswersKept == Spec => []CacheHoldsWholeAnswers
<1>1. CacheInv => CacheHoldsWholeAnswers
  <2> SUFFICES ASSUME CacheInv, NEW e \in Range(entries)
               PROVE  /\ e.value.of = e.key
                      /\ e.value.from # {} /\ ~e.value.tools /\ ~e.value.offered
                      /\ e.value.ended # Never
    BY DEF CacheHoldsWholeAnswers
  <2>1. e \in Whole
    BY DEF CacheInv, CacheFits, Range
  <2> QED
    BY <2>1 DEF Whole, Never
<1> QED
  BY <1>1, CacheInvariant, PTL

\* No answer from the cache is older than a lifetime.
THEOREM AnswersAreFresh == Spec => NoStaleAnswer
<1>1. CacheInv /\ CacheInv' => NoStaleAnswerStep
  <2> SUFFICES ASSUME CacheInv, CacheInv', NEW r \in Requests, AnswerFromCache(r)
               PROVE  now - Last(entries').value.ended <= TtlMs
    BY DEF NoStaleAnswerStep
  <2> DEFINE e == Last(entries')
  <2>1. CacheFits /\ \E v : Hit(ask[r].key, v)
    BY DEF CacheInv, AnswerFromCache
  <2>2. e \in Whole /\ e.expires >= now
    BY <2>1, HitFits
  <2> HIDE DEF e
  <2>3. /\ e.expires = e.value.ended + TtlMs /\ e.value.ended \in Nat
        /\ now \in Nat /\ TtlMs \in Nat
    BY <2>2, CacheAssumption DEF Whole, CacheInv, Rest
  <2>4. now - e.value.ended <= TtlMs
    BY <2>2, <2>3
  <2> QED
    BY <2>4 DEF e
<1> QED
  BY <1>1, CacheInvariant, PTL DEF NoStaleAnswer
=============================================================================
