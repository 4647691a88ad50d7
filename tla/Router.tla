------------------------------- MODULE Router -------------------------------
(***************************************************************************)
(* streamChat() of src/core/router.js and the state it shares between      *)
(* calls: the slot gate (as FifoLock, which SlotGate implements), the      *)
(* circuit breaker, the metrics, and the registry with its failover order. *)
(*                                                                         *)
(* A call is an async generator.  Between two actions of one call the      *)
(* others may run: the code awaits the gate, the upstream and the back-off *)
(* sleep, and it is suspended at each yield until its consumer pulls again *)
(* or returns.  Upstream providers may deliver, end or throw at any time.  *)
(***************************************************************************)
EXTENDS FifoLock, CircuitBreaker, ProviderMetrics

CONSTANTS Asks,           \* what callers ask for, see Ask
          Ttfbs,          \* the times to first byte upstreams show
          MaxQueueDepth,  \* the gate refuses a call beyond this
          NoticeWindow,   \* content chunks checked for a notice (6)
          NoticeTries,    \* MAX_NOTICE_RETRIES
          TransientTries, \* MAX_TRANSIENT_RETRIES
          ToolIds,        \* the built-in providers that support tools
          Registrations,  \* the registerProvider() calls, see Registration
          Orders,         \* the lists passed to setFailoverOrder()
          MaxChunks,      \* bound: content chunks of one upstream call
          MaxTime,        \* bound: the clock stops here
          MaxChanges      \* bound: registry changes

AutoId == "auto"

Requests == Callers

\* The arguments of streamChat() the control flow depends on.
Ask == [provider : Ids \cup {AutoId}, tools : BOOLEAN, verbose : BOOLEAN]

Running == {"granted", "choosing", "calling", "yielded", "backoff"}

Settled == {"done", "failed", "cancelled"}

Stages == {"new", "queued"} \cup Running \cup Settled

Modules == {"absent", "plain", "tools"}

Registration == [id : Ids, capability : Modules \ {"absent"},
                 prepend : BOOLEAN, addToFailover : BOOLEAN]

NoAsk == [provider |-> AutoId, tools |-> FALSE, verbose |-> FALSE]

ASSUME RouterAssumption ==
    /\ IsFiniteSet(Ids)
    /\ Asks \subseteq Ask
    /\ Ttfbs \subseteq Nat
    /\ ToolIds \subseteq Ids
    /\ Registrations \subseteq Registration
    /\ Orders \subseteq Seq(Ids)
    /\ {MaxQueueDepth, NoticeWindow, MaxChunks, MaxTime, MaxChanges} \subseteq Nat
    /\ {NoticeTries, TransientTries} \subseteq Nat \ {0}

VARIABLES installed,  \* PROVIDERS: the module behind an id, by capability
          order,      \* FAILOVER_ORDER
          changes,    \* registry changes made so far
          stage,      \* where each call stands
          frame       \* the local variables of each call

registryVars == <<installed, order, changes>>
vars == <<owner, line, fails, openedAt, now, stats, installed, order, changes,
          stage, frame>>

Frame == [ask     : Ask,
          ranked  : Seq(Ids),            \* candidates not tried yet
          at      : Ids \cup {AutoId},   \* the provider being called
          known   : BOOLEAN,             \* p, the module behind at, exists
          live    : BOOLEAN,             \* FALSE: the call can only throw
          attempt : Nat,
          heard   : Nat,                 \* chunks.length of this attempt
          noticed : BOOLEAN,             \* those chunks look like a notice
          emitted : BOOLEAN,             \* this attempt delivered something
          ttfb    : Nat \cup {Never},    \* ttfbMs, Never for null
          aborted : BOOLEAN,             \* signal.aborted
          last    : Ids \cup {AutoId},   \* whose chunk was delivered last
          stale   : BOOLEAN]             \* the registry changed under the call

EmptyFrame == [ask |-> NoAsk, ranked |-> <<>>, at |-> AutoId, known |-> FALSE,
               live |-> FALSE, attempt |-> 0, heard |-> 0, noticed |-> FALSE,
               emitted |-> FALSE, ttfb |-> Never, aborted |-> FALSE, last |-> AutoId,
               stale |-> FALSE]

RouterTypeOK == /\ owner \in Requests \cup {NoOne} /\ line \in Seq(Requests)
                /\ BreakerTypeOK
                /\ MetricsTypeOK
                /\ installed \in [Ids -> Modules]
                /\ order \in Seq(Ids)
                /\ stage \in [Requests -> Stages]
                /\ frame \in [Requests -> Frame]

Init == /\ LockInit
        /\ BreakerInit
        /\ now = 0
        /\ MetricsInit
        /\ installed = [p \in Ids |-> IF p \in ToolIds THEN "tools" ELSE "plain"]
        /\ order = SetToSeq(Ids)
        /\ changes = 0
        /\ stage = [r \in Requests |-> "new"]
        /\ frame = [r \in Requests |-> EmptyFrame]
-----------------------------------------------------------------------------
(***************************************************************************)
(* Entering and leaving the gate                                           *)
(***************************************************************************)

\* A call is made; acquire() grants, queues or refuses it.
Arrive(r, ask) ==
    /\ stage[r] = "new"
    /\ frame' = [frame EXCEPT ![r].ask = ask]
    /\ \/ Enter(r) /\ stage' = [stage EXCEPT ![r] = "granted"]
       \/ /\ Len(line) < MaxQueueDepth
          /\ Join(r)
          /\ stage' = [stage EXCEPT ![r] = "queued"]
       \/ /\ owner # NoOne
          /\ Len(line) >= MaxQueueDepth
          /\ stage' = [stage EXCEPT ![r] = "failed"]
          /\ UNCHANGED lockVars
    /\ UNCHANGED <<breakerVars, now, stats, registryVars>>

\* stage' when the callers in dropped are rejected by the gate, next is
\* granted, and r ends with the given outcome.
StagesAfter(r, outcome, dropped, next) ==
    [x \in Requests |-> IF x = r THEN outcome
                        ELSE IF x \in dropped THEN "failed"
                        ELSE IF x \in next THEN "granted"
                        ELSE stage[x]]

\* Mutant: the slot is freed under the callers that wait for it.
HandOverFrees(r, outcome) ==
    /\ owner' = NoOne
    /\ stage' = [stage EXCEPT ![r] = outcome]
    /\ UNCHANGED line

\* Mutant: the generator ends without release().
HandOverLeak(r, outcome) ==
    /\ UNCHANGED lockVars
    /\ stage' = [stage EXCEPT ![r] = outcome]

HandOver(r, outcome) ==
    \/ \E k \in DOMAIN line :
          /\ PassTo(k)
          /\ stage' = StagesAfter(r, outcome, Range(SubSeq(line, 1, k - 1)), {line[k]})
    \/ /\ Free
       /\ stage' = StagesAfter(r, outcome, Range(line), {})

\* The finally block of streamChat(): the generator ends, with its variables,
\* and the slot moves on.  The callers ahead of the next owner waited beyond the
\* gate's deadline.
Settle(r, outcome) ==
    /\ frame' = [frame EXCEPT ![r] = EmptyFrame]
    /\ HandOver(r, outcome)

GoTo(r, next) == /\ stage' = [stage EXCEPT ![r] = next]
                 /\ UNCHANGED lockVars
-----------------------------------------------------------------------------
(***************************************************************************)
(* Choosing a provider                                                     *)
(***************************************************************************)

SupportsTools(p) == installed[p] = "tools"

Pinned(r) == frame[r].ask.provider # AutoId

\* Mutant: emitted is declared outside the loop over the candidates.
CalledStillEmitted(f, p, known) == [f EXCEPT !.at = p,
                                             !.known = known,
                                             !.live = known /\ ~f.aborted,
                                             !.heard = 0,
                                             !.noticed = FALSE,
                                             !.ttfb = Never]

\* An attempt at p begins.  Called with a signal that is already aborted, or by
\* an id nobody registered, it can only throw.
Called(f, p, known) == [f EXCEPT !.at = p,
                                 !.known = known,
                                 !.live = known /\ ~f.aborted,
                                 !.heard = 0,
                                 !.noticed = FALSE,
                                 !.emitted = FALSE,
                                 !.ttfb = Never]

\* A pinned call: no ranking, no breaker, no metrics.
BeginPinned(r) ==
    /\ stage[r] = "granted"
    /\ Pinned(r)
    /\ LET p == frame[r].ask.provider IN
       \/ /\ \/ frame[r].ask.tools /\ ~SupportsTools(p)
             \/ installed[p] = "absent"
          /\ Settle(r, "failed")
       \/ /\ frame[r].ask.tools => SupportsTools(p)
          /\ installed[p] # "absent"
          /\ GoTo(r, "calling")
          /\ frame' = [frame EXCEPT ![r] = [Called(@, p, TRUE) EXCEPT !.attempt = 1]]
    /\ UNCHANGED <<breakerVars, now, stats, registryVars>>

\* Mutant: every provider is a candidate for a tool request.
CandidatesUnfiltered(ask) == order

KeepIfTools(kept, p) == IF SupportsTools(p) THEN Append(kept, p) ELSE kept

\* order, or for a tool request what filter() leaves of it.
Candidates(ask) == IF ask.tools THEN FoldLeft(KeepIfTools, <<>>, order) ELSE order

\* An auto call: filter by capability, then rank a snapshot of the order.
BeginAuto(r) ==
    /\ stage[r] = "granted"
    /\ ~Pinned(r)
    /\ LET candidates == Candidates(frame[r].ask) IN
       \/ /\ frame[r].ask.tools /\ candidates = <<>>
          /\ Settle(r, "failed")
       \/ /\ frame[r].ask.tools => candidates # <<>>
          /\ GoTo(r, "choosing")
          /\ frame' = [frame EXCEPT ![r].ranked = Rank(candidates),
                                    ![r].stale = FALSE]
    /\ UNCHANGED <<breakerVars, now, stats, registryVars>>

\* No candidate is left: throw the last error.
GiveUp(r) == /\ stage[r] = "choosing"
             /\ frame[r].ranked = <<>>
             /\ Settle(r, "failed")
             /\ UNCHANGED <<breakerVars, now, stats, registryVars>>

\* The head of the loop: an open circuit is skipped.  Naming the label of a
\* provider unregistered meanwhile throws out of the loop.
SkipOpen(r) ==
    /\ stage[r] = "choosing"
    /\ frame[r].ranked # <<>>
    /\ IsOpen(Head(frame[r].ranked))
    /\ IF frame[r].ask.verbose /\ installed[Head(frame[r].ranked)] = "absent"
       THEN Settle(r, "failed")
       ELSE /\ frame' = [frame EXCEPT ![r].ranked = Tail(@)]
            /\ UNCHANGED <<stage, lockVars>>
    /\ UNCHANGED <<breakerVars, now, stats, registryVars>>

\* Otherwise the candidate is called; isOpen() closes a cooled-off circuit.
TryNext(r) ==
    /\ stage[r] = "choosing"
    /\ LET f == frame[r] IN
       /\ f.ranked # <<>>
       /\ ~IsOpen(Head(f.ranked))
       /\ CheckOpen(Head(f.ranked))
       /\ frame' = [frame EXCEPT ![r] =
                       Called([f EXCEPT !.ranked = Tail(@)], Head(f.ranked),
                              installed[Head(f.ranked)] # "absent")]
    /\ GoTo(r, "calling")
    /\ UNCHANGED <<now, stats, registryVars>>
-----------------------------------------------------------------------------
(***************************************************************************)
(* What becomes of an upstream call                                        *)
(***************************************************************************)

\* Mutant: the catch block rethrows instead of going on to the next candidate.
ChargeAndRethrow(r) ==
    /\ Fail(frame[r].at)
    /\ RecordFailure(frame[r].at)
    /\ HandOver(r, "failed")

\* Auto: the attempt failed; charge the provider and go on to the next one.
ChargeFailure(r) ==
    /\ Fail(frame[r].at)
    /\ RecordFailure(frame[r].at)
    /\ GoTo(r, "choosing")

\* Pinned: try the same provider again after a pause, if the budget allows.
RetryPinned(r, tries) == /\ ~frame[r].aborted
                         /\ frame[r].attempt < tries
                         /\ GoTo(r, "backoff")
                         /\ UNCHANGED <<breakerVars, stats>>

FailPinned(r) == Settle(r, "failed") /\ UNCHANGED <<breakerVars, stats>>

\* The catch block of an auto call reports by the provider's label: for a provider
\* unregistered before its turn that is a TypeError, which leaves the loop.
ReportThrows(r) == ~frame[r].known /\ frame[r].ask.verbose

\* The upstream throws: at the call, between chunks, or after any of them.
\* Only messages that look transient are worth a retry.
UpstreamThrows(r, retryable) ==
    /\ stage[r] = "calling"
    /\ \/ /\ ~Pinned(r) /\ ~ReportThrows(r)
          /\ ChargeFailure(r)
          /\ UNCHANGED frame
       \/ /\ ~Pinned(r) /\ ReportThrows(r)
          /\ Fail(frame[r].at)
          /\ RecordFailure(frame[r].at)
          /\ Settle(r, "failed")
       \/ /\ Pinned(r) /\ retryable
          /\ RetryPinned(r, TransientTries)
          /\ UNCHANGED frame
       \/ /\ Pinned(r)
          /\ \/ ~retryable
             \/ frame[r].aborted
             \/ frame[r].attempt >= TransientTries
          /\ FailPinned(r)
    /\ UNCHANGED <<now, registryVars>>

\* The upstream ends.  Auto: a success if anything was delivered, a failure if
\* not; a first chunk that is reasoning leaves no time to first byte to record.
UpstreamEnds(r) ==
    /\ stage[r] = "calling"
    /\ frame[r].live
    /\ \/ /\ Pinned(r)
          /\ Settle(r, "done")
          /\ UNCHANGED <<breakerVars, stats>>
       \/ /\ ~Pinned(r) /\ frame[r].emitted
          /\ Succeed(frame[r].at)
          /\ IF frame[r].ttfb = Never THEN UNCHANGED stats
             ELSE RecordSuccess(frame[r].at, frame[r].ttfb)
          /\ Settle(r, "done")
       \/ /\ ~Pinned(r) /\ ~frame[r].emitted
          /\ ChargeFailure(r)
          /\ UNCHANGED frame
    /\ UNCHANGED <<now, registryVars>>

\* A chunk passes on to the consumer, where the generator is suspended.
Delivered(f, ttfb) ==
    [f EXCEPT !.emitted = TRUE,
              !.ttfb = IF f.emitted \/ f.ask.provider # AutoId THEN @ ELSE ttfb,
              !.last = f.at]

\* A reasoning or tool-call chunk is passed on unchecked; the first chunk of an
\* attempt sets the time to first byte unless it is reasoning.
OtherChunk(r, ttfb) ==
    /\ stage[r] = "calling"
    /\ frame[r].live
    /\ frame' = [frame EXCEPT ![r] = Delivered(@, ttfb)]
    /\ GoTo(r, "yielded")
    /\ UNCHANGED <<breakerVars, now, stats, registryVars>>

\* The frame once a content chunk was added to chunks[].  The first few are
\* tested, joined; looks is what looksLikeNotice() says, and any chunk may be the
\* one that makes it say so.
Heard(f, looks) == [f EXCEPT !.heard = @ + 1,
                             !.noticed = looks /\ f.heard + 1 <= NoticeWindow]

\* A content chunk is tested, then passed on.  A notice ends the attempt; what
\* was passed on before it stays delivered.
ContentChunk(r, looks, ttfb) ==
    /\ stage[r] = "calling"
    /\ frame[r].live
    /\ frame[r].heard < MaxChunks
    /\ LET f == Heard(frame[r], looks) IN
       \/ /\ ~f.noticed
          /\ frame' = [frame EXCEPT ![r] = Delivered(f, ttfb)]
          /\ GoTo(r, "yielded")
          /\ UNCHANGED <<breakerVars, stats>>
       \/ /\ f.noticed /\ ~Pinned(r)
          /\ frame' = [frame EXCEPT ![r] = f]
          /\ ChargeFailure(r)
       \/ /\ f.noticed /\ Pinned(r)
          /\ frame' = [frame EXCEPT ![r] = f]
          /\ RetryPinned(r, NoticeTries)
       \/ /\ f.noticed /\ Pinned(r)
          /\ f.aborted \/ f.attempt >= NoticeTries
          /\ FailPinned(r)
    /\ UNCHANGED <<now, registryVars>>

\* The pause of a pinned retry ends; the signal is not looked at meanwhile.
Retry(r) == /\ stage[r] = "backoff"
            /\ LET f == frame[r] IN
               frame' = [frame EXCEPT ![r] =
                            [Called(f, f.at, TRUE) EXCEPT !.attempt = f.attempt + 1]]
            /\ GoTo(r, "calling")
            /\ UNCHANGED <<breakerVars, now, stats, registryVars>>
-----------------------------------------------------------------------------
(***************************************************************************)
(* The consumer                                                            *)
(***************************************************************************)

\* The consumer asks for the next chunk.
Pull(r) == /\ stage[r] = "yielded"
           /\ GoTo(r, "calling")
           /\ UNCHANGED <<frame, breakerVars, now, stats, registryVars>>

\* The consumer leaves its loop: return() runs the finally blocks.
Cancel(r) == /\ stage[r] = "yielded"
             /\ Settle(r, "cancelled")
             /\ UNCHANGED <<breakerVars, now, stats, registryVars>>

\* The consumer aborts its signal.  Nothing reacts but the upstream fetch: a
\* call in the queue keeps its place.
Abort(r) == /\ stage[r] \in Running \cup {"queued"}
            /\ ~frame[r].aborted
            /\ frame' = [frame EXCEPT ![r].aborted = TRUE]
            /\ UNCHANGED <<stage, lockVars, breakerVars, now, stats, registryVars>>
-----------------------------------------------------------------------------
(***************************************************************************)
(* The registry, open to the program at any time                           *)
(***************************************************************************)

\* Calls that hold a ranked snapshot now hold an outdated one.
RegistryChanged ==
    /\ changes < MaxChanges
    /\ changes' = changes + 1
    /\ frame' = [r \in Requests |->
                   IF stage[r] \in {"choosing", "calling", "yielded"}
                   THEN [frame[r] EXCEPT !.stale = TRUE] ELSE frame[r]]
    /\ UNCHANGED <<lockVars, breakerVars, now, stats, stage>>

\* order without the first occurrence of p, as indexOf and splice leave it
Without(p) == IF p \in Range(order) THEN RemoveFirst(order, p) ELSE order

\* registerProvider(): install or replace, then move to the front or the back.
RegisterProvider(g) ==
    /\ installed' = [installed EXCEPT ![g.id] = g.capability]
    /\ order' = IF ~g.addToFailover THEN order
                ELSE IF g.prepend THEN <<g.id>> \o Without(g.id)
                ELSE Append(Without(g.id), g.id)
    /\ RegistryChanged

UnregisterProvider(p) ==
    /\ installed[p] # "absent"
    /\ installed' = [installed EXCEPT ![p] = "absent"]
    /\ order' = Without(p)
    /\ RegistryChanged

\* setFailoverOrder(ids): every id must be installed; repeats are accepted.
SetFailoverOrder(ids) ==
    /\ \A p \in Range(ids) : installed[p] # "absent"
    /\ order' = ids
    /\ UNCHANGED installed
    /\ RegistryChanged

ChangeRegistry == \/ \E g \in Registrations : RegisterProvider(g)
                  \/ \E p \in Ids : UnregisterProvider(p)
                  \/ \E ids \in Orders : SetFailoverOrder(ids)
-----------------------------------------------------------------------------
Tick == /\ now < MaxTime
        /\ now' = now + 1
        /\ UNCHANGED <<lockVars, breakerVars, stats, registryVars, stage, frame>>

\* The steps the router takes of itself.
RouterStep(r) == BeginPinned(r) \/ BeginAuto(r) \/ GiveUp(r) \/ SkipOpen(r) \/ TryNext(r)
                    \/ Retry(r)

\* The steps of the upstream.
Chunk(r) == \E ttfb \in Ttfbs : \/ OtherChunk(r, ttfb) \/ OtherChunk(r, Never)
                               \/ \E looks \in BOOLEAN : ContentChunk(r, looks, ttfb)

Finish(r) == UpstreamEnds(r) \/ \E retryable \in BOOLEAN : UpstreamThrows(r, retryable)

Next == \/ \E r \in Requests : \/ \E ask \in Asks : Arrive(r, ask)
                              \/ RouterStep(r) \/ Chunk(r) \/ Finish(r)
                              \/ Pull(r) \/ Cancel(r) \/ Abort(r)
        \/ ChangeRegistry
        \/ Tick

Spec == Init /\ [][Next]_vars

\* The router's own steps run when they can; consumers keep pulling; no upstream
\* call goes on for ever, since the providers' streams have a deadline.
FairSpec == /\ Spec
            /\ \A r \in Requests : /\ WF_vars(RouterStep(r))
                                   /\ WF_vars(Pull(r))
                                   /\ SF_vars(Finish(r))
-----------------------------------------------------------------------------
(***************************************************************************)
(* What the router must guarantee                                          *)
(***************************************************************************)

\* The gate and the calls agree at every moment: the owner is the one call that
\* runs, so upstreams are called one at a time ("serializes calls through a
\* single-flight queue", README.md:142); every way a call can end gives the slot
\* back, and the line holds exactly the calls that wait for it.
SlotHeldWhileRunning ==
    \A r \in Requests : /\ owner = r <=> stage[r] \in Running
                        /\ r \in Range(line) <=> stage[r] = "queued"

\* The breaker under this caller: since an open circuit is not called and calls
\* are serialized, a count never passes the threshold, and a circuit is open
\* exactly at the threshold, although fail() and isOpen() allow more.
BreakerNeverOvershoots ==
    \A p \in Ids : /\ fails[p] <= Threshold
                   /\ openedAt[p] # Never <=> fails[p] = Threshold

\* "a tool request never silently degrades to a provider that would just emit
\* free-form text" (router.js:48-49), unless the provider was replaced between
\* the ranking of the candidates and its turn.
ToolsNeverDegradeStep ==
    \A r \in Requests :
        /\ stage[r] \in {"granted", "choosing"}
        /\ stage'[r] = "calling"
        /\ frame[r].ask.tools
        /\ frame'[r].live
        => \/ installed[frame'[r].at] = "tools"
           \/ frame[r].stale

ToolsNeverDegrade == [][ToolsNeverDegradeStep]_vars

\* An auto call succeeds only on the provider whose chunk the consumer received
\* last: what an earlier, failed provider delivered never turns an empty answer
\* into a success credited to another provider.
SuccessMeansDeliveryStep ==
    \A r \in Requests :
        stage[r] = "calling" /\ stage'[r] = "done" /\ ~Pinned(r) =>
            frame[r].last = frame[r].at

SuccessMeansDelivery == [][SuccessMeansDeliveryStep]_vars

\* An auto call that began fails only after every ranked candidate was tried or
\* skipped as open, whatever its consumer and the other calls do.  Only a change
\* of the registry under it can end it sooner, or a provider it was called with:
\* one whose id setFailoverOrder() was given twice, of which unregisterProvider()
\* takes one out of the order (router.js:132-133).
FailureMeansExhaustionStep ==
    \A r \in Requests :
        stage[r] \in {"choosing", "calling"} /\ stage'[r] = "failed" /\ ~Pinned(r) =>
            \/ frame[r].ranked = <<>>
            \/ frame[r].stale
            \/ \E p \in Range(order) : installed[p] = "absent"

FailureMeansExhaustion == [][FailureMeansExhaustionStep]_vars

\* Every call that arrives comes to an end, and with it its place in the gate.
EveryCallSettles ==
    \A r \in Requests : stage[r] # "new" ~> stage[r] \in Settled

\* "opens the circuit for a cool-off period when a provider is unambiguously
\* broken" (circuit.js:2-3): never by an attempt made with a signal its consumer
\* had aborted, for which the provider is not even contacted.  The code charges
\* such a call to every candidate; the run shows it.
AbortOpensNoCircuitStep ==
    \A p \in Ids : openedAt[p] = Never /\ openedAt'[p] # Never =>
                      frame[owner].live \/ ~frame[owner].known

AbortOpensNoCircuit == [][AbortOpensNoCircuitStep]_vars

\* "buffers the first few chunks and runs looksLikeNotice() on them. On match, it
\* aborts and retries" (notices.js:9-10): no chunk of a reply found to be a notice
\* within those first chunks was delivered.  The run shows it fails.
NoticeNeverDelivered == \A r \in Requests : frame[r].noticed => frame[r].heard = 1
=============================================================================
