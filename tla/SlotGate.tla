------------------------------ MODULE SlotGate ------------------------------
(***************************************************************************)
(* The SlotGate of src/core/queue.js: acquire() takes the slot or queues,  *)
(* release() hands it to the oldest waiter whose deadline has not passed.  *)
(* Two clocks reject a waiter: the setTimeout of an acquire that named a   *)
(* timeout, and the deadline test release() makes of every entry.          *)
(*                                                                         *)
(* JavaScript runs one callback at a time, so every operation is atomic;   *)
(* what interleaves is the callers, the timer callbacks and the clock.  A  *)
(* resolved waiter runs later, as a microtask: it is "handed" until then.  *)
(***************************************************************************)
EXTENDS Naturals, SequencesExt

CONSTANTS Callers,        \* the concurrent calls of acquire()
          MaxQueueDepth,  \* options.maxQueueDepth
          DefaultTimeout, \* options.defaultTimeoutMs
          Timeouts,       \* the timeoutMs values callers pass; 0 is "none given"
          NoOne,          \* the abstract owner of a free slot
          TimerSlack,     \* how late the event loop may run a due timer
          MaxTime,        \* bound: the clock stops here
          MaxEntries      \* bound: queue entries ever made

ASSUME SlotGateAssumption ==
    /\ NoOne \notin Callers
    /\ MaxQueueDepth \in Nat
    /\ DefaultTimeout \in Nat \ {0}
    /\ Timeouts \subseteq Nat
    /\ TimerSlack \in Nat
    /\ MaxTime \in Nat
    /\ MaxEntries \in Nat

VARIABLES inflight,   \* this.inflight
          waiting,    \* this.waiting: entries, the oldest first
          timers,     \* the armed setTimeout callbacks
          pc,         \* where each caller stands
          now,        \* Date.now()
          entries     \* entries made so far: the identity of the next one

vars == <<inflight, waiting, timers, pc, now, entries>>

\* A queue entry, its resolve/reject pair named by the caller that awaits it.
Entry == [id : Nat, who : Callers, deadline : Nat, timed : BOOLEAN]

Timer == [id : Nat, due : Nat]

Stages == {"idle", "waiting", "handed", "holding", "refused"}

\* The types of the variables, and the class comment's "Bounded queue"
\* (queue.js:13): no interleaving queues more than maxQueueDepth entries.
TypeOK == /\ inflight \in BOOLEAN
          /\ waiting \in Seq(Entry)
          /\ Len(waiting) <= MaxQueueDepth
          /\ timers \in SUBSET Timer
          /\ pc \in [Callers -> Stages]
          /\ now \in Nat
          /\ entries \in Nat

Init == /\ inflight = FALSE
        /\ waiting = <<>>
        /\ timers = {}
        /\ pc = [c \in Callers |-> "idle"]
        /\ now = 0
        /\ entries = 0
-----------------------------------------------------------------------------
(***************************************************************************)
(* acquire()                                                               *)
(***************************************************************************)

CanCall(c) == pc[c] \in {"idle", "refused"}

\* Mutant: > for >= in the depth test.
HasRoomOffByOne == Len(waiting) <= MaxQueueDepth

HasRoom == Len(waiting) < MaxQueueDepth

\* The slot is free: take it at once.
AcquireFree(c) == /\ CanCall(c)
                  /\ ~inflight
                  /\ inflight' = TRUE
                  /\ pc' = [pc EXCEPT ![c] = "holding"]
                  /\ UNCHANGED <<waiting, timers, now, entries>>

\* The queue is full: throw.
AcquireRefused(c) == /\ CanCall(c)
                     /\ inflight
                     /\ ~HasRoom
                     /\ pc' = [pc EXCEPT ![c] = "refused"]
                     /\ UNCHANGED <<inflight, waiting, timers, now, entries>>

\* timeoutMs || this.defaultTimeoutMs
Deadline(timeout) == now + IF timeout = 0 THEN DefaultTimeout ELSE timeout

\* Mutant: no timer, the deadline is left to release().
ArmedNever(timeout) == {}

\* Only an acquire that names a timeout arms a timer; nothing ever clears it.
Armed(timeout) ==
    IF timeout = 0 THEN {} ELSE {[id |-> entries, due |-> now + timeout]}

\* Queue an entry and wait.
AcquireQueued(c, timeout) ==
    /\ CanCall(c)
    /\ inflight
    /\ HasRoom
    /\ entries < MaxEntries
    /\ waiting' = Append(waiting, [id |-> entries, who |-> c,
                                   deadline |-> Deadline(timeout),
                                   timed |-> timeout # 0])
    /\ timers' = timers \cup Armed(timeout)
    /\ entries' = entries + 1
    /\ pc' = [pc EXCEPT ![c] = "waiting"]
    /\ UNCHANGED <<inflight, now>>

\* The continuation of a resolved acquire runs: the caller gets release().
Resume(c) == /\ pc[c] = "handed"
             /\ pc' = [pc EXCEPT ![c] = "holding"]
             /\ UNCHANGED <<inflight, waiting, timers, now, entries>>
-----------------------------------------------------------------------------
(***************************************************************************)
(* The timer callback.  It looks its own entry up by identity: when the    *)
(* entry was granted or rejected meanwhile, indexOf finds nothing.         *)
(***************************************************************************)

\* Mutant: the callback shifts the queue instead of looking its entry up.
PlaceOfOldest(t) == DOMAIN waiting \cap {1}

PlaceOf(t) == {i \in DOMAIN waiting : waiting[i].id = t.id}

\* Mutant: the callback rejects but leaves the entry queued.
FireTimerNoSplice(t) ==
    /\ t.due <= now
    /\ timers' = timers \ {t}
    /\ pc' = [c \in Callers |-> IF \E i \in PlaceOf(t) : waiting[i].who = c
                               THEN "refused" ELSE pc[c]]
    /\ UNCHANGED <<inflight, waiting, now, entries>>

FireTimer(t) ==
    /\ t.due <= now
    /\ timers' = timers \ {t}
    /\ \/ /\ PlaceOf(t) = {}
          /\ UNCHANGED <<waiting, pc>>
       \/ \E i \in PlaceOf(t) :
             /\ waiting' = RemoveAt(waiting, i)
             /\ pc' = [pc EXCEPT ![waiting[i].who] = "refused"]
    /\ UNCHANGED <<inflight, now, entries>>
-----------------------------------------------------------------------------
(***************************************************************************)
(* release(): shift entries, rejecting those past their deadline, until    *)
(* one can be resolved; free the slot when none is left.                   *)
(***************************************************************************)

Late(i) == now > waiting[i].deadline

\* The callers of the entries at the places in S.
WaitersAt(S) == {waiting[i].who : i \in S}

\* Mutant: the loop resolves a waiter but goes on to clear the flag.
ReleaseToAndFree(c, k) ==
    /\ pc[c] = "holding"
    /\ k = 1
    /\ inflight' = FALSE
    /\ waiting' = Tail(waiting)
    /\ pc' = [pc EXCEPT ![c] = "idle", ![waiting[k].who] = "handed"]
    /\ UNCHANGED <<timers, now, entries>>

\* Mutant: pop() for shift(), the newest waiter is served first.
ReleaseToNewest(c, k) ==
    /\ pc[c] = "holding"
    /\ k = Len(waiting)
    /\ waiting' = RemoveAt(waiting, k)
    /\ pc' = [pc EXCEPT ![c] = "idle", ![waiting[k].who] = "handed"]
    /\ UNCHANGED <<inflight, timers, now, entries>>

\* The loop stops at place k, the first entry that is not late.
ReleaseTo(c, k) ==
    /\ pc[c] = "holding"
    /\ ~Late(k)
    /\ \A i \in 1 .. k - 1 : Late(i)
    /\ waiting' = SubSeq(waiting, k + 1, Len(waiting))
    /\ pc' = [x \in Callers |->
                IF x = c THEN "idle"
                ELSE IF x = waiting[k].who THEN "handed"
                ELSE IF x \in WaitersAt(1 .. k - 1) THEN "refused"
                ELSE pc[x]]
    /\ UNCHANGED <<inflight, timers, now, entries>>

\* Mutant: the flag is cleared only when somebody was waiting.
ReleaseFreeStuck(c) ==
    /\ pc[c] = "holding"
    /\ waiting = <<>>
    /\ pc' = [pc EXCEPT ![c] = "idle"]
    /\ UNCHANGED <<inflight, waiting, timers, now, entries>>

\* Mutant: late entries are dropped without a reject.
ReleaseFreeSilently(c) ==
    /\ pc[c] = "holding"
    /\ \A i \in DOMAIN waiting : Late(i)
    /\ waiting' = <<>>
    /\ inflight' = FALSE
    /\ pc' = [pc EXCEPT ![c] = "idle"]
    /\ UNCHANGED <<timers, now, entries>>

\* The loop empties the queue.
ReleaseFree(c) ==
    /\ pc[c] = "holding"
    /\ \A i \in DOMAIN waiting : Late(i)
    /\ waiting' = <<>>
    /\ inflight' = FALSE
    /\ pc' = [x \in Callers |->
                IF x = c THEN "idle"
                ELSE IF x \in WaitersAt(DOMAIN waiting) THEN "refused"
                ELSE pc[x]]
    /\ UNCHANGED <<timers, now, entries>>

Release(c) == ReleaseFree(c) \/ \E k \in DOMAIN waiting : ReleaseTo(c, k)
-----------------------------------------------------------------------------
\* Time passes, but the event loop never leaves a due timer unserved for
\* longer than TimerSlack.
Tick == /\ now < MaxTime
        /\ \A t \in timers : now < t.due + TimerSlack
        /\ now' = now + 1
        /\ UNCHANGED <<inflight, waiting, timers, pc, entries>>

Acquire(c) == \/ AcquireFree(c)
              \/ AcquireRefused(c)
              \/ \E timeout \in Timeouts : AcquireQueued(c, timeout)

Next == \/ \E c \in Callers : Acquire(c) \/ Resume(c) \/ Release(c)
        \/ \E t \in timers : FireTimer(t)
        \/ Tick

Spec == Init /\ [][Next]_vars

\* Holders release: the router does so in a finally block, and a microtask
\* that is ready runs.
HoldersRelease == \A c \in Callers : WF_vars(Resume(c)) /\ WF_vars(Release(c))

\* The clock advances and due timers run, whatever the holders do.
TimersRun == WF_vars(Tick) /\ WF_vars(\E t \in timers : FireTimer(t))

FairSpec == Spec /\ TimersRun
-----------------------------------------------------------------------------
(***************************************************************************)
(* What the gate must guarantee                                            *)
(***************************************************************************)

Holders == {c \in Callers : pc[c] \in {"handed", "holding"}}

\* One holder at a time, counting a waiter that is resolved but has not run
\* yet: the class comment's "Only one holder at a time" (queue.js:2).
MutualExclusion == \A c, d \in Holders : c = d

\* The slot is never lost and never left idle under demand: the flag is set
\* exactly while somebody holds the slot, and nobody waits for a free slot.
NoLostSlot == /\ inflight <=> Holders # {}
              /\ waiting # <<>> => inflight

\* The queue and the pending promises agree: every caller that awaits acquire()
\* has exactly one entry, and no entry belongs to a caller already answered,
\* so no promise is left pending for ever and none is settled twice.
QueueMatchesWaiters ==
    /\ \A i \in DOMAIN waiting : pc[waiting[i].who] = "waiting"
    /\ \A i, j \in DOMAIN waiting : waiting[i].who = waiting[j].who => i = j
    /\ \A c \in Callers :
          pc[c] = "waiting" => \E i \in DOMAIN waiting : waiting[i].who = c

\* An acquire that names a timeout is answered by then (up to the lateness of
\* the event loop), even while the holder keeps the slot (queue.js:49-60).
ExplicitTimeoutHonoured ==
    \A i \in DOMAIN waiting :
        waiting[i].timed => now <= waiting[i].deadline + TimerSlack

\* The same for the acquires that name none: "Default timeout when caller
\* doesn't specify" (queue.js:18).  Nothing watches these while the slot is
\* held; the run shows it fails.
DefaultTimeoutHonoured ==
    \A i \in DOMAIN waiting : now <= waiting[i].deadline + TimerSlack

\* A waiter that leaves the queue with the slot was not late, and one that
\* leaves it rejected had reached its own deadline: the timer of an earlier,
\* already granted acquire never rejects a later one of the same caller.
AnsweredByOwnDeadline ==
    \A i \in DOMAIN waiting :
        LET c == waiting[i].who IN
        /\ pc'[c] = "handed" => now <= waiting[i].deadline
        /\ pc'[c] = "refused" => now >= waiting[i].deadline

AnswersJustified == [][AnsweredByOwnDeadline]_vars

\* The gate implements the abstract lock: whoever is ahead in the queue is
\* granted or rejected first, nobody barges in, no hand-over is lost.
Owner == IF Holders = {} THEN NoOne ELSE CHOOSE c \in Callers : c \in Holders

Line == [i \in DOMAIN waiting |-> waiting[i].who]

Lock == INSTANCE FifoLock WITH owner <- Owner, line <- Line

ImplementsFifoLock == Lock!LockSpec

\* If holders release, every waiter is answered: granted or rejected.
EveryWaiterAnswered ==
    HoldersRelease => \A c \in Callers : pc[c] = "waiting" ~> pc[c] # "waiting"

\* Even if no holder ever releases, a waiter that named a timeout is answered.
TimedWaiter(c) == \E i \in DOMAIN waiting : /\ waiting[i].who = c
                                           /\ waiting[i].timed
                                           /\ waiting[i].deadline <= MaxTime

TimedWaiterAnswered == \A c \in Callers : TimedWaiter(c) ~> ~TimedWaiter(c)
=============================================================================
