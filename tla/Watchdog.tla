------------------------------ MODULE Watchdog ------------------------------
(***************************************************************************)
(* readWithWatchdog() and combineSignalWithTimeout() of src/core/stream.js *)
(* with the stream they read: one timer at a time (the connection's, then  *)
(* the heartbeat of each read), the age of the stream for its deadline,    *)
(* and a reader whose source may send, close, fail or stay silent.  Its    *)
(* users compose the actions below.                                        *)
(*                                                                         *)
(* Time is counted from the events that matter, so the clock never stops.  *)
(***************************************************************************)
EXTENDS Integers, SequencesExt

CONSTANTS FetchTimeoutMs, HeartbeatMs, DeadlineMs,
          TimerSlack  \* how late the event loop may run a due timer

ASSUME WatchdogAssumption == /\ {FetchTimeoutMs, HeartbeatMs} \subseteq Nat \ {0}
                             /\ {DeadlineMs, TimerSlack} \subseteq Nat

VARIABLES period,   \* of the pending timer, 0 when there is none
          quiet,    \* time since it was set
          elapsed,  \* Date.now() - startedAt, counted up to Far
          queue,    \* what the stream holds for the reader
          socket    \* how the stream stands

watchVars == <<period, quiet, elapsed, queue, socket>>

\* No wait reaches so far; beyond it ages are all the same.
Far == DeadlineMs + HeartbeatMs + TimerSlack + 1

WatchdogTypeOK(Pieces) ==
    /\ period \in {0, FetchTimeoutMs, HeartbeatMs}
    /\ quiet \in 0..(period + TimerSlack)
    /\ elapsed \in 0..Far
    /\ queue \in Seq(Pieces)
    /\ socket \in {"open", "closed", "failed", "cancelled"}

SetTimer(ms) == period' = ms /\ quiet' = 0

ClearTimer == period' = 0 /\ quiet' = 0

\* The timer is due: it may fire.
Due == period # 0 /\ quiet >= period

\* Mutant: the test at the head of the loop is dropped.
DeadlineUnchecked == FALSE

\* The test at the head of the loop, before each read.
DeadlineExceeded == elapsed > DeadlineMs

\* Mutant: one heartbeat for the whole stream, set before the loop.
AwaitReadUntimed == /\ queue = <<>> /\ socket = "open"
                    /\ UNCHANGED watchVars

\* A read is awaited: nothing is there, and the heartbeat timer is set.
AwaitRead == /\ queue = <<>> /\ socket = "open"
             /\ SetTimer(HeartbeatMs)
             /\ UNCHANGED <<elapsed, queue, socket>>

\* A read finds the next piece, or the end of the stream.
ReadNext(piece) == /\ queue # <<>>
                   /\ piece = Head(queue)
                   /\ queue' = Tail(queue)
                   /\ UNCHANGED <<period, quiet, elapsed, socket>>

AtEnd == queue = <<>> /\ socket \in {"closed", "cancelled"}

\* Mutant: reader.cancel() is called only for a read that is awaited.
CancelNothing == UNCHANGED <<queue, socket>>

\* reader.cancel(): what was not read yet is dropped.
CancelReader == queue' = <<>> /\ socket' = "cancelled"

\* A due timer fires within the slack.
Tick == /\ period # 0 => quiet < period + TimerSlack
        /\ quiet' = IF period = 0 THEN 0 ELSE quiet + 1
        /\ elapsed' = IF elapsed = Far THEN Far ELSE elapsed + 1
        /\ UNCHANGED <<period, queue, socket>>
=============================================================================
