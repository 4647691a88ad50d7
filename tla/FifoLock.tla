------------------------------ MODULE FifoLock ------------------------------
(***************************************************************************)
(* What the single-flight gate of src/core/queue.js promises, without its  *)
(* clock, timers and flags: one owner at a time, a line served in arrival  *)
(* order, a caller that may give up while it stands in the line, and a     *)
(* hand-over that never leaves the slot free while somebody waits.         *)
(*                                                                         *)
(* SlotGate is shown to implement it; Router uses it as its gate.          *)
(***************************************************************************)
EXTENDS Naturals, SequencesExt

CONSTANTS Callers,      \* the concurrent calls that ask for the slot
          NoOne         \* the owner when the slot is free

ASSUME FifoLockAssumption == NoOne \notin Callers

VARIABLES owner,        \* who holds the slot, or NoOne
          line          \* the callers waiting for it, the oldest first

lockVars == <<owner, line>>

LockInit == owner = NoOne /\ line = <<>>

\* A caller finds the slot free and takes it.
Enter(c) == /\ owner = NoOne
            /\ line = <<>>
            /\ owner' = c
            /\ UNCHANGED line

\* A caller finds the slot taken and joins the end of the line.
Join(c) == /\ owner \notin {NoOne, c}
           /\ c \notin Range(line)
           /\ line' = Append(line, c)
           /\ UNCHANGED owner

\* The caller at place i gives up.
Leave(i) == /\ line' = RemoveAt(line, i)
            /\ UNCHANGED owner

\* The owner leaves; the slot goes to the caller at place k, and those ahead
\* of it are turned away, never overtaken and served later.
PassTo(k) == /\ owner # NoOne
             /\ owner' = line[k]
             /\ line' = SubSeq(line, k + 1, Len(line))

\* The owner leaves, nobody in the line still wants the slot: it is free.
Free == /\ owner # NoOne
        /\ owner' = NoOne
        /\ line' = <<>>

LockNext == \/ \E c \in Callers : Enter(c) \/ Join(c)
            \/ \E i \in DOMAIN line : Leave(i) \/ PassTo(i)
            \/ Free

LockSpec == LockInit /\ [][LockNext]_lockVars
=============================================================================
