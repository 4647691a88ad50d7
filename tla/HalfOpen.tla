------------------------------ MODULE HalfOpen ------------------------------
(***************************************************************************)
(* The circuit breaker as the router drives it: isOpen() before each       *)
(* attempt, then succeed() or fail() for it, one attempt at a time (the    *)
(* slot gate sees to that).  A history variable follows the circuits that  *)
(* a cool-off, not a success, closed.                                      *)
(***************************************************************************)
EXTENDS CircuitBreaker

CONSTANT MaxTime       \* bound: the clock stops here

Idle == "idle"

VARIABLES attempt,     \* the provider being called, or Idle
          probation    \* circuits closed by a cool-off, with no success since

halfOpenVars == <<fails, openedAt, now, attempt, probation>>

Init == BreakerInit /\ now = 0 /\ attempt = Idle /\ probation = {}

\* router.js:348: the circuit is closed, or isOpen() closes it.
Try(p) == /\ attempt = Idle
          /\ ~IsOpen(p)
          /\ CheckOpen(p)
          /\ attempt' = p
          /\ probation' = IF openedAt[p] # Never THEN probation \cup {p} ELSE probation
          /\ UNCHANGED now

Answer == /\ attempt # Idle
          /\ \/ Succeed(attempt) /\ probation' = probation \ {attempt}
             \/ /\ Fail(attempt)
                /\ probation' = IF openedAt'[attempt] # Never
                                THEN probation \ {attempt} ELSE probation
          /\ attempt' = Idle
          /\ UNCHANGED now

Tick == /\ now < MaxTime
        /\ now' = now + 1
        /\ UNCHANGED <<breakerVars, attempt, probation>>

Next == (\E p \in Ids : Try(p)) \/ Answer \/ Tick

Spec == Init /\ [][Next]_halfOpenVars

\* "Half-open: allow one probe through" (circuit.js:36): a provider let through
\* after its cool-off gets one attempt, and a second one only once that attempt
\* succeeded or the circuit was open again.  isOpen() clears the failure count
\* as well, so Threshold attempts go through; the run shows the second.
OneProbe == [][\A p \in Ids : p \in probation => ~(attempt = Idle /\ attempt' = p)]_halfOpenVars
=============================================================================
