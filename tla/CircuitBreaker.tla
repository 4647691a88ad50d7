--------------------------- MODULE CircuitBreaker ---------------------------
(***************************************************************************)
(* The CircuitBreaker of src/core/circuit.js: per provider a count of      *)
(* consecutive failures and the time the circuit opened.  isOpen() is not  *)
(* a pure test: it closes a circuit whose cool-off has passed.             *)
(***************************************************************************)
EXTENDS Integers, ProviderIds

CONSTANTS Threshold,  \* consecutive failures that open a circuit
          Cooldown    \* how long it stays open

ASSUME BreakerAssumption == Threshold \in Nat \ {0} /\ Cooldown \in Nat \ {0}

VARIABLES fails,      \* state[id].fails
          openedAt,   \* state[id].openedAt, Never for null
          now         \* Date.now(), in units of the cool-off

breakerVars == <<fails, openedAt>>

Never == -1

BreakerTypeOK == /\ fails \in [Ids -> Nat]
                 /\ openedAt \in [Ids -> Nat \cup {Never}]
                 /\ now \in Nat

BreakerInit == /\ fails = [p \in Ids |-> 0]
               /\ openedAt = [p \in Ids |-> Never]

\* The value isOpen(p) returns.
IsOpen(p) == openedAt[p] # Never /\ now - openedAt[p] < Cooldown

\* succeed(p), and what isOpen(p) does to a circuit that has cooled off.
Close(p) == /\ fails' = [fails EXCEPT ![p] = 0]
            /\ openedAt' = [openedAt EXCEPT ![p] = Never]

\* Mutant: the half-open circuit keeps its failure count.
CheckOpenKeepsCount(p) ==
    /\ openedAt' = IF IsOpen(p) THEN openedAt ELSE [openedAt EXCEPT ![p] = Never]
    /\ UNCHANGED fails

\* The state change of isOpen(p).
CheckOpen(p) == IF openedAt[p] # Never /\ ~IsOpen(p)
                THEN Close(p) ELSE UNCHANGED breakerVars

Succeed(p) == Close(p)

Fail(p) ==
    /\ fails' = [fails EXCEPT ![p] = @ + 1]
    /\ openedAt' = IF fails[p] + 1 >= Threshold
                   THEN [openedAt EXCEPT ![p] = now] ELSE openedAt
=============================================================================
