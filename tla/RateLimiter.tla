---------------------------- MODULE RateLimiter ----------------------------
(***************************************************************************)
(* The per-IP token buckets of src/server/ratelimit.js.  check() refills a *)
(* bucket for the time since it was last looked at, then takes one token   *)
(* or says after how many seconds to come back.  The map of buckets is     *)
(* bounded: a new address drops the oldest entry.                          *)
(*                                                                         *)
(* Tokens are counted in units of 1/windowMs token, so that a millisecond  *)
(* adds `Rate' units and a request costs `WindowMs' of them: exact where   *)
(* the code computes in floating point.                                    *)
(***************************************************************************)
EXTENDS Integers, SequencesExt

CONSTANTS Ips,         \* the client addresses
          Rate,        \* this.rate: requests per window
          Burst,       \* this.burst
          WindowMs,    \* this.windowMs
          SecondMs,    \* milliseconds in a second of Retry-After (1000)
          MaxTracked,  \* MAX_TRACKED_IPS
          MaxTime,     \* bound: the clock stops here
          MaxGranted   \* bound: requests granted per bucket

ASSUME RateLimiterAssumption ==
    /\ {Rate, Burst, WindowMs, SecondMs, MaxTracked} \subseteq Nat \ {0}
    /\ {MaxTime, MaxGranted} \subseteq Nat

VARIABLES order,       \* the keys of this.buckets, in the map's order
          tokens,      \* bucket.tokens, in units
          lastRefill,  \* bucket.lastRefill
          now,         \* Date.now()
          granted,     \* history: when requests of a live bucket were let through
          promised     \* history: when a refused client was told to come back

vars == <<order, tokens, lastRefill, now, granted, promised>>

Never == -1

\* The types of the variables; a bucket holds at most a burst, the map at most
\* MAX_TRACKED_IPS buckets, and no address twice.
TypeOK == /\ order \in Seq(Ips)
          /\ Len(order) <= MaxTracked
          /\ \A i, j \in DOMAIN order : order[i] = order[j] => i = j
          /\ tokens \in [Ips -> 0 .. Burst * WindowMs]
          /\ lastRefill \in [Ips -> Nat]
          /\ now \in Nat
          /\ granted \in [Ips -> Seq(Nat)]
          /\ promised \in [Ips -> Nat \cup {Never}]

Init == /\ order = <<>>
        /\ tokens = [ip \in Ips |-> 0]
        /\ lastRefill = [ip \in Ips |-> 0]
        /\ now = 0
        /\ granted = [ip \in Ips |-> <<>>]
        /\ promised = [ip \in Ips |-> Never]
-----------------------------------------------------------------------------
Tracked(ip) == ip \in Range(order)

\* Mutant: > for >= in the capacity test.
EvictedOffByOne(ip) == IF ~Tracked(ip) /\ Len(order) > MaxTracked
                       THEN {Head(order)} ELSE {}

\* The addresses _get() forgets to make room for ip.
Evicted(ip) == IF ~Tracked(ip) /\ Len(order) >= MaxTracked
               THEN {Head(order)} ELSE {}

\* this.buckets once ip was looked up.  set() does not move a key that is there:
\* the entry evicted is the oldest made, not the one used longest ago.
Looked(ip) == IF Tracked(ip) THEN order
              ELSE Append(IF Evicted(ip) # {} THEN Tail(order) ELSE order, ip)

\* Mutant: the refill is not capped at the burst.
RefilledUncapped(ip) ==
    IF ~Tracked(ip) THEN Burst * WindowMs
    ELSE tokens[ip] + (now - lastRefill[ip]) * Rate

\* b.tokens once refilled; a new bucket is full.
Refilled(ip) ==
    LET sum == tokens[ip] + (now - lastRefill[ip]) * Rate IN
    IF ~Tracked(ip) \/ sum > Burst * WindowMs THEN Burst * WindowMs ELSE sum

CeilDiv(a, b) == (a + b - 1) \div b

\* Mutant: the wait is rounded down to whole milliseconds.
RetryAfterFloor(units) == CeilDiv((WindowMs - units) \div Rate, SecondMs)

\* retryAfterSec for a bucket left with so many units, rounded up twice.
RetryAfterSec(units) == CeilDiv(CeilDiv(WindowMs - units, Rate), SecondMs)

\* What _get(ip) leaves in the map, with the bucket at the given level.  A dropped
\* bucket leaves nothing behind.
Touch(ip, level) ==
    /\ order' = Looked(ip)
    /\ tokens' = [x \in Ips |-> IF x = ip THEN level
                               ELSE IF x \in Evicted(ip) THEN 0 ELSE tokens[x]]
    /\ lastRefill' = [x \in Ips |-> IF x = ip THEN now
                                   ELSE IF x \in Evicted(ip) THEN 0 ELSE lastRefill[x]]

\* The grants of ip's present bucket.
Grants(ip) == IF Tracked(ip) THEN granted[ip] ELSE <<>>

Record(ip, grants) ==
    granted' = [x \in Ips |-> IF x = ip THEN grants
                             ELSE IF x \in Evicted(ip) THEN <<>> ELSE granted[x]]

\* check(ip) lets the request through.
Allow(ip) ==
    /\ Refilled(ip) >= WindowMs
    /\ Len(Grants(ip)) < MaxGranted
    /\ Touch(ip, Refilled(ip) - WindowMs)
    /\ Record(ip, Append(Grants(ip), now))
    /\ promised' = [promised EXCEPT ![ip] = Never]
    /\ UNCHANGED now

\* check(ip) refuses it.
Refuse(ip) ==
    /\ Refilled(ip) < WindowMs
    /\ Touch(ip, Refilled(ip))
    /\ Record(ip, Grants(ip))
    /\ promised' = [promised EXCEPT ![ip] =
                      now + RetryAfterSec(Refilled(ip)) * SecondMs]
    /\ UNCHANGED now

Tick == /\ now < MaxTime
        /\ now' = now + 1
        /\ UNCHANGED <<order, tokens, lastRefill, granted, promised>>

Next == (\E ip \in Ips : Allow(ip) \/ Refuse(ip)) \/ Tick

Spec == Init /\ [][Next]_vars
-----------------------------------------------------------------------------
(***************************************************************************)
(* What the limiter must guarantee                                         *)
(***************************************************************************)

\* However its requests are spaced, an address whose bucket stays in the map gets
\* no more than a burst plus the sustained rate, over every interval between two
\* of its granted requests, not just since the bucket was made.
RateBounded ==
    \A ip \in Ips : \A i, j \in DOMAIN granted[ip] :
        i <= j => (j - i + 1) * WindowMs
                     <= Burst * WindowMs + Rate * (granted[ip][j] - granted[ip][i])

\* Retry-After is honest: a client that was refused and waits as long as it was
\* told, without asking in between, is let through, whatever the others did to
\* the map meanwhile.
RetryAfterHonest ==
    [][\A ip \in Ips : promised[ip] # Never /\ now >= promised[ip] => ~Refuse(ip)]_vars
=============================================================================
