------------------------- MODULE RateLimiterProofs -------------------------
(***************************************************************************)
(* Proofs about the rate limiter, for every rate, burst, window, number of *)
(* addresses and length of run.                                            *)
(***************************************************************************)
EXTENDS RateLimiter, SequenceTheorems, TLAPS

\* What the bucket still owes to the interval that began with its i-th grant:
\* the grants since then and the tokens left fit in a burst and the refill.
Budget(ip) ==
    \A i \in DOMAIN granted[ip] :
        (Len(granted[ip]) - i + 1) * WindowMs + tokens[ip]
            <= Burst * WindowMs + Rate * (lastRefill[ip] - granted[ip][i])

Bounded(ip) ==
    \A i, j \in DOMAIN granted[ip] :
        i <= j => (j - i + 1) * WindowMs
                     <= Burst * WindowMs + Rate * (granted[ip][j] - granted[ip][i])

\* The bucket will hold a token when the client comes back as it was told.
Kept(ip) ==
    Tracked(ip) /\ promised[ip] # Never =>
        tokens[ip] + Rate * (promised[ip] - lastRefill[ip]) >= WindowMs

\* The inductive invariant.  RateBounded looks at pairs of grants in the past;
\* what carries it over a step is the budget of every grant up to the present.
LimiterInv == /\ TypeOK
              /\ \A ip \in Ips : /\ lastRefill[ip] <= now
                                 /\ Budget(ip)
                                 /\ Bounded(ip)
                                 /\ Kept(ip)
-----------------------------------------------------------------------------
(***************************************************************************)
(* Arithmetic                                                              *)
(***************************************************************************)

LEMMA ProductNat == \A a, b \in Nat : a * b \in Nat
  BY SMT

LEMMA Places ==
  \A n \in Nat : \A k \in 1 .. n :
     k = n \/ (k \in 1 .. n - 1 /\ k + 1 \in 1 .. n)
  OBVIOUS

LEMMA ConstantsPositive ==
  /\ Rate \in Nat \ {0} /\ Burst \in Nat \ {0} /\ WindowMs \in Nat \ {0}
  /\ SecondMs \in Nat \ {0} /\ MaxTracked \in Nat \ {0}
  BY RateLimiterAssumption

LEMMA BurstCoversOne == Burst * WindowMs \in Nat /\ WindowMs <= Burst * WindowMs
<1>1. Burst - 1 \in Nat /\ WindowMs \in Nat
  BY ConstantsPositive
<1>2. (Burst - 1) * WindowMs \in Nat
  BY <1>1, ProductNat
<1>3. (Burst - 1) * WindowMs = Burst * WindowMs - WindowMs
  BY ConstantsPositive
<1> QED
  BY <1>2, <1>3, ConstantsPositive

\* CeilDiv rounds up: what it returns, times the divisor, covers the dividend.
LEMMA CeilDivCovers ==
  ASSUME NEW a \in Nat, NEW b \in Nat \ {0}
  PROVE  CeilDiv(a, b) \in Nat /\ CeilDiv(a, b) * b >= a
<1> DEFINE q == (a + b - 1) \div b
<1>1. a + b - 1 \in Nat
  OBVIOUS
<1>2. q \in Nat /\ (a + b - 1) % b \in 0 .. b - 1
  BY <1>1, SMT
<1>3. a + b - 1 = (b * q) + ((a + b - 1) % b)
  BY <1>1, SMT
<1>4. b * q = q * b
  BY <1>2
<1>5. q * b >= a
  BY <1>2, <1>3, <1>4
<1> QED
  BY <1>2, <1>5 DEF CeilDiv

\* A wait of RetryAfterSec seconds refills what is missing for one request.
LEMMA RetryAfterCovers ==
  ASSUME NEW u \in Nat, u < WindowMs
  PROVE  /\ RetryAfterSec(u) * SecondMs \in Nat
         /\ u + Rate * (RetryAfterSec(u) * SecondMs) >= WindowMs
<1> DEFINE ms == CeilDiv(WindowMs - u, Rate)
           wait == RetryAfterSec(u) * SecondMs
<1>1. WindowMs - u \in Nat
  BY ConstantsPositive
<1>2. ms \in Nat /\ ms * Rate >= WindowMs - u
  BY <1>1, CeilDivCovers, ConstantsPositive
<1>3. RetryAfterSec(u) \in Nat /\ wait >= ms
  BY <1>2, CeilDivCovers, ConstantsPositive DEF RetryAfterSec
<1>4. wait \in Nat
  BY <1>3, ConstantsPositive, ProductNat
<1>5. Rate * (wait - ms) \in Nat
  BY <1>2, <1>3, <1>4, ConstantsPositive, ProductNat
<1>6. Rate * (wait - ms) = Rate * wait - ms * Rate
  BY <1>2, <1>4, ConstantsPositive
<1>7. Rate * wait \in Nat /\ ms * Rate \in Nat
  BY <1>2, <1>4, ConstantsPositive, ProductNat
<1>8. Rate * wait >= ms * Rate
  BY <1>5, <1>6, <1>7
<1>9. u + Rate * wait >= WindowMs
  BY <1>2, <1>7, <1>8, ConstantsPositive
<1> QED
  BY <1>4, <1>9
-----------------------------------------------------------------------------
(***************************************************************************)
(* Looking a bucket up                                                     *)
(***************************************************************************)

\* The time since a bucket was looked at refills a natural number of units.
LEMMA RefillNat ==
  ASSUME LimiterInv, NEW ip \in Ips
  PROVE  /\ (now - lastRefill[ip]) * Rate \in Nat
         /\ tokens[ip] \in Nat /\ tokens[ip] <= Burst * WindowMs
<1>1. now - lastRefill[ip] \in Nat
  BY DEF LimiterInv, TypeOK
<1>2. (now - lastRefill[ip]) * Rate \in Nat
  BY <1>1, ConstantsPositive, ProductNat
<1> QED
  BY <1>2, BurstCoversOne DEF LimiterInv, TypeOK

\* A refilled bucket holds at most a burst, at least what it held, and at most
\* what the time since then adds; a new one is full.
LEMMA RefilledBounds ==
  ASSUME LimiterInv, NEW ip \in Ips
  PROVE  /\ Refilled(ip) \in 0 .. Burst * WindowMs
         /\ ~Tracked(ip) => Refilled(ip) = Burst * WindowMs
         /\ Tracked(ip) => Refilled(ip) <= tokens[ip] + (now - lastRefill[ip]) * Rate
         /\ \/ Refilled(ip) = Burst * WindowMs
            \/ Refilled(ip) = tokens[ip] + (now - lastRefill[ip]) * Rate
  BY RefillNat, BurstCoversOne DEF Refilled

\* The map stays within its bound and holds no address twice.
LEMMA LookedType ==
  ASSUME LimiterInv, NEW ip \in Ips
  PROVE  /\ Looked(ip) \in Seq(Ips)
         /\ Len(Looked(ip)) <= MaxTracked
         /\ \A i, j \in DOMAIN Looked(ip) : Looked(ip)[i] = Looked(ip)[j] => i = j
         /\ Range(Looked(ip)) = (Range(order) \ Evicted(ip)) \cup {ip}
         /\ Evicted(ip) \subseteq Range(order)
         /\ ip \notin Evicted(ip)
<1>1. /\ order \in Seq(Ips) /\ Len(order) \in Nat /\ Len(order) <= MaxTracked
      /\ \A i, j \in DOMAIN order : order[i] = order[j] => i = j
      /\ DOMAIN order = 1 .. Len(order)
  BY DEF LimiterInv, TypeOK
<1>2. CASE Tracked(ip)
  <2>1. Looked(ip) = order /\ Evicted(ip) = {}
    BY <1>2 DEF Looked, Evicted
  <2> QED
    BY <1>1, <1>2, <2>1 DEF Tracked
<1>3. CASE ~Tracked(ip) /\ Len(order) < MaxTracked
  <2>1. Evicted(ip) = {} /\ Looked(ip) = Append(order, ip)
    BY <1>1, <1>3, ConstantsPositive DEF Looked, Evicted
  <2>2. \A i \in DOMAIN order : order[i] # ip
    BY <1>3 DEF Tracked, Range
  <2>3. /\ Append(order, ip) \in Seq(Ips)
        /\ DOMAIN Append(order, ip) = 1 .. Len(order) + 1
        /\ Len(Append(order, ip)) = Len(order) + 1
        /\ Append(order, ip)[Len(order) + 1] = ip
        /\ \A i \in DOMAIN order : Append(order, ip)[i] = order[i]
    BY <1>1
  <2>4. Range(Append(order, ip)) = Range(order) \cup {ip}
    BY <1>1, <2>3 DEF Range
  <2>5. Len(Append(order, ip)) <= MaxTracked
    BY <1>1, <1>3, <2>3, ConstantsPositive
  <2>6. \A i, j \in DOMAIN Append(order, ip) :
           Append(order, ip)[i] = Append(order, ip)[j] => i = j
    BY <1>1, <2>2, <2>3
  <2> QED
    BY <2>1, <2>3, <2>4, <2>5, <2>6
<1>4. CASE ~Tracked(ip) /\ Len(order) >= MaxTracked
  <2> DEFINE rest == Tail(order)
  <2>0. \A k \in 1 .. Len(order) :
           \/ k = Len(order)
           \/ k \in 1 .. Len(order) - 1 /\ k + 1 \in 1 .. Len(order)
    BY <1>1, Places
  <2>1. order # <<>>
    BY <1>1, <1>4, ConstantsPositive
  <2>2. Evicted(ip) = {Head(order)} /\ Looked(ip) = Append(rest, ip)
    BY <1>4 DEF Looked, Evicted
  <2>3. /\ rest \in Seq(Ips) /\ Len(rest) = Len(order) - 1 /\ Len(rest) \in Nat
        /\ \A i \in 1 .. Len(rest) : rest[i] = order[i + 1]
        /\ Head(order) = order[1]
    BY <1>1, <2>1
  <2>4. \A i \in DOMAIN order : order[i] # ip
    BY <1>4 DEF Tracked, Range
  <2>5. /\ Append(rest, ip) \in Seq(Ips)
        /\ DOMAIN Append(rest, ip) = 1 .. Len(order)
        /\ Len(Append(rest, ip)) = Len(order)
        /\ Append(rest, ip)[Len(order)] = ip
        /\ \A i \in 1 .. Len(order) - 1 : Append(rest, ip)[i] = order[i + 1]
    BY <1>1, <2>3
  <2>6. Range(Append(rest, ip)) = (Range(order) \ {Head(order)}) \cup {ip}
    <3>1. ASSUME NEW x \in Range(Append(rest, ip))
          PROVE  x \in (Range(order) \ {Head(order)}) \cup {ip}
      <4>1. PICK i \in 1 .. Len(order) : x = Append(rest, ip)[i]
        BY <2>5, <3>1 DEF Range
      <4>2. CASE i = Len(order)
        BY <2>5, <4>1, <4>2
      <4>3. CASE i \in 1 .. Len(order) - 1
        <5>1. x = order[i + 1] /\ i + 1 \in DOMAIN order /\ i + 1 # 1 /\ 1 \in DOMAIN order
          BY <1>1, <2>5, <4>1, <4>3
        <5>2. x # order[1]
          BY <1>1, <5>1
        <5> QED
          BY <2>3, <5>1, <5>2 DEF Range
      <4> QED
        BY <2>0, <4>1, <4>2, <4>3
    <3>2. ASSUME NEW x \in (Range(order) \ {Head(order)}) \cup {ip}
          PROVE  x \in Range(Append(rest, ip))
      <4>1. CASE x = ip
        BY <1>1, <2>1, <2>5, <4>1 DEF Range
      <4>2. CASE x # ip
        <5>1. PICK i \in DOMAIN order : x = order[i]
          BY <3>2, <4>2 DEF Range
        <5>2. i # 1
          BY <2>3, <3>2, <4>2, <5>1
        <5>3. i - 1 \in 1 .. Len(order) - 1 /\ (i - 1) + 1 = i
          BY <1>1, <5>1, <5>2
        <5>4. x = Append(rest, ip)[i - 1]
          BY <2>5, <5>1, <5>3
        <5> QED
          BY <1>1, <2>5, <5>3, <5>4 DEF Range
      <4> QED
        BY <4>1, <4>2
    <3> QED
      BY <3>1, <3>2
  <2>7. \A i, j \in DOMAIN Append(rest, ip) :
           Append(rest, ip)[i] = Append(rest, ip)[j] => i = j
    <3> SUFFICES ASSUME NEW i \in 1 .. Len(order), NEW j \in 1 .. Len(order),
                        Append(rest, ip)[i] = Append(rest, ip)[j]
                 PROVE  i = j
      BY <2>5
    <3>1. CASE i = Len(order) /\ j # Len(order)
      <4>1. j \in 1 .. Len(order) - 1 /\ j + 1 \in DOMAIN order
        BY <1>1, <2>0, <3>1
      <4> QED
        BY <2>4, <2>5, <3>1, <4>1
    <3>2. CASE j = Len(order) /\ i # Len(order)
      <4>1. i \in 1 .. Len(order) - 1 /\ i + 1 \in DOMAIN order
        BY <1>1, <2>0, <3>2
      <4> QED
        BY <2>4, <2>5, <3>2, <4>1
    <3>3. CASE i # Len(order) /\ j # Len(order)
      <4>1. /\ i \in 1 .. Len(order) - 1 /\ i + 1 \in DOMAIN order
            /\ j \in 1 .. Len(order) - 1 /\ j + 1 \in DOMAIN order
        BY <1>1, <2>0, <3>3
      <4>2. order[i + 1] = order[j + 1]
        BY <2>5, <4>1
      <4>3. i + 1 = j + 1
        BY <1>1, <4>1, <4>2
      <4> QED
        BY <4>3
    <3> QED
      BY <3>1, <3>2, <3>3
  <2>8. Head(order) \in Range(order) /\ ip # Head(order)
    BY <1>1, <2>1, <2>3, <2>4 DEF Range
  <2> QED
    BY <1>1, <2>2, <2>5, <2>6, <2>7, <2>8
<1> QED
  BY <1>1, <1>2, <1>3, <1>4, ConstantsPositive
-----------------------------------------------------------------------------
(***************************************************************************)
(* The steps                                                               *)
(***************************************************************************)

\* What a check of ip, ending with its bucket at the given level, does to the map.
LEMMA CheckTouches ==
  ASSUME LimiterInv, NEW ip \in Ips, NEW level \in 0 .. Burst * WindowMs,
         Touch(ip, level), now' = now
  PROVE  /\ order' \in Seq(Ips) /\ Len(order') <= MaxTracked
         /\ \A i, j \in DOMAIN order' : order'[i] = order'[j] => i = j
         /\ tokens' \in [Ips -> 0 .. Burst * WindowMs]
         /\ lastRefill' \in [Ips -> Nat]
         /\ now' \in Nat
         /\ tokens'[ip] = level /\ lastRefill'[ip] = now /\ Tracked(ip)'
         /\ \A x \in Ips : x \in Evicted(ip) =>
               ~Tracked(x)' /\ lastRefill'[x] = 0
         /\ \A x \in Ips : x # ip /\ x \notin Evicted(ip) =>
               /\ tokens'[x] = tokens[x]
               /\ lastRefill'[x] = lastRefill[x]
               /\ (Tracked(x)' <=> Tracked(x))
<1>1. order' = Looked(ip)
  BY DEF Touch
<1>2. Range(order') = (Range(order) \ Evicted(ip)) \cup {ip} /\ ip \notin Evicted(ip)
  BY <1>1, LookedType
<1>3. /\ tokens' = [x \in Ips |-> IF x = ip THEN level
                                 ELSE IF x \in Evicted(ip) THEN 0 ELSE tokens[x]]
      /\ lastRefill' = [x \in Ips |-> IF x = ip THEN now
                                     ELSE IF x \in Evicted(ip) THEN 0 ELSE lastRefill[x]]
  BY DEF Touch
<1>4. order' \in Seq(Ips) /\ Len(order') <= MaxTracked
  BY <1>1, LookedType
<1>5. \A i, j \in DOMAIN order' : order'[i] = order'[j] => i = j
  BY <1>1, LookedType
<1>6. tokens' \in [Ips -> 0 .. Burst * WindowMs]
  BY <1>3, BurstCoversOne DEF LimiterInv, TypeOK
<1>7. lastRefill' \in [Ips -> Nat] /\ now' \in Nat
  BY <1>3 DEF LimiterInv, TypeOK
<1>8. tokens'[ip] = level /\ lastRefill'[ip] = now /\ Tracked(ip)'
  BY <1>2, <1>3 DEF Tracked
<1>9. ASSUME NEW x \in Ips, x \in Evicted(ip)
      PROVE  ~Tracked(x)' /\ lastRefill'[x] = 0
  BY <1>2, <1>3, <1>9 DEF Tracked
<1>10. ASSUME NEW x \in Ips, x # ip, x \notin Evicted(ip)
       PROVE  /\ tokens'[x] = tokens[x] /\ lastRefill'[x] = lastRefill[x]
              /\ (Tracked(x)' <=> Tracked(x))
  BY <1>2, <1>3, <1>10 DEF Tracked
<1> QED
  BY <1>4, <1>5, <1>6, <1>7, <1>8, <1>9, <1>10

\* A bucket that a check of another address leaves alone, or drops, keeps its part
\* of the invariant.
LEMMA OthersKept ==
  ASSUME LimiterInv, NEW ip \in Ips, NEW level \in 0 .. Burst * WindowMs,
         Touch(ip, level), now' = now,
         NEW grants \in Seq(Nat), Record(ip, grants),
         NEW x \in Ips, x # ip, promised'[x] = promised[x]
  PROVE  lastRefill'[x] <= now' /\ Budget(x)' /\ Bounded(x)' /\ Kept(x)'
<1>1. CASE x \in Evicted(ip)
  <2>1. granted'[x] = <<>> /\ ~Tracked(x)' /\ lastRefill'[x] = 0
    BY <1>1, CheckTouches DEF Record
  <2>2. DOMAIN granted'[x] = {}
    BY <2>1
  <2> QED
    BY <2>1, <2>2 DEF Budget, Bounded, Kept, LimiterInv, TypeOK
<1>2. CASE x \notin Evicted(ip)
  <2>1. /\ granted'[x] = granted[x] /\ tokens'[x] = tokens[x]
        /\ lastRefill'[x] = lastRefill[x] /\ (Tracked(x)' <=> Tracked(x))
    BY <1>2, CheckTouches DEF Record
  <2>2. lastRefill[x] <= now /\ Budget(x) /\ Bounded(x) /\ Kept(x)
    BY DEF LimiterInv
  <2>3. Budget(x)' /\ Bounded(x)'
    BY <2>1, <2>2 DEF Budget, Bounded
  <2>4. Kept(x)'
    BY <2>1, <2>2 DEF Kept
  <2> QED
    BY <2>1, <2>2, <2>3, <2>4
<1> QED
  BY <1>1, <1>2

LEMMA GrantsType ==
  ASSUME LimiterInv, NEW ip \in Ips
  PROVE  /\ Grants(ip) \in Seq(Nat)
         /\ \A i \in DOMAIN Grants(ip) : Tracked(ip) /\ granted[ip] = Grants(ip)
  BY DEF LimiterInv, TypeOK, Grants

\* A request that is let through.
LEMMA AllowKeeps ==
  ASSUME LimiterInv, NEW ip \in Ips, Allow(ip)
  PROVE  LimiterInv'
<1> DEFINE level == Refilled(ip) - WindowMs
           g == Grants(ip)
<1>1. /\ Refilled(ip) >= WindowMs /\ Touch(ip, level)
      /\ Record(ip, Append(g, now)) /\ now' = now
      /\ promised' = [promised EXCEPT ![ip] = Never]
  BY DEF Allow
<1>2. level \in 0 .. Burst * WindowMs /\ level + WindowMs = Refilled(ip)
  BY <1>1, RefilledBounds, BurstCoversOne, ConstantsPositive
<1>3. /\ now \in Nat /\ g \in Seq(Nat) /\ Append(g, now) \in Seq(Nat)
      /\ Len(g) \in Nat /\ DOMAIN g = 1 .. Len(g)
      /\ Len(Append(g, now)) = Len(g) + 1
      /\ DOMAIN Append(g, now) = 1 .. Len(g) + 1
      /\ \A i \in 1 .. Len(g) : Append(g, now)[i] = g[i] /\ g[i] \in Nat
      /\ Append(g, now)[Len(g) + 1] = now
  BY GrantsType DEF LimiterInv, TypeOK
<1>4. /\ granted'[ip] = Append(g, now) /\ tokens'[ip] = level
      /\ lastRefill'[ip] = now /\ promised'[ip] = Never
  BY <1>1, <1>2, CheckTouches DEF Record, LimiterInv, TypeOK
<1>5. TypeOK'
  <2>1. granted' \in [Ips -> Seq(Nat)]
    BY <1>1, <1>3 DEF Record, LimiterInv, TypeOK
  <2>2. promised' \in [Ips -> Nat \cup {Never}]
    BY <1>1 DEF LimiterInv, TypeOK
  <2> QED
    BY <1>1, <1>2, <2>1, <2>2, CheckTouches DEF TypeOK
\* The budget of each grant, once this one is counted.
<1>6. ASSUME NEW i \in 1 .. Len(g) + 1
      PROVE  (Len(g) + 1 - i + 1) * WindowMs + level
                <= Burst * WindowMs + Rate * (now - Append(g, now)[i])
  <2>1. CASE i = Len(g) + 1
    <3>1. Append(g, now)[i] = now /\ Len(g) + 1 - i + 1 = 1
      BY <1>3, <2>1
    <3>2. Rate * (now - now) = 0 /\ 1 * WindowMs = WindowMs
      BY <1>3, ConstantsPositive
    <3>3. WindowMs + level <= Burst * WindowMs
      BY <1>2, RefilledBounds, BurstCoversOne, ConstantsPositive
    <3> QED
      BY <3>1, <3>2, <3>3, BurstCoversOne
  <2>2. CASE i \in 1 .. Len(g)
    <3>1. Tracked(ip) /\ granted[ip] = g
      BY <1>3, <2>2, GrantsType
    <3> DEFINE t == g[i]
               n == Len(g) - i + 1
               last == lastRefill[ip]
    <3>2. /\ t \in Nat /\ n \in Nat /\ last \in Nat /\ tokens[ip] \in Nat
          /\ Append(g, now)[i] = t
      BY <1>3, <2>2, RefillNat DEF LimiterInv, TypeOK
    <3>3. n * WindowMs + tokens[ip] <= Burst * WindowMs + Rate * (last - t)
      BY <1>3, <2>2, <3>1 DEF LimiterInv, Budget
    <3>4. level + WindowMs <= tokens[ip] + (now - last) * Rate
      BY <1>2, <3>1, RefilledBounds
    <3>5. (Len(g) + 1 - i + 1) * WindowMs = n * WindowMs + WindowMs
      <4>1. Len(g) + 1 - i + 1 = n + 1
        BY <1>3, <2>2
      <4>2. (n + 1) * WindowMs = n * WindowMs + WindowMs
        BY <3>2, ConstantsPositive
      <4> QED
        BY <4>1, <4>2
    <3>6. n * WindowMs + WindowMs + level <= Burst * WindowMs + Rate * (now - t)
      <4> HIDE DEF n, t, last, level
      <4>1. Rate * (last - t) + (now - last) * Rate = Rate * (now - t)
        BY <1>3, <3>2, ConstantsPositive
      <4>2. /\ Rate * (last - t) \in Int /\ (now - last) * Rate \in Int
            /\ n * WindowMs \in Int /\ Rate * (now - t) \in Int
        BY <1>3, <3>2, ConstantsPositive
      <4> QED
        BY <1>2, <3>2, <3>3, <3>4, <4>1, <4>2, BurstCoversOne, ConstantsPositive
    <3> QED
      BY <3>2, <3>5, <3>6
  <2> QED
    BY <1>3, <2>1, <2>2
<1>7. Budget(ip)'
  BY <1>3, <1>4, <1>6 DEF Budget
<1>8. Bounded(ip)'
  <2> SUFFICES ASSUME NEW i \in 1 .. Len(g) + 1, NEW j \in 1 .. Len(g) + 1, i <= j
               PROVE  (j - i + 1) * WindowMs
                         <= Burst * WindowMs
                            + Rate * (Append(g, now)[j] - Append(g, now)[i])
    BY <1>3, <1>4 DEF Bounded
  <2>1. CASE j = Len(g) + 1
    <3>1. Append(g, now)[i] \in Nat
      BY <1>3
    <3>2. (Len(g) + 1 - i + 1) * WindowMs \in Int /\ Rate * (now - Append(g, now)[i]) \in Int
      BY <1>3, <3>1, ConstantsPositive
    <3>3. (j - i + 1) * WindowMs + level
             <= Burst * WindowMs + Rate * (Append(g, now)[j] - Append(g, now)[i])
      BY <1>3, <1>6, <2>1
    <3> QED
      BY <1>2, <1>3, <2>1, <3>2, <3>3, BurstCoversOne
  <2>2. CASE j \in 1 .. Len(g)
    <3>1. i \in 1 .. Len(g)
      BY <1>3, <2>2
    <3>2. granted[ip] = g
      BY <1>3, <3>1, GrantsType
    <3> QED
      BY <1>3, <2>2, <3>1, <3>2 DEF LimiterInv, Bounded
  <2> QED
    BY <1>3, <2>1, <2>2
<1>9. Kept(ip)' /\ lastRefill'[ip] <= now'
  BY <1>1, <1>3, <1>4 DEF Kept
<1>10. ASSUME NEW x \in Ips, x # ip
       PROVE  lastRefill'[x] <= now' /\ Budget(x)' /\ Bounded(x)' /\ Kept(x)'
  <2>1. promised'[x] = promised[x]
    BY <1>1, <1>10 DEF LimiterInv, TypeOK
  <2> QED
    BY <1>1, <1>2, <1>3, <1>10, <2>1, OthersKept
<1> QED
  BY <1>5, <1>7, <1>8, <1>9, <1>10 DEF LimiterInv

\* A request that is refused: its bucket is refilled, and the promise made now
\* replaces an earlier one.
LEMMA RefuseKeeps ==
  ASSUME LimiterInv, NEW ip \in Ips, Refuse(ip)
  PROVE  LimiterInv'
<1> DEFINE level == Refilled(ip)
           g == Grants(ip)
           back == now + RetryAfterSec(level) * SecondMs
<1>1. /\ level < WindowMs /\ Touch(ip, level) /\ Record(ip, g) /\ now' = now
      /\ promised' = [promised EXCEPT ![ip] = back]
  BY DEF Refuse
<1>2. level \in 0 .. Burst * WindowMs /\ level \in Nat /\ now \in Nat
  BY RefilledBounds, BurstCoversOne DEF LimiterInv, TypeOK
<1>3. /\ back \in Nat
      /\ level + Rate * (back - now) >= WindowMs
  <2> DEFINE wait == RetryAfterSec(level) * SecondMs
  <2>1. wait \in Nat /\ level + Rate * wait >= WindowMs
    BY <1>1, <1>2, RetryAfterCovers
  <2>2. back = now + wait /\ back - now = wait
    BY <1>2, <2>1
  <2> QED
    BY <1>2, <2>1, <2>2
<1>4. g \in Seq(Nat)
  BY GrantsType
<1>5. \* A bucket that was not in the map is new, full, and refuses nothing.
      Tracked(ip) /\ g = granted[ip]
  BY <1>1, RefilledBounds, BurstCoversOne, ConstantsPositive DEF Grants
<1>6. /\ granted'[ip] = g /\ tokens'[ip] = level /\ lastRefill'[ip] = now
      /\ promised'[ip] = back
  BY <1>1, <1>2, CheckTouches DEF Record, LimiterInv, TypeOK
<1>7. TypeOK'
  <2>1. granted' \in [Ips -> Seq(Nat)]
    BY <1>1, <1>4 DEF Record, LimiterInv, TypeOK
  <2>2. promised' \in [Ips -> Nat \cup {Never}]
    BY <1>1, <1>3 DEF LimiterInv, TypeOK
  <2> QED
    BY <1>1, <1>2, <2>1, <2>2, CheckTouches DEF TypeOK
<1>8. Budget(ip)'
  <2> SUFFICES ASSUME NEW i \in DOMAIN g
               PROVE  (Len(g) - i + 1) * WindowMs + level
                         <= Burst * WindowMs + Rate * (now - g[i])
    BY <1>6 DEF Budget
  <2> DEFINE t == g[i]
             n == Len(g) - i + 1
             last == lastRefill[ip]
  <2>1. t \in Nat /\ n \in Nat /\ last \in Nat /\ tokens[ip] \in Nat
    BY <1>4, RefillNat DEF LimiterInv, TypeOK
  <2>2. n * WindowMs + tokens[ip] <= Burst * WindowMs + Rate * (last - t)
    BY <1>5 DEF LimiterInv, Budget
  <2>3. level <= tokens[ip] + (now - last) * Rate
    BY <1>5, RefilledBounds
  <2>4. n * WindowMs + level <= Burst * WindowMs + Rate * (now - t)
    <3> HIDE DEF n, t, last, level
    <3>1. Rate * (last - t) + (now - last) * Rate = Rate * (now - t)
      BY <1>2, <2>1, ConstantsPositive
    <3>2. /\ Rate * (last - t) \in Int /\ (now - last) * Rate \in Int
          /\ n * WindowMs \in Int /\ Rate * (now - t) \in Int
      BY <1>2, <2>1, ConstantsPositive
    <3> QED
      BY <1>2, <2>1, <2>2, <2>3, <3>1, <3>2, BurstCoversOne
  <2> QED
    BY <2>4
<1>9. Bounded(ip)'
  <2>1. Bounded(ip)
    BY DEF LimiterInv
  <2> QED
    BY <1>5, <1>6, <2>1 DEF Bounded
<1>10. Kept(ip)' /\ lastRefill'[ip] <= now'
  BY <1>1, <1>2, <1>3, <1>6 DEF Kept
<1>11. ASSUME NEW x \in Ips, x # ip
       PROVE  lastRefill'[x] <= now' /\ Budget(x)' /\ Bounded(x)' /\ Kept(x)'
  <2>1. promised'[x] = promised[x]
    BY <1>1, <1>11 DEF LimiterInv, TypeOK
  <2> QED
    BY <1>1, <1>2, <1>4, <1>11, <2>1, OthersKept
<1> QED
  BY <1>7, <1>8, <1>9, <1>10, <1>11 DEF LimiterInv

LEMMA TickKeeps ==
  ASSUME LimiterInv, Tick
  PROVE  LimiterInv'
<1>1. now \in Nat /\ now' = now + 1 /\ UNCHANGED <<order, tokens, lastRefill, granted, promised>>
  BY DEF Tick, LimiterInv, TypeOK
<1>2. TypeOK'
  BY <1>1 DEF LimiterInv, TypeOK
<1>3. ASSUME NEW ip \in Ips
      PROVE  lastRefill'[ip] <= now' /\ Budget(ip)' /\ Bounded(ip)' /\ Kept(ip)'
  BY <1>1, <1>3 DEF LimiterInv, TypeOK, Budget, Bounded, Kept, Tracked
<1> QED
  BY <1>2, <1>3 DEF LimiterInv

LEMMA InitHolds == Init => LimiterInv
<1> SUFFICES ASSUME Init PROVE LimiterInv
  OBVIOUS
<1>1. TypeOK
  BY ConstantsPositive, BurstCoversOne DEF Init, TypeOK
<1>2. ASSUME NEW ip \in Ips
      PROVE  lastRefill[ip] <= now /\ Budget(ip) /\ Bounded(ip) /\ Kept(ip)
  BY <1>2 DEF Init, Budget, Bounded, Kept
<1> QED
  BY <1>1, <1>2 DEF LimiterInv

LEMMA StutterKeeps ==
  ASSUME LimiterInv, UNCHANGED vars
  PROVE  LimiterInv'
<1>1. UNCHANGED <<order, tokens, lastRefill, now, granted, promised>>
  BY DEF vars
<1>2. TypeOK'
  BY <1>1 DEF LimiterInv, TypeOK
<1>3. ASSUME NEW ip \in Ips
      PROVE  lastRefill'[ip] <= now' /\ Budget(ip)' /\ Bounded(ip)' /\ Kept(ip)'
  BY <1>1, <1>3 DEF LimiterInv, Budget, Bounded, Kept, Tracked
<1> QED
  BY <1>2, <1>3 DEF LimiterInv

LEMMA StepKeeps == LimiterInv /\ [Next]_vars => LimiterInv'
<1> SUFFICES ASSUME LimiterInv, [Next]_vars
             PROVE  LimiterInv'
  OBVIOUS
<1>1. CASE \E ip \in Ips : Allow(ip)
  BY <1>1, AllowKeeps
<1>2. CASE \E ip \in Ips : Refuse(ip)
  BY <1>2, RefuseKeeps
<1>3. CASE Tick
  BY <1>3, TickKeeps
<1>4. CASE UNCHANGED vars
  BY <1>4, StutterKeeps
<1> QED
  BY <1>1, <1>2, <1>3, <1>4 DEF Next

THEOREM LimiterInvariant == Spec => []LimiterInv
  BY InitHolds, StepKeeps, PTL DEF Spec
-----------------------------------------------------------------------------
(***************************************************************************)
(* What the limiter guarantees                                             *)
(***************************************************************************)

\* The map stays within MAX_TRACKED_IPS and no bucket ever holds more than a burst.
THEOREM LimiterTypeCorrect == Spec => []TypeOK
<1>1. LimiterInv => TypeOK
  BY DEF LimiterInv
<1> QED
  BY <1>1, LimiterInvariant, PTL

\* Over every interval an address with a live bucket gets at most a burst plus the
\* sustained rate, for every rate, burst and window.
THEOREM RateAlwaysBounded == Spec => []RateBounded
<1>1. LimiterInv => RateBounded
  BY DEF LimiterInv, Bounded, RateBounded
<1> QED
  BY <1>1, LimiterInvariant, PTL

\* A client that comes back when it was told is let through: its bucket holds a
\* token by then, or was dropped and is made anew, full.
LEMMA NoBrokenPromise ==
  ASSUME LimiterInv, NEW ip \in Ips, promised[ip] # Never, now >= promised[ip]
  PROVE  ~Refuse(ip)
<1> SUFFICES ASSUME Refuse(ip) PROVE FALSE
  OBVIOUS
<1>1. Refilled(ip) < WindowMs
  BY DEF Refuse
<1>2. Tracked(ip) /\ Refilled(ip) = tokens[ip] + (now - lastRefill[ip]) * Rate
  BY <1>1, RefilledBounds, BurstCoversOne, ConstantsPositive
<1> DEFINE last == lastRefill[ip]
           back == promised[ip]
<1>3. now \in Nat /\ last \in Nat /\ back \in Nat /\ tokens[ip] \in Nat
  BY RefillNat DEF LimiterInv, TypeOK
<1>4. tokens[ip] + Rate * (back - last) >= WindowMs
  BY <1>2 DEF LimiterInv, Kept
<1> HIDE DEF last, back
<1>5. Rate * (now - back) \in Nat
  <2>1. now >= back
    BY DEF back
  <2> QED
    BY <1>3, <2>1, ConstantsPositive, ProductNat
<1>6. (now - last) * Rate = Rate * (back - last) + Rate * (now - back)
  BY <1>3, ConstantsPositive
<1>7. Rate * (back - last) \in Int /\ (now - last) * Rate \in Int
  BY <1>3, ConstantsPositive
<1>8. tokens[ip] + (now - last) * Rate >= WindowMs
  BY <1>3, <1>4, <1>5, <1>6, <1>7, ConstantsPositive
<1> QED
  BY <1>1, <1>2, <1>3, <1>7, <1>8, ConstantsPositive DEF last

\* Retry-After is honest, for every rate, burst, window and size of the map.
THEOREM RetryAfterAlwaysHonest == Spec => RetryAfterHonest
<1>1. LimiterInv => [\A ip \in Ips : promised[ip] # Never /\ now >= promised[ip]
                                       => ~Refuse(ip)]_vars
  BY NoBrokenPromise
<1> QED
  BY <1>1, LimiterInvariant, PTL DEF RetryAfterHonest
=============================================================================
