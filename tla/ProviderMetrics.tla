-------------------------- MODULE ProviderMetrics ---------------------------
(***************************************************************************)
(* The ProviderMetrics of src/core/metrics.js: lifetime counts of          *)
(* successes and failures per provider, the times to first byte of the     *)
(* last Window successes, and the ranking the router derives from them.    *)
(*                                                                         *)
(* The score is computed in exact fractions; the code computes it in       *)
(* floating point and rounds it to a whole number at the same place.       *)
(***************************************************************************)
EXTENDS Integers, SequencesExt, ProviderIds

CONSTANT Window    \* how many times to first byte are kept

ASSUME MetricsAssumption == Window \in Nat

VARIABLE stats     \* this.state: [ok, fail, ttfbMs] per provider

Stat == [ok : Nat, fail : Nat, ttfbMs : Seq(Nat)]

MetricsTypeOK == /\ stats \in [Ids -> Stat]
                 /\ \A p \in Ids : Len(stats[p].ttfbMs) <= Window

MetricsInit == stats = [p \in Ids |-> [ok |-> 0, fail |-> 0, ttfbMs |-> <<>>]]

\* Mutant: one sample too many is kept.
RecentOffByOne(s) == IF Len(s) > Window + 1 THEN Tail(s) ELSE s

\* Keep the last Window samples.
Recent(s) == IF Len(s) > Window THEN Tail(s) ELSE s

RecordSuccess(p, ttfb) ==
    stats' = [stats EXCEPT ![p].ok = @ + 1,
                           ![p].ttfbMs = Recent(Append(@, ttfb))]

RecordFailure(p) == stats' = [stats EXCEPT ![p].fail = @ + 1]
-----------------------------------------------------------------------------
(***************************************************************************)
(* The score: a success rate drawn towards 1/2 below five samples, less a  *)
(* latency penalty between 0 and 1/2, in percent.  Fractions are pairs     *)
(* <<numerator, denominator>>.                                             *)
(***************************************************************************)

Total(p) == stats[p].ok + stats[p].fail

\* prior * (1 - confidence) + successRate * confidence
Smoothed(p) == IF Total(p) >= 5
               THEN <<stats[p].ok, Total(p)>>
               ELSE <<5 - Total(p) + 2 * stats[p].ok, 10>>

Sum(s) == FoldLeft(+, 0, s)

\* (avgTtfb - 500) / 3000, where a provider without samples counts as 1000 ms
Latency(p) ==
    LET s == stats[p].ttfbMs
    IN  IF s = <<>> THEN <<500, 3000>>
        ELSE <<Sum(s) - 500 * Len(s), 3000 * Len(s)>>

\* Clamped to [0, 1/2]
Penalty(p) == LET l == Latency(p)
              IN  IF l[1] <= 0 THEN <<0, 1>>
                  ELSE IF 2 * l[1] >= l[2] THEN <<1, 2>> ELSE l

\* Math.round(100 * (a - b)) of two fractions: halves round up
RoundPercent(a, b) ==
    (200 * (a[1] * b[2] - b[1] * a[2]) + a[2] * b[2]) \div (2 * a[2] * b[2])

Score(p) == IF Total(p) = 0 THEN 50 ELSE RoundPercent(Smoothed(p), Penalty(p))

\* rank(): Array.prototype.sort is stable, so equal scores keep their order.
Place(ids, i) == 1 + Cardinality({j \in DOMAIN ids :
                        \/ Score(ids[j]) > Score(ids[i])
                        \/ Score(ids[j]) = Score(ids[i]) /\ j < i})

Rank(ids) == [k \in DOMAIN ids |->
                ids[CHOOSE i \in DOMAIN ids : Place(ids, i) = k]]
=============================================================================
