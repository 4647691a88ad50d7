--------------------------- MODULE CompletionProofs ---------------------------
(***************************************************************************)
(* Completion, for every set of providers, replies of any length, orders   *)
(* and timeouts: what its waits are bounded by, and that cutting a reply   *)
(* into pieces, letting them wait and failing over changes nothing of what *)
(* the handler gathers.                                                    *)
(*                                                                         *)
(* A fold over a reply instantiates FoldFacts with its operator; recursive *)
(* tables (StripInline, AirforceLines) are shown to exist from the last    *)
(* row up, and what they hold by induction over sets of numbers.           *)
(***************************************************************************)
EXTENDS Completion, SequenceLemmas, FiniteSetTheorems

(***************************************************************************)
(* The waits                                                               *)
(***************************************************************************)

\* A wait that could begin after an abort, or without a deadline, has no stream to
\* wait for.
StreamOver == stage \in {"holding", "looping"} /\ (aborted \/ Format[Provider] = "get")
                  => socket # "open"

\* pollinations-get never reads a stream.
GetReadsNone == stage = "reading" => Format[Provider] # "get"

\* While a read is awaited, the age of the stream beyond its deadline is part of
\* the wait.
WaitAge == stage = "reading" => /\ period = HeartbeatMs
                                /\ quiet <= HeartbeatMs + TimerSlack
                                /\ elapsed <= DeadlineMs + quiet

Clocks == quiet \in Nat /\ elapsed \in Nat

IInv == Clocks /\ StreamOver /\ GetReadsNone /\ AbortStopsReading /\ WaitAge

\* The next attempt, or the end: no read waits.
LEMMA NotReading ==
    ASSUME Clocks, AttemptFails \/ AttemptEnds
    PROVE  stage' \in {"fetching", "done", "failed"} /\ Clocks'
  BY DEF AttemptFails, AttemptEnds, Call, Settle, ClearTimer, SetTimer, Clocks, Settled

LEMMA NotReadingInv ==
    ASSUME stage' \in {"fetching", "refused", "body", "done", "failed"}, Clocks'
    PROVE  IInv'
  BY DEF IInv, StreamOver, GetReadsNone, AbortStopsReading, WaitAge

\* Every step that leaves the attempt behind.
LEMMA AttemptOver ==
    ASSUME IInv, AttemptFails \/ AttemptEnds
    PROVE  IInv'
  BY NotReading, NotReadingInv DEF IInv

LEMMA InitInv == Init => IInv
  BY DEF Init, IInv, Clocks, StreamOver, GetReadsNone, AbortStopsReading, WaitAge

LEMMA StepInv == IInv /\ [Next]_vars => IInv'
<1> SUFFICES ASSUME IInv, [Next]_vars PROVE IInv'
  OBVIOUS
<1> USE WatchdogAssumption DEF Running, Settled
<1> DEFINE Same == Provider' = Provider
<1>1. CASE Start
  <2>1. stage' = "fetching" /\ Clocks'
    BY <1>1 DEF Start, Call, ClearTimer, SetTimer, IInv, Clocks
  <2> QED BY <2>1, NotReadingInv
<1>2. CASE FetchThrows \/ RefusalEnds \/ BodyThrows \/ HeartbeatTimeout \/ Leave
  BY <1>2, AttemptOver DEF FetchThrows, RefusalEnds, BodyThrows, HeartbeatTimeout, Leave
<1>3. CASE FetchAborted \/ ConnectTimeout \/ BodyAborted
  BY <1>3, AttemptOver DEF FetchAborted, ConnectTimeout, BodyAborted, FetchThrows, BodyThrows
<1>4. CASE Respond
  <2>1. Same /\ aborted' = aborted /\ ~aborted /\ Clocks'
    BY <1>4 DEF Respond, Provider, SetTimer, watchVars, IInv, Clocks
  <2>2. CASE Format[Provider] = "get"
    BY <1>4, <2>1, <2>2, NotReadingInv DEF Respond
  <2>3. CASE Format[Provider] # "get"
    <3>1. stage' = "reading" /\ period' = HeartbeatMs /\ quiet' = 0 /\ elapsed' = 0
      BY <1>4, <2>3 DEF Respond, SetTimer
    <3> QED BY <2>1, <2>3, <3>1
            DEF IInv, StreamOver, GetReadsNone, AbortStopsReading, WaitAge
  <2> QED BY <2>2, <2>3
<1>5. CASE Refuse
  <2>1. stage' = "refused" /\ Clocks'
    BY <1>5 DEF Refuse, ClearTimer, IInv, Clocks
  <2> QED BY <2>1, NotReadingInv
<1>6. CASE BodyEnds
  BY <1>6 DEF BodyEnds, IInv, Clocks, StreamOver, GetReadsNone, AbortStopsReading, WaitAge
<1>7. CASE Loop
  <2>1. CASE AttemptFails \/ AttemptEnds
    BY <2>1, AttemptOver
  <2>2. CASE /\ UNCHANGED <<order, at, aborted>>
             /\ \E piece \in Range(queue) : ReadNext(piece) /\ Take(piece, 0)
    <3>1. Same /\ aborted' = aborted /\ UNCHANGED <<period, quiet, elapsed, socket>>
      BY <2>2 DEF Provider, ReadNext
    <3>2. stage' \in {"looping", "holding"}
      BY <2>2 DEF Take
    <3> QED BY <1>7, <3>1, <3>2 DEF Loop, IInv, Clocks, StreamOver, GetReadsNone,
                                    AbortStopsReading, WaitAge
  <2>3. CASE ~Overdue /\ AwaitRead /\ stage' = "reading" /\ UNCHANGED <<order, at, aborted>>
    <3>1. Same /\ aborted' = aborted
      BY <2>3 DEF Provider
    <3>2. ~aborted /\ Format[Provider] # "get"
      BY <1>7, <2>3 DEF Loop, AwaitRead, IInv, StreamOver
    <3>3. period' = HeartbeatMs /\ quiet' = 0 /\ elapsed' = elapsed /\ elapsed <= DeadlineMs
      BY <2>3, <3>2 DEF AwaitRead, SetTimer, Overdue, DeadlineExceeded, IInv, Clocks
    <3> QED BY <2>3, <3>1, <3>2, <3>3 DEF IInv, Clocks, StreamOver, GetReadsNone,
                                          AbortStopsReading, WaitAge
  <2> QED BY <1>7, <2>1, <2>2, <2>3 DEF Loop
<1>8. CASE Pull
  <2>1. Same /\ UNCHANGED <<aborted, quiet, elapsed, socket>> /\ stage = "holding"
        /\ stage' \in {"looping", "holding"}
    BY <1>8 DEF Pull, Provider, watchVars
  <2> QED BY <2>1 DEF IInv, Clocks, StreamOver, GetReadsNone, AbortStopsReading, WaitAge
<1>9. CASE \E n \in 1..Len(Wire) : Send(n)
  <2>1. Same /\ UNCHANGED <<aborted, elapsed, socket>> /\ socket = "open" /\ Clocks'
    BY <1>9 DEF Send, Provider, ClearTimer, IInv, Clocks
  <2>2. stage' \in {"looping", "holding"} /\ stage \in {"reading", "holding"}
    BY <1>9 DEF Send, Take
  <2> QED BY <2>1, <2>2 DEF IInv, Clocks, StreamOver, GetReadsNone, AbortStopsReading, WaitAge
<1>10. CASE UpstreamCloses \/ UpstreamFails
  <2>1. CASE AttemptEnds \/ AttemptFails
    BY <2>1, AttemptOver
  <2>2. CASE stage = "holding" /\ socket' # "open" /\ UNCHANGED <<stage, quiet, elapsed>>
    BY <2>2 DEF IInv, Clocks, StreamOver, GetReadsNone, AbortStopsReading, WaitAge
  <2> QED BY <1>10, <2>1, <2>2 DEF UpstreamCloses, UpstreamFails
<1>11. CASE Abort
  <2>1. CASE AttemptEnds
    BY <2>1, AttemptOver
  <2>2. CASE stage = "holding" /\ socket' = "cancelled" /\ UNCHANGED <<stage, quiet, elapsed>>
    BY <2>2 DEF IInv, Clocks, StreamOver, GetReadsNone, AbortStopsReading, WaitAge
  <2>3. CASE stage \in {"fetching", "refused", "body"} /\ UNCHANGED <<watchVars, stage>>
    BY <2>3, NotReadingInv DEF IInv, Clocks, watchVars
  <2>4. CASE stage = "holding" /\ Format[Provider] = "get" /\ UNCHANGED <<watchVars, stage, order, at>>
    <3>1. Same
      BY <2>4 DEF Provider
    <3> QED BY <2>4, <3>1 DEF IInv, Clocks, StreamOver, GetReadsNone, AbortStopsReading,
                              WaitAge, watchVars
  <2> QED BY <1>11, <2>1, <2>2, <2>3, <2>4 DEF Abort, CancelReader
<1>12. CASE Pass
  <2>1. Same /\ UNCHANGED <<stage, aborted, period, socket>>
    BY <1>12 DEF Pass, Tick, Provider
  <2>2. Clocks'
    BY <1>12 DEF Pass, Tick, IInv, Clocks, Far
  <2>3. CASE stage = "reading"
    <3>1. period = HeartbeatMs /\ elapsed <= DeadlineMs + quiet
      BY <2>3 DEF IInv, WaitAge
    <3>2. quiet' = quiet + 1 /\ quiet < HeartbeatMs + TimerSlack /\ elapsed' <= elapsed + 1
      BY <1>12, <3>1 DEF Pass, Tick, IInv, Clocks, Far
    <3>3. elapsed' <= DeadlineMs + quiet' /\ quiet' <= HeartbeatMs + TimerSlack
      BY <2>2, <3>1, <3>2 DEF IInv, Clocks
    <3> QED BY <2>1, <2>2, <2>3, <3>1, <3>3 DEF IInv, StreamOver, GetReadsNone,
                                                AbortStopsReading, WaitAge
  <2>4. CASE stage # "reading"
    BY <2>1, <2>2, <2>4 DEF IInv, StreamOver, GetReadsNone, AbortStopsReading, WaitAge
  <2> QED BY <2>3, <2>4
<1>13. CASE UNCHANGED vars
  BY <1>13 DEF vars, watchVars, IInv, Clocks, StreamOver, GetReadsNone, AbortStopsReading,
               WaitAge, Provider
<1> QED BY <1>1, <1>2, <1>3, <1>4, <1>5, <1>6, <1>7, <1>8, <1>9, <1>10, <1>11, <1>12, <1>13
        DEF Next, Network

LEMMA Always == Spec => []IInv
  BY InitInv, StepInv, PTL DEF Spec

\* After an abort no read is awaited, whichever chunk, timer or failover it meets.
THEOREM AbortedNeverReads == Spec => []AbortStopsReading
<1>1. IInv => AbortStopsReading
  BY DEF IInv
<1> QED BY <1>1, Always, PTL

\* A read ends by the deadline, one heartbeat and the timer's delay after the
\* response, for all four timeouts of the providers' modules.
THEOREM WaitsAreBounded == Spec => []WaitBounded
<1>1. IInv => WaitBounded
  <2> SUFFICES ASSUME IInv, stage = "reading"
               PROVE  elapsed <= DeadlineMs + HeartbeatMs + TimerSlack
    BY DEF WaitBounded
  <2>1. quiet <= HeartbeatMs + TimerSlack /\ elapsed <= DeadlineMs + quiet
    BY DEF IInv, WaitAge
  <2> QED BY <2>1, WatchdogAssumption DEF IInv, Clocks
<1> QED BY <1>1, Always, PTL
-----------------------------------------------------------------------------
(***************************************************************************)
(* One delta after the other: the text, the tags and the calls of a        *)
(* sequence of deltas, and what decoding it adds to what the handler has   *)
(***************************************************************************)

Stripped == [inside : BOOLEAN, out : Seq(STRING)]

StripRow(text, g, i) ==
    [inside \in BOOLEAN |->
        IF i > Len(text) THEN [inside |-> inside, out |-> <<>>]
        ELSE IF IF inside THEN CloseAt(text, i) ELSE OpenAt(text, i)
        THEN g[i + 2][~inside]
        ELSE IF inside THEN g[i + 1][inside]
        ELSE [g[i + 1][inside] EXCEPT !.out = <<text[i]>> \o @]]

StripTable(text) == CHOOSE g : g = [i \in 1..(Len(text) + 1) |-> StripRow(text, g, i)]

\* The table that StripInline reads off.
LEMMA InlineFromTable ==
    ASSUME NEW text, NEW b PROVE StripInline(text, b) = StripTable(text)[1][b]
  BY DEF StripInline, StripTable, StripRow

\* A row depends on those below.
LEMMA RowsBelow ==
    ASSUME NEW text, Len(text) \in Nat, NEW i \in 1..(Len(text) + 1), NEW g, NEW h,
           \A k \in (i + 1)..(Len(text) + 1) : g[k] = h[k]
    PROVE  StripRow(text, g, i) = StripRow(text, h, i)
<1>1. CASE i = Len(text) + 1
  BY <1>1 DEF StripRow
<1>2. CASE i \in 1..Len(text)
  <2>1. g[i + 1] = h[i + 1]
    BY <1>2
  <2>2. (CloseAt(text, i) \/ OpenAt(text, i)) => g[i + 2] = h[i + 2]
    BY <1>2 DEF OpenAt, CloseAt
  <2> QED BY <2>1, <2>2, Zenon DEF StripRow
<1> QED BY <1>1, <1>2

\* That table exists.
LEMMA TableRows ==
    ASSUME NEW text, Len(text) \in Nat
    PROVE  \A i \in 1..(Len(text) + 1) :
               StripTable(text)[i] = StripRow(text, StripTable(text), i)
<1> DEFINE N == Len(text) + 1
           Solves(g, i) == \A k \in i..N : g[k] = StripRow(text, g, k)
           S == {i \in 1..N : \E g : Solves(g, i)}
<1>1. N \in S
  <2> DEFINE g == [k \in 1..N |-> StripRow(text, <<>>, k)]
  <2>1. StripRow(text, <<>>, N) = StripRow(text, g, N)
    BY DEF StripRow
  <2> QED BY <2>1
<1>2. ASSUME NEW i \in 2..N, i \in S PROVE i - 1 \in S
  <2>1. PICK g : Solves(g, i)
    BY <1>2
  <2> DEFINE j == i - 1
             h == [k \in 1..N |-> IF k = j THEN StripRow(text, g, j) ELSE g[k]]
  <2>2. j \in 1..N /\ h[j] = StripRow(text, g, j) /\ \A k \in i..N : k # j /\ h[k] = g[k]
    OBVIOUS
  <2> HIDE DEF h
  <2>3. ASSUME NEW k \in j..N PROVE h[k] = StripRow(text, h, k)
    <3>1. StripRow(text, g, k) = StripRow(text, h, k)
      <4>1. \A l \in (k + 1)..N : g[l] = h[l]
        BY <2>2
      <4>2. k \in 1..(Len(text) + 1)
        BY <2>2
      <4> HIDE DEF j
      <4> QED BY <4>1, <4>2, RowsBelow
    <3> QED BY <2>1, <2>2, <3>1
  <2> QED BY <2>2, <2>3
<1>3. 1 \in S
  <2>1. N \in Nat \ {0} /\ Descends(S, N)
    BY <1>1, <1>2 DEF Descends
  <2> HIDE DEF S, N
  <2> QED BY <2>1, DownToOne
<1> HIDE DEF S
<1>4. PICK g : Solves(g, 1)
  BY <1>3 DEF S
<1> DEFINE f == [i \in 1..N |-> g[i]]
<1>5. \A i \in 1..N : f[i] = StripRow(text, f, i)
  <2> SUFFICES ASSUME NEW i \in 1..N PROVE g[i] = StripRow(text, f, i)
    OBVIOUS
  <2>1. StripRow(text, g, i) = StripRow(text, f, i)
    BY RowsBelow
  <2> QED BY <1>4, <2>1
<1>6. f = [i \in 1..N |-> StripRow(text, f, i)]
  BY <1>5
<1> HIDE DEF f
<1>7. StripTable(text) = [i \in 1..N |-> StripRow(text, StripTable(text), i)]
  BY <1>6 DEF StripTable
<1> QED BY <1>7

LEMMA Prepended ==
    ASSUME NEW x \in Stripped, NEW w \in STRING
    PROVE  /\ [x EXCEPT !.out = <<w>> \o @] = [inside |-> x.inside, out |-> <<w>> \o x.out]
           /\ [inside |-> x.inside, out |-> <<w>> \o x.out] \in Stripped
<1>1. PICK b \in BOOLEAN, o \in Seq(STRING) : x = [inside |-> b, out |-> o]
  BY DEF Stripped
<1>2. <<w>> \in Seq(STRING) /\ <<w>> \o o \in Seq(STRING)
  BY ConcatProperties
<1> DEFINE longer == <<w>> \o o
<1> HIDE DEF longer
<1>3. [inside |-> b, out |-> longer] \in Stripped
  BY <1>2 DEF Stripped, longer
<1>4. x.inside = b /\ x.out = o
  BY <1>1
<1>5. <<w>> \o x.out = longer
  BY <1>4 DEF longer
<1>6. [x EXCEPT !.out = longer] = [inside |-> b, out |-> longer]
  BY <1>1
<1> QED BY <1>3, <1>4, <1>5, <1>6

\* What the loop makes of the rest of the text, from word i on.
LEMMA StripEquations ==
    ASSUME NEW text \in Seq(STRING)
    PROVE  LET n == Len(text)
               g == StripTable(text)
           IN  /\ \A i \in 1..(n + 1), b \in BOOLEAN : g[i][b] \in Stripped
               /\ \A b \in BOOLEAN : g[n + 1][b] = [inside |-> b, out |-> <<>>]
               /\ \A i \in 1..n : /\ CloseAt(text, i) => g[i][TRUE] = g[i + 2][FALSE]
                                  /\ ~CloseAt(text, i) => g[i][TRUE] = g[i + 1][TRUE]
                                  /\ OpenAt(text, i) => g[i][FALSE] = g[i + 2][TRUE]
                                  /\ ~OpenAt(text, i) => g[i][FALSE] =
                                       [inside |-> g[i + 1][FALSE].inside,
                                        out |-> <<text[i]>> \o g[i + 1][FALSE].out]
<1> DEFINE n == Len(text)
           g == StripTable(text)
<1>1. n \in Nat /\ \A i \in 1..n : text[i] \in STRING
  OBVIOUS
<1>2. \A i \in 1..(n + 1) : g[i] = StripRow(text, g, i)
  BY <1>1, TableRows
<1> HIDE DEF g
<1>3. ASSUME NEW b \in BOOLEAN PROVE g[n + 1][b] = [inside |-> b, out |-> <<>>]
  <2>1. n + 1 \in 1..(n + 1) /\ n + 1 > Len(text)
    BY <1>1
  <2>2. StripRow(text, g, n + 1)[b] = [inside |-> b, out |-> <<>>]
    BY <2>1 DEF StripRow
  <2> QED BY <1>2, <2>1, <2>2
<1>4. ASSUME NEW i \in 1..n
      PROVE  /\ CloseAt(text, i) => g[i][TRUE] = g[i + 2][FALSE]
             /\ ~CloseAt(text, i) => g[i][TRUE] = g[i + 1][TRUE]
             /\ OpenAt(text, i) => g[i][FALSE] = g[i + 2][TRUE]
             /\ ~OpenAt(text, i) => g[i][FALSE] =
                                      [g[i + 1][FALSE] EXCEPT !.out = <<text[i]>> \o @]
  <2>1. i \in 1..(n + 1) /\ ~(i > Len(text))
    BY <1>1
  <2>2. g[i] = StripRow(text, g, i)
    BY <1>2, <2>1
  <2> QED BY <2>1, <2>2 DEF StripRow
<1> DEFINE S == {i \in 1..(n + 1) : \A k \in i..(n + 1), b \in BOOLEAN : g[k][b] \in Stripped}
<1>5. n + 1 \in S
  <2>1. \A b \in BOOLEAN : [inside |-> b, out |-> <<>>] \in Stripped
    BY DEF Stripped
  <2>2. \A b \in BOOLEAN : g[n + 1][b] \in Stripped
    BY <1>3, <2>1
  <2>3. \A k \in (n + 1)..(n + 1) : k = n + 1
    BY <1>1
  <2> QED BY <1>1, <2>2, <2>3
<1>6. ASSUME NEW i \in 2..(n + 1), i \in S PROVE i - 1 \in S
  <2> DEFINE j == i - 1
  <2>1. j \in 1..n /\ j + 1 = i /\ (CloseAt(text, j) \/ OpenAt(text, j) => j + 2 \in i..(n + 1))
    BY <1>1 DEF CloseAt, OpenAt
  <2>2. \A b \in BOOLEAN : g[j + 1][b] \in Stripped
    BY <1>6, <2>1
  <2>3. CloseAt(text, j) \/ OpenAt(text, j) => \A b \in BOOLEAN : g[j + 2][b] \in Stripped
    BY <1>6, <2>1
  <2>4. [g[j + 1][FALSE] EXCEPT !.out = <<text[j]>> \o @] \in Stripped
    <3>1. text[j] \in STRING
      BY <1>1, <2>1
    <3>2. g[j + 1][FALSE] \in Stripped
      BY <2>2
    <3> HIDE DEF j
    <3> QED BY <3>1, <3>2, Prepended
  <2> HIDE DEF j
  <2>5. \A b \in BOOLEAN : g[j][b] \in Stripped
    <3>1. g[j][TRUE] \in Stripped
      BY <1>4, <2>1, <2>2, <2>3
    <3>2. g[j][FALSE] \in Stripped
      BY <1>4, <2>1, <2>2, <2>3, <2>4
    <3> QED BY <3>1, <3>2
  <2>6. \A k \in j..(n + 1) : k = j \/ k \in i..(n + 1)
    BY <2>1
  <2>7. j \in S
    BY <1>1, <1>6, <2>1, <2>5, <2>6
  <2> QED BY <2>7 DEF j
<1>7. \A i \in 1..(n + 1), b \in BOOLEAN : g[i][b] \in Stripped
  <2> DEFINE N == n + 1
  <2>1. N \in Nat \ {0} /\ Descends(S, N)
    BY <1>1, <1>5, <1>6 DEF Descends
  <2> HIDE DEF S, N
  <2>2. 1 \in S
    BY <2>1, DownToOne
  <2> QED BY <2>2 DEF S
<1>8. ASSUME NEW i \in 1..n
      PROVE  [g[i + 1][FALSE] EXCEPT !.out = <<text[i]>> \o @]
                 = [inside |-> g[i + 1][FALSE].inside, out |-> <<text[i]>> \o g[i + 1][FALSE].out]
  <2>1. i + 1 \in 1..(n + 1) /\ text[i] \in STRING
    BY <1>1
  <2>2. g[i + 1][FALSE] \in Stripped
    BY <1>7, <2>1
  <2> QED BY <2>1, <2>2, Prepended
<1> QED BY <1>3, <1>4, <1>7, <1>8 DEF g

\* Where tags begin in a text put together from two, no tag among them torn.
LEMMA TagsOfConcat ==
    ASSUME NEW s \in Seq(STRING), NEW t \in Seq(STRING)
    PROVE  /\ \A i \in 1..Len(t) : /\ OpenAt(s \o t, Len(s) + i) <=> OpenAt(t, i)
                                   /\ CloseAt(s \o t, Len(s) + i) <=> CloseAt(t, i)
           /\ ~Tears(s, t) => \A i \in 1..Len(s) : /\ OpenAt(s \o t, i) <=> OpenAt(s, i)
                                                   /\ CloseAt(s \o t, i) <=> CloseAt(s, i)
<1> DEFINE u == s \o t
           m == Len(s)
           n == Len(t)
<1>1. /\ m \in Nat /\ n \in Nat /\ Len(u) = m + n
      /\ \A i \in 1..m : u[i] = s[i]
      /\ \A i \in 1..n : u[m + i] = t[i]
  BY ConcatProperties
<1> HIDE DEF u
<1>2. \A i \in 1..n : /\ OpenAt(u, m + i) <=> OpenAt(t, i)
                      /\ CloseAt(u, m + i) <=> CloseAt(t, i)
  <2> SUFFICES ASSUME NEW i \in 1..n
               PROVE  /\ OpenAt(u, m + i) <=> OpenAt(t, i)
                      /\ CloseAt(u, m + i) <=> CloseAt(t, i)
    OBVIOUS
  <2>1. u[m + i] = t[i] /\ (m + i < Len(u) <=> i < n)
    BY <1>1
  <2>2. i < n => u[m + i + 1] = t[i + 1]
    <3>1. i < n => i + 1 \in 1..n /\ m + (i + 1) = m + i + 1
      BY <1>1
    <3> QED BY <1>1, <3>1
  <2> QED BY <2>1, <2>2 DEF OpenAt, CloseAt
<1>3. ASSUME ~Tears(s, t), NEW i \in 1..m
      PROVE  /\ OpenAt(u, i) <=> OpenAt(s, i)
             /\ CloseAt(u, i) <=> CloseAt(s, i)
  <2>1. CASE i < m
    <3>1. u[i] = s[i] /\ u[i + 1] = s[i + 1] /\ i < Len(u)
      BY <1>1, <2>1
    <3> QED BY <2>1, <3>1 DEF OpenAt, CloseAt
  <2>2. CASE i = m
    <3>1. ~OpenAt(s, i) /\ ~CloseAt(s, i)
      BY <1>1, <2>2 DEF OpenAt, CloseAt
    <3>2. ASSUME i < Len(u), u[i] \in {"<think", "</think"}, u[i + 1] = ">" PROVE FALSE
      <4>1. 1 \in 1..n /\ m + 1 = i + 1
        BY <1>1, <2>2, <3>2
      <4>2. s # <<>> /\ t # <<>> /\ Head(t) = t[1] /\ Last(s) = s[m]
        BY <1>1, <2>2, <4>1 DEF Last
      <4>3. u[i] = s[m] /\ u[i + 1] = t[1]
        BY <1>1, <2>2, <4>1
      <4> QED BY <1>3, <3>2, <4>2, <4>3 DEF Tears
    <3> QED BY <3>1, <3>2 DEF OpenAt, CloseAt
  <2>3. i < m \/ i = m
    BY <1>1
  <2> QED BY <2>1, <2>2, <2>3
<1> QED BY <1>2, <1>3 DEF u

\* What StripEquations says of a table.
StripRules(text, g) ==
    /\ \A i \in 1..(Len(text) + 1), b \in BOOLEAN : g[i][b] \in Stripped
    /\ \A b \in BOOLEAN : g[Len(text) + 1][b] = [inside |-> b, out |-> <<>>]
    /\ \A i \in 1..Len(text) :
           /\ CloseAt(text, i) => g[i][TRUE] = g[i + 2][FALSE]
           /\ ~CloseAt(text, i) => g[i][TRUE] = g[i + 1][TRUE]
           /\ OpenAt(text, i) => g[i][FALSE] = g[i + 2][TRUE]
           /\ ~OpenAt(text, i) => g[i][FALSE] = [inside |-> g[i + 1][FALSE].inside,
                                                 out |-> <<text[i]>> \o g[i + 1][FALSE].out]

\* y after x, with a word before both.
Joined(x, y) == [inside |-> y.inside, out |-> x.out \o y.out]

LEMMA JoinedAgain ==
    ASSUME NEW x \in Stripped, NEW y \in Stripped, NEW w \in STRING
    PROVE  Joined([inside |-> x.inside, out |-> <<w>> \o x.out], y)
               = [inside |-> Joined(x, y).inside, out |-> <<w>> \o Joined(x, y).out]
<1>1. PICK c \in BOOLEAN, o \in Seq(STRING) : x = [inside |-> c, out |-> o]
  BY DEF Stripped
<1>2. PICK d \in BOOLEAN, p \in Seq(STRING) : y = [inside |-> d, out |-> p]
  BY DEF Stripped
<1>3. <<w>> \in Seq(STRING)
  BY OneWord
<1>4. (<<w>> \o o) \o p = <<w>> \o (o \o p)
  BY <1>3, ConcatAssociative
<1> QED BY <1>1, <1>2, <1>4 DEF Joined

\* The tables of two texts and of both together.
Tables(s, t, u, f, h, g) == /\ s \in Seq(STRING) /\ t \in Seq(STRING) /\ u = s \o t
                            /\ StripRules(s, f) /\ StripRules(t, h) /\ StripRules(u, g)

\* The second text's table is the end of the joint table.
LEMMA TableOfEnd ==
    ASSUME NEW s, NEW t, NEW u, NEW f, NEW h, NEW g, Tables(s, t, u, f, h, g), NEW e \in BOOLEAN
    PROVE  g[Len(s) + 1][e] = h[1][e]
<1> DEFINE n == Len(t)
           m == Len(s)
<1>0. /\ s \in Seq(STRING) /\ t \in Seq(STRING) /\ u = s \o t
      /\ StripRules(t, h) /\ StripRules(u, g)
  BY DEF Tables
<1>1. /\ m \in Nat /\ n \in Nat /\ Len(u) = m + n
      /\ \A i \in 1..n : u[m + i] = t[i]
  BY <1>0, ConcatProperties
<1>2. \A i \in 1..n : /\ OpenAt(u, m + i) <=> OpenAt(t, i)
                      /\ CloseAt(u, m + i) <=> CloseAt(t, i)
  BY <1>0, TagsOfConcat
<1> DEFINE N == n + 1
           S == {i \in 1..N : \A k \in i..N, d \in BOOLEAN : g[m + k][d] = h[k][d]}
<1>3. N \in S
  <2>1. \A c \in BOOLEAN : h[N][c] = [inside |-> c, out |-> <<>>]
    BY <1>0 DEF StripRules
  <2>2. \A c \in BOOLEAN : g[m + N][c] = [inside |-> c, out |-> <<>>]
    <3>1. m + N = Len(u) + 1
      BY <1>1
    <3> QED BY <1>0, <3>1 DEF StripRules
  <2>3. N \in 1..N /\ \A k \in N..N : k = N
    BY <1>1
  <2> HIDE DEF N
  <2> QED BY <2>1, <2>2, <2>3
<1>4. ASSUME NEW i \in 2..N, i \in S PROVE i - 1 \in S
  <2> DEFINE j == i - 1
  <2>1. /\ j \in 1..n /\ j + 1 = i /\ m + j \in 1..Len(u)
        /\ m + j + 1 = m + i /\ m + j + 2 = m + (j + 2)
        /\ CloseAt(t, j) \/ OpenAt(t, j) => j + 2 \in i..N
        /\ \A k \in j..N : k = j \/ k \in i..N
        /\ i \in i..N /\ j \in 1..N
    BY <1>1 DEF CloseAt, OpenAt
  <2> HIDE DEF j, n, N
  <2>2. \A c \in BOOLEAN : g[m + j + 1][c] = h[j + 1][c]
    BY <1>4, <2>1
  <2>3. CloseAt(t, j) \/ OpenAt(t, j) => \A c \in BOOLEAN : g[m + j + 2][c] = h[j + 2][c]
    BY <1>4, <2>1
  <2>4. /\ CloseAt(t, j) => h[j][TRUE] = h[j + 2][FALSE]
        /\ ~CloseAt(t, j) => h[j][TRUE] = h[j + 1][TRUE]
        /\ OpenAt(t, j) => h[j][FALSE] = h[j + 2][TRUE]
        /\ ~OpenAt(t, j) => h[j][FALSE] = [inside |-> h[j + 1][FALSE].inside,
                                           out |-> <<t[j]>> \o h[j + 1][FALSE].out]
    BY <1>0, <2>1 DEF StripRules, n
  <2>5. /\ CloseAt(u, m + j) => g[m + j][TRUE] = g[m + j + 2][FALSE]
        /\ ~CloseAt(u, m + j) => g[m + j][TRUE] = g[m + j + 1][TRUE]
        /\ OpenAt(u, m + j) => g[m + j][FALSE] = g[m + j + 2][TRUE]
        /\ ~OpenAt(u, m + j) => g[m + j][FALSE] = [inside |-> g[m + j + 1][FALSE].inside,
                                           out |-> <<u[m + j]>> \o g[m + j + 1][FALSE].out]
    BY <1>0, <2>1 DEF StripRules
  <2>6. u[m + j] = t[j]
    BY <1>1, <2>1
  <2>7. (OpenAt(u, m + j) <=> OpenAt(t, j)) /\ (CloseAt(u, m + j) <=> CloseAt(t, j))
    BY <1>2, <2>1
  <2>8. g[m + j][TRUE] = h[j][TRUE] /\ g[m + j][FALSE] = h[j][FALSE]
    BY <2>2, <2>3, <2>4, <2>5, <2>6, <2>7
  <2>9. \A k \in i..N, c \in BOOLEAN : g[m + k][c] = h[k][c]
    BY <1>4
  <2>10. \A k \in j..N, c \in BOOLEAN : g[m + k][c] = h[k][c]
    BY <2>1, <2>8, <2>9
  <2>11. j \in S
    BY <2>1, <2>10
  <2> QED BY <2>11 DEF j
<1>7. 1 \in S
  <2>1. N \in Nat \ {0} /\ Descends(S, N)
    BY <1>1, <1>3, <1>4 DEF Descends
  <2> HIDE DEF S, N
  <2> QED BY <2>1, DownToOne
<1> QED BY <1>1, <1>7

\* The joint table begins with that of the first text, followed by what the loop
\* makes of the second.
LEMMA TableOfStart ==
    ASSUME NEW s, NEW t, NEW u, NEW f, NEW h, NEW g, Tables(s, t, u, f, h, g), ~Tears(s, t)
    PROVE  \A c \in BOOLEAN : g[1][c] = Joined(f[1][c], h[1][f[1][c].inside])
<1> DEFINE m == Len(s)
           N == m + 1
           S == {i \in 1..N : \A k \in i..N, c \in BOOLEAN :
                                  g[k][c] = Joined(f[k][c], h[1][f[k][c].inside])}
<1>0. /\ s \in Seq(STRING) /\ t \in Seq(STRING) /\ u = s \o t
      /\ StripRules(s, f) /\ StripRules(t, h) /\ StripRules(u, g)
  BY DEF Tables
<1>1. /\ m \in Nat /\ Len(t) \in Nat /\ Len(u) = m + Len(t)
      /\ \A i \in 1..m : u[i] = s[i] /\ s[i] \in STRING
  BY <1>0, ConcatProperties
<1>2. \A i \in 1..m : /\ OpenAt(u, i) <=> OpenAt(s, i)
                      /\ CloseAt(u, i) <=> CloseAt(s, i)
  BY <1>0, TagsOfConcat
<1>3. \A c \in BOOLEAN : h[1][c] \in Stripped
  <2>1. 1 \in 1..(Len(t) + 1)
    BY <1>1
  <2> QED BY <1>0, <2>1 DEF StripRules
<1>4. \A i \in 1..N, c \in BOOLEAN : f[i][c] \in Stripped
  BY <1>0 DEF StripRules
<1>5. N \in S
  <2>1. ASSUME NEW c \in BOOLEAN PROVE g[N][c] = Joined(f[N][c], h[1][f[N][c].inside])
    <3>1. f[N][c] = [inside |-> c, out |-> <<>>]
      BY <1>0 DEF StripRules
    <3>2. g[N][c] = h[1][c]
      BY TableOfEnd
    <3>3. PICK d \in BOOLEAN, o \in Seq(STRING) : h[1][c] = [inside |-> d, out |-> o]
      BY <1>3 DEF Stripped
    <3>4. <<>> \o o = o
      BY ConcatEmptySeq
    <3> HIDE DEF N
    <3> QED BY <3>1, <3>2, <3>3, <3>4 DEF Joined
  <2>2. N \in 1..N /\ \A k \in N..N : k = N
    BY <1>1
  <2> HIDE DEF N
  <2> QED BY <2>1, <2>2
<1>6. ASSUME NEW i \in 2..N, i \in S PROVE i - 1 \in S
  <2> DEFINE j == i - 1
  <2>1. /\ j \in 1..m /\ j + 1 = i /\ j \in 1..Len(u)
        /\ CloseAt(s, j) \/ OpenAt(s, j) => j + 2 \in i..N
        /\ \A k \in j..N : k = j \/ k \in i..N
        /\ i \in i..N /\ j \in 1..N /\ i \in 1..N
    BY <1>1 DEF CloseAt, OpenAt
  <2> HIDE DEF j, m, N
  <2>2. \A c \in BOOLEAN : g[i][c] = Joined(f[i][c], h[1][f[i][c].inside])
    BY <1>6, <2>1
  <2>3. CloseAt(s, j) \/ OpenAt(s, j) =>
            \A c \in BOOLEAN : g[j + 2][c] = Joined(f[j + 2][c], h[1][f[j + 2][c].inside])
    BY <1>6, <2>1
  <2>4. /\ CloseAt(s, j) => f[j][TRUE] = f[j + 2][FALSE]
        /\ ~CloseAt(s, j) => f[j][TRUE] = f[j + 1][TRUE]
        /\ OpenAt(s, j) => f[j][FALSE] = f[j + 2][TRUE]
        /\ ~OpenAt(s, j) => f[j][FALSE] = [inside |-> f[j + 1][FALSE].inside,
                                           out |-> <<s[j]>> \o f[j + 1][FALSE].out]
    BY <1>0, <2>1 DEF StripRules, m
  <2>5. /\ CloseAt(u, j) => g[j][TRUE] = g[j + 2][FALSE]
        /\ ~CloseAt(u, j) => g[j][TRUE] = g[j + 1][TRUE]
        /\ OpenAt(u, j) => g[j][FALSE] = g[j + 2][TRUE]
        /\ ~OpenAt(u, j) => g[j][FALSE] = [inside |-> g[j + 1][FALSE].inside,
                                           out |-> <<u[j]>> \o g[j + 1][FALSE].out]
    BY <1>0, <2>1 DEF StripRules
  <2>6. u[j] = s[j] /\ s[j] \in STRING
    BY <1>1, <2>1
  <2>7. (OpenAt(u, j) <=> OpenAt(s, j)) /\ (CloseAt(u, j) <=> CloseAt(s, j))
    BY <1>2, <2>1
  <2>8. g[j][TRUE] = Joined(f[j][TRUE], h[1][f[j][TRUE].inside])
    BY <2>1, <2>2, <2>3, <2>4, <2>5, <2>7
  <2>9. g[j][FALSE] = Joined(f[j][FALSE], h[1][f[j][FALSE].inside])
    <3>1. CASE OpenAt(s, j)
      BY <2>3, <2>4, <2>5, <2>7, <3>1
    <3>2. CASE ~OpenAt(s, j)
      <4> DEFINE x == f[i][FALSE]
                 y == h[1][x.inside]
      <4>1. x \in Stripped
        BY <1>4, <2>1
      <4>2. y \in Stripped
        BY <1>3, <4>1 DEF Stripped
      <4>3. f[j][FALSE] = [inside |-> x.inside, out |-> <<s[j]>> \o x.out]
        BY <2>1, <2>4, <3>2
      <4>4. g[j][FALSE] = [inside |-> g[i][FALSE].inside, out |-> <<s[j]>> \o g[i][FALSE].out]
        BY <2>1, <2>5, <2>6, <2>7, <3>2
      <4>5. g[i][FALSE] = Joined(x, y)
        BY <2>2
      <4> HIDE DEF y
      <4>6. f[j][FALSE].inside = x.inside
        BY <4>3
      <4>7. h[1][f[j][FALSE].inside] = y
        BY <4>6 DEF y
      <4> HIDE DEF x
      <4>8. Joined([inside |-> x.inside, out |-> <<s[j]>> \o x.out], y)
               = [inside |-> Joined(x, y).inside, out |-> <<s[j]>> \o Joined(x, y).out]
        BY <2>6, <4>1, <4>2, JoinedAgain
      <4> QED BY <4>3, <4>4, <4>5, <4>7, <4>8
    <3> QED BY <3>1, <3>2
  <2>10. \A k \in i..N, c \in BOOLEAN : g[k][c] = Joined(f[k][c], h[1][f[k][c].inside])
    BY <1>6
  <2>11. \A k \in j..N, c \in BOOLEAN : g[k][c] = Joined(f[k][c], h[1][f[k][c].inside])
    BY <2>1, <2>8, <2>9, <2>10
  <2>12. j \in S
    BY <2>1, <2>11
  <2> QED BY <2>12 DEF j
<1>7. 1 \in 1..N
  BY <1>1
<1>9. 1 \in S
  <2>1. N \in Nat \ {0} /\ Descends(S, N)
    BY <1>1, <1>5, <1>6 DEF Descends
  <2> HIDE DEF S, N
  <2> QED BY <2>1, DownToOne
<1> HIDE DEF S, N
<1> QED BY <1>7, <1>9 DEF S

\* The loop over the second text goes on where the one over the first ended.
LEMMA StripConcat ==
    ASSUME NEW s \in Seq(STRING), NEW t \in Seq(STRING), ~Tears(s, t), NEW b \in BOOLEAN
    PROVE  LET first == StripInline(s, b)
               second == StripInline(t, first.inside)
           IN  /\ first \in Stripped /\ second \in Stripped
               /\ StripInline(s \o t, b) = [inside |-> second.inside,
                                            out |-> first.out \o second.out]
<1> DEFINE u == s \o t
           g == StripTable(u)
           h == StripTable(t)
           f == StripTable(s)
<1>1. u \in Seq(STRING)
  BY ConcatProperties
<1>2. StripRules(s, f) /\ StripRules(t, h)
  BY StripEquations DEF StripRules
<1>3. StripRules(u, g)
  <2> HIDE DEF u
  <2> QED BY <1>1, StripEquations DEF StripRules
<1>4. /\ StripInline(s, b) = f[1][b]
      /\ StripInline(u, b) = g[1][b]
      /\ StripInline(t, f[1][b].inside) = h[1][f[1][b].inside]
  BY InlineFromTable
<1>10. Tables(s, t, u, f, h, g)
  BY <1>2, <1>3 DEF Tables
<1> HIDE DEF g, h, f, u
<1>5. g[1][b] = Joined(f[1][b], h[1][f[1][b].inside])
  BY <1>10, TableOfStart
<1>6. 1 \in 1..(Len(s) + 1) /\ 1 \in 1..(Len(t) + 1)
  OBVIOUS
<1>7. f[1][b] \in Stripped
  BY <1>2, <1>6 DEF StripRules
<1>8. h[1][f[1][b].inside] \in Stripped
  <2>1. f[1][b].inside \in BOOLEAN
    BY <1>7 DEF Stripped
  <2> QED BY <1>2, <1>6, <2>1 DEF StripRules
<1> QED BY <1>4, <1>5, <1>7, <1>8 DEF Joined, u

LineFold == INSTANCE FoldFacts WITH Op <- AddLine

Atom == Delta \cup {NewLine}

LEMMA NoLine == NewLine \notin Delta
  BY DEF NewLine, Delta

\* All deltas of what was received, those of the unfinished line too.
AllLines(atoms) == FoldLeft(AddLine, <<>>, atoms)

LEMMA AllLinesFold == ASSUME NEW b, NEW s PROVE LineFold!Fold(b, s) = FoldLeft(AddLine, b, s)
  BY DEF LineFold!Fold, FoldLeft, LineFold!FoldLeft, MapThenFoldSet, LineFold!MapThenFoldSet,
         Max, LineFold!Max

LEMMA AllLinesFacts ==
    ASSUME NEW s \in Seq(Atom)
    PROVE  /\ AllLines(s) \in Seq(Delta)
           /\ \A a \in Atom : AllLines(Append(s, a)) = AddLine(AllLines(s), a)
           /\ \A t \in Seq(Delta) : AllLines(s \o t) = AllLines(s) \o t
<1>1. ASSUME NEW r \in Seq(Atom), NEW a \in Atom PROVE AllLines(Append(r, a)) = AddLine(AllLines(r), a)
  <2>1. LineFold!Fold(<<>>, Append(r, a)) = AddLine(LineFold!Fold(<<>>, r), a)
    BY LineFold!FoldAppend
  <2> QED BY <2>1, AllLinesFold DEF AllLines
<1>2. AllLines(s) \in Seq(Delta)
  <2>1. \A x \in Seq(Delta), a \in Atom : AddLine(x, a) \in Seq(Delta)
    BY DEF AddLine, Atom
  <2>2. <<>> \in Seq(Delta)
    OBVIOUS
  <2>3. LineFold!Fold(<<>>, s) \in Seq(Delta)
    BY <2>1, <2>2, LineFold!FoldKeeps
  <2> QED BY <2>3, AllLinesFold DEF AllLines
<1>3. \A t \in Seq(Delta) : AllLines(s \o t) = AllLines(s) \o t
  <2> DEFINE X == {t \in Seq(Delta) : AllLines(s \o t) = AllLines(s) \o t}
  <2>1. <<>> \in X
    BY <1>2, ConcatEmptySeq
  <2>2. ASSUME NEW t \in Seq(Delta), NEW e \in Delta, t \in X PROVE Append(t, e) \in X
    <3>1. t \in Seq(Atom) /\ e \in Atom /\ Append(t, e) \in Seq(Delta)
      BY DEF Atom
    <3>2. s \o t \in Seq(Atom) /\ s \o Append(t, e) = Append(s \o t, e)
      BY <3>1, ConcatAppend, ConcatProperties
    <3>3. AllLines(Append(s \o t, e)) = Append(AllLines(s \o t), e)
      BY <1>1, <3>1, <3>2, NoLine DEF AddLine
    <3>4. Append(AllLines(s) \o t, e) = AllLines(s) \o Append(t, e)
      <4> DEFINE r == AllLines(s)
      <4>1. r \in Seq(Delta)
        BY <1>2
      <4> HIDE DEF r, X
      <4>2. r \o Append(t, e) = Append(r \o t, e)
        BY <4>1, ConcatAppend
      <4> QED BY <4>2 DEF r
    <3> QED BY <2>2, <3>1, <3>2, <3>3, <3>4
  <2> HIDE DEF X
  <2>3. Seq(Delta) \subseteq X
    BY <2>1, <2>2, AppendInduction
  <2> QED BY <2>3 DEF X
<1> QED BY <1>1, <1>2, <1>3

\* What was received, cut behind its last line.
LEMMA CutAtLine ==
    ASSUME NEW atoms \in Seq(Atom)
    PROVE  /\ LastNewLine(atoms) \in 0..Len(atoms)
           /\ LastNewLine(atoms) # 0 => atoms[LastNewLine(atoms)] = NewLine
           /\ \A i \in (LastNewLine(atoms) + 1)..Len(atoms) : atoms[i] \in Delta
           /\ Rest(atoms) \in Seq(Delta)
           /\ Lines(atoms) \in Seq(Delta)
           /\ AllLines(atoms) = Lines(atoms) \o Rest(atoms)
<1> DEFINE l == LastNewLine(atoms)
           S == { i \in DOMAIN atoms : atoms[i] = NewLine } \cup {0}
           n == Len(atoms)
<1>1. n \in Nat /\ DOMAIN atoms = 1..n /\ \A i \in 1..n : atoms[i] \in Atom
  OBVIOUS
<1>2. l \in S /\ \A y \in S : y <= l
  <2>1. S \subseteq 0..n /\ S # {} /\ l = Max(S)
    BY <1>1 DEF LastNewLine
  <2> HIDE DEF S, n, l
  <2> QED BY <1>1, <2>1, MaxOfNaturals
<1>3. l \in 0..n /\ (l # 0 => atoms[l] = NewLine)
  BY <1>1, <1>2
<1>4. ASSUME NEW i \in (l + 1)..n PROVE atoms[i] \in Delta
  <2>1. i \notin S /\ i \in 1..n
    BY <1>1, <1>2, <1>3
  <2> QED BY <1>1, <2>1 DEF Atom
<1> HIDE DEF l
<1>5. Rest(atoms) \in Seq(Delta)
  BY <1>1, <1>3, <1>4, SubSeqProperties DEF Rest, l
<1>6. SubSeq(atoms, 1, l) \in Seq(Atom) /\ atoms = SubSeq(atoms, 1, l) \o Rest(atoms)
  <2>1. NewLine \in Atom
    BY DEF Atom
  <2> QED BY <1>1, <1>3, <2>1, SubSeqOfAppend DEF Rest, l
<1>7. Lines(atoms) = AllLines(SubSeq(atoms, 1, l))
  BY DEF Lines, AllLines, l
<1> QED BY <1>3, <1>4, <1>5, <1>6, <1>7, AllLinesFacts DEF l

\* One more atom.
LEMMA LinesOfAppend ==
    ASSUME NEW s \in Seq(Atom), NEW a \in Atom
    PROVE  /\ a = NewLine => Lines(Append(s, a)) = AllLines(s) /\ Rest(Append(s, a)) = <<>>
           /\ a # NewLine => /\ Lines(Append(s, a)) = Lines(s)
                             /\ Rest(Append(s, a)) = Append(Rest(s), a)
<1> DEFINE t == Append(s, a)
           n == Len(s)
           l == LastNewLine(s)
           k == LastNewLine(t)
<1>1. /\ t \in Seq(Atom) /\ n \in Nat /\ Len(t) = n + 1 /\ t[n + 1] = a
      /\ \A i \in 1..n : t[i] = s[i]
  OBVIOUS
<1> HIDE DEF t
<1>2. /\ l \in 0..n /\ (l # 0 => s[l] = NewLine)
      /\ \A i \in (l + 1)..n : s[i] # NewLine
  BY <1>1, CutAtLine, NoLine
<1>3. /\ k \in 0..(n + 1) /\ (k # 0 => t[k] = NewLine)
      /\ \A i \in (k + 1)..(n + 1) : t[i] # NewLine
  BY <1>1, CutAtLine, NoLine
<1> HIDE DEF l, k
<1>4. ASSUME a = NewLine PROVE Lines(t) = AllLines(s) /\ Rest(t) = <<>>
  <2>1. k = n + 1
    BY <1>1, <1>3, <1>4
  <2>2. SubSeq(t, 1, n + 1) = t
    BY <1>1, SubSeqFull
  <2>3. Lines(t) = AllLines(t)
    BY <2>1, <2>2 DEF Lines, AllLines, k
  <2>4. AllLines(t) = AllLines(s)
    BY <1>4, AllLinesFacts DEF AddLine, t
  <2>5. Rest(t) = <<>>
    BY <1>1, <2>1, SubSeqEmpty DEF Rest, k
  <2> QED BY <2>3, <2>4, <2>5
<1>5. ASSUME a # NewLine PROVE Lines(t) = Lines(s) /\ Rest(t) = Append(Rest(s), a)
  <2>1. k # n + 1
    BY <1>1, <1>3, <1>5
  <2>2. ~(k < l)
    BY <1>1, <1>2, <1>3
  <2>3. ~(l < k)
    BY <1>1, <1>2, <1>3, <2>1
  <2>4. k = l /\ l \in 0..Len(s)
    BY <1>2, <1>3, <2>2, <2>3
  <2>5. /\ SubSeq(t, 1, l) = SubSeq(s, 1, l)
        /\ SubSeq(t, l + 1, n + 1) = Append(SubSeq(s, l + 1, n), a)
    BY <2>4, SubSeqOfAppend DEF t
  <2>6. Lines(t) = Lines(s)
    BY <2>4, <2>5 DEF Lines, k, l
  <2>7. Rest(t) = Append(Rest(s), a)
    BY <1>1, <2>4, <2>5 DEF Rest, k, l
  <2> QED BY <2>6, <2>7
<1> QED BY <1>4, <1>5 DEF t

LEMMA LinesOfNothing == Lines(<<>>) = <<>> /\ Rest(<<>>) = <<>> /\ AllLines(<<>>) = <<>>
<1>1. <<>> \in Seq(Atom) /\ Len(<<>>) = 0
  OBVIOUS
<1>2. AllLines(<<>>) = <<>>
  BY AllLinesFold, LineFold!FoldEmpty DEF AllLines
<1>3. LastNewLine(<<>>) = 0
  <2> DEFINE e == <<>>
  <2>1. e \in Seq(Atom) /\ Len(e) = 0
    BY <1>1
  <2> HIDE DEF e
  <2>2. LastNewLine(e) \in 0..0
    BY <2>1, CutAtLine
  <2> QED BY <2>2 DEF e
<1>4. SubSeq(<<>>, 1, 0) = <<>>
  BY SubSeqEmpty
<1>5. Lines(<<>>) = <<>>
  BY <1>2, <1>3, <1>4 DEF Lines, AllLines
<1>6. Rest(<<>>) = <<>>
  BY <1>1, <1>3, <1>4 DEF Rest
<1> QED BY <1>2, <1>5, <1>6

\* Without an end of line there is no line yet.
LEMMA LinesOfDeltas ==
    ASSUME NEW s \in Seq(Delta)
    PROVE  s \in Seq(Atom) /\ Lines(s) = <<>> /\ Rest(s) = s /\ AllLines(s) = s
<1> DEFINE X == {r \in Seq(Delta) : Lines(r) = <<>> /\ Rest(r) = r}
<1>1. <<>> \in X
  BY LinesOfNothing
<1>2. ASSUME NEW r \in Seq(Delta), NEW e \in Delta, r \in X PROVE Append(r, e) \in X
  <2>1. r \in Seq(Atom) /\ e \in Atom /\ e # NewLine /\ Append(r, e) \in Seq(Delta)
    BY NoLine DEF Atom
  <2> QED BY <1>2, <2>1, LinesOfAppend
<1>3. s \in Seq(Atom)
  BY DEF Atom
<1> HIDE DEF X
<1>4. Seq(Delta) \subseteq X
  BY <1>1, <1>2, AppendInduction
<1>5. Lines(s) = <<>> /\ Rest(s) = s
  BY <1>4 DEF X
<1>6. AllLines(s) = <<>> \o s
  BY <1>3, <1>5, CutAtLine
<1> QED BY <1>3, <1>5, <1>6, ConcatEmptySeq

\* What is received later is cut with the unfinished line before it.
LEMMA LinesOfConcat ==
    ASSUME NEW s \in Seq(Atom), NEW t \in Seq(Atom)
    PROVE  /\ Rest(s) \o t \in Seq(Atom)
           /\ Lines(s \o t) = Lines(s) \o Lines(Rest(s) \o t)
           /\ Rest(s \o t) = Rest(Rest(s) \o t)
<1> DEFINE r == Rest(s)
           L == Lines(s)
           X == {u \in Seq(Atom) : /\ Lines(s \o u) = L \o Lines(r \o u)
                                   /\ Rest(s \o u) = Rest(r \o u)}
<1>1. r \in Seq(Atom) /\ r \in Seq(Delta) /\ L \in Seq(Delta)
  BY CutAtLine, LinesOfDeltas
<1>2. AllLines(s) = L \o r
  BY CutAtLine
<1>3. Lines(r) = <<>> /\ Rest(r) = r
  BY <1>1, LinesOfDeltas
<1>4. <<>> \in X
  <2>1. s \o <<>> = s /\ r \o <<>> = r /\ L \o <<>> = L
    BY <1>1, ConcatEmptySeq
  <2>2. <<>> \in Seq(Atom)
    OBVIOUS
  <2>3. Lines(s) = L /\ Rest(s) = r
    OBVIOUS
  <2> HIDE DEF r, L
  <2> QED BY <1>3, <2>1, <2>2, <2>3
<1> HIDE DEF r, L
<1>5. \A u \in Seq(Atom) : AllLines(s \o u) = L \o AllLines(r \o u)
  <2> DEFINE Y == {u \in Seq(Atom) : AllLines(s \o u) = L \o AllLines(r \o u)}
  <2>1. <<>> \in Y
    <3>1. s \o <<>> = s /\ r \o <<>> = r /\ <<>> \in Seq(Atom)
      BY <1>1, ConcatEmptySeq
    <3>2. AllLines(r) = r
      BY <1>1, LinesOfDeltas
    <3> QED BY <1>2, <3>1, <3>2
  <2>2. ASSUME NEW u \in Seq(Atom), NEW a \in Atom, u \in Y PROVE Append(u, a) \in Y
    <3>1. /\ s \o Append(u, a) = Append(s \o u, a) /\ r \o Append(u, a) = Append(r \o u, a)
          /\ s \o u \in Seq(Atom) /\ r \o u \in Seq(Atom) /\ Append(u, a) \in Seq(Atom)
      BY <1>1, ConcatAppend, ConcatProperties
    <3> DEFINE x == AllLines(s \o u)
               y == AllLines(r \o u)
    <3>2. /\ AllLines(Append(s \o u, a)) = AddLine(x, a)
          /\ AllLines(Append(r \o u, a)) = AddLine(y, a)
          /\ y \in Seq(Delta)
      BY <3>1, AllLinesFacts
    <3>3. x = L \o y
      BY <2>2
    <3> HIDE DEF x, y
    <3>4. AddLine(L \o y, a) = L \o AddLine(y, a)
      <4>1. CASE a = NewLine
        BY <4>1 DEF AddLine
      <4>2. CASE a # NewLine
        <5>1. a \in Delta
          BY <4>2 DEF Atom
        <5>2. L \o Append(y, a) = Append(L \o y, a)
          BY <1>1, <3>2, <5>1, ConcatAppend
        <5> QED BY <4>2, <5>2 DEF AddLine
      <4> QED BY <4>1, <4>2
    <3>5. AllLines(s \o Append(u, a)) = L \o AllLines(r \o Append(u, a))
      BY <3>1, <3>2, <3>3, <3>4
    <3> QED BY <3>1, <3>5
  <2> HIDE DEF Y
  <2>3. Seq(Atom) \subseteq Y
    BY <2>1, <2>2, AppendInduction
  <2> QED BY <2>3 DEF Y
<1>6. ASSUME NEW u \in Seq(Atom), NEW a \in Atom, u \in X PROVE Append(u, a) \in X
  <2>1. /\ s \o Append(u, a) = Append(s \o u, a) /\ r \o Append(u, a) = Append(r \o u, a)
        /\ s \o u \in Seq(Atom) /\ r \o u \in Seq(Atom) /\ Append(u, a) \in Seq(Atom)
    BY <1>1, ConcatAppend, ConcatProperties
  <2>2. Lines(s \o u) = L \o Lines(r \o u) /\ Rest(s \o u) = Rest(r \o u)
    BY <1>6
  <2>3. AllLines(s \o u) = L \o AllLines(r \o u)
    BY <1>5
  <2> HIDE DEF X
  <2> DEFINE v == s \o u
             w == r \o u
  <2>4. v \in Seq(Atom) /\ w \in Seq(Atom)
    BY <2>1
  <2> HIDE DEF v, w
  <2>5. /\ a = NewLine => Lines(Append(v, a)) = AllLines(v) /\ Rest(Append(v, a)) = <<>>
        /\ a # NewLine => Lines(Append(v, a)) = Lines(v) /\ Rest(Append(v, a)) = Append(Rest(v), a)
        /\ a = NewLine => Lines(Append(w, a)) = AllLines(w) /\ Rest(Append(w, a)) = <<>>
        /\ a # NewLine => Lines(Append(w, a)) = Lines(w) /\ Rest(Append(w, a)) = Append(Rest(w), a)
    BY <2>4, LinesOfAppend
  <2>6. Lines(v) = L \o Lines(w) /\ Rest(v) = Rest(w) /\ AllLines(v) = L \o AllLines(w)
    BY <2>2, <2>3 DEF v, w
  <2>7. Lines(Append(v, a)) = L \o Lines(Append(w, a)) /\ Rest(Append(v, a)) = Rest(Append(w, a))
    BY <2>5, <2>6
  <2> QED BY <2>1, <2>7 DEF v, w, X
<1> HIDE DEF X
<1>7. Seq(Atom) \subseteq X
  BY <1>4, <1>6, AppendInduction
<1>8. r \o t \in Seq(Atom)
  BY <1>1, ConcatProperties
<1> QED BY <1>7, <1>8 DEF X, r, L

GatherFold == INSTANCE FoldFacts WITH Op <- Gather
CallFold == INSTANCE FoldFacts WITH Op <- Accumulate

\* What a generator yields.
Chunk == [type : {"content", "reasoning", "tool_call_delta"}, text : Seq(STRING),
          call : Seq(Fragment)]

\* What the handler has, in parts; and after some chunks.
Got(t, c) == [text |-> t, calls |-> c]

\* The handler after some chunks, and its calls after some fragments.
Gathered(g, chunks) == FoldLeft(Gather, g, chunks)

Collected(c, fs) == FoldLeft(Accumulate, c, fs)

LEMMA GatheredFold ==
    /\ \A g, s : GatherFold!Fold(g, s) = Gathered(g, s)
    /\ \A c, s : CallFold!Fold(c, s) = Collected(c, s)
<1>1. ASSUME NEW g, NEW s PROVE GatherFold!Fold(g, s) = Gathered(g, s)
  BY DEF Gathered, GatherFold!Fold, FoldLeft, GatherFold!FoldLeft, MapThenFoldSet,
         GatherFold!MapThenFoldSet, Max, GatherFold!Max
<1>2. ASSUME NEW c, NEW s PROVE CallFold!Fold(c, s) = Collected(c, s)
  BY DEF Collected, CallFold!Fold, FoldLeft, CallFold!FoldLeft, MapThenFoldSet,
         CallFold!MapThenFoldSet, Max, CallFold!Max
<1> QED BY <1>1, <1>2

LEMMA ChunksTyped ==
    /\ Reasoning \in Chunk
    /\ \A x \in Seq(STRING) : Content(x) \in Chunk
    /\ \A f \in Fragment : ToolCall(f) \in Chunk
<1>1. <<>> \in Seq(STRING) /\ <<>> \in Seq(Fragment)
  OBVIOUS
<1>2. \A f \in Fragment : <<f>> \in Seq(Fragment)
  BY OneWord
<1> QED BY <1>1, <1>2 DEF Chunk, Reasoning, Content, ToolCall

\* What a chunk of each kind adds.
LEMMA GatherOne ==
    ASSUME NEW t, NEW c
    PROVE  /\ Gather(Got(t, c), Reasoning) = Got(t, c)
           /\ \A x : Gather(Got(t, c), Content(x)) = Got(t \o x, c)
           /\ \A f : Gather(Got(t, c), ToolCall(f)) = Got(t, Accumulate(c, f))
<1>1. Gather(Got(t, c), Reasoning) = Got(t, c)
  BY DEF Gather, Got, Reasoning
<1>2. ASSUME NEW x PROVE Gather(Got(t, c), Content(x)) = Got(t \o x, c)
  <2> DEFINE longer == t \o x
  <2>1. Content(x).type = "content" /\ Content(x).text = x
    BY DEF Content
  <2>2. Gather(Got(t, c), Content(x)) = [Got(t, c) EXCEPT !.text = t \o x]
    BY <2>1 DEF Gather, Got
  <2> HIDE DEF longer
  <2>3. [Got(t, c) EXCEPT !.text = longer] = Got(longer, c)
    BY DEF Got
  <2> QED BY <2>2, <2>3 DEF longer
<1>3. ASSUME NEW f PROVE Gather(Got(t, c), ToolCall(f)) = Got(t, Accumulate(c, f))
  <2> DEFINE more == Accumulate(c, f)
  <2>1. ToolCall(f).type = "tool_call_delta" /\ ToolCall(f).call[1] = f
    BY DEF ToolCall
  <2>2. Gather(Got(t, c), ToolCall(f)) = [Got(t, c) EXCEPT !.calls = more]
    BY <2>1 DEF Gather, Got
  <2> HIDE DEF more
  <2>3. [Got(t, c) EXCEPT !.calls = more] = Got(t, more)
    BY DEF Got
  <2> QED BY <2>2, <2>3 DEF more
<1> QED BY <1>1, <1>2, <1>3

\* Chunks in two runs are gathered as in one.
LEMMA GatheredConcat ==
    ASSUME NEW g, NEW s \in Seq(Chunk), NEW r \in Seq(Chunk)
    PROVE  Gathered(g, s \o r) = Gathered(Gathered(g, s), r)
<1>1. GatherFold!Fold(g, s \o r) = GatherFold!Fold(GatherFold!Fold(g, s), r)
  BY GatherFold!FoldConcat
<1> QED BY <1>1, GatheredFold

LEMMA GatheredFew ==
    ASSUME NEW g
    PROVE  /\ Gathered(g, <<>>) = g
           /\ \A chunk \in Chunk : Gathered(g, <<chunk>>) = Gather(g, chunk)
<1>1. Gathered(g, <<>>) = g
  BY GatheredFold, GatherFold!FoldEmpty
<1>2. ASSUME NEW chunk \in Chunk PROVE Gathered(g, <<chunk>>) = Gather(g, chunk)
  <2>1. <<>> \in Seq(Chunk) /\ Append(<<>>, chunk) = <<chunk>>
    OBVIOUS
  <2>2. GatherFold!Fold(g, Append(<<>>, chunk)) = Gather(GatherFold!Fold(g, <<>>), chunk)
    BY <2>1, GatherFold!FoldAppend
  <2> QED BY <1>1, <2>1, <2>2, GatheredFold
<1> QED BY <1>1, <1>2

LEMMA CalledFacts ==
    ASSUME NEW c, NEW s \in Seq(Fragment)
    PROVE  /\ Collected(c, <<>>) = c
           /\ \A f \in Fragment : Collected(c, Append(s, f)) = Accumulate(Collected(c, s), f)
           /\ \A r \in Seq(Fragment) : Collected(c, s \o r) = Collected(Collected(c, s), r)
<1>1. Collected(c, <<>>) = c
  BY GatheredFold, CallFold!FoldEmpty
<1>2. ASSUME NEW f \in Fragment PROVE Collected(c, Append(s, f)) = Accumulate(Collected(c, s), f)
  <2>1. CallFold!Fold(c, Append(s, f)) = Accumulate(CallFold!Fold(c, s), f)
    BY CallFold!FoldAppend
  <2> QED BY <2>1, GatheredFold
<1>3. ASSUME NEW r \in Seq(Fragment) PROVE Collected(c, s \o r) = Collected(Collected(c, s), r)
  <2>1. CallFold!Fold(c, s \o r) = CallFold!Fold(CallFold!Fold(c, s), r)
    BY CallFold!FoldConcat
  <2> QED BY <2>1, GatheredFold
<1> QED BY <1>1, <1>2, <1>3

\* The chunks of a delta's tool calls.
CallChunks(cs) == [i \in DOMAIN cs |-> ToolCall(cs[i])]

\* The chunks of a delta's tool calls.
LEMMA CallsGathered ==
    ASSUME NEW t, NEW c, NEW cs \in Seq(Fragment)
    PROVE  /\ CallChunks(cs) \in Seq(Chunk)
           /\ Gathered(Got(t, c), CallChunks(cs)) = Got(t, Collected(c, cs))
<1> DEFINE X == {s \in Seq(Fragment) : /\ CallChunks(s) \in Seq(Chunk)
                                       /\ Gathered(Got(t, c), CallChunks(s)) = Got(t, Collected(c, s))}
<1>1. <<>> \in X
  <2>1. CallChunks(<<>>) = <<>> /\ <<>> \in Seq(Chunk) /\ <<>> \in Seq(Fragment)
    BY DEF CallChunks
  <2> QED BY <2>1, GatheredFew, CalledFacts
<1>2. ASSUME NEW s \in Seq(Fragment), NEW f \in Fragment, s \in X PROVE Append(s, f) \in X
  <2>1. CallChunks(Append(s, f)) = Append(CallChunks(s), ToolCall(f))
    <3> DEFINE r == Append(s, f)
               u == Append(CallChunks(s), ToolCall(f))
               n == Len(s)
    <3>1. n \in Nat /\ DOMAIN s = 1..n /\ DOMAIN r = 1..(n + 1) /\ r[n + 1] = f /\ \A i \in 1..n : r[i] = s[i]
      OBVIOUS
    <3>2. CallChunks(s) \in Seq(Chunk) /\ Len(CallChunks(s)) = n /\ \A i \in 1..n : CallChunks(s)[i] = ToolCall(s[i])
      BY <1>2, <3>1 DEF CallChunks
    <3>3. /\ u \in Seq(Chunk) /\ Len(u) = n + 1 /\ u[n + 1] = ToolCall(f)
          /\ \A i \in 1..n : u[i] = CallChunks(s)[i]
      BY <3>2, ChunksTyped, AppendProperties
    <3> HIDE DEF r, u
    <3>4. CallChunks(r) = [i \in 1..(n + 1) |-> ToolCall(r[i])]
      BY <3>1 DEF CallChunks
    <3>5. u = [i \in 1..(n + 1) |-> u[i]]
      BY <3>1, <3>3
    <3>6. ASSUME NEW i \in 1..(n + 1) PROVE u[i] = ToolCall(r[i])
      <4>1. CASE i = n + 1
        BY <3>1, <3>3, <4>1
      <4>2. CASE i \in 1..n
        BY <3>1, <3>2, <3>3, <4>2
      <4>3. i = n + 1 \/ i \in 1..n
        BY <3>1
      <4> QED BY <4>1, <4>2, <4>3
    <3>7. CallChunks(r) = u
      BY <3>4, <3>5, <3>6
    <3> QED BY <3>7 DEF r, u
  <2>2. CallChunks(s) \in Seq(Chunk) /\ ToolCall(f) \in Chunk /\ Append(s, f) \in Seq(Fragment)
    BY <1>2, ChunksTyped
  <2>3. GatherFold!Fold(Got(t, c), Append(CallChunks(s), ToolCall(f)))
            = Gather(GatherFold!Fold(Got(t, c), CallChunks(s)), ToolCall(f))
    BY <2>2, GatherFold!FoldAppend
  <2>4. Gathered(Got(t, c), CallChunks(Append(s, f))) = Gather(Got(t, Collected(c, s)), ToolCall(f))
    BY <1>2, <2>1, <2>3, GatheredFold
  <2>5. Gathered(Got(t, c), CallChunks(Append(s, f))) = Got(t, Collected(c, Append(s, f)))
    BY <2>4, GatherOne, CalledFacts
  <2>6. CallChunks(Append(s, f)) \in Seq(Chunk)
    BY <2>1, <2>2
  <2> QED BY <2>2, <2>5, <2>6
<1> HIDE DEF X
<1>3. Seq(Fragment) \subseteq X
  BY <1>1, <1>2, AppendInduction
<1> QED BY <1>3 DEF X

LEMMA InlineTyped ==
    ASSUME NEW text \in Seq(STRING), NEW b \in BOOLEAN PROVE StripInline(text, b) \in Stripped
<1>1. 1 \in 1..(Len(text) + 1)
  OBVIOUS
<1>2. StripTable(text)[1][b] \in Stripped
  BY <1>1, StripEquations
<1> QED BY <1>2, InlineFromTable

LEMMA DeltaParts ==
    ASSUME NEW d \in Delta
    PROVE  d.text \in Seq(STRING) /\ d.thought \in BOOLEAN /\ d.calls \in Seq(Fragment)
  BY DEF Delta

LEMMA ContentGathered ==
    ASSUME NEW t \in Seq(STRING), NEW c, NEW x \in Seq(STRING)
    PROVE  LET chunks == IF x # <<>> THEN <<Content(x)>> ELSE <<>>
           IN  chunks \in Seq(Chunk) /\ Gathered(Got(t, c), chunks) = Got(t \o x, c)
<1>1. CASE x = <<>>
  BY <1>1, ConcatEmptySeq, GatheredFew
<1>2. CASE x # <<>>
  <2>1. Content(x) \in Chunk
    BY ChunksTyped
  <2>2. Gathered(Got(t, c), <<Content(x)>>) = Got(t \o x, c)
    <3> DEFINE g == Got(t, c)
               chunk == Content(x)
    <3>1. Gather(g, chunk) = Got(t \o x, c)
      BY GatherOne
    <3>2. chunk \in Chunk
      BY <2>1
    <3> HIDE DEF g, chunk
    <3>3. Gathered(g, <<chunk>>) = Gather(g, chunk)
      BY <3>2, GatheredFew
    <3> QED BY <3>1, <3>3 DEF g, chunk
  <2> QED BY <1>2, <2>1, <2>2, OneWord
<1> QED BY <1>1, <1>2

LEMMA ThoughtGathered ==
    ASSUME NEW t, NEW c, NEW b
    PROVE  LET chunks == IF b THEN <<Reasoning>> ELSE <<>>
           IN  chunks \in Seq(Chunk) /\ Gathered(Got(t, c), chunks) = Got(t, c)
<1>1. Reasoning \in Chunk
  BY ChunksTyped
<1>2. Gathered(Got(t, c), <<Reasoning>>) = Got(t, c)
  BY <1>1, GatheredFew, GatherOne
<1> QED BY <1>1, <1>2, OneWord, GatheredFew

\* The chunks of a line bring its visible text and its fragments, nothing else.
LEMMA AirforceLineGathered ==
    ASSUME NEW d \in Delta, NEW b \in BOOLEAN, NEW t \in Seq(STRING), NEW c
    PROVE  LET line == AirforceLine(d, b)
               strip == StripInline(d.text, b)
           IN  /\ line.inside = strip.inside /\ line.chunks \in Seq(Chunk)
               /\ Gathered(Got(t, c), line.chunks) = Got(t \o strip.out, Collected(c, d.calls))
<1> DEFINE strip == StripInline(d.text, b)
           x == CallChunks(d.calls)
           y == IF d.text = <<>> /\ d.thought THEN <<Reasoning>> ELSE <<>>
           z == IF strip.out # <<>> THEN <<Content(strip.out)>> ELSE <<>>
<1>1. strip.inside \in BOOLEAN /\ strip.out \in Seq(STRING)
  BY DeltaParts, InlineTyped DEF Stripped
<1>2. AirforceLine(d, b) = [inside |-> strip.inside, chunks |-> x \o y \o z]
  BY DEF AirforceLine, CallChunks
<1> HIDE DEF strip
<1>3. x \in Seq(Chunk) /\ Gathered(Got(t, c), x) = Got(t, Collected(c, d.calls))
  BY DeltaParts, CallsGathered
<1> DEFINE c2 == Collected(c, d.calls)
<1>4. y \in Seq(Chunk) /\ Gathered(Got(t, c2), y) = Got(t, c2)
  BY ThoughtGathered
<1>5. z \in Seq(Chunk) /\ Gathered(Got(t, c2), z) = Got(t \o strip.out, c2)
  BY <1>1, ContentGathered
<1> HIDE DEF x, y, z, c2
<1>6. x \o y \in Seq(Chunk)
  BY <1>3, <1>4, ConcatProperties
<1>7. x \o y \o z \in Seq(Chunk)
  BY <1>5, <1>6, ConcatProperties
<1>8. Gathered(Got(t, c), x \o y \o z) = Gathered(Gathered(Gathered(Got(t, c), x), y), z)
  <2>1. Gathered(Got(t, c), x \o y) = Gathered(Gathered(Got(t, c), x), y)
    BY <1>3, <1>4, GatheredConcat
  <2> DEFINE v == x \o y
  <2>2. v \in Seq(Chunk)
    BY <1>6
  <2> HIDE DEF v
  <2>3. Gathered(Got(t, c), v \o z) = Gathered(Gathered(Got(t, c), v), z)
    BY <1>5, <2>2, GatheredConcat
  <2> QED BY <2>1, <2>3 DEF v
<1>9. Gathered(Got(t, c), x \o y \o z) = Got(t \o strip.out, c2)
  BY <1>3, <1>4, <1>5, <1>8 DEF c2
<1> QED BY <1>2, <1>7, <1>9 DEF strip, c2

\* A line of providers/pollinations.js, in its order of chunks, gathers what one of
\* providers/airforce.js does.
LEMMA PollinationsLineGathered ==
    ASSUME NEW d \in Delta, NEW t \in Seq(STRING), NEW c
    PROVE  /\ PollinationsLine(d) \in Seq(Chunk)
           /\ Gathered(Got(t, c), PollinationsLine(d)) = Got(t \o d.text, Collected(c, d.calls))
<1> DEFINE x == CallChunks(d.calls)
           y == IF d.thought THEN <<Reasoning>> ELSE <<>>
           z == IF d.text # <<>> THEN <<Content(d.text)>> ELSE <<>>
           t2 == t \o d.text
<1>2. PollinationsLine(d) = z \o y \o x
  BY DEF PollinationsLine, CallChunks
<1>3. x \in Seq(Chunk) /\ Gathered(Got(t2, c), x) = Got(t2, Collected(c, d.calls))
  BY DeltaParts, CallsGathered
<1>4. y \in Seq(Chunk) /\ Gathered(Got(t2, c), y) = Got(t2, c)
  BY ThoughtGathered
<1>5. z \in Seq(Chunk) /\ Gathered(Got(t, c), z) = Got(t2, c)
  BY DeltaParts, ContentGathered
<1> HIDE DEF x, y, z, t2
<1>6. z \o y \in Seq(Chunk)
  BY <1>5, <1>4, ConcatProperties
<1>7. z \o y \o x \in Seq(Chunk)
  BY <1>3, <1>6, ConcatProperties
<1>8. Gathered(Got(t, c), z \o y \o x) = Gathered(Gathered(Gathered(Got(t, c), z), y), x)
  <2>1. Gathered(Got(t, c), z \o y) = Gathered(Gathered(Got(t, c), z), y)
    BY <1>5, <1>4, GatheredConcat
  <2> DEFINE v == z \o y
  <2>2. v \in Seq(Chunk)
    BY <1>6
  <2> HIDE DEF v
  <2>3. Gathered(Got(t, c), v \o x) = Gathered(Gathered(Got(t, c), v), x)
    BY <1>3, <2>2, GatheredConcat
  <2> QED BY <2>1, <2>3 DEF v
<1>9. Gathered(Got(t, c), z \o y \o x) = Got(t2, Collected(c, d.calls))
  BY <1>3, <1>4, <1>5, <1>8
<1> QED BY <1>2, <1>7, <1>9 DEF t2

\* The handler and the parser together, after one more delta came in whole.
State(f, b, t, c) == [format |-> f, inside |-> b, text |-> t, calls |-> c]

\* The handler and the parser after one delta: what any cutting must amount to.
Read(x, d) ==
    State(x.format,
          IF x.format = "airforce" THEN StripInline(d.text, x.inside).inside ELSE FALSE,
          x.text \o (IF x.format = "airforce" THEN StripInline(d.text, x.inside).out ELSE d.text),
          Collected(x.calls, d.calls))

ReadFold == INSTANCE FoldFacts WITH Op <- Read

Reading(x, deltas) == FoldLeft(Read, x, deltas)

LEMMA ReadingFacts ==
    ASSUME NEW x, NEW s \in Seq(Delta)
    PROVE  /\ Reading(x, <<>>) = x
           /\ \A d \in Delta : Reading(x, <<d>>) = Read(x, d)
           /\ \A d \in Delta : Reading(x, Append(s, d)) = Read(Reading(x, s), d)
           /\ \A r \in Seq(Delta) : Reading(x, s \o r) = Reading(Reading(x, s), r)
<1>1. ASSUME NEW y, NEW r PROVE ReadFold!Fold(y, r) = Reading(y, r)
  BY DEF Reading, ReadFold!Fold, FoldLeft, ReadFold!FoldLeft, MapThenFoldSet,
         ReadFold!MapThenFoldSet, Max, ReadFold!Max
<1>2. Reading(x, <<>>) = x
  BY <1>1, ReadFold!FoldEmpty
<1>3. ASSUME NEW r \in Seq(Delta), NEW d \in Delta PROVE Reading(x, Append(r, d)) = Read(Reading(x, r), d)
  <2>1. ReadFold!Fold(x, Append(r, d)) = Read(ReadFold!Fold(x, r), d)
    BY ReadFold!FoldAppend
  <2> QED BY <1>1, <2>1
<1>4. ASSUME NEW d \in Delta PROVE Reading(x, <<d>>) = Read(x, d)
  <2>1. <<>> \in Seq(Delta) /\ Append(<<>>, d) = <<d>>
    OBVIOUS
  <2> QED BY <1>2, <1>3, <2>1
<1>5. ASSUME NEW r \in Seq(Delta) PROVE Reading(x, s \o r) = Reading(Reading(x, s), r)
  <2>1. ReadFold!Fold(x, s \o r) = ReadFold!Fold(ReadFold!Fold(x, s), r)
    BY ReadFold!FoldConcat
  <2> QED BY <1>1, <2>1
<1> QED BY <1>2, <1>3, <1>4, <1>5

\* The loop over lines, from line i on.
LinesRow(lines, g, i) ==
    [inside \in BOOLEAN |->
        IF i > Len(lines) THEN [inside |-> inside, chunks |-> <<>>]
        ELSE LET line == AirforceLine(lines[i], inside) IN
             [g[i + 1][line.inside] EXCEPT !.chunks = line.chunks \o @]]

LinesTable(lines) == CHOOSE g : g = [i \in 1..(Len(lines) + 1) |-> LinesRow(lines, g, i)]

LEMMA LinesFromTable ==
    ASSUME NEW lines, NEW b PROVE AirforceLines(lines, b) = LinesTable(lines)[1][b]
  BY DEF AirforceLines, LinesTable, LinesRow

\* The table of AirforceLines exists.
LEMMA LinesTableRows ==
    ASSUME NEW lines, Len(lines) \in Nat
    PROVE  \A i \in 1..(Len(lines) + 1) :
               LinesTable(lines)[i] = LinesRow(lines, LinesTable(lines), i)
<1> DEFINE N == Len(lines) + 1
           Solves(g, i) == \A k \in i..N : g[k] = LinesRow(lines, g, k)
           S == {i \in 1..N : \E g : Solves(g, i)}
<1>0. ASSUME NEW g, NEW h, NEW i \in 1..N, i \in 1..Len(lines) => g[i + 1] = h[i + 1]
      PROVE  LinesRow(lines, g, i) = LinesRow(lines, h, i)
  <2>1. CASE i = N
    <3>1. i > Len(lines)
      BY <2>1
    <3> QED BY <3>1, Zenon DEF LinesRow
  <2>2. CASE i \in 1..Len(lines)
    BY <1>0, <2>2, Zenon DEF LinesRow
  <2> QED BY <2>1, <2>2
<1>1. N \in S
  <2> DEFINE g == [k \in 1..N |-> LinesRow(lines, <<>>, k)]
  <2>1. LinesRow(lines, <<>>, N) = LinesRow(lines, g, N)
    <3>1. N \in 1..N /\ ~(N \in 1..Len(lines))
      OBVIOUS
    <3> HIDE DEF g, N
    <3> QED BY <1>0, <3>1
  <2> QED BY <2>1
<1>2. ASSUME NEW i \in 2..N, i \in S PROVE i - 1 \in S
  <2>1. PICK g : Solves(g, i)
    BY <1>2
  <2> DEFINE j == i - 1
             h == [k \in 1..N |-> IF k = j THEN LinesRow(lines, g, j) ELSE g[k]]
  <2>2. j \in 1..N /\ h[j] = LinesRow(lines, g, j) /\ \A k \in i..N : k # j /\ h[k] = g[k]
    OBVIOUS
  <2> HIDE DEF h
  <2>3. ASSUME NEW k \in j..N PROVE h[k] = LinesRow(lines, h, k)
    <3>1. LinesRow(lines, g, k) = LinesRow(lines, h, k)
      <4>1. k \in 1..N /\ (k \in 1..Len(lines) => k + 1 \in i..N)
        BY <2>2
      <4>2. k \in 1..Len(lines) => g[k + 1] = h[k + 1]
        BY <2>2, <4>1
      <4> QED BY <1>0, <4>1, <4>2
    <3> QED BY <2>1, <2>2, <3>1
  <2> QED BY <2>2, <2>3
<1>3. 1 \in S
  <2>1. N \in Nat \ {0} /\ Descends(S, N)
    BY <1>1, <1>2 DEF Descends
  <2> HIDE DEF S, N
  <2> QED BY <2>1, DownToOne
<1> HIDE DEF S
<1>4. PICK g : Solves(g, 1)
  BY <1>3 DEF S
<1> DEFINE f == [i \in 1..N |-> g[i]]
<1>5. \A i \in 1..N : f[i] = LinesRow(lines, f, i)
  <2> SUFFICES ASSUME NEW i \in 1..N PROVE g[i] = LinesRow(lines, f, i)
    OBVIOUS
  <2>1. LinesRow(lines, g, i) = LinesRow(lines, f, i)
    <3>1. i \in 1..Len(lines) => g[i + 1] = f[i + 1]
      OBVIOUS
    <3> HIDE DEF f
    <3> QED BY <1>0, <3>1
  <2> QED BY <1>4, <2>1
<1>6. f = [i \in 1..N |-> LinesRow(lines, f, i)]
  BY <1>5
<1> HIDE DEF f
<1>7. LinesTable(lines) = [i \in 1..N |-> LinesRow(lines, LinesTable(lines), i)]
  BY <1>6 DEF LinesTable
<1> QED BY <1>7

Told == [inside : BOOLEAN, chunks : Seq(Chunk)]

LEMMA ToldAfter ==
    ASSUME NEW r \in Told, NEW s \in Seq(Chunk)
    PROVE  LET u == [r EXCEPT !.chunks = s \o @]
           IN  u \in Told /\ u.inside = r.inside /\ u.chunks = s \o r.chunks
<1>1. PICK b \in BOOLEAN, o \in Seq(Chunk) : r = [inside |-> b, chunks |-> o]
  BY DEF Told
<1>2. s \o o \in Seq(Chunk)
  BY ConcatProperties
<1> DEFINE longer == s \o o
<1>3. r.inside = b /\ r.chunks = o
  BY <1>1
<1>4. s \o r.chunks = longer
  BY <1>3
<1> HIDE DEF longer
<1>5. [r EXCEPT !.chunks = longer] = [inside |-> b, chunks |-> longer]
  BY <1>1
<1>6. [inside |-> b, chunks |-> longer] \in Told
  BY <1>2 DEF Told, longer
<1> QED BY <1>3, <1>4, <1>5, <1>6

\* The handler after the chunks of lines, and the parser.
StateOf(f, b, g) == State(f, b, g.text, g.calls)

Heard(t, c, r) == StateOf("airforce", r.inside, Gathered(Got(t, c), r.chunks))

\* What the handler makes of the chunks of lines is what Read makes of the lines.
LEMMA AirforceLinesRead ==
    ASSUME NEW lines \in Seq(Delta), NEW b \in BOOLEAN, NEW t \in Seq(STRING), NEW c
    PROVE  /\ AirforceLines(lines, b) \in Told
           /\ Heard(t, c, AirforceLines(lines, b)) = Reading(State("airforce", b, t, c), lines)
<1> DEFINE n == Len(lines)
           N == n + 1
           g == LinesTable(lines)
           After(i) == SubSeq(lines, i, n)
           Fits(i, d, u, e) == Heard(u, e, g[i][d]) = Reading(State("airforce", d, u, e), After(i))
           S == {i \in 1..N : \A d \in BOOLEAN : /\ g[i][d] \in Told
                                                 /\ \A u \in Seq(STRING) : \A e : Fits(i, d, u, e)}
<1>1. n \in Nat /\ \A i \in 1..n : lines[i] \in Delta
  OBVIOUS
<1>2. \A i \in 1..N : g[i] = LinesRow(lines, g, i)
  BY <1>1, LinesTableRows
<1> HIDE DEF g
<1>3. N \in S
  <2>1. After(N) = <<>>
    BY <1>1, SubSeqEmpty
  <2>2. ASSUME NEW d \in BOOLEAN
        PROVE  /\ g[N][d] \in Told
               /\ \A u \in Seq(STRING) : \A e : Fits(N, d, u, e)
    <3>1. N \in 1..N /\ N > Len(lines)
      BY <1>1
    <3>2. LinesRow(lines, g, N)[d] = [inside |-> d, chunks |-> <<>>]
      BY <3>1 DEF LinesRow
    <3>3. g[N][d] = [inside |-> d, chunks |-> <<>>]
      BY <1>2, <3>1, <3>2
    <3>4. g[N][d] \in Told
      BY <3>3 DEF Told
    <3>5. ASSUME NEW u \in Seq(STRING), NEW e PROVE Fits(N, d, u, e)
      <4>1. Gathered(Got(u, e), <<>>) = Got(u, e)
        BY GatheredFew
      <4>2. Heard(u, e, g[N][d]) = State("airforce", d, u, e)
        BY <3>3, <4>1 DEF Heard, StateOf, Got
      <4>3. Reading(State("airforce", d, u, e), <<>>) = State("airforce", d, u, e)
        BY ReadingFacts
      <4> QED BY <2>1, <4>2, <4>3
    <3> QED BY <3>4, <3>5
  <2>3. N \in 1..N
    BY <1>1
  <2> HIDE DEF N, Fits
  <2> QED BY <2>2, <2>3
<1>4. ASSUME NEW i \in 2..N, i \in S PROVE i - 1 \in S
  <2> DEFINE j == i - 1
  <2>1. /\ j \in 1..n /\ j + 1 = i /\ j \in 1..N /\ ~(j > Len(lines)) /\ n \in j..n
    BY <1>1
  <2>2. After(j) = <<lines[j]>> \o After(i)
    <3>1. j \in 1..Len(lines) /\ n \in j..Len(lines)
      BY <2>1
    <3> HIDE DEF j
    <3>2. SubSeq(lines, j, n) = <<lines[j]>> \o SubSeq(lines, j + 1, n)
      BY <3>1, SubSeqRecursiveFirst
    <3> QED BY <2>1, <3>2
  <2>3. lines[j] \in Delta
    BY <1>1, <2>1
  <2>4. After(i) \in Seq(Delta)
    BY <1>1, SubSeqProperties
  <2> HIDE DEF j, After
  <2>5. \A d \in BOOLEAN : /\ g[i][d] \in Told
                           /\ \A u \in Seq(STRING) : \A e : Fits(i, d, u, e)
    BY <1>4
  <2> DEFINE x == lines[j]
  <2>6. ASSUME NEW d \in BOOLEAN
        PROVE  /\ g[j][d] \in Told
               /\ \A u \in Seq(STRING) : \A e : Fits(j, d, u, e)
    <3> DEFINE line == AirforceLine(x, d)
               r == g[i][line.inside]
               strip == StripInline(x.text, d)
    <3>1. LinesRow(lines, g, j)[d] = [g[j + 1][line.inside] EXCEPT !.chunks = line.chunks \o @]
      BY <2>1 DEF LinesRow
    <3>2. g[j][d] = [r EXCEPT !.chunks = line.chunks \o @]
      BY <1>2, <2>1, <3>1
    <3>3. strip.inside \in BOOLEAN /\ strip.out \in Seq(STRING)
      BY <2>3, DeltaParts, InlineTyped DEF Stripped
    <3>4. line.inside = strip.inside /\ line.chunks \in Seq(Chunk)
      <4>1. <<>> \in Seq(STRING)
        OBVIOUS
      <4> QED BY <2>3, <4>1, AirforceLineGathered
    <3>5. ASSUME NEW u \in Seq(STRING), NEW e
          PROVE  Gathered(Got(u, e), line.chunks) = Got(u \o strip.out, Collected(e, x.calls))
      BY <2>3, AirforceLineGathered
    <3>6. r \in Told
      BY <2>5, <3>3, <3>4
    <3> HIDE DEF line
    <3>7. /\ g[j][d] \in Told /\ g[j][d].inside = r.inside
          /\ g[j][d].chunks = line.chunks \o r.chunks
      <4> HIDE DEF r
      <4> QED BY <3>2, <3>4, <3>6, ToldAfter
    <3>8. ASSUME NEW u \in Seq(STRING), NEW e PROVE Fits(j, d, u, e)
      <4> DEFINE u2 == u \o strip.out
                 e2 == Collected(e, x.calls)
                 start == State("airforce", d, u, e)
                 next == State("airforce", strip.inside, u2, e2)
      <4>1. u2 \in Seq(STRING)
        BY <3>3, ConcatProperties
      <4>2. Gathered(Got(u, e), g[j][d].chunks) = Gathered(Got(u2, e2), r.chunks)
        <5>1. r.chunks \in Seq(Chunk)
          BY <3>6 DEF Told
        <5> HIDE DEF r
        <5>2. Gathered(Got(u, e), line.chunks \o r.chunks) = Gathered(Gathered(Got(u, e), line.chunks), r.chunks)
          BY <3>4, <5>1, GatheredConcat
        <5> QED BY <3>5, <3>7, <5>2
      <4>3. Heard(u, e, g[j][d]) = Heard(u2, e2, r)
        BY <3>7, <4>2 DEF Heard
      <4>4. Heard(u2, e2, r) = Reading(State("airforce", line.inside, u2, e2), After(i))
        <5>1. line.inside \in BOOLEAN
          BY <3>3, <3>4
        <5> HIDE DEF u2, e2
        <5>2. Fits(i, line.inside, u2, e2)
          BY <2>5, <4>1, <5>1
        <5> QED BY <5>2
      <4>5. Read(start, x) = next
        BY DEF Read, State
      <4>6. Reading(start, After(j)) = Reading(next, After(i))
        <5>1. <<x>> \in Seq(Delta)
          BY <2>3, OneWord
        <5> HIDE DEF start, next, x
        <5>2. Reading(start, <<x>> \o After(i)) = Reading(Reading(start, <<x>>), After(i))
          <6> DEFINE first == <<x>>
                     rest == After(i)
          <6>1. first \in Seq(Delta) /\ rest \in Seq(Delta)
            BY <2>4, <5>1
          <6> HIDE DEF first, rest
          <6>2. Reading(start, first \o rest) = Reading(Reading(start, first), rest)
            BY <6>1, ReadingFacts
          <6> QED BY <6>2 DEF first, rest
        <5>3. Reading(start, <<x>>) = Read(start, x)
          <6>1. x \in Delta
            BY <2>3 DEF x
          <6> QED BY <2>4, <6>1, ReadingFacts
        <5> QED BY <2>2, <4>5, <5>2, <5>3 DEF x
      <4> QED BY <3>4, <4>3, <4>4, <4>6
    <3> QED BY <3>7, <3>8
  <2> HIDE DEF Fits
  <2>7. j \in S
    BY <2>1, <2>6
  <2> QED BY <2>7 DEF j
<1>5. 1 \in S
  <2>1. N \in Nat \ {0} /\ Descends(S, N)
    BY <1>1, <1>3, <1>4 DEF Descends
  <2> HIDE DEF S, N
  <2> QED BY <2>1, DownToOne
<1>6. After(1) = lines
  BY <1>1, SubSeqFull
<1> HIDE DEF After
<1>7. g[1][b] \in Told /\ Heard(t, c, g[1][b]) = Reading(State("airforce", b, t, c), lines)
  BY <1>5, <1>6
<1> QED BY <1>7, LinesFromTable DEF g

\* Whatever the chunks, the handler has a text and calls.
LEMMA GatherTyped ==
    ASSUME NEW t \in Seq(STRING), NEW c, NEW chunk \in Chunk
    PROVE  \E u \in Seq(STRING) : \E e : Gather(Got(t, c), chunk) = Got(u, e)
<1>1. CASE chunk.type = "reasoning"
  <2>1. Gather(Got(t, c), chunk) = Got(t, c)
    BY <1>1 DEF Gather
  <2> QED BY <2>1
<1>2. CASE chunk.type = "content"
  <2> DEFINE longer == t \o chunk.text
  <2>1. longer \in Seq(STRING)
    <3>1. chunk.text \in Seq(STRING)
      BY DEF Chunk
    <3> QED BY <3>1, ConcatProperties
  <2>2. Gather(Got(t, c), chunk) = [Got(t, c) EXCEPT !.text = longer]
    BY <1>2 DEF Gather, Got
  <2> HIDE DEF longer
  <2>3. [Got(t, c) EXCEPT !.text = longer] = Got(longer, c)
    BY DEF Got
  <2> QED BY <2>1, <2>2, <2>3
<1>3. CASE chunk.type = "tool_call_delta"
  <2> DEFINE more == Accumulate(c, chunk.call[1])
  <2>1. Gather(Got(t, c), chunk) = [Got(t, c) EXCEPT !.calls = more]
    BY <1>3 DEF Gather, Got
  <2> HIDE DEF more
  <2>2. [Got(t, c) EXCEPT !.calls = more] = Got(t, more)
    BY DEF Got
  <2> QED BY <2>1, <2>2
<1> QED BY <1>1, <1>2, <1>3 DEF Chunk

LEMMA GatheredTyped ==
    ASSUME NEW t \in Seq(STRING), NEW c, NEW s \in Seq(Chunk)
    PROVE  \E u \in Seq(STRING) : \E e : Gathered(Got(t, c), s) = Got(u, e)
<1> DEFINE Typed(r) == \E u \in Seq(STRING) : \E e : Gathered(Got(t, c), r) = Got(u, e)
           X == {r \in Seq(Chunk) : Typed(r)}
<1>1. <<>> \in X
  <2>1. <<>> \in Seq(Chunk) /\ Gathered(Got(t, c), <<>>) = Got(t, c)
    BY GatheredFew
  <2> QED BY <2>1
<1>2. ASSUME NEW r \in Seq(Chunk), NEW chunk \in Chunk, r \in X PROVE Append(r, chunk) \in X
  <2>1. PICK u \in Seq(STRING) : \E e : Gathered(Got(t, c), r) = Got(u, e)
    BY <1>2
  <2>2. PICK e : Gathered(Got(t, c), r) = Got(u, e)
    BY <2>1
  <2>3. GatherFold!Fold(Got(t, c), Append(r, chunk)) = Gather(GatherFold!Fold(Got(t, c), r), chunk)
    BY GatherFold!FoldAppend
  <2>4. Gathered(Got(t, c), Append(r, chunk)) = Gather(Got(u, e), chunk)
    BY <2>2, <2>3, GatheredFold
  <2>5. Typed(Append(r, chunk))
    BY <2>4, GatherTyped
  <2>6. Append(r, chunk) \in Seq(Chunk)
    OBVIOUS
  <2> HIDE DEF Typed
  <2> QED BY <2>5, <2>6
<1> HIDE DEF X
<1>3. Seq(Chunk) \subseteq X
  BY <1>1, <1>2, AppendInduction
<1>4. s \in X
  BY <1>3
<1> QED BY <1>4 DEF X

TextFold == INSTANCE FoldFacts WITH Op <- AddText
FragmentFold == INSTANCE FoldFacts WITH Op <- AddCalls
ChunkFold == INSTANCE FoldFacts WITH Op <- AddChunks

LEMMA TextFacts ==
    ASSUME NEW s \in Seq(Delta)
    PROVE  /\ Text(<<>>) = <<>> /\ Text(s) \in Seq(STRING)
           /\ \A d \in Delta : Text(Append(s, d)) = Text(s) \o d.text
<1>1. ASSUME NEW r PROVE TextFold!Fold(<<>>, r) = Text(r)
  BY DEF Text, TextFold!Fold, FoldLeft, TextFold!FoldLeft, MapThenFoldSet,
         TextFold!MapThenFoldSet, Max, TextFold!Max
<1>2. \A x \in Seq(STRING), d \in Delta : AddText(x, d) \in Seq(STRING)
  BY DeltaParts, ConcatProperties DEF AddText
<1>3. Text(s) \in Seq(STRING)
  <2>1. <<>> \in Seq(STRING)
    OBVIOUS
  <2>2. TextFold!Fold(<<>>, s) \in Seq(STRING)
    BY <1>2, <2>1, TextFold!FoldKeeps
  <2> QED BY <1>1, <2>2
<1>4. ASSUME NEW d \in Delta PROVE Text(Append(s, d)) = Text(s) \o d.text
  <2>1. TextFold!Fold(<<>>, Append(s, d)) = AddText(TextFold!Fold(<<>>, s), d)
    BY TextFold!FoldAppend
  <2> QED BY <1>1, <2>1 DEF AddText
<1>5. Text(<<>>) = <<>>
  BY <1>1, TextFold!FoldEmpty
<1> QED BY <1>3, <1>4, <1>5

LEMMA FragmentFacts ==
    ASSUME NEW s \in Seq(Delta)
    PROVE  /\ Fragments(<<>>) = <<>> /\ Fragments(s) \in Seq(Fragment)
           /\ \A d \in Delta : Fragments(Append(s, d)) = Fragments(s) \o d.calls
<1>1. ASSUME NEW r PROVE FragmentFold!Fold(<<>>, r) = Fragments(r)
  BY DEF Fragments, FragmentFold!Fold, FoldLeft, FragmentFold!FoldLeft, MapThenFoldSet,
         FragmentFold!MapThenFoldSet, Max, FragmentFold!Max
<1>2. \A x \in Seq(Fragment), d \in Delta : AddCalls(x, d) \in Seq(Fragment)
  BY DeltaParts, ConcatProperties DEF AddCalls
<1>3. Fragments(s) \in Seq(Fragment)
  <2>1. <<>> \in Seq(Fragment)
    OBVIOUS
  <2>2. FragmentFold!Fold(<<>>, s) \in Seq(Fragment)
    BY <1>2, <2>1, FragmentFold!FoldKeeps
  <2> QED BY <1>1, <2>2
<1>4. ASSUME NEW d \in Delta PROVE Fragments(Append(s, d)) = Fragments(s) \o d.calls
  <2>1. FragmentFold!Fold(<<>>, Append(s, d)) = AddCalls(FragmentFold!Fold(<<>>, s), d)
    BY FragmentFold!FoldAppend
  <2> QED BY <1>1, <2>1 DEF AddCalls
<1>5. Fragments(<<>>) = <<>>
  BY <1>1, FragmentFold!FoldEmpty
<1> QED BY <1>3, <1>4, <1>5

\* A delta adds its text and its fragments.
LEMMA NothingAdds ==
    ASSUME NEW t \in Seq(STRING), NEW c
    PROVE  t \o Text(<<>>) = t /\ Collected(c, Fragments(<<>>)) = c
<1> DEFINE e == <<>>
<1>1. e \in Seq(Delta) /\ e \in Seq(Fragment)
  OBVIOUS
<1>2. Text(<<>>) = <<>> /\ Fragments(<<>>) = <<>>
  <2> HIDE DEF e
  <2> QED BY <1>1, TextFacts, FragmentFacts
<1>3. Collected(c, <<>>) = c
  <2> HIDE DEF e
  <2> QED BY <1>1, CalledFacts
<1>4. t \o <<>> = t
  BY ConcatEmptySeq
<1> QED BY <1>2, <1>3, <1>4

LEMMA TextAdds ==
    ASSUME NEW t \in Seq(STRING), NEW r \in Seq(Delta), NEW d \in Delta
    PROVE  t \o Text(Append(r, d)) = (t \o Text(r)) \o d.text
<1> DEFINE x == Text(r)
           y == d.text
<1>1. x \in Seq(STRING) /\ y \in Seq(STRING) /\ Text(Append(r, d)) = x \o y
  BY TextFacts, DeltaParts
<1> HIDE DEF x, y
<1>2. (t \o x) \o y = t \o (x \o y)
  BY <1>1, ConcatAssociative
<1> QED BY <1>1, <1>2 DEF x, y

LEMMA CallsAdd ==
    ASSUME NEW c, NEW r \in Seq(Delta), NEW d \in Delta
    PROVE  Collected(c, Fragments(Append(r, d))) = Collected(Collected(c, Fragments(r)), d.calls)
<1>1. Fragments(r) \in Seq(Fragment) /\ d.calls \in Seq(Fragment)
      /\ Fragments(Append(r, d)) = Fragments(r) \o d.calls
  BY FragmentFacts, DeltaParts
<1> QED BY <1>1, CalledFacts

\* Where no tags are looked for, reading is putting text and fragments together.
LEMMA PlainRead ==
    ASSUME NEW f, f # "airforce", NEW t \in Seq(STRING), NEW c, NEW s \in Seq(Delta)
    PROVE  Reading(State(f, FALSE, t, c), s)
               = State(f, FALSE, t \o Text(s), Collected(c, Fragments(s)))
<1> DEFINE start == State(f, FALSE, t, c)
           Then(r) == State(f, FALSE, t \o Text(r), Collected(c, Fragments(r)))
           X == {r \in Seq(Delta) : Reading(start, r) = Then(r)}
<1>1. <<>> \in X
  <2>1. Then(<<>>) = start
    BY NothingAdds
  <2>2. <<>> \in Seq(Delta)
    OBVIOUS
  <2> HIDE DEF start, Then
  <2>3. Reading(start, <<>>) = start
    BY <2>2, ReadingFacts
  <2> QED BY <2>1, <2>2, <2>3
<1>2. ASSUME NEW r \in Seq(Delta), NEW d \in Delta, r \in X PROVE Append(r, d) \in X
  <2>1. Reading(start, Append(r, d)) = Read(Then(r), d)
    <3> HIDE DEF start, Then
    <3> QED BY <1>2, ReadingFacts
  <2> DEFINE u == t \o Text(r)
             e == Collected(c, Fragments(r))
  <2>2. Read(Then(r), d) = State(f, FALSE, u \o d.text, Collected(e, d.calls))
    <3> HIDE DEF u, e
    <3>1. Read(State(f, FALSE, u, e), d) = State(f, FALSE, u \o d.text, Collected(e, d.calls))
      BY DEF Read, State
    <3> QED BY <3>1 DEF u, e
  <2>3. u \o d.text = t \o Text(Append(r, d))
    BY TextAdds
  <2>4. Collected(e, d.calls) = Collected(c, Fragments(Append(r, d)))
    BY CallsAdd
  <2>5. Append(r, d) \in Seq(Delta)
    OBVIOUS
  <2>6. Reading(start, Append(r, d)) = Then(Append(r, d))
    BY <2>1, <2>2, <2>3, <2>4
  <2> HIDE DEF start, Then
  <2> QED BY <2>5, <2>6
<1> HIDE DEF X
<1>3. Seq(Delta) \subseteq X
  BY <1>1, <1>2, AppendInduction
<1>4. s \in X
  BY <1>3
<1> QED BY <1>4 DEF X

LEMMA BareFragments ==
    ASSUME NEW s \in Seq(Delta), \A i \in DOMAIN s : s[i].calls = <<>>
    PROVE  Fragments(s) = <<>>
<1> DEFINE X == {r \in Seq(Delta) : (\A i \in DOMAIN r : r[i].calls = <<>>) => Fragments(r) = <<>>}
<1>1. <<>> \in X
  BY FragmentFacts
<1>2. ASSUME NEW r \in Seq(Delta), NEW d \in Delta, r \in X PROVE Append(r, d) \in X
  <2>1. Append(r, d) \in Seq(Delta) /\ Fragments(Append(r, d)) = Fragments(r) \o d.calls
    BY FragmentFacts
  <2>2. ASSUME \A i \in DOMAIN Append(r, d) : Append(r, d)[i].calls = <<>>
        PROVE  Fragments(Append(r, d)) = <<>>
    <3>1. \A i \in DOMAIN r : r[i].calls = <<>>
      <4>1. \A i \in DOMAIN r : i \in DOMAIN Append(r, d) /\ Append(r, d)[i] = r[i]
        OBVIOUS
      <4> QED BY <2>2, <4>1
    <3>2. d.calls = <<>>
      <4>1. Len(r) + 1 \in DOMAIN Append(r, d) /\ Append(r, d)[Len(r) + 1] = d
        OBVIOUS
      <4> QED BY <2>2, <4>1
    <3>3. Fragments(r) = <<>>
      BY <1>2, <3>1
    <3> QED BY <2>1, <3>2, <3>3
  <2> QED BY <2>1, <2>2
<1> HIDE DEF X
<1>3. Seq(Delta) \subseteq X
  BY <1>1, <1>2, AppendInduction
<1>4. s \in X
  BY <1>3
<1> QED BY <1>4 DEF X

\* The chunks of providers/pollinations.js bring what the lines have.
LEMMA PollinationsRead ==
    ASSUME NEW s \in Seq(Delta), NEW t \in Seq(STRING), NEW c
    PROVE  LET chunks == FoldLeft(AddChunks, <<>>, s)
           IN  /\ chunks \in Seq(Chunk)
               /\ Gathered(Got(t, c), chunks) = Got(t \o Text(s), Collected(c, Fragments(s)))
<1> DEFINE Chunks(r) == FoldLeft(AddChunks, <<>>, r)
           X == {r \in Seq(Delta) :
                    /\ Chunks(r) \in Seq(Chunk)
                    /\ Gathered(Got(t, c), Chunks(r)) = Got(t \o Text(r), Collected(c, Fragments(r)))}
<1>1. ASSUME NEW r PROVE ChunkFold!Fold(<<>>, r) = Chunks(r)
  BY DEF ChunkFold!Fold, FoldLeft, ChunkFold!FoldLeft, MapThenFoldSet,
         ChunkFold!MapThenFoldSet, Max, ChunkFold!Max
<1> HIDE DEF Chunks
<1>2. <<>> \in X
  <2>1. Chunks(<<>>) = <<>>
    BY <1>1, ChunkFold!FoldEmpty
  <2>2. <<>> \in Seq(Delta) /\ <<>> \in Seq(Chunk)
    OBVIOUS
  <2>3. Gathered(Got(t, c), <<>>) = Got(t, c)
    BY GatheredFew
  <2>4. Got(t \o Text(<<>>), Collected(c, Fragments(<<>>))) = Got(t, c)
    BY NothingAdds
  <2> QED BY <2>1, <2>2, <2>3, <2>4
<1>3. ASSUME NEW r \in Seq(Delta), NEW d \in Delta, r \in X PROVE Append(r, d) \in X
  <2>1. Chunks(Append(r, d)) = Chunks(r) \o PollinationsLine(d)
    <3>1. ChunkFold!Fold(<<>>, Append(r, d)) = AddChunks(ChunkFold!Fold(<<>>, r), d)
      BY ChunkFold!FoldAppend
    <3> QED BY <1>1, <3>1 DEF AddChunks
  <2> DEFINE u == t \o Text(r)
             e == Collected(c, Fragments(r))
  <2>2. Chunks(r) \in Seq(Chunk) /\ Gathered(Got(t, c), Chunks(r)) = Got(u, e)
    BY <1>3
  <2>3. u \in Seq(STRING)
    BY TextFacts, ConcatProperties
  <2>4. u \o d.text = t \o Text(Append(r, d))
    BY TextAdds
  <2>5. Collected(e, d.calls) = Collected(c, Fragments(Append(r, d)))
    BY CallsAdd
  <2> HIDE DEF u, e, X
  <2>6. PollinationsLine(d) \in Seq(Chunk)
        /\ Gathered(Got(u, e), PollinationsLine(d)) = Got(u \o d.text, Collected(e, d.calls))
    BY <2>3, PollinationsLineGathered
  <2>7. Gathered(Got(t, c), Chunks(r) \o PollinationsLine(d))
            = Gathered(Gathered(Got(t, c), Chunks(r)), PollinationsLine(d))
    BY <2>2, <2>6, GatheredConcat
  <2>8. Chunks(r) \o PollinationsLine(d) \in Seq(Chunk)
    BY <2>2, <2>6, ConcatProperties
  <2>9. /\ Append(r, d) \in Seq(Delta)
        /\ Chunks(Append(r, d)) \in Seq(Chunk)
        /\ Gathered(Got(t, c), Chunks(Append(r, d)))
               = Got(t \o Text(Append(r, d)), Collected(c, Fragments(Append(r, d))))
    BY <2>1, <2>2, <2>4, <2>5, <2>6, <2>7, <2>8
  <2> QED BY <2>9 DEF X
<1> HIDE DEF X
<1>4. Seq(Delta) \subseteq X
  BY <1>2, <1>3, AppendInduction
<1>5. s \in X
  BY <1>4
<1> QED BY <1>5 DEF X, Chunks

\* What a piece completes, and what is left of it.
Incoming(f, buffer, piece) == IF f = "yqcloud" THEN piece ELSE Lines(buffer \o piece)

\* What stays in the buffer.
Left(f, buffer, piece) == IF f = "yqcloud" THEN <<>> ELSE Rest(buffer \o piece)

\* Yqcloud's pieces are bare text.
Fit(f, piece) == f = "yqcloud" => /\ piece \in Seq(Delta)
                                  /\ \A i \in DOMAIN piece : piece[i].calls = <<>>

\* A parser whose buffer holds no whole line.
Parser(f, parser) == /\ parser.buffer \in Seq(Delta)
                     /\ parser.inside \in BOOLEAN
                     /\ f # "airforce" => parser.inside = FALSE

LEMMA StateOfGot ==
    ASSUME NEW f, NEW b, NEW t, NEW c PROVE StateOf(f, b, Got(t, c)) = State(f, b, t, c)
  BY DEF StateOf, Got

\* Decoding a piece, and pulling what is due, reads the deltas it completes.
LEMMA DecodedReads ==
    ASSUME NEW f \in Formats, f # "get", NEW parser, Parser(f, parser),
           NEW piece \in Seq(Atom), Fit(f, piece), NEW t \in Seq(STRING), NEW c
    PROVE  LET d == Decoded(f, parser, piece)
           IN  /\ Parser(f, d) /\ d.buffer = Left(f, parser.buffer, piece)
               /\ d.due \in Seq(Chunk)
               /\ StateOf(f, d.inside, Gathered(Got(t, c), d.due))
                    = Reading(State(f, parser.inside, t, c), Incoming(f, parser.buffer, piece))
<1> DEFINE d == Decoded(f, parser, piece)
           atoms == parser.buffer \o piece
           lines == Lines(atoms)
<1>1. atoms \in Seq(Atom)
  <2>1. parser.buffer \in Seq(Atom)
    BY LinesOfDeltas DEF Parser
  <2> QED BY <2>1, ConcatProperties
<1>2. lines \in Seq(Delta) /\ Rest(atoms) \in Seq(Delta)
  <2> HIDE DEF atoms
  <2> QED BY <1>1, CutAtLine
<1>3. CASE f = "airforce"
  <2> DEFINE r == AirforceLines(lines, parser.inside)
  <2>1. d = [buffer |-> Rest(atoms), inside |-> r.inside, due |-> r.chunks]
    BY <1>3 DEF Decoded
  <2> HIDE DEF atoms
  <2>2. r \in Told /\ Heard(t, c, r) = Reading(State(f, parser.inside, t, c), lines)
    <3>1. parser.inside \in BOOLEAN
      BY DEF Parser
    <3> HIDE DEF lines
    <3> QED BY <1>2, <1>3, <3>1, AirforceLinesRead
  <2> HIDE DEF r, lines, d
  <2>3. r.inside \in BOOLEAN /\ r.chunks \in Seq(Chunk)
    BY <2>2 DEF Told
  <2>4. Parser(f, d) /\ d.buffer = Rest(atoms) /\ d.due = r.chunks /\ d.inside = r.inside
    BY <1>2, <1>3, <2>1, <2>3 DEF Parser
  <2>5. Left(f, parser.buffer, piece) = Rest(atoms) /\ Incoming(f, parser.buffer, piece) = lines
    BY <1>3 DEF Left, Incoming, lines, atoms
  <2>6. Heard(t, c, r) = StateOf(f, d.inside, Gathered(Got(t, c), d.due))
    BY <1>3, <2>4 DEF Heard
  <2> QED BY <2>2, <2>3, <2>4, <2>5, <2>6 DEF d
<1>4. CASE f = "pollinations"
  <2> DEFINE chunks == FoldLeft(AddChunks, <<>>, lines)
  <2>1. d = [buffer |-> Rest(atoms), inside |-> FALSE, due |-> chunks]
    BY <1>4 DEF Decoded
  <2>2. /\ chunks \in Seq(Chunk)
        /\ Gathered(Got(t, c), chunks) = Got(t \o Text(lines), Collected(c, Fragments(lines)))
    <3> HIDE DEF lines
    <3> QED BY <1>2, PollinationsRead
  <2>3. Reading(State(f, FALSE, t, c), lines)
            = State(f, FALSE, t \o Text(lines), Collected(c, Fragments(lines)))
    <3> HIDE DEF lines
    <3> QED BY <1>2, <1>4, PlainRead
  <2>4. Left(f, parser.buffer, piece) = Rest(atoms) /\ Incoming(f, parser.buffer, piece) = lines
        /\ parser.inside = FALSE
    BY <1>4 DEF Left, Incoming, Parser
  <2> HIDE DEF chunks, lines, atoms, d
  <2>5. Parser(f, d) /\ d.buffer = Rest(atoms) /\ d.due = chunks /\ d.inside = FALSE
    BY <1>2, <2>1 DEF Parser
  <2>6. StateOf(f, d.inside, Gathered(Got(t, c), d.due))
            = State(f, FALSE, t \o Text(lines), Collected(c, Fragments(lines)))
    BY <2>2, <2>5, StateOfGot
  <2> QED BY <2>2, <2>3, <2>4, <2>5, <2>6 DEF d
<1>5. CASE f = "yqcloud"
  <2> DEFINE text == Text(piece)
             chunks == IF text = <<>> THEN <<>> ELSE <<Content(text)>>
  <2>1. d = [buffer |-> <<>>, inside |-> FALSE, due |-> chunks]
    BY <1>5 DEF Decoded
  <2>2. piece \in Seq(Delta) /\ Fragments(piece) = <<>> /\ text \in Seq(STRING)
    BY <1>5, BareFragments, TextFacts DEF Fit
  <2>3. Reading(State(f, FALSE, t, c), piece) = State(f, FALSE, t \o text, c)
    <3>1. Reading(State(f, FALSE, t, c), piece)
              = State(f, FALSE, t \o Text(piece), Collected(c, Fragments(piece)))
      BY <1>5, <2>2, PlainRead
    <3>2. Collected(c, <<>>) = c
      BY GatheredFold, CallFold!FoldEmpty
    <3> QED BY <2>2, <3>1, <3>2
  <2>4. Left(f, parser.buffer, piece) = <<>> /\ Incoming(f, parser.buffer, piece) = piece
        /\ parser.inside = FALSE
    BY <1>5 DEF Left, Incoming, Parser
  <2> HIDE DEF text
  <2>5. chunks \in Seq(Chunk) /\ Gathered(Got(t, c), chunks) = Got(t \o text, c)
    BY <2>2, ContentGathered
  <2> HIDE DEF chunks, atoms, d
  <2>6. Parser(f, d) /\ d.buffer = <<>> /\ d.due = chunks /\ d.inside = FALSE
    BY <2>1 DEF Parser
  <2>7. StateOf(f, d.inside, Gathered(Got(t, c), d.due)) = State(f, FALSE, t \o text, c)
    BY <2>5, <2>6, StateOfGot
  <2> QED BY <2>3, <2>4, <2>5, <2>6, <2>7 DEF d
<1> QED BY <1>3, <1>4, <1>5 DEF Formats

\* The calls grow by the fragments, whatever tags there are.
LEMMA CallsRead ==
    ASSUME NEW x, NEW s \in Seq(Delta)
    PROVE  Reading(x, s).calls = Collected(x.calls, Fragments(s))
<1> DEFINE X == {r \in Seq(Delta) : Reading(x, r).calls = Collected(x.calls, Fragments(r))}
<1>1. <<>> \in X
  <2>1. <<>> \in Seq(Delta) /\ <<>> \in Seq(STRING)
    OBVIOUS
  <2>2. Reading(x, <<>>) = x
    BY <2>1, ReadingFacts
  <2>3. Collected(x.calls, Fragments(<<>>)) = x.calls
    BY <2>1, NothingAdds
  <2> QED BY <2>1, <2>2, <2>3
<1>2. ASSUME NEW r \in Seq(Delta), NEW d \in Delta, r \in X PROVE Append(r, d) \in X
  <2>1. Reading(x, Append(r, d)) = Read(Reading(x, r), d)
    BY ReadingFacts
  <2>2. Reading(x, r).calls = Collected(x.calls, Fragments(r))
    BY <1>2
  <2>3. Read(Reading(x, r), d).calls = Collected(Reading(x, r).calls, d.calls)
    BY DEF Read, State
  <2>4. Collected(x.calls, Fragments(Append(r, d))) = Collected(Collected(x.calls, Fragments(r)), d.calls)
    BY CallsAdd
  <2>5. Append(r, d) \in Seq(Delta)
    OBVIOUS
  <2> QED BY <2>1, <2>2, <2>3, <2>4, <2>5
<1> HIDE DEF X
<1>3. Seq(Delta) \subseteq X
  BY <1>1, <1>2, AppendInduction
<1>4. s \in X
  BY <1>3
<1> QED BY <1>4 DEF X

\* The last word of a text is that of the last delta that has one.
LastSpoken(r, i) == /\ i \in DOMAIN r /\ r[i].text # <<>>
                    /\ Last(Text(r)) = Last(r[i].text)
                    /\ \A k \in (i + 1)..Len(r) : r[k].text = <<>>

\* A text ends with the text of its last delta that has one.
LEMMA LastWord ==
    ASSUME NEW s \in Seq(Delta), Text(s) # <<>>
    PROVE  \E i : LastSpoken(s, i)
<1> DEFINE X == {r \in Seq(Delta) : Text(r) # <<>> => \E i : LastSpoken(r, i)}
<1>1. <<>> \in X
  <2>1. <<>> \in Seq(Delta)
    OBVIOUS
  <2> QED BY <2>1, TextFacts
<1>2. ASSUME NEW r \in Seq(Delta), NEW d \in Delta, r \in X PROVE Append(r, d) \in X
  <2> DEFINE u == Append(r, d)
             n == Len(r)
  <2>1. /\ u \in Seq(Delta) /\ n \in Nat /\ Len(u) = n + 1 /\ u[n + 1] = d
        /\ \A i \in 1..n : u[i] = r[i]
        /\ DOMAIN r = 1..n /\ DOMAIN u = 1..(n + 1)
    OBVIOUS
  <2>2. Text(u) = Text(r) \o d.text /\ Text(r) \in Seq(STRING) /\ d.text \in Seq(STRING)
    BY TextFacts, DeltaParts
  <2> HIDE DEF u
  <2>3. ASSUME Text(u) # <<>> PROVE \E i : LastSpoken(u, i)
    <3>1. CASE d.text # <<>>
      <4>1. Last(Text(u)) = Last(d.text)
        BY <2>2, <3>1, LastOfConcat
      <4>2. n + 1 \in DOMAIN u /\ u[n + 1].text = d.text /\ \A k \in (n + 1 + 1)..Len(u) : FALSE
        BY <2>1
      <4>3. LastSpoken(u, n + 1)
        BY <3>1, <4>1, <4>2 DEF LastSpoken
      <4> QED BY <4>3
    <3>2. CASE d.text = <<>>
      <4>1. Text(u) = Text(r)
        BY <2>2, <3>2, LastOfConcat
      <4>2. PICK i : LastSpoken(r, i)
        BY <1>2, <2>3, <4>1
      <4>3. i \in 1..n /\ i \in DOMAIN u /\ u[i] = r[i]
        BY <2>1, <4>2 DEF LastSpoken
      <4>4. \A k \in (i + 1)..Len(u) : u[k].text = <<>>
        <5> SUFFICES ASSUME NEW k \in (i + 1)..Len(u) PROVE u[k].text = <<>>
          OBVIOUS
        <5>1. k = n + 1 \/ (k \in 1..n /\ k \in (i + 1)..Len(r))
          BY <2>1, <4>3
        <5> QED BY <2>1, <3>2, <4>2, <5>1 DEF LastSpoken
      <4>5. LastSpoken(u, i)
        BY <4>1, <4>2, <4>3, <4>4 DEF LastSpoken
      <4> QED BY <4>5
    <3> QED BY <3>1, <3>2
  <2> QED BY <2>1, <2>3 DEF u
<1> HIDE DEF X
<1>3. Seq(Delta) \subseteq X
  BY <1>1, <1>2, AppendInduction
<1>4. s \in X
  BY <1>3
<1> QED BY <1>4 DEF X

\* Where no tag is torn, no two runs of deltas share one.
LEMMA TornStart ==
    ASSUME NEW r \in Seq(Delta), NEW d \in Delta, ~Torn(Append(r, d))
    PROVE  ~Torn(r) /\ ~Tears(Text(r), d.text)
<1> DEFINE u == Append(r, d)
           n == Len(r)
<1>1. /\ u \in Seq(Delta) /\ n \in Nat /\ Len(u) = n + 1 /\ u[n + 1] = d
      /\ \A i \in 1..n : u[i] = r[i]
      /\ DOMAIN r = 1..n /\ DOMAIN u = 1..(n + 1)
  OBVIOUS
<1>2. ~Torn(u)
  OBVIOUS
<1> HIDE DEF u
<1>3. ~Torn(r)
  <2> SUFFICES ASSUME NEW i \in DOMAIN r, NEW j \in DOMAIN r, i < j,
                      \A k \in (i + 1)..(j - 1) : r[k].text = <<>>,
                      Tears(r[i].text, r[j].text)
               PROVE  FALSE
    BY DEF Torn
  <2>1. i \in DOMAIN u /\ j \in DOMAIN u /\ u[i] = r[i] /\ u[j] = r[j]
    BY <1>1
  <2>2. \A k \in (i + 1)..(j - 1) : u[k].text = <<>>
    <3>1. \A k \in (i + 1)..(j - 1) : k \in 1..n
      BY <1>1
    <3> QED BY <1>1, <3>1
  <2> QED BY <1>2, <2>1, <2>2 DEF Torn
<1>4. ASSUME Tears(Text(r), d.text) PROVE FALSE
  <2>1. Text(r) # <<>>
    BY <1>4 DEF Tears
  <2>2. PICK i : LastSpoken(r, i)
    BY <2>1, LastWord
  <2> DEFINE j == n + 1
  <2>3. /\ i \in DOMAIN u /\ j \in DOMAIN u /\ i < j /\ u[i] = r[i] /\ u[j] = d
        /\ \A k \in (i + 1)..(j - 1) : k \in 1..n /\ k \in (i + 1)..Len(r)
    BY <1>1, <2>2 DEF LastSpoken
  <2> HIDE DEF j
  <2>4. \A k \in (i + 1)..(j - 1) : u[k].text = <<>>
    BY <1>1, <2>2, <2>3 DEF LastSpoken
  <2>5. Tears(u[i].text, u[j].text)
    BY <1>4, <2>2, <2>3 DEF Tears, LastSpoken
  <2> QED BY <1>2, <2>3, <2>4, <2>5 DEF Torn
<1> QED BY <1>3, <1>4

LEMMA InlineOfNothing == StripInline(<<>>, FALSE) = [inside |-> FALSE, out |-> <<>>]
<1> DEFINE e == <<>>
<1>1. e \in Seq(STRING) /\ Len(e) = 0 /\ Len(e) + 1 = 1
  OBVIOUS
<1> HIDE DEF e
<1>2. StripTable(e)[Len(e) + 1][FALSE] = [inside |-> FALSE, out |-> <<>>]
  BY <1>1, StripEquations
<1> QED BY <1>1, <1>2, InlineFromTable DEF e

\* After deltas that tear no tag, read by providers/airforce.js.
TagsAfter(t, c, s) == LET strip == StripInline(Text(s), FALSE)
                      IN  State("airforce", strip.inside, t \o strip.out, Collected(c, Fragments(s)))

\* Where no tag is torn, reading delta by delta is reading the whole text.
THEOREM TagsRead ==
    ASSUME NEW t \in Seq(STRING), NEW c, NEW s \in Seq(Delta), ~Torn(s)
    PROVE  Reading(State("airforce", FALSE, t, c), s) = TagsAfter(t, c, s)
<1> DEFINE start == State("airforce", FALSE, t, c)
           X == {r \in Seq(Delta) : ~Torn(r) => Reading(start, r) = TagsAfter(t, c, r)}
<1>1. <<>> \in X
  <2>1. <<>> \in Seq(Delta)
    OBVIOUS
  <2>2. Text(<<>>) = <<>>
    BY <2>1, TextFacts
  <2>3. TagsAfter(t, c, <<>>) = start
    <3> DEFINE none == StripInline(<<>>, FALSE)
    <3>1. t \o <<>> = t /\ Collected(c, Fragments(<<>>)) = c
      BY ConcatEmptySeq, NothingAdds
    <3>2. none = [inside |-> FALSE, out |-> <<>>]
      BY InlineOfNothing
    <3>3. TagsAfter(t, c, <<>>) = State("airforce", none.inside, t \o none.out,
                                        Collected(c, Fragments(<<>>)))
      BY <2>2, Zenon DEF TagsAfter
    <3> HIDE DEF none
    <3>4. none.inside = FALSE /\ none.out = <<>>
      BY <3>2
    <3> QED BY <3>1, <3>3, <3>4
  <2> HIDE DEF start
  <2>4. Reading(start, <<>>) = start
    BY <2>1, ReadingFacts
  <2> QED BY <2>1, <2>3, <2>4
<1>2. ASSUME NEW r \in Seq(Delta), NEW d \in Delta, r \in X PROVE Append(r, d) \in X
  <2> DEFINE u == Append(r, d)
             x == Text(r)
             first == StripInline(x, FALSE)
             second == StripInline(d.text, first.inside)
             e == Collected(c, Fragments(r))
  <2>1. u \in Seq(Delta)
    OBVIOUS
  <2>2. ASSUME ~Torn(u) PROVE Reading(start, u) = TagsAfter(t, c, u)
    <3>1. ~Torn(r) /\ ~Tears(x, d.text)
      BY <2>2, TornStart
    <3>2. Reading(start, u) = Read(State("airforce", first.inside, t \o first.out, e), d)
      <4>1. Reading(start, r) = State("airforce", first.inside, t \o first.out, e)
        BY <1>2, <3>1 DEF TagsAfter
      <4> HIDE DEF start, first, e
      <4> QED BY <4>1, ReadingFacts
    <3>3. x \in Seq(STRING) /\ d.text \in Seq(STRING) /\ Text(u) = x \o d.text
      BY TextFacts, DeltaParts
    <3> HIDE DEF x
    <3>4. /\ first \in Stripped /\ second \in Stripped
          /\ StripInline(x \o d.text, FALSE) = [inside |-> second.inside,
                                                out |-> first.out \o second.out]
      BY <3>1, <3>3, StripConcat
    <3>5. first.out \in Seq(STRING) /\ second.out \in Seq(STRING)
      BY <3>4 DEF Stripped
    <3>6. Collected(e, d.calls) = Collected(c, Fragments(u))
      BY CallsAdd
    <3> HIDE DEF e, u, start
    <3>7. TagsAfter(t, c, u) = State("airforce", second.inside, t \o (first.out \o second.out),
                                     Collected(e, d.calls))
      <4> DEFINE whole == StripInline(x \o d.text, FALSE)
                 y == first.out \o second.out
      <4>1. TagsAfter(t, c, u) = State("airforce", whole.inside, t \o whole.out,
                                       Collected(c, Fragments(u)))
        BY <3>3, Zenon DEF TagsAfter
      <4> HIDE DEF y
      <4>2. whole = [inside |-> second.inside, out |-> y]
        BY <3>4 DEF y
      <4> HIDE DEF whole, second
      <4>3. whole.inside = second.inside /\ whole.out = y
        BY <4>2
      <4> QED BY <3>6, <4>1, <4>3 DEF y
    <3> HIDE DEF first
    <3>8. (t \o first.out) \o second.out = t \o (first.out \o second.out)
      <4> DEFINE y == first.out
                 z == second.out
      <4>1. y \in Seq(STRING) /\ z \in Seq(STRING)
        BY <3>5
      <4> HIDE DEF y, z
      <4>2. (t \o y) \o z = t \o (y \o z)
        BY <4>1, ConcatAssociative
      <4> QED BY <4>2 DEF y, z
    <3>9. Read(State("airforce", first.inside, t \o first.out, e), d)
              = State("airforce", second.inside, (t \o first.out) \o second.out,
                      Collected(e, d.calls))
      BY DEF Read, State
    <3> QED BY <3>2, <3>7, <3>8, <3>9
  <2> HIDE DEF u
  <2> QED BY <2>1, <2>2 DEF u
<1> HIDE DEF X
<1>3. Seq(Delta) \subseteq X
  BY <1>1, <1>2, AppendInduction
<1>4. s \in X
  BY <1>3
<1> QED BY <1>4 DEF X
-----------------------------------------------------------------------------
(***************************************************************************)
(* stripThinkTags() hides what the loop of providers/airforce.js hides     *)
(***************************************************************************)

LEMMA WordAdded ==
    ASSUME NEW s \in Seq(STRING), NEW t \in Seq(STRING), NEW w \in STRING
    PROVE  s \o Append(t, w) = Append(s \o t, w)
<1>1. Append(t, w) = t \o <<w>>
  BY AppendIsConcat
<1>2. Append(s \o t, w) = (s \o t) \o <<w>>
  BY AppendIsConcat, ConcatProperties
<1>3. <<w>> \in Seq(STRING)
  BY OneWord
<1>4. (s \o t) \o <<w>> = s \o (t \o <<w>>)
  BY <1>3, ConcatAssociative
<1> QED BY <1>1, <1>2, <1>4

ShowFold == INSTANCE FoldFacts WITH Op <- Show

Tagged == [word : STRING, hidden : BOOLEAN]

\* The words that show, after those of a text.
Shown(out, ws) == FoldLeft(Show, out, ws)

LEMMA ShownFacts ==
    ASSUME NEW b \in Seq(STRING), NEW s \in Seq(Tagged)
    PROVE  /\ Shown(<<>>, <<>>) = <<>>
           /\ Shown(b, s) = b \o Shown(<<>>, s)
           /\ Shown(<<>>, s) \in Seq(STRING)
           /\ \A w \in Tagged : Shown(<<>>, <<w>> \o s)
                  = IF w.hidden THEN Shown(<<>>, s) ELSE <<w.word>> \o Shown(<<>>, s)
<1>1. ASSUME NEW c, NEW r PROVE ShowFold!Fold(c, r) = Shown(c, r)
  BY DEF Shown, ShowFold!Fold, FoldLeft, ShowFold!FoldLeft, MapThenFoldSet,
         ShowFold!MapThenFoldSet, Max, ShowFold!Max
<1>2. ASSUME NEW c PROVE Shown(c, <<>>) = c
  BY <1>1, ShowFold!FoldEmpty
<1>3. ASSUME NEW c, NEW r \in Seq(Tagged), NEW w \in Tagged
      PROVE  Shown(c, Append(r, w)) = Show(Shown(c, r), w)
  <2>1. ShowFold!Fold(c, Append(r, w)) = Show(ShowFold!Fold(c, r), w)
    BY ShowFold!FoldAppend
  <2> QED BY <1>1, <2>1
<1>4. ASSUME NEW r \in Seq(Tagged) PROVE Shown(<<>>, r) \in Seq(STRING)
  <2>1. ASSUME NEW x \in Seq(STRING), NEW w \in Tagged PROVE Show(x, w) \in Seq(STRING)
    <3> DEFINE y == w.word
    <3>1. y \in STRING
      BY DEF Tagged
    <3> HIDE DEF y
    <3>2. Append(x, y) \in Seq(STRING)
      BY <3>1, AppendProperties, Zenon
    <3> QED BY <3>2 DEF Show, y
  <2>2. <<>> \in Seq(STRING)
    OBVIOUS
  <2>3. ShowFold!Fold(<<>>, r) \in Seq(STRING)
    BY <2>1, <2>2, ShowFold!FoldKeeps
  <2> QED BY <1>1, <2>3
<1>5. ASSUME NEW c \in Seq(STRING), NEW z \in Seq(Tagged)
      PROVE  Shown(c, z) = c \o Shown(<<>>, z)
  <2> DEFINE X == {r \in Seq(Tagged) : Shown(c, r) = c \o Shown(<<>>, r)}
  <2>1. <<>> \in X
    <3>1. <<>> \in Seq(Tagged) /\ c \o <<>> = c
      BY ConcatEmptySeq
    <3> QED BY <1>2, <3>1
  <2>2. ASSUME NEW r \in Seq(Tagged), NEW w \in Tagged, r \in X PROVE Append(r, w) \in X
    <3> DEFINE x == Shown(<<>>, r)
               y == w.word
    <3>1. x \in Seq(STRING) /\ y \in STRING
      BY <1>4 DEF Tagged
    <3>5. Shown(c, r) = c \o x
      BY <2>2
    <3>2. Shown(c, Append(r, w)) = Show(c \o x, w) /\ Shown(<<>>, Append(r, w)) = Show(x, w)
      <4> HIDE DEF X
      <4>1. Shown(c, Append(r, w)) = Show(Shown(c, r), w)
        BY <1>3
      <4>2. Shown(<<>>, Append(r, w)) = Show(x, w)
        BY <1>3
      <4> HIDE DEF x
      <4> QED BY <3>5, <4>1, <4>2
    <3> HIDE DEF x, y, X
    <3>3. Show(c \o x, w) = c \o Show(x, w)
      <4>1. c \o Append(x, y) = Append(c \o x, y)
        BY <3>1, WordAdded
      <4> QED BY <4>1 DEF Show, y
    <3>4. Append(r, w) \in Seq(Tagged)
      OBVIOUS
    <3> QED BY <3>2, <3>3, <3>4 DEF X
  <2> HIDE DEF X
  <2>3. Seq(Tagged) \subseteq X
    BY <2>1, <2>2, AppendInduction
  <2>4. z \in X
    BY <2>3
  <2> QED BY <2>4 DEF X
<1>6. ASSUME NEW w \in Tagged
      PROVE  Shown(<<>>, <<w>> \o s)
                 = IF w.hidden THEN Shown(<<>>, s) ELSE <<w.word>> \o Shown(<<>>, s)
  <2>1. <<w>> \in Seq(Tagged)
    BY OneWord
  <2>2. ShowFold!Fold(<<>>, <<w>> \o s) = ShowFold!Fold(ShowFold!Fold(<<>>, <<w>>), s)
    BY <2>1, ShowFold!FoldConcat
  <2>3. Shown(<<>>, <<w>>) = Show(<<>>, w)
    <3> DEFINE e == <<>>
    <3>1. e \in Seq(Tagged) /\ Append(e, w) = <<w>>
      OBVIOUS
    <3> HIDE DEF e
    <3>2. Shown(<<>>, Append(e, w)) = Show(Shown(<<>>, e), w)
      BY <1>3, <3>1
    <3>3. Shown(<<>>, e) = <<>>
      BY <1>2 DEF e
    <3> QED BY <3>1, <3>2, <3>3
  <2>4. Show(<<>>, w) = IF w.hidden THEN <<>> ELSE <<w.word>>
    BY DEF Show
  <2>5. w.word \in STRING /\ <<w.word>> \in Seq(STRING)
    BY OneWord DEF Tagged
  <2>6. Shown(<<w.word>>, s) = <<w.word>> \o Shown(<<>>, s)
    BY <1>5, <2>5
  <2> QED BY <1>1, <2>2, <2>3, <2>4, <2>6
<1> QED BY <1>2, <1>4, <1>5, <1>6

\* The words of a text, each with whether stripThinkTags() hides it.
TaggedWords(text) == [i \in DOMAIN text |-> [word |-> text[i], hidden |-> Hidden(text, i)]]

\* What shows of the words from i on.
ShownFrom(text, i) == Shown(<<>>, SubSeq(TaggedWords(text), i, Len(text)))

LEMMA ShownFromFacts ==
    ASSUME NEW text \in Seq(STRING)
    PROVE  /\ StripThinkTags(text) = ShownFrom(text, 1)
           /\ ShownFrom(text, Len(text) + 1) = <<>>
           /\ \A i \in 1..Len(text) :
                  ShownFrom(text, i) = IF Hidden(text, i) THEN ShownFrom(text, i + 1)
                                       ELSE <<text[i]>> \o ShownFrom(text, i + 1)
<1> DEFINE w == TaggedWords(text)
           n == Len(text)
<1>1. n \in Nat /\ DOMAIN text = 1..n /\ \A i \in 1..n : text[i] \in STRING
  OBVIOUS
<1>2. \A i : Hidden(text, i) \in BOOLEAN
  BY DEF Hidden
<1>3. /\ w = [i \in 1..n |-> [word |-> text[i], hidden |-> Hidden(text, i)]]
      /\ \A i \in 1..n : w[i] \in Tagged /\ w[i].word = text[i] /\ w[i].hidden = Hidden(text, i)
  BY <1>1, <1>2 DEF TaggedWords, Tagged
<1>4. w \in Seq(Tagged) /\ Len(w) = n
  BY <1>1, <1>3
<1>5. StripThinkTags(text) = Shown(<<>>, w)
  BY DEF StripThinkTags, TaggedWords, Shown
<1> HIDE DEF w
<1>6. SubSeq(w, 1, n) = w
  BY <1>4, SubSeqFull
<1>7. SubSeq(w, n + 1, n) = <<>>
  BY <1>1, <1>4, SubSeqEmpty
<1>8. ASSUME NEW i \in 1..n
      PROVE  ShownFrom(text, i) = IF Hidden(text, i) THEN ShownFrom(text, i + 1)
                                  ELSE <<text[i]>> \o ShownFrom(text, i + 1)
  <2> DEFINE r == SubSeq(w, i + 1, n)
  <2>1. r \in Seq(Tagged)
    BY <1>1, <1>3, <1>4, SubSeqProperties
  <2>2. SubSeq(w, i, n) = <<w[i]>> \o r
    BY <1>1, <1>4, SubSeqRecursiveFirst
  <2> HIDE DEF r
  <2>3. w[i] \in Tagged /\ w[i].word = text[i] /\ w[i].hidden = Hidden(text, i)
    BY <1>3
  <2>4. Shown(<<>>, <<w[i]>> \o r) = IF w[i].hidden THEN Shown(<<>>, r)
                                     ELSE <<w[i].word>> \o Shown(<<>>, r)
    <3>1. <<>> \in Seq(STRING)
      OBVIOUS
    <3> DEFINE v == w[i]
    <3>2. v \in Tagged
      BY <2>3
    <3> HIDE DEF v
    <3>3. Shown(<<>>, <<v>> \o r) = IF v.hidden THEN Shown(<<>>, r)
                                    ELSE <<v.word>> \o Shown(<<>>, r)
      BY <2>1, <3>1, <3>2, ShownFacts
    <3> QED BY <3>3 DEF v
  <2>5. ShownFrom(text, i) = Shown(<<>>, <<w[i]>> \o r) /\ ShownFrom(text, i + 1) = Shown(<<>>, r)
    BY <2>2 DEF ShownFrom, w, r
  <2> QED BY <2>3, <2>4, <2>5
<1>9. Shown(<<>>, <<>>) = <<>>
  <2>1. <<>> \in Seq(STRING) /\ <<>> \in Seq(Tagged)
    OBVIOUS
  <2> QED BY <2>1, ShownFacts
<1>10. StripThinkTags(text) = ShownFrom(text, 1) /\ ShownFrom(text, n + 1) = <<>>
  BY <1>5, <1>6, <1>7, <1>9 DEF ShownFrom, w
<1> QED BY <1>8, <1>10

\* Where the loop may stand outside a block, and inside one.
Outside(text, i) == \A j \in 1..(i - 1) :
                        OpenAt(text, j) => \E k \in j..(i - 2) : CloseAt(text, k)

\* Whether the scan is in a block when it comes to place i.
Inside(text, i) == \E j \in 1..(i - 1) : /\ OpenAt(text, j)
                                         /\ \A k \in j..(i - 1) : ~CloseAt(text, k)

\* What the loop does at each place, told by Outside and Inside.
LEMMA ScanSteps ==
    ASSUME NEW text \in Seq(STRING), NEW i \in 1..Len(text)
    PROVE  /\ Outside(text, i) =>
                  /\ Hidden(text, i) <=> OpenAt(text, i)
                  /\ OpenAt(text, i) => Hidden(text, i + 1) /\ Inside(text, i + 2)
                  /\ ~OpenAt(text, i) => Outside(text, i + 1)
           /\ Inside(text, i) =>
                  /\ Hidden(text, i)
                  /\ CloseAt(text, i) => Hidden(text, i + 1) /\ Outside(text, i + 2)
                  /\ ~CloseAt(text, i) => Inside(text, i + 1)
<1> DEFINE n == Len(text)
<1>1. n \in Nat
  OBVIOUS
<1>2. \A k, l : /\ OpenAt(text, k) => ~CloseAt(text, k)
                /\ OpenAt(text, k) => ~CloseAt(text, k + 1)
                /\ CloseAt(text, k) => ~OpenAt(text, k + 1)
  BY DEF OpenAt, CloseAt
<1> HIDE DEF n
<1>3. ASSUME Outside(text, i)
      PROVE  /\ Hidden(text, i) <=> OpenAt(text, i)
             /\ OpenAt(text, i) => Hidden(text, i + 1) /\ Inside(text, i + 2)
             /\ ~OpenAt(text, i) => Outside(text, i + 1)
  <2>1. ASSUME Hidden(text, i) PROVE OpenAt(text, i)
    <3>1. PICK j \in 1..i : OpenAt(text, j) /\ \A k \in j..(i - 2) : ~CloseAt(text, k)
      BY <2>1 DEF Hidden
    <3>2. ~(j \in 1..(i - 1))
      BY <1>3, <3>1 DEF Outside
    <3>3. j = i
      BY <3>2
    <3> QED BY <3>1, <3>3
  <2>2. ASSUME OpenAt(text, i) PROVE Hidden(text, i)
    <3>1. i \in 1..i /\ \A k \in i..(i - 2) : FALSE
      OBVIOUS
    <3> QED BY <2>2, <3>1 DEF Hidden
  <2>3. ASSUME OpenAt(text, i) PROVE Hidden(text, i + 1) /\ Inside(text, i + 2)
    <3> DEFINE h == i + 1
               g == i + 2
    <3>1. i \in 1..h /\ (\A k \in i..(h - 2) : FALSE) /\ i \in 1..(g - 1)
          /\ \A k \in i..(g - 1) : k = i \/ k = i + 1
      OBVIOUS
    <3> HIDE DEF h, g
    <3>2. Hidden(text, h)
      BY <2>3, <3>1 DEF Hidden
    <3>3. Inside(text, g)
      BY <1>2, <2>3, <3>1 DEF Inside
    <3> QED BY <3>2, <3>3 DEF h, g
  <2>4. ASSUME ~OpenAt(text, i) PROVE Outside(text, i + 1)
    <3> SUFFICES ASSUME NEW j \in 1..(i + 1 - 1), OpenAt(text, j)
                 PROVE  \E k \in j..(i + 1 - 2) : CloseAt(text, k)
      BY DEF Outside
    <3>1. j \in 1..(i - 1)
      <4>1. j # i
        BY <2>4
      <4> QED BY <4>1
    <3>2. PICK k \in j..(i - 2) : CloseAt(text, k)
      BY <1>3, <3>1 DEF Outside
    <3>3. k \in j..(i + 1 - 2)
      OBVIOUS
    <3> QED BY <3>2, <3>3
  <2> QED BY <2>1, <2>2, <2>3, <2>4
<1>4. ASSUME Inside(text, i)
      PROVE  /\ Hidden(text, i)
             /\ CloseAt(text, i) => Hidden(text, i + 1) /\ Outside(text, i + 2)
             /\ ~CloseAt(text, i) => Inside(text, i + 1)
  <2>1. PICK j \in 1..(i - 1) : OpenAt(text, j) /\ \A k \in j..(i - 1) : ~CloseAt(text, k)
    BY <1>4 DEF Inside
  <2> DEFINE h == i + 1
             g == i + 2
  <2>2. /\ j \in 1..i /\ \A k \in j..(i - 2) : k \in j..(i - 1)
        /\ j \in 1..h /\ \A k \in j..(h - 2) : k \in j..(i - 1)
        /\ j \in 1..(h - 1) /\ \A k \in j..(h - 1) : k = i \/ k \in j..(i - 1)
        /\ \A l \in 1..(g - 1) : l = i + 1 \/ i \in l..(g - 2)
    OBVIOUS
  <2> HIDE DEF h, g
  <2>3. Hidden(text, i) /\ Hidden(text, h)
    BY <2>1, <2>2 DEF Hidden
  <2>4. CloseAt(text, i) => Outside(text, g)
    BY <1>2, <2>2 DEF Outside
  <2>5. ~CloseAt(text, i) => Inside(text, h)
    BY <2>1, <2>2 DEF Inside
  <2> QED BY <2>3, <2>4, <2>5 DEF h, g
<1> QED BY <1>3, <1>4

\* What the loop has put out from word i on is what shows of it.
Agrees(text, g, i) == /\ Outside(text, i) => g[i][FALSE].out = ShownFrom(text, i)
                      /\ Inside(text, i) => g[i][TRUE].out = ShownFrom(text, i)

LEMMA AgreesBelow ==
    ASSUME NEW text \in Seq(STRING), NEW g, StripRules(text, g), NEW i \in 1..Len(text),
           Agrees(text, g, i + 1),
           OpenAt(text, i) \/ CloseAt(text, i) => Agrees(text, g, i + 2)
    PROVE  Agrees(text, g, i)
<1> DEFINE n == Len(text)
           h == i + 1
           j == i + 2
<1>1. /\ n \in Nat /\ h \in 1..(n + 1)
      /\ OpenAt(text, i) \/ CloseAt(text, i) => h \in 1..n
      /\ h + 1 = j
  BY DEF OpenAt, CloseAt
<1>2. /\ CloseAt(text, i) => g[i][TRUE] = g[j][FALSE]
      /\ ~CloseAt(text, i) => g[i][TRUE] = g[h][TRUE]
      /\ OpenAt(text, i) => g[i][FALSE] = g[j][TRUE]
      /\ ~OpenAt(text, i) => g[i][FALSE] = [inside |-> g[h][FALSE].inside,
                                            out |-> <<text[i]>> \o g[h][FALSE].out]
  BY DEF StripRules
<1>3. ShownFrom(text, i) = IF Hidden(text, i) THEN ShownFrom(text, h)
                           ELSE <<text[i]>> \o ShownFrom(text, h)
  BY ShownFromFacts
<1>4. h \in 1..n => ShownFrom(text, h) = IF Hidden(text, h) THEN ShownFrom(text, j)
                                         ELSE <<text[h]>> \o ShownFrom(text, j)
  <2> HIDE DEF h, j
  <2> QED BY <1>1, ShownFromFacts
<1>5. /\ Outside(text, i) =>
             /\ Hidden(text, i) <=> OpenAt(text, i)
             /\ OpenAt(text, i) => Hidden(text, h) /\ Inside(text, j)
             /\ ~OpenAt(text, i) => Outside(text, h)
      /\ Inside(text, i) =>
             /\ Hidden(text, i)
             /\ CloseAt(text, i) => Hidden(text, h) /\ Outside(text, j)
             /\ ~CloseAt(text, i) => Inside(text, h)
  BY ScanSteps
<1>6. Agrees(text, g, h) /\ (OpenAt(text, i) \/ CloseAt(text, i) => Agrees(text, g, j))
  OBVIOUS
<1> HIDE DEF h, j
<1>7. ASSUME Outside(text, i) PROVE g[i][FALSE].out = ShownFrom(text, i)
  <2>1. CASE OpenAt(text, i)
    <3>1. ShownFrom(text, i) = ShownFrom(text, j)
      BY <1>1, <1>3, <1>4, <1>5, <1>7, <2>1
    <3>2. g[j][TRUE].out = ShownFrom(text, j)
      BY <1>5, <1>6, <1>7, <2>1 DEF Agrees
    <3> QED BY <1>2, <2>1, <3>1, <3>2
  <2>2. CASE ~OpenAt(text, i)
    <3>1. ShownFrom(text, i) = <<text[i]>> \o ShownFrom(text, h)
      BY <1>3, <1>5, <1>7, <2>2
    <3>2. g[h][FALSE].out = ShownFrom(text, h)
      BY <1>5, <1>6, <1>7, <2>2 DEF Agrees
    <3>3. g[i][FALSE].out = <<text[i]>> \o g[h][FALSE].out
      <4> DEFINE longer == <<text[i]>> \o g[h][FALSE].out
                 b == g[h][FALSE].inside
      <4>1. g[i][FALSE] = [inside |-> b, out |-> longer]
        BY <1>2, <2>2
      <4> HIDE DEF longer, b
      <4>2. g[i][FALSE].out = longer
        BY <4>1
      <4> QED BY <4>2 DEF longer
    <3> QED BY <3>1, <3>2, <3>3
  <2> QED BY <2>1, <2>2
<1>8. ASSUME Inside(text, i) PROVE g[i][TRUE].out = ShownFrom(text, i)
  <2>1. CASE CloseAt(text, i)
    <3>1. ShownFrom(text, i) = ShownFrom(text, j)
      BY <1>1, <1>3, <1>4, <1>5, <1>8, <2>1
    <3>2. g[j][FALSE].out = ShownFrom(text, j)
      BY <1>5, <1>6, <1>8, <2>1 DEF Agrees
    <3> QED BY <1>2, <2>1, <3>1, <3>2
  <2>2. CASE ~CloseAt(text, i)
    <3>1. ShownFrom(text, i) = ShownFrom(text, h)
      BY <1>3, <1>5, <1>8
    <3>2. g[h][TRUE].out = ShownFrom(text, h)
      BY <1>5, <1>6, <1>8, <2>2 DEF Agrees
    <3> QED BY <1>2, <2>2, <3>1, <3>2
  <2> QED BY <2>1, <2>2
<1> QED BY <1>7, <1>8 DEF Agrees

\* The loop that starts outside a block leaves what stripThinkTags() leaves.
THEOREM InlineIsWhole ==
    ASSUME NEW text \in Seq(STRING)
    PROVE  StripInline(text, FALSE).out = StripThinkTags(text)
<1> DEFINE n == Len(text)
           N == n + 1
           g == StripTable(text)
           S == {i \in 1..N : \A k \in i..N : Agrees(text, g, k)}
<1>1. n \in Nat
  OBVIOUS
<1>2. StripRules(text, g)
  BY StripEquations DEF StripRules
<1> HIDE DEF g
<1>3. N \in S
  <2>1. \A b \in BOOLEAN : g[N][b] = [inside |-> b, out |-> <<>>]
    BY <1>2 DEF StripRules
  <2>2. ShownFrom(text, N) = <<>>
    BY ShownFromFacts
  <2>3. N \in 1..N /\ \A k \in N..N : k = N
    BY <1>1
  <2> HIDE DEF N
  <2>4. Agrees(text, g, N)
    <3> DEFINE none == <<>>
    <3> HIDE DEF none
    <3>1. g[N][FALSE] = [inside |-> FALSE, out |-> none] /\ g[N][TRUE] = [inside |-> TRUE, out |-> none]
      BY <2>1 DEF none
    <3>2. g[N][FALSE].out = none /\ g[N][TRUE].out = none
      BY <3>1
    <3> QED BY <2>2, <3>2 DEF Agrees, none
  <2> QED BY <2>3, <2>4
<1>4. ASSUME NEW i \in 2..N, i \in S PROVE i - 1 \in S
  <2> DEFINE j == i - 1
  <2>1. /\ j \in 1..n /\ j + 1 = i /\ i \in i..N /\ j \in 1..N
        /\ OpenAt(text, j) \/ CloseAt(text, j) => j + 2 \in i..N
        /\ \A k \in j..N : k = j \/ k \in i..N
    BY <1>1 DEF OpenAt, CloseAt
  <2> HIDE DEF j, N
  <2>2. \A k \in i..N : Agrees(text, g, k)
    BY <1>4
  <2>3. Agrees(text, g, j + 1) /\ (OpenAt(text, j) \/ CloseAt(text, j) => Agrees(text, g, j + 2))
    BY <2>1, <2>2
  <2>4. Agrees(text, g, j)
    BY <1>2, <2>1, <2>3, AgreesBelow
  <2>5. \A k \in j..N : Agrees(text, g, k)
    BY <2>1, <2>2, <2>4
  <2>6. j \in S
    BY <2>1, <2>5
  <2> QED BY <2>6 DEF j
<1>5. 1 \in S
  <2>1. N \in Nat \ {0} /\ Descends(S, N)
    BY <1>1, <1>3, <1>4 DEF Descends
  <2> HIDE DEF S, N
  <2> QED BY <2>1, DownToOne
<1>6. Agrees(text, g, 1)
  <2>1. 1 \in 1..N
    BY <1>1
  <2> HIDE DEF N
  <2> QED BY <1>5, <2>1
<1>7. Outside(text, 1)
  <2>1. \A j \in 1..(1 - 1) : FALSE
    OBVIOUS
  <2> QED BY <2>1 DEF Outside
<1> QED BY <1>6, <1>7, InlineFromTable, ShownFromFacts DEF Agrees, g
-----------------------------------------------------------------------------
(***************************************************************************)
(* Pieces: cutting a reply differently decodes to the same deltas          *)
(***************************************************************************)

\* Pieces one after the other.
Joins(x, piece) == x \o piece

JoinFold == INSTANCE FoldFacts WITH Op <- Joins

\* The pieces one after the other.
Flow(pieces) == FoldLeft(Joins, <<>>, pieces)

LEMMA FlowFacts ==
    ASSUME NEW s \in Seq(Seq(Atom)), NEW piece \in Seq(Atom)
    PROVE  /\ Flow(<<>>) = <<>> /\ Flow(s) \in Seq(Atom)
           /\ Flow(Append(s, piece)) = Flow(s) \o piece
           /\ Flow(<<piece>> \o s) = piece \o Flow(s)
<1>1. ASSUME NEW r PROVE JoinFold!Fold(<<>>, r) = Flow(r)
  BY DEF Flow, JoinFold!Fold, FoldLeft, JoinFold!FoldLeft, MapThenFoldSet,
         JoinFold!MapThenFoldSet, Max, JoinFold!Max
<1>2. Flow(<<>>) = <<>>
  BY <1>1, JoinFold!FoldEmpty
<1>3. ASSUME NEW r \in Seq(Seq(Atom)) PROVE Flow(r) \in Seq(Atom)
  <2>1. \A x \in Seq(Atom), y \in Seq(Atom) : Joins(x, y) \in Seq(Atom)
    BY ConcatProperties DEF Joins
  <2>2. <<>> \in Seq(Atom)
    OBVIOUS
  <2>3. JoinFold!Fold(<<>>, r) \in Seq(Atom)
    <3> DEFINE G == Seq(Atom)
    <3> HIDE DEF G
    <3>1. r \in Seq(G) /\ <<>> \in G /\ \A x \in G, y \in G : Joins(x, y) \in G
      BY <2>1, <2>2 DEF G
    <3>2. JoinFold!Fold(<<>>, r) \in G
      BY <3>1, JoinFold!FoldKeeps
    <3> QED BY <3>2 DEF G
  <2> QED BY <1>1, <2>3
<1>4. ASSUME NEW r \in Seq(Seq(Atom)), NEW y \in Seq(Atom) PROVE Flow(Append(r, y)) = Flow(r) \o y
  <2>1. JoinFold!Fold(<<>>, Append(r, y)) = Joins(JoinFold!Fold(<<>>, r), y)
    BY JoinFold!FoldAppend
  <2> QED BY <1>1, <2>1 DEF Joins
<1> DEFINE G == Seq(Atom)
           X == {r \in Seq(G) : Flow(<<piece>> \o r) = piece \o Flow(r)}
<1>5. <<>> \in X
  <2>1. <<>> \in Seq(G) /\ <<>> \in Seq(Atom)
    OBVIOUS
  <2>2. <<piece>> = Append(<<>>, piece) /\ <<piece>> \in Seq(G)
    OBVIOUS
  <2>3. <<piece>> \o <<>> = <<piece>>
    BY <2>2, ConcatEmptySeq
  <2>4. Flow(Append(<<>>, piece)) = Flow(<<>>) \o piece
    BY <1>4, <2>1
  <2>5. <<>> \o piece = piece /\ piece \o <<>> = piece
    BY ConcatEmptySeq
  <2>6. Flow(<<piece>> \o <<>>) = piece \o Flow(<<>>)
    BY <1>2, <2>2, <2>3, <2>4, <2>5
  <2> QED BY <2>1, <2>6
<1>6. ASSUME NEW r \in Seq(G), NEW y \in G, r \in X PROVE Append(r, y) \in X
  <2>1. <<piece>> \in Seq(G) /\ Append(r, y) \in Seq(G)
    OBVIOUS
  <2> HIDE DEF G
  <2>2. <<piece>> \o Append(r, y) = Append(<<piece>> \o r, y) /\ <<piece>> \o r \in Seq(G)
    BY <2>1, ConcatAppend, ConcatProperties
  <2>3. Flow(<<piece>> \o Append(r, y)) = Flow(<<piece>> \o r) \o y
    BY <1>4, <2>2 DEF G
  <2>4. Flow(<<piece>> \o r) = piece \o Flow(r)
    BY <1>6
  <2>5. Flow(Append(r, y)) = Flow(r) \o y
    BY <1>4 DEF G
  <2> DEFINE v == Flow(r)
  <2>6. v \in Seq(Atom)
    BY <1>3 DEF G
  <2> HIDE DEF v
  <2>7. (piece \o v) \o y = piece \o (v \o y)
    BY <2>6, ConcatAssociative DEF G
  <2>8. Flow(<<piece>> \o Append(r, y)) = piece \o Flow(Append(r, y))
    BY <2>3, <2>4, <2>5, <2>7 DEF v
  <2> QED BY <2>1, <2>8
<1>7. Seq(G) \subseteq X
  <2> HIDE DEF X, G
  <2> QED BY <1>5, <1>6, AppendInduction
<1> QED BY <1>2, <1>3, <1>4, <1>7

\* Pieces as the format's stream has them.
Pieces(f) == {piece \in Seq(Atom) : Fit(f, piece)}

\* What comes after a piece is cut with what the piece left.
LEMMA IncomingConcat ==
    ASSUME NEW f, NEW b \in Seq(Delta), NEW x \in Seq(Atom), NEW y \in Seq(Atom)
    PROVE  /\ Incoming(f, b, x \o y) = Incoming(f, b, x) \o Incoming(f, Left(f, b, x), y)
           /\ Left(f, b, x \o y) = Left(f, Left(f, b, x), y)
<1>1. CASE f = "yqcloud"
  BY <1>1 DEF Incoming, Left
<1>2. CASE f # "yqcloud"
  <2> DEFINE s == b \o x
  <2>1. b \in Seq(Atom)
    BY LinesOfDeltas
  <2>2. s \in Seq(Atom) /\ b \o (x \o y) = s \o y
    BY <2>1, ConcatProperties, ConcatAssociative
  <2> HIDE DEF s
  <2>3. /\ Lines(s \o y) = Lines(s) \o Lines(Rest(s) \o y)
        /\ Rest(s \o y) = Rest(Rest(s) \o y)
    BY <2>2, LinesOfConcat
  <2> QED BY <1>2, <2>2, <2>3 DEF Incoming, Left, s
<1> QED BY <1>1, <1>2

LEMMA IncomingTyped ==
    ASSUME NEW f, NEW b \in Seq(Delta), NEW x \in Pieces(f)
    PROVE  /\ x \in Seq(Atom)
           /\ Incoming(f, b, x) \in Seq(Delta) /\ Left(f, b, x) \in Seq(Delta)
<1>1. x \in Seq(Atom) /\ Fit(f, x)
  BY DEF Pieces
<1>2. CASE f = "yqcloud"
  BY <1>1, <1>2 DEF Incoming, Left, Fit
<1>3. CASE f # "yqcloud"
  <2> DEFINE s == b \o x
  <2>1. b \in Seq(Atom)
    BY LinesOfDeltas
  <2>2. s \in Seq(Atom)
    BY <1>1, <2>1, ConcatProperties
  <2> HIDE DEF s
  <2>3. Lines(s) \in Seq(Delta) /\ Rest(s) \in Seq(Delta)
    BY <2>2, CutAtLine
  <2> QED BY <1>1, <1>3, <2>3 DEF Incoming, Left, s
<1> QED BY <1>1, <1>2, <1>3

\* Nothing waits in a buffer without its end of line.
LEMMA IncomingNothing ==
    ASSUME NEW f, NEW b \in Seq(Delta)
    PROVE  Incoming(f, b, <<>>) = <<>> /\ (f = "yqcloud" \/ Left(f, b, <<>>) = b)
<1>1. b \o <<>> = b
  BY ConcatEmptySeq
<1>2. Lines(b) = <<>> /\ Rest(b) = b
  BY LinesOfDeltas
<1> QED BY <1>1, <1>2 DEF Incoming, Left

LEMMA PiecesConcat ==
    ASSUME NEW f, NEW x \in Pieces(f), NEW y \in Pieces(f) PROVE x \o y \in Pieces(f)
<1>1. x \in Seq(Atom) /\ y \in Seq(Atom) /\ Fit(f, x) /\ Fit(f, y)
  BY DEF Pieces
<1>2. x \o y \in Seq(Atom)
  BY <1>1, ConcatProperties
<1>3. ASSUME f = "yqcloud"
      PROVE  x \o y \in Seq(Delta) /\ \A i \in DOMAIN (x \o y) : (x \o y)[i].calls = <<>>
  <2>1. /\ x \in Seq(Delta) /\ \A i \in DOMAIN x : x[i].calls = <<>>
        /\ y \in Seq(Delta) /\ \A i \in DOMAIN y : y[i].calls = <<>>
    BY <1>1, <1>3 DEF Fit
  <2> DEFINE z == x \o y
  <2>2. z \in Seq(Delta) /\ DOMAIN z = 1..(Len(x) + Len(y)) /\ Len(x) \in Nat /\ Len(y) \in Nat
        /\ DOMAIN x = 1..Len(x) /\ DOMAIN y = 1..Len(y)
    BY <2>1, ConcatProperties
  <2>3. \A i \in 1..(Len(x) + Len(y)) : z[i] = IF i <= Len(x) THEN x[i] ELSE y[i - Len(x)]
    BY <2>1, ConcatProperties
  <2> HIDE DEF z
  <2>4. ASSUME NEW i \in DOMAIN z PROVE z[i].calls = <<>>
    <3>1. CASE i <= Len(x)
      <4>1. i \in DOMAIN x /\ z[i] = x[i]
        BY <2>2, <2>3, <2>4, <3>1
      <4> QED BY <2>1, <4>1
    <3>2. CASE ~(i <= Len(x))
      <4>1. i - Len(x) \in DOMAIN y /\ z[i] = y[i - Len(x)]
        BY <2>2, <2>3, <2>4, <3>2
      <4> QED BY <2>1, <4>1
    <3> QED BY <3>1, <3>2
  <2> QED BY <2>2, <2>4 DEF z
<1>4. Fit(f, x \o y)
  BY <1>3 DEF Fit
<1> QED BY <1>2, <1>4 DEF Pieces

LEMMA NoPiece == ASSUME NEW f PROVE <<>> \in Pieces(f)
<1>1. <<>> \in Seq(Atom) /\ <<>> \in Seq(Delta) /\ DOMAIN <<>> = {}
  OBVIOUS
<1> QED BY <1>1 DEF Pieces, Fit

\* Pieces that wait make up one piece.
LEMMA FlowPieces ==
    ASSUME NEW f, NEW q \in Seq(Pieces(f))
    PROVE  q \in Seq(Seq(Atom)) /\ Flow(q) \in Pieces(f)
<1> DEFINE G == Pieces(f)
           X == {r \in Seq(G) : r \in Seq(Seq(Atom)) /\ Flow(r) \in G}
<1>1. G \subseteq Seq(Atom)
  BY DEF Pieces
<1>2. <<>> \in X
  <2>1. <<>> \in Seq(G) /\ <<>> \in Seq(Seq(Atom)) /\ <<>> \in Seq(Atom)
    OBVIOUS
  <2> HIDE DEF G
  <2> QED BY <2>1, FlowFacts, NoPiece DEF G
<1>3. ASSUME NEW r \in Seq(G), NEW y \in G, r \in X PROVE Append(r, y) \in X
  <2> HIDE DEF G
  <2>1. y \in Seq(Atom) /\ r \in Seq(Seq(Atom)) /\ Flow(r) \in G
    BY <1>1, <1>3
  <2>2. Append(r, y) \in Seq(G) /\ Append(r, y) \in Seq(Seq(Atom))
    BY <2>1
  <2>3. Flow(Append(r, y)) = Flow(r) \o y
    BY <2>1, FlowFacts
  <2>4. Flow(r) \o y \in G
    BY <2>1, PiecesConcat DEF G
  <2> QED BY <2>2, <2>3, <2>4
<1> HIDE DEF X, G
<1>4. Seq(G) \subseteq X
  BY <1>2, <1>3, AppendInduction
<1>5. q \in X
  BY <1>4 DEF G
<1> QED BY <1>5 DEF X, G

\* The handler now, with a parser's buffer and the pieces q to come, is in step with
\* the one at the start, that has all of w to come.
InStep(f, start, now, buffer, q, w) ==
    /\ Left(f, buffer, Flow(q)) = Left(f, <<>>, w)
    /\ Reading(now, Incoming(f, buffer, Flow(q))) = Reading(start, Incoming(f, <<>>, w))

\* A piece that arrives waits behind the others.
LEMMA ArrivalKeepsStep ==
    ASSUME NEW f, NEW start, NEW now, NEW buffer \in Seq(Delta), NEW q \in Seq(Pieces(f)),
           NEW w \in Pieces(f), NEW piece \in Pieces(f), InStep(f, start, now, buffer, q, w)
    PROVE  InStep(f, start, now, buffer, Append(q, piece), w \o piece)
<1> DEFINE x == Flow(q)
           none == <<>>
           left == Left(f, buffer, x)
           before == Incoming(f, buffer, x)
           sent == Incoming(f, none, w)
           more == Incoming(f, left, piece)
<1>1. x \in Pieces(f) /\ Flow(Append(q, piece)) = x \o piece
  <2>1. q \in Seq(Seq(Atom)) /\ x \in Pieces(f)
    BY FlowPieces
  <2>2. piece \in Seq(Atom)
    BY DEF Pieces
  <2> QED BY <2>1, <2>2, FlowFacts
<1>2. none \in Seq(Delta)
  OBVIOUS
<1>3. left = Left(f, none, w) /\ Reading(now, before) = Reading(start, sent)
  BY DEF InStep
<1> HIDE DEF x, none
<1>4. /\ before \in Seq(Delta) /\ left \in Seq(Delta) /\ sent \in Seq(Delta)
      /\ x \in Seq(Atom) /\ w \in Seq(Atom) /\ piece \in Seq(Atom)
  BY <1>1, <1>2, IncomingTyped
<1>5. more \in Seq(Delta)
  <2> HIDE DEF left
  <2> QED BY <1>4, IncomingTyped
<1>6. /\ Incoming(f, buffer, x \o piece) = before \o more
      /\ Left(f, buffer, x \o piece) = Left(f, left, piece)
  BY <1>4, IncomingConcat
<1>7. /\ Incoming(f, none, w \o piece) = sent \o more
      /\ Left(f, none, w \o piece) = Left(f, left, piece)
  <2>1. /\ Incoming(f, none, w \o piece) = sent \o Incoming(f, Left(f, none, w), piece)
        /\ Left(f, none, w \o piece) = Left(f, Left(f, none, w), piece)
    BY <1>2, <1>4, IncomingConcat
  <2> QED BY <1>3, <2>1
<1> HIDE DEF left, before, sent, more
<1>8. Reading(now, before \o more) = Reading(start, sent \o more)
  <2>1. Reading(now, before \o more) = Reading(Reading(now, before), more)
    BY <1>4, <1>5, ReadingFacts
  <2>2. Reading(start, sent \o more) = Reading(Reading(start, sent), more)
    BY <1>4, <1>5, ReadingFacts
  <2> QED BY <1>3, <2>1, <2>2
<1> QED BY <1>1, <1>6, <1>7, <1>8 DEF InStep, none

\* A piece that is decoded goes from the stream into the chunks that are due.
LEMMA DecodingKeepsStep ==
    ASSUME NEW f \in Formats, f # "get", NEW parser, Parser(f, parser), NEW start,
           NEW piece \in Pieces(f), NEW q \in Seq(Pieces(f)), NEW w,
           NEW t \in Seq(STRING), NEW c,
           InStep(f, start, State(f, parser.inside, t, c), parser.buffer, <<piece>> \o q, w)
    PROVE  LET d == Decoded(f, parser, piece)
           IN  InStep(f, start, StateOf(f, d.inside, Gathered(Got(t, c), d.due)), d.buffer, q, w)
<1> DEFINE d == Decoded(f, parser, piece)
           now == State(f, parser.inside, t, c)
           next == StateOf(f, d.inside, Gathered(Got(t, c), d.due))
           b == parser.buffer
           x == Flow(q)
           first == Incoming(f, b, piece)
           second == Incoming(f, d.buffer, x)
<1>1. piece \in Seq(Atom) /\ Fit(f, piece) /\ b \in Seq(Delta)
  BY DEF Pieces, Parser
<1>2. Parser(f, d) /\ d.buffer = Left(f, b, piece) /\ next = Reading(now, first)
  BY <1>1, DecodedReads
<1>3. x \in Pieces(f) /\ x \in Seq(Atom) /\ Flow(<<piece>> \o q) = piece \o x
  <2>1. q \in Seq(Seq(Atom)) /\ x \in Pieces(f)
    BY FlowPieces
  <2> QED BY <1>1, <2>1, FlowFacts DEF Pieces
<1> HIDE DEF now, next, d, x, b
<1>4. /\ Incoming(f, b, piece \o x) = first \o second
      /\ Left(f, b, piece \o x) = Left(f, d.buffer, x)
  <2>1. /\ Incoming(f, b, piece \o x) = Incoming(f, b, piece) \o Incoming(f, Left(f, b, piece), x)
        /\ Left(f, b, piece \o x) = Left(f, Left(f, b, piece), x)
    BY <1>1, <1>3, IncomingConcat
  <2> QED BY <1>2, <2>1
<1>5. first \in Seq(Delta)
  BY <1>1, IncomingTyped
<1>6. second \in Seq(Delta)
  <2>1. d.buffer \in Seq(Delta)
    BY <1>2 DEF Parser
  <2> QED BY <1>3, <2>1, IncomingTyped
<1>7. InStep(f, start, now, b, <<piece>> \o q, w)
  BY DEF now, b
<1> HIDE DEF first, second
<1>8. Reading(now, first \o second) = Reading(next, second)
  BY <1>2, <1>5, <1>6, ReadingFacts
<1>9. InStep(f, start, next, d.buffer, q, w)
  <2>1. Left(f, d.buffer, x) = Left(f, <<>>, w)
    BY <1>3, <1>4, <1>7 DEF InStep
  <2>2. Reading(next, second) = Reading(start, Incoming(f, <<>>, w))
    BY <1>3, <1>4, <1>7, <1>8 DEF InStep
  <2> QED BY <2>1, <2>2 DEF InStep, x, second
<1> QED BY <1>9 DEF next, d

\* Every part of a stream is a piece of it.
LEMMA PartsOfPiece ==
    ASSUME NEW f, NEW w \in Pieces(f), NEW m \in Nat, NEW n \in Nat, m + n <= Len(w)
    PROVE  /\ Len(w) \in Nat
           /\ SubSeq(w, 1, m) \in Pieces(f)
           /\ SubSeq(w, m + 1, m + n) \in Pieces(f)
           /\ SubSeq(w, 1, m) \o SubSeq(w, m + 1, m + n) = SubSeq(w, 1, m + n)
<1> DEFINE k == m + n
           a == SubSeq(w, 1, m)
           b == SubSeq(w, m + 1, k)
           c == SubSeq(w, 1, k)
<1>1. w \in Seq(Atom) /\ Fit(f, w)
  BY DEF Pieces
<1>2. Len(w) \in Nat /\ DOMAIN w = 1..Len(w) /\ \A i \in 1..Len(w) : w[i] \in Atom
  BY <1>1
<1>3. /\ a \in Seq(Atom) /\ Len(a) = m /\ \A i \in 1..m : a[i] = w[i]
      /\ b \in Seq(Atom) /\ Len(b) = n /\ \A i \in 1..n : b[i] = w[m + i]
      /\ c \in Seq(Atom) /\ Len(c) = k /\ \A i \in 1..k : c[i] = w[i]
  <2>1. a \in Seq(Atom) /\ Len(a) = m /\ \A i \in 1..m : a[i] = w[i]
    BY <1>1, <1>2, SubSeqProperties
  <2>2. b \in Seq(Atom) /\ Len(b) = n /\ \A i \in 1..n : b[i] = w[m + i]
    BY <1>1, <1>2, SubSeqProperties
  <2>3. c \in Seq(Atom) /\ Len(c) = k /\ \A i \in 1..k : c[i] = w[i]
    BY <1>1, <1>2, SubSeqProperties
  <2> QED BY <2>1, <2>2, <2>3
<1> HIDE DEF a, b, c
<1>4. a \o b = c
  <2> DEFINE u == a \o b
  <2>1. /\ u \in Seq(Atom) /\ Len(u) = k
        /\ \A i \in 1..(m + n) : u[i] = IF i <= m THEN a[i] ELSE b[i - m]
    <3>1. /\ u \in Seq(Atom) /\ Len(u) = Len(a) + Len(b)
          /\ \A i \in 1..(Len(a) + Len(b)) : u[i] = IF i <= Len(a) THEN a[i] ELSE b[i - Len(a)]
      <4>1. a \in Seq(Atom) /\ b \in Seq(Atom)
        BY <1>3
      <4> QED BY <4>1, ConcatProperties
    <3> HIDE DEF u
    <3> QED BY <1>3, <3>1
  <2> HIDE DEF u
  <2>2. ASSUME NEW i \in 1..k PROVE u[i] = c[i]
    <3>1. CASE i <= m
      <4>1. i \in 1..m /\ i \in 1..(m + n)
        BY <3>1
      <4>2. u[i] = a[i] /\ a[i] = w[i] /\ c[i] = w[i]
        BY <1>3, <2>1, <3>1, <4>1
      <4> QED BY <4>2
    <3>2. CASE ~(i <= m)
      <4>1. i - m \in 1..n /\ m + (i - m) = i
        BY <3>2
      <4> QED BY <1>3, <2>1, <3>2, <4>1
    <3> QED BY <3>1, <3>2
  <2>3. u = c
    BY <1>3, <2>1, <2>2, SeqEqual
  <2> QED BY <2>3 DEF u
<1>5. ASSUME f = "yqcloud"
      PROVE  /\ a \in Seq(Delta) /\ \A i \in DOMAIN a : a[i].calls = <<>>
             /\ b \in Seq(Delta) /\ \A i \in DOMAIN b : b[i].calls = <<>>
  <2>1. \A i \in 1..Len(w) : w[i] \in Delta /\ w[i].calls = <<>>
    BY <1>1, <1>2, <1>5 DEF Fit
  <2>2. DOMAIN a = 1..m /\ DOMAIN b = 1..n
    BY <1>3
  <2>3. \A i \in 1..m : a[i] \in Delta /\ a[i].calls = <<>>
    BY <1>2, <1>3, <2>1
  <2>4. \A i \in 1..n : b[i] \in Delta /\ b[i].calls = <<>>
    <3>1. \A i \in 1..n : m + i \in 1..Len(w)
      BY <1>2
    <3> QED BY <1>3, <2>1, <3>1
  <2>5. a \in Seq(Delta)
    BY <1>3, <2>2, <2>3
  <2>6. b \in Seq(Delta)
    BY <1>3, <2>2, <2>4
  <2> QED BY <2>2, <2>3, <2>4, <2>5, <2>6
<1>6. a \in Pieces(f) /\ b \in Pieces(f)
  BY <1>3, <1>5 DEF Pieces, Fit
<1> QED BY <1>2, <1>4, <1>6 DEF a, b, c

\* What a reply puts on the wire.
LEMMA WireIsPiece ==
    ASSUME NEW f \in Formats, NEW reply \in Reply, f \in Bare => BareReply(reply)
    PROVE  Atoms(f, reply.lines) \in Pieces(f)
<1> DEFINE lines == reply.lines
           n == Len(lines)
<1>1. lines \in Seq(Delta)
  BY DEF Reply
<1>2. n \in Nat /\ \A i \in 1..n : lines[i] \in Delta
  BY <1>1
<1> HIDE DEF lines
<1>3. CASE f = "yqcloud"
  <2>1. lines \in Seq(Atom)
    BY <1>1, LinesOfDeltas
  <2>2. \A i \in DOMAIN lines : lines[i].calls = <<>>
    BY <1>3 DEF Bare, BareReply, lines
  <2>3. Atoms(f, lines) = lines
    BY <1>3 DEF Atoms
  <2> QED BY <1>1, <2>1, <2>2, <2>3 DEF Pieces, Fit, lines
<1>4. CASE f # "yqcloud"
  <2> DEFINE A == [i \in 1..(2 * n) |-> IF i % 2 = 1 THEN lines[(i + 1) \div 2] ELSE NewLine]
  <2>1. \A i \in 1..(2 * n) : i % 2 = 1 => (i + 1) \div 2 \in 1..n
    BY <1>2
  <2>2. \A i \in 1..(2 * n) : A[i] \in Atom
    BY <1>2, <2>1 DEF Atom
  <2>3. A \in Seq(Atom)
    BY <1>2, <2>2
  <2>4. Atoms(f, lines) = A
    BY <1>4 DEF Atoms
  <2> QED BY <1>4, <2>3, <2>4 DEF Pieces, Fit, lines
<1> QED BY <1>3, <1>4

\* The parts of an attempt, and the attempt after what the actions do to it.
LEMMA AttemptParts ==
    ASSUME NEW a \in Attempt
    PROVE  /\ a.reply \in Reply /\ a.sent \in Nat /\ a.buffer \in Seq(Atom)
           /\ a.inside \in BOOLEAN /\ a.due \in Seq(Chunk) /\ a.emitted \in BOOLEAN
  BY DEF Attempt, Atom, Chunk

\* The attempt after a piece.
Taken(a, buffer, inside, due, sent) ==
    [a EXCEPT !.buffer = buffer, !.inside = inside, !.due = due, !.sent = sent]

LEMMA AttemptTakes ==
    ASSUME NEW a \in Attempt, NEW buffer \in Seq(Atom), NEW inside \in BOOLEAN,
           NEW due \in Seq(Chunk), NEW sent \in Nat
    PROVE  LET b == Taken(a, buffer, inside, due, sent)
           IN  /\ b \in Attempt /\ b.reply = a.reply /\ b.sent = sent /\ b.buffer = buffer
               /\ b.inside = inside /\ b.due = due
  BY DEF Taken, Attempt, Atom, Chunk

LEMMA AttemptSends ==
    ASSUME NEW a \in Attempt, NEW sent \in Nat
    PROVE  LET b == [a EXCEPT !.sent = sent]
           IN  /\ b \in Attempt /\ b.reply = a.reply /\ b.sent = sent /\ b.buffer = a.buffer
               /\ b.inside = a.inside /\ b.due = a.due
  BY DEF Attempt, Atom, Chunk

LEMMA AttemptPulls ==
    ASSUME NEW a \in Attempt, NEW due \in Seq(Chunk), NEW emitted \in BOOLEAN
    PROVE  LET b == [a EXCEPT !.due = due, !.emitted = emitted]
           IN  /\ b \in Attempt /\ b.reply = a.reply /\ b.sent = a.sent /\ b.buffer = a.buffer
               /\ b.inside = a.inside /\ b.due = due
  BY DEF Attempt, Atom, Chunk

LEMMA AttemptAnswers ==
    ASSUME NEW a \in Attempt, NEW due \in Seq(Chunk), NEW sent \in Nat
    PROVE  LET b == [a EXCEPT !.sent = sent, !.due = due]
           IN  /\ b \in Attempt /\ b.reply = a.reply /\ b.sent = sent /\ b.buffer = a.buffer
               /\ b.inside = a.inside /\ b.due = due
  BY DEF Attempt, Atom, Chunk

LEMMA CalledTyped ==
    ASSUME NEW reply \in Reply, NEW f
    PROVE  LET a == Called(reply)
           IN  /\ a \in Attempt /\ a.reply = reply /\ a.sent = 0 /\ a.buffer = <<>>
               /\ a.inside = FALSE /\ a.due = <<>>
               /\ Parser(f, a)
<1> DEFINE none == <<>>
<1>1. none \in Seq(Atom) /\ none \in Seq(Chunk) /\ none \in Seq(Delta)
  OBVIOUS
<1>2. Called(reply) = [reply |-> reply, sent |-> 0, buffer |-> none, inside |-> FALSE,
                       due |-> none, emitted |-> FALSE]
  BY DEF Called
<1> HIDE DEF none
<1>3. /\ Called(reply).buffer = none /\ Called(reply).inside = FALSE /\ Called(reply).due = none
      /\ Called(reply).reply = reply /\ Called(reply).sent = 0
  BY <1>2
<1>4. Called(reply) \in Attempt
  BY <1>1, <1>2 DEF Attempt, Atom, Chunk
<1>5. Parser(f, Called(reply))
  BY <1>1, <1>3 DEF Parser
<1> QED BY <1>3, <1>4, <1>5 DEF none
-----------------------------------------------------------------------------
(***************************************************************************)
(* The invariant of the stream, and what keeps it                          *)
(***************************************************************************)

\* What the handler may have gathered.
IsGot(g) == \E t \in Seq(STRING) : \E c : g = Got(t, c)

\* Where an attempt starts, everything is in step.
LEMMA InStepAtStart ==
    ASSUME NEW f, NEW g, IsGot(g), NEW w \in Seq(Atom)
    PROVE  InStep(f, State(f, FALSE, g.text, g.calls), StateOf(f, FALSE, Gathered(g, <<>>)),
                  <<>>, <<>>, SubSeq(w, 1, 0))
<1>1. Gathered(g, <<>>) = g
  BY GatheredFew
<1>2. SubSeq(w, 1, 0) = <<>>
  BY SubSeqEmpty
<1>3. Flow(<<>>) = <<>>
  <2>1. <<>> \in Seq(Seq(Atom)) /\ <<>> \in Seq(Atom)
    OBVIOUS
  <2> QED BY <2>1, FlowFacts
<1> QED BY <1>1, <1>2, <1>3 DEF InStep, StateOf

\* The handler when the attempt began and with what is due, and what was sent.
Began == State(Format[Provider], FALSE, mark.text, mark.calls)
Becomes == StateOf(Format[Provider], attempt.inside, Gathered(got, attempt.due))
OnWire == SubSeq(Wire, 1, attempt.sent)

\* Everything has its type: what is buffered and waits is part of a reply.
StreamTyped ==
    /\ order \in Orders /\ at \in DOMAIN order
    /\ attempt \in Attempt /\ Parser(Format[Provider], attempt)
    /\ attempt.reply \in Replies[Provider] \/ (stage = "new" /\ attempt.reply = NoReply)
    /\ attempt.sent \in 0..Len(Wire)
    /\ aborted \in BOOLEAN
    /\ queue \in Seq(Pieces(Format[Provider]))
    /\ IsGot(got) /\ IsGot(mark)

\* What each stage implies of the stream and of what is due.
StreamStaged ==
    /\ stage \in {"new"} \cup Running \cup Settled
    /\ socket \in {"open", "closed", "failed", "cancelled"}
    /\ stage \in {"new", "fetching", "refused", "body"} =>
           /\ attempt = Called(attempt.reply) /\ got = mark
           /\ socket = "open"
    /\ stage \in {"new", "fetching", "refused", "body", "reading", "done"} \/ socket = "cancelled"
           \/ Format[Provider] = "get" => queue = <<>>
    /\ stage \in {"reading", "looping", "done"} => attempt.due = <<>>
    /\ stage = "body" => Format[Provider] = "get"
    /\ stage = "reading" => socket = "open"
    /\ stage = "holding" => attempt.due # <<>>
    /\ stage = "done" => socket # "failed"
    /\ socket = "cancelled" => aborted

\* As long as the stream is neither broken nor cancelled: to pull what is due and
\* to read what is buffered and waits gives what reading all that was sent does.
StreamFollowed ==
    socket \in {"open", "closed"} =>
        InStep(Format[Provider], Began, Becomes, attempt.buffer, queue, OnWire)

SInv == StreamTyped /\ StreamStaged /\ StreamFollowed

\* Every candidate is a provider, with a format and replies.
LEMMA ProviderKnown ==
    ASSUME NEW o \in Orders, NEW i \in DOMAIN o
    PROVE  /\ o[i] \in Providers /\ Format[o[i]] \in Formats /\ Replies[o[i]] \subseteq Reply
           /\ Len(o) \in Nat /\ DOMAIN o = 1..Len(o) /\ 1 \in DOMAIN o
           /\ Format[o[i]] \in Bare => \A reply \in Replies[o[i]] : BareReply(reply)
<1>1. o \in Seq(Providers) /\ o # <<>>
  BY CompletionAssumption
<1>2. Len(o) \in Nat /\ DOMAIN o = 1..Len(o) /\ Len(o) # 0 /\ o[i] \in Providers
  BY <1>1
<1> QED BY <1>2, CompletionAssumption

LEMMA NoReplyTyped == NoReply \in Reply /\ BareReply(NoReply)
<1>1. <<>> \in Seq(Delta)
  OBVIOUS
<1>2. NoReply \in Reply
  BY <1>1 DEF NoReply, Reply
<1>3. NoReply.lines = <<>>
  BY DEF NoReply
<1> QED BY <1>2, <1>3 DEF BareReply

\* What the wire carries, in whole and so far.
LEMMA WireKnown ==
    ASSUME StreamTyped
    PROVE  /\ Format[Provider] \in Formats
           /\ attempt.reply \in Reply
           /\ Format[Provider] \in Bare => BareReply(attempt.reply)
           /\ Wire \in Pieces(Format[Provider]) /\ Wire \in Seq(Atom)
           /\ OnWire \in Pieces(Format[Provider])
<1> DEFINE f == Format[Provider]
<1>1. /\ f \in Formats /\ attempt.reply \in Reply
      /\ f \in Bare => BareReply(attempt.reply)
  BY ProviderKnown, NoReplyTyped DEF StreamTyped, Provider
<1>2. Wire \in Pieces(f)
  BY <1>1, WireIsPiece DEF Wire
<1>3. OnWire \in Pieces(f)
  <2> DEFINE w == Wire
             m == attempt.sent
             z == 0
  <2>1. m \in Nat /\ m <= Len(w) /\ Len(w) \in Nat
    <3>1. Wire \in Seq(Atom)
      BY <1>2 DEF Pieces
    <3> QED BY <3>1 DEF StreamTyped
  <2>2. m + z <= Len(w) /\ z \in Nat
    BY <2>1
  <2> HIDE DEF w, m, z
  <2>3. SubSeq(w, 1, m) \in Pieces(f)
    BY <1>2, <2>1, <2>2, PartsOfPiece DEF w
  <2> QED BY <2>3 DEF w, m, OnWire
<1> QED BY <1>1, <1>2, <1>3 DEF Pieces

\* A call puts everything in its first state.
LEMMA CallStreams ==
    ASSUME order \in Orders, NEW i \in DOMAIN order, IsGot(got), got' = got,
           aborted' \in BOOLEAN, Call(i)
    PROVE  SInv'
<1> DEFINE f == Format[order[i]]
<1>1. PICK reply \in Replies[order[i]] : attempt' = Called(reply)
  BY DEF Call
<1>2. /\ order' = order /\ at' = i /\ mark' = got /\ stage' = "fetching" /\ queue' = <<>>
      /\ socket' = "open" /\ Provider' = order[i]
  BY DEF Call, Provider
<1>3. f \in Formats /\ reply \in Reply /\ (f \in Bare => BareReply(reply))
  BY ProviderKnown
<1> HIDE DEF f
<1>4. LET a == attempt' IN
      /\ a \in Attempt /\ a.reply = reply /\ a.sent = 0 /\ a.buffer = <<>>
      /\ a.inside = FALSE /\ a.due = <<>> /\ Parser(f, a)
  BY <1>1, <1>3, CalledTyped
<1> DEFINE w == Atoms(f, reply.lines)
<1>5. w \in Seq(Atom) /\ Wire' = w
  <2>1. w \in Pieces(f)
    BY <1>3, WireIsPiece
  <2>2. Wire' = w
    BY <1>2, <1>4 DEF Wire, f
  <2> QED BY <2>1, <2>2 DEF Pieces
<1> HIDE DEF w
<1>6. StreamTyped'
  <2>1. queue' \in Seq(Pieces(f))
    BY <1>2
  <2>2. attempt'.sent \in 0..Len(w)
    BY <1>4, <1>5
  <2> QED BY <1>1, <1>2, <1>4, <1>5, <2>1, <2>2 DEF StreamTyped, f
<1>7. StreamStaged'
  BY <1>1, <1>2, <1>4 DEF StreamStaged, Running, Settled
<1>8. StreamFollowed'
  <2>1. /\ Began' = State(f, FALSE, got.text, got.calls)
        /\ Becomes' = StateOf(f, FALSE, Gathered(got, <<>>))
        /\ OnWire' = SubSeq(w, 1, 0)
    BY <1>2, <1>4, <1>5 DEF Began, Becomes, OnWire, f
  <2>2. InStep(f, State(f, FALSE, got.text, got.calls), StateOf(f, FALSE, Gathered(got, <<>>)),
               <<>>, <<>>, SubSeq(w, 1, 0))
    BY <1>5, InStepAtStart
  <2> QED BY <1>2, <1>4, <2>1, <2>2 DEF StreamFollowed, f
<1> QED BY <1>6, <1>7, <1>8 DEF SInv

\* What leaves the attempt and its stream alone.
LEMMA SameStream ==
    ASSUME StreamTyped, StreamFollowed, UNCHANGED <<order, at, attempt, queue, socket, got, mark>>,
           aborted' \in BOOLEAN, stage # "new"
    PROVE  StreamTyped' /\ StreamFollowed'
<1>1. Provider' = Provider /\ Wire' = Wire
  BY DEF Provider, Wire
<1>2. Began' = Began /\ Becomes' = Becomes /\ OnWire' = OnWire
  BY <1>1 DEF Began, Becomes, OnWire
<1>3. StreamTyped'
  BY <1>1 DEF StreamTyped
<1>4. StreamFollowed'
  BY <1>1, <1>2 DEF StreamFollowed
<1> QED BY <1>3, <1>4

\* A failover starts anew, and the last failure changes nothing of the stream.
LEMMA FailsStreams ==
    ASSUME SInv, AttemptFails, got' = got, aborted' \in BOOLEAN, aborted => aborted', stage # "new"
    PROVE  SInv'
<1>1. CASE at < Len(order)
  <2>1. at + 1 \in DOMAIN order
    BY <1>1, ProviderKnown DEF SInv, StreamTyped
  <2>2. Call(at + 1)
    BY <1>1 DEF AttemptFails
  <2> DEFINE i == at + 1
  <2> HIDE DEF i
  <2>3. i \in DOMAIN order /\ Call(i)
    BY <2>1, <2>2 DEF i
  <2> QED BY <2>3, CallStreams DEF SInv, StreamTyped
<1>2. CASE ~(at < Len(order))
  <2>1. stage' = "failed" /\ UNCHANGED <<queue, socket, order, at, attempt, mark>>
    BY <1>2 DEF AttemptFails, Settle
  <2>2. StreamTyped' /\ StreamFollowed'
    BY <2>1, SameStream DEF SInv
  <2>3. StreamStaged'
    BY <2>1 DEF SInv, StreamStaged, Provider, Settled
  <2> QED BY <2>2, <2>3 DEF SInv
<1> QED BY <1>1, <1>2

\* The end of a stream is a failover, or leaves nothing unread.
LEMMA EndsStreams ==
    ASSUME SInv, AttemptEnds, got' = got, aborted' \in BOOLEAN, aborted => aborted', stage # "new",
           stage \in {"reading", "looping"}, queue = <<>>, socket # "failed"
    PROVE  SInv'
<1>1. CASE attempt.emitted
  <2>1. stage' = "done" /\ UNCHANGED <<queue, socket, order, at, attempt, mark>>
    BY <1>1 DEF AttemptEnds, Settle
  <2>2. StreamTyped' /\ StreamFollowed'
    BY <2>1, SameStream DEF SInv
  <2>3. StreamStaged'
    BY <2>1 DEF SInv, StreamStaged, Provider, Settled
  <2> QED BY <2>2, <2>3 DEF SInv
<1>2. CASE ~attempt.emitted
  BY <1>2, FailsStreams DEF AttemptEnds
<1> QED BY <1>1, <1>2

LEMMA SInit == Init => SInv
<1> SUFFICES ASSUME Init PROVE SInv
  OBVIOUS
<1> DEFINE f == Format[Provider]
           w == Wire
<1>1. /\ order \in Orders /\ at = 1 /\ attempt = Called(NoReply) /\ got = Nothing
      /\ mark = Nothing /\ queue = <<>> /\ socket = "open" /\ stage = "new" /\ aborted = FALSE
  BY DEF Init
<1>2. at \in DOMAIN order /\ f \in Formats
  <2>1. order \in Seq(Providers) /\ order # <<>>
    BY <1>1, CompletionAssumption
  <2>2. 1 \in DOMAIN order
    BY <2>1
  <2> QED BY <1>1, <2>2, ProviderKnown DEF Provider
<1>3. /\ attempt \in Attempt /\ attempt.reply = NoReply /\ attempt.sent = 0
      /\ attempt.buffer = <<>> /\ attempt.inside = FALSE /\ attempt.due = <<>>
      /\ Parser(f, attempt)
  BY <1>1, NoReplyTyped, CalledTyped
<1>4. IsGot(got) /\ got.text = <<>> /\ got.calls = <<>>
  <2>1. <<>> \in Seq(STRING)
    OBVIOUS
  <2>2. got = Got(<<>>, <<>>)
    BY <1>1 DEF Nothing, Got
  <2> QED BY <2>1, <2>2 DEF IsGot, Got
<1>5. w \in Seq(Atom) /\ Len(w) \in Nat
  <2>1. w \in Pieces(f)
    BY <1>2, <1>3, NoReplyTyped, WireIsPiece DEF Wire
  <2>2. w \in Seq(Atom)
    BY <2>1 DEF Pieces
  <2> QED BY <2>2
<1>6. StreamTyped
  <2>1. attempt.sent \in 0..Len(Wire)
    BY <1>3, <1>5
  <2>2. queue \in Seq(Pieces(f))
    BY <1>1
  <2> QED BY <1>1, <1>2, <1>3, <1>4, <2>1, <2>2 DEF StreamTyped
<1>7. StreamStaged
  BY <1>1, <1>3 DEF StreamStaged
<1>8. StreamFollowed
  <2> HIDE DEF w, f
  <2>1. /\ Began = State(f, FALSE, got.text, got.calls)
        /\ Becomes = StateOf(f, FALSE, Gathered(got, <<>>))
        /\ OnWire = SubSeq(w, 1, 0)
    BY <1>1, <1>3 DEF Began, Becomes, OnWire, f, w
  <2>2. InStep(f, State(f, FALSE, got.text, got.calls), StateOf(f, FALSE, Gathered(got, <<>>)),
               <<>>, <<>>, SubSeq(w, 1, 0))
    BY <1>4, <1>5, InStepAtStart
  <2> QED BY <1>1, <1>3, <2>1, <2>2 DEF StreamFollowed, f
<1> QED BY <1>6, <1>7, <1>8 DEF SInv

\* A reply on the wire of an SSE provider has the lines it is made of.
LEMMA LinesOfAtoms ==
    ASSUME NEW f, f # "yqcloud", NEW lines \in Seq(Delta)
    PROVE  /\ Atoms(f, lines) \in Seq(Atom)
           /\ Lines(Atoms(f, lines)) = lines /\ Rest(Atoms(f, lines)) = <<>>
<1> DEFINE Wired(l) == [i \in 1..(2 * Len(l)) |-> IF i % 2 = 1 THEN l[(i + 1) \div 2] ELSE NewLine]
           X == {l \in Seq(Delta) : /\ Wired(l) \in Seq(Atom)
                                    /\ Lines(Wired(l)) = l /\ Rest(Wired(l)) = <<>>}
<1>1. <<>> \in X
  <2>1. <<>> \in Seq(Delta) /\ <<>> \in Seq(Atom) /\ Wired(<<>>) = <<>>
    OBVIOUS
  <2> HIDE DEF Wired
  <2> QED BY <2>1, LinesOfNothing
<1>2. ASSUME NEW l \in Seq(Delta), NEW d \in Delta, l \in X PROVE Append(l, d) \in X
  <2> DEFINE u == Append(l, d)
             n == Len(l)
             s == Wired(l)
             r == Append(s, d)
             v == Append(r, NewLine)
  <2>1. /\ u \in Seq(Delta) /\ n \in Nat /\ Len(u) = n + 1 /\ u[n + 1] = d
        /\ \A i \in 1..n : u[i] = l[i]
    OBVIOUS
  <2>2. s \in Seq(Atom) /\ Len(s) = 2 * n /\ Lines(s) = l /\ Rest(s) = <<>>
    BY <1>2, <2>1
  <2>3. \A i \in 1..(2 * n) : s[i] = IF i % 2 = 1 THEN l[(i + 1) \div 2] ELSE NewLine
    OBVIOUS
  <2>4. d \in Atom /\ NewLine \in Atom
    BY DEF Atom
  <2> HIDE DEF s
  <2>5. /\ r \in Seq(Atom) /\ v \in Seq(Atom) /\ Len(v) = 2 * n + 2
        /\ \A i \in 1..(2 * n) : v[i] = s[i]
        /\ v[2 * n + 1] = d /\ v[2 * n + 2] = NewLine
    BY <2>1, <2>2, <2>4
  <2> HIDE DEF u, r, v
  <2>6. Wired(u) = v
    <3>1. Len(Wired(u)) = 2 * n + 2 /\ Wired(u) \in Seq(Atom)
      <4>1. \A i \in 1..(2 * n + 2) : i % 2 = 1 => (i + 1) \div 2 \in 1..(n + 1)
        BY <2>1
      <4>2. \A i \in 1..(n + 1) : u[i] \in Delta
        BY <2>1
      <4>3. 2 * Len(u) = 2 * n + 2
        BY <2>1
      <4>4. \A i \in 1..(2 * n + 2) : Wired(u)[i] \in Atom
        BY <2>4, <4>1, <4>2, <4>3 DEF Atom
      <4> DEFINE N == 2 * n + 2
      <4>5. N \in Nat /\ 2 * Len(u) = N
        BY <2>1
      <4> HIDE DEF N
      <4>6. DOMAIN Wired(u) = 1..N
        BY <4>5
      <4>7. Wired(u) \in [1..N -> Atom]
        BY <4>4, <4>5, <4>6 DEF N
      <4> HIDE DEF Wired
      <4> QED BY <4>5, <4>7 DEF N
    <3>2. ASSUME NEW i \in 1..(2 * n + 2) PROVE Wired(u)[i] = v[i]
      <4>1. Wired(u)[i] = IF i % 2 = 1 THEN u[(i + 1) \div 2] ELSE NewLine
        BY <2>1
      <4>2. CASE i \in 1..(2 * n)
        <5>1. v[i] = IF i % 2 = 1 THEN l[(i + 1) \div 2] ELSE NewLine
          BY <2>3, <2>5, <4>2
        <5>2. i % 2 = 1 => (i + 1) \div 2 \in 1..n
          BY <2>1, <4>2
        <5> QED BY <2>1, <4>1, <5>1, <5>2
      <4>3. CASE i = 2 * n + 1
        <5>1. i % 2 = 1 /\ (i + 1) \div 2 = n + 1
          BY <2>1, <4>3
        <5> QED BY <2>1, <2>5, <4>1, <4>3, <5>1
      <4>4. CASE i = 2 * n + 2
        <5>1. i % 2 # 1
          BY <2>1, <4>4
        <5> QED BY <2>5, <4>1, <4>4, <5>1
      <4>5. i \in 1..(2 * n) \/ i = 2 * n + 1 \/ i = 2 * n + 2
        BY <2>1
      <4> QED BY <4>2, <4>3, <4>4, <4>5
    <3> HIDE DEF Wired
    <3> QED BY <2>1, <2>5, <3>1, <3>2, SeqEqual
  <2>7. Lines(v) = AllLines(r) /\ Rest(v) = <<>>
    BY <2>4, <2>5, LinesOfAppend DEF v
  <2>8. AllLines(r) = Append(AllLines(s), d)
    <3>1. AllLines(r) = AddLine(AllLines(s), d)
      BY <2>2, <2>4, AllLinesFacts DEF r
    <3> QED BY <3>1, NoLine DEF AddLine
  <2>9. AllLines(s) = l
    <3>1. AllLines(s) = l \o <<>>
      BY <2>2, CutAtLine
    <3> QED BY <3>1, ConcatEmptySeq
  <2>10. Lines(v) = u
    BY <2>7, <2>8, <2>9 DEF u
  <2> HIDE DEF Wired
  <2> QED BY <2>1, <2>5, <2>6, <2>7, <2>10 DEF u
<1> HIDE DEF X
<1>3. Seq(Delta) \subseteq X
  BY <1>1, <1>2, AppendInduction
<1>4. lines \in X
  BY <1>3
<1>5. Atoms(f, lines) = Wired(lines)
  BY DEF Atoms
<1> HIDE DEF Wired
<1> QED BY <1>4, <1>5 DEF X

\* The whole of a plain answer is one chunk.
LEMMA BodyStreams == ASSUME SInv, BodyEnds, Format[Provider] = "get" PROVE SInv'
<1> DEFINE f == Format[Provider]
           lines == attempt.reply.lines
           text == Text(lines)
           due == <<Content(text)>>
           n == Len(Wire)
           w == Wire
<1>1. /\ stage = "body" /\ stage' = "holding" /\ socket' = "closed"
      /\ UNCHANGED <<queue, order, at, aborted, got, mark>>
      /\ attempt' = [attempt EXCEPT !.sent = n, !.due = due]
  BY DEF BodyEnds
<1>2. /\ attempt = Called(attempt.reply) /\ got = mark /\ socket = "open" /\ queue = <<>>
      /\ attempt \in Attempt /\ attempt.reply \in Replies[Provider] /\ IsGot(got)
  BY <1>1 DEF SInv, StreamStaged, StreamTyped
<1>3. /\ f \in Formats /\ attempt.reply \in Reply /\ BareReply(attempt.reply)
      /\ w \in Pieces(f) /\ w \in Seq(Atom)
  BY WireKnown DEF SInv, Bare
<1>4. lines \in Seq(Delta) /\ Fragments(lines) = <<>> /\ text \in Seq(STRING)
  <2>1. lines \in Seq(Delta)
    BY <1>3 DEF Reply
  <2>2. \A i \in DOMAIN lines : lines[i].calls = <<>>
    BY <1>3 DEF BareReply
  <2> HIDE DEF lines
  <2> QED BY <2>1, <2>2, BareFragments, TextFacts
<1>5. due \in Seq(Chunk) /\ n \in Nat
  <2> HIDE DEF text, w
  <2>1. Content(text) \in Chunk
    BY <1>4, ChunksTyped
  <2> QED BY <1>3, <2>1, OneWord DEF w
<1>6. attempt.buffer = <<>> /\ attempt.inside = FALSE
  BY <1>2, <1>3, CalledTyped
<1>7. /\ attempt' \in Attempt /\ attempt'.reply = attempt.reply /\ attempt'.sent = n
      /\ attempt'.buffer = attempt.buffer /\ attempt'.inside = attempt.inside
      /\ attempt'.due = due
  <2> DEFINE a == attempt
  <2>1. a \in Attempt /\ a.buffer \in Seq(Atom) /\ a.inside \in BOOLEAN /\ a.emitted \in BOOLEAN
    BY <1>2, AttemptParts
  <2> HIDE DEF due, n, a
  <2>2. LET e == [a EXCEPT !.sent = n, !.due = due] IN
        /\ e \in Attempt /\ e.reply = a.reply /\ e.sent = n /\ e.buffer = a.buffer
        /\ e.inside = a.inside /\ e.due = due
    BY <1>5, <2>1, AttemptAnswers
  <2> QED BY <1>1, <2>2 DEF a
<1>8. Provider' = Provider /\ Wire' = w
  BY <1>1, <1>7 DEF Provider, Wire
<1>9. StreamTyped'
  <2>1. Parser(f, attempt')
    BY <1>6, <1>7 DEF Parser, SInv, StreamTyped
  <2>2. attempt'.sent \in 0..Len(w)
    BY <1>5, <1>7
  <2> QED BY <1>1, <1>2, <1>7, <1>8, <2>1, <2>2 DEF SInv, StreamTyped
<1>10. StreamStaged'
  <2>1. due # <<>>
    OBVIOUS
  <2> HIDE DEF due
  <2> QED BY <1>1, <1>2, <1>7, <1>8, <2>1 DEF SInv, StreamStaged, Running
<1>11. StreamFollowed'
  <2>1. PICK t \in Seq(STRING) : \E c : got = Got(t, c)
    BY <1>2 DEF IsGot
  <2>2. PICK c : got = Got(t, c)
    BY <2>1
  <2>3. got.text = t /\ got.calls = c
    BY <2>2 DEF Got
  <2>4. Becomes' = State(f, FALSE, t \o text, c)
    <3>1. Gathered(Got(t, c), due) = Got(t \o text, c)
      <4> DEFINE chunk == Content(text)
      <4> HIDE DEF text
      <4>1. chunk \in Chunk
        BY <1>4, ChunksTyped
      <4>2. Gather(Got(t, c), chunk) = Got(t \o text, c)
        BY GatherOne
      <4> HIDE DEF chunk
      <4>3. Gathered(Got(t, c), <<chunk>>) = Gather(Got(t, c), chunk)
        BY <4>1, GatheredFew
      <4> QED BY <4>2, <4>3 DEF chunk
    <3>2. Becomes' = StateOf(f, FALSE, Gathered(got, due))
      BY <1>1, <1>6, <1>7, <1>8 DEF Becomes
    <3> DEFINE longer == t \o text
    <3> HIDE DEF due, longer
    <3> QED BY <2>2, <3>1, <3>2, StateOfGot DEF longer
  <2>5. Began' = State(f, FALSE, t, c)
    BY <1>1, <1>2, <1>8, <2>3 DEF Began
  <2>6. OnWire' = w
    BY <1>3, <1>7, <1>8, SubSeqFull DEF OnWire
  <2>7. Lines(w) = lines /\ Rest(w) = <<>>
    <3> HIDE DEF lines
    <3>1. f # "yqcloud"
      OBVIOUS
    <3> QED BY <1>4, <3>1, LinesOfAtoms DEF Wire, lines
  <2>8. Flow(<<>>) = <<>>
    <3>1. <<>> \in Seq(Seq(Atom)) /\ <<>> \in Seq(Atom)
      OBVIOUS
    <3> QED BY <3>1, FlowFacts
  <2> HIDE DEF lines, w, text, due, n
  <2>9. /\ Incoming(f, <<>>, <<>>) = <<>> /\ Left(f, <<>>, <<>>) = <<>>
        /\ Incoming(f, <<>>, w) = lines /\ Left(f, <<>>, w) = <<>>
    <3>1. <<>> \o w = w
      BY <1>3, ConcatEmptySeq
    <3>2. <<>> \in Seq(Delta)
      OBVIOUS
    <3>3. Incoming(f, <<>>, <<>>) = <<>> /\ Left(f, <<>>, <<>>) = <<>>
      BY <3>2, IncomingNothing
    <3> QED BY <2>7, <3>1, <3>3 DEF Incoming, Left
  <2> DEFINE then == State(f, FALSE, t \o text, c)
             start == State(f, FALSE, t, c)
  <2>10. Reading(start, lines) = then
    <3>1. Reading(start, lines) = State(f, FALSE, t \o Text(lines), Collected(c, Fragments(lines)))
      <4>1. f # "airforce"
        OBVIOUS
      <4> HIDE DEF f
      <4> QED BY <1>4, <4>1, PlainRead
    <3>2. Collected(c, <<>>) = c
      BY GatheredFold, CallFold!FoldEmpty
    <3> QED BY <1>4, <3>1, <3>2 DEF text
  <2>11. Reading(then, <<>>) = then
    <3>1. <<>> \in Seq(Delta)
      OBVIOUS
    <3> HIDE DEF then
    <3> QED BY <3>1, ReadingFacts
  <2>12. InStep(f, start, then, <<>>, <<>>, w)
    BY <2>8, <2>9, <2>10, <2>11 DEF InStep
  <2> QED BY <1>1, <1>2, <1>6, <1>7, <1>8, <2>4, <2>5, <2>6, <2>12 DEF StreamFollowed
<1> QED BY <1>9, <1>10, <1>11 DEF SInv

\* Before anything is due, the handler has what it has.
LEMMA BecomesNow ==
    ASSUME StreamTyped, attempt.due = <<>>
    PROVE  \E t \in Seq(STRING) : \E c :
               /\ got = Got(t, c)
               /\ Becomes = State(Format[Provider], attempt.inside, t, c)
<1>1. PICK t \in Seq(STRING) : \E c : got = Got(t, c)
  BY DEF StreamTyped, IsGot
<1>2. PICK c : got = Got(t, c)
  BY <1>1
<1>3. Gathered(got, <<>>) = got
  BY GatheredFew
<1>4. Becomes = StateOf(Format[Provider], attempt.inside, got)
  BY <1>3 DEF Becomes
<1> QED BY <1>2, <1>4, StateOfGot

\* A piece taken from the stream, or from the wire as it arrives.
LEMMA TakeStreams ==
    ASSUME StreamTyped, Format[Provider] # "get", attempt.due = <<>>,
           NEW piece \in Pieces(Format[Provider]), NEW n \in Nat, attempt.sent + n <= Len(Wire),
           Take(piece, n), queue' \in Seq(Pieces(Format[Provider])),
           UNCHANGED <<order, at, got, mark, aborted, socket>>,
           socket \in {"open", "closed"} =>
               InStep(Format[Provider], Began, Becomes, attempt.buffer, <<piece>> \o queue',
                      SubSeq(Wire, 1, attempt.sent + n))
    PROVE  /\ attempt.reply \in Replies[Provider] => StreamTyped'
           /\ StreamFollowed'
           /\ Provider' = Provider
           /\ stage' = IF attempt'.due = <<>> THEN "looping" ELSE "holding"
<1> DEFINE f == Format[Provider]
           d == Decoded(f, attempt, piece)
           m == attempt.sent + n
           q == queue'
<1>1. PICK t \in Seq(STRING) : \E c : got = Got(t, c) /\ Becomes = State(f, attempt.inside, t, c)
  BY BecomesNow
<1>2. PICK c : got = Got(t, c) /\ Becomes = State(f, attempt.inside, t, c)
  BY <1>1
<1>3. f \in Formats /\ Wire \in Seq(Atom) /\ Len(Wire) \in Nat
  BY WireKnown
<1>4. attempt \in Attempt /\ Parser(f, attempt) /\ attempt.sent \in Nat
  BY AttemptParts DEF StreamTyped
<1>5. piece \in Seq(Atom) /\ Fit(f, piece)
  BY DEF Pieces
<1>6. Parser(f, d) /\ d.due \in Seq(Chunk)
  <2> HIDE DEF f
  <2>1. f # "get"
    BY DEF f
  <2> QED BY <1>3, <1>4, <1>5, <2>1, DecodedReads
<1>7. d.buffer \in Seq(Atom) /\ d.inside \in BOOLEAN
  BY <1>6, LinesOfDeltas DEF Parser
<1>8. /\ attempt' = [attempt EXCEPT !.buffer = d.buffer, !.inside = d.inside, !.due = d.due,
                                    !.sent = m]
      /\ stage' = IF d.due = <<>> THEN "looping" ELSE "holding"
  BY DEF Take
<1> HIDE DEF d
<1>9. /\ attempt' \in Attempt /\ attempt'.reply = attempt.reply /\ attempt'.sent = m
      /\ attempt'.buffer = d.buffer /\ attempt'.inside = d.inside /\ attempt'.due = d.due
  <2> DEFINE a == attempt
             buffer == d.buffer
             inside == d.inside
             due == d.due
  <2>1. /\ a \in Attempt /\ buffer \in Seq(Atom) /\ inside \in BOOLEAN /\ due \in Seq(Chunk)
        /\ m \in Nat
    BY <1>4, <1>6, <1>7
  <2>2. a' = Taken(a, buffer, inside, due, m)
    BY <1>8 DEF Taken
  <2>3. LET b == Taken(a, buffer, inside, due, m)
        IN  /\ b \in Attempt /\ b.reply = a.reply /\ b.sent = m /\ b.buffer = buffer
            /\ b.inside = inside /\ b.due = due
    <3> HIDE DEF buffer, inside, due, m, a
    <3> QED BY <2>1, AttemptTakes
  <2> QED BY <2>2, <2>3
<1>10. Provider' = Provider /\ Wire' = Wire
  BY <1>9 DEF Provider, Wire
<1>11. ASSUME attempt.reply \in Replies[Provider] PROVE StreamTyped'
  <2>1. Parser(f, attempt')
    BY <1>6, <1>9 DEF Parser
  <2>2. m \in 0..Len(Wire)
    BY <1>3, <1>4
  <2> HIDE DEF m
  <2> QED BY <1>9, <1>10, <1>11, <2>1, <2>2 DEF StreamTyped
<1>12. StreamFollowed'
  <2> SUFFICES ASSUME socket \in {"open", "closed"}
               PROVE  InStep(f, Began, Becomes', d.buffer, q, SubSeq(Wire, 1, m))
    <3>1. Began' = Began /\ OnWire' = SubSeq(Wire, 1, m)
      BY <1>9, <1>10 DEF Began, OnWire
    <3> QED BY <1>9, <1>10, <3>1 DEF StreamFollowed
  <2>1. Becomes' = StateOf(f, d.inside, Gathered(Got(t, c), d.due))
    BY <1>2, <1>9, <1>10 DEF Becomes
  <2> DEFINE start == Began
             w == SubSeq(Wire, 1, m)
  <2>2. InStep(f, start, State(f, attempt.inside, t, c), attempt.buffer, <<piece>> \o q, w)
    BY <1>2
  <2>3. f # "get" /\ piece \in Pieces(f) /\ q \in Seq(Pieces(f))
    OBVIOUS
  <2> HIDE DEF f, start, w, q
  <2>4. InStep(f, start, StateOf(f, d.inside, Gathered(Got(t, c), d.due)), d.buffer, q, w)
    BY <1>3, <1>4, <2>2, <2>3, DecodingKeepsStep DEF d
  <2> QED BY <2>1, <2>4 DEF start, w, q
<1> QED BY <1>8, <1>9, <1>10, <1>11, <1>12

\* What the handler pulls it has.
LEMMA PullStreams ==
    ASSUME SInv, Pull PROVE SInv'
<1> DEFINE a == attempt
           due == Tail(attempt.due)
           chunk == Head(attempt.due)
           f == Format[Provider]
<1>1. /\ stage = "holding" /\ got' = Gather(got, chunk)
      /\ attempt' = [a EXCEPT !.due = due, !.emitted = TRUE]
      /\ stage' = IF Len(attempt.due) = 1 THEN "looping" ELSE "holding"
      /\ UNCHANGED <<queue, socket, order, at, aborted, mark>>
  BY DEF Pull, watchVars
<1>2. StreamTyped /\ StreamStaged /\ StreamFollowed /\ attempt \in Attempt
  BY DEF SInv, StreamTyped
<1>3. attempt.due \in Seq(Chunk) /\ attempt.due # <<>> /\ attempt.reply \in Replies[Provider]
  BY <1>1, <1>2, AttemptParts DEF StreamStaged, StreamTyped
<1>4. /\ chunk \in Chunk /\ due \in Seq(Chunk) /\ attempt.due = <<chunk>> \o due
      /\ (Len(attempt.due) = 1) <=> (due = <<>>)
  <2> DEFINE s == attempt.due
  <2>1. s \in Seq(Chunk) /\ s # <<>>
    BY <1>3
  <2> HIDE DEF s
  <2>2. Head(s) \in Chunk /\ Tail(s) \in Seq(Chunk) /\ (Len(s) = 1 <=> Tail(s) = <<>>)
    <3>1. Head(s) \in Chunk /\ Tail(s) \in Seq(Chunk) /\ Len(Tail(s)) = Len(s) - 1
      BY <2>1, HeadTailProperties
    <3>2. Len(s) \in Nat /\ (Len(Tail(s)) = 0 <=> Tail(s) = <<>>)
      BY <2>1, <3>1, EmptySeq
    <3> QED BY <3>1, <3>2
  <2>3. s = <<Head(s)>> \o Tail(s)
    BY <2>1, HeadFirst
  <2> QED BY <2>2, <2>3 DEF s
<1> HIDE DEF due, chunk
<1>5. /\ attempt' \in Attempt /\ attempt'.reply = a.reply /\ attempt'.sent = a.sent
      /\ attempt'.buffer = a.buffer /\ attempt'.inside = a.inside /\ attempt'.due = due
  <2> DEFINE b == [a EXCEPT !.due = due, !.emitted = TRUE]
  <2>1. /\ b \in Attempt /\ b.reply = a.reply /\ b.sent = a.sent /\ b.buffer = a.buffer
        /\ b.inside = a.inside /\ b.due = due
    <3> DEFINE emitted == TRUE
    <3>1. emitted \in BOOLEAN
      OBVIOUS
    <3> HIDE DEF emitted, a
    <3>2. LET e == [a EXCEPT !.due = due, !.emitted = emitted]
          IN  /\ e \in Attempt /\ e.reply = a.reply /\ e.sent = a.sent /\ e.buffer = a.buffer
              /\ e.inside = a.inside /\ e.due = due
      BY <1>2, <1>4, <3>1, AttemptPulls DEF a
    <3> QED BY <3>2 DEF emitted
  <2> QED BY <1>1, <2>1
<1>6. Provider' = Provider /\ Wire' = Wire
  BY <1>1, <1>5 DEF Provider, Wire
<1>7. IsGot(got')
  <2>1. PICK t \in Seq(STRING) : \E c : got = Got(t, c)
    BY <1>2 DEF StreamTyped, IsGot
  <2>2. PICK c : got = Got(t, c)
    BY <2>1
  <2>3. \E u \in Seq(STRING) : \E e : Gather(Got(t, c), chunk) = Got(u, e)
    BY <1>4, GatherTyped
  <2> QED BY <1>1, <2>2, <2>3 DEF IsGot
<1>8. Gathered(got', due) = Gathered(got, attempt.due)
  <2>1. Gathered(got, <<chunk>> \o due) = Gathered(Gathered(got, <<chunk>>), due)
    BY <1>4, OneWord, GatheredConcat
  <2>2. Gathered(got, <<chunk>>) = Gather(got, chunk)
    BY <1>4, GatheredFew
  <2> QED BY <1>1, <1>4, <2>1, <2>2
<1>9. StreamTyped'
  <2>1. Parser(f, attempt')
    BY <1>2, <1>5 DEF Parser, StreamTyped
  <2> QED BY <1>1, <1>2, <1>3, <1>5, <1>6, <1>7, <2>1 DEF StreamTyped
<1>10. StreamStaged'
  BY <1>1, <1>2, <1>4, <1>5, <1>6 DEF StreamStaged, Running
<1>11. StreamFollowed'
  <2>1. Becomes' = Becomes /\ Began' = Began /\ OnWire' = OnWire
    BY <1>1, <1>5, <1>6, <1>8 DEF Becomes, Began, OnWire
  <2> QED BY <1>1, <1>2, <1>5, <1>6, <2>1 DEF StreamFollowed
<1> QED BY <1>9, <1>10, <1>11 DEF SInv

\* The network brings the next part of the reply.
LEMMA SendStreams ==
    ASSUME SInv, Format[Provider] # "get", NEW n \in Nat \ {0}, Send(n)
    PROVE  SInv'
<1> DEFINE f == Format[Provider]
           m == attempt.sent
           k == m + n
           w == Wire
           piece == SubSeq(Wire, attempt.sent + 1, attempt.sent + n)
<1>1. StreamTyped /\ StreamStaged /\ StreamFollowed
  BY DEF SInv
<1>2. socket = "open" /\ k <= Len(w) /\ UNCHANGED <<socket, order, at, aborted, got, mark>>
  BY DEF Send
<1>3. m \in Nat /\ attempt \in Attempt /\ w \in Pieces(f) /\ Len(w) \in Nat /\ m <= Len(w)
  <2>1. m \in Nat /\ attempt \in Attempt /\ w \in Pieces(f) /\ w \in Seq(Atom)
    BY <1>1, WireKnown, AttemptParts DEF StreamTyped
  <2>2. Len(w) \in Nat
    BY <2>1
  <2> QED BY <1>1, <2>1, <2>2 DEF StreamTyped
<1>4. piece \in Pieces(f) /\ OnWire \in Pieces(f) /\ OnWire \o piece = SubSeq(w, 1, k)
  <2>1. /\ SubSeq(w, 1, m) \in Pieces(f) /\ SubSeq(w, m + 1, m + n) \in Pieces(f)
        /\ SubSeq(w, 1, m) \o SubSeq(w, m + 1, m + n) = SubSeq(w, 1, m + n)
    <3> HIDE DEF m, w, f
    <3> QED BY <1>2, <1>3, PartsOfPiece
  <2> QED BY <2>1 DEF OnWire
<1>5. attempt.reply \in Replies[Provider] /\ attempt.buffer \in Seq(Delta)
      /\ queue \in Seq(Pieces(f))
  <2>1. stage # "new"
    BY DEF Send
  <2> QED BY <1>1, <2>1 DEF StreamTyped, Parser
<1>6. InStep(f, Began, Becomes, attempt.buffer, Append(queue, piece), SubSeq(w, 1, k))
  <2>1. InStep(f, Began, Becomes, attempt.buffer, queue, OnWire)
    BY <1>1, <1>2 DEF StreamFollowed
  <2> DEFINE start == Began
             now == Becomes
             b == attempt.buffer
             sent == OnWire
  <2> HIDE DEF f, piece, w, k, start, now, b, sent
  <2>2. InStep(f, start, now, b, Append(queue, piece), sent \o piece)
    BY <1>4, <1>5, <2>1, ArrivalKeepsStep DEF start, now, b, sent
  <2> QED BY <1>4, <2>2 DEF start, now, b, sent
<1>7. CASE stage = "reading"
  <2>1. Take(piece, n) /\ queue' = queue
    BY <1>7 DEF Send
  <2>2. queue = <<>> /\ attempt.due = <<>>
    BY <1>1, <1>7 DEF StreamStaged
  <2>3. Append(queue, piece) = <<piece>> \o queue'
    <3>1. Append(queue, piece) = <<piece>> /\ <<piece>> \in Seq(Pieces(f))
      BY <1>4, <2>2
    <3>2. <<piece>> \o <<>> = <<piece>>
      BY <3>1, ConcatEmptySeq
    <3> QED BY <2>1, <2>2, <3>1, <3>2
  <2> HIDE DEF piece
  <2>4. /\ StreamTyped' /\ StreamFollowed' /\ Provider' = Provider
        /\ stage' = IF attempt'.due = <<>> THEN "looping" ELSE "holding"
    <3>1. n \in Nat /\ attempt.sent + n <= Len(Wire) /\ queue' \in Seq(Pieces(Format[Provider]))
      BY <1>2, <1>5, <2>1
    <3>2. InStep(Format[Provider], Began, Becomes, attempt.buffer, <<piece>> \o queue',
                 SubSeq(Wire, 1, attempt.sent + n))
      BY <1>6, <2>3
    <3> QED BY <1>1, <1>2, <1>4, <1>5, <2>1, <2>2, <3>1, <3>2, TakeStreams
  <2>5. StreamStaged'
    BY <1>2, <2>1, <2>2, <2>4 DEF StreamStaged, Running
  <2> QED BY <2>4, <2>5 DEF SInv
<1>8. CASE stage = "holding"
  <2>1. /\ queue' = Append(queue, piece) /\ stage' = stage
        /\ attempt' = [attempt EXCEPT !.sent = k]
    BY <1>8 DEF Send
  <2>2. /\ attempt' \in Attempt /\ attempt'.reply = attempt.reply /\ attempt'.sent = k
        /\ attempt'.buffer = attempt.buffer /\ attempt'.inside = attempt.inside
        /\ attempt'.due = attempt.due
    <3>1. k \in Nat
      BY <1>3
    <3> HIDE DEF k
    <3> QED BY <1>3, <2>1, <3>1, AttemptSends
  <2>3. Provider' = Provider /\ Wire' = Wire
    BY <1>2, <2>2 DEF Provider, Wire
  <2>4. StreamTyped'
    <3>1. Parser(f, attempt')
      BY <1>1, <2>2 DEF Parser, StreamTyped
    <3>2. k \in 0..Len(w) /\ Append(queue, piece) \in Seq(Pieces(f))
      BY <1>2, <1>3, <1>4, <1>5
    <3> HIDE DEF k, piece
    <3> QED BY <1>1, <1>2, <1>5, <2>1, <2>2, <2>3, <3>1, <3>2 DEF StreamTyped
  <2>5. StreamStaged'
    BY <1>1, <1>2, <1>8, <2>1, <2>2, <2>3 DEF StreamStaged, Running
  <2>6. StreamFollowed'
    <3>1. Becomes' = Becomes /\ Began' = Began /\ OnWire' = SubSeq(w, 1, k)
      BY <1>2, <2>2, <2>3 DEF Becomes, Began, OnWire
    <3> HIDE DEF k, piece
    <3> QED BY <1>6, <2>1, <2>2, <2>3, <3>1 DEF StreamFollowed
  <2> QED BY <2>4, <2>5, <2>6 DEF SInv
<1> QED BY <1>7, <1>8 DEF Send

\* The head of the read loop.
LEMMA LoopStreams ==
    ASSUME SInv, Loop PROVE SInv'
<1> DEFINE f == Format[Provider]
<1>1. /\ StreamTyped /\ StreamStaged /\ StreamFollowed
      /\ stage = "looping" /\ attempt.due = <<>> /\ UNCHANGED <<aborted, got>>
      /\ aborted \in BOOLEAN
  BY DEF SInv, StreamStaged, StreamTyped, Loop
<1>2. CASE AttemptFails
  BY <1>1, <1>2, FailsStreams
<1>3. CASE AttemptEnds /\ AtEnd
  BY <1>1, <1>3, EndsStreams DEF AtEnd
<1>4. CASE /\ UNCHANGED <<order, at, mark>>
           /\ \E piece \in Range(queue) : ReadNext(piece) /\ Take(piece, 0)
  <2>1. PICK piece : ReadNext(piece) /\ Take(piece, 0)
    BY <1>4
  <2>2. /\ queue # <<>> /\ piece = Head(queue) /\ queue' = Tail(queue)
        /\ UNCHANGED socket
    BY <2>1 DEF ReadNext
  <2>3. piece \in Pieces(f) /\ queue' \in Seq(Pieces(f)) /\ queue = <<piece>> \o queue'
    <3> DEFINE G == Pieces(f)
    <3>1. queue \in Seq(G)
      BY <1>1 DEF StreamTyped
    <3> HIDE DEF G
    <3>2. Head(queue) \in G /\ Tail(queue) \in Seq(G) /\ queue = <<Head(queue)>> \o Tail(queue)
      BY <2>2, <3>1, HeadTailProperties, HeadFirst
    <3> QED BY <2>2, <3>2 DEF G
  <2>4. f # "get"
    BY <1>1, <2>2 DEF StreamStaged
  <2>5. 0 \in Nat /\ attempt.sent + 0 <= Len(Wire) /\ attempt.sent + 0 = attempt.sent
    <3>1. Wire \in Seq(Atom) /\ attempt.sent \in Nat
      BY <1>1, WireKnown, AttemptParts DEF StreamTyped
    <3>2. Len(Wire) \in Nat
      BY <3>1
    <3> QED BY <1>1, <3>1, <3>2 DEF StreamTyped
  <2>6. socket \in {"open", "closed"} =>
            InStep(f, Began, Becomes, attempt.buffer, <<piece>> \o queue',
                   SubSeq(Wire, 1, attempt.sent + 0))
    BY <1>1, <2>3, <2>5 DEF StreamFollowed, OnWire
  <2>7. attempt.reply \in Replies[Provider]
    BY <1>1 DEF StreamTyped
  <2>8. /\ StreamTyped' /\ StreamFollowed' /\ Provider' = Provider
        /\ stage' = IF attempt'.due = <<>> THEN "looping" ELSE "holding"
    <3> DEFINE z == 0
    <3>1. z \in Nat /\ attempt.sent + z <= Len(Wire) /\ Take(piece, z)
      BY <2>1, <2>5
    <3>2. socket \in {"open", "closed"} =>
            InStep(f, Began, Becomes, attempt.buffer, <<piece>> \o queue',
                   SubSeq(Wire, 1, attempt.sent + z))
      BY <2>6
    <3> HIDE DEF z
    <3> QED BY <1>1, <1>4, <2>2, <2>3, <2>4, <2>7, <3>1, <3>2, TakeStreams
  <2>9. StreamStaged'
    <3>1. socket # "cancelled"
      BY <1>1, <2>2 DEF StreamStaged
    <3> QED BY <1>1, <2>2, <2>4, <2>8, <3>1 DEF StreamStaged, Running
  <2> QED BY <2>8, <2>9 DEF SInv
<1>5. CASE AwaitRead /\ stage' = "reading" /\ UNCHANGED <<order, at, attempt, mark>>
  <2>1. queue = <<>> /\ socket = "open" /\ UNCHANGED <<queue, socket>>
    BY <1>5 DEF AwaitRead
  <2>2. StreamTyped' /\ StreamFollowed'
    BY <1>1, <1>5, <2>1, SameStream
  <2>3. StreamStaged'
    BY <1>1, <1>5, <2>1 DEF StreamStaged, Running
  <2> QED BY <2>2, <2>3 DEF SInv
<1> QED BY <1>1, <1>2, <1>3, <1>4, <1>5 DEF Loop

\* The end of a stream the handler does not read at the time.
LEMMA SocketStreams ==
    ASSUME SInv, stage = "holding", socket = "open",
           UNCHANGED <<stage, order, at, attempt, got, mark>>,
           aborted' \in BOOLEAN, aborted => aborted',
           \/ socket' = "closed" /\ queue' = queue
           \/ socket' = "failed" /\ queue' = <<>>
           \/ socket' = "cancelled" /\ queue' = <<>> /\ aborted'
    PROVE  SInv'
<1>1. Provider' = Provider /\ Wire' = Wire
  BY DEF Provider, Wire
<1>2. Began' = Began /\ Becomes' = Becomes /\ OnWire' = OnWire
  BY <1>1 DEF Began, Becomes, OnWire
<1>3. queue' \in Seq(Pieces(Format[Provider]))
  <2> DEFINE G == Pieces(Format[Provider])
  <2>1. queue \in Seq(G)
    BY DEF SInv, StreamTyped
  <2>2. <<>> \in Seq(G)
    OBVIOUS
  <2> HIDE DEF G
  <2>3. queue' \in Seq(G)
    BY <2>1, <2>2
  <2> QED BY <2>3 DEF G
<1>4. StreamTyped'
  BY <1>1, <1>3 DEF SInv, StreamTyped
<1>5. StreamStaged'
  BY <1>1 DEF SInv, StreamStaged
<1>6. StreamFollowed'
  BY <1>1, <1>2 DEF SInv, StreamFollowed
<1> QED BY <1>4, <1>5, <1>6 DEF SInv

\* No step breaks it.  It needs IInv: a stream that is over has nothing to come,
\* and pollinations-get none to read.
LEMMA SNext == IInv /\ SInv /\ [Next]_vars => SInv'
<1> SUFFICES ASSUME IInv, SInv, [Next]_vars PROVE SInv'
  OBVIOUS
<1>1. aborted \in BOOLEAN /\ order \in Orders /\ IsGot(got)
  BY DEF SInv, StreamTyped
<1>2. CASE Start
  <2>1. Call(1) /\ UNCHANGED <<aborted, got>>
    BY <1>2 DEF Start
  <2>2. 1 \in DOMAIN order
    BY ProviderKnown DEF SInv, StreamTyped
  <2> DEFINE i == 1
  <2>3. Call(i) /\ i \in DOMAIN order
    BY <2>1, <2>2
  <2> HIDE DEF i
  <2> QED BY <1>1, <2>1, <2>3, CallStreams
<1>3. CASE \/ FetchThrows \/ RefusalEnds \/ BodyThrows \/ HeartbeatTimeout \/ Leave
           \/ FetchAborted \/ ConnectTimeout \/ BodyAborted
  <2>1. AttemptFails /\ UNCHANGED <<aborted, got>> /\ stage # "new"
    BY <1>3 DEF FetchThrows, RefusalEnds, BodyThrows, HeartbeatTimeout, Leave, FetchAborted,
                ConnectTimeout, BodyAborted
  <2> QED BY <1>1, <2>1, FailsStreams
<1>4. CASE Respond \/ Refuse
  <2>1. /\ stage = "fetching" /\ UNCHANGED <<order, at, attempt, queue, socket, got, mark, aborted>>
        /\ stage' \in {"body", "reading", "refused"}
        /\ stage' = "body" => Format[Provider] = "get"
    BY <1>4 DEF Respond, Refuse, watchVars
  <2>2. StreamTyped' /\ StreamFollowed'
    BY <1>1, <2>1, SameStream DEF SInv
  <2>3. StreamStaged'
    <3>1. /\ attempt = Called(attempt.reply) /\ got = mark /\ socket = "open" /\ queue = <<>>
      BY <2>1 DEF SInv, StreamStaged
    <3>2. attempt.due = <<>>
      BY <3>1, WireKnown, CalledTyped DEF SInv
    <3> QED BY <2>1, <3>1, <3>2 DEF StreamStaged, Provider, Running
  <2> QED BY <2>2, <2>3 DEF SInv
<1>5. CASE BodyEnds
  <2>1. Format[Provider] = "get"
    BY <1>5 DEF BodyEnds, SInv, StreamStaged
  <2> QED BY <1>5, <2>1, BodyStreams
<1>6. CASE Loop
  BY <1>6, LoopStreams
<1>7. CASE Pull
  BY <1>7, PullStreams
<1>8. CASE \E n \in 1..Len(Wire) : Send(n)
  <2>1. PICK n \in 1..Len(Wire) : Send(n)
    BY <1>8
  <2>2. n \in Nat \ {0}
    OBVIOUS
  <2>3. Format[Provider] # "get"
    <3>1. socket = "open" /\ stage \in {"reading", "holding"}
      BY <2>1 DEF Send
    <3> QED BY <3>1 DEF IInv, StreamOver, GetReadsNone
  <2> QED BY <2>1, <2>2, <2>3, SendStreams
<1>9. CASE UpstreamCloses
  <2>1. CASE stage = "reading"
    <3>1. AttemptEnds /\ UNCHANGED <<aborted, got>>
      BY <1>9, <2>1 DEF UpstreamCloses
    <3>2. queue = <<>> /\ socket = "open"
      BY <2>1 DEF SInv, StreamStaged
    <3> QED BY <1>1, <2>1, <3>1, <3>2, EndsStreams
  <2>2. CASE stage # "reading"
    <3>1. /\ stage = "holding" /\ socket = "open" /\ socket' = "closed"
          /\ UNCHANGED <<queue, stage, order, at, attempt, got, mark, aborted>>
      BY <1>9, <2>2 DEF UpstreamCloses
    <3> QED BY <1>1, <3>1, SocketStreams
  <2> QED BY <2>1, <2>2
<1>10. CASE UpstreamFails
  <2>1. CASE stage = "reading"
    <3>1. AttemptFails /\ UNCHANGED <<aborted, got>>
      BY <1>10, <2>1 DEF UpstreamFails
    <3> QED BY <1>1, <2>1, <3>1, FailsStreams
  <2>2. CASE stage # "reading"
    <3>1. /\ stage = "holding" /\ socket = "open" /\ socket' = "failed" /\ queue' = <<>>
          /\ UNCHANGED <<stage, order, at, attempt, got, mark, aborted>>
      BY <1>10, <2>2 DEF UpstreamFails
    <3> QED BY <1>1, <3>1, SocketStreams
  <2> QED BY <2>1, <2>2
<1>11. CASE Abort
  <2>1. /\ aborted' = TRUE /\ got' = got /\ stage # "new" /\ aborted = FALSE
    BY <1>11 DEF Abort, Running
  <2>2. CASE stage = "reading" /\ AttemptEnds
    <3>1. queue = <<>> /\ socket = "open"
      BY <2>2 DEF SInv, StreamStaged
    <3> QED BY <2>1, <2>2, <3>1, EndsStreams
  <2>3. CASE stage = "holding" /\ CancelReader /\ UNCHANGED <<stage, order, at, attempt, mark>>
    <3>1. socket' = "cancelled" /\ queue' = <<>>
      BY <2>3 DEF CancelReader
    <3>2. Provider' = Provider /\ Wire' = Wire
      BY <2>3 DEF Provider, Wire
    <3>3. StreamTyped'
      BY <2>1, <2>3, <3>1, <3>2 DEF SInv, StreamTyped
    <3>4. StreamStaged'
      BY <2>1, <2>3, <3>1, <3>2 DEF SInv, StreamStaged
    <3>5. StreamFollowed'
      BY <3>1 DEF StreamFollowed
    <3> QED BY <3>3, <3>4, <3>5 DEF SInv
  <2>4. CASE UNCHANGED <<watchVars, stage, order, at, attempt, mark>>
    <3>1. StreamTyped' /\ StreamFollowed'
      BY <2>1, <2>4, SameStream DEF SInv, watchVars
    <3>2. StreamStaged'
      BY <2>1, <2>4 DEF SInv, StreamStaged, Provider, watchVars
    <3> QED BY <3>1, <3>2 DEF SInv
  <2> QED BY <1>11, <2>2, <2>3, <2>4 DEF Abort
<1>12. CASE Pass
  <2>1. UNCHANGED <<order, at, attempt, queue, socket, got, mark, aborted, stage>> /\ stage # "new"
    BY <1>12 DEF Pass, Tick, Running
  <2>2. StreamTyped' /\ StreamFollowed'
    BY <1>1, <2>1, SameStream DEF SInv
  <2>3. StreamStaged'
    BY <2>1 DEF SInv, StreamStaged, Provider
  <2> QED BY <2>2, <2>3 DEF SInv
<1>13. CASE UNCHANGED vars
  <2>1. UNCHANGED <<order, at, attempt, queue, socket, got, mark, aborted, stage>>
    BY <1>13 DEF vars, watchVars
  <2>2. Provider' = Provider /\ Wire' = Wire
    BY <2>1 DEF Provider, Wire
  <2>3. Began' = Began /\ Becomes' = Becomes /\ OnWire' = OnWire
    BY <2>1, <2>2 DEF Began, Becomes, OnWire
  <2>4. StreamTyped' /\ StreamStaged'
    BY <2>1, <2>2 DEF SInv, StreamTyped, StreamStaged
  <2>5. StreamFollowed'
    BY <2>1, <2>2, <2>3 DEF SInv, StreamFollowed
  <2> QED BY <2>4, <2>5 DEF SInv
<1> QED BY <1>2, <1>3, <1>4, <1>5, <1>6, <1>7, <1>8, <1>9, <1>10, <1>11, <1>12, <1>13
        DEF Next, Network

LEMMA AlwaysInStep == Spec => [](IInv /\ SInv)
<1>1. Init => IInv /\ SInv
  BY InitInv, SInit
<1>2. IInv /\ SInv /\ [Next]_vars => IInv' /\ SInv'
  BY StepInv, SNext
<1> QED BY <1>1, <1>2, PTL DEF Spec
-----------------------------------------------------------------------------
(***************************************************************************)
(* What the handler has                                                    *)
(***************************************************************************)

\* What is read of whole deltas: the calls, and the visible text.
Seen(f, t, c, s, u, e) ==
    /\ e = Collected(c, Fragments(s))
    /\ f = "airforce" => Torn(s) \/ u = t \o StripThinkTags(Text(s))
    /\ f # "airforce" => u = t \o Text(s)

LEMMA ReadVisible ==
    ASSUME NEW f, NEW t \in Seq(STRING), NEW c, NEW s \in Seq(Delta), NEW inside, NEW u, NEW e,
           Reading(State(f, FALSE, t, c), s) = State(f, inside, u, e)
    PROVE  Seen(f, t, c, s, u, e)
<1> DEFINE x == State(f, FALSE, t, c)
           y == State(f, inside, u, e)
<1>1. x.calls = c /\ y.calls = e /\ y.text = u
  BY DEF State
<1>2. Reading(x, s).calls = Collected(x.calls, Fragments(s))
  <2> HIDE DEF x
  <2> QED BY CallsRead
<1>3. e = Collected(c, Fragments(s))
  BY <1>1, <1>2
<1>4. ASSUME f = "airforce", ~Torn(s) PROVE u = t \o StripThinkTags(Text(s))
  <2> DEFINE text == Text(s)
             strip == StripInline(text, FALSE)
             z == State("airforce", strip.inside, t \o strip.out, Collected(c, Fragments(s)))
  <2>1. text \in Seq(STRING)
    BY TextFacts
  <2>2. Reading(State("airforce", FALSE, t, c), s) = z
    BY <1>4, TagsRead DEF TagsAfter
  <2>3. y = z
    BY <1>4, <2>2
  <2>4. z.text = t \o strip.out
    BY DEF State
  <2>5. u = t \o strip.out
    BY <1>1, <2>3, <2>4
  <2> HIDE DEF text
  <2>6. strip.out = StripThinkTags(text)
    BY <2>1, InlineIsWhole
  <2> QED BY <2>5, <2>6 DEF text
<1>5. ASSUME f # "airforce" PROVE u = t \o Text(s)
  <2> DEFINE z == State(f, FALSE, t \o Text(s), Collected(c, Fragments(s)))
  <2>1. Reading(x, s) = z
    BY <1>5, PlainRead
  <2>2. z.text = t \o Text(s)
    BY DEF State
  <2> QED BY <1>1, <2>1, <2>2
<1> QED BY <1>3, <1>4, <1>5 DEF Seen

\* With nothing on its way, the handler has what the deltas that came in say.
LEMMA AllRead ==
    ASSUME SInv, queue = <<>>, attempt.due = <<>>, socket \in {"open", "closed"}
    PROVE  /\ got.calls = Collected(mark.calls, Fragments(Received))
           /\ Torn(Received) \/ got.text = mark.text \o Visible(Received)
           /\ Received = Incoming(Format[Provider], <<>>, OnWire)
<1> DEFINE f == Format[Provider]
           s == Incoming(f, <<>>, OnWire)
<1>1. StreamTyped /\ StreamFollowed
  BY DEF SInv
<1>2. OnWire \in Seq(Atom)
  BY <1>1, WireKnown DEF Pieces
<1>3. Received = s
  <2>1. <<>> \o OnWire = OnWire
    BY <1>2, ConcatEmptySeq
  <2> QED BY <2>1 DEF Received, Incoming, OnWire
<1>4. s \in Seq(Delta)
  <2> DEFINE none == <<>>
             w == OnWire
  <2>1. none \in Seq(Delta) /\ w \in Pieces(f)
    BY <1>1, WireKnown
  <2>2. w \in Seq(Atom)
    BY <1>2
  <2> HIDE DEF none, w, f
  <2>3. Incoming(f, none, w) \in Seq(Delta)
    BY <2>1, <2>2, IncomingTyped
  <2> QED BY <2>3 DEF none, w
<1>5. PICK t \in Seq(STRING) : \E c : mark = Got(t, c)
  BY <1>1 DEF StreamTyped, IsGot
<1>6. PICK c : mark = Got(t, c)
  BY <1>5
<1>7. PICK u \in Seq(STRING) : \E e : got = Got(u, e) /\ Becomes = State(f, attempt.inside, u, e)
  BY <1>1, BecomesNow
<1>8. PICK e : got = Got(u, e) /\ Becomes = State(f, attempt.inside, u, e)
  BY <1>7
<1>9. mark.text = t /\ mark.calls = c /\ got.text = u /\ got.calls = e
  BY <1>6, <1>8 DEF Got
<1>10. Began = State(f, FALSE, t, c)
  BY <1>9 DEF Began
<1>11. Reading(Becomes, Incoming(f, attempt.buffer, Flow(queue))) = Reading(Began, s)
  BY <1>1 DEF StreamFollowed, InStep
<1>12. Incoming(f, attempt.buffer, Flow(queue)) = <<>>
  <2>1. Flow(queue) = <<>>
    <3>1. <<>> \in Seq(Seq(Atom)) /\ <<>> \in Seq(Atom)
      OBVIOUS
    <3> QED BY <3>1, FlowFacts
  <2>2. attempt.buffer \in Seq(Delta)
    BY <1>1 DEF StreamTyped, Parser
  <2> QED BY <2>1, <2>2, IncomingNothing
<1>13. Reading(Becomes, <<>>) = Becomes
  <2>1. <<>> \in Seq(Delta)
    OBVIOUS
  <2> QED BY <2>1, ReadingFacts
<1> DEFINE inside == attempt.inside
<1>14. Reading(State(f, FALSE, t, c), s) = State(f, inside, u, e)
  BY <1>8, <1>10, <1>11, <1>12, <1>13
<1> HIDE DEF s, inside
<1>15. Seen(f, t, c, s, u, e)
  <2> HIDE DEF f
  <2> QED BY <1>4, <1>14, ReadVisible
<1>16. Visible(s) = IF f = "airforce" THEN StripThinkTags(Text(s)) ELSE Text(s)
  BY DEF Visible
<1>17. Torn(s) \/ u = t \o Visible(s)
  BY <1>15, <1>16 DEF Seen
<1> QED BY <1>3, <1>9, <1>15, <1>17 DEF s, Seen

\* However the network cuts a reply, of whatever length, into pieces: when a read
\* waits, the handler has the text and the fragments of the deltas that came in whole.
THEOREM CutsNeverMatter == Spec => []CutsDontMatter
<1>1. SInv => CutsDontMatter
  <2> SUFFICES ASSUME SInv, stage = "reading"
               PROVE  /\ Torn(Received) \/ got.text = mark.text \o Visible(Received)
                      /\ got.calls = FoldLeft(Accumulate, mark.calls, Fragments(Received))
    BY DEF CutsDontMatter
  <2>1. queue = <<>> /\ attempt.due = <<>> /\ socket = "open"
    BY DEF SInv, StreamStaged
  <2>2. Collected(mark.calls, Fragments(Received))
            = FoldLeft(Accumulate, mark.calls, Fragments(Received))
    BY DEF Collected
  <2> QED BY <2>1, <2>2, AllRead
<1> QED BY <1>1, AlwaysInStep, PTL

\* All of a reply on the wire: what came in are its deltas.
LEMMA WholeReply ==
    ASSUME StreamTyped, attempt.sent = Len(Wire) PROVE Received = attempt.reply.lines
<1> DEFINE f == Format[Provider]
           lines == attempt.reply.lines
<1>1. lines \in Seq(Delta) /\ Wire \in Seq(Atom)
  BY WireKnown DEF Reply
<1>2. SubSeq(Wire, 1, attempt.sent) = Wire
  BY <1>1, SubSeqFull
<1>3. Wire = Atoms(f, lines)
  BY DEF Wire
<1>4. CASE f = "yqcloud"
  <2>1. Atoms(f, lines) = lines
    BY <1>4 DEF Atoms
  <2> QED BY <1>2, <1>3, <1>4, <2>1 DEF Received
<1>5. CASE f # "yqcloud"
  <2>1. Lines(Atoms(f, lines)) = lines
    <3> HIDE DEF f, lines
    <3> QED BY <1>1, <1>5, LinesOfAtoms
  <2> QED BY <1>2, <1>3, <1>5, <2>1 DEF Received
<1> QED BY <1>4, <1>5

\* What the handler gathered of a reply that came whole, calls as they were streamed.
ReplyGathered ==
    stage = "done" /\ attempt.sent = Len(Wire) /\ ~aborted =>
        /\ \/ Torn(attempt.reply.lines)
           \/ got.text = mark.text \o Visible(attempt.reply.lines)
        /\ got.calls = Collected(mark.calls, Fragments(attempt.reply.lines))

LEMMA GatheredWhole == SInv => ReplyGathered
<1> SUFFICES ASSUME SInv, stage = "done", attempt.sent = Len(Wire), ~aborted
             PROVE  /\ \/ Torn(attempt.reply.lines)
                       \/ got.text = mark.text \o Visible(attempt.reply.lines)
                    /\ got.calls = Collected(mark.calls, Fragments(attempt.reply.lines))
  BY DEF ReplyGathered
<1>1. queue = <<>> /\ attempt.due = <<>> /\ socket \in {"open", "closed"}
  BY DEF SInv, StreamStaged
<1>2. Received = attempt.reply.lines
  BY WholeReply DEF SInv
<1> QED BY <1>1, <1>2, AllRead

\* A call that ends well after the whole reply of its last provider has the visible
\* text and every fragment of it, once each and in order.
THEOREM RepliesGathered == Spec => []ReplyGathered
<1>1. SInv => ReplyGathered
  BY GatheredWhole
<1> QED BY <1>1, AlwaysInStep, PTL

\* A reply whose fragments, taken one after the other, make the calls it meant.
Assembles(reply) ==
    LET calls == Collected(<<>>, Fragments(reply.lines))
    IN  \/ BuildToolCalls(calls) = reply.meant
        \/ \E i \in DOMAIN calls : calls[i].name = <<>> /\ LooksLikeOpenJson(calls[i].args)

\* If the handler assembles the calls of each reply when it has it in hand, then it
\* does so when the reply comes in pieces, over failovers and stalls.
THEOREM RepliesRestored ==
    ASSUME \A p \in Providers : \A reply \in Replies[p] : Assembles(reply)
    PROVE  Spec => []ReplyRestored
<1>1. SInv => ReplyRestored
  <2> SUFFICES ASSUME SInv, stage = "done", attempt.sent = Len(Wire), ~aborted
               PROVE  /\ \/ Torn(attempt.reply.lines)
                         \/ got.text = mark.text \o Visible(attempt.reply.lines)
                      /\ \/ mark.calls # <<>>
                         \/ TailLooksNew
                         \/ BuildToolCalls(got.calls) = attempt.reply.meant
    BY DEF ReplyRestored
  <2>1. /\ \/ Torn(attempt.reply.lines)
           \/ got.text = mark.text \o Visible(attempt.reply.lines)
        /\ got.calls = Collected(mark.calls, Fragments(attempt.reply.lines))
    BY GatheredWhole DEF ReplyGathered
  <2>2. Assembles(attempt.reply)
    <3>1. Provider \in Providers /\ attempt.reply \in Replies[Provider]
      BY ProviderKnown DEF SInv, StreamTyped, Provider
    <3> QED BY <3>1
  <2>3. ASSUME mark.calls = <<>>
        PROVE  TailLooksNew \/ BuildToolCalls(got.calls) = attempt.reply.meant
    <3>1. got.calls = Collected(<<>>, Fragments(attempt.reply.lines))
      BY <2>1, <2>3
    <3> QED BY <2>2, <3>1 DEF Assembles, TailLooksNew
  <2> QED BY <2>1, <2>3
<1> QED BY <1>1, AlwaysInStep, PTL
-----------------------------------------------------------------------------
(***************************************************************************)
(* Types, and the timer of each wait                                       *)
(***************************************************************************)

\* The timer that runs is the one of the stage, and is not overdue.
Timed == /\ period = Watched
         /\ quiet \in 0..(period + TimerSlack)
         /\ elapsed \in 0..Far

\* The waits, and what is set for them.
Periods == {0, FetchTimeoutMs, HeartbeatMs}

LEMMA TimesTyped ==
    /\ 0 \in 0..Far /\ Far \in Nat
    /\ \A ms \in Periods : 0 \in 0..(ms + TimerSlack)
  BY WatchdogAssumption DEF Far, Periods

LEMMA CallTimed ==
    ASSUME NEW i, Call(i) PROVE Timed'
<1>1. stage' = "fetching" /\ at' = i /\ order' = order /\ elapsed' = 0 /\ quiet' = 0
  BY DEF Call, ClearTimer, SetTimer
<1>2. Provider' = order[i]
  BY <1>1 DEF Provider
<1>3. period' = IF Format[order[i]] = "get" THEN 0 ELSE FetchTimeoutMs
  BY DEF Call, ClearTimer, SetTimer
<1>4. period' = Watched' /\ period' \in Periods
  BY <1>1, <1>2, <1>3 DEF Watched, Periods
<1> QED BY <1>1, <1>4, TimesTyped DEF Timed

LEMMA SettleTimed ==
    ASSUME Timed, NEW outcome \in Settled, Settle(outcome) PROVE Timed'
<1>1. stage' = outcome /\ period' = 0 /\ quiet' = 0 /\ elapsed' = elapsed
  BY DEF Settle, ClearTimer
<1>2. Watched' = 0
  BY <1>1 DEF Watched, Settled
<1> QED BY <1>1, <1>2, TimesTyped DEF Timed, Periods

LEMMA EndTimed ==
    ASSUME Timed, AttemptFails \/ AttemptEnds PROVE Timed'
<1>1. CASE Settle("failed") \/ Settle("done")
  <2>1. "failed" \in Settled /\ "done" \in Settled
    BY DEF Settled
  <2> QED BY <1>1, <2>1, SettleTimed
<1>2. CASE Call(at + 1)
  <2> DEFINE i == at + 1
  <2> HIDE DEF i
  <2> QED BY <1>2, CallTimed DEF i
<1> QED BY <1>1, <1>2 DEF AttemptFails, AttemptEnds

\* What leaves the timers alone, and the stage watched as it was.
LEMMA StillTimed ==
    ASSUME Timed, UNCHANGED <<period, quiet, elapsed>>, Watched' = Watched PROVE Timed'
  BY DEF Timed

\* Each step that changes a wait changes the timer.
LEMMA TNext == Timed /\ [Next]_vars => Timed'
<1> SUFFICES ASSUME Timed, [Next]_vars PROVE Timed'
  OBVIOUS
<1> DEFINE Calm == {"refused", "body", "looping", "holding"}
<1>1. CASE Start
  <2> DEFINE i == 1
  <2>1. Call(i)
    BY <1>1 DEF Start
  <2> HIDE DEF i
  <2> QED BY <2>1, CallTimed
<1>2. CASE AttemptFails \/ AttemptEnds
  BY <1>2, EndTimed
<1>3. CASE Respond
  <2>1. stage = "fetching" /\ Provider' = Provider
    BY <1>3 DEF Respond, Provider
  <2>2. CASE Format[Provider] = "get"
    <3>1. stage' = "body" /\ UNCHANGED <<period, quiet, elapsed>>
      BY <1>3, <2>2 DEF Respond, watchVars
    <3>2. Watched' = 0 /\ Watched = 0
      BY <2>1, <2>2, <3>1 DEF Watched
    <3> QED BY <3>1, <3>2, StillTimed
  <2>3. CASE Format[Provider] # "get"
    <3>1. stage' = "reading" /\ period' = HeartbeatMs /\ quiet' = 0 /\ elapsed' = 0
      BY <1>3, <2>3 DEF Respond, SetTimer
    <3>2. Watched' = HeartbeatMs
      BY <3>1 DEF Watched
    <3> QED BY <3>1, <3>2, TimesTyped DEF Timed, Periods
  <2> QED BY <2>2, <2>3
<1>4. CASE Refuse
  <2>1. stage' = "refused" /\ period' = 0 /\ quiet' = 0 /\ elapsed' = elapsed
    BY <1>4 DEF Refuse, ClearTimer
  <2>2. Watched' = 0
    BY <2>1 DEF Watched
  <2> QED BY <2>1, <2>2, TimesTyped DEF Timed, Periods
<1>5. CASE stage \in Calm /\ stage' \in Calm /\ UNCHANGED <<period, quiet, elapsed>>
  <2>1. Watched' = 0 /\ Watched = 0
    BY <1>5 DEF Watched
  <2> QED BY <1>5, <2>1, StillTimed
<1>6. CASE BodyEnds
  BY <1>5, <1>6 DEF BodyEnds
<1>7. CASE Pull
  BY <1>5, <1>7 DEF Pull, watchVars
<1>8. CASE Loop
  <2>1. CASE \E piece \in Range(queue) : ReadNext(piece) /\ Take(piece, 0)
    <3>1. UNCHANGED <<period, quiet, elapsed>> /\ stage' \in Calm
      BY <2>1 DEF ReadNext, Take
    <3> QED BY <1>5, <1>8, <3>1 DEF Loop
  <2>2. CASE AwaitRead /\ stage' = "reading"
    <3>1. period' = HeartbeatMs /\ quiet' = 0 /\ elapsed' = elapsed
      BY <2>2 DEF AwaitRead, SetTimer
    <3>2. Watched' = HeartbeatMs
      BY <2>2 DEF Watched
    <3> QED BY <3>1, <3>2, TimesTyped DEF Timed, Periods
  <2> QED BY <1>2, <1>8, <2>1, <2>2 DEF Loop
<1>9. CASE \E n \in 1..Len(Wire) : Send(n)
  <2>1. CASE stage = "reading"
    <3>1. period' = 0 /\ quiet' = 0 /\ elapsed' = elapsed /\ stage' \in Calm
      BY <1>9, <2>1 DEF Send, Take, ClearTimer
    <3>2. Watched' = 0
      BY <3>1 DEF Watched
    <3> QED BY <3>1, <3>2, TimesTyped DEF Timed, Periods
  <2>2. CASE stage # "reading"
    BY <1>5, <1>9, <2>2 DEF Send
  <2> QED BY <2>1, <2>2
<1>10. CASE UpstreamCloses \/ UpstreamFails
  BY <1>2, <1>5, <1>10 DEF UpstreamCloses, UpstreamFails
<1>11. CASE UNCHANGED <<period, quiet, elapsed, stage, order, at>>
  <2>1. Watched' = Watched
    BY <1>11 DEF Watched, Provider
  <2> QED BY <1>11, <2>1, StillTimed
<1>12. CASE Abort
  BY <1>2, <1>11, <1>12 DEF Abort, watchVars
<1>13. CASE Pass
  <2>1. UNCHANGED <<period, stage, order, at>>
    BY <1>13 DEF Pass, Tick
  <2>2. Watched' = Watched
    BY <2>1 DEF Watched, Provider
  <2>3. period \in Periods
    BY DEF Timed, Watched, Periods
  <2>4. quiet' \in 0..(period + TimerSlack)
    <3>1. CASE period = 0
      BY <1>13, <2>3, <3>1, TimesTyped DEF Pass, Tick
    <3>2. CASE period # 0
      <4>1. quiet < period + TimerSlack /\ quiet' = quiet + 1
        BY <1>13, <3>2 DEF Pass, Tick
      <4>2. period + TimerSlack \in Nat
        BY <2>3, WatchdogAssumption DEF Periods
      <4> QED BY <4>1, <4>2 DEF Timed
    <3> QED BY <3>1, <3>2
  <2>5. elapsed' \in 0..Far
    BY <1>13, TimesTyped DEF Pass, Tick, Timed
  <2> QED BY <2>1, <2>2, <2>4, <2>5 DEF Timed
<1>14. CASE UNCHANGED vars
  BY <1>11, <1>14 DEF vars, watchVars
<1>15. CASE \/ FetchThrows \/ RefusalEnds \/ BodyThrows \/ HeartbeatTimeout \/ Leave
            \/ FetchAborted \/ ConnectTimeout \/ BodyAborted
  BY <1>2, <1>15 DEF FetchThrows, RefusalEnds, BodyThrows, HeartbeatTimeout, Leave,
                     FetchAborted, ConnectTimeout, BodyAborted
<1> QED BY <1>1, <1>3, <1>4, <1>6, <1>7, <1>8, <1>9, <1>10, <1>12, <1>13, <1>14, <1>15
        DEF Next, Network

\* Everything keeps its type, and the timer that runs is the one the code set for the
\* wait: none while a body is awaited, none while the consumer holds a chunk.
THEOREM CompletionTypes == Spec => []CompletionTypeOK
<1>1. Init => Timed
  <2> SUFFICES ASSUME Init PROVE Timed
    OBVIOUS
  <2>1. period = 0 /\ quiet = 0 /\ elapsed = 0 /\ stage = "new"
    BY DEF Init
  <2>2. Watched = 0
    BY <2>1 DEF Watched
  <2> QED BY <2>1, <2>2, TimesTyped DEF Timed, Periods
<1>2. Spec => []Timed
  BY <1>1, TNext, PTL DEF Spec
<1>3. SInv /\ Timed => CompletionTypeOK
  <2> SUFFICES ASSUME SInv, Timed PROVE CompletionTypeOK
    OBVIOUS
  <2>1. queue \in Seq(Seq(Delta \cup {NewLine}))
    BY FlowPieces DEF SInv, StreamTyped, Atom
  <2>2. period \in {0, FetchTimeoutMs, HeartbeatMs}
    BY DEF Timed, Watched
  <2>3. WatchdogTypeOK(Seq(Delta \cup {NewLine}))
    BY <2>1, <2>2 DEF WatchdogTypeOK, SInv, StreamStaged, Timed
  <2> QED BY <2>3 DEF CompletionTypeOK, SInv, StreamTyped, StreamStaged, Timed
<1> QED BY <1>2, <1>3, AlwaysInStep, PTL
=============================================================================
