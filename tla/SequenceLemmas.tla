--------------------------- MODULE SequenceLemmas ---------------------------
(***************************************************************************)
(* Facts about numbers and sequences that the proofs share and the library *)
(* does not state.  Induction is over sets: an operator cannot be a parameter *)
(* of a theorem that is to be cited.                                       *)
(***************************************************************************)
EXTENDS Integers, SequencesExt, SequenceTheorems, WellFoundedInduction, TLAPS

\* Induction, over a set.
LEMMA SetInduction ==
  ASSUME NEW S, S \subseteq Nat, 0 \in S, \A n \in S : n + 1 \in S
  PROVE  S = Nat
<1> SUFFICES ASSUME S # Nat PROVE FALSE
  OBVIOUS
<1>1. PICK x \in Nat \ S : \A y \in Nat \ S : ~ (<<y, x>> \in OpToRel(<, Nat))
  BY NatLessThanWellFounded, WFMin
<1>2. OpToRel(<, Nat) = {ss \in Nat \X Nat : ss[1] < ss[2]}
  BY Zenon DEF OpToRel
<1>3. x - 1 \in Nat /\ x - 1 < x /\ x - 1 + 1 = x
  OBVIOUS
<1>4. <<x - 1, x>> \in Nat \X Nat /\ <<x - 1, x>>[1] = x - 1 /\ <<x - 1, x>>[2] = x
  BY <1>3
<1>5. <<x - 1, x>> \in OpToRel(<, Nat)
  BY <1>2, <1>3, <1>4, Zenon
<1>6. x - 1 \in S
  BY <1>1, <1>3, <1>5, Zenon
<1> QED BY <1>3, <1>6

\* g lists what n rounds of F make of a.
Iterates(g, F, a, n) == g[0] = a /\ \A k \in 1..n : g[k] = F[g[k - 1]]

LEMMA IterationExists ==
  ASSUME NEW S, NEW F \in [S -> S], NEW a \in S, NEW n \in Nat
  PROVE  \E g \in [0..n -> S] : Iterates(g, F, a, n)
<1> DEFINE K == {m \in Nat : \E g \in [0..m -> S] : Iterates(g, F, a, m)}
<1>1. 0 \in K
  <2> DEFINE g == [k \in 0..0 |-> a]
  <2>1. g \in [0..0 -> S] /\ Iterates(g, F, a, 0)
    BY DEF Iterates
  <2> QED BY <2>1
<1>2. ASSUME NEW m \in K PROVE m + 1 \in K
  <2>1. PICK g \in [0..m -> S] : Iterates(g, F, a, m)
    OBVIOUS
  <2> DEFINE h == [k \in 0..(m + 1) |-> IF k <= m THEN g[k] ELSE F[g[m]]]
  <2>2. h \in [0..(m + 1) -> S] /\ h[0] = g[0] /\ h[m + 1] = F[h[m]]
        /\ \A k \in 0..m : h[k] = g[k]
    OBVIOUS
  <2> HIDE DEF h
  <2>3. ASSUME NEW k \in 1..(m + 1) PROVE h[k] = F[h[k - 1]]
    <3>1. CASE k = m + 1
      BY <2>2, <3>1
    <3>2. CASE k \in 1..m
      BY <2>1, <2>2, <3>2 DEF Iterates
    <3> QED BY <3>1, <3>2
  <2>4. Iterates(h, F, a, m + 1)
    BY <2>1, <2>2, <2>3 DEF Iterates
  <2> QED BY <2>2, <2>4
<1>3. K = Nat
  BY <1>1, <1>2, SetInduction
<1> QED BY <1>3

\* v is c from p to q; a step from p to q that starts at c stays at c.
Constant(v, c, p, q) == \A k \in p..q : v[k] = c

Stays(v, c, p, q) == \A k \in (p + 1)..q : v[k - 1] = c => v[k] = c

LEMMA StaysConstant ==
  ASSUME NEW v, NEW c, NEW p \in Nat, NEW q, q \in Int, v[p] = c, Stays(v, c, p, q)
  PROVE  Constant(v, c, p, q)
<1> DEFINE K == {k \in Nat : p + k <= q => v[p + k] = c}
<1>1. 0 \in K
  OBVIOUS
<1>2. ASSUME NEW k \in K PROVE k + 1 \in K
  <2> SUFFICES ASSUME p + (k + 1) <= q PROVE v[p + (k + 1)] = c
    OBVIOUS
  <2>1. p + (k + 1) \in (p + 1)..q /\ p + (k + 1) - 1 = p + k /\ v[p + k] = c
    OBVIOUS
  <2> QED BY <2>1 DEF Stays
<1>3. K = Nat
  BY <1>1, <1>2, SetInduction
<1>4. ASSUME NEW k \in p..q PROVE v[k] = c
  <2> DEFINE d == k - p
  <2>1. d \in Nat /\ p + d = k /\ p + d <= q
    OBVIOUS
  <2> HIDE DEF d
  <2>2. d \in K
    BY <1>3, <2>1
  <2> QED BY <2>1, <2>2
<1> QED BY <1>4 DEF Constant

LEMMA MinOfNaturals ==
  ASSUME NEW S, S \subseteq Nat, S # {}
  PROVE  Min(S) \in S /\ \A y \in S : Min(S) <= y
<1>1. PICK x \in S : \A y \in S : ~ (<<y, x>> \in OpToRel(<, Nat))
  BY NatLessThanWellFounded, WFMin
<1>2. OpToRel(<, Nat) = {ss \in Nat \X Nat : ss[1] < ss[2]}
  BY Zenon DEF OpToRel
<1>3. ASSUME NEW y \in S PROVE x <= y
  <2>1. <<y, x>> \in Nat \X Nat /\ <<y, x>>[1] = y /\ <<y, x>>[2] = x
    OBVIOUS
  <2>2. ~(y < x)
    BY <1>1, <1>2, <2>1, Zenon
  <2> QED BY <2>2
<1> QED BY <1>3 DEF Min

LEMMA MaxOfNaturals ==
  ASSUME NEW n \in Nat, NEW S, S \subseteq 0..n, S # {}
  PROVE  Max(S) \in S /\ \A y \in S : y <= Max(S)
<1> DEFINE R == {n - y : y \in S}
<1>1. R \subseteq Nat /\ R # {}
  <2>1. \A y \in S : n - y \in Nat
    OBVIOUS
  <2>2. PICK y : y \in S
    OBVIOUS
  <2>3. n - y \in R
    BY <2>2
  <2> QED BY <2>1, <2>3, Zenon
<1>2. Min(R) \in R /\ \A z \in R : Min(R) <= z
  BY <1>1, MinOfNaturals
<1>3. PICK x \in S : Min(R) = n - x
  BY <1>2
<1>4. ASSUME NEW y \in S PROVE y <= x
  <2>1. n - y \in R /\ n - x <= n - y
    BY <1>2, <1>3
  <2> QED BY <2>1
<1>5. \E z \in S : \A y \in S : z >= y
  BY <1>4
<1> QED BY <1>5 DEF Max

\* Without its element i, a sequence keeps the others in their order.
LEMMA Removed ==
  ASSUME NEW G, NEW s \in Seq(G), NEW i \in DOMAIN s
  PROVE  /\ RemoveAt(s, i) \in Seq(G)
         /\ Len(RemoveAt(s, i)) = Len(s) - 1
         /\ \A j \in 1..(Len(s) - 1) : RemoveAt(s, i)[j] = IF j < i THEN s[j] ELSE s[j + 1]
<1> DEFINE a == SubSeq(s, 1, i - 1)
           b == SubSeq(s, i + 1, Len(s))
<1>1. Len(s) \in Nat /\ i \in 1..Len(s) /\ \A j \in 1..Len(s) : s[j] \in G
  OBVIOUS
<1>2. a \in Seq(G) /\ Len(a) = i - 1 /\ \A j \in 1..(i - 1) : a[j] = s[j]
  BY <1>1, SubSeqProperties
<1>3. b \in Seq(G) /\ Len(b) = Len(s) - i /\ \A j \in 1..(Len(s) - i) : b[j] = s[i + j]
  <2>1. CASE i = Len(s)
    BY <1>1, <2>1, SubSeqEmpty
  <2>2. CASE i < Len(s)
    BY <1>1, <2>2, SubSeqProperties
  <2> QED
    BY <1>1, <2>1, <2>2
<1>4. RemoveAt(s, i) = a \o b
  BY DEF RemoveAt
<1> HIDE DEF a, b
<1>5. /\ a \o b \in Seq(G) /\ Len(a \o b) = Len(s) - 1
      /\ \A j \in 1..(Len(s) - 1) :
             (a \o b)[j] = IF j <= i - 1 THEN a[j] ELSE b[j - (i - 1)]
  <2>1. /\ a \o b \in Seq(G) /\ Len(a \o b) = Len(a) + Len(b)
        /\ \A j \in 1..(Len(a) + Len(b)) :
               (a \o b)[j] = IF j <= Len(a) THEN a[j] ELSE b[j - Len(a)]
    BY <1>2, <1>3, ConcatProperties
  <2>2. Len(a) + Len(b) = Len(s) - 1 /\ Len(a) = i - 1
    BY <1>1, <1>2, <1>3
  <2> QED
    BY <2>1, <2>2
<1>6. ASSUME NEW j \in 1..(Len(s) - 1)
      PROVE  (a \o b)[j] = IF j < i THEN s[j] ELSE s[j + 1]
  <2>1. CASE j < i
    BY <1>1, <1>2, <1>5, <2>1
  <2>2. CASE j >= i
    <3>1. j - (i - 1) \in 1..(Len(s) - i) /\ i + (j - (i - 1)) = j + 1
      BY <1>1, <2>2
    <3>2. (a \o b)[j] = b[j - (i - 1)]
      BY <1>1, <1>5, <2>2
    <3>3. b[j - (i - 1)] = s[i + (j - (i - 1))]
      BY <1>3, <3>1
    <3> QED
      BY <1>1, <2>2, <3>1, <3>2, <3>3
  <2>3. j < i \/ j >= i
    BY <1>1
  <2> QED
    BY <2>1, <2>2, <2>3
<1> QED
  BY <1>4, <1>5, <1>6

\* A sequence that agrees with the end of another one is a suffix of it.
LEMMA Suffixed ==
  ASSUME NEW G, NEW s \in Seq(G), NEW t \in Seq(G), Len(s) <= Len(t),
         \A i \in 1..Len(s) : s[i] = t[Len(t) - Len(s) + i]
  PROVE  IsSuffix(s, t)
<1> DEFINE n == Len(s)
           u == Reverse(s)
           v == Reverse(t)
<1>1. n \in Nat /\ Len(t) \in Nat
  OBVIOUS
<1>2. /\ u \in Seq(G) /\ Len(u) = n
      /\ \A i \in 1..n : u[i] = s[n - i + 1]
  BY <1>1 DEF Reverse
<1>3. /\ v \in Seq(G) /\ Len(v) = Len(t)
      /\ \A i \in 1..Len(t) : v[i] = t[Len(t) - i + 1]
  BY <1>1 DEF Reverse
<1> HIDE DEF u, v
<1>4. \A i \in 1..n : u[i] = v[i]
  <2> SUFFICES ASSUME NEW i \in 1..n PROVE u[i] = v[i]
    OBVIOUS
  <2>1. n - i + 1 \in 1..n /\ i \in 1..Len(t)
        /\ Len(t) - n + (n - i + 1) = Len(t) - i + 1
    BY <1>1
  <2>2. s[n - i + 1] = t[Len(t) - n + (n - i + 1)]
    BY <2>1
  <2> QED
    BY <1>2, <1>3, <2>1, <2>2
<1>5. SubSeq(u, 1, n) = SubSeq(v, 1, n)
  <2>1. CASE n = 0
    BY <1>1, <2>1, SubSeqEmpty
  <2>2. CASE n > 0
    <3>1. /\ SubSeq(u, 1, n) \in Seq(G) /\ Len(SubSeq(u, 1, n)) = n
          /\ \A i \in 1..n : SubSeq(u, 1, n)[i] = u[i]
      BY <1>1, <1>2, <2>2, SubSeqProperties
    <3>2. /\ SubSeq(v, 1, n) \in Seq(G) /\ Len(SubSeq(v, 1, n)) = n
          /\ \A i \in 1..n : SubSeq(v, 1, n)[i] = v[i]
      BY <1>1, <1>3, <2>2, SubSeqProperties
    <3> QED
      BY <1>4, <3>1, <3>2, SeqEqual
  <2> QED
    BY <1>1, <2>1, <2>2
<1> QED
  BY <1>1, <1>2, <1>3, <1>5 DEF IsSuffix, IsPrefix, u, v

\* S goes down from n to one.
Descends(S, n) == n \in S /\ \A i \in 2..n : i \in S => i - 1 \in S

LEMMA DownToOne == ASSUME NEW n \in Nat \ {0}, NEW S, Descends(S, n) PROVE 1 \in S
<1> DEFINE K == {k \in Nat : k < n => n - k \in S}
<1>1. 0 \in K
  BY DEF Descends
<1>2. ASSUME NEW k \in K PROVE k + 1 \in K
  <2> SUFFICES ASSUME k + 1 < n PROVE n - (k + 1) \in S
    OBVIOUS
  <2>1. n - k \in 2..n /\ n - k \in S /\ n - k - 1 = n - (k + 1)
    OBVIOUS
  <2> QED BY <2>1 DEF Descends
<1> HIDE DEF K
<1>3. K = Nat
  <2>1. K \subseteq Nat
    BY DEF K
  <2> QED BY <1>1, <1>2, <2>1, SetInduction
<1>4. n - 1 \in K /\ n - (n - 1) = 1 /\ n - 1 < n
  BY <1>3
<1> QED BY <1>4 DEF K

LEMMA OneWord == ASSUME NEW S, NEW w \in S PROVE <<w>> \in Seq(S)
  OBVIOUS

\* Induction over sequences, for a set of them.
LEMMA AppendInduction ==
    ASSUME NEW S, NEW X, <<>> \in X, \A s \in Seq(S), e \in S : s \in X => Append(s, e) \in X
    PROVE  Seq(S) \subseteq X
<1> DEFINE K == {n \in Nat : \A s \in Seq(S) : Len(s) = n => s \in X}
<1>1. 0 \in K
  <2>1. \A s \in Seq(S) : Len(s) = 0 => s = <<>>
    OBVIOUS
  <2> QED BY <2>1
<1>2. ASSUME NEW n \in K PROVE n + 1 \in K
  <2> SUFFICES ASSUME NEW s \in Seq(S), Len(s) = n + 1 PROVE s \in X
    OBVIOUS
  <2>1. s # <<>>
    OBVIOUS
  <2>2. PICK r \in Seq(S), e \in S : s = Append(r, e)
    BY <2>1, SequenceEmptyOrAppend
  <2>3. Len(r) = n
    BY <2>2
  <2> QED BY <2>2, <2>3
<1> HIDE DEF K
<1>3. K = Nat
  <2>1. K \subseteq Nat
    BY DEF K
  <2> QED BY <1>1, <1>2, <2>1, SetInduction
<1>4. ASSUME NEW s \in Seq(S) PROVE s \in X
  <2>1. Len(s) \in K
    BY <1>3
  <2> QED BY <2>1 DEF K
<1> QED BY <1>4

LEMMA ConcatAppend ==
    ASSUME NEW S, NEW s \in Seq(S), NEW t \in Seq(S), NEW e \in S
    PROVE  s \o Append(t, e) = Append(s \o t, e)
<1>1. <<e>> \in Seq(S)
  BY OneWord
<1>2. Append(t, e) = t \o <<e>>
  BY AppendIsConcat
<1>3. s \o t \in Seq(S)
  BY ConcatProperties
<1>4. Append(s \o t, e) = (s \o t) \o <<e>>
  BY <1>3, AppendIsConcat
<1>5. (s \o t) \o <<e>> = s \o (t \o <<e>>)
  BY <1>1, ConcatAssociative
<1> QED BY <1>2, <1>4, <1>5

LEMMA HeadFirst == ASSUME NEW S, NEW s \in Seq(S), s # <<>> PROVE s = <<Head(s)>> \o Tail(s)
<1> DEFINE n == Len(s)
           one == 1
<1>1. one \in 1..n /\ n \in one..n /\ Head(s) = s[one] /\ one + 1 = 2
  OBVIOUS
<1>2. SubSeq(s, one, n) = s /\ Tail(s) = SubSeq(s, 2, n)
  BY SubSeqFull, TailIsSubSeq
<1> HIDE DEF n, one
<1>3. SubSeq(s, one, n) = <<s[one]>> \o SubSeq(s, one + 1, n)
  BY <1>1, SubSeqRecursiveFirst DEF n
<1> QED BY <1>1, <1>2, <1>3

\* The last element of two sequences in a row.
LEMMA LastOfConcat ==
    ASSUME NEW S, NEW s \in Seq(S), NEW t \in Seq(S)
    PROVE  /\ t = <<>> => s \o t = s
           /\ t # <<>> => Last(s \o t) = Last(t) /\ s \o t # <<>>
<1>1. /\ Len(s) \in Nat /\ Len(t) \in Nat /\ s \o t \in Seq(S) /\ Len(s \o t) = Len(s) + Len(t)
      /\ \A i \in 1..(Len(s) + Len(t)) : (s \o t)[i] = IF i <= Len(s) THEN s[i] ELSE t[i - Len(s)]
  BY ConcatProperties
<1>2. ASSUME t # <<>> PROVE Last(s \o t) = Last(t) /\ s \o t # <<>>
  <2> DEFINE u == s \o t
             k == Len(s) + Len(t)
  <2>1. Len(t) > 0
    BY <1>2
  <2>2. k \in 1..(Len(s) + Len(t)) /\ ~(k <= Len(s)) /\ k - Len(s) = Len(t)
    BY <1>1, <2>1
  <2>3. u[k] = t[Len(t)]
    BY <1>1, <2>2
  <2>4. Len(u) = k /\ k # 0
    BY <1>1, <2>1
  <2> HIDE DEF u, k
  <2>5. u # <<>>
    BY <2>4
  <2> QED BY <2>3, <2>4, <2>5 DEF Last, u
<1>3. t = <<>> => s \o t = s
  BY ConcatEmptySeq
<1> QED BY <1>2, <1>3

\* Cutting a sequence in two, and one that is an element longer.
LEMMA SubSeqOfAppend ==
    ASSUME NEW S, NEW s \in Seq(S), NEW e \in S, NEW l \in 0..Len(s)
    PROVE  /\ SubSeq(s, 1, l) \in Seq(S) /\ SubSeq(s, l + 1, Len(s)) \in Seq(S)
           /\ SubSeq(Append(s, e), 1, l) = SubSeq(s, 1, l)
           /\ SubSeq(Append(s, e), l + 1, Len(s) + 1) = Append(SubSeq(s, l + 1, Len(s)), e)
           /\ SubSeq(s, 1, l) \o SubSeq(s, l + 1, Len(s)) = s
           /\ Len(SubSeq(s, l + 1, Len(s))) = Len(s) - l
           /\ \A i \in 1..(Len(s) - l) : SubSeq(s, l + 1, Len(s))[i] = s[l + i]
<1> DEFINE t == Append(s, e)
           n == Len(s)
           a == SubSeq(s, 1, l)
           b == SubSeq(s, l + 1, n)
           c == SubSeq(t, 1, l)
           d == SubSeq(t, l + 1, n + 1)
<1>1. /\ t \in Seq(S) /\ n \in Nat /\ Len(t) = n + 1 /\ t[n + 1] = e
      /\ \A i \in 1..n : t[i] = s[i] /\ s[i] \in S
      /\ \A i \in 1..(n + 1) : t[i] \in S
  OBVIOUS
<1> HIDE DEF t
<1>2. a \in Seq(S) /\ Len(a) = l /\ \A i \in 1..l : a[i] = s[i]
  <2>1. \A i \in 1..l : s[i] \in S
    BY <1>1
  <2> QED BY <1>1, <2>1, SubSeqProperties
<1>3. b \in Seq(S) /\ Len(b) = n - l /\ \A i \in 1..(n - l) : b[i] = s[l + i]
  <2>1. \A i \in (l + 1)..n : s[i] \in S
    BY <1>1
  <2> QED BY <1>1, <2>1, SubSeqProperties
<1>4. c \in Seq(S) /\ Len(c) = l /\ \A i \in 1..l : c[i] = t[i]
  <2>1. \A i \in 1..l : t[i] \in S
    BY <1>1
  <2> QED BY <1>1, <2>1, SubSeqProperties
<1>5. d \in Seq(S) /\ Len(d) = n + 1 - l /\ \A i \in 1..(n + 1 - l) : d[i] = t[l + i]
  <2>1. \A i \in (l + 1)..(n + 1) : t[i] \in S
    BY <1>1
  <2> QED BY <1>1, <2>1, SubSeqProperties
<1>6. ASSUME a \in Seq(S), b \in Seq(S) PROVE a \o b = s
  <2> HIDE DEF a, b
  <2>1. /\ a \o b \in Seq(S) /\ Len(a \o b) = Len(a) + Len(b)
        /\ \A i \in 1..(Len(a) + Len(b)) : (a \o b)[i] = IF i <= Len(a) THEN a[i] ELSE b[i - Len(a)]
    BY <1>6, ConcatProperties
  <2>2. Len(a \o b) = n
    BY <1>1, <1>2, <1>3, <2>1
  <2>3. ASSUME NEW i \in 1..n PROVE (a \o b)[i] = s[i]
    <3>1. CASE i <= l
      BY <1>1, <1>2, <1>3, <2>1, <3>1
    <3>2. CASE i > l
      <4>1. i - l \in 1..(n - l) /\ l + (i - l) = i
        BY <1>1, <3>2
      <4>2. (a \o b)[i] = b[i - l]
        BY <1>1, <1>2, <1>3, <2>1, <3>2
      <4> QED BY <1>3, <4>1, <4>2
    <3>3. i <= l \/ i > l
      BY <1>1
    <3> QED BY <3>1, <3>2, <3>3
  <2> QED BY <2>1, <2>2, <2>3, SeqEqual
<1> HIDE DEF a, b, c, d
<1>7. c = a
  BY <1>1, <1>2, <1>4, SeqEqual
<1>8. d = Append(b, e)
  <2>1. /\ Append(b, e) \in Seq(S) /\ Len(Append(b, e)) = n - l + 1
        /\ \A i \in 1..(n - l) : Append(b, e)[i] = b[i]
        /\ Append(b, e)[n - l + 1] = e
    BY <1>3, AppendProperties
  <2>2. ASSUME NEW i \in 1..(n + 1 - l) PROVE d[i] = Append(b, e)[i]
    <3>1. CASE i = n + 1 - l
      BY <1>1, <1>5, <2>1, <3>1
    <3>2. CASE i \in 1..(n - l)
      <4>1. l + i \in 1..n
        BY <1>1, <3>2
      <4> QED BY <1>1, <1>3, <1>5, <2>1, <3>2, <4>1
    <3>3. i = n + 1 - l \/ i \in 1..(n - l)
      BY <1>1
    <3> QED BY <3>1, <3>2, <3>3
  <2> QED BY <1>1, <1>5, <2>1, <2>2, SeqEqual
<1> QED BY <1>1, <1>2, <1>3, <1>6, <1>7, <1>8 DEF a, b, c, d, t
=============================================================================
