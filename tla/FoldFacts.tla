----------------------------- MODULE FoldFacts ------------------------------
(***************************************************************************)
(* What FoldLeft of the community modules returns, for one operator Op at  *)
(* a time: it starts from a base and takes the elements from the left.  A  *)
(* proof about a fold instantiates this module with its operator, since no *)
(* installed prover instantiates a theorem that has an operator for a      *)
(* parameter; inductions are over sets of numbers for the same reason.     *)
(***************************************************************************)
EXTENDS SequenceLemmas, FiniteSetTheorems

CONSTANT Op(_, _)

Fold(base, s) == FoldLeft(Op, base, s)

\* g folds the values of x over every subset of D, which loses c[T] next.
Folds(g, base, x, D, c) ==
    g = [T \in SUBSET D |-> IF T = {} THEN base ELSE Op(g[T \ {c[T]}], x[c[T]])]

Picks(D, c) == \A T \in SUBSET D : T # {} => c[T] \in T

\* The equation by which the library defines a fold has a solution.
LEMMA FoldExists ==
    ASSUME NEW D, IsFiniteSet(D), NEW base, NEW x, NEW c, Picks(D, c)
    PROVE  \E g : Folds(g, base, x, D, c)
<1> DEFINE Small(k) == {T \in SUBSET D : Cardinality(T) <= k}
           Eq(g, k) == g = [T \in Small(k) |->
                               IF T = {} THEN base ELSE Op(g[T \ {c[T]}], x[c[T]])]
           K == {k \in Nat : \E g : Eq(g, k)}
<1>1. \A T \in SUBSET D : /\ IsFiniteSet(T) /\ Cardinality(T) \in Nat
                          /\ Cardinality(T) = 0 <=> T = {}
  BY FS_Subset, FS_CardinalityType, FS_EmptySet
<1>2. 0 \in K
  <2>1. Small(0) = {{}}
    BY <1>1
  <2> DEFINE g == [T \in Small(0) |-> base]
  <2>2. Eq(g, 0)
    BY <2>1
  <2> QED BY <2>2
<1>3. ASSUME NEW k \in K PROVE k + 1 \in K
  <2>1. PICK g : Eq(g, k)
    OBVIOUS
  <2>2. Small(k) \subseteq Small(k + 1) /\ k + 1 \in Nat /\ k \in Nat
    BY <1>1
  <2> DEFINE h == [T \in Small(k + 1) |->
                      IF T = {} THEN base ELSE Op(g[T \ {c[T]}], x[c[T]])]
  <2>3. \A T \in Small(k) : h[T] = g[T]
    BY <2>1, <2>2
  <2>4. ASSUME NEW T \in Small(k + 1), T # {} PROVE T \ {c[T]} \in Small(k)
    <3>1. IsFiniteSet(T) /\ c[T] \in T /\ Cardinality(T) \in Nat
      BY <1>1, <2>4 DEF Picks
    <3>2. Cardinality(T \ {c[T]}) = Cardinality(T) - 1
      BY <3>1, FS_RemoveElement
    <3> QED BY <2>2, <3>1, <3>2
  <2>5. \A T \in Small(k + 1) : h[T] = IF T = {} THEN base ELSE Op(h[T \ {c[T]}], x[c[T]])
    BY <2>3, <2>4
  <2>6. Eq(h, k + 1)
    BY <2>5
  <2> QED BY <2>2, <2>6
<1>4. Cardinality(D) \in K
  <2>1. K \subseteq Nat
    OBVIOUS
  <2> HIDE DEF K
  <2>2. K = Nat
    BY <1>2, <1>3, <2>1, SetInduction
  <2>3. Cardinality(D) \in Nat
    BY FS_CardinalityType
  <2> QED BY <2>2, <2>3
<1>5. Small(Cardinality(D)) = SUBSET D
  BY <1>1, FS_Subset
<1>6. PICK g : Eq(g, Cardinality(D))
  BY <1>4
<1>7. Folds(g, base, x, D, c)
  BY <1>5, <1>6 DEF Folds
<1> QED BY <1>7

\* v lists the values of a fold over the beginnings of s.
Traces(v, base, s) == /\ v[0] = base
                      /\ \A k \in 1..Len(s) : v[k] = Op(v[k - 1], s[k])

LEMMA FoldTraced ==
    ASSUME NEW G, NEW s \in Seq(G), NEW base
    PROVE  \E v : Traces(v, base, s) /\ Fold(base, s) = v[Len(s)]
<1> DEFINE n == Len(s)
           D == DOMAIN s
           Body(g) == [T \in SUBSET D |->
                          IF T = {} THEN base ELSE Op(g[T \ {Max(T)}], s[Max(T)])]
           it == CHOOSE g : g = Body(g)
<1>1. n \in Nat /\ D = 1..n /\ IsFiniteSet(D)
  BY FS_Interval
<1>2. Fold(base, s) = it[D]
  BY DEF Fold, FoldLeft, MapThenFoldSet
<1>3. \A T \in SUBSET D : T # {} => Max(T) \in T /\ \A y \in T : y <= Max(T)
  BY <1>1, MaxOfNaturals
<1>4. \E g : g = Body(g)
  <2> DEFINE c == [T \in SUBSET D |-> Max(T)]
  <2>1. \A T \in SUBSET D : T # {} => c[T] \in T
    BY <1>3
  <2>2. PICK g : Folds(g, base, s, D, c)
    <3>1. IsFiniteSet(D)
      BY <1>1
    <3>2. Picks(D, c)
      BY <2>1 DEF Picks
    <3> HIDE DEF c, D
    <3> QED BY <3>1, <3>2, FoldExists
  <2>3. g = Body(g)
    BY <2>2 DEF Folds
  <2> QED BY <2>3
<1>5. it = Body(it)
  BY <1>4
<1> HIDE DEF it
<1> DEFINE v == [k \in 0..n |-> it[1..k]]
<1>6. ASSUME NEW k \in 1..n PROVE it[1..k] = Op(it[1..(k - 1)], s[k])
  <2>1. 1..k \in SUBSET D /\ 1..k # {}
    <3>1. k \in 1..k /\ \A j \in 1..k : j \in 1..n
      BY <1>1
    <3> QED BY <1>1, <3>1
  <2>2. Max(1..k) = k
    <3>1. Max(1..k) \in 1..k /\ k <= Max(1..k)
      BY <1>3, <2>1
    <3> QED BY <3>1
  <2>3. (1..k) \ {k} = 1..(k - 1)
    BY <1>1
  <2> QED BY <1>5, <2>1, <2>2, <2>3
<1>7. it[1..0] = base
  BY <1>5
<1>8. Traces(v, base, s) /\ v[n] = it[D]
  BY <1>1, <1>6, <1>7 DEF Traces
<1> QED BY <1>2, <1>8

LEMMA TracesAgree ==
    ASSUME NEW v, NEW w, NEW base, NEW s, NEW t, NEW n \in Nat,
           n <= Len(s), n <= Len(t), Len(s) \in Nat, Len(t) \in Nat,
           \A k \in 1..n : s[k] = t[k], Traces(v, base, s), Traces(w, base, t)
    PROVE  v[n] = w[n]
<1> DEFINE K == {k \in Nat : k <= n => v[k] = w[k]}
<1>1. 0 \in K
  BY DEF Traces
<1>2. ASSUME NEW k \in K PROVE k + 1 \in K
  <2> SUFFICES ASSUME k + 1 <= n PROVE v[k + 1] = w[k + 1]
    OBVIOUS
  <2>1. k + 1 \in 1..n /\ k + 1 - 1 = k /\ v[k] = w[k]
    OBVIOUS
  <2> QED BY <2>1 DEF Traces
<1>3. K = Nat
  BY <1>1, <1>2, SetInduction
<1> QED BY <1>3

\* A fold over nothing is its base.
THEOREM FoldEmpty == ASSUME NEW base PROVE Fold(base, <<>>) = base
<1>1. <<>> \in Seq({}) /\ Len(<<>>) = 0
  OBVIOUS
<1>2. PICK v : Traces(v, base, <<>>) /\ Fold(base, <<>>) = v[0]
  BY <1>1, FoldTraced
<1> QED BY <1>2 DEF Traces

\* One more element on the right is one more application.
THEOREM FoldAppend ==
    ASSUME NEW G, NEW s \in Seq(G), NEW e \in G, NEW base
    PROVE  Fold(base, Append(s, e)) = Op(Fold(base, s), e)
<1> DEFINE t == Append(s, e)
           n == Len(s)
<1>1. /\ t \in Seq(G) /\ n \in Nat /\ Len(t) = n + 1 /\ t[n + 1] = e
      /\ \A k \in 1..n : s[k] = t[k]
  OBVIOUS
<1>2. PICK v : Traces(v, base, s) /\ Fold(base, s) = v[n]
  BY FoldTraced
<1>3. PICK w : Traces(w, base, t) /\ Fold(base, t) = w[n + 1]
  BY <1>1, FoldTraced
<1> HIDE DEF t
<1>4. v[n] = w[n]
  BY <1>1, <1>2, <1>3, TracesAgree
<1>5. n + 1 \in 1..Len(t) /\ n + 1 - 1 = n
  BY <1>1
<1> QED BY <1>1, <1>2, <1>3, <1>4, <1>5 DEF Traces, t

\* What holds of the base and is kept by every element holds of the fold.
THEOREM FoldKeeps ==
    ASSUME NEW G, NEW s \in Seq(G), NEW S, NEW base \in S,
           \A a \in S, e \in G : Op(a, e) \in S
    PROVE  Fold(base, s) \in S
<1> DEFINE n == Len(s)
<1>1. n \in Nat /\ \A k \in 1..n : s[k] \in G
  OBVIOUS
<1>2. PICK v : Traces(v, base, s) /\ Fold(base, s) = v[n]
  BY FoldTraced
<1> DEFINE K == {k \in Nat : k <= n => v[k] \in S}
<1>3. 0 \in K
  BY <1>2 DEF Traces
<1>4. ASSUME NEW k \in K PROVE k + 1 \in K
  <2> SUFFICES ASSUME k + 1 <= n PROVE v[k + 1] \in S
    OBVIOUS
  <2>1. k + 1 \in 1..n /\ k + 1 - 1 = k /\ v[k] \in S
    OBVIOUS
  <2> QED BY <1>1, <1>2, <2>1 DEF Traces
<1>5. K = Nat
  BY <1>3, <1>4, SetInduction
<1> QED BY <1>1, <1>2, <1>5

\* A fold over two sequences goes on where the first one ended.
THEOREM FoldConcat ==
    ASSUME NEW G, NEW s \in Seq(G), NEW t \in Seq(G), NEW base
    PROVE  Fold(base, s \o t) = Fold(Fold(base, s), t)
<1> DEFINE u == s \o t
           m == Len(s)
           n == Len(t)
<1>1. /\ u \in Seq(G) /\ m \in Nat /\ n \in Nat /\ Len(u) = m + n
      /\ \A k \in 1..m : s[k] = u[k]
      /\ \A k \in 1..n : t[k] = u[m + k]
  BY ConcatProperties
<1>2. PICK v : Traces(v, base, s) /\ Fold(base, s) = v[m]
  BY FoldTraced
<1>3. PICK w : Traces(w, Fold(base, s), t) /\ Fold(Fold(base, s), t) = w[n]
  BY FoldTraced
<1>4. PICK x : Traces(x, base, u) /\ Fold(base, u) = x[m + n]
  BY <1>1, FoldTraced
<1> HIDE DEF u
<1>5. v[m] = x[m]
  <2>1. /\ m \in Nat /\ m <= Len(s) /\ m <= Len(u) /\ Len(s) \in Nat /\ Len(u) \in Nat
        /\ \A k \in 1..m : s[k] = u[k]
    BY <1>1
  <2> HIDE DEF m
  <2> QED BY <1>2, <1>4, <2>1, TracesAgree
<1> DEFINE K == {k \in Nat : k <= n => w[k] = x[m + k]}
<1>6. 0 \in K
  BY <1>1, <1>2, <1>3, <1>5 DEF Traces
<1>7. ASSUME NEW k \in K PROVE k + 1 \in K
  <2> SUFFICES ASSUME k + 1 <= n PROVE w[k + 1] = x[m + (k + 1)]
    OBVIOUS
  <2>1. k + 1 \in 1..n /\ k + 1 - 1 = k /\ w[k] = x[m + k]
    OBVIOUS
  <2>2. m + (k + 1) \in 1..Len(u) /\ m + (k + 1) - 1 = m + k
    BY <1>1, <2>1
  <2>3. u[m + (k + 1)] = t[k + 1]
    BY <1>1, <2>1
  <2> QED BY <1>3, <1>4, <2>1, <2>2, <2>3 DEF Traces
<1>8. K = Nat
  BY <1>6, <1>7, SetInduction
<1> QED BY <1>1, <1>3, <1>4, <1>8 DEF u
=============================================================================
